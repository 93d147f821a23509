--------------------------- MODULE MCEvioReaders ---------------------------
(* Files for TLC.                                                          *)
EXTENDS EvioReaders, FiniteSetsExt

(* Sequences of at most n elements of S.                                   *)
UpTo(S, n) == UNION {[1..k -> S] : k \in 0..n}

(* Closed properly: up to three blocks and the trailer; an event of three  *)
(* words is shorter than an event header, one of nine does not fit in the  *)
(* first buffer.                                                           *)
MCClosedFiles ==
    {[blocks |-> Append(bs, <<>>), size |-> FullSize(bs) + HeaderLen] :
        bs \in UpTo(UpTo({3, 9}, 2) \ {<<>>}, 3)}

(* Cut anywhere, with or without a trailer, with empty blocks anywhere; and*)
(* a block of which the first event is less than a quarter.                *)
MCAnyFiles ==
    UNION {{[blocks |-> bs, size |-> s] : s \in 1..FullSize(bs)} :
        bs \in UpTo(UpTo({2, 9}, 2), 2) \cup UpTo(UpTo({7}, 1), 3) \cup {<<<<9, 60>>>>}}

(* Events of the other byte order, each of a length of its own.            *)
D(type, n) == Bank(type, Data(type, n))
S(type, n) == Segment(type, Data(type, n))
Event(damage, words) == [words |-> Bank("banks", words), damage |-> damage]
U32 == Data("u32", 2)
MCForeignEvents == {
    Event("none", Bank("segments", S("u16", 2) \o S("bytes", 1)) \o D("u64", 2)),
    Event("none", Bank("tagsegments", S("u64", 2)) \o Bank("banks", D("u16", 1) \o D("u32", 1))),
    Event("none", D("u16", 5) \o Bank("segments", S("u16", 6) \o S("bytes", 1))),
    Event("none", D("u16", 4) \o D("u32", 6)),
    Event("bank", Bank("banks", Bank("odd", U32) \o D("u32", 1)) \o D("u32", 4)),
    Event("bank", D("u32", 6) \o Bank("odd", U32)),
    Event("bank", Bank("banks", BankOf("u32", U32, 0)) \o D("u32", 8)),
    Event("bank", D("u32", 11) \o BankOf("u32", U32, 4)),
    Event("bank", BankOf("u32", U32, 6) \o D("u16", 1) \o D("u32", 11)),
    Event("bank", Bank("banks", BankOf("u16", Data("u16", 2), 0)) \o D("u32", 15)),
    Event("bank", BankOf("u32", U32, AllOnes) \o D("u32", 18)),
    Event("bank", BankOf("bytes", Data("bytes", 2), AllOnes) \o D("u32", 19)),
    Event("bank", BankOf("banks", D("u32", 2), AllOnes) \o D("u32", 18)),
    Event("bank", BankOf("u16", Data("u16", 2), AllOnes) \o D("u32", 21)),
    Event("segment", Bank("segments", S("u32", 1) \o SegmentOf("u32", Data("u32", 1), 2)) \o D("u32", 11)),
    Event("segment", D("u32", 14) \o Bank("segments", SegmentOf("u32", U32, 3))),
    Event("segment", Bank("tagsegments", SegmentOf("u32", Data("u32", 1), 3) \o S("u16", 1)) \o D("u32", 14))}

ASSUME SwapsAssumption == UndamagedAreSwapped

Lengths == {Len(c.words) : c \in MCForeignEvents}
ASSUME LengthsAssumption == Cardinality(Lengths) = Cardinality(MCForeignEvents)
MCContents(f, e) == CHOOSE c \in MCForeignEvents : Len(c.words) = EventLen(f, e)
MCIsForeign(f) == \E b \in DOMAIN f.blocks : Range(f.blocks[b]) \cap Lengths # {}

MCForeignFiles ==
    {[blocks |-> <<<<l, m>>, <<k>>, <<>>>>, size |-> FullSize(<<<<l, m>>, <<k>>, <<>>>>)] :
        l \in Lengths, m \in Lengths, k \in {Min(Lengths)}}

MCFiles == MCClosedFiles \cup MCAnyFiles \cup MCForeignFiles
=============================================================================
