------------------------------ MODULE EvioSwap ------------------------------
(***************************************************************************)
(* Byte swapping of an event written by a machine of the other byte order. *)
(* There are two copies of the code, HDEVIO::swap_bank and swap_bank.cc of *)
(* rawdataparser.  They differ in what they do when they fail: the first   *)
(* returns that nothing was swapped, the second throws.                    *)
(*                                                                         *)
(* A word is [len, type, width, order]: what it says as a length and as a  *)
(* header once it is native, the bits of the numbers in it, and "foreign", *)
(* "native", or "spoiled" when it was swapped with another width.          *)
(***************************************************************************)
EXTENDS Integers, Sequences, SequencesExt

CONSTANT Uint16         (* how many values a uint16_t has                  *)
ASSUME Uint16Assumption == Uint16 \in Nat \ {0}

Far == 1000000          (* what a word that is no length reads as one      *)
AllOnes == -1           (* 0xFFFFFFFF as a length: to add one gives zero   *)

DataTypes == {"u64", "u32", "u16", "bytes"}
WidthOf(type) == CASE type = "u64" -> 64 [] type = "u32" -> 32
                   [] type = "u16" -> 16 [] type = "bytes" -> 8

(* Swapped again, a word is as it was. *)
SwapWord(w, width) ==
    [w EXCEPT !.order = CASE @ = "spoiled" \/ w.width # width -> "spoiled"
                          [] @ = "foreign" -> "native"
                          [] @ = "native"  -> "foreign"]

ReadLen(w)  == IF w.order = "native" THEN w.len ELSE Far
ReadType(w) == IF w.order = "native" THEN w.type ELSE "unknown"

(* A result: the words, how many the call says it has swapped, and "ok",   *)
(* "thrown", or "wild" when it wrote behind the end of the buffer.         *)
Result(words, n)     == [words |-> words, n |-> n, status |-> "ok"]
Failed(strict, words) == [words |-> words, n |-> 0, status |-> IF strict THEN "thrown" ELSE "ok"]

swap_block(words, at, n, width) ==
    [i \in DOMAIN words |-> IF i \in at .. at + n - 1 THEN SwapWord(words[i], width) ELSE words[i]]

(* Mutant: 64 bit numbers swapped as pairs of 32 bit numbers. *)
SwapDataAs32(words, type, at, n) ==
    IF type = "bytes" THEN words
    ELSE swap_block(words, at, n, IF type = "u64" THEN 32 ELSE WidthOf(type))

(* The words of the contents that are written: bytes are not, in place, and*)
(* neither is a last odd word of 64 bit numbers.  16 bit numbers, two to a *)
(* word, are counted in a uint16_t.  Fewer than no words are four billion. *)
Touched(type, n) ==
    CASE type = "bytes" -> 0
      [] type = "u16" -> ((2 * n) % Uint16) \div 2
      [] type = "u32" -> IF n < 0 THEN Far ELSE n
      [] type = "u64" -> IF n < 0 THEN Far ELSE 2 * (n \div 2)

(* The contents of a bank or segment of data. *)
SwapData(words, type, at, n) == swap_block(words, at, Touched(type, n), WidthOf(type))

(* The length of a segment does not count its header: one that is a word   *)
(* too long for its parent is let through.                                 *)
Fits(length, len) == length <= len

swap_segment(strict, words, at, len) ==
    LET head   == swap_block(words, at, 1, 32)
        length == ReadLen(head[at])
        type   == ReadType(head[at])
    IN  IF ~Fits(length, len) THEN Failed(strict, head)
        ELSE IF type \notin DataTypes THEN Result(head, 1)
        ELSE IF at + Touched(type, length) > Len(words) THEN [Result(head, 0) EXCEPT !.status = "wild"]
        ELSE Result(SwapData(head, type, at + 1, length), 1 + length)

(* The type has four bits, not six; otherwise as a segment. *)
swap_tagsegment(strict, words, at, len) == swap_segment(strict, words, at, len)

(* Of a length of zero the second copy makes an exception; one that is all *)
(* ones both let through.  What is in a container, inside swaps.           *)
swap_bank(strict, words, at, len, inside) ==
    LET head   == swap_block(words, at, 2, 32)
        length == ReadLen(head[at])
        type   == ReadType(head[at + 1])
    IN  IF len < 2 THEN Failed(strict, words)
        ELSE IF length + 1 > len \/ (strict /\ length = 0) THEN Failed(strict, head)
        ELSE IF type \in {"tagsegments", "segments", "banks"}
             THEN inside[strict, type, Result(head, 2), at, length + 1]
        ELSE IF type \notin DataTypes THEN Failed(strict, head)
        ELSE IF at + 1 + Touched(type, length - 1) > Len(words)
             THEN [Result(head, 0) EXCEPT !.status = "wild"]
        ELSE Result(SwapData(head, type, at + 2, length - 1), length + 1)

(* The loop over what is in a container: until all its words are swapped,  *)
(* or a call says that it has swapped none.                                *)
Words   == Seq([len : Int, type : STRING, width : Nat, order : STRING])
Results == [words : Words, n : Nat, status : STRING]
SwapContents[strict \in BOOLEAN, type \in STRING, sofar \in Results, at \in Nat, total \in Nat] ==
    LET from  == at + sofar.n
        left  == total - sofar.n
        child == CASE type = "tagsegments" -> swap_tagsegment(strict, sofar.words, from, left)
                   [] type = "segments"    -> swap_segment(strict, sofar.words, from, left)
                   [] type = "banks"       -> swap_bank(strict, sofar.words, from, left, SwapContents)
    IN  IF sofar.n >= total THEN sofar
        ELSE IF child.status # "ok" THEN child
        ELSE IF child.n = 0 THEN [sofar EXCEPT !.words = child.words]
        ELSE SwapContents[strict, type, [child EXCEPT !.n = sofar.n + child.n], at, total]

-----------------------------------------------------------------------------
(* readNoFileBuff asks whether all was swapped and the length is right,    *)
(* MmapEvioSource nothing.                                                 *)
HdevioSwap(words) == swap_bank(FALSE, words, 1, Len(words), SwapContents)
HdevioAccepts(r) ==
    r.status = "ok" /\ r.n = Len(r.words) /\ ReadLen(r.words[1]) + 1 = Len(r.words)

MmapSwap(words) == swap_bank(TRUE, words, 1, Len(words), SwapContents)
MmapAccepts(r) == r.status = "ok"

-----------------------------------------------------------------------------
(* Events as they are stored: data, segments and banks.                    *)
Foreign(len, type, width) ==
    [len |-> len, type |-> type, width |-> width,
     order |-> IF width = 8 THEN "native" ELSE "foreign"]
Data(type, n) == [k \in 1..n |-> Foreign(Far, "unknown", WidthOf(type))]
SegmentOf(type, contents, length) == <<Foreign(length, type, 32)>> \o contents
Segment(type, contents) == SegmentOf(type, contents, Len(contents))
BankOf(type, contents, length) ==
    <<Foreign(length, "unknown", 32), Foreign(Far, type, 32)>> \o contents
Bank(type, contents) == BankOf(type, contents, Len(contents) + 1)
=============================================================================
