------------------------- MODULE SroFrameSetParser -------------------------
(***************************************************************************)
(* The parser of SRO blocks (libraries/evio_sro_parser/SroFrameSetParser). *)
(* A block is a sequence of set banks; a set is an information bank (SIB)  *)
(* and the banks of the ROCs; a ROC bank is a stream information bank with *)
(* the map of its payloads, and the payloads.  Eager parsing decodes all   *)
(* of it; lazy parsing decodes the ECAL ROCs and notes where the other     *)
(* ROC banks are, which SroFrameRef::EnsureDecoded decodes later, frame by *)
(* frame.  One action is one turn of one of the parser's loops.            *)
(*                                                                         *)
(* A word is what the parser can take it for: the length of a bank (len),  *)
(* the tag in a bank's header (tag), the header of a segment (seg and      *)
(* slen), or entries of the payload map (map).  Positions count from 0.    *)
(***************************************************************************)
EXTENDS Integers, Sequences, SequencesExt

CONSTANTS
    Modulus,     (* 2^32: lengths and positions are uint32_t               *)
    EcalRocs,    (* tags of ROC banks of the ECAL                          *)
    PayloadIds   (* payload ids that exist: 1 to 16                        *)

VARIABLES
    words,       (* the body of the block                                  *)
    expected,    (* event_count of the block's header                      *)
    lazy,
    level,       (* "set", "roc", "payload": the loop being run; "parsed"; *)
                 (* "deferred": the loop of DecodeDeferredFrame; "done"    *)
    pos,         (* next set bank                                          *)
    setEnd,      (* end of the contents of the set                         *)
    rocPos,      (* next ROC bank of the set                               *)
    frame,       (* the FrameInfo under construction                       *)
    frames, deferred,
    roc,         (* the ROC bank being parsed                              *)
    payPos,      (* its next payload bank                                  *)
    modules,     (* payload_module: the payload map of the ROC bank        *)
    sink,        (* HitSink: the vectors hits are appended to              *)
    errors,      (* structure_errors                                       *)
    hits,        (* hits of the parsed block                               *)
    nextDeferred,(* next deferred ROC bank of the frame being decoded      *)
    decoded      (* hits of the frames decoded so far (SroFrameRef)        *)

input     == <<words, expected, lazy>>
setVars   == <<pos, setEnd, rocPos, frame, frames, deferred>>
rocVars   == <<roc, payPos, modules>>
childVars == <<hits, nextDeferred, decoded>>
parserVars == <<input, level, setVars, rocVars, sink, errors, childVars>>

Size  == Len(words)
At(i) == words[i + 1]

NoHits   == [fadc |-> <<>>, dcrb |-> <<>>]
NoBank   == [start |-> 0, end |-> 0, tag |-> "none"]
NoFrame  == [number |-> 0, firstFadc |-> 0, firstDcrb |-> 0, firstDeferred |-> 0]

ParserInit ==
    /\ level = "set"
    /\ pos = 0 /\ setEnd = 0 /\ rocPos = 0
    /\ frame = NoFrame /\ frames = <<>> /\ deferred = <<>>
    /\ roc = NoBank /\ payPos = 0 /\ modules = [id \in PayloadIds |-> "none"]
    /\ sink = NoHits /\ errors = 0
    /\ hits = NoHits /\ nextDeferred = 0 /\ decoded = <<>>

-----------------------------------------------------------------------------
(* ReadBank: the sum of position and length is taken modulo 2^32.          *)
BankEnd(p) == (p + 1 + At(p).len) % Modulus

(* Mutant: the end of the bank is not compared with the limit.             *)
BankReadsHeader(p, limit) == p + 2 <= limit /\ At(p).len >= 1

BankReads(p, limit) == p + 2 <= limit /\ At(p).len >= 1 /\ BankEnd(p) <= limit
Bank(p) == [start |-> p + 2, end |-> BankEnd(p), tag |-> At(p + 1).tag]

(* WalkBlockBody: the loop over sets.                                      *)
SetReads == BankReads(pos, Size) /\ Bank(pos).tag = "set"
SibReads ==
    LET set == Bank(pos) IN
    /\ BankReads(set.start, set.end)
    /\ Bank(set.start).tag = "sib"
    /\ Bank(set.start).start + 4 <= Bank(set.start).end

EndWalk(found) ==
    /\ level' = "parsed"
    /\ errors' = errors + found + (IF Len(frames) # expected THEN 1 ELSE 0)
    /\ hits' = sink
    /\ UNCHANGED <<input, setVars, rocVars, sink, nextDeferred, decoded>>

EndBlock == level = "set" /\ pos >= Size /\ EndWalk(0)
AbandonBlock == level = "set" /\ pos < Size /\ ~SetReads /\ EndWalk(1)

(* Mutant: a set without a SIB ends the walk.                              *)
SkipRest ==
    level = "set" /\ pos < Size /\ SetReads /\ ~SibReads /\ EndWalk(1)
SkipSet ==
    /\ level = "set" /\ pos < Size /\ SetReads /\ ~SibReads
    /\ errors' = errors + 1
    /\ pos' = Bank(pos).end
    /\ UNCHANGED <<input, level, setEnd, rocPos, frame, frames, deferred, rocVars, sink, childVars>>

(* Mutant: the slices of hits begin where the block begins.                *)
FrameAtZero(number) ==
    [number |-> number, firstFadc |-> 0, firstDcrb |-> 0, firstDeferred |-> Len(deferred)]

FrameHere(number) ==
    [number |-> number, firstFadc |-> Len(sink.fadc), firstDcrb |-> Len(sink.dcrb),
     firstDeferred |-> Len(deferred)]

OpenSet ==
    /\ level = "set" /\ pos < Size /\ SetReads /\ SibReads
    /\ level' = "roc"
    /\ pos' = Bank(pos).end /\ setEnd' = Bank(pos).end
    /\ LET sib == Bank(Bank(pos).start) IN
       /\ rocPos' = sib.end
       /\ frame' = FrameHere(sib.start + 1)     \* where the number is read from
    /\ UNCHANGED <<input, frames, deferred, rocVars, sink, errors, childVars>>

(* The loop over the ROC banks of a set, and the end of the set.           *)
CloseSet ==
    /\ level = "roc"
    /\ \/ rocPos >= setEnd /\ UNCHANGED errors
       \/ rocPos < setEnd /\ ~BankReads(rocPos, setEnd) /\ errors' = errors + 1
    /\ level' = "set"
    /\ frames' = Append(frames,
            [number |-> frame.number,
             firstFadc |-> frame.firstFadc, nFadc |-> Len(sink.fadc) - frame.firstFadc,
             firstDcrb |-> frame.firstDcrb, nDcrb |-> Len(sink.dcrb) - frame.firstDcrb,
             firstDeferred |-> frame.firstDeferred,
             nDeferred |-> Len(deferred) - frame.firstDeferred])
    /\ UNCHANGED <<input, pos, setEnd, rocPos, frame, deferred, rocVars, sink, childVars>>

Deferrable == lazy /\ Bank(rocPos).tag \notin EcalRocs
DeferRoc ==
    /\ level = "roc" /\ rocPos < setEnd /\ BankReads(rocPos, setEnd) /\ Deferrable
    /\ deferred' = Append(deferred, [pos |-> rocPos, limit |-> setEnd])
    /\ rocPos' = Bank(rocPos).end
    /\ UNCHANGED <<input, level, pos, setEnd, frame, frames, rocVars, sink, errors, childVars>>

-----------------------------------------------------------------------------
(* ParseRocBank up to its loop.  The words of the two segments are read    *)
(* without asking whether they lie inside the bank.  For the first one     *)
(* that makes no difference; the map header may be the word after the      *)
(* stream information, or one past the block, which may hold anything.     *)
InfoReads(bank) ==
    LET info == Bank(bank.start) IN
    /\ BankReads(bank.start, bank.end)
    /\ info.tag = "info"
    /\ info.start + 4 <= info.end
    /\ At(info.start).seg = "ts" /\ At(info.start).slen = 3

MapPos(bank) == Bank(bank.start).start + 4
MapLens(bank) == IF MapPos(bank) < Size THEN {At(MapPos(bank)).slen} ELSE {0, 1}
MapReads(bank, n) ==
    /\ MapPos(bank) + 1 + n <= Bank(bank.start).end
    /\ At(MapPos(bank)).seg = "map"

(* The entries <<payload id, module>>; the last one for an id counts.      *)
Entries(bank, n) == FlattenSeq([k \in 1..n |-> At(MapPos(bank) + k).map])
ModuleOf(entries, id) ==
    LET given == SelectSeq(entries, LAMBDA e : e[1] = id)
    IN  IF given = <<>> THEN "none" ELSE Last(given)[2]

ParseRocBank(bank) ==
    \/ ~InfoReads(bank) /\ errors' = errors + 1 /\ UNCHANGED <<level, rocVars>>
    \/ /\ InfoReads(bank)
       /\ \E n \in MapLens(bank) :
            \/ n = 0 /\ UNCHANGED <<level, rocVars, errors>>         \* a gap filler
            \/ /\ n > 0 /\ ~MapReads(bank, n)
               /\ errors' = errors + 1 /\ UNCHANGED <<level, rocVars>>
            \/ /\ n > 0 /\ MapReads(bank, n)
               /\ LET entries == Entries(bank, n) IN
                  /\ modules' = [id \in PayloadIds |-> ModuleOf(entries, id)]
                  /\ errors' = errors +
                        Len(SelectSeq(entries, LAMBDA e : e[1] \notin PayloadIds))
               /\ level' = "payload" /\ roc' = bank
               /\ payPos' = Bank(bank.start).end

ReadRoc ==
    /\ level = "roc" /\ rocPos < setEnd /\ BankReads(rocPos, setEnd) /\ ~Deferrable
    /\ ParseRocBank(Bank(rocPos))
    /\ rocPos' = Bank(rocPos).end
    /\ UNCHANGED <<input, pos, setEnd, frame, frames, deferred, sink, childVars>>

-----------------------------------------------------------------------------
(* The loop over the payloads of a ROC bank.  A hit is the word, or the    *)
(* first word of the pair, that it is unpacked from.                       *)
FrameBeingDecoded == Len(decoded) + 1
Deferring == nextDeferred > 0
Hit(i, bank) ==
    [frame |-> IF Deferring THEN FrameBeingDecoded ELSE Len(frames) + 1,
     roc |-> roc.tag, slot |-> bank.tag, word |-> i]

(* A length that wraps around may put the end before the start.            *)
Contents(bank) == IF bank.start < bank.end THEN bank.end - bank.start ELSE 0

FadcHits(bank) == [k \in 1..Contents(bank) |-> Hit(bank.start + k - 1, bank)]

(* Pairs of words; an odd last word is dropped.                            *)
Pairs(bank) == [k \in 1..(Contents(bank) \div 2) |-> bank.start + 2 * (k - 1)]
BadGroup(i) == At(i).tag = "badgroup"
DcrbHits(bank) ==
    LET found[n \in 0..Len(Pairs(bank))] ==
            IF n = 0 THEN <<>>
            ELSE IF BadGroup(Pairs(bank)[n]) THEN found[n - 1]
            ELSE Append(found[n - 1], Hit(Pairs(bank)[n], bank))
    IN  found[Len(Pairs(bank))]

Module(bank) == IF bank.tag \in PayloadIds THEN modules[bank.tag] ELSE "none"

EndPayloads ==
    /\ level = "payload"
    /\ \/ payPos >= roc.end /\ UNCHANGED errors
       \/ payPos < roc.end /\ ~BankReads(payPos, roc.end) /\ errors' = errors + 1
    /\ level' = IF Deferring THEN "deferred" ELSE "roc"
    /\ UNCHANGED <<input, setVars, rocVars, sink, childVars>>

(* Mutant: an empty bank is skipped before the cursor is moved on.         *)
NextUnlessEmpty(bank) == IF bank.start = bank.end THEN payPos ELSE bank.end

NextPayload(bank) == bank.end

(* An empty bank, or one of a module that is not known, is skipped.        *)
UnpackPayload ==
    /\ level = "payload" /\ payPos < roc.end /\ BankReads(payPos, roc.end)
    /\ payPos' = NextPayload(Bank(payPos))
    /\ LET bank == Bank(payPos) IN
       \/ /\ Module(bank) = "fadc"
          /\ sink' = [sink EXCEPT !.fadc = @ \o FadcHits(bank)]
          /\ UNCHANGED errors
       \/ /\ Module(bank) = "dcrb"
          /\ sink' = [sink EXCEPT !.dcrb = @ \o DcrbHits(bank)]
          /\ errors' = errors + Len(Pairs(bank)) - Len(DcrbHits(bank))
       \/ /\ Module(bank) \notin {"fadc", "dcrb"}
          /\ UNCHANGED <<sink, errors>>
    /\ UNCHANGED <<input, level, setVars, roc, modules, childVars>>

-----------------------------------------------------------------------------
(* EnsureDecoded and DecodeDeferredFrame, for one frame after the other:   *)
(* each has vectors of its own, so that their order makes no difference.   *)
Slice(s, first, n) == SubSeq(s, first + 1, first + n)

(* Mutant: the frame's own hits are not taken over.                        *)
NoOwnHits(f) == <<>>

OwnHits(f) == Slice(hits.fadc, f.firstFadc, f.nFadc)

DecodeFrame ==
    /\ level = "parsed" /\ lazy /\ Len(decoded) < Len(frames)
    /\ level' = "deferred"
    /\ LET f == frames[FrameBeingDecoded] IN
       /\ sink' = [fadc |-> OwnHits(f), dcrb |-> <<>>]
       /\ nextDeferred' = f.firstDeferred + 1
    /\ UNCHANGED <<input, setVars, rocVars, errors, hits, decoded>>

(* Mutant: the count is taken for the last index.                          *)
LastDeferredOffByOne ==
    LET f == frames[FrameBeingDecoded] IN f.firstDeferred + f.nDeferred - 1

LastDeferred ==
    LET f == frames[FrameBeingDecoded] IN f.firstDeferred + f.nDeferred

DecodeRoc ==
    /\ level = "deferred" /\ nextDeferred <= LastDeferred
    /\ LET d == deferred[nextDeferred] IN
       \/ /\ ~BankReads(d.pos, d.limit)
          /\ errors' = errors + 1 /\ UNCHANGED <<level, rocVars>>
       \/ BankReads(d.pos, d.limit) /\ ParseRocBank(Bank(d.pos))
    /\ nextDeferred' = nextDeferred + 1
    /\ UNCHANGED <<input, setVars, sink, hits, decoded>>

EndFrame ==
    /\ level = "deferred" /\ nextDeferred > LastDeferred
    /\ level' = "parsed"
    /\ decoded' = Append(decoded, sink)
    /\ nextDeferred' = 0
    /\ UNCHANGED <<input, setVars, rocVars, sink, errors, hits>>

AllRead ==
    /\ level = "parsed" /\ (lazy => Len(decoded) = Len(frames))
    /\ level' = "done"
    /\ UNCHANGED <<input, setVars, rocVars, sink, errors, childVars>>

ParserNext ==
    \/ EndBlock \/ AbandonBlock \/ SkipSet \/ OpenSet
    \/ CloseSet \/ DeferRoc \/ ReadRoc
    \/ EndPayloads \/ UnpackPayload
    \/ DecodeFrame \/ DecodeRoc \/ EndFrame \/ AllRead
=============================================================================
