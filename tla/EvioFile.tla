------------------------------ MODULE EvioFile ------------------------------
(***************************************************************************)
(* An EVIO file as its two readers see it.  A file is a sequence of        *)
(* blocks: a header of eight words and the events, one after the other.    *)
(* A block without events is eight words long; one of them, the trailer,   *)
(* ends a file that was closed properly.  A writer that died leaves a file *)
(* cut at any word: size is what there is of it.                           *)
(***************************************************************************)
EXTENDS Integers, Sequences, SequencesExt

HeaderLen == 8
BlockHeaderWords == 15  (* sizeof(HDEVIO::BLOCKHEADER_t) / 4               *)
EventHeaderWords == 7   (* sizeof(HDEVIO::EVENTHEADER_t) / 4               *)

(* Words of the first n events of a block; an event counts its length word.*)
EventWords(events, n) ==
    LET words[i \in 0..Len(events)] == IF i = 0 THEN 0 ELSE words[i - 1] + events[i]
    IN  words[n]
BlockLen(events) == HeaderLen + EventWords(events, Len(events))

(* Words of the first n blocks.                                            *)
BlockWords(blocks, n) ==
    LET words[i \in 0..Len(blocks)] == IF i = 0 THEN 0 ELSE words[i - 1] + BlockLen(blocks[i])
    IN  words[n]
FullSize(blocks) == BlockWords(blocks, Len(blocks))

EventIds(f) == UNION {{b} \X DOMAIN f.blocks[b] : b \in DOMAIN f.blocks}
EventLen(f, e) == f.blocks[e[1]][e[2]]

(* Position of the b-th block, also of the one after the last, and of an   *)
(* event.                                                                  *)
BlockPos(f, b) == BlockWords(f.blocks, b - 1)
EventPos(f, e) ==
    BlockPos(f, e[1]) + HeaderLen + EventWords(f.blocks[e[1]], e[2] - 1)

WholeBlock(f, b) == BlockPos(f, b + 1) <= f.size
WholeEvent(f, e) == EventPos(f, e) + EventLen(f, e) <= f.size

Before(d, e) == d[1] < e[1] \/ (d[1] = e[1] /\ d[2] < e[2])

(* MapEvents: an event of less than three words is passed over; mapping    *)
(* stops where the header of a further event is cut by the end of the file.*)
IsMapped(f, e) ==
    LET Stops(i) == i > 1 /\ EventPos(f, <<e[1], i>>) + EventHeaderWords > f.size
    IN  (\A i \in 1..e[2] : ~Stops(i)) /\ EventLen(f, e) >= 3
MapEvents(f, b) == {e \in {b} \X DOMAIN f.blocks[b] : IsMapped(f, e)}

IsFile(f) ==
    /\ DOMAIN f = {"blocks", "size"}
    /\ f.blocks \in Seq(Seq(Nat \ {0}))
    /\ f.size \in 1..FullSize(f.blocks)

CONSTANT Files          (* the files to read                               *)
ASSUME FilesAssumption == \A f \in Files : IsFile(f)

VARIABLE file           (* the one that is read                            *)
=============================================================================
