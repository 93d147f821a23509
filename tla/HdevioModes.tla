---------------------------- MODULE HdevioModes ----------------------------
(***************************************************************************)
(* The two other ways HDEVIO reads a file: read, block by block through a  *)
(* buffer of the file, when all types of events are asked for, and         *)
(* readSparse, by a map of the file, when only some are.  The map is made  *)
(* by MapBlocks, or was saved beside the file by an earlier HDEVIO.        *)
(*                                                                         *)
(* The caller reads until it is told that the file is at its end or bad,   *)
(* with a larger buffer when an event did not fit, and may then rewind and *)
(* read again.  Each call is one step.  Positions are in words.            *)
(***************************************************************************)
EXTENDS EvioFile, FiniteSetsExt

CONSTANTS
    TagOf(_),       (* the tag of the event [block, place]                 *)
    Requests,       (* SetEventMask: the texts it is called with           *)
    MapFiles,       (* what is beside the file: "none", "whole" or "torn"  *)
    fbuff_size,     (* words of the file buffer, 10000000                  *)
    FirstBuff,      (* words of the first block buffer, 1024               *)
    buff_limit,     (* words of the largest one, 5000000                   *)
    UserBuff,       (* words of the caller's first buffer                  *)
    MaxRewinds      (* bound on the rewinds                                *)

ASSUME HdevioModesAssumption ==
    /\ fbuff_size \in Nat /\ HeaderLen <= fbuff_size
    /\ FirstBuff \in 0 .. fbuff_size
    /\ buff_limit \in 0 .. fbuff_size
    /\ UserBuff \in Nat /\ MaxRewinds \in Nat

VARIABLES
    mapFile,
    event_type_mask,   (* the types wanted, or All                         *)
    ifs,        (* pos: where the stream is; failed: its failbit           *)
    fbuff,      (* the words of the file in the buffer: from, next, end    *)
    buff,       (* size; block, event: the block it holds, the event next  *)
    map,        (* is_mapped; evio_events, the events in evio_blocks       *)
    sparse,     (* set: whether the place to read from is; block, event    *)
    user_len, out, ending, rewinds

fileVars == <<file, mapFile, event_type_mask>>
readVars == <<ifs, fbuff, buff>>
sparseVars == <<map, sparse>>
callVars == <<user_len, out, ending>>
vars == <<fileVars, readVars, sparseVars, callVars, rewinds>>

-----------------------------------------------------------------------------
(* Types.                                                                  *)
BLOCKTYPES == {"BOR", "EPICS", "SYNC", "PRESTART", "GO", "PAUSE", "END", "PHYSICS", "UNKNOWN"}
All == {"all"}

event_type(tag) ==
    CASE tag = "FFD0" -> "SYNC"
      [] tag = "FFD1" -> "PRESTART"
      [] tag = "FFD2" -> "GO"
      [] tag = "FFD3" -> "PAUSE"
      [] tag = "FFD4" -> "END"
      [] tag = "0060" -> "EPICS"
      [] tag \in {"0070", "FF32"} -> "BOR"
      [] tag \in {"FF50", "FF51", "FF70", "FF33"} -> "PHYSICS"
      [] OTHER -> "UNKNOWN"

(* A request is the set of the words in the text. *)
SetEventMask(types) == types \cap {"BOR", "EPICS", "PHYSICS"}

-----------------------------------------------------------------------------
(* The map.                                                                *)
NoMap == [is_mapped |-> FALSE, evio_events |-> {}]

(* A block is mapped when the file has its header and the first words of   *)
(* an event, which HDEVIO reads at once: the trailer is not.               *)
MapBlocks ==
    [is_mapped |-> TRUE,
     evio_events |-> {e \in EventIds(file) :
                        /\ BlockPos(file, e[1]) + BlockHeaderWords <= file.size
                        /\ IsMapped(file, e)}]

Beginning == [set |-> TRUE, block |-> 1, event |-> 1]

(* A map file that was not closed is ignored.  In one that was, a last     *)
(* block without events is not taken, which is none of the events; nothing *)
(* is said of where the sparse reading begins.                             *)
ReadFileMap(f) == IF f = "whole" THEN MapBlocks ELSE NoMap

-----------------------------------------------------------------------------
Init ==
    /\ file \in Files
    /\ mapFile \in MapFiles
    /\ event_type_mask \in {All} \cup {SetEventMask(r) : r \in Requests}
    /\ ifs = [pos |-> 0, failed |-> FALSE]
    /\ fbuff = [from |-> 0, next |-> 0, end |-> 0]
    /\ buff = [size |-> FirstBuff, block |-> 0, event |-> 0]
    /\ map = ReadFileMap(mapFile)
    /\ sparse = [set |-> FALSE, block |-> 1, event |-> 1]
    /\ user_len = UserBuff
    /\ out = <<>> /\ ending = "reading"
    /\ rewinds = 0

-----------------------------------------------------------------------------
(* The buffer of the file: s is [ifs, fbuff, got, joined].                 *)

(* What is in the buffer, and, if that is not enough, of one more chunk.   *)
(* After a rewind that may join words of two places of the file.           *)
buff_read(s, n) ==
    LET left  == s.fbuff.end - s.fbuff.next
        pos   == s.ifs.pos
        chunk == IF s.ifs.failed THEN 0 ELSE Min({fbuff_size, file.size - pos})
        more  == Min({n - left, chunk})
    IN  IF n <= left THEN [s EXCEPT !.fbuff.next = @ + n, !.got = n]
        ELSE [ifs    |-> [pos |-> pos + chunk, failed |-> chunk < fbuff_size],
              fbuff  |-> [from |-> pos, next |-> pos + more, end |-> pos + chunk],
              got    |-> left + more,
              joined |-> s.joined \/ (left > 0 /\ pos # s.fbuff.end)]

(* Mutant: the distance is counted from the end of the buffer. *)
buff_seekg_from_end(s, back) ==
    IF s.fbuff.end - back >= s.fbuff.from
    THEN [s EXCEPT !.fbuff.next = @ - back, !.got = 0]
    ELSE [s EXCEPT !.fbuff = [from |-> @.from, next |-> @.from, end |-> @.from],
                   !.ifs.failed = TRUE, !.got = 0]

(* back words towards the beginning.  Words that are no longer in the      *)
(* buffer are sought at a negative position of the file, which fails.      *)
buff_seekg(s, back) ==
    IF s.fbuff.next - back >= s.fbuff.from
    THEN [s EXCEPT !.fbuff.next = @ - back, !.got = 0]
    ELSE [s EXCEPT !.fbuff = [from |-> @.from, next |-> @.from, end |-> @.from],
                   !.ifs.failed = TRUE, !.got = 0]

Stream == [ifs |-> ifs, fbuff |-> fbuff, got |-> 0, joined |-> FALSE]

(* The block whose header ends before pos; 0, if what is there has not the *)
(* magic word.                                                             *)
BlockBefore(pos) ==
    LET at == {b \in DOMAIN file.blocks : BlockPos(file, b) + HeaderLen = pos}
    IN  IF at = {} THEN 0 ELSE Max(at)

Grown(size, length) == IF length <= buff_limit THEN Max({size, length}) ELSE size

(* [ok, s, buff, ending]: the next block, or why there is none.  A buffer  *)
(* that is too small is made anew, and the header read again.              *)
ReadBlock ==
    LET header == buff_read(Stream, HeaderLen)
        b      == BlockBefore(header.fbuff.next)
        length == BlockLen(file.blocks[b])
        size   == Grown(buff.size, length)
        again  == IF size > buff.size THEN buff_read(buff_seekg(header, HeaderLen), HeaderLen)
                  ELSE header
        body   == buff_read(again, length - HeaderLen)
        Fails(s, n, why) == [ok |-> FALSE, s |-> s, ending |-> why,
                             buff |-> [size |-> n, block |-> 0, event |-> 0]]
    IN  IF header.joined THEN Fails(header, buff.size, "wild")
        ELSE IF header.got # HeaderLen THEN Fails(header, buff.size, "error")
        ELSE IF b = 0 \/ length > size THEN Fails(header, buff.size, "error")
        ELSE IF length = HeaderLen THEN Fails(again, size, "eof")
        ELSE IF body.joined THEN Fails(body, size, "wild")
        ELSE IF body.got # length - HeaderLen THEN Fails(body, size, "error")
        ELSE [ok |-> TRUE, s |-> body, ending |-> "reading",
              buff |-> [size |-> size, block |-> b, event |-> 1]]

(* The state in which the event is looked at: the block of before, or the  *)
(* next one.                                                               *)
Loaded ==
    IF buff.block # 0 /\ buff.event <= Len(file.blocks[buff.block])
    THEN [ok |-> TRUE, s |-> Stream, ending |-> "reading", buff |-> buff]
    ELSE ReadBlock

CanRead == ending = "reading" /\ event_type_mask = All
KeepStream(s) == ifs' = s.ifs /\ fbuff' = s.fbuff

ReadFails ==
    /\ CanRead /\ ~Loaded.ok
    /\ KeepStream(Loaded.s) /\ buff' = Loaded.buff
    /\ ending' = Loaded.ending
    /\ UNCHANGED <<fileVars, sparseVars, user_len, out, rewinds>>

Event(b) == <<b.block, b.event>>

(* HDEVIO_USER_BUFFER_TOO_SMALL: the event is given in the next call.      *)
ReadTooSmall ==
    /\ CanRead /\ Loaded.ok
    /\ EventLen(file, Event(Loaded.buff)) > user_len
    /\ KeepStream(Loaded.s) /\ buff' = Loaded.buff
    /\ user_len' = EventLen(file, Event(Loaded.buff))
    /\ UNCHANGED <<fileVars, sparseVars, out, ending, rewinds>>

ReadEvent ==
    /\ CanRead /\ Loaded.ok
    /\ EventLen(file, Event(Loaded.buff)) <= user_len
    /\ KeepStream(Loaded.s) /\ buff' = [Loaded.buff EXCEPT !.event = @ + 1]
    /\ out' = Append(out, Event(Loaded.buff))
    /\ UNCHANGED <<fileVars, sparseVars, user_len, ending, rewinds>>

-----------------------------------------------------------------------------
(* Sparse reading.                                                         *)
Wanted(e) == event_type(TagOf(e)) \in event_type_mask

CanReadSparse == ending = "reading" /\ event_type_mask # All

(* A file that is not mapped is mapped first, and read from its beginning. *)
Mapped == IF map.is_mapped THEN map ELSE MapBlocks
Place  == IF map.is_mapped THEN sparse ELSE Beginning

(* The event that is read next, if one of the types asked for is left.     *)
Ahead == {e \in Mapped.evio_events : Wanted(e) /\ ~Before(e, <<Place.block, Place.event>>)}
NextAhead == CHOOSE e \in Ahead : \A d \in Ahead : ~Before(d, e)
PlaceAt(e) == [set |-> TRUE, block |-> e[1], event |-> e[2]]
PlaceBehind(e) == [set |-> TRUE, block |-> e[1], event |-> e[2] + 1]

(* With a map from a file, the place to begin at was never set.            *)
SparseUnset ==
    /\ CanReadSparse /\ ~Place.set
    /\ ending' = "wild"
    /\ UNCHANGED <<fileVars, readVars, sparseVars, user_len, out, rewinds>>

SparseEof ==
    /\ CanReadSparse /\ Place.set
    /\ Ahead = {}
    /\ map' = Mapped /\ sparse' = PlaceAt(<<Len(file.blocks) + 1, 1>>)
    /\ ending' = "eof"
    /\ UNCHANGED <<fileVars, readVars, user_len, out, rewinds>>

(* Mutant: the event that did not fit is passed. *)
SparseTooSmallPasses ==
    /\ CanReadSparse /\ Place.set
    /\ Ahead # {} /\ EventLen(file, NextAhead) > user_len
    /\ map' = Mapped /\ sparse' = PlaceBehind(NextAhead)
    /\ user_len' = EventLen(file, NextAhead)
    /\ UNCHANGED <<fileVars, readVars, out, ending, rewinds>>

SparseTooSmall ==
    /\ CanReadSparse /\ Place.set
    /\ Ahead # {} /\ EventLen(file, NextAhead) > user_len
    /\ map' = Mapped /\ sparse' = PlaceAt(NextAhead)
    /\ user_len' = EventLen(file, NextAhead)
    /\ UNCHANGED <<fileVars, readVars, out, ending, rewinds>>

(* Mutant: the event is tried again. *)
SparseEventAgain ==
    /\ CanReadSparse /\ Place.set
    /\ Ahead # {} /\ EventLen(file, NextAhead) <= user_len
    /\ map' = Mapped /\ sparse' = PlaceAt(NextAhead)
    /\ out' = Append(out, NextAhead)
    /\ UNCHANGED <<fileVars, readVars, user_len, ending, rewinds>>

(* How many words were read is not looked at: an event cut by the end of   *)
(* the file is given as a whole one.                                       *)
SparseEvent ==
    /\ CanReadSparse /\ Place.set
    /\ Ahead # {} /\ EventLen(file, NextAhead) <= user_len
    /\ map' = Mapped /\ sparse' = PlaceBehind(NextAhead)
    /\ out' = Append(out, NextAhead)
    /\ UNCHANGED <<fileVars, readVars, user_len, ending, rewinds>>

readSparse == SparseUnset \/ SparseEof \/ SparseTooSmall \/ SparseEvent
read == ReadFails \/ ReadTooSmall \/ ReadEvent \/ readSparse

-----------------------------------------------------------------------------
(* Before anything was read, or when the file is at its end.  A stream     *)
(* that has failed does not move, and is cleared behind the attempt; the   *)
(* two buffers are left as they are.                                       *)
rewind ==
    /\ rewinds < MaxRewinds
    /\ ending = "eof" \/ ending = "error" \/ (ending = "reading" /\ out = <<>>)
    /\ rewinds' = rewinds + 1
    /\ ifs' = [pos |-> IF ifs.failed THEN ifs.pos ELSE 0, failed |-> FALSE]
    /\ sparse' = Beginning
    /\ out' = <<>> /\ ending' = "reading"
    /\ UNCHANGED <<fileVars, fbuff, buff, map, user_len>>

Next == read \/ rewind

Spec == Init /\ [][Next]_vars

-----------------------------------------------------------------------------
(* No event is given twice or out of order in one reading of the file, and *)
(* only events of the types asked for.  All of them are whole, except that *)
(* sparse reading gives one that the end of the file cuts, as its last.    *)
(* (After a rewind this is promised of sparse reading only.)               *)
GivenOnce ==
    event_type_mask # All \/ rewinds = 0 =>
        /\ \A i, j \in DOMAIN out : i < j => Before(out[i], out[j])
        /\ \A i \in DOMAIN out :
              /\ event_type_mask # All => Wanted(out[i])
              /\ WholeEvent(file, out[i]) \/ (event_type_mask # All /\ i = Len(out))

(* The reading by blocks loses only what it must: all whole blocks are     *)
(* given up to an empty one, or one that is larger than the limit, or one  *)
(* that is larger than all before it and whose header lies across the edge *)
(* of a chunk of the file.                                                 *)
EdgeInHeader(b) ==
    BlockPos(file, b) \div fbuff_size # (BlockPos(file, b) + HeaderLen - 1) \div fbuff_size
Larger(b) == /\ BlockLen(file.blocks[b]) > FirstBuff
             /\ \A c \in 1 .. b - 1 : BlockLen(file.blocks[c]) < BlockLen(file.blocks[b])
EndsReading(b) == \/ file.blocks[b] = <<>>
                  \/ Larger(b) /\ (EdgeInHeader(b) \/ BlockLen(file.blocks[b]) > buff_limit)
ReadLossIsKnown ==
    event_type_mask = All /\ rewinds = 0 /\ ending # "reading" =>
        \A e \in EventIds(file) :
            e \in Range(out) <=> /\ WholeBlock(file, e[1])
                                 /\ \A b \in 1 .. e[1] : ~EndsReading(b)

(* The reading by the map finds every event of the types asked for that is *)
(* whole and has the words of an event header, behind empty blocks too,    *)
(* however small the buffer was, and again after each rewind.              *)
SparseFindsAll ==
    event_type_mask # All /\ ending = "eof" =>
        \A e \in EventIds(file) :
            WholeEvent(file, e) /\ EventLen(file, e) >= EventHeaderWords /\ Wanted(e)
                => e \in Range(out)

=============================================================================
