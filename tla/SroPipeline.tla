---------------------------- MODULE SroPipeline ----------------------------
(***************************************************************************)
(* The plugin evio6_file: a reader of blocks, its source of timeslices, the*)
(* unfolder that makes an event of each frame of a block that the finder   *)
(* accepts, and the writer, which worker threads call in parallel.  JANA   *)
(* moves timeslices and events between them and keeps a timeslice until    *)
(* its events are done.  A timeslice is named by its block's number, an    *)
(* event by <<block, frame>>.                                              *)
(***************************************************************************)
EXTENDS Integers, Sequences, SequencesExt, FiniteSets, FiniteSetsExt

CONSTANTS
    Inputs,         (* the items of lists of files                         *)
    Modes,          (* <<parsing, reader>>: "off", "eager" or "lazy", and  *)
                    (* "fread" or "mmap"                                   *)
    Workers, NoWorker,
    MaxSlices,      (* JANA's pools of timeslices and of events            *)
    MaxEvents,
    ClusterRows     (* rows for which ROOT asks to flush a cluster         *)

ASSUME SroPipelineAssumption ==
    /\ Modes \subseteq {"off", "eager", "lazy"} \X {"fread", "mmap"}
    /\ MaxSlices \in Nat \ {0} /\ MaxEvents \in Nat \ {0} /\ ClusterRows \in Nat \ {0}
    /\ NoWorker \notin Workers
    /\ \A is \in Inputs : is \in Seq([file : Nat \ {0}, kind : {"block", "cut", "bad", "empty"},
                                     frames : Seq([passes : BOOLEAN, fadc : Nat, dcrb : Nat])])

-----------------------------------------------------------------------------
(* SroBlockReader: the blocks of a list of SRO files, one after the other. *)
(* A file is a sequence of items: blocks, and at its end perhaps a block   *)
(* that was cut off ("cut"); "bad" is a header that is not one of EVIO,    *)
(* and an empty file is the item "empty".  The items of all the files are  *)
(* in one sequence, each with the number of its file, from 1.              *)
VARIABLES
    items,       (* what is in m_file_paths                                *)
    use_mmap,
    cursor,      (* items read or skipped so far                           *)
    truncated,   (* m_truncated_tail_blocks                                *)
    mapped,      (* m_mapped: the file mapped by the reader, or 0          *)
    raw          (* RawBlock: the block in words, the file of mapping      *)

readerVars == <<items, use_mmap, cursor, truncated, mapped, raw>>

Blocks == {i \in DOMAIN items : items[i].kind = "block"}

ReaderInit ==
    /\ cursor = 0
    /\ truncated = 0
    /\ mapped = 0
    /\ raw = [words |-> 0, mapping |-> 0]

(* What ReadNextBlock goes past: cut blocks, and, unless it has to map     *)
(* them, files without a word.                                             *)
Skipped(i) ==
    \/ items[i].kind = "cut"
    \/ items[i].kind = "empty" /\ ~use_mmap
Ahead == {i \in DOMAIN items : i > cursor /\ ~Skipped(i)}
Upcoming == IF Ahead = {} THEN Len(items) + 1 ELSE Min(Ahead)

CutsBefore(n) == Cardinality({i \in DOMAIN items : cursor < i /\ i < n /\ items[i].kind = "cut"})

(* Mutant: only a cut block that another file follows is counted.          *)
PassCutsOnOpen ==
    /\ truncated' = truncated + (IF Ahead = {} THEN 0 ELSE CutsBefore(Upcoming))
    /\ UNCHANGED <<items, use_mmap>>

PassCuts ==
    /\ truncated' = truncated + CutsBefore(Upcoming)
    /\ UNCHANGED <<items, use_mmap>>

(* ReadNextBlock returns true, returns false, or throws.                   *)
ReadNextBlock ==
    /\ Upcoming \in Blocks
    /\ PassCuts
    /\ cursor' = Upcoming
    /\ IF use_mmap
       THEN /\ mapped' = items[Upcoming].file
            /\ raw' = [words |-> 0, mapping |-> mapped']
       ELSE /\ raw' = [words |-> Upcoming, mapping |-> 0]
            /\ UNCHANGED mapped

NoNextBlock ==
    /\ Ahead = {}
    /\ PassCuts
    /\ cursor' = Len(items)
    /\ mapped' = 0
    /\ UNCHANGED raw

BadNextBlock ==
    /\ Upcoming \in DOMAIN items \ Blocks
    /\ PassCuts
    /\ mapped' = IF use_mmap /\ items[Upcoming].kind = "bad" THEN items[Upcoming].file ELSE 0
    /\ UNCHANGED <<cursor, raw>>

-----------------------------------------------------------------------------
VARIABLES
    parse,
    source,         (* "reading", "finished" or "thrown"                   *)
    slice,          (* a timeslice: where it is, and its SroBlockData      *)
    parent,         (* the timeslice being unfolded, or 0                  *)
    child_idx,
    m_next_frame,
    m_frames_seen, m_frames_emitted,
    m_parse_stats,  (* blocks whose statistics were added                  *)
    queue,          (* events between unfolder and writer                  *)
    at,             (* the event that a worker processes                   *)
    pc,             (* "idle", "context", "create", "fill", "flush",       *)
                    (* "commit"                                            *)
    todo,           (* rows of the event not filled yet                    *)
    m_file_mutex,
    m_thread_contexts,
    cluster,        (* rows of a worker's open cluster of each table       *)
    table,          (* the table whose cluster is being flushed            *)
    file,           (* how often each row is in the output file            *)
    m_written,      (* m_frames_written, m_fadc_written, m_dcrb_written    *)
    closed

unfoldVars == <<parent, child_idx, m_next_frame, m_frames_seen, m_frames_emitted, m_parse_stats>>
workerVars == <<at, pc, todo, m_file_mutex, m_thread_contexts, cluster, table>>
outVars    == <<file, m_written, closed>>
vars == <<readerVars, parse, source, slice, unfoldVars, queue, workerVars, outVars>>

Tables  == {"frames", "fadc", "dcrb"}
NoEvent == <<0, 0>>

FrameOf(e) == items[e[1]].frames[e[2]]

(* The rows of an event, in the order ProcessParallel fills them.          *)
HitRows(t, e, n) == [k \in 1..n |-> <<t, e[1], e[2], k>>]
RowsOf(e) ==
    HitRows("frames", e, 1) \o HitRows("fadc", e, FrameOf(e).fadc)
                            \o HitRows("dcrb", e, FrameOf(e).dcrb)

AllEvents  == UNION {{b} \X DOMAIN items[b].frames : b \in Blocks}
AllRows    == UNION {Range(RowsOf(e)) : e \in AllEvents}

(* A SroBlockData: the block in body_words, the file external_body points  *)
(* into, the file body_owner pins, and the block its frames were parsed    *)
(* from, 0 for none of these.                                              *)
NoData == [where |-> "file", words |-> 0, external |-> 0, owner |-> 0,
           pending |-> FALSE, parsed |-> 0]

Init ==
    /\ items \in Inputs
    /\ \E m \in Modes : parse = m[1] /\ use_mmap = (m[2] = "mmap")
    /\ ReaderInit
    /\ source = "reading"
    /\ slice = [b \in Blocks |-> NoData]
    /\ parent = 0 /\ child_idx = 0 /\ m_next_frame = 0
    /\ m_frames_seen = 0 /\ m_frames_emitted = 0 /\ m_parse_stats = <<>>
    /\ queue = {}
    /\ at = [w \in Workers |-> NoEvent]
    /\ pc = [w \in Workers |-> "idle"]
    /\ todo = [w \in Workers |-> <<>>]
    /\ m_file_mutex = NoWorker
    /\ m_thread_contexts = {}
    /\ cluster = [w \in Workers |-> [t \in Tables |-> <<>>]]
    /\ table = [w \in Workers |-> "frames"]
    /\ file = [r \in AllRows |-> 0]
    /\ m_written = [t \in Tables |-> 0]
    /\ closed = FALSE

-----------------------------------------------------------------------------
(* EvioSroBlockSource::Emit.                                               *)
InFlight(where) == {b \in Blocks : slice[b].where \in where}

(* Mutant: the block points into the mapping and does not pin it.          *)
LazyDataUnpinned ==
    [NoData EXCEPT !.where = "emitted", !.pending = TRUE,
                   !.words = raw'.words, !.external = raw'.mapping]

LazyData ==
    [NoData EXCEPT !.where = "emitted", !.pending = TRUE,
                   !.words = raw'.words, !.external = raw'.mapping, !.owner = raw'.mapping]

Data(b) ==
    CASE parse = "lazy"  -> LazyData
      [] parse = "eager" -> [NoData EXCEPT !.where = "emitted", !.parsed = b]
      [] parse = "off"   -> [NoData EXCEPT !.where = "emitted"]

Emit ==
    /\ source = "reading"
    /\ Cardinality(InFlight({"emitted", "mapped", "unfolding", "unfolded"})) < MaxSlices
    /\ \/ /\ ReadNextBlock
          /\ slice' = [slice EXCEPT ![cursor'] = Data(cursor')]
          /\ UNCHANGED source
       \/ NoNextBlock /\ source' = "finished" /\ UNCHANGED slice
       \/ BadNextBlock /\ source' = "thrown" /\ UNCHANGED slice
    /\ UNCHANGED <<parse, unfoldVars, queue, workerVars, outVars>>

Running == source # "thrown" /\ ~closed

(* What a timeslice's body holds: its words, those of a mapping that is    *)
(* still there, or nothing.                                                *)
Mappings == {mapped, raw.mapping} \cup {slice[b].owner : b \in Blocks}
BodyOf(b) ==
    IF slice[b].external = 0 THEN slice[b].words
    ELSE IF slice[b].external \in Mappings THEN b ELSE 0

(* SroFrameUnfolder::Preprocess, on any thread.                            *)
Preprocess(b) ==
    /\ Running
    /\ slice[b].where = "emitted"
    /\ slice' = [slice EXCEPT ![b].where = "mapped", ![b].pending = FALSE,
                              ![b].parsed = IF slice[b].pending THEN BodyOf(b) ELSE @]
    /\ UNCHANGED <<readerVars, parse, source, unfoldVars, queue, workerVars, outVars>>

(* JANA gives the unfolder its next timeslice, and child_idx begins at 0.  *)
TakeParent(b) ==
    /\ Running
    /\ parent = 0
    /\ slice[b].where = "mapped"
    /\ parent' = b
    /\ child_idx' = 0
    /\ slice' = [slice EXCEPT ![b].where = "unfolding"]
    /\ UNCHANGED <<readerVars, parse, source, m_next_frame, m_frames_seen, m_frames_emitted,
                   m_parse_stats, queue, workerVars, outVars>>

(* SroFrameUnfolder::Unfold: the cursor goes on to the next frame that     *)
(* passes the finder.                                                      *)
Frames == IF slice[parent].parsed = 0 THEN <<>> ELSE items[slice[parent].parsed].frames

(* Mutant: the cursor is not reset for a new parent.                       *)
CursorOfLast == m_next_frame

Cursor == IF child_idx = 0 THEN 0 ELSE m_next_frame
Passing == {f \in DOMAIN Frames : f > Cursor /\ Frames[f].passes}

(* Mutant: the statistics are added with every frame.                      *)
AddStatsAlways == m_parse_stats' = Append(m_parse_stats, parent)

AddStats ==
    m_parse_stats' = IF child_idx = 0 THEN Append(m_parse_stats, parent) ELSE m_parse_stats

NextParent ==
    /\ parent' = 0
    /\ slice' = [slice EXCEPT ![parent].where = "unfolded"]
    /\ UNCHANGED child_idx

EventsInFlight == queue \cup {at[w] : w \in {v \in Workers : pc[v] # "idle"}}

UnfoldFrame ==
    /\ Running
    /\ parent # 0 /\ Passing # {}
    /\ Cardinality(EventsInFlight) < MaxEvents
    /\ LET f == Min(Passing) IN
       /\ m_next_frame' = f
       /\ m_frames_seen' = m_frames_seen + f - Cursor
       /\ m_frames_emitted' = m_frames_emitted + 1
       /\ queue' = queue \cup {<<parent, f>>}
       /\ \/ f = Len(Frames) /\ NextParent                  \* NextChildNextParent
          \/ f < Len(Frames) /\ child_idx' = child_idx + 1  \* NextChildKeepParent
                             /\ UNCHANGED <<parent, slice>>
    /\ AddStats
    /\ UNCHANGED <<readerVars, parse, source, workerVars, outVars>>

UnfoldNone ==                                               \* KeepChildNextParent
    /\ Running
    /\ parent # 0 /\ Passing = {}
    /\ Cardinality(EventsInFlight) < MaxEvents
    /\ m_frames_seen' = m_frames_seen + Len(Frames) - Cursor
    /\ m_next_frame' = Len(Frames)
    /\ NextParent
    /\ AddStats
    /\ UNCHANGED <<readerVars, parse, source, m_frames_emitted, queue, workerVars, outVars>>

(* JANA takes a timeslice back, and its data with it.                      *)
Recycle(b) ==
    /\ Running
    /\ slice[b].where = "unfolded"
    /\ \A e \in EventsInFlight : e[1] # b
    /\ slice' = [slice EXCEPT ![b] = [NoData EXCEPT !.where = "recycled"]]
    /\ UNCHANGED <<readerVars, parse, source, unfoldVars, queue, workerVars, outVars>>

-----------------------------------------------------------------------------
(* SroRNTupleWriter::ProcessParallel: EnsureDecoded, the contexts of the   *)
(* thread, the rows of the three tables, the counters.  In lazy mode the   *)
(* deferred banks are read from the body now.                              *)
TakeEvent(w, e) ==
    /\ Running
    /\ pc[w] = "idle"
    /\ e \in queue
    /\ queue' = queue \ {e}
    /\ at' = [at EXCEPT ![w] = e]
    /\ todo' = [todo EXCEPT ![w] = RowsOf(e)]
    /\ pc' = [pc EXCEPT ![w] = IF w \in m_thread_contexts THEN "fill" ELSE "context"]
    /\ UNCHANGED <<readerVars, parse, source, slice, unfoldVars, m_file_mutex,
                   m_thread_contexts, cluster, table, outVars>>

Writes(w) == Running /\ UNCHANGED <<readerVars, parse, source, slice, unfoldVars, queue, closed>>
Locks(w, to) ==
    /\ m_file_mutex = NoWorker
    /\ m_file_mutex' = w
    /\ pc' = [pc EXCEPT ![w] = to]
    /\ UNCHANGED <<at, todo, m_thread_contexts, cluster, table, file, m_written>>

(* GetThreadContexts: fill contexts are created under the file mutex, then *)
(* entered in the registry.                                                *)
CreateContexts(w) == Writes(w) /\ pc[w] = "context" /\ Locks(w, "create")

RegisterContexts(w) ==
    /\ Writes(w)
    /\ pc[w] = "create"
    /\ m_file_mutex' = NoWorker
    /\ m_thread_contexts' = m_thread_contexts \cup {w}
    /\ pc' = [pc EXCEPT ![w] = "fill"]
    /\ UNCHANGED <<at, todo, cluster, table, file, m_written>>

(* ThreadContexts::Fill: into the thread's own cluster, which is committed *)
(* to the shared file under the mutex when it is due.                      *)
FillRow(w) ==
    /\ Writes(w)
    /\ pc[w] = "fill" /\ todo[w] # <<>>
    /\ todo' = [todo EXCEPT ![w] = Tail(@)]
    /\ LET row == Head(todo[w])
           t   == row[1]
       IN  /\ cluster' = [cluster EXCEPT ![w][t] = Append(@, row)]
           /\ IF Len(cluster'[w][t]) >= ClusterRows
              THEN table' = [table EXCEPT ![w] = t] /\ pc' = [pc EXCEPT ![w] = "flush"]
              ELSE UNCHANGED <<table, pc>>
    /\ UNCHANGED <<at, m_file_mutex, m_thread_contexts, file, m_written>>

LockFile(w) == Writes(w) /\ pc[w] = "flush" /\ Locks(w, "commit")

PlacesOf(r, rows) == {k \in DOMAIN rows : rows[k] = r}
Added(rows) == [r \in AllRows |-> file[r] + Cardinality(PlacesOf(r, rows))]

CommitCluster(w) ==
    /\ Writes(w)
    /\ pc[w] = "commit"
    /\ file' = Added(cluster[w][table[w]])
    /\ cluster' = [cluster EXCEPT ![w][table[w]] = <<>>]
    /\ m_file_mutex' = NoWorker
    /\ pc' = [pc EXCEPT ![w] = "fill"]
    /\ UNCHANGED <<at, todo, m_thread_contexts, table, m_written>>

(* Mutant: an event counts once in every table.                            *)
OneOfEach(t, e) == 1

(* The counters of the three tables.                                       *)
RowCount(t, e) ==
    CASE t = "frames" -> 1
      [] t = "fadc"   -> FrameOf(e).fadc
      [] t = "dcrb"   -> FrameOf(e).dcrb

EndEvent(w) ==
    /\ Writes(w)
    /\ pc[w] = "fill" /\ todo[w] = <<>>
    /\ m_written' = [t \in Tables |-> m_written[t] + RowCount(t, at[w])]
    /\ at' = [at EXCEPT ![w] = NoEvent]
    /\ pc' = [pc EXCEPT ![w] = "idle"]
    /\ UNCHANGED <<todo, m_file_mutex, m_thread_contexts, cluster, table, file>>

(* JANA calls Finish when nothing is in flight: the clusters of all the    *)
(* registered contexts are committed, and the file is closed.              *)
Drained ==
    /\ source = "finished"
    /\ InFlight({"emitted", "mapped", "unfolding", "unfolded"}) = {}
    /\ EventsInFlight = {}

OpenPlaces(r) == UNION {{w} \X PlacesOf(r, cluster[w][r[1]]) : w \in m_thread_contexts}

Finish ==
    /\ Running /\ Drained
    /\ file' = [r \in AllRows |-> file[r] + Cardinality(OpenPlaces(r))]
    /\ m_thread_contexts' = {}
    /\ closed' = TRUE
    /\ UNCHANGED <<readerVars, parse, source, slice, unfoldVars, queue, at, pc, todo,
                   m_file_mutex, cluster, table, m_written>>

Stopped == (closed \/ source = "thrown") /\ UNCHANGED vars

Work(w) ==
    \/ \E e \in queue : TakeEvent(w, e)
    \/ CreateContexts(w) \/ RegisterContexts(w)
    \/ FillRow(w) \/ LockFile(w) \/ CommitCluster(w) \/ EndEvent(w)

Next ==
    \/ Emit
    \/ \E b \in Blocks : Preprocess(b) \/ TakeParent(b) \/ Recycle(b)
    \/ UnfoldFrame \/ UnfoldNone
    \/ \E w \in Workers : Work(w)
    \/ Finish
    \/ Stopped

Spec == Init /\ [][Next]_vars

-----------------------------------------------------------------------------
(* SroData.h:101 "pins the file mapping while this block lives", and       *)
(* SroFrameSetParser.h:29 "words must ... stay valid until deferred        *)
(* decoding is done": whenever the body of a block is still to be parsed,  *)
(* or one of its frames to be decoded, it holds the words of that block,   *)
(* although the reader has gone on to another block or another file.       *)
BodyStaysReadable ==
    \A b \in Blocks :
        /\ slice[b].pending => BodyOf(b) = b
        /\ parse = "lazy" /\ slice[b].where \in {"mapped", "unfolding", "unfolded"}
                => BodyOf(b) = b
        /\ slice[b].parsed \in {0, b}

(* SroBlockReader.h:69: a block cut off "is counted, the rest of that file *)
(* is skipped, and reading continues with the next file"; and the unfolder *)
(* sees each frame of each block once, and its statistics once, whatever   *)
(* the order in which the timeslices come to it.  The totals that are      *)
(* logged agree: every frame emitted is written or in flight, and at the   *)
(* end the writer has counted the rows of each table that are in the file. *)
RowsInFile(t) == Cardinality({r \in AllRows : r[1] = t /\ file[r] > 0})
NoBlockLost ==
    /\ m_frames_emitted = m_written["frames"] + Cardinality(EventsInFlight)
    /\ closed =>
        /\ \A b \in Blocks : slice[b].where = "recycled"
        /\ truncated = Cardinality({i \in DOMAIN items : items[i].kind = "cut"})
        /\ Len(m_parse_stats) = Cardinality(Blocks)
        /\ Range(m_parse_stats) = Blocks
        /\ m_frames_seen = IF parse = "off" THEN 0 ELSE Cardinality(AllEvents)
        /\ \A t \in Tables : m_written[t] = RowsInFile(t)

(* The rows of the frames that pass the finder come to the file, each of   *)
(* them once, and it is closed when all of them are there.                 *)
RowsToWrite ==
    UNION {Range(RowsOf(e)) : e \in {a \in AllEvents : parse # "off" /\ FrameOf(a).passes}}
Output == INSTANCE RowsWritten WITH rows <- RowsToWrite
ImplementsRowsWritten == Output!Spec
=============================================================================
