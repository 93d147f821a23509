------------------------------ MODULE SroProofs ------------------------------
(***************************************************************************)
(* Proofs about the SRO path, in two parts.                                *)
(*                                                                         *)
(* The pipeline (SroPipeline), for all lists of files, modes, sizes of the *)
(* pools and the clusters, and numbers of workers: the body of a block     *)
(* stays readable as long as it is needed (BodiesReadable), no block,      *)
(* frame or row is lost and the totals agree (BlocksAccounted), and each   *)
(* row comes to the output file once (PipelineRefinesRowsWritten).         *)
(*                                                                         *)
(* The parser of the blocks (SroLazyParse), for every block of typed       *)
(* words, sound or damaged: the slices of the frames partition the hits    *)
(* (SlicesPartition), and, if no length wraps around, the banks being      *)
(* walked nest (BanksNesting) and lazy parsing gives the hits of eager     *)
(* parsing (LazyGivesEager).                                               *)
(***************************************************************************)
EXTENDS SroPipeline, SroLazyParse, ProofFacts, FiniteSetTheorems, TLAPS

Kept   == {"emitted", "mapped", "unfolding", "unfolded"}
Places == Kept \cup {"file", "recycled"}
Slices == [where : Places, words : Nat, external : Nat, owner : Nat,
           pending : BOOLEAN, parsed : Nat]
FilesNumbered == \A i \in DOMAIN items : items[i].file \in Nat \ {0}

(* The values of the variables that the bodies are kept in; the timeslice  *)
(* that is being unfolded has not been taken back.                         *)
BodyTypes ==
    /\ FilesNumbered /\ Blocks \subseteq Nat
    /\ slice \in [Blocks -> Slices]
    /\ parse \in {"off", "eager", "lazy"}
    /\ parent # 0 => /\ parent \in Blocks
                     /\ slice[parent].where \in {"emitted", "mapped", "unfolding"}

(* A timeslice with a body that points into a file pins that file, and     *)
(* what is still to be parsed or decoded has such a body or the words.     *)
Pinned(b, d) ==
    /\ d.external # 0 => d.owner = d.external
    /\ (d.pending \/ (parse = "lazy" /\ d.where \in Kept))
        => (d.external # 0 \/ d.words = b)
    /\ d.parsed \in {0, b}

BodyInv == BodyTypes /\ \A b \in Blocks : Pinned(b, slice[b])

FrameInfos == [passes : BOOLEAN, fadc : Nat, dcrb : Nat]
Items == [file : Nat \ {0}, kind : {"block", "cut", "bad", "empty"}, frames : Seq(FrameInfos)]

(* The lists of files, by their items. *)
LEMMA InputsTyped ==
    ASSUME NEW is \in Inputs
    PROVE  /\ is \in Seq(Items) /\ Len(is) \in Nat /\ DOMAIN is = 1..Len(is)
           /\ DOMAIN is \subseteq Nat \ {0}
           /\ \A i \in DOMAIN is : is[i] \in Items
<1>1. is \in Seq(Items)
  BY SroPipelineAssumption DEF Items, FrameInfos
<1>2. Len(is) \in Nat /\ DOMAIN is = 1..Len(is)
  BY <1>1
<1>3. \A i \in DOMAIN is : is[i] \in Items
  BY <1>1
<1>4. DOMAIN is \subseteq Nat \ {0}
  BY <1>2
<1>5. QED BY <1>1, <1>2, <1>3, <1>4

(* With files that are pinned, bodies can be read. *)
LEMMA PinnedIsReadable == BodyInv => BodyStaysReadable
<1>1. SUFFICES ASSUME BodyInv, NEW b \in Blocks
               PROVE  /\ slice[b].pending => BodyOf(b) = b
                      /\ parse = "lazy" /\ slice[b].where \in {"mapped", "unfolding", "unfolded"}
                             => BodyOf(b) = b
                      /\ slice[b].parsed \in {0, b}
  BY DEF BodyStaysReadable
<1>2. slice[b].owner \in Mappings
  BY DEF Mappings
<1>3. slice[b].external # 0 \/ slice[b].words = b => BodyOf(b) = b
  BY <1>1, <1>2 DEF BodyInv, Pinned, Kept, BodyOf
<1>4. QED BY <1>1, <1>3 DEF BodyInv, Pinned, Kept

(* One timeslice changes, to one that is pinned. *)
LEMMA ChangeKeeps ==
    ASSUME BodyInv, UNCHANGED <<items, parse>>, NEW b \in Blocks, NEW d \in Slices,
           slice' = [slice EXCEPT ![b] = d], Pinned(b, d),
           parent' # 0 => /\ parent' \in Blocks
                          /\ slice'[parent'].where \in {"emitted", "mapped", "unfolding"}
    PROVE  BodyInv'
<1>1. Blocks' = Blocks /\ FilesNumbered' = FilesNumbered
  BY DEF Blocks, FilesNumbered
<1>2. BodyTypes'
  BY <1>1 DEF BodyInv, BodyTypes
<1>3. \A c \in Blocks : Pinned(c, slice'[c])
  BY DEF BodyInv, BodyTypes
<1>4. \A c \in Blocks : Pinned(c, slice[c])'
  BY <1>3 DEF Pinned, Kept
<1>5. QED BY <1>1, <1>2, <1>4 DEF BodyInv

(* No timeslice changes. *)
LEMMA OthersKeep ==
    ASSUME BodyInv, UNCHANGED <<items, parse, slice, parent>>
    PROVE  BodyInv'
<1>1. Blocks' = Blocks /\ FilesNumbered' = FilesNumbered
  BY DEF Blocks, FilesNumbered
<1>2. QED BY <1>1 DEF BodyInv, BodyTypes, Pinned, Kept

(* What a block is given when it is read is pinned, or its own. *)
LEMMA EmitKeeps ==
    ASSUME BodyInv, Emit
    PROVE  BodyInv'
<1>1. UNCHANGED <<items, parse, parent>>
  BY DEF Emit, ReadNextBlock, NoNextBlock, BadNextBlock, PassCuts, unfoldVars
<1>2. CASE ReadNextBlock /\ slice' = [slice EXCEPT ![cursor'] = Data(cursor')]
  <2> DEFINE d == Data(cursor')
  <2>1. /\ cursor' \in Blocks /\ cursor' \in Nat
        /\ raw'.words \in Nat /\ raw'.mapping \in Nat
        /\ raw'.mapping # 0 \/ raw'.words = cursor'
    BY <1>2 DEF ReadNextBlock, BodyInv, BodyTypes, FilesNumbered, Blocks
  <2>2. d \in Slices /\ d.where = "emitted" /\ Pinned(cursor', d)
    <3>1. CASE parse = "lazy"
      <4>1. d = [where |-> "emitted", words |-> raw'.words, external |-> raw'.mapping,
                 owner |-> raw'.mapping, pending |-> TRUE, parsed |-> 0]
        BY <3>1 DEF Data, LazyData, NoData
      <4>2. QED BY <2>1, <4>1 DEF Slices, Places, Kept, Pinned
    <3>2. CASE parse = "eager"
      <4>1. d = [where |-> "emitted", words |-> 0, external |-> 0,
                 owner |-> 0, pending |-> FALSE, parsed |-> cursor']
        BY <3>2 DEF Data, NoData
      <4>2. QED BY <2>1, <3>2, <4>1 DEF Slices, Places, Kept, Pinned
    <3>3. CASE parse = "off"
      <4>1. d = [where |-> "emitted", words |-> 0, external |-> 0,
                 owner |-> 0, pending |-> FALSE, parsed |-> 0]
        BY <3>3 DEF Data, NoData
      <4>2. QED BY <2>1, <3>3, <4>1 DEF Slices, Places, Kept, Pinned
    <3>4. QED BY <3>1, <3>2, <3>3 DEF BodyInv, BodyTypes
  <2>3. slice' = [slice EXCEPT ![cursor'] = d]
    BY <1>2
  <2> HIDE DEF d
  <2>4. parent' # 0 => /\ parent' \in Blocks
                       /\ slice'[parent'].where \in {"emitted", "mapped", "unfolding"}
    BY <1>1, <2>1, <2>2, <2>3 DEF BodyInv, BodyTypes
  <2>5. QED BY <1>1, <2>1, <2>2, <2>3, <2>4, ChangeKeeps
<1>3. CASE UNCHANGED slice
  BY <1>1, <1>3, OthersKeep
<1>4. QED BY <1>2, <1>3 DEF Emit

(* No step takes away what a body points to. *)
LEMMA StepKeeps ==
    ASSUME BodyInv, [Next]_vars
    PROVE  BodyInv'
<1>1. CASE Emit
  BY <1>1, EmitKeeps
<1>2. ASSUME NEW b \in Blocks, Preprocess(b) PROVE BodyInv'
  <2> DEFINE p == IF slice[b].pending THEN BodyOf(b) ELSE slice[b].parsed
             d == [slice[b] EXCEPT !.where = "mapped", !.pending = FALSE, !.parsed = p]
  <2>1. /\ slice[b] \in Slices /\ b \in Nat /\ slice' = [slice EXCEPT ![b] = d]
        /\ slice[b].where = "emitted" /\ UNCHANGED <<items, parse, parent>>
    BY <1>2 DEF BodyInv, BodyTypes, Preprocess, readerVars, unfoldVars
  <2>2. slice[b].pending => BodyOf(b) = b
    BY PinnedIsReadable DEF BodyStaysReadable
  <2>3. p \in {0, b}
    BY <2>2 DEF BodyInv, Pinned, Kept
  <2> HIDE DEF p
  <2>4. d \in Slices /\ d.where = "mapped" /\ Pinned(b, d)
    <3>1. p \in Nat
      BY <2>1, <2>3
    <3>2. /\ d \in Slices /\ d.where = "mapped" /\ d.parsed = p
          /\ d.words = slice[b].words /\ ~d.pending
          /\ d.external = slice[b].external /\ d.owner = slice[b].owner
      BY <2>1, <3>1 DEF Slices, Places, Kept
    <3> HIDE DEF d
    <3>3. Pinned(b, slice[b])
      BY DEF BodyInv
    <3>4. QED BY <2>1, <2>3, <3>2, <3>3 DEF Pinned, Kept
  <2> HIDE DEF d
  <2>5. parent' # 0 => /\ parent' \in Blocks
                       /\ slice'[parent'].where \in {"emitted", "mapped", "unfolding"}
    BY <2>1, <2>4 DEF BodyInv, BodyTypes
  <2>6. QED BY <2>1, <2>4, <2>5, ChangeKeeps
<1>3. ASSUME NEW b \in Blocks, TakeParent(b) PROVE BodyInv'
  <2> DEFINE d == [slice[b] EXCEPT !.where = "unfolding"]
  <2>1. /\ slice[b] \in Slices /\ slice' = [slice EXCEPT ![b] = d] /\ parent' = b
        /\ slice[b].where = "mapped" /\ UNCHANGED <<items, parse>>
    BY <1>3 DEF BodyInv, BodyTypes, TakeParent, readerVars
  <2>2. d \in Slices /\ d.where = "unfolding" /\ Pinned(b, d)
    BY <2>1 DEF Slices, Places, Kept, BodyInv, Pinned
  <2> HIDE DEF d
  <2>3. slice'[parent'].where = "unfolding"
    BY <2>1, <2>2 DEF BodyInv, BodyTypes
  <2>4. QED BY <2>1, <2>2, <2>3, ChangeKeeps
<1>4. ASSUME NEW b \in Blocks, Recycle(b) PROVE BodyInv'
  <2> DEFINE d == [NoData EXCEPT !.where = "recycled"]
  <2>1. /\ slice' = [slice EXCEPT ![b] = d] /\ UNCHANGED <<items, parse, parent>>
        /\ slice[b].where = "unfolded"
    BY <1>4 DEF Recycle, readerVars, unfoldVars
  <2>2. d \in Slices /\ Pinned(b, d)
    BY DEF NoData, Slices, Places, Kept, Pinned
  <2> HIDE DEF d
  <2>3. parent' # 0 => /\ parent' \in Blocks
                       /\ slice'[parent'].where \in {"emitted", "mapped", "unfolding"}
    BY <2>1 DEF BodyInv, BodyTypes
  <2>4. QED BY <2>1, <2>2, <2>3, ChangeKeeps
<1>5. CASE UnfoldFrame \/ UnfoldNone
  <2>1. /\ UNCHANGED <<items, parse>> /\ parent # 0 /\ parent \in Blocks
        /\ slice[parent].where \in {"emitted", "mapped", "unfolding"}
        /\ \/ UNCHANGED <<parent, slice>>
           \/ parent' = 0 /\ slice' = [slice EXCEPT ![parent].where = "unfolded"]
    BY <1>5 DEF UnfoldFrame, UnfoldNone, NextParent, readerVars, BodyInv, BodyTypes
  <2>2. CASE UNCHANGED <<parent, slice>>
    BY <2>1, <2>2, OthersKeep
  <2>3. CASE parent' = 0 /\ slice' = [slice EXCEPT ![parent].where = "unfolded"]
    <3> DEFINE d == [slice[parent] EXCEPT !.where = "unfolded"]
    <3>1. slice' = [slice EXCEPT ![parent] = d] /\ slice[parent] \in Slices
      BY <2>1, <2>3 DEF BodyInv, BodyTypes
    <3>2. d \in Slices /\ Pinned(parent, d)
      BY <2>1, <3>1 DEF Slices, Places, Kept, BodyInv, Pinned
    <3> HIDE DEF d
    <3>3. QED BY <2>1, <2>3, <3>1, <3>2, ChangeKeeps
  <2>4. QED BY <2>1, <2>2, <2>3
<1>6. CASE (\E w \in Workers : Work(w)) \/ Finish \/ UNCHANGED vars
  <2>1. UNCHANGED <<items, parse, parent, slice>>
    BY <1>6 DEF Work, TakeEvent, CreateContexts, RegisterContexts, FillRow, LockFile, CommitCluster,
                EndEvent, Writes, Finish, vars, readerVars, unfoldVars
  <2>2. QED BY <2>1, OthersKeep
<1>7. QED BY <1>1, <1>2, <1>3, <1>4, <1>5, <1>6 DEF Next, Stopped

(* Nothing was read at the beginning. *)
LEMMA InitBodies == Init => BodyInv
<1>1. SUFFICES ASSUME Init PROVE BodyInv
  OBVIOUS
<1>2. FilesNumbered /\ parent = 0 /\ parse \in {"off", "eager", "lazy"}
  <2>1. /\ items \in Inputs /\ parent = 0
        /\ \E m \in Modes : parse = m[1] /\ use_mmap = (m[2] = "mmap")
    BY <1>1 DEF Init
  <2>2. FilesNumbered
    BY <2>1, InputsTyped DEF FilesNumbered, Items
  <2>3. parse \in {"off", "eager", "lazy"}
    BY <2>1, SroPipelineAssumption
  <2>4. QED BY <2>1, <2>2, <2>3
<1>3. NoData \in Slices /\ slice = [b \in Blocks |-> NoData]
  BY <1>1 DEF Init, Slices, Places, Kept, NoData
<1>4. \A b \in Blocks : Pinned(b, slice[b])
  BY <1>3 DEF Pinned, Kept, NoData
<1>5. Blocks \subseteq Nat
  BY <1>1, InputsTyped DEF Init, Blocks
<1>6. QED BY <1>2, <1>3, <1>4, <1>5 DEF BodyInv, BodyTypes

(* The body of a block holds the words of that block as long as it is to   *)
(* be parsed or one of its frames is to be decoded, although the reader    *)
(* has gone on: for all lists of files and sizes of JANA's pools.          *)
THEOREM BodiesReadable == Spec => []BodyStaysReadable
<1>1. BodyInv /\ [Next]_vars => BodyInv'
  BY StepKeeps
<1>2. QED BY <1>1, InitBodies, PinnedIsReadable, PTL DEF Spec

-----------------------------------------------------------------------------
(***************************************************************************)
(* Where each frame is, and each row.  A frame that the unfolder passed    *)
(* was seen; those of them that the finder accepts were emitted as events, *)
(* and are done when no event of them is in flight.                        *)
(***************************************************************************)
Past == {"unfolded", "recycled"}

SeenFrames ==
    {e \in AllEvents : /\ parse # "off"
                       /\ slice[e[1]].where \in Past \/ (e[1] = parent /\ e[2] <= Cursor)}
Emitted == {e \in SeenFrames : FrameOf(e).passes}
DoneEvents == Emitted \ EventsInFlight
StatsDone == {b \in Blocks : slice[b].where \in Past \/ (b = parent /\ child_idx # 0)}
CutsTo(n) == {i \in DOMAIN items : i <= n /\ items[i].kind = "cut"}
EventOf(r) == <<r[2], r[3]>>

(* The rows that a worker has filled: in its open clusters, or in the file.*)
InCluster(w) == {r \in AllRows : r \in Range(cluster[w][r[1]])}
Filled == {r \in AllRows : file[r] > 0 \/ \E w \in Workers : r \in InCluster(w)}
RowsToDo(w) == Range(todo[w])

(* The reader is past the blocks that were emitted, and counted the blocks *)
(* that were cut off before its cursor.                                    *)
ReaderInv ==
    /\ items \in Inputs /\ use_mmap \in BOOLEAN
    /\ cursor \in 0..Len(items)
    /\ source \in {"reading", "finished", "thrown"}
    /\ source = "finished" => cursor = Len(items)
    /\ source # "thrown" => truncated = Cardinality(CutsTo(cursor))
    /\ \A b \in Blocks : slice[b].where = "file" <=> b > cursor

(* What is unfolded is the frames of the block itself.                     *)
ParsedAs(b, d) ==
    /\ parse = "off" => d.parsed = 0 /\ ~d.pending
    /\ parse = "lazy" /\ d.where = "emitted" => d.pending
    /\ parse = "lazy" /\ d.where \in {"mapped", "unfolding"} => d.parsed = b
    /\ parse = "eager" /\ d.where \in {"emitted", "mapped", "unfolding"}
          => d.parsed = b /\ ~d.pending
ParsedInv == \A b \in Blocks : ParsedAs(b, slice[b])

UnfoldInv ==
    /\ child_idx \in Nat /\ m_next_frame \in Nat
    /\ parent \in Blocks \cup {0}
    /\ \A b \in Blocks : slice[b].where = "unfolding" <=> parent = b
    /\ parent # 0 => Cursor <= Len(Frames)

(* An event that was emitted is in the queue, with one worker, or done.    *)
HandsInv ==
    /\ queue \subseteq Emitted
    /\ \A w \in Workers : pc[w] # "idle" => at[w] \in Emitted \ queue
    /\ \A v, w \in Workers : pc[v] # "idle" /\ pc[w] # "idle" /\ at[v] = at[w] => v = w

Distinct(s) == \A j, k \in DOMAIN s : s[j] = s[k] => j = k

WorkerTypes ==
    /\ pc \in [Workers -> {"idle", "context", "create", "fill", "flush", "commit"}]
    /\ at \in [Workers -> AllEvents \cup {NoEvent}]
    /\ todo \in [Workers -> Seq(AllRows)]
    /\ cluster \in [Workers -> [Tables -> Seq(AllRows)]]
    /\ table \in [Workers -> Tables]
    /\ file \in [AllRows -> Nat]
    /\ m_thread_contexts \subseteq Workers
    /\ m_written \in [Tables -> Nat]

ClustersInv ==
    /\ \A w \in Workers, t \in Tables :
        /\ Distinct(cluster[w][t])
        /\ \A k \in DOMAIN cluster[w][t] : cluster[w][t][k][1] = t
        /\ w \notin m_thread_contexts => cluster[w][t] = <<>>
    /\ \A w \in Workers :
        pc[w] \in {"fill", "flush", "commit"} => w \in m_thread_contexts

(* A row is in one cluster, or in the file, once.                          *)
OncePlaced ==
    /\ \A r \in AllRows : file[r] <= 1
    /\ \A w \in Workers : \A r \in InCluster(w) :
        file[r] = 0 /\ \A v \in Workers : r \in InCluster(v) => v = w

(* The rows of an event are filled when it is done, none of them before a  *)
(* worker takes it, and by that worker one after the other.                *)
FilledInv ==
    /\ \A r \in Filled : EventOf(r) \in Emitted \ queue
    /\ \A r \in AllRows : EventOf(r) \in DoneEvents => r \in Filled
    /\ \A w \in Workers :
        /\ Distinct(todo[w])
        /\ pc[w] = "idle" => todo[w] = <<>>
        /\ pc[w] # "idle" => \A r \in AllRows : EventOf(r) = at[w] =>
                                    (r \in RowsToDo(w)) # (r \in Filled)
        /\ \A r \in RowsToDo(w) : EventOf(r) = at[w]

RowInv == ClustersInv /\ OncePlaced /\ FilledInv

(* The totals of the unfolder, and of the writer.                          *)
TotalsInv ==
    /\ IsFiniteSet(SeenFrames)
    /\ m_frames_seen = IF parse = "off" THEN 0 ELSE Cardinality(SeenFrames)
    /\ m_frames_emitted = Cardinality(Emitted)
    /\ m_parse_stats \in Seq(Blocks)
    /\ Len(m_parse_stats) = Cardinality(StatsDone)
    /\ Range(m_parse_stats) = StatsDone

DoneRows(t) == {r \in AllRows : r[1] = t /\ EventOf(r) \in DoneEvents}
WrittenInv ==
    /\ IsFiniteSet(EventsInFlight)
    /\ m_written["frames"] = Cardinality(DoneEvents)
    /\ \A t \in Tables : /\ IsFiniteSet(DoneRows(t))
                         /\ m_written[t] = Cardinality(DoneRows(t))

ClosedInv ==
    closed =>
        /\ source = "finished" /\ EventsInFlight = {}
        /\ \A b \in Blocks : slice[b].where = "recycled"
        /\ \A r \in AllRows : file[r] > 0 <=> EventOf(r) \in Emitted

PipeInv ==
    /\ ReaderInv /\ ParsedInv /\ UnfoldInv /\ HandsInv /\ WorkerTypes
    /\ (closed \/ RowInv)
    /\ TotalsInv /\ WrittenInv /\ ClosedInv

-----------------------------------------------------------------------------
(* Sequences without repetition.                                           *)
LEMMA ConcatDistinct ==
    ASSUME NEW T, NEW s \in Seq(T), NEW t \in Seq(T), Distinct(s), Distinct(t),
           Range(s) \cap Range(t) = {}
    PROVE  Distinct(s \o t)
<1> DEFINE u == s \o t
<1>1. /\ \A k \in DOMAIN s : k \in DOMAIN u /\ u[k] = s[k]
      /\ \A k \in DOMAIN t : Len(s) + k \in DOMAIN u /\ u[Len(s) + k] = t[k]
      /\ \A k \in DOMAIN u : k \in DOMAIN s \/ \E j \in DOMAIN t : k = Len(s) + j
  BY ConcatIndex
<1> HIDE DEF u
<1>2. SUFFICES ASSUME NEW i \in DOMAIN u, NEW j \in DOMAIN u, u[i] = u[j] PROVE i = j
  BY DEF Distinct, u
<1>3. ASSUME NEW k \in DOMAIN s, NEW l \in DOMAIN t PROVE s[k] # t[l]
  BY DEF Range
<1>4. CASE i \in DOMAIN s /\ j \in DOMAIN s
  <2>1. s[i] = s[j]
    BY <1>1, <1>2, <1>4, Zenon
  <2>2. QED BY <1>4, <2>1 DEF Distinct
<1>5. ASSUME NEW k \in DOMAIN t, NEW l \in DOMAIN t, i = Len(s) + k, j = Len(s) + l PROVE i = j
  <2>1. t[k] = t[l]
    BY <1>1, <1>2, <1>5, Zenon
  <2>2. k = l
    BY <2>1 DEF Distinct
  <2>3. QED BY <1>5, <2>2
<1>6. ASSUME i \in DOMAIN s, NEW l \in DOMAIN t, j = Len(s) + l PROVE FALSE
  <2>1. s[i] = t[l]
    BY <1>1, <1>2, <1>6, Zenon
  <2>2. QED BY <1>3, <1>6, <2>1
<1>7. ASSUME j \in DOMAIN s, NEW l \in DOMAIN t, i = Len(s) + l PROVE FALSE
  <2>1. s[j] = t[l]
    BY <1>1, <1>2, <1>7, Zenon
  <2>2. QED BY <1>3, <1>7, <2>1
<1>8. QED BY <1>1, <1>2, <1>4, <1>5, <1>6, <1>7, Zenon

(* The elements of two sequences, one after the other.                     *)
LEMMA ConcatRange ==
    ASSUME NEW T, NEW s \in Seq(T), NEW t \in Seq(T)
    PROVE  Range(s \o t) = Range(s) \cup Range(t)
<1> DEFINE u == s \o t
<1>1. /\ \A k \in DOMAIN s : k \in DOMAIN u /\ u[k] = s[k]
      /\ \A k \in DOMAIN t : Len(s) + k \in DOMAIN u /\ u[Len(s) + k] = t[k]
      /\ \A k \in DOMAIN u : k \in DOMAIN s \/ \E j \in DOMAIN t : k = Len(s) + j
  BY ConcatIndex
<1> HIDE DEF u
<1>2. Range(u) \subseteq Range(s) \cup Range(t)
  <2>1. SUFFICES ASSUME NEW k \in DOMAIN u PROVE u[k] \in Range(s) \cup Range(t)
    BY DEF Range
  <2>2. CASE k \in DOMAIN s
    BY <1>1, <2>2 DEF Range
  <2>3. ASSUME NEW j \in DOMAIN t, k = Len(s) + j PROVE u[k] \in Range(s) \cup Range(t)
    <3>1. u[k] = t[j]
      BY <1>1, <2>3, Zenon
    <3>2. QED BY <3>1 DEF Range
  <2>4. QED BY <1>1, <2>2, <2>3, Zenon
<1>3. Range(s) \subseteq Range(u)
  BY <1>1, Zenon DEF Range
<1>4. Range(t) \subseteq Range(u)
  BY <1>1, Zenon DEF Range
<1>5. QED BY <1>2, <1>3, <1>4 DEF u

(* An element that is not in a sequence is appended to it.                 *)
LEMMA AppendDistinct ==
    ASSUME NEW T, NEW s \in Seq(T), NEW x \in T
    PROVE  /\ Append(s, x) \in Seq(T) /\ Range(Append(s, x)) = Range(s) \cup {x}
           /\ Distinct(s) /\ x \notin Range(s) => Distinct(Append(s, x))
<1> DEFINE u == Append(s, x)
<1>1. /\ DOMAIN u = 1..Len(s) + 1 /\ DOMAIN s = 1..Len(s) /\ Len(s) \in Nat
      /\ u[Len(s) + 1] = x /\ \A k \in 1..Len(s) : u[k] = s[k]
      /\ u \in Seq(T)
  OBVIOUS
<1> HIDE DEF u
<1>2. Range(u) = Range(s) \cup {x}
  BY <1>1 DEF Range
<1>3. ASSUME Distinct(s), x \notin Range(s), NEW i \in DOMAIN u, NEW j \in DOMAIN u, u[i] = u[j]
      PROVE  i = j
  <2>1. \A k \in 1..Len(s) : u[k] # x
    BY <1>1, <1>3 DEF Range
  <2>2. CASE i = Len(s) + 1 \/ j = Len(s) + 1
    BY <1>1, <1>3, <2>1, <2>2
  <2>3. CASE i \in 1..Len(s) /\ j \in 1..Len(s)
    BY <1>1, <1>3, <2>3 DEF Distinct
  <2>4. QED BY <1>1, <2>2, <2>3
<1>4. Distinct(s) /\ x \notin Range(s) => Distinct(u)
  BY <1>3, Zenon DEF Distinct
<1>5. QED BY <1>1, <1>2, <1>4 DEF u

(* What is left of a sequence is without its first element.                *)
LEMMA TailDistinct ==
    ASSUME NEW T, NEW s \in Seq(T), s # <<>>
    PROVE  /\ Tail(s) \in Seq(T) /\ Head(s) \in T /\ Head(s) \in Range(s)
           /\ Range(s) = Range(Tail(s)) \cup {Head(s)}
           /\ Distinct(s) => Distinct(Tail(s)) /\ Head(s) \notin Range(Tail(s))
<1> DEFINE u == Tail(s)
<1>1. /\ DOMAIN u = 1..Len(s) - 1 /\ DOMAIN s = 1..Len(s) /\ Len(s) \in Nat /\ Len(s) >= 1
      /\ \A k \in 1..Len(s) - 1 : u[k] = s[k + 1]
      /\ u \in Seq(T) /\ Head(s) = s[1]
  OBVIOUS
<1> HIDE DEF u
<1>2. Range(s) = Range(u) \cup {Head(s)}
  <2>1. Range(u) \cup {Head(s)} \subseteq Range(s)
    BY <1>1 DEF Range
  <2>2. ASSUME NEW k \in DOMAIN s PROVE s[k] \in Range(u) \cup {Head(s)}
    <3>1. CASE k = 1
      BY <1>1, <3>1
    <3>2. CASE k # 1
      <4>1. k - 1 \in DOMAIN u /\ u[k - 1] = s[k]
        BY <1>1, <3>2
      <4>2. QED BY <4>1 DEF Range
    <3>3. QED BY <3>1, <3>2
  <2>3. QED BY <2>1, <2>2 DEF Range
<1>3. ASSUME Distinct(s) PROVE Distinct(u) /\ Head(s) \notin Range(u)
  <2>1. ASSUME NEW i \in DOMAIN u, NEW j \in DOMAIN u, u[i] = u[j] PROVE i = j
    <3>1. i + 1 \in DOMAIN s /\ j + 1 \in DOMAIN s /\ s[i + 1] = s[j + 1] /\ i \in Nat /\ j \in Nat
      BY <1>1, <2>1
    <3>2. i + 1 = j + 1
      BY <1>3, <3>1 DEF Distinct
    <3>3. QED BY <3>1, <3>2
  <2>2. ASSUME NEW i \in DOMAIN u, u[i] = Head(s) PROVE FALSE
    <3>1. i + 1 \in DOMAIN s /\ 1 \in DOMAIN s /\ s[i + 1] = s[1] /\ i \in Nat /\ i >= 1
      BY <1>1, <2>2
    <3>2. i + 1 = 1
      BY <1>3, <3>1 DEF Distinct
    <3>3. QED BY <3>1, <3>2
  <2>3. QED BY <2>1, <2>2 DEF Distinct, Range
<1>4. Head(s) \in T
  BY <1>1
<1>5. QED BY <1>1, <1>2, <1>3, <1>4, Zenon DEF u

(* How often an element is in a sequence without repetition.               *)
LEMMA PlacesOnce ==
    ASSUME NEW s, Distinct(s), NEW r
    PROVE  /\ r \in Range(s) => Cardinality(PlacesOf(r, s)) = 1
           /\ r \notin Range(s) => Cardinality(PlacesOf(r, s)) = 0
<1>1. CASE r \in Range(s)
  <2>1. PICK k \in DOMAIN s : s[k] = r
    BY <1>1 DEF Range
  <2>2. PlacesOf(r, s) = {k}
    BY <2>1 DEF PlacesOf, Distinct
  <2>3. QED BY <1>1, <2>2, FS_Singleton
<1>2. CASE r \notin Range(s)
  <2>1. PlacesOf(r, s) = {}
    BY <1>2 DEF PlacesOf, Range
  <2>2. QED BY <1>2, <2>1, FS_EmptySet
<1>3. QED BY <1>1, <1>2

-----------------------------------------------------------------------------
(* The frames of the blocks, and their rows.                               *)
LEMMA FrameTypes ==
    ASSUME ReaderInv, NEW b \in Blocks
    PROVE  /\ items[b] \in Items /\ items[b].frames \in Seq(FrameInfos)
           /\ Len(items[b].frames) \in Nat
           /\ DOMAIN items[b].frames = 1..Len(items[b].frames)
           /\ \A f \in DOMAIN items[b].frames : items[b].frames[f] \in FrameInfos
           /\ b \in Nat /\ b # 0
<1>1. items \in Inputs
  BY DEF ReaderInv
<1>2. items[b] \in Items /\ b \in Nat /\ b # 0
  BY <1>1, InputsTyped DEF Blocks
<1>3. items[b].frames \in Seq(FrameInfos)
  BY <1>2 DEF Items
<1>4. QED BY <1>2, <1>3

(* An event is a frame of a block.                                         *)
LEMMA EventShape ==
    ASSUME NEW e
    PROVE  e \in AllEvents <=> /\ e = <<e[1], e[2]>> /\ e[1] \in Blocks
                               /\ e[2] \in DOMAIN items[e[1]].frames
BY DEF AllEvents

(* The event of a frame of a block, given as a pair.                       *)
LEMMA EventPair ==
    ASSUME NEW b, NEW f
    PROVE  /\ <<b, f>>[1] = b /\ <<b, f>>[2] = f
           /\ <<b, f>> \in AllEvents <=> b \in Blocks /\ f \in DOMAIN items[b].frames
<1>1. <<b, f>>[1] = b /\ <<b, f>>[2] = f
  OBVIOUS
<1>2. QED BY <1>1, EventShape, Zenon

(* The frame of an event, and the parts of its name.                       *)
LEMMA EventTypes ==
    ASSUME ReaderInv, NEW e \in AllEvents
    PROVE  /\ FrameOf(e) \in FrameInfos
           /\ FrameOf(e).fadc \in Nat /\ FrameOf(e).dcrb \in Nat /\ FrameOf(e).passes \in BOOLEAN
           /\ e[1] \in Nat /\ e[2] \in Nat /\ e[1] \in Blocks /\ e # NoEvent /\ e = <<e[1], e[2]>>
<1>1. e = <<e[1], e[2]>> /\ e[1] \in Blocks /\ e[2] \in DOMAIN items[e[1]].frames
  BY EventShape
<1>2. FrameOf(e) \in FrameInfos /\ e[1] \in Nat /\ e[1] # 0 /\ e[2] \in Nat
  BY <1>1, FrameTypes DEF FrameOf
<1>3. e # NoEvent
  BY <1>2 DEF NoEvent
<1>4. QED BY <1>1, <1>2, <1>3 DEF FrameInfos

(* The rows of one table of an event.                                      *)
RowTuples == Tables \X Nat \X Nat \X Nat

(* The rows of one table are of that table and that event.                 *)
LEMMA HitRowsFacts ==
    ASSUME NEW t \in Tables, NEW e, e[1] \in Nat, e[2] \in Nat, e = <<e[1], e[2]>>, NEW n \in Nat
    PROVE  /\ HitRows(t, e, n) \in Seq(RowTuples)
           /\ Distinct(HitRows(t, e, n))
           /\ \A r \in Range(HitRows(t, e, n)) : r[1] = t /\ EventOf(r) = e
<1> DEFINE s == [k \in 1..n |-> <<t, e[1], e[2], k>>]
<1>1. HitRows(t, e, n) = s
  BY DEF HitRows
<1>2. s \in Seq(RowTuples)
  BY DEF RowTuples
<1>3. Distinct(s)
  <2>1. \A k \in 1..n : s[k][4] = k
    OBVIOUS
  <2>2. DOMAIN s = 1..n
    OBVIOUS
  <2> HIDE DEF s
  <2>3. QED BY <2>1, <2>2, Zenon DEF Distinct
<1>4. \A r \in Range(s) : r[1] = t /\ EventOf(r) = e
  <2>1. \A k \in 1..n : s[k][1] = t /\ s[k][2] = e[1] /\ s[k][3] = e[2]
    OBVIOUS
  <2>2. DOMAIN s = 1..n
    OBVIOUS
  <2> HIDE DEF s
  <2>3. QED BY <2>1, <2>2 DEF Range, EventOf
<1> HIDE DEF s
<1>5. QED BY <1>1, <1>2, <1>3, <1>4, Zenon

(* The rows of an event are those of its three tables, each once.          *)
LEMMA RowsShape ==
    ASSUME ReaderInv, NEW e \in AllEvents
    PROVE  /\ RowsOf(e) \in Seq(RowTuples) /\ Distinct(RowsOf(e))
           /\ \A r \in Range(RowsOf(e)) : EventOf(r) = e /\ r[1] \in Tables
           /\ Range(RowsOf(e)) = Range(HitRows("frames", e, 1))
                                   \cup Range(HitRows("fadc", e, FrameOf(e).fadc))
                                   \cup Range(HitRows("dcrb", e, FrameOf(e).dcrb))
<1> DEFINE n == FrameOf(e).fadc
           m == FrameOf(e).dcrb
           A == HitRows("frames", e, 1)
           B == HitRows("fadc", e, n)
           C == HitRows("dcrb", e, m)
<1>1. n \in Nat /\ m \in Nat /\ e[1] \in Nat /\ e[2] \in Nat /\ e = <<e[1], e[2]>>
  BY EventTypes
<1>2. "frames" \in Tables /\ "fadc" \in Tables /\ "dcrb" \in Tables /\ 1 \in Nat
  BY DEF Tables
<1>3. RowsOf(e) = (A \o B) \o C
  BY DEF RowsOf
<1> HIDE DEF n, m
<1>4. A \in Seq(RowTuples) /\ Distinct(A) /\ \A r \in Range(A) : r[1] = "frames" /\ EventOf(r) = e
  BY <1>1, <1>2, HitRowsFacts, Zenon
<1>5. B \in Seq(RowTuples) /\ Distinct(B) /\ \A r \in Range(B) : r[1] = "fadc" /\ EventOf(r) = e
  BY <1>1, <1>2, HitRowsFacts, Zenon
<1>6. C \in Seq(RowTuples) /\ Distinct(C) /\ \A r \in Range(C) : r[1] = "dcrb" /\ EventOf(r) = e
  BY <1>1, <1>2, HitRowsFacts, Zenon
<1> HIDE DEF A, B, C
<1>7. Range(A) \cap Range(B) = {} /\ (Range(A) \cup Range(B)) \cap Range(C) = {}
  BY <1>4, <1>5, <1>6
<1> DEFINE D == A \o B
<1>8. D \in Seq(RowTuples) /\ Distinct(D) /\ Range(D) = Range(A) \cup Range(B)
  BY <1>4, <1>5, <1>7, ConcatDistinct, ConcatRange
<1>9. RowsOf(e) = D \o C
  BY <1>3
<1> HIDE DEF D
<1>10. Range(D \o C) = Range(D) \cup Range(C)
  BY <1>6, <1>8, ConcatRange
<1>11. Range(D) \cap Range(C) = {}
  BY <1>7, <1>8
<1>12. Distinct(D \o C)
  BY <1>6, <1>8, <1>11, ConcatDistinct
<1>13. D \o C \in Seq(RowTuples)
  BY <1>6, <1>8
<1>14. \A r \in Range(D \o C) : EventOf(r) = e /\ r[1] \in Tables
  BY <1>2, <1>4, <1>5, <1>6, <1>8, <1>10
<1>15. Range(D \o C) = Range(A) \cup Range(B) \cup Range(C)
  BY <1>8, <1>10
<1>16. Range(RowsOf(e)) = Range(HitRows("frames", e, 1))
                            \cup Range(HitRows("fadc", e, FrameOf(e).fadc))
                            \cup Range(HitRows("dcrb", e, FrameOf(e).dcrb))
  BY <1>9, <1>15 DEF A, B, C, n, m
<1>17. QED BY <1>9, <1>12, <1>13, <1>14, <1>16, Zenon

(* All rows are those of the events, each of one event.                    *)
LEMMA RowsOfEvent ==
    ASSUME ReaderInv, NEW e \in AllEvents
    PROVE  /\ RowsOf(e) \in Seq(AllRows) /\ Distinct(RowsOf(e))
           /\ Range(RowsOf(e)) = {r \in AllRows : EventOf(r) = e}
<1>1. /\ RowsOf(e) \in Seq(RowTuples) /\ Distinct(RowsOf(e))
      /\ \A r \in Range(RowsOf(e)) : EventOf(r) = e
  BY RowsShape
<1>2. Range(RowsOf(e)) \subseteq AllRows
  BY DEF AllRows, Range
<1>3. RowsOf(e) \in Seq(AllRows)
  <2>1. \A k \in DOMAIN RowsOf(e) : RowsOf(e)[k] \in AllRows
    BY <1>2 DEF Range
  <2>2. QED BY <1>1, <2>1
<1>4. ASSUME NEW r \in AllRows, EventOf(r) = e PROVE r \in Range(RowsOf(e))
  <2>1. PICK d \in AllEvents : r \in Range(RowsOf(d))
    BY DEF AllRows, Range
  <2>2. EventOf(r) = d
    BY <2>1, RowsShape
  <2>3. QED BY <1>4, <2>1, <2>2
<1>5. QED BY <1>1, <1>2, <1>3, <1>4

(* A row is of a table and of an event.                                    *)
LEMMA RowTypes ==
    ASSUME ReaderInv, NEW r \in AllRows
    PROVE  r[1] \in Tables /\ EventOf(r) \in AllEvents
<1>1. PICK d \in AllEvents : r \in Range(RowsOf(d))
  BY DEF AllRows, Range
<1>2. QED BY <1>1, RowsShape

-----------------------------------------------------------------------------
(* The input stays as it is.                                               *)
LEMMA SameInput ==
    ASSUME [Next]_vars
    PROVE  /\ UNCHANGED <<items, parse, use_mmap>>
           /\ Blocks' = Blocks /\ AllEvents' = AllEvents /\ AllRows' = AllRows
           /\ \A e : FrameOf(e)' = FrameOf(e) /\ RowsOf(e)' = RowsOf(e)
<1>1. ASSUME Emit PROVE UNCHANGED <<items, parse, use_mmap>>
  BY <1>1 DEF Emit, ReadNextBlock, NoNextBlock, BadNextBlock, PassCuts
<1>2. ASSUME NEW b \in Blocks, Preprocess(b) \/ TakeParent(b) \/ Recycle(b)
      PROVE  UNCHANGED <<items, parse, use_mmap>>
  BY <1>2 DEF Preprocess, TakeParent, Recycle, readerVars
<1>3. ASSUME UnfoldFrame \/ UnfoldNone PROVE UNCHANGED <<items, parse, use_mmap>>
  BY <1>3 DEF UnfoldFrame, UnfoldNone, readerVars
<1>4. ASSUME (\E w \in Workers : Work(w)) \/ Finish \/ UNCHANGED vars
      PROVE  UNCHANGED <<items, parse, use_mmap>>
  BY <1>4 DEF Work, TakeEvent, CreateContexts, RegisterContexts, FillRow, LockFile, CommitCluster,
              EndEvent, Writes, Finish, vars, readerVars
<1>5. UNCHANGED <<items, parse, use_mmap>>
  BY <1>1, <1>2, <1>3, <1>4 DEF Next, Stopped
<1>6. \A e : FrameOf(e)' = FrameOf(e) /\ RowsOf(e)' = RowsOf(e)
  BY <1>5 DEF FrameOf, RowsOf
<1>7. Blocks' = Blocks /\ AllEvents' = AllEvents
  BY <1>5 DEF Blocks, AllEvents
<1>8. AllRows' = AllRows
  BY <1>6, <1>7 DEF AllRows
<1>9. QED BY <1>5, <1>6, <1>7, <1>8

(* The steps of the workers leave reader and unfolder alone.               *)
LEMMA WorkersApart ==
    ASSUME (\E w \in Workers : Work(w)) \/ Finish \/ UNCHANGED vars
    PROVE  UNCHANGED <<readerVars, parse, source, slice, unfoldVars>>
BY DEF Work, TakeEvent, CreateContexts, RegisterContexts, FillRow, LockFile, CommitCluster,
       EndEvent, Writes, Finish, vars

(* The minimum of a set of numbers.                                        *)
LEMMA LeastIsMin ==
    ASSUME NEW S \in SUBSET Nat, S # {}
    PROVE  Min(S) \in S /\ \A x \in S : Min(S) <= x
<1>1. \E k \in S : \A l \in S : k <= l
  BY LeastNumber
<1>2. QED BY <1>1 DEF Min

(* Blocks that were cut off, up to a later item.                           *)
LEMMA CutsAdd ==
    ASSUME ReaderInv, NEW n \in Nat, NEW c \in Nat,
           CutsTo(c) = CutsTo(cursor) \cup
                {i \in DOMAIN items : cursor < i /\ i < n /\ items[i].kind = "cut"}
    PROVE  Cardinality(CutsTo(c)) = Cardinality(CutsTo(cursor)) + CutsBefore(n)
<1> DEFINE S == CutsTo(cursor)
           T == {i \in DOMAIN items : cursor < i /\ i < n /\ items[i].kind = "cut"}
<1>1. /\ DOMAIN items = 1..Len(items) /\ Len(items) \in Nat /\ cursor \in Nat
  BY InputsTyped DEF ReaderInv
<1>2. IsFiniteSet(DOMAIN items)
  BY <1>1, FS_Interval
<1>3. S \subseteq DOMAIN items /\ T \subseteq DOMAIN items /\ S \cap T = {}
  BY <1>1 DEF CutsTo
<1>4. CutsBefore(n) = Cardinality(T) /\ CutsTo(c) = S \cup T
  BY DEF CutsBefore
<1> HIDE DEF S, T
<1>5. IsFiniteSet(S) /\ IsFiniteSet(T)
  BY <1>2, <1>3, FS_Subset
<1>6. Cardinality(S \cup T) = Cardinality(S) + Cardinality(T) - Cardinality(S \cap T)
  BY <1>5, FS_Union
<1>7. Cardinality(S \cap T) = 0 /\ Cardinality(S) \in Nat /\ Cardinality(T) \in Nat
  BY <1>3, <1>5, FS_EmptySet, FS_CardinalityType
<1>8. Cardinality(S \cup T) = Cardinality(S) + Cardinality(T)
  BY <1>6, <1>7
<1>9. CutsTo(cursor) = S
  BY DEF S
<1>10. QED BY <1>4, <1>8, <1>9, Zenon

(* The reader goes past blocks that are cut off or empty files only.       *)
LEMMA UpcomingFacts ==
    ASSUME ReaderInv
    PROVE  /\ DOMAIN items = 1..Len(items) /\ Len(items) \in Nat /\ cursor \in Nat
           /\ Upcoming \in Nat /\ cursor < Upcoming /\ Upcoming <= Len(items) + 1
           /\ \A i \in DOMAIN items : cursor < i /\ i < Upcoming => Skipped(i) /\ i \notin Blocks
           /\ Ahead = {} <=> Upcoming = Len(items) + 1
<1>1. /\ DOMAIN items = 1..Len(items) /\ Len(items) \in Nat /\ cursor \in Nat /\ cursor <= Len(items)
  BY InputsTyped DEF ReaderInv
<1>2. \A i \in DOMAIN items : Skipped(i) => i \notin Blocks
  BY DEF Skipped, Blocks
<1>3. CASE Ahead = {}
  <2>1. \A i \in DOMAIN items : cursor < i => Skipped(i)
    BY <1>3 DEF Ahead
  <2>2. Upcoming = Len(items) + 1
    BY <1>3 DEF Upcoming
  <2>3. QED BY <1>1, <1>2, <1>3, <2>1, <2>2
<1>4. CASE Ahead # {}
  <2>1. Ahead \subseteq Nat /\ Ahead \subseteq DOMAIN items
    BY <1>1 DEF Ahead
  <2>2. Upcoming \in Ahead /\ \A x \in Ahead : Upcoming <= x
    BY <1>4, <2>1, LeastIsMin DEF Upcoming
  <2>3. Upcoming \in DOMAIN items /\ cursor < Upcoming
    BY <2>2 DEF Ahead
  <2>4. \A i \in DOMAIN items : cursor < i /\ i < Upcoming => Skipped(i)
    <3>1. SUFFICES ASSUME NEW i \in DOMAIN items, cursor < i, i < Upcoming, ~Skipped(i) PROVE FALSE
      OBVIOUS
    <3>2. i \in Ahead
      BY <1>1, <3>1 DEF Ahead
    <3>3. QED BY <1>1, <2>2, <2>3, <3>1, <3>2
  <2>5. QED BY <1>1, <1>2, <1>4, <2>3, <2>4
<1>5. QED BY <1>3, <1>4

(* What was emitted is what is before the cursor.                          *)
LEMMA EmitReader ==
    ASSUME ReaderInv, BodyInv, [Next]_vars, Emit
    PROVE  ReaderInv'
<1>0. UNCHANGED <<items, use_mmap>> /\ Blocks' = Blocks
  BY SameInput
<1>1. /\ DOMAIN items = 1..Len(items) /\ Len(items) \in Nat /\ cursor \in Nat /\ cursor <= Len(items)
      /\ source = "reading" /\ truncated = Cardinality(CutsTo(cursor))
      /\ \A b \in Blocks : slice[b].where = "file" <=> b > cursor
      /\ Blocks \subseteq DOMAIN items /\ slice \in [Blocks -> Slices]
  BY InputsTyped DEF ReaderInv, Emit, Blocks, BodyInv, BodyTypes
<1>2. \A n : CutsTo(n)' = CutsTo(n)
  BY <1>0 DEF CutsTo
<1>3. CASE ReadNextBlock /\ slice' = [slice EXCEPT ![cursor'] = Data(cursor')] /\ UNCHANGED source
  <2>1. cursor' = Upcoming /\ Upcoming \in Blocks /\ truncated' = truncated + CutsBefore(Upcoming)
    BY <1>3 DEF ReadNextBlock, PassCuts
  <2>2. CutsTo(Upcoming) = CutsTo(cursor) \cup
            {i \in DOMAIN items : cursor < i /\ i < Upcoming /\ items[i].kind = "cut"}
    <3>1. items[Upcoming].kind # "cut"
      BY <2>1 DEF Blocks
    <3>2. \A i \in DOMAIN items : i \in Nat
      BY <1>1
    <3>3. QED BY <1>1, <3>1, <3>2, UpcomingFacts DEF CutsTo
  <2>3. truncated' = Cardinality(CutsTo(cursor'))
    BY <1>1, <2>1, <2>2, CutsAdd, UpcomingFacts
  <2>4. slice'[Upcoming].where = "emitted" /\ \A b \in Blocks : b # Upcoming => slice'[b] = slice[b]
    <3>1. Data(cursor').where = "emitted"
      BY DEF Data, LazyData, NoData, BodyInv, BodyTypes
    <3>2. QED BY <1>1, <1>3, <2>1, <3>1
  <2>5. ASSUME NEW b \in Blocks PROVE slice'[b].where = "file" <=> b > cursor'
    <3>1. b \in Nat /\ b \in DOMAIN items
      BY <1>1
    <3>2. CASE b = Upcoming
      BY <2>1, <2>4, <3>1, <3>2, UpcomingFacts
    <3>3. CASE b < Upcoming
      <4>1. b <= cursor
        BY <1>1, <3>1, <3>3, UpcomingFacts
      <4>2. QED BY <1>1, <2>1, <2>4, <3>1, <3>3, <4>1, UpcomingFacts
    <3>4. CASE b > Upcoming
      BY <1>1, <2>1, <2>4, <3>1, <3>4, UpcomingFacts
    <3>5. QED BY <3>1, <3>2, <3>3, <3>4, UpcomingFacts
  <2>6. cursor' \in 0..Len(items)
    BY <1>1, <2>1
  <2>7. QED BY <1>0, <1>1, <1>2, <1>3, <2>3, <2>5, <2>6 DEF ReaderInv
<1>4. CASE NoNextBlock /\ source' = "finished" /\ UNCHANGED slice
  <2>1. cursor' = Len(items) /\ Upcoming = Len(items) + 1 /\ truncated' = truncated + CutsBefore(Upcoming)
    BY <1>4, UpcomingFacts DEF NoNextBlock, PassCuts
  <2>2. CutsTo(Len(items)) = CutsTo(cursor) \cup
            {i \in DOMAIN items : cursor < i /\ i < Upcoming /\ items[i].kind = "cut"}
    BY <1>1, <2>1 DEF CutsTo
  <2>3. truncated' = Cardinality(CutsTo(cursor'))
    BY <1>1, <2>1, <2>2, CutsAdd, UpcomingFacts
  <2>4. ASSUME NEW b \in Blocks PROVE slice'[b].where = "file" <=> b > cursor'
    <3>1. b \in 1..Len(items) /\ b <= cursor
      BY <1>1, <2>1, UpcomingFacts
    <3>2. QED BY <1>1, <1>4, <2>1, <3>1
  <2>5. QED BY <1>0, <1>1, <1>2, <1>4, <2>1, <2>3, <2>4 DEF ReaderInv
<1>5. CASE BadNextBlock /\ source' = "thrown" /\ UNCHANGED slice
  <2>1. UNCHANGED cursor
    BY <1>5 DEF BadNextBlock
  <2>2. QED BY <1>0, <1>1, <1>5, <2>1 DEF ReaderInv
<1>6. QED BY <1>3, <1>4, <1>5 DEF Emit

(* A timeslice changes that left the reader.                               *)
LEMMA ReaderKeeps ==
    ASSUME ReaderInv, BodyInv, [Next]_vars, UNCHANGED <<cursor, truncated, source>>,
           \A b \in Blocks : slice'[b].where = "file" <=> slice[b].where = "file"
    PROVE  ReaderInv'
<1>1. UNCHANGED <<items, use_mmap>> /\ Blocks' = Blocks
  BY SameInput
<1>2. CutsTo(cursor)' = CutsTo(cursor)
  BY <1>1 DEF CutsTo
<1>3. QED BY <1>1, <1>2 DEF ReaderInv

-----------------------------------------------------------------------------
(* Only the block that is read gets other data than it had, and what is    *)
(* unfolded are the frames of the block itself.                            *)
LEMMA ParsedKeeps ==
    ASSUME ParsedInv, BodyInv, [Next]_vars
    PROVE  ParsedInv'
<1>0. /\ Blocks' = Blocks /\ parse' = parse /\ slice \in [Blocks -> Slices]
      /\ parse \in {"off", "eager", "lazy"}
  BY SameInput DEF BodyInv, BodyTypes
<1>1. ASSUME NEW b \in Blocks, NEW d, slice' = [slice EXCEPT ![b] = d], ParsedAs(b, d)
      PROVE  ParsedInv'
  <2>1. \A c \in Blocks : ParsedAs(c, slice'[c])
    BY <1>0, <1>1 DEF ParsedInv
  <2>2. QED BY <1>0, <2>1 DEF ParsedInv, ParsedAs
<1>2. ASSUME UNCHANGED slice PROVE ParsedInv'
  BY <1>0, <1>2 DEF ParsedInv, ParsedAs
<1>3. CASE Emit
  <2>1. CASE ReadNextBlock /\ slice' = [slice EXCEPT ![cursor'] = Data(cursor')]
    <3> DEFINE d == Data(cursor')
    <3>1. cursor' \in Blocks
      BY <2>1 DEF ReadNextBlock
    <3>2. ParsedAs(cursor', d)
      BY <1>0, <3>1 DEF Data, LazyData, NoData, ParsedAs
    <3>3. slice' = [slice EXCEPT ![cursor'] = d]
      BY <2>1
    <3> HIDE DEF d
    <3>4. QED BY <1>1, <3>1, <3>2, <3>3
  <2>2. QED BY <1>2, <1>3, <2>1 DEF Emit
<1>4. ASSUME NEW b \in Blocks, Preprocess(b) PROVE ParsedInv'
  <2> DEFINE p == IF slice[b].pending THEN BodyOf(b) ELSE slice[b].parsed
             d == [slice[b] EXCEPT !.where = "mapped", !.pending = FALSE, !.parsed = p]
  <2>1. slice[b] \in Slices /\ slice' = [slice EXCEPT ![b] = d] /\ slice[b].where = "emitted"
    BY <1>0, <1>4 DEF Preprocess
  <2>2. (slice[b].pending => p = b) /\ (~slice[b].pending => p = slice[b].parsed)
    BY PinnedIsReadable DEF BodyStaysReadable
  <2> HIDE DEF p
  <2>3. d.where = "mapped" /\ d.parsed = p /\ ~d.pending
    BY <2>1 DEF Slices
  <2>4. ParsedAs(b, slice[b])
    BY DEF ParsedInv
  <2> HIDE DEF d
  <2>5. ParsedAs(b, d)
    BY <2>1, <2>2, <2>3, <2>4 DEF ParsedAs
  <2>6. QED BY <1>1, <2>1, <2>5
<1>5. ASSUME NEW b \in Blocks, NEW s \in {"unfolding", "unfolded"},
             slice[b].where = "mapped" \/ s = "unfolded",
             slice' = [slice EXCEPT ![b].where = s]
      PROVE  ParsedInv'
  <2> DEFINE d == [slice[b] EXCEPT !.where = s]
  <2>1. slice[b] \in Slices /\ slice' = [slice EXCEPT ![b] = d]
    BY <1>0, <1>5
  <2>2. d.where = s /\ d.parsed = slice[b].parsed /\ d.pending = slice[b].pending
    BY <2>1 DEF Slices
  <2>3. ParsedAs(b, slice[b])
    BY DEF ParsedInv
  <2> HIDE DEF d
  <2>4. ParsedAs(b, d)
    BY <1>5, <2>2, <2>3 DEF ParsedAs
  <2>5. QED BY <1>1, <2>1, <2>4
<1>6. ASSUME NEW b \in Blocks, Recycle(b) PROVE ParsedInv'
  <2> DEFINE d == [NoData EXCEPT !.where = "recycled"]
  <2>1. slice' = [slice EXCEPT ![b] = d]
    BY <1>6 DEF Recycle
  <2>2. ParsedAs(b, d)
    BY DEF ParsedAs, NoData
  <2> HIDE DEF d
  <2>3. QED BY <1>1, <2>1, <2>2
<1>7. CASE UnfoldFrame \/ UnfoldNone
  <2>1. parent \in Blocks /\ (UNCHANGED slice \/ slice' = [slice EXCEPT ![parent].where = "unfolded"])
    BY <1>7 DEF UnfoldFrame, UnfoldNone, NextParent, BodyInv, BodyTypes
  <2>2. QED BY <1>2, <1>5, <2>1
<1>8. ASSUME NEW b \in Blocks, TakeParent(b) PROVE ParsedInv'
  <2>1. slice[b].where = "mapped" /\ slice' = [slice EXCEPT ![b].where = "unfolding"]
    BY <1>8 DEF TakeParent
  <2>2. QED BY <1>5, <2>1
<1>9. CASE (\E w \in Workers : Work(w)) \/ Finish \/ UNCHANGED vars
  BY <1>2, <1>9, WorkersApart
<1>10. QED BY <1>3, <1>4, <1>6, <1>7, <1>8, <1>9 DEF Next, Stopped

(* The frames that are unfolded, and the cursor over them.                 *)
LEMMA FramesAre ==
    ASSUME ReaderInv, ParsedInv, UnfoldInv, BodyInv, parent # 0
    PROVE  /\ parent \in Blocks /\ slice[parent].where = "unfolding"
           /\ Len(Frames) \in Nat /\ DOMAIN Frames = 1..Len(Frames)
           /\ Cursor \in Nat /\ Cursor <= Len(Frames)
           /\ \A f \in DOMAIN Frames : /\ Frames[f] = FrameOf(<<parent, f>>)
                                       /\ Frames[f].passes \in BOOLEAN
           /\ parse # "off" => DOMAIN Frames = DOMAIN items[parent].frames
           /\ parse = "off" => DOMAIN Frames = {} /\ Len(Frames) = 0
<1>1. parent \in Blocks /\ slice[parent].where = "unfolding" /\ parent # 0
  BY DEF UnfoldInv
<1>2. parse \in {"off", "eager", "lazy"}
  BY DEF BodyInv, BodyTypes
<1>3. ParsedAs(parent, slice[parent])
  BY <1>1 DEF ParsedInv
<1>4. CASE parse = "off"
  <2>1. Frames = <<>>
    BY <1>1, <1>3, <1>4 DEF ParsedAs, Frames
  <2>2. Len(Frames) = 0 /\ DOMAIN Frames = {}
    BY <2>1
  <2>3. QED BY <1>1, <1>4, <2>2 DEF UnfoldInv, Cursor
<1>5. CASE parse # "off"
  <2>1. Frames = items[parent].frames
    BY <1>1, <1>2, <1>3, <1>5 DEF ParsedAs, Frames
  <2>2. /\ Len(items[parent].frames) \in Nat
        /\ DOMAIN items[parent].frames = 1..Len(items[parent].frames)
        /\ \A f \in DOMAIN items[parent].frames : items[parent].frames[f] \in FrameInfos
    BY <1>1, FrameTypes
  <2>3. \A f \in DOMAIN Frames : /\ Frames[f] = FrameOf(<<parent, f>>)
                                 /\ Frames[f].passes \in BOOLEAN
    BY <2>1, <2>2 DEF FrameOf, FrameInfos
  <2>4. Cursor \in Nat /\ Cursor <= Len(Frames)
    BY DEF UnfoldInv, Cursor
  <2>5. QED BY <1>1, <1>5, <2>1, <2>2, <2>3, <2>4
<1>6. QED BY <1>4, <1>5

(* The next frame that passes the finder, and those before it.             *)
LEMMA PassingFacts ==
    ASSUME ReaderInv, ParsedInv, UnfoldInv, BodyInv, parent # 0, Passing # {}
    PROVE  /\ Min(Passing) \in DOMAIN Frames /\ Min(Passing) > Cursor
           /\ Frames[Min(Passing)].passes
           /\ \A f \in DOMAIN Frames : f > Cursor /\ f < Min(Passing) => ~Frames[f].passes
<1>1. DOMAIN Frames = 1..Len(Frames) /\ Len(Frames) \in Nat
  BY FramesAre
<1>2. Passing \in SUBSET Nat
  BY <1>1 DEF Passing
<1>3. Min(Passing) \in Passing /\ \A x \in Passing : Min(Passing) <= x
  BY <1>2, LeastIsMin
<1>4. ASSUME NEW f \in DOMAIN Frames, f > Cursor, f < Min(Passing), Frames[f].passes PROVE FALSE
  <2>1. f \in Passing
    BY <1>4 DEF Passing
  <2>2. Min(Passing) <= f /\ Min(Passing) \in Nat /\ f \in Nat
    BY <1>1, <1>2, <1>3, <2>1
  <2> HIDE DEF Passing
  <2>3. QED BY <1>4, <2>2
<1>5. QED BY <1>3, <1>4 DEF Passing

-----------------------------------------------------------------------------
(* The step of the unfolder that goes on to frame n of its parent.         *)
UnfoldsTo(n) ==
    /\ parent # 0 /\ n \in Nat /\ Cursor <= n /\ n <= Len(Frames)
    /\ m_next_frame' = n
    /\ \/ /\ parent' = 0 /\ n = Len(Frames) /\ child_idx' = child_idx
          /\ slice' = [slice EXCEPT ![parent].where = "unfolded"]
       \/ parent' = parent /\ slice' = slice /\ child_idx' = child_idx + 1

Unfolds == UnfoldFrame \/ UnfoldNone
NewCursor == IF Passing = {} THEN Len(Frames) ELSE Min(Passing)
NewSeen(n) == {e \in AllEvents : e[1] = parent /\ e[2] > Cursor /\ e[2] <= n}

(* Both branches of Unfold go on to such a frame.                          *)
LEMMA UnfoldSteps ==
    ASSUME ReaderInv, ParsedInv, UnfoldInv, BodyInv, Unfolds
    PROVE  UnfoldsTo(NewCursor)
<1>1. parent # 0
  BY DEF Unfolds, UnfoldFrame, UnfoldNone
<1>2. Len(Frames) \in Nat /\ DOMAIN Frames = 1..Len(Frames) /\ Cursor \in Nat /\ Cursor <= Len(Frames)
  BY <1>1, FramesAre
<1>3. CASE UnfoldFrame
  <2>1. NewCursor = Min(Passing)
    BY <1>3 DEF UnfoldFrame, NewCursor
  <2>2. Min(Passing) \in DOMAIN Frames /\ Min(Passing) > Cursor
    BY <1>1, <1>3, PassingFacts DEF UnfoldFrame
  <2>3. /\ m_next_frame' = Min(Passing)
        /\ \/ Min(Passing) = Len(Frames) /\ NextParent
           \/ child_idx' = child_idx + 1 /\ UNCHANGED <<parent, slice>>
    BY <1>3 DEF UnfoldFrame
  <2>4. QED BY <1>1, <1>2, <2>1, <2>2, <2>3 DEF UnfoldsTo, NextParent
<1>4. CASE UnfoldNone
  <2>1. NewCursor = Len(Frames) /\ m_next_frame' = Len(Frames) /\ NextParent
    BY <1>4 DEF UnfoldNone, NewCursor
  <2>2. QED BY <1>1, <1>2, <2>1 DEF UnfoldsTo, NextParent
<1>5. QED BY <1>3, <1>4 DEF Unfolds

(* A timeslice that is unfolded is not read or taken back.                 *)
LEMMA UnfoldKeeps ==
    ASSUME ReaderInv, ParsedInv, UnfoldInv, BodyInv, [Next]_vars
    PROVE  UnfoldInv'
<1>0. /\ Blocks' = Blocks /\ slice \in [Blocks -> Slices] /\ items' = items
      /\ 0 \notin Blocks
  <2>1. 0 \notin Blocks
    BY FrameTypes
  <2>2. QED BY <2>1, SameInput DEF BodyInv, BodyTypes
<1>1. ASSUME UNCHANGED <<parent, child_idx, m_next_frame>>,
             NEW b \in Blocks, NEW d, slice' = [slice EXCEPT ![b] = d],
             slice[b].where # "unfolding", d.where # "unfolding"
      PROVE  UnfoldInv'
  <2>1. \A c \in Blocks : slice'[c].where = "unfolding" <=> slice[c].where = "unfolding"
    BY <1>0, <1>1
  <2>2. parent # 0 => slice'[parent] = slice[parent]
    BY <1>0, <1>1 DEF UnfoldInv
  <2>3. parent # 0 => Frames' = Frames /\ Cursor' = Cursor
    BY <1>0, <1>1, <2>2 DEF Frames, Cursor
  <2>4. QED BY <1>0, <1>1, <2>1, <2>3 DEF UnfoldInv
<1>2. ASSUME UNCHANGED <<parent, child_idx, m_next_frame, slice>> PROVE UnfoldInv'
  <2>1. Frames' = Frames /\ Cursor' = Cursor
    BY <1>0, <1>2 DEF Frames, Cursor
  <2>2. QED BY <1>0, <1>2, <2>1 DEF UnfoldInv
<1>3. CASE Emit
  <2>1. UNCHANGED <<parent, child_idx, m_next_frame>>
    BY <1>3 DEF Emit, unfoldVars
  <2>2. CASE ReadNextBlock /\ slice' = [slice EXCEPT ![cursor'] = Data(cursor')]
    <3> DEFINE d == Data(cursor')
    <3>1. cursor' \in Blocks /\ cursor' = Upcoming
      BY <2>2 DEF ReadNextBlock, PassCuts
    <3>2. slice[cursor'].where = "file"
      <4>1. cursor' > cursor
        BY <3>1, UpcomingFacts
      <4>2. QED BY <3>1, <4>1 DEF ReaderInv
    <3>3. d.where = "emitted"
      BY DEF Data, LazyData, NoData, BodyInv, BodyTypes
    <3>4. slice' = [slice EXCEPT ![cursor'] = d]
      BY <2>2
    <3> HIDE DEF d
    <3>5. QED BY <1>1, <2>1, <3>1, <3>2, <3>3, <3>4
  <2>3. QED BY <1>2, <1>3, <2>1, <2>2 DEF Emit
<1>4. ASSUME NEW b \in Blocks, Preprocess(b) \/ Recycle(b) PROVE UnfoldInv'
  <2> DEFINE d == slice'[b]
  <2>1. /\ UNCHANGED <<parent, child_idx, m_next_frame>> /\ slice[b].where # "unfolding"
        /\ slice' = [slice EXCEPT ![b] = d] /\ d.where # "unfolding"
    BY <1>0, <1>4 DEF Preprocess, Recycle, unfoldVars, Slices, NoData
  <2> HIDE DEF d
  <2>2. QED BY <1>1, <2>1
<1>5. ASSUME NEW b \in Blocks, TakeParent(b) PROVE UnfoldInv'
  <2>1. /\ parent = 0 /\ parent' = b /\ child_idx' = 0 /\ m_next_frame' = m_next_frame
        /\ slice' = [slice EXCEPT ![b].where = "unfolding"]
        /\ slice[b].where = "mapped"
    BY <1>5 DEF TakeParent
  <2>2. slice'[b].where = "unfolding" /\ \A c \in Blocks : c # b => slice'[c] = slice[c]
    BY <1>0, <2>1 DEF Slices
  <2>3. \A c \in Blocks : slice[c].where # "unfolding"
    BY <1>0, <2>1 DEF UnfoldInv
  <2>4. \A c \in Blocks : slice'[c].where = "unfolding" <=> parent' = c
    BY <2>1, <2>2, <2>3
  <2>5. Cursor' = 0
    BY <2>1 DEF Cursor
  <2>6. Len(Frames') \in Nat
    <3>1. slice'[b].parsed = slice[b].parsed
      BY <1>0, <2>1 DEF Slices
    <3>2. slice[b].parsed \in {0, b}
      BY DEF BodyInv, Pinned
    <3>3. Frames' = <<>> \/ Frames' = items[b].frames
      BY <1>0, <2>1, <3>1, <3>2 DEF Frames
    <3>4. QED BY <3>3, FrameTypes
  <2>7. QED BY <1>0, <2>1, <2>4, <2>5, <2>6 DEF UnfoldInv
<1>6. CASE Unfolds
  <2> DEFINE n == NewCursor
  <2>1. UnfoldsTo(n)
    BY <1>6, UnfoldSteps
  <2> HIDE DEF n
  <2>2. parent \in Blocks /\ slice[parent].where = "unfolding" /\ parent # 0
    BY <2>1 DEF UnfoldsTo, UnfoldInv
  <2>3. CASE parent' = 0 /\ slice' = [slice EXCEPT ![parent].where = "unfolded"] /\ child_idx' = child_idx
    <3>1. slice'[parent].where = "unfolded" /\ \A c \in Blocks : c # parent => slice'[c] = slice[c]
      BY <1>0, <2>2, <2>3 DEF Slices
    <3>2. \A c \in Blocks : slice'[c].where # "unfolding"
      BY <3>1 DEF UnfoldInv
    <3>3. QED BY <1>0, <2>1, <2>3, <3>2 DEF UnfoldInv, UnfoldsTo
  <2>4. CASE parent' = parent /\ slice' = slice /\ child_idx' = child_idx + 1
    <3>1. Frames' = Frames
      BY <1>0, <2>4 DEF Frames
    <3>2. child_idx' \in Nat /\ child_idx' # 0 /\ m_next_frame' = n /\ n \in Nat /\ n <= Len(Frames)
      BY <2>1, <2>4 DEF UnfoldInv, UnfoldsTo
    <3>3. Cursor' = n
      BY <3>2 DEF Cursor
    <3>4. Cursor' <= Len(Frames')
      BY <3>1, <3>2, <3>3
    <3>5. QED BY <1>0, <2>4, <3>2, <3>4 DEF UnfoldInv
  <2>5. QED BY <2>1, <2>3, <2>4 DEF UnfoldsTo
<1>7. CASE (\E w \in Workers : Work(w)) \/ Finish \/ UNCHANGED vars
  BY <1>2, <1>7, WorkersApart DEF unfoldVars
<1>8. QED BY <1>3, <1>4, <1>5, <1>6, <1>7 DEF Next, Stopped, Unfolds

-----------------------------------------------------------------------------
(* Only the unfolder sees frames: the other steps leave its totals.        *)
LEMMA OthersSeeNothing ==
    ASSUME ReaderInv, BodyInv, UnfoldInv, [Next]_vars, ~Unfolds
    PROVE  /\ UNCHANGED <<m_frames_seen, m_frames_emitted, m_parse_stats>>
           /\ \A b \in Blocks : slice'[b].where \in Past <=> slice[b].where \in Past
           /\ \/ UNCHANGED <<parent, child_idx, m_next_frame>>
              \/ parent = 0 /\ child_idx' = 0
<1>0. slice \in [Blocks -> Slices]
  BY DEF BodyInv, BodyTypes
<1>1. CASE Emit
  <2>1. UNCHANGED <<parent, child_idx, m_next_frame, m_frames_seen, m_frames_emitted, m_parse_stats>>
    BY <1>1 DEF Emit, unfoldVars
  <2>2. CASE ReadNextBlock /\ slice' = [slice EXCEPT ![cursor'] = Data(cursor')]
    <3> DEFINE d == Data(cursor')
    <3>1. cursor' \in Blocks /\ cursor' = Upcoming
      BY <2>2 DEF ReadNextBlock, PassCuts
    <3>2. slice[cursor'].where = "file"
      <4>1. cursor' > cursor
        BY <3>1, UpcomingFacts
      <4>2. QED BY <3>1, <4>1 DEF ReaderInv
    <3>3. d.where = "emitted"
      BY DEF Data, LazyData, NoData, BodyInv, BodyTypes
    <3>4. slice' = [slice EXCEPT ![cursor'] = d]
      BY <2>2
    <3> HIDE DEF d
    <3>5. \A b \in Blocks : slice'[b].where \in Past <=> slice[b].where \in Past
      BY <1>0, <3>1, <3>2, <3>3, <3>4 DEF Past
    <3>6. QED BY <2>1, <3>5
  <2>3. QED BY <1>1, <2>1, <2>2 DEF Emit
<1>2. ASSUME NEW b \in Blocks, Preprocess(b) \/ Recycle(b)
      PROVE  /\ UNCHANGED unfoldVars
             /\ \A c \in Blocks : slice'[c].where \in Past <=> slice[c].where \in Past
  BY <1>0, <1>2 DEF Preprocess, Recycle, Slices, NoData, Past
<1>3. ASSUME NEW b \in Blocks, TakeParent(b)
      PROVE  /\ UNCHANGED <<m_frames_seen, m_frames_emitted, m_parse_stats>>
             /\ \A c \in Blocks : slice'[c].where \in Past <=> slice[c].where \in Past
             /\ parent = 0 /\ child_idx' = 0
  BY <1>0, <1>3 DEF TakeParent, Slices, Past
<1>4. CASE (\E w \in Workers : Work(w)) \/ Finish \/ UNCHANGED vars
  BY <1>4, WorkersApart DEF unfoldVars
<1>5. QED BY <1>1, <1>2, <1>3, <1>4 DEF Next, Stopped, Unfolds, unfoldVars

(* The other steps see, emit and count nothing.                            *)
LEMMA SeenSame ==
    ASSUME ReaderInv, BodyInv, UnfoldInv, [Next]_vars, ~Unfolds
    PROVE  SeenFrames' = SeenFrames /\ Emitted' = Emitted /\ StatsDone' = StatsDone
<1>1. /\ \A b \in Blocks : slice'[b].where \in Past <=> slice[b].where \in Past
      /\ \/ UNCHANGED <<parent, child_idx, m_next_frame>>
         \/ parent = 0 /\ child_idx' = 0
  BY OthersSeeNothing
<1>2. /\ Blocks' = Blocks /\ AllEvents' = AllEvents /\ parse' = parse
      /\ \A e : FrameOf(e)' = FrameOf(e)
  BY SameInput
<1>3. ASSUME NEW b \in Blocks, NEW k \in Nat, k # 0
      PROVE  (b = parent /\ k <= Cursor)' <=> (b = parent /\ k <= Cursor)
  <2>1. b # 0
    BY FrameTypes
  <2>2. QED BY <1>1, <1>3, <2>1 DEF Cursor
<1>4. ASSUME NEW b \in Blocks
      PROVE  (b = parent /\ child_idx # 0)' <=> (b = parent /\ child_idx # 0)
  <2>1. b # 0
    BY FrameTypes
  <2>2. QED BY <1>1, <2>1
<1>5. \A e \in AllEvents : e[1] \in Blocks /\ e[2] \in Nat /\ e[2] # 0
  <2>1. ASSUME NEW e \in AllEvents PROVE e[1] \in Blocks /\ e[2] \in Nat /\ e[2] # 0
    <3>1. e[1] \in Blocks /\ e[2] \in DOMAIN items[e[1]].frames
      BY EventShape
    <3>2. QED BY <3>1, FrameTypes
  <2>2. QED BY <2>1
<1>6. SeenFrames' = SeenFrames
  BY <1>1, <1>2, <1>3, <1>5 DEF SeenFrames, Past
<1>7. Emitted' = Emitted
  BY <1>2, <1>6 DEF Emitted
<1>8. StatsDone' = StatsDone
  BY <1>1, <1>2, <1>4 DEF StatsDone, Past
<1>9. QED BY <1>6, <1>7, <1>8

(* An unfolding step sees the frames that it goes past, and adds the       *)
(* statistics of its block if these are the first.                         *)
LEMMA SeenUnfold ==
    ASSUME ReaderInv, ParsedInv, BodyInv, UnfoldInv, [Next]_vars, NEW n, UnfoldsTo(n)
    PROVE  /\ parse # "off" => SeenFrames' = SeenFrames \cup NewSeen(n)
           /\ parse = "off" => SeenFrames' = {} /\ Emitted' = {} /\ n = Cursor
           /\ SeenFrames \cap NewSeen(n) = {}
           /\ StatsDone' = StatsDone \cup {parent}
           /\ parent \in StatsDone <=> child_idx # 0
<1>1. /\ Blocks' = Blocks /\ AllEvents' = AllEvents /\ parse' = parse
      /\ slice \in [Blocks -> Slices]
  BY SameInput DEF BodyInv, BodyTypes
<1>2. /\ parent # 0 /\ n \in Nat /\ Cursor <= n /\ n <= Len(Frames)
      /\ parent \in Blocks /\ slice[parent].where = "unfolding" /\ Cursor \in Nat
      /\ Len(Frames) \in Nat /\ DOMAIN Frames = 1..Len(Frames)
      /\ parse # "off" => DOMAIN Frames = DOMAIN items[parent].frames
      /\ parse = "off" => Len(Frames) = 0
  BY FramesAre DEF UnfoldsTo
<1>3. ASSUME NEW b \in Blocks, b # parent
      PROVE  (slice'[b].where \in Past <=> slice[b].where \in Past) /\ b # 0
  BY <1>1, <1>2, <1>3, FrameTypes DEF UnfoldsTo, Slices
<1>4. \A e \in AllEvents : /\ e[1] \in Blocks /\ e[2] \in DOMAIN items[e[1]].frames
                           /\ e[2] \in Nat
  <2>1. ASSUME NEW e \in AllEvents
        PROVE  e[1] \in Blocks /\ e[2] \in DOMAIN items[e[1]].frames /\ e[2] \in Nat
    BY EventShape, EventTypes
  <2>2. QED BY <2>1
<1>5. ASSUME parse # "off", NEW e \in AllEvents, e[1] = parent
      PROVE  /\ (slice'[e[1]].where \in Past \/ (e[1] = parent' /\ e[2] <= Cursor')) <=> e[2] <= n
             /\ (slice[e[1]].where \in Past \/ (e[1] = parent /\ e[2] <= Cursor)) <=> e[2] <= Cursor
  <2>1. slice[parent].where \notin Past
    BY <1>2 DEF Past
  <2>2. e[2] \in 1..Len(Frames)
    BY <1>2, <1>4, <1>5
  <2>3. CASE parent' = 0 /\ n = Len(Frames) /\ slice' = [slice EXCEPT ![parent].where = "unfolded"]
    <3>1. slice'[parent].where \in Past
      BY <1>1, <1>2, <2>3 DEF Slices, Past
    <3>2. QED BY <1>5, <2>1, <2>2, <2>3, <3>1
  <2>4. CASE parent' = parent /\ slice' = slice /\ child_idx' = child_idx + 1
    <3>1. Cursor' = n
      BY <2>4 DEF Cursor, UnfoldsTo, UnfoldInv
    <3>2. QED BY <1>5, <2>1, <2>2, <2>4, <3>1
  <2>5. QED BY <2>3, <2>4 DEF UnfoldsTo
<1>6. ASSUME NEW e \in AllEvents, e[1] # parent
      PROVE  /\ (slice'[e[1]].where \in Past \/ (e[1] = parent' /\ e[2] <= Cursor'))
                <=> slice[e[1]].where \in Past
  <2>1. e[1] # parent'
    BY <1>3, <1>4, <1>6 DEF UnfoldsTo
  <2>2. QED BY <1>3, <1>4, <1>6, <2>1
<1>7. ASSUME parse # "off" PROVE SeenFrames' = SeenFrames \cup NewSeen(n)
  <2>1. SeenFrames' = {e \in AllEvents : slice'[e[1]].where \in Past
                                            \/ (e[1] = parent' /\ e[2] <= Cursor')}
    BY <1>1, <1>7 DEF SeenFrames, Past
  <2>2. ASSUME NEW e \in AllEvents PROVE e \in SeenFrames' <=> e \in SeenFrames \/ e \in NewSeen(n)
    <3>1. CASE e[1] = parent
      BY <1>2, <1>4, <1>5, <1>7, <2>1, <3>1 DEF SeenFrames, NewSeen
    <3>2. CASE e[1] # parent
      BY <1>6, <1>7, <2>1, <3>2 DEF SeenFrames, NewSeen
    <3>3. QED BY <3>1, <3>2
  <2>3. SeenFrames' \subseteq AllEvents /\ SeenFrames \subseteq AllEvents /\ NewSeen(n) \subseteq AllEvents
    BY <2>1 DEF SeenFrames, NewSeen
  <2>4. QED BY <2>2, <2>3
<1>8. SeenFrames \cap NewSeen(n) = {}
  <2>1. SUFFICES ASSUME NEW e \in AllEvents, e \in SeenFrames, e \in NewSeen(n) PROVE FALSE
    BY DEF SeenFrames
  <2>2. slice[parent].where \notin Past /\ e[1] = parent /\ e[2] > Cursor /\ e[2] \in Nat
    BY <1>2, <1>4, <2>1 DEF Past, NewSeen
  <2>3. e[2] <= Cursor
    BY <2>1, <2>2 DEF SeenFrames
  <2>4. QED BY <1>2, <2>2, <2>3
<1>9. ASSUME parse = "off" PROVE SeenFrames' = {} /\ Emitted' = {} /\ n = Cursor
  <2>1. SeenFrames' = {}
    BY <1>1, <1>9 DEF SeenFrames
  <2>2. Emitted' = {}
    BY <2>1 DEF Emitted
  <2>3. n = Cursor
    BY <1>2, <1>9
  <2>4. QED BY <2>1, <2>2, <2>3
<1>10. ASSUME NEW b \in Blocks
       PROVE  /\ b = parent => slice'[b].where \in Past \/ (b = parent' /\ child_idx' # 0)
              /\ b # parent => /\ b # parent'
                               /\ slice'[b].where \in Past <=> slice[b].where \in Past
  <2>1. ASSUME b = parent PROVE slice'[b].where \in Past \/ (b = parent' /\ child_idx' # 0)
    BY <1>1, <1>2, <2>1 DEF UnfoldsTo, Slices, Past, UnfoldInv
  <2>2. QED BY <1>3, <2>1 DEF UnfoldsTo
<1>11. StatsDone' = StatsDone \cup {parent}
  <2>1. StatsDone' = {b \in Blocks : slice'[b].where \in Past \/ (b = parent' /\ child_idx' # 0)}
    BY <1>1 DEF StatsDone, Past
  <2>2. QED BY <1>2, <1>10, <2>1 DEF StatsDone
<1>12. parent \in StatsDone <=> child_idx # 0
  BY <1>2 DEF StatsDone, Past
<1>13. QED BY <1>7, <1>8, <1>9, <1>11, <1>12

(* There are as many of these frames as the cursor goes on.                *)
LEMMA NewSeenCount ==
    ASSUME ReaderInv, ParsedInv, BodyInv, UnfoldInv, parse # "off", NEW n, UnfoldsTo(n)
    PROVE  IsFiniteSet(NewSeen(n)) /\ Cardinality(NewSeen(n)) = n - Cursor
<1> DEFINE c == Cursor
           I == c + 1..n
           P == NewSeen(n)
           g == [k \in I |-> <<parent, k>>]
<1>1. /\ parent \in Blocks /\ n \in Nat /\ c \in Nat /\ c <= n /\ n <= Len(Frames)
      /\ DOMAIN items[parent].frames = 1..Len(Frames) /\ Len(Frames) \in Nat
  BY FramesAre DEF UnfoldsTo
<1>2. IsFiniteSet(I) /\ Cardinality(I) = n - c
  <2>1. c + 1 \in Int /\ n \in Int
    BY <1>1
  <2> HIDE DEF c
  <2>2. IsFiniteSet(I) /\ Cardinality(I) = IF c + 1 > n THEN 0 ELSE n - (c + 1) + 1
    BY <2>1, FS_Interval
  <2>3. QED BY <1>1, <2>2
<1>3. \A k \in I : g[k] \in P
  <2>1. SUFFICES ASSUME NEW k \in I PROVE <<parent, k>> \in P
    OBVIOUS
  <2>2. <<parent, k>> \in AllEvents /\ <<parent, k>>[1] = parent /\ <<parent, k>>[2] = k
    <3>1. k \in 1..Len(Frames)
      BY <1>1
    <3>2. QED BY <1>1, <3>1, EventPair
  <2>3. k > Cursor /\ k <= n
    BY <1>1
  <2>4. QED BY <2>2, <2>3 DEF NewSeen
<1>4. \A e \in P : \E k \in I : g[k] = e
  <2>1. SUFFICES ASSUME NEW e \in P PROVE \E k \in I : g[k] = e
    OBVIOUS
  <2>2. e \in AllEvents /\ e[1] = parent /\ e[2] > c /\ e[2] <= n
    BY DEF NewSeen
  <2>3. e = <<parent, e[2]>> /\ e[2] \in Nat
    BY <2>2, EventTypes
  <2>4. e[2] \in I
    BY <1>1, <2>2, <2>3
  <2>5. QED BY <2>3, <2>4
<1>5. \A j, k \in I : g[j] = g[k] => j = k
  OBVIOUS
<1>6. DOMAIN g = I
  OBVIOUS
<1>7. g \in [I -> P]
  BY <1>3
<1> HIDE DEF P, I
<1>8. g \in Bijection(I, P)
  <2> HIDE DEF g
  <2>1. g \in Injection(I, P)
    BY <1>5, <1>7 DEF Injection, IsInjective
  <2>2. g \in Surjection(I, P)
    BY <1>4, <1>7 DEF Surjection
  <2>3. QED BY <2>1, <2>2 DEF Bijection
<1>9. IsFiniteSet(P) /\ Cardinality(P) = Cardinality(I)
  <2> HIDE DEF g
  <2>1. ExistsBijection(I, P)
    BY <1>8 DEF ExistsBijection
  <2>2. QED BY <1>2, <2>1, FS_Bijection
<1>10. QED BY <1>2, <1>9 DEF P

-----------------------------------------------------------------------------
(* An unfolding step emits the next frame that passes, if there is one.    *)
NextEvent == <<parent, Min(Passing)>>

(* What an unfolding step emits was not emitted before.                    *)
LEMMA EmittedUnfold ==
    ASSUME ReaderInv, ParsedInv, BodyInv, UnfoldInv, [Next]_vars, Unfolds
    PROVE  /\ UnfoldFrame => /\ NextEvent \in AllEvents \ Emitted
                             /\ Emitted' = Emitted \cup {NextEvent}
           /\ ~UnfoldFrame => Emitted' = Emitted
<1> DEFINE n == NewCursor
<1>1. UnfoldsTo(n) /\ parent # 0
  BY UnfoldSteps DEF UnfoldsTo
<1>2. n = IF Passing = {} THEN Len(Frames) ELSE Min(Passing)
  BY DEF NewCursor
<1> HIDE DEF n
<1>3. /\ parse # "off" => SeenFrames' = SeenFrames \cup NewSeen(n)
      /\ parse = "off" => Emitted' = {} /\ Emitted = {}
      /\ SeenFrames \cap NewSeen(n) = {}
  <2>1. parse = "off" => Emitted = {}
    BY DEF Emitted, SeenFrames
  <2>2. QED BY <1>1, <2>1, SeenUnfold
<1>4. \A e : FrameOf(e)' = FrameOf(e)
  BY SameInput
<1>5. parse # "off" => Emitted' = Emitted \cup {e \in NewSeen(n) : FrameOf(e).passes}
  BY <1>3, <1>4 DEF Emitted
<1>6. /\ Len(Frames) \in Nat /\ DOMAIN Frames = 1..Len(Frames) /\ parent \in Blocks
      /\ Cursor \in Nat /\ Cursor <= Len(Frames)
      /\ \A f \in DOMAIN Frames : /\ Frames[f] = FrameOf(<<parent, f>>)
                                  /\ Frames[f].passes \in BOOLEAN
      /\ parse # "off" => DOMAIN Frames = DOMAIN items[parent].frames
      /\ parse = "off" => DOMAIN Frames = {}
  BY <1>1, FramesAre
<1>7. ASSUME NEW e \in NewSeen(n), parse # "off"
      PROVE  /\ e = <<parent, e[2]>> /\ e[2] \in DOMAIN Frames /\ e[2] > Cursor /\ e[2] <= n
             /\ e[2] \in Nat
  <2>1. e \in AllEvents /\ e[1] = parent /\ e[2] > Cursor /\ e[2] <= n
    BY DEF NewSeen
  <2>2. e = <<e[1], e[2]>> /\ e[2] \in DOMAIN items[e[1]].frames
    BY <2>1, EventShape
  <2>3. QED BY <1>6, <1>7, <2>1, <2>2
<1>8. ASSUME UnfoldFrame
      PROVE  /\ NextEvent \in AllEvents \ Emitted /\ Emitted' = Emitted \cup {NextEvent}
  <2> DEFINE f == Min(Passing)
  <2>1. Passing # {} /\ n = f
    BY <1>2, <1>8 DEF UnfoldFrame
  <2>2. /\ f \in DOMAIN Frames /\ f > Cursor /\ Frames[f].passes
        /\ \A k \in DOMAIN Frames : k > Cursor /\ k < f => ~Frames[k].passes
    BY <1>1, <2>1, PassingFacts
  <2>3. NextEvent = <<parent, f>>
    BY DEF NextEvent
  <2> HIDE DEF f
  <2>4. parse # "off"
    BY <1>6, <2>2
  <2>5. /\ NextEvent \in AllEvents /\ NextEvent[1] = parent /\ NextEvent[2] = f
        /\ FrameOf(NextEvent).passes
    BY <1>6, <2>2, <2>3, <2>4, EventPair
  <2>6. f \in Nat /\ f <= n
    BY <1>6, <2>1, <2>2
  <2>7. NextEvent \in NewSeen(n)
    BY <2>2, <2>5, <2>6 DEF NewSeen
  <2>8. ASSUME NEW e \in NewSeen(n), FrameOf(e).passes PROVE e = NextEvent
    <3>1. e = <<parent, e[2]>> /\ e[2] \in DOMAIN Frames /\ e[2] > Cursor /\ e[2] <= n /\ e[2] \in Nat
      BY <1>7, <2>4
    <3>2. Frames[e[2]].passes
      <4>1. Frames[e[2]] = FrameOf(<<parent, e[2]>>)
        BY <1>6, <3>1
      <4>2. QED BY <2>8, <3>1, <4>1
    <3>3. ~(e[2] < f)
      BY <2>2, <3>1, <3>2
    <3>4. e[2] = f
      BY <2>1, <2>6, <3>1, <3>3
    <3>5. QED BY <2>3, <3>1, <3>4
  <2>9. NextEvent \notin Emitted
    BY <1>3, <2>7 DEF Emitted
  <2>10. {e \in NewSeen(n) : FrameOf(e).passes} = {NextEvent}
    BY <2>5, <2>7, <2>8
  <2>11. QED BY <1>5, <2>4, <2>5, <2>9, <2>10
<1>9. ASSUME ~UnfoldFrame PROVE Emitted' = Emitted
  <2>1. Passing = {} /\ n = Len(Frames)
    BY <1>2, <1>9 DEF Unfolds, UnfoldNone
  <2>2. CASE parse = "off"
    BY <1>3, <2>2
  <2>3. CASE parse # "off"
    <3>1. ASSUME NEW e \in NewSeen(n) PROVE ~FrameOf(e).passes
      <4>1. e = <<parent, e[2]>> /\ e[2] \in DOMAIN Frames /\ e[2] > Cursor
        BY <1>7, <2>3
      <4>2. ~Frames[e[2]].passes
        BY <2>1, <4>1 DEF Passing
      <4>3. Frames[e[2]] = FrameOf(<<parent, e[2]>>)
        BY <1>6, <4>1
      <4>4. QED BY <4>1, <4>2, <4>3
    <3>2. QED BY <1>5, <2>3, <3>1
  <2>4. QED BY <2>2, <2>3
<1>10. QED BY <1>8, <1>9

-----------------------------------------------------------------------------
(* The steps by what they do to the events in flight: a frame is emitted,  *)
(* a worker takes an event, or is done with it, or none of these.          *)
Quiet ==
    /\ Emitted' = Emitted /\ UNCHANGED <<queue, at, m_written>>
    /\ \A w \in Workers : pc'[w] = "idle" <=> pc[w] = "idle"
Emits ==
    /\ NextEvent \in AllEvents \ Emitted /\ Emitted' = Emitted \cup {NextEvent}
    /\ queue' = queue \cup {NextEvent} /\ UNCHANGED <<at, pc, m_written>>
Takes(w, e) ==
    /\ Emitted' = Emitted /\ e \in queue /\ queue' = queue \ {e} /\ pc[w] = "idle"
    /\ at' = [at EXCEPT ![w] = e] /\ m_written' = m_written
    /\ pc'[w] # "idle" /\ \A v \in Workers \ {w} : pc'[v] = pc[v]
Ends(w) ==
    /\ Emitted' = Emitted /\ queue' = queue /\ pc[w] # "idle" /\ pc'[w] = "idle"
    /\ at' = [at EXCEPT ![w] = NoEvent] /\ \A v \in Workers \ {w} : pc'[v] = pc[v]
    /\ m_written' = [t \in Tables |-> m_written[t] + RowCount(t, at[w])]

(* Every step is of one of these kinds.                                    *)
LEMMA StepKinds ==
    ASSUME ReaderInv, ParsedInv, BodyInv, UnfoldInv, WorkerTypes, [Next]_vars
    PROVE  \/ Quiet
           \/ Emits /\ UnfoldFrame
           \/ \E w \in Workers, e \in queue : Takes(w, e) /\ TakeEvent(w, e)
           \/ \E w \in Workers : Ends(w) /\ EndEvent(w)
<1>1. CASE Unfolds
  <2>1. UNCHANGED <<at, pc, m_written>>
    BY <1>1 DEF Unfolds, UnfoldFrame, UnfoldNone, workerVars, outVars
  <2>2. CASE UnfoldFrame
    <3>1. queue' = queue \cup {NextEvent}
      BY <2>2 DEF UnfoldFrame, NextEvent
    <3>2. QED BY <1>1, <2>1, <2>2, <3>1, EmittedUnfold DEF Emits
  <2>3. CASE ~UnfoldFrame
    <3>1. queue' = queue
      BY <1>1, <2>3 DEF Unfolds, UnfoldNone
    <3>2. QED BY <1>1, <2>1, <2>3, <3>1, EmittedUnfold DEF Quiet
  <2>4. QED BY <2>2, <2>3
<1>2. CASE ~Unfolds
  <2>1. Emitted' = Emitted
    BY <1>2, SeenSame
  <2>2. ASSUME UNCHANGED <<queue, at, pc, m_written>> PROVE Quiet
    BY <2>1, <2>2 DEF Quiet
  <2>3. CASE Emit
    BY <2>2, <2>3 DEF Emit, workerVars, outVars
  <2>4. ASSUME NEW b \in Blocks, Preprocess(b) \/ TakeParent(b) \/ Recycle(b) PROVE Quiet
    BY <2>2, <2>4 DEF Preprocess, TakeParent, Recycle, workerVars, outVars
  <2>5. CASE Finish \/ UNCHANGED vars
    BY <2>2, <2>5 DEF Finish, vars, workerVars, outVars
  <2>6. ASSUME NEW w \in Workers, NEW e \in queue, TakeEvent(w, e) PROVE Takes(w, e)
    BY <2>1, <2>6 DEF TakeEvent, Takes, WorkerTypes, outVars
  <2>7. ASSUME NEW w \in Workers, EndEvent(w) PROVE Ends(w)
    BY <2>1, <2>7 DEF EndEvent, Ends, WorkerTypes, Writes
  <2>8. ASSUME NEW w \in Workers,
               CreateContexts(w) \/ RegisterContexts(w) \/ FillRow(w) \/ LockFile(w) \/ CommitCluster(w)
        PROVE  Quiet
    <3>1. UNCHANGED <<queue, at, m_written>>
      BY <2>8 DEF CreateContexts, RegisterContexts, FillRow, LockFile, CommitCluster, Writes, Locks
    <3>2. pc[w] # "idle" /\ \E s \in {"create", "fill", "flush", "commit"} :
                pc' = [pc EXCEPT ![w] = s]
      <4>1. CASE FillRow(w)
        <5>1. pc[w] = "fill" /\ (pc' = pc \/ pc' = [pc EXCEPT ![w] = "flush"])
          BY <4>1 DEF FillRow
        <5>2. pc = [pc EXCEPT ![w] = pc[w]]
          BY DEF WorkerTypes
        <5>3. QED BY <5>1, <5>2
      <4>2. CASE ~FillRow(w)
        BY <2>8, <4>2 DEF CreateContexts, RegisterContexts, LockFile, CommitCluster, Locks
      <4>3. QED BY <4>1, <4>2
    <3>3. QED BY <2>1, <3>1, <3>2 DEF Quiet, WorkerTypes
  <2>9. QED BY <1>2, <2>2, <2>3, <2>4, <2>5, <2>6, <2>7, <2>8 DEF Next, Stopped, Unfolds, Work
<1>3. QED BY <1>1, <1>2

(* An event stays in one pair of hands.                                    *)
LEMMA HandsKeep ==
    ASSUME HandsInv, WorkerTypes,
           \/ Quiet \/ Emits
           \/ \E w \in Workers, e \in queue : Takes(w, e)
           \/ \E w \in Workers : Ends(w)
    PROVE  HandsInv'
<1>1. CASE Quiet
  BY <1>1 DEF HandsInv, Quiet
<1>2. CASE Emits
  BY <1>2 DEF HandsInv, Emits
<1>3. ASSUME NEW w \in Workers, NEW e \in queue, Takes(w, e) PROVE HandsInv'
  <2>1. /\ Emitted' = Emitted /\ queue' = queue \ {e} /\ at'[w] = e /\ pc'[w] # "idle"
        /\ \A v \in Workers \ {w} : pc'[v] = pc[v] /\ at'[v] = at[v]
    BY <1>3 DEF Takes, WorkerTypes
  <2>2. \A v \in Workers \ {w} : pc[v] # "idle" => at[v] # e
    BY DEF HandsInv
  <2>3. queue' \subseteq Emitted' /\ e \in Emitted' \ queue'
    BY <2>1 DEF HandsInv
  <2>4. \A v \in Workers : pc'[v] # "idle" => at'[v] \in Emitted' \ queue'
    BY <2>1, <2>3 DEF HandsInv
  <2>5. \A u, v \in Workers : pc'[u] # "idle" /\ pc'[v] # "idle" /\ at'[u] = at'[v] => u = v
    BY <2>1, <2>2 DEF HandsInv
  <2>6. QED BY <2>3, <2>4, <2>5 DEF HandsInv
<1>4. ASSUME NEW w \in Workers, Ends(w) PROVE HandsInv'
  <2>1. /\ Emitted' = Emitted /\ queue' = queue /\ pc'[w] = "idle"
        /\ \A v \in Workers \ {w} : pc'[v] = pc[v] /\ at'[v] = at[v]
    BY <1>4 DEF Ends, WorkerTypes
  <2>2. QED BY <2>1 DEF HandsInv
<1>5. QED BY <1>1, <1>2, <1>3, <1>4

(* What is in flight, and done, after these steps.                         *)
LEMMA InFlightMoves ==
    ASSUME HandsInv, WorkerTypes
    PROVE  /\ EventsInFlight \subseteq Emitted
           /\ Quiet => EventsInFlight' = EventsInFlight /\ DoneEvents' = DoneEvents
           /\ Emits => /\ EventsInFlight' = EventsInFlight \cup {NextEvent}
                       /\ DoneEvents' = DoneEvents
           /\ \A w \in Workers, e \in queue : Takes(w, e) =>
                EventsInFlight' = EventsInFlight /\ DoneEvents' = DoneEvents
           /\ \A w \in Workers : Ends(w) =>
                /\ EventsInFlight' = EventsInFlight \ {at[w]}
                /\ at[w] \in EventsInFlight /\ at[w] \in Emitted \ DoneEvents
                /\ DoneEvents' = DoneEvents \cup {at[w]}
<1>1. EventsInFlight \subseteq Emitted
  BY DEF EventsInFlight, HandsInv
<1>2. ASSUME Quiet PROVE EventsInFlight' = EventsInFlight /\ DoneEvents' = DoneEvents
  <2>1. EventsInFlight' = EventsInFlight
    BY <1>2 DEF EventsInFlight, Quiet
  <2>2. QED BY <1>2, <2>1 DEF DoneEvents, Quiet
<1>3. ASSUME Emits
      PROVE  EventsInFlight' = EventsInFlight \cup {NextEvent} /\ DoneEvents' = DoneEvents
  <2>1. EventsInFlight' = EventsInFlight \cup {NextEvent}
    BY <1>3 DEF EventsInFlight, Emits
  <2>2. QED BY <1>3, <2>1 DEF DoneEvents, Emits
<1>4. ASSUME NEW w \in Workers, NEW e \in queue, Takes(w, e)
      PROVE  EventsInFlight' = EventsInFlight /\ DoneEvents' = DoneEvents
  <2>1. /\ Emitted' = Emitted /\ queue' = queue \ {e} /\ at'[w] = e /\ pc'[w] # "idle" /\ pc[w] = "idle"
        /\ \A v \in Workers \ {w} : pc'[v] = pc[v] /\ at'[v] = at[v]
    BY <1>4 DEF Takes, WorkerTypes
  <2>2. {at'[v] : v \in {u \in Workers : pc'[u] # "idle"}}
            = {at[v] : v \in {u \in Workers : pc[u] # "idle"}} \cup {e}
    BY <2>1
  <2>3. EventsInFlight' = EventsInFlight
    BY <2>1, <2>2 DEF EventsInFlight
  <2>4. QED BY <2>1, <2>3 DEF DoneEvents
<1>5. ASSUME NEW w \in Workers, Ends(w)
      PROVE  /\ EventsInFlight' = EventsInFlight \ {at[w]}
             /\ at[w] \in EventsInFlight /\ at[w] \in Emitted \ DoneEvents
             /\ DoneEvents' = DoneEvents \cup {at[w]}
  <2>1. /\ Emitted' = Emitted /\ queue' = queue /\ pc'[w] = "idle" /\ pc[w] # "idle"
        /\ \A v \in Workers \ {w} : pc'[v] = pc[v] /\ at'[v] = at[v]
    BY <1>5 DEF Ends, WorkerTypes
  <2>2. at[w] \in Emitted /\ at[w] \notin queue /\ at[w] \in EventsInFlight
    BY <2>1 DEF HandsInv, EventsInFlight
  <2>3. \A v \in Workers \ {w} : pc[v] # "idle" => at[v] # at[w]
    BY <2>1 DEF HandsInv
  <2>4. {at'[v] : v \in {u \in Workers : pc'[u] # "idle"}}
            = {at[v] : v \in {u \in Workers : pc[u] # "idle"}} \ {at[w]}
    BY <2>1, <2>3
  <2>5. EventsInFlight' = EventsInFlight \ {at[w]}
    BY <2>1, <2>2, <2>4 DEF EventsInFlight
  <2>6. at[w] \in Emitted \ DoneEvents
    BY <2>2 DEF DoneEvents
  <2>7. DoneEvents' = DoneEvents \cup {at[w]}
    BY <2>1, <2>2, <2>5 DEF DoneEvents
  <2>8. QED BY <2>2, <2>5, <2>6, <2>7
<1>6. QED BY <1>1, <1>2, <1>3, <1>4, <1>5

-----------------------------------------------------------------------------
(* The totals that the unfolder logs.                                      *)
LEMMA FramesFinite ==
    ASSUME TotalsInv
    PROVE  /\ IsFiniteSet(Emitted) /\ Cardinality(Emitted) \in Nat
           /\ Cardinality(SeenFrames) \in Nat
<1>1. IsFiniteSet(SeenFrames) /\ Emitted \subseteq SeenFrames
  BY DEF TotalsInv, Emitted
<1>2. IsFiniteSet(Emitted)
  BY <1>1, FS_Subset
<1>3. QED BY <1>1, <1>2, FS_CardinalityType

(* There are finitely many blocks.                                         *)
LEMMA StatsFinite ==
    ASSUME ReaderInv
    PROVE  IsFiniteSet(Blocks) /\ IsFiniteSet(StatsDone) /\ StatsDone \subseteq Blocks
<1>1. DOMAIN items = 1..Len(items) /\ Len(items) \in Nat
  BY InputsTyped DEF ReaderInv
<1>2. IsFiniteSet(DOMAIN items)
  BY <1>1, FS_Interval
<1>3. Blocks \subseteq DOMAIN items /\ StatsDone \subseteq Blocks
  BY DEF Blocks, StatsDone
<1>4. IsFiniteSet(Blocks)
  BY <1>2, <1>3, FS_Subset
<1>5. IsFiniteSet(StatsDone)
  BY <1>3, <1>4, FS_Subset
<1>6. QED BY <1>3, <1>4, <1>5

(* The totals of the unfolder count what it has seen and emitted.          *)
LEMMA TotalsKeep ==
    ASSUME ReaderInv, ParsedInv, BodyInv, UnfoldInv, TotalsInv, [Next]_vars
    PROVE  TotalsInv'
<1>0. parse' = parse /\ Blocks' = Blocks
  BY SameInput
<1>1. CASE ~Unfolds
  BY <1>0, <1>1, OthersSeeNothing, SeenSame DEF TotalsInv
<1>2. CASE Unfolds
  <2> DEFINE n == NewCursor
  <2>1. UnfoldsTo(n) /\ parent # 0 /\ n = IF Passing = {} THEN Len(Frames) ELSE Min(Passing)
    BY <1>2, UnfoldSteps DEF UnfoldsTo, NewCursor
  <2>2. m_frames_seen' = m_frames_seen + n - Cursor
    BY <1>2, <2>1 DEF Unfolds, UnfoldFrame, UnfoldNone
  <2>3. /\ UnfoldFrame => m_frames_emitted' = m_frames_emitted + 1
        /\ ~UnfoldFrame => m_frames_emitted' = m_frames_emitted
        /\ AddStats
    BY <1>2 DEF Unfolds, UnfoldFrame, UnfoldNone
  <2> HIDE DEF n
  <2>4. /\ parse # "off" => SeenFrames' = SeenFrames \cup NewSeen(n)
        /\ parse = "off" => SeenFrames' = {} /\ n = Cursor
        /\ SeenFrames \cap NewSeen(n) = {}
        /\ StatsDone' = StatsDone \cup {parent}
        /\ parent \in StatsDone <=> child_idx # 0
    BY <2>1, SeenUnfold
  <2>5. /\ n \in Nat /\ Cursor \in Nat /\ Cursor <= n /\ parent \in Blocks
    BY <2>1, FramesAre DEF UnfoldsTo
  <2>6. IsFiniteSet(SeenFrames) /\ Cardinality(SeenFrames) \in Nat
    BY FramesFinite DEF TotalsInv
  <2>7. /\ IsFiniteSet(SeenFrames')
        /\ m_frames_seen' = IF parse' = "off" THEN 0 ELSE Cardinality(SeenFrames')
    <3>1. CASE parse = "off"
      <4>1. m_frames_seen = 0 /\ SeenFrames' = {} /\ n = Cursor
        BY <2>4, <3>1 DEF TotalsInv
      <4>2. m_frames_seen' = 0
        BY <2>2, <2>5, <4>1
      <4>3. QED BY <1>0, <3>1, <4>1, <4>2, FS_EmptySet
    <3>2. CASE parse # "off"
      <4> DEFINE S == SeenFrames
                 T == NewSeen(n)
      <4>1. IsFiniteSet(T) /\ Cardinality(T) = n - Cursor
        BY <2>1, <3>2, NewSeenCount
      <4>2. IsFiniteSet(S) /\ S \cap T = {} /\ SeenFrames' = S \cup T
        BY <2>4, <2>6, <3>2
      <4>3. m_frames_seen = Cardinality(S)
        BY <3>2 DEF TotalsInv
      <4> HIDE DEF S, T
      <4>4. IsFiniteSet(S \cup T) /\ Cardinality(S \cup T) = Cardinality(S) + Cardinality(T) - Cardinality(S \cap T)
        BY <4>1, <4>2, FS_Union
      <4>5. Cardinality(S \cap T) = 0 /\ Cardinality(S) \in Nat
        BY <4>2, FS_EmptySet, FS_CardinalityType
      <4>6. m_frames_seen' = Cardinality(S \cup T)
        BY <2>2, <2>5, <4>1, <4>3, <4>4, <4>5
      <4>7. QED BY <1>0, <3>2, <4>2, <4>4, <4>6
    <3>3. QED BY <3>1, <3>2
  <2>8. m_frames_emitted' = Cardinality(Emitted')
    <3>1. m_frames_emitted = Cardinality(Emitted) /\ IsFiniteSet(Emitted) /\ Cardinality(Emitted) \in Nat
      BY FramesFinite DEF TotalsInv
    <3>2. /\ UnfoldFrame => NextEvent \notin Emitted /\ Emitted' = Emitted \cup {NextEvent}
          /\ ~UnfoldFrame => Emitted' = Emitted
      BY <1>2, EmittedUnfold
    <3>3. CASE UnfoldFrame
      <4>1. Cardinality(Emitted \cup {NextEvent}) = Cardinality(Emitted) + 1
        BY <3>1, <3>2, <3>3, FS_AddElement
      <4>2. QED BY <2>3, <3>1, <3>2, <3>3, <4>1
    <3>4. QED BY <2>3, <3>1, <3>2, <3>3
  <2>9. /\ m_parse_stats' \in Seq(Blocks) /\ Len(m_parse_stats') = Cardinality(StatsDone')
        /\ Range(m_parse_stats') = StatsDone'
    <3>1. /\ m_parse_stats \in Seq(Blocks) /\ Len(m_parse_stats) = Cardinality(StatsDone)
          /\ Range(m_parse_stats) = StatsDone /\ IsFiniteSet(StatsDone)
      BY StatsFinite DEF TotalsInv
    <3>2. CASE child_idx = 0
      <4>1. m_parse_stats' = Append(m_parse_stats, parent) /\ parent \notin StatsDone
        BY <2>3, <2>4, <3>2 DEF AddStats
      <4>2. /\ m_parse_stats' \in Seq(Blocks)
            /\ Range(m_parse_stats') = Range(m_parse_stats) \cup {parent}
        BY <2>5, <3>1, <4>1, AppendDistinct
      <4>3. Cardinality(StatsDone \cup {parent}) = Cardinality(StatsDone) + 1
        BY <3>1, <4>1, FS_AddElement
      <4>4. Len(m_parse_stats') = Len(m_parse_stats) + 1
        BY <3>1, <4>1
      <4>5. QED BY <2>4, <3>1, <4>2, <4>3, <4>4
    <3>3. CASE child_idx # 0
      <4>1. m_parse_stats' = m_parse_stats /\ StatsDone' = StatsDone
        BY <2>3, <2>4, <3>3 DEF AddStats
      <4>2. QED BY <3>1, <4>1
    <3>4. QED BY <3>2, <3>3
  <2>10. QED BY <1>0, <2>7, <2>8, <2>9 DEF TotalsInv
<1>3. QED BY <1>1, <1>2

-----------------------------------------------------------------------------
(* The totals of the writer.                                               *)
LEMMA DistinctCount ==
    ASSUME NEW T, NEW s \in Seq(T), Distinct(s)
    PROVE  IsFiniteSet(Range(s)) /\ Cardinality(Range(s)) = Len(s)
<1> DEFINE I == 1..Len(s)
           R == Range(s)
<1>1. Len(s) \in Nat /\ DOMAIN s = I
  OBVIOUS
<1>2. IsFiniteSet(I) /\ Cardinality(I) = Len(s)
  <2>1. IsFiniteSet(I) /\ Cardinality(I) = IF 1 > Len(s) THEN 0 ELSE Len(s) - 1 + 1
    BY <1>1, FS_Interval
  <2>2. QED BY <1>1, <2>1
<1>3. s \in [I -> R]
  BY <1>1 DEF Range
<1>4. \A r \in R : \E k \in I : s[k] = r
  BY <1>1 DEF Range
<1>5. \A j, k \in I : s[j] = s[k] => j = k
  BY <1>1 DEF Distinct
<1> HIDE DEF I, R
<1>6. s \in Bijection(I, R)
  <2>1. s \in Injection(I, R)
    BY <1>3, <1>5 DEF Injection, IsInjective
  <2>2. s \in Surjection(I, R)
    BY <1>3, <1>4 DEF Surjection
  <2>3. QED BY <2>1, <2>2 DEF Bijection
<1>7. ExistsBijection(I, R)
  BY <1>6 DEF ExistsBijection
<1>8. IsFiniteSet(R) /\ Cardinality(R) = Cardinality(I)
  BY <1>2, <1>7, FS_Bijection
<1>9. QED BY <1>2, <1>8 DEF R

RowsIn(t, e) == {r \in AllRows : r[1] = t /\ EventOf(r) = e}

(* An event has as many rows of a table as are added to its counter.       *)
LEMMA RowsCounted ==
    ASSUME ReaderInv, NEW e \in AllEvents, NEW t \in Tables
    PROVE  /\ IsFiniteSet(RowsIn(t, e)) /\ Cardinality(RowsIn(t, e)) = RowCount(t, e)
           /\ RowCount(t, e) \in Nat
<1> DEFINE n == RowCount(t, e)
           s == HitRows(t, e, n)
<1>1. /\ FrameOf(e).fadc \in Nat /\ FrameOf(e).dcrb \in Nat
      /\ e[1] \in Nat /\ e[2] \in Nat /\ e = <<e[1], e[2]>>
  BY EventTypes
<1>2. n \in Nat
  BY <1>1 DEF RowCount, Tables
<1>3. /\ Range(RowsOf(e)) = Range(HitRows("frames", e, 1))
                              \cup Range(HitRows("fadc", e, FrameOf(e).fadc))
                              \cup Range(HitRows("dcrb", e, FrameOf(e).dcrb))
      /\ Range(RowsOf(e)) = {r \in AllRows : EventOf(r) = e}
  BY RowsShape, RowsOfEvent
<1>4. /\ \A r \in Range(HitRows("frames", e, 1)) : r[1] = "frames"
      /\ \A r \in Range(HitRows("fadc", e, FrameOf(e).fadc)) : r[1] = "fadc"
      /\ \A r \in Range(HitRows("dcrb", e, FrameOf(e).dcrb)) : r[1] = "dcrb"
  <2>1. "frames" \in Tables /\ "fadc" \in Tables /\ "dcrb" \in Tables /\ 1 \in Nat
    BY DEF Tables
  <2>2. QED BY <1>1, <2>1, HitRowsFacts, Zenon
<1>5. RowsIn(t, e) = {r \in Range(RowsOf(e)) : r[1] = t}
  BY <1>3 DEF RowsIn
<1>6. RowsIn(t, e) = Range(s)
  <2>1. CASE t = "frames"
    <3>1. s = HitRows("frames", e, 1)
      BY <2>1 DEF RowCount
    <3> HIDE DEF s
    <3>2. QED BY <1>3, <1>4, <1>5, <2>1, <3>1
  <2>2. CASE t = "fadc"
    <3>1. s = HitRows("fadc", e, FrameOf(e).fadc)
      BY <2>2 DEF RowCount
    <3> HIDE DEF s
    <3>2. QED BY <1>3, <1>4, <1>5, <2>2, <3>1
  <2>3. CASE t = "dcrb"
    <3>1. s = HitRows("dcrb", e, FrameOf(e).dcrb)
      BY <2>3 DEF RowCount
    <3> HIDE DEF s
    <3>2. QED BY <1>3, <1>4, <1>5, <2>3, <3>1
  <2>4. QED BY <2>1, <2>2, <2>3 DEF Tables
<1>7. s \in Seq(RowTuples) /\ Distinct(s)
  BY <1>1, <1>2, HitRowsFacts
<1>8. Len(s) = n
  <2> HIDE DEF n
  <2>1. QED BY <1>2 DEF HitRows
<1> HIDE DEF s
<1>9. IsFiniteSet(Range(s)) /\ Cardinality(Range(s)) = Len(s)
  BY <1>7, DistinctCount
<1>10. QED BY <1>2, <1>6, <1>8, <1>9

(* The counters of the writer count what is done.                          *)
LEMMA WrittenKeep ==
    ASSUME ReaderInv, ParsedInv, BodyInv, UnfoldInv, HandsInv, WorkerTypes, TotalsInv, WrittenInv,
           [Next]_vars
    PROVE  WrittenInv'
<1>0. AllRows' = AllRows /\ Emitted \subseteq AllEvents
  BY SameInput DEF Emitted, SeenFrames
<1>1. ASSUME DoneEvents' = DoneEvents, m_written' = m_written, IsFiniteSet(EventsInFlight')
      PROVE  WrittenInv'
  <2>1. \A t \in Tables : DoneRows(t)' = DoneRows(t)
    BY <1>0, <1>1 DEF DoneRows, EventOf
  <2>2. QED BY <1>1, <2>1 DEF WrittenInv
<1>2. IsFiniteSet(EventsInFlight)
  BY DEF WrittenInv
<1>3. CASE Quiet
  BY <1>1, <1>2, <1>3, InFlightMoves DEF Quiet
<1>4. CASE Emits
  <2>1. EventsInFlight' = EventsInFlight \cup {NextEvent}
    BY <1>4, InFlightMoves
  <2>2. IsFiniteSet(EventsInFlight \cup {NextEvent})
    BY <1>2, FS_AddElement
  <2>3. QED BY <1>1, <1>4, <2>1, <2>2, InFlightMoves DEF Emits
<1>5. ASSUME NEW w \in Workers, NEW e \in queue, Takes(w, e) PROVE WrittenInv'
  BY <1>1, <1>2, <1>5, InFlightMoves DEF Takes
<1>6. ASSUME NEW w \in Workers, Ends(w) PROVE WrittenInv'
  <2> DEFINE e == at[w]
  <2>1. /\ EventsInFlight' = EventsInFlight \ {e} /\ e \in Emitted \ DoneEvents
        /\ DoneEvents' = DoneEvents \cup {e}
    BY <1>6, InFlightMoves
  <2>2. /\ m_written' = [t \in Tables |-> m_written[t] + RowCount(t, e)]
        /\ m_written \in [Tables -> Nat] /\ "frames" \in Tables
    BY <1>6 DEF Ends, WorkerTypes, Tables
  <2> HIDE DEF e
  <2>3. IsFiniteSet(EventsInFlight')
    <3>1. IsFiniteSet(EventsInFlight \ {e})
      BY <1>2, FS_RemoveElement
    <3>2. QED BY <2>1, <3>1
  <2>4. m_written'["frames"] = Cardinality(DoneEvents')
    <3>1. IsFiniteSet(DoneEvents)
      <4>1. IsFiniteSet(Emitted) /\ DoneEvents \subseteq Emitted
        BY FramesFinite DEF DoneEvents
      <4>2. QED BY <4>1, FS_Subset
    <3>2. Cardinality(DoneEvents \cup {e}) = Cardinality(DoneEvents) + 1
      BY <2>1, <3>1, FS_AddElement
    <3>3. RowCount("frames", e) = 1
      BY DEF RowCount
    <3>4. QED BY <2>1, <2>2, <3>2, <3>3 DEF WrittenInv
  <2>5. ASSUME NEW t \in Tables
        PROVE  /\ IsFiniteSet(DoneRows(t)')
               /\ m_written'[t] = Cardinality(DoneRows(t)')
    <3> DEFINE S == DoneRows(t)
               T == RowsIn(t, e)
    <3>1. DoneRows(t)' = S \cup T
      BY <1>0, <2>1 DEF DoneRows, RowsIn, EventOf
    <3>2. S \cap T = {}
      BY <2>1 DEF DoneRows, RowsIn
    <3>3. IsFiniteSet(S) /\ m_written[t] = Cardinality(S)
      BY DEF WrittenInv
    <3>4. IsFiniteSet(T) /\ Cardinality(T) = RowCount(t, e) /\ RowCount(t, e) \in Nat
      BY <1>0, <2>1, RowsCounted
    <3> HIDE DEF S, T
    <3>5. IsFiniteSet(S \cup T) /\ Cardinality(S \cup T) = Cardinality(S) + Cardinality(T) - Cardinality(S \cap T)
      BY <3>3, <3>4, FS_Union
    <3>6. Cardinality(S \cap T) = 0 /\ Cardinality(S) \in Nat
      BY <3>2, <3>3, FS_EmptySet, FS_CardinalityType
    <3>7. Cardinality(S \cup T) = m_written[t] + RowCount(t, e)
      BY <3>3, <3>4, <3>5, <3>6
    <3>8. m_written'[t] = m_written[t] + RowCount(t, e)
      BY <2>2
    <3>9. QED BY <3>1, <3>5, <3>7, <3>8
  <2>6. QED BY <2>3, <2>4, <2>5 DEF WrittenInv
<1>7. QED BY <1>3, <1>4, <1>5, <1>6, StepKinds

-----------------------------------------------------------------------------
(* The values of the workers' variables.                                   *)
LEMMA AfterTail ==
    ASSUME NEW T, NEW s \in Seq(T)
    PROVE  s # <<>> => Tail(s) \in Seq(T) /\ Head(s) \in T
BY TailDistinct

(* A row is in one open cluster, if it is not in the file yet.             *)
LEMMA OpenOnce ==
    ASSUME ReaderInv, WorkerTypes, RowInv, NEW r \in AllRows
    PROVE  /\ Cardinality(OpenPlaces(r)) \in {0, 1}
           /\ Cardinality(OpenPlaces(r)) = 1 <=> \E w \in Workers : r \in InCluster(w)
           /\ file[r] \in Nat /\ file[r] + Cardinality(OpenPlaces(r)) \in {0, 1}
           /\ r \in Filled <=> file[r] + Cardinality(OpenPlaces(r)) > 0
<1> DEFINE c(w) == cluster[w][r[1]]
<1>1. r[1] \in Tables /\ file[r] \in Nat /\ file[r] <= 1
  BY RowTypes DEF WorkerTypes, RowInv, OncePlaced
<1>2. \A w \in Workers : r \in InCluster(w) <=> r \in Range(c(w))
  BY DEF InCluster
<1>3. ASSUME NEW w \in Workers, r \in InCluster(w)
      PROVE  Cardinality(OpenPlaces(r)) = 1 /\ file[r] = 0
  <2>1. PICK k \in DOMAIN c(w) : c(w)[k] = r
    BY <1>2, <1>3 DEF Range
  <2>2. PlacesOf(r, c(w)) = {k}
    <3>1. Distinct(c(w))
      BY <1>1 DEF RowInv, ClustersInv
    <3>2. QED BY <2>1, <3>1 DEF PlacesOf, Distinct
  <2>3. w \in m_thread_contexts
    <3>1. w \notin m_thread_contexts => c(w) = <<>>
      BY <1>1 DEF RowInv, ClustersInv
    <3>2. DOMAIN <<>> = {}
      OBVIOUS
    <3>3. QED BY <2>1, <3>1, <3>2
  <2>4. \A v \in m_thread_contexts : v # w => PlacesOf(r, c(v)) = {}
    <3>1. SUFFICES ASSUME NEW v \in m_thread_contexts, v # w PROVE PlacesOf(r, c(v)) = {}
      OBVIOUS
    <3>2. v \in Workers /\ r \notin InCluster(v)
      BY <1>3, <3>1 DEF RowInv, OncePlaced, WorkerTypes
    <3>3. r \notin Range(c(v))
      BY <1>2, <3>2
    <3>4. QED BY <3>3 DEF PlacesOf, Range
  <2>5. OpenPlaces(r) = {<<w, k>>}
    BY <2>2, <2>3, <2>4 DEF OpenPlaces
  <2>6. Cardinality({<<w, k>>}) = 1
    BY FS_Singleton
  <2>7. QED BY <1>3, <2>5, <2>6 DEF RowInv, OncePlaced
<1>4. ASSUME \A w \in Workers : r \notin InCluster(w) PROVE Cardinality(OpenPlaces(r)) = 0
  <2>1. \A w \in m_thread_contexts : PlacesOf(r, c(w)) = {}
    BY <1>2, <1>4 DEF PlacesOf, Range, WorkerTypes
  <2>2. OpenPlaces(r) = {}
    BY <2>1 DEF OpenPlaces
  <2>3. QED BY <2>2, FS_EmptySet
<1>5. r \in Filled <=> file[r] > 0 \/ \E w \in Workers : r \in InCluster(w)
  BY DEF Filled
<1>6. CASE \E w \in Workers : r \in InCluster(w)
  <2>1. Cardinality(OpenPlaces(r)) = 1 /\ file[r] = 0
    BY <1>3, <1>6
  <2>2. QED BY <1>1, <1>5, <1>6, <2>1
<1>7. CASE \A w \in Workers : r \notin InCluster(w)
  <2>1. Cardinality(OpenPlaces(r)) = 0
    BY <1>4, <1>7
  <2>2. QED BY <1>1, <1>5, <1>7, <2>1
<1>8. QED BY <1>6, <1>7

(* No step leaves the values that the workers' variables have.             *)
LEMMA TypesKeep ==
    ASSUME ReaderInv, ParsedInv, BodyInv, UnfoldInv, HandsInv, WorkerTypes, closed \/ RowInv,
           [Next]_vars
    PROVE  WorkerTypes'
<1>0. AllRows' = AllRows /\ AllEvents' = AllEvents /\ Emitted \subseteq AllEvents
  BY SameInput DEF Emitted, SeenFrames
<1>1. ASSUME UNCHANGED <<pc, at, todo, cluster, table, file, m_thread_contexts, m_written>>
      PROVE  WorkerTypes'
  BY <1>0, <1>1 DEF WorkerTypes
<1>2. CASE Emit \/ Unfolds
  BY <1>1, <1>2 DEF Emit, Unfolds, UnfoldFrame, UnfoldNone, workerVars, outVars
<1>3. ASSUME NEW b \in Blocks, Preprocess(b) \/ TakeParent(b) \/ Recycle(b) PROVE WorkerTypes'
  BY <1>1, <1>3 DEF Preprocess, TakeParent, Recycle, workerVars, outVars
<1>4. ASSUME NEW w \in Workers, NEW e \in queue, TakeEvent(w, e) PROVE WorkerTypes'
  <2>1. e \in AllEvents /\ RowsOf(e) \in Seq(AllRows)
    BY <1>0, RowsOfEvent DEF HandsInv
  <2>2. QED BY <1>0, <1>4, <2>1 DEF TakeEvent, WorkerTypes, outVars
<1>5. ASSUME NEW w \in Workers, CreateContexts(w) \/ RegisterContexts(w) \/ LockFile(w)
      PROVE  WorkerTypes'
  BY <1>0, <1>5 DEF CreateContexts, RegisterContexts, LockFile, Locks, WorkerTypes
<1>6. ASSUME NEW w \in Workers, FillRow(w) PROVE WorkerTypes'
  <2> DEFINE row == Head(todo[w])
             t   == row[1]
             c   == cluster[w][t]
  <2>1. todo[w] \in Seq(AllRows) /\ todo[w] # <<>>
    BY <1>6 DEF WorkerTypes, FillRow
  <2>2. row \in AllRows /\ Tail(todo[w]) \in Seq(AllRows) /\ t \in Tables
    BY <2>1, AfterTail, RowTypes
  <2>3. c \in Seq(AllRows)
    BY <2>2 DEF WorkerTypes
  <2>4. Append(c, row) \in Seq(AllRows)
    BY <2>2, <2>3, AppendDistinct
  <2>5. /\ todo' = [todo EXCEPT ![w] = Tail(todo[w])]
        /\ cluster' = [cluster EXCEPT ![w][t] = Append(c, row)]
        /\ \/ table' = [table EXCEPT ![w] = t] /\ pc' = [pc EXCEPT ![w] = "flush"]
           \/ UNCHANGED <<table, pc>>
        /\ UNCHANGED <<at, m_thread_contexts, file, m_written>>
    BY <1>6 DEF FillRow
  <2> HIDE DEF c, t, row
  <2>6. todo' \in [Workers -> Seq(AllRows)]
    BY <2>2, <2>5 DEF WorkerTypes
  <2>7. cluster' \in [Workers -> [Tables -> Seq(AllRows)]]
    BY <2>2, <2>4, <2>5 DEF WorkerTypes
  <2>8. /\ table' \in [Workers -> Tables]
        /\ pc' \in [Workers -> {"idle", "context", "create", "fill", "flush", "commit"}]
    BY <2>2, <2>5 DEF WorkerTypes
  <2>9. QED BY <1>0, <2>5, <2>6, <2>7, <2>8 DEF WorkerTypes
<1>7. ASSUME NEW w \in Workers, CommitCluster(w) PROVE WorkerTypes'
  <2> DEFINE c == cluster[w][table[w]]
  <2>1. file' = Added(c) /\ cluster' = [cluster EXCEPT ![w][table[w]] = <<>>]
        /\ pc' = [pc EXCEPT ![w] = "fill"]
        /\ UNCHANGED <<at, todo, m_thread_contexts, table, m_written>>
    BY <1>7 DEF CommitCluster
  <2>2. c \in Seq(AllRows)
    BY DEF WorkerTypes
  <2>3. file' \in [AllRows -> Nat]
    <3>1. \A r : Cardinality(PlacesOf(r, c)) \in Nat
      <4>1. IsFiniteSet(DOMAIN c)
        <5>1. DOMAIN c = 1..Len(c) /\ Len(c) \in Nat
          BY <2>2
        <5>2. IsFiniteSet(1..Len(c))
          BY <5>1, FS_Interval
        <5>3. QED BY <5>1, <5>2
      <4>2. ASSUME NEW r PROVE IsFiniteSet(PlacesOf(r, c))
        <5>1. PlacesOf(r, c) \subseteq DOMAIN c
          BY DEF PlacesOf
        <5>2. QED BY <4>1, <5>1, FS_Subset
      <4>3. QED BY <4>2, FS_CardinalityType
    <3> HIDE DEF c
    <3>2. QED BY <2>1, <3>1 DEF Added, WorkerTypes
  <2>4. QED BY <1>0, <2>1, <2>3 DEF WorkerTypes
<1>8. ASSUME NEW w \in Workers, EndEvent(w) PROVE WorkerTypes'
  <2>1. pc[w] = "fill" /\ m_written' = [t \in Tables |-> m_written[t] + RowCount(t, at[w])]
        /\ at' = [at EXCEPT ![w] = NoEvent] /\ pc' = [pc EXCEPT ![w] = "idle"]
        /\ UNCHANGED <<todo, m_file_mutex, m_thread_contexts, cluster, table, file>>
    BY <1>8 DEF EndEvent
  <2>2. at[w] \in AllEvents
    BY <1>0, <2>1 DEF HandsInv
  <2>3. \A t \in Tables : RowCount(t, at[w]) \in Nat
    BY <2>2, RowsCounted
  <2>4. QED BY <1>0, <2>1, <2>3 DEF WorkerTypes
<1>9. CASE Finish
  <2>1. /\ file' = [r \in AllRows |-> file[r] + Cardinality(OpenPlaces(r))]
        /\ m_thread_contexts' = {} /\ UNCHANGED <<pc, at, todo, cluster, table, m_written>>
        /\ ~closed
    BY <1>9 DEF Finish, Running
  <2>2. \A r \in AllRows : Cardinality(OpenPlaces(r)) \in Nat
    BY <2>1, OpenOnce
  <2>3. QED BY <1>0, <2>1, <2>2 DEF WorkerTypes
<1>10. CASE UNCHANGED vars
  BY <1>1, <1>10 DEF vars, workerVars, outVars
<1>11. QED BY <1>2, <1>3, <1>4, <1>5, <1>6, <1>7, <1>8, <1>9, <1>10 DEF Next, Stopped, Unfolds, Work

-----------------------------------------------------------------------------
(* Where the rows are, step by step.                                       *)
LEMMA RowsStay ==
    ASSUME [Next]_vars, UNCHANGED <<cluster, file>>
    PROVE  Filled' = Filled /\ \A w : InCluster(w)' = InCluster(w)
<1>1. AllRows' = AllRows
  BY SameInput
<1>2. \A w : InCluster(w)' = InCluster(w)
  BY <1>1 DEF InCluster
<1>3. QED BY <1>1, <1>2 DEF Filled

(* Steps that leave the unfolder alone emit nothing.                       *)
LEMMA SeenStays ==
    ASSUME [Next]_vars, UNCHANGED <<slice, parent, child_idx, m_next_frame>>
    PROVE  Emitted' = Emitted
<1>1. AllEvents' = AllEvents /\ parse' = parse /\ \A e : FrameOf(e)' = FrameOf(e)
  BY SameInput
<1>2. SeenFrames' = SeenFrames
  BY <1>1 DEF SeenFrames, Cursor, Past
<1>3. QED BY <1>1, <1>2 DEF Emitted

(* If no row moves, each row stays in its one place.                       *)
LEMMA PlacedStay ==
    ASSUME [Next]_vars, RowInv, UNCHANGED <<cluster, file>>,
           m_thread_contexts \subseteq m_thread_contexts',
           \A w \in Workers : pc'[w] \in {"fill", "flush", "commit"} => w \in m_thread_contexts'
    PROVE  ClustersInv' /\ OncePlaced'
<1>1. AllRows' = AllRows /\ \A w : InCluster(w)' = InCluster(w)
  BY SameInput, RowsStay
<1>2. ClustersInv'
  BY DEF RowInv, ClustersInv, Distinct
<1>3. OncePlaced'
  BY <1>1 DEF RowInv, OncePlaced
<1>4. QED BY <1>2, <1>3

(* If no row moves and no event either, nothing is more or less filled.    *)
LEMMA QuietFilled ==
    ASSUME [Next]_vars, RowInv, HandsInv, WorkerTypes, Quiet, Filled' = Filled, todo' = todo
    PROVE  FilledInv'
<1>1. /\ AllRows' = AllRows /\ Emitted' = Emitted /\ queue' = queue /\ at' = at
      /\ DoneEvents' = DoneEvents
      /\ \A w \in Workers : pc'[w] = "idle" <=> pc[w] = "idle"
  BY SameInput, InFlightMoves DEF Quiet
<1>2. \A r : EventOf(r)' = EventOf(r)
  BY DEF EventOf
<1>3. \A w : RowsToDo(w)' = RowsToDo(w)
  BY DEF RowsToDo
<1>4. /\ \A r \in Filled' : EventOf(r) \in Emitted' \ queue'
      /\ \A r \in AllRows' : EventOf(r) \in DoneEvents' => r \in Filled'
  BY <1>1 DEF RowInv, FilledInv
<1>5. \A w \in Workers :
        /\ Distinct(todo'[w])
        /\ pc'[w] = "idle" => todo'[w] = <<>>
        /\ pc'[w] # "idle" => \A r \in AllRows' : EventOf(r) = at'[w] =>
                                    (r \in RowsToDo(w)) # (r \in Filled')
        /\ \A r \in RowsToDo(w) : EventOf(r) = at'[w]
  BY <1>1 DEF RowInv, FilledInv
<1>6. QED BY <1>3, <1>4, <1>5 DEF FilledInv, Distinct, EventOf

(* A frame is emitted: its rows are not filled, and it is not done.        *)
LEMMA EmitsFilled ==
    ASSUME [Next]_vars, RowInv, HandsInv, WorkerTypes, Emits, Filled' = Filled, todo' = todo
    PROVE  FilledInv'
<1>1. /\ AllRows' = AllRows /\ Emitted' = Emitted \cup {NextEvent} /\ NextEvent \notin Emitted
      /\ queue' = queue \cup {NextEvent} /\ at' = at /\ DoneEvents' = DoneEvents /\ pc' = pc
  BY SameInput, InFlightMoves DEF Emits
<1>2. \A w : RowsToDo(w)' = RowsToDo(w)
  BY DEF RowsToDo
<1>3. /\ \A r \in Filled' : EventOf(r) \in Emitted' \ queue'
      /\ \A r \in AllRows' : EventOf(r) \in DoneEvents' => r \in Filled'
  BY <1>1 DEF RowInv, FilledInv
<1>4. \A w \in Workers :
        /\ Distinct(todo'[w])
        /\ pc'[w] = "idle" => todo'[w] = <<>>
        /\ pc'[w] # "idle" => \A r \in AllRows' : EventOf(r) = at'[w] =>
                                    (r \in RowsToDo(w)) # (r \in Filled')
        /\ \A r \in RowsToDo(w) : EventOf(r) = at'[w]
  BY <1>1 DEF RowInv, FilledInv
<1>5. QED BY <1>2, <1>3, <1>4 DEF FilledInv, Distinct, EventOf

(* A worker takes an event: it has all rows of it to fill.                 *)
LEMMA TakesFilled ==
    ASSUME [Next]_vars, ReaderInv, RowInv, HandsInv, WorkerTypes, Filled' = Filled,
           NEW w \in Workers, NEW e \in queue, Takes(w, e),
           todo' = [todo EXCEPT ![w] = RowsOf(e)]
    PROVE  FilledInv'
<1>1. /\ AllRows' = AllRows /\ Emitted' = Emitted /\ queue' = queue \ {e}
      /\ DoneEvents' = DoneEvents /\ pc'[w] # "idle" /\ at'[w] = e
      /\ \A v \in Workers \ {w} : pc'[v] = pc[v] /\ at'[v] = at[v]
  BY SameInput, InFlightMoves DEF Takes, WorkerTypes
<1>2. /\ todo'[w] = RowsOf(e) /\ \A v \in Workers \ {w} : todo'[v] = todo[v]
  BY DEF WorkerTypes
<1>3. e \in AllEvents
  BY DEF HandsInv, Emitted, SeenFrames
<1>4. Distinct(RowsOf(e)) /\ Range(RowsOf(e)) = {r \in AllRows : EventOf(r) = e}
  BY <1>3, RowsOfEvent
<1>5. /\ \A r \in Filled' : EventOf(r) \in Emitted' \ queue'
      /\ \A r \in AllRows' : EventOf(r) \in DoneEvents' => r \in Filled'
  BY <1>1 DEF RowInv, FilledInv
<1>6. \A r \in AllRows : EventOf(r) = e => r \notin Filled
  BY DEF RowInv, FilledInv
<1>7. /\ Distinct(todo'[w])
      /\ \A r \in AllRows' : EventOf(r) = e => (r \in Range(todo'[w])) # (r \in Filled')
      /\ \A r \in Range(todo'[w]) : EventOf(r) = e
  BY <1>1, <1>2, <1>4, <1>6
<1>8. ASSUME NEW v \in Workers \ {w}
      PROVE  /\ Distinct(todo'[v])
             /\ pc'[v] = "idle" => todo'[v] = <<>>
             /\ pc'[v] # "idle" => \A r \in AllRows' : EventOf(r) = at'[v] =>
                                    (r \in Range(todo'[v])) # (r \in Filled')
             /\ \A r \in Range(todo'[v]) : EventOf(r) = at'[v]
  BY <1>1, <1>2 DEF RowInv, FilledInv, RowsToDo
<1>9. \A v \in Workers :
        /\ Distinct(todo'[v])
        /\ pc'[v] = "idle" => todo'[v] = <<>>
        /\ pc'[v] # "idle" => \A r \in AllRows' : EventOf(r) = at'[v] =>
                                    (r \in Range(todo'[v])) # (r \in Filled')
        /\ \A r \in Range(todo'[v]) : EventOf(r) = at'[v]
  BY <1>1, <1>7, <1>8
<1>10. QED BY <1>5, <1>9 DEF FilledInv, RowsToDo, Distinct, EventOf, Range

(* A worker is done with an event: all its rows are filled.                *)
LEMMA EndsFilled ==
    ASSUME [Next]_vars, ReaderInv, RowInv, HandsInv, WorkerTypes, Filled' = Filled,
           NEW w \in Workers, Ends(w), todo[w] = <<>>, todo' = todo
    PROVE  FilledInv'
<1>1. /\ AllRows' = AllRows /\ Emitted' = Emitted /\ queue' = queue
      /\ DoneEvents' = DoneEvents \cup {at[w]} /\ pc'[w] = "idle" /\ pc[w] # "idle"
      /\ \A v \in Workers \ {w} : pc'[v] = pc[v] /\ at'[v] = at[v]
  BY SameInput, InFlightMoves DEF Ends, WorkerTypes
<1>2. Range(todo[w]) = {} /\ DOMAIN todo[w] = {}
  BY DEF Range
<1>3. \A r \in AllRows : EventOf(r) = at[w] => r \in Filled
  BY <1>1, <1>2 DEF RowInv, FilledInv, RowsToDo
<1>4. /\ \A r \in Filled' : EventOf(r) \in Emitted' \ queue'
      /\ \A r \in AllRows' : EventOf(r) \in DoneEvents' => r \in Filled'
  BY <1>1, <1>3 DEF RowInv, FilledInv
<1>5. ASSUME NEW v \in Workers \ {w}
      PROVE  /\ Distinct(todo'[v])
             /\ pc'[v] = "idle" => todo'[v] = <<>>
             /\ pc'[v] # "idle" => \A r \in AllRows' : EventOf(r) = at'[v] =>
                                    (r \in Range(todo'[v])) # (r \in Filled')
             /\ \A r \in Range(todo'[v]) : EventOf(r) = at'[v]
  BY <1>1 DEF RowInv, FilledInv, RowsToDo
<1>6. /\ Distinct(todo'[w]) /\ todo'[w] = <<>> /\ pc'[w] = "idle"
      /\ \A r \in Range(todo'[w]) : EventOf(r) = at'[w]
  BY <1>1, <1>2 DEF Distinct
<1>7. \A v \in Workers :
        /\ Distinct(todo'[v])
        /\ pc'[v] = "idle" => todo'[v] = <<>>
        /\ pc'[v] # "idle" => \A r \in AllRows' : EventOf(r) = at'[v] =>
                                    (r \in Range(todo'[v])) # (r \in Filled')
        /\ \A r \in Range(todo'[v]) : EventOf(r) = at'[v]
  BY <1>5, <1>6
<1>8. QED BY <1>4, <1>7 DEF FilledInv, RowsToDo, Distinct, EventOf, Range

(* A row is filled: it goes from what is to do to the worker's cluster of  *)
(* its table.                                                              *)
LEMMA FillRowRows ==
    ASSUME [Next]_vars, ReaderInv, RowInv, HandsInv, WorkerTypes, NEW w \in Workers, FillRow(w)
    PROVE  RowInv'
<1> DEFINE row == Head(todo[w])
           t   == row[1]
           c   == cluster[w][t]
<1>1. todo[w] \in Seq(AllRows) /\ todo[w] # <<>> /\ Distinct(todo[w]) /\ pc[w] = "fill"
  BY DEF WorkerTypes, FillRow, RowInv, FilledInv
<1>2. /\ row \in AllRows /\ row \in RowsToDo(w)
      /\ Range(todo[w]) = Range(Tail(todo[w])) \cup {row}
      /\ Distinct(Tail(todo[w])) /\ row \notin Range(Tail(todo[w]))
  BY <1>1, TailDistinct DEF RowsToDo
<1>3. t \in Tables /\ EventOf(row) = at[w] /\ row \notin Filled
  <2>1. t \in Tables
    BY <1>2, RowTypes
  <2>2. EventOf(row) = at[w]
    BY <1>2 DEF RowInv, FilledInv
  <2>3. QED BY <1>1, <1>2, <2>1, <2>2 DEF RowInv, FilledInv
<1>4. file[row] = 0 /\ \A v \in Workers : row \notin InCluster(v)
  <2>1. ~(file[row] > 0) /\ \A v \in Workers : row \notin InCluster(v)
    BY <1>2, <1>3 DEF Filled
  <2>2. file[row] \in Nat
    BY <1>2 DEF WorkerTypes
  <2>3. QED BY <2>1, <2>2
<1>5. c \in Seq(AllRows) /\ Distinct(c) /\ row \notin Range(c)
  BY <1>2, <1>3, <1>4 DEF WorkerTypes, RowInv, ClustersInv, InCluster
<1>6. /\ Range(Append(c, row)) = Range(c) \cup {row} /\ Distinct(Append(c, row))
      /\ \A k \in DOMAIN Append(c, row) : Append(c, row)[k] \in Range(c) \cup {row}
  <2>1. Range(Append(c, row)) = Range(c) \cup {row} /\ Distinct(Append(c, row))
    BY <1>2, <1>5, AppendDistinct
  <2>2. QED BY <2>1 DEF Range
<1>7. /\ todo' = [todo EXCEPT ![w] = Tail(todo[w])]
      /\ cluster' = [cluster EXCEPT ![w][t] = Append(c, row)]
      /\ pc' = [pc EXCEPT ![w] = "flush"] \/ pc' = pc
      /\ UNCHANGED <<at, m_thread_contexts, file, queue, slice, parent, child_idx, m_next_frame, m_written>>
  BY DEF FillRow, Writes, unfoldVars
<1>8. AllRows' = AllRows /\ Emitted' = Emitted
  BY <1>7, SeenStays, SameInput
<1> HIDE DEF row, t, c
<1>9. /\ todo'[w] = Tail(todo[w]) /\ \A v \in Workers \ {w} : todo'[v] = todo[v]
      /\ cluster'[w][t] = Append(c, row)
      /\ \A u \in Tables : u # t => cluster'[w][u] = cluster[w][u]
      /\ \A v \in Workers \ {w} : cluster'[v] = cluster[v]
      /\ pc'[w] \in {"fill", "flush"} /\ \A v \in Workers \ {w} : pc'[v] = pc[v]
  BY <1>1, <1>3, <1>7 DEF WorkerTypes
<1>10. t = row[1] /\ c = cluster[w][t]
  BY DEF t, c
<1>11. InCluster(w)' = InCluster(w) \cup {row} /\ \A v \in Workers \ {w} : InCluster(v)' = InCluster(v)
  <2>1. ASSUME NEW r \in AllRows PROVE r \in Range(cluster'[w][r[1]]) <=> r \in Range(cluster[w][r[1]]) \/ r = row
    <3>1. CASE r[1] = t
      <4>1. cluster'[w][r[1]] = Append(c, row) /\ cluster[w][r[1]] = c
        BY <1>9, <1>10, <3>1
      <4>2. QED BY <1>6, <4>1
    <3>2. CASE r[1] # t
      <4>1. cluster'[w][r[1]] = cluster[w][r[1]]
        BY <1>9, <3>2, RowTypes
      <4>2. r # row
        BY <1>10, <3>2
      <4>3. QED BY <4>1, <4>2
    <3>3. QED BY <3>1, <3>2
  <2>2. InCluster(w)' = InCluster(w) \cup {row}
    BY <1>2, <1>8, <2>1 DEF InCluster
  <2>3. ASSUME NEW v \in Workers \ {w} PROVE InCluster(v)' = InCluster(v)
    BY <1>8, <1>9 DEF InCluster
  <2>4. QED BY <2>2, <2>3
<1>12. Filled' = Filled \cup {row}
  <2>1. \A v \in Workers : InCluster(v)' = IF v = w THEN InCluster(v) \cup {row} ELSE InCluster(v)
    BY <1>11
  <2>2. \A r : (\E v \in Workers : r \in InCluster(v)') <=> r = row \/ \E v \in Workers : r \in InCluster(v)
    BY <2>1
  <2>3. QED BY <1>2, <1>7, <1>8, <2>2 DEF Filled
<1>13. ClustersInv'
  <2>1. ASSUME NEW u \in Tables
        PROVE  /\ Distinct(cluster'[w][u])
               /\ \A k \in DOMAIN cluster'[w][u] : cluster'[w][u][k][1] = u
    <3>1. CASE u = t
      <4>1. \A r \in Range(c) : r[1] = t
        BY <1>3, <1>10 DEF RowInv, ClustersInv, Range
      <4>2. QED BY <1>6, <1>9, <1>10, <3>1, <4>1
    <3>2. CASE u # t
      BY <1>9, <3>2 DEF RowInv, ClustersInv
    <3>3. QED BY <3>1, <3>2
  <2>2. w \in m_thread_contexts
    BY <1>1 DEF RowInv, ClustersInv
  <2>3. ASSUME NEW v \in Workers \ {w}
        PROVE  /\ \A u \in Tables :
                    /\ Distinct(cluster'[v][u])
                    /\ \A k \in DOMAIN cluster'[v][u] : cluster'[v][u][k][1] = u
                    /\ v \notin m_thread_contexts => cluster'[v][u] = <<>>
               /\ pc'[v] \in {"fill", "flush", "commit"} => v \in m_thread_contexts
    BY <1>9 DEF RowInv, ClustersInv
  <2>4. QED BY <1>7, <2>1, <2>2, <2>3 DEF ClustersInv, Distinct
<1>14. OncePlaced'
  <2>1. \A r \in AllRows' : file'[r] <= 1
    BY <1>7, <1>8 DEF RowInv, OncePlaced
  <2>2. ASSUME NEW v \in Workers, NEW r \in InCluster(v)'
        PROVE  file[r] = 0 /\ \A u \in Workers : r \in InCluster(u)' => u = v
    <3>1. CASE r = row
      BY <1>4, <1>11, <2>2, <3>1
    <3>2. CASE r # row
      <4>1. r \in InCluster(v) /\ \A u \in Workers : r \in InCluster(u)' => r \in InCluster(u)
        BY <1>11, <2>2, <3>2
      <4>2. QED BY <4>1 DEF RowInv, OncePlaced
    <3>3. QED BY <3>1, <3>2
  <2>3. QED BY <1>7, <2>1, <2>2 DEF OncePlaced
<1>15. FilledInv'
  <2>1. DoneEvents' = DoneEvents /\ queue' = queue
    <3>1. EventsInFlight' = EventsInFlight
      BY <1>1, <1>7, <1>9 DEF EventsInFlight
    <3>2. QED BY <1>7, <1>8, <3>1 DEF DoneEvents
  <2>2. EventOf(row) \in Emitted \ queue
    BY <1>1, <1>3 DEF HandsInv
  <2>3. /\ \A r \in Filled' : EventOf(r) \in Emitted' \ queue'
        /\ \A r \in AllRows' : EventOf(r) \in DoneEvents' => r \in Filled'
    BY <1>8, <1>12, <2>1, <2>2 DEF RowInv, FilledInv
  <2>4. /\ Distinct(todo'[w]) /\ pc'[w] # "idle"
        /\ \A r \in AllRows' : EventOf(r) = at'[w] =>
                                    (r \in Range(todo'[w])) # (r \in Filled')
        /\ \A r \in Range(todo'[w]) : EventOf(r) = at'[w]
    <3>1. \A r \in AllRows : EventOf(r) = at[w] => (r \in Range(todo[w])) # (r \in Filled)
      BY <1>1 DEF RowInv, FilledInv, RowsToDo
    <3>2. \A r \in Range(todo[w]) : EventOf(r) = at[w]
      BY DEF RowInv, FilledInv, RowsToDo
    <3>3. QED BY <1>2, <1>3, <1>7, <1>8, <1>9, <1>12, <3>1, <3>2
  <2>5. ASSUME NEW v \in Workers \ {w}
        PROVE  /\ Distinct(todo'[v])
               /\ pc'[v] = "idle" => todo'[v] = <<>>
               /\ pc'[v] # "idle" => \A r \in AllRows' : EventOf(r) = at'[v] =>
                                    (r \in Range(todo'[v])) # (r \in Filled')
               /\ \A r \in Range(todo'[v]) : EventOf(r) = at'[v]
    <3>1. pc[v] # "idle" => at[v] # at[w]
      BY <1>1 DEF HandsInv
    <3>2. pc[v] # "idle" => \A r \in AllRows : EventOf(r) = at[v] => r # row
      BY <1>3, <3>1
    <3>3. QED BY <1>7, <1>8, <1>9, <1>12, <3>2 DEF RowInv, FilledInv, RowsToDo
  <2>6. \A v \in Workers :
          /\ Distinct(todo'[v])
          /\ pc'[v] = "idle" => todo'[v] = <<>>
          /\ pc'[v] # "idle" => \A r \in AllRows' : EventOf(r) = at'[v] =>
                                    (r \in Range(todo'[v])) # (r \in Filled')
          /\ \A r \in Range(todo'[v]) : EventOf(r) = at'[v]
    BY <2>4, <2>5
  <2>7. QED BY <2>3, <2>6 DEF FilledInv, RowsToDo, Distinct, EventOf, Range
<1>16. QED BY <1>13, <1>14, <1>15 DEF RowInv

(* A cluster is committed: its rows go to the file.                        *)
LEMMA CommitRows ==
    ASSUME [Next]_vars, ReaderInv, RowInv, HandsInv, WorkerTypes,
           NEW w \in Workers, CommitCluster(w)
    PROVE  RowInv' /\ \A r \in AllRows : file[r] <= file'[r] /\ file'[r] <= 1
<1> DEFINE t == table[w]
           c == cluster[w][t]
<1>1. t \in Tables /\ c \in Seq(AllRows) /\ Distinct(c) /\ \A r \in Range(c) : r[1] = t
  <2>1. t \in Tables
    BY DEF WorkerTypes
  <2>2. QED BY <2>1 DEF WorkerTypes, RowInv, ClustersInv, Range
<1>2. Range(c) \subseteq AllRows
  BY <1>1 DEF Range
<1>3. /\ file' = Added(c) /\ cluster' = [cluster EXCEPT ![w][t] = <<>>]
      /\ pc' = [pc EXCEPT ![w] = "fill"] /\ pc[w] = "commit"
      /\ UNCHANGED <<todo, at, m_thread_contexts, queue, slice, parent, child_idx, m_next_frame, m_written>>
  BY DEF CommitCluster, Writes, unfoldVars
<1>4. AllRows' = AllRows /\ Emitted' = Emitted
  BY <1>3, SeenStays, SameInput
<1>5. \A r \in Range(c) : r \in InCluster(w)
  BY <1>1, <1>2 DEF InCluster
<1>6. ASSUME NEW r \in AllRows
      PROVE  /\ r \in Range(c) => file'[r] = 1 /\ file[r] = 0
             /\ r \notin Range(c) => file'[r] = file[r]
             /\ file[r] <= 1 /\ file[r] \in Nat
  <2>1. file'[r] = file[r] + Cardinality(PlacesOf(r, c))
    BY <1>3 DEF Added
  <2>2. file[r] \in Nat /\ file[r] <= 1
    BY DEF WorkerTypes, RowInv, OncePlaced
  <2>3. r \in Range(c) => file[r] = 0
    BY <1>5 DEF RowInv, OncePlaced
  <2> HIDE DEF c
  <2>4. /\ r \in Range(c) => Cardinality(PlacesOf(r, c)) = 1
        /\ r \notin Range(c) => Cardinality(PlacesOf(r, c)) = 0
    BY <1>1, PlacesOnce
  <2>5. QED BY <2>1, <2>2, <2>3, <2>4
<1> HIDE DEF t, c
<1>7. /\ cluster'[w][t] = <<>>
      /\ \A u \in Tables : u # t => cluster'[w][u] = cluster[w][u]
      /\ \A v \in Workers \ {w} : cluster'[v] = cluster[v]
      /\ pc'[w] = "fill" /\ \A v \in Workers \ {w} : pc'[v] = pc[v]
  BY <1>1, <1>3 DEF WorkerTypes
<1>8. c = cluster[w][t]
  BY DEF c
<1>9. InCluster(w)' = InCluster(w) \ Range(c) /\ \A v \in Workers \ {w} : InCluster(v)' = InCluster(v)
  <2>1. ASSUME NEW r \in AllRows
        PROVE  r \in Range(cluster'[w][r[1]]) <=> r \in Range(cluster[w][r[1]]) /\ r \notin Range(c)
    <3>1. CASE r[1] = t
      <4>1. cluster'[w][r[1]] = <<>> /\ cluster[w][r[1]] = c
        BY <1>7, <1>8, <3>1
      <4>2. Range(<<>>) = {}
        BY DEF Range
      <4>3. QED BY <4>1, <4>2
    <3>2. CASE r[1] # t
      <4>1. cluster'[w][r[1]] = cluster[w][r[1]]
        BY <1>7, <3>2, RowTypes
      <4>2. r \notin Range(c)
        BY <1>1, <3>2
      <4>3. QED BY <4>1, <4>2
    <3>3. QED BY <3>1, <3>2
  <2>2. InCluster(w)' = InCluster(w) \ Range(c)
    BY <1>4, <2>1 DEF InCluster
  <2>3. ASSUME NEW v \in Workers \ {w} PROVE InCluster(v)' = InCluster(v)
    BY <1>4, <1>7 DEF InCluster
  <2>4. QED BY <2>2, <2>3
<1>10. Filled' = Filled
  <2>1. ASSUME NEW r \in AllRows
        PROVE  (file'[r] > 0 \/ \E v \in Workers : r \in InCluster(v)')
                  <=> (file[r] > 0 \/ \E v \in Workers : r \in InCluster(v))
    <3>1. CASE r \in Range(c)
      <4>1. file'[r] > 0
        BY <1>6, <3>1
      <4>2. QED BY <1>5, <3>1, <4>1
    <3>2. CASE r \notin Range(c)
      <4>1. file'[r] = file[r] /\ \A v \in Workers : r \in InCluster(v)' <=> r \in InCluster(v)
        BY <1>6, <1>9, <3>2
      <4>2. QED BY <4>1
    <3>3. QED BY <3>1, <3>2
  <2>2. QED BY <1>4, <2>1 DEF Filled
<1>11. ClustersInv'
  <2>1. ASSUME NEW u \in Tables
        PROVE  /\ Distinct(cluster'[w][u])
               /\ \A k \in DOMAIN cluster'[w][u] : cluster'[w][u][k][1] = u
    <3>1. CASE u = t
      <4>1. DOMAIN cluster'[w][u] = {}
        BY <1>7, <3>1
      <4>2. QED BY <4>1 DEF Distinct
    <3>2. CASE u # t
      BY <1>7, <3>2 DEF RowInv, ClustersInv
    <3>3. QED BY <3>1, <3>2
  <2>2. w \in m_thread_contexts
    BY <1>3 DEF RowInv, ClustersInv
  <2>3. ASSUME NEW v \in Workers \ {w}
        PROVE  /\ \A u \in Tables :
                    /\ Distinct(cluster'[v][u])
                    /\ \A k \in DOMAIN cluster'[v][u] : cluster'[v][u][k][1] = u
                    /\ v \notin m_thread_contexts => cluster'[v][u] = <<>>
               /\ pc'[v] \in {"fill", "flush", "commit"} => v \in m_thread_contexts
    BY <1>7 DEF RowInv, ClustersInv
  <2>4. QED BY <1>3, <2>1, <2>2, <2>3 DEF ClustersInv, Distinct
<1>12. OncePlaced'
  <2>1. \A r \in AllRows' : file'[r] <= 1
    BY <1>4, <1>6
  <2>2. ASSUME NEW v \in Workers, NEW r \in InCluster(v)'
        PROVE  file'[r] = 0 /\ \A u \in Workers : r \in InCluster(u)' => u = v
    <3>1. r \in InCluster(v) /\ \A u \in Workers : r \in InCluster(u)' => r \in InCluster(u)
      BY <1>9, <2>2
    <3>2. r \in AllRows /\ file[r] = 0 /\ \A u \in Workers : r \in InCluster(u) => u = v
      BY <3>1 DEF RowInv, OncePlaced, InCluster
    <3>3. r \notin Range(c)
      <4>1. r \in Range(c) => v = w
        BY <1>5, <3>2
      <4>2. QED BY <1>9, <2>2, <4>1
    <3>4. QED BY <1>6, <3>1, <3>2, <3>3
  <2>3. QED BY <2>1, <2>2 DEF OncePlaced
<1>13. Quiet
  BY <1>3, <1>4, <1>7 DEF Quiet
<1>14. FilledInv'
  BY <1>3, <1>10, <1>13, QuietFilled
<1>15. QED BY <1>6, <1>11, <1>12, <1>14 DEF RowInv

-----------------------------------------------------------------------------
(* Every step but the last keeps each row in one place, and takes none     *)
(* from the file.                                                          *)
Grown == \A r \in AllRows : file[r] <= file'[r] /\ file'[r] <= 1

(* Each step of this kind, by its action.                                  *)
LEMMA RowsKeep ==
    ASSUME ReaderInv, ParsedInv, BodyInv, UnfoldInv, HandsInv, WorkerTypes, RowInv,
           [Next]_vars, ~Finish
    PROVE  RowInv' /\ Grown
<1>1. ASSUME UNCHANGED <<todo, cluster, file>>, m_thread_contexts \subseteq m_thread_contexts',
             \A w \in Workers : pc'[w] \in {"fill", "flush", "commit"} => w \in m_thread_contexts',
             \A w \in Workers : pc'[w] = "idle" <=> pc[w] = "idle"
      PROVE  RowInv' /\ Grown
  <2>1. Filled' = Filled
    BY <1>1, RowsStay
  <2>2. Quiet \/ Emits
    BY <1>1, StepKinds DEF Takes, Ends
  <2>3. FilledInv'
    BY <1>1, <2>1, <2>2, QuietFilled, EmitsFilled
  <2>4. Grown
    BY <1>1 DEF Grown, RowInv, OncePlaced, WorkerTypes
  <2>5. QED BY <1>1, <2>3, <2>4, PlacedStay DEF RowInv
<1>2. ASSUME UNCHANGED workerVars, UNCHANGED file PROVE RowInv' /\ Grown
  <2>1. \A w \in Workers : pc[w] \in {"fill", "flush", "commit"} => w \in m_thread_contexts
    BY DEF RowInv, ClustersInv
  <2>2. QED BY <1>1, <1>2, <2>1 DEF workerVars
<1>3. CASE Emit \/ Unfolds
  BY <1>2, <1>3 DEF Emit, Unfolds, UnfoldFrame, UnfoldNone, outVars
<1>4. ASSUME NEW b \in Blocks, Preprocess(b) \/ TakeParent(b) \/ Recycle(b) PROVE RowInv' /\ Grown
  BY <1>2, <1>4 DEF Preprocess, TakeParent, Recycle, outVars
<1>5. CASE UNCHANGED vars
  BY <1>2, <1>5 DEF vars, outVars
<1>6. ASSUME NEW w \in Workers, CreateContexts(w) \/ RegisterContexts(w) \/ LockFile(w)
      PROVE  RowInv' /\ Grown
  <2>1. \A v \in Workers : pc[v] \in {"fill", "flush", "commit"} => v \in m_thread_contexts
    BY DEF RowInv, ClustersInv
  <2>2. UNCHANGED <<todo, cluster, file>> /\ m_thread_contexts \subseteq m_thread_contexts'
    BY <1>6 DEF CreateContexts, RegisterContexts, LockFile, Locks
  <2>3. \A v \in Workers \ {w} : pc'[v] = pc[v]
    BY <1>6 DEF CreateContexts, RegisterContexts, LockFile, Locks, WorkerTypes
  <2>4. /\ pc'[w] \in {"fill", "flush", "commit"} => w \in m_thread_contexts'
        /\ pc[w] # "idle" /\ pc'[w] # "idle"
    BY <1>6, <2>1 DEF CreateContexts, RegisterContexts, LockFile, Locks, WorkerTypes
  <2>5. QED BY <1>1, <2>1, <2>2, <2>3, <2>4
<1>7. ASSUME NEW w \in Workers, NEW e \in queue, TakeEvent(w, e) PROVE RowInv' /\ Grown
  <2>1. /\ UNCHANGED <<slice, parent, child_idx, m_next_frame, cluster, file, m_thread_contexts>>
        /\ todo' = [todo EXCEPT ![w] = RowsOf(e)]
        /\ \A v \in Workers \ {w} : pc'[v] = pc[v]
        /\ pc'[w] = IF w \in m_thread_contexts THEN "fill" ELSE "context"
    BY <1>7 DEF TakeEvent, unfoldVars, outVars, WorkerTypes
  <2>2. Emitted' = Emitted /\ Filled' = Filled
    BY <2>1, SeenStays, RowsStay
  <2>3. Takes(w, e)
    BY <1>7, <2>2 DEF TakeEvent, Takes, WorkerTypes, outVars
  <2>4. FilledInv'
    BY <2>1, <2>2, <2>3, TakesFilled
  <2>5. \A v \in Workers : pc'[v] \in {"fill", "flush", "commit"} => v \in m_thread_contexts'
    BY <2>1 DEF RowInv, ClustersInv
  <2>6. ClustersInv' /\ OncePlaced'
    BY <2>1, <2>5, PlacedStay
  <2>7. Grown
    BY <2>1 DEF Grown, RowInv, OncePlaced, WorkerTypes
  <2>8. QED BY <2>4, <2>6, <2>7 DEF RowInv
<1>8. ASSUME NEW w \in Workers, EndEvent(w) PROVE RowInv' /\ Grown
  <2>1. /\ UNCHANGED <<slice, parent, child_idx, m_next_frame, cluster, file, m_thread_contexts, todo>>
        /\ todo[w] = <<>> /\ pc'[w] = "idle" /\ \A v \in Workers \ {w} : pc'[v] = pc[v]
    BY <1>8 DEF EndEvent, Writes, unfoldVars, WorkerTypes
  <2>2. Emitted' = Emitted /\ Filled' = Filled
    BY <2>1, SeenStays, RowsStay
  <2>3. Ends(w)
    BY <1>8, <2>2 DEF EndEvent, Ends, WorkerTypes, Writes
  <2>4. FilledInv'
    BY <2>1, <2>2, <2>3, EndsFilled
  <2>5. \A v \in Workers : pc'[v] \in {"fill", "flush", "commit"} => v \in m_thread_contexts'
    BY <2>1 DEF RowInv, ClustersInv
  <2>6. ClustersInv' /\ OncePlaced'
    BY <2>1, <2>5, PlacedStay
  <2>7. Grown
    BY <2>1 DEF Grown, RowInv, OncePlaced, WorkerTypes
  <2>8. QED BY <2>4, <2>6, <2>7 DEF RowInv
<1>9. ASSUME NEW w \in Workers, FillRow(w) PROVE RowInv' /\ Grown
  <2>1. file' = file
    BY <1>9 DEF FillRow
  <2>2. Grown
    BY <2>1 DEF Grown, RowInv, OncePlaced, WorkerTypes
  <2>3. QED BY <1>9, <2>2, FillRowRows
<1>10. ASSUME NEW w \in Workers, CommitCluster(w) PROVE RowInv' /\ Grown
  BY <1>10, CommitRows DEF Grown
<1>11. QED BY <1>3, <1>4, <1>5, <1>6, <1>7, <1>8, <1>9, <1>10 DEF Next, Stopped, Unfolds, Work

(* At the end all frames were seen, and every frame that passes was        *)
(* emitted; the rows of these are in the file, and no others.              *)
ToWrite == {e \in AllEvents : parse # "off" /\ FrameOf(e).passes}

(* With all blocks behind the unfolder, this is what it has seen.          *)
LEMMA AllPast ==
    ASSUME ReaderInv, \A b \in Blocks : slice[b].where \in Past
    PROVE  /\ SeenFrames = IF parse = "off" THEN {} ELSE AllEvents
           /\ Emitted = ToWrite /\ StatsDone = Blocks
<1>1. \A e \in AllEvents : e[1] \in Blocks
  BY EventTypes
<1>2. SeenFrames = IF parse = "off" THEN {} ELSE AllEvents
  BY <1>1 DEF SeenFrames
<1>3. Emitted = ToWrite
  BY <1>2 DEF Emitted, ToWrite
<1>4. StatsDone = Blocks
  BY DEF StatsDone
<1>5. QED BY <1>2, <1>3, <1>4

(* Finish commits all that is still in the clusters.                       *)
LEMMA FinishCloses ==
    ASSUME ReaderInv, BodyInv, HandsInv, WorkerTypes, RowInv, [Next]_vars, Finish
    PROVE  /\ Grown /\ closed' /\ source = "finished" /\ EventsInFlight = {}
           /\ UNCHANGED <<slice, source, parent, child_idx, m_next_frame, queue, at, pc>>
           /\ \A b \in Blocks : slice[b].where = "recycled"
           /\ \A r \in AllRows : file'[r] > 0 <=> EventOf(r) \in Emitted
<1>1. /\ source = "finished" /\ EventsInFlight = {} /\ closed'
      /\ InFlight(Kept) = {}
      /\ file' = [r \in AllRows |-> file[r] + Cardinality(OpenPlaces(r))]
      /\ UNCHANGED <<slice, source, parent, child_idx, m_next_frame, queue, at, pc>>
  BY DEF Finish, Drained, unfoldVars, Kept
<1>2. ASSUME NEW b \in Blocks PROVE slice[b].where = "recycled"
  <2>1. slice[b].where \in Places /\ slice[b].where \notin Kept
    BY <1>1 DEF InFlight, BodyInv, BodyTypes, Slices
  <2>2. slice[b].where # "file"
    <3>1. cursor = Len(items) /\ b \in DOMAIN items /\ DOMAIN items = 1..Len(items)
      BY <1>1, InputsTyped DEF ReaderInv, Blocks
    <3>2. b <= cursor /\ b \in Nat /\ cursor \in Nat
      BY <3>1 DEF ReaderInv
    <3>3. ~(b > cursor)
      BY <3>2
    <3>4. QED BY <3>3 DEF ReaderInv
  <2>3. QED BY <2>1, <2>2 DEF Places
<1>3. ASSUME NEW r \in AllRows
      PROVE  /\ file[r] <= file'[r] /\ file'[r] <= 1
             /\ file'[r] > 0 <=> EventOf(r) \in Emitted
  <2>1. /\ Cardinality(OpenPlaces(r)) \in {0, 1} /\ file[r] \in Nat
        /\ file[r] + Cardinality(OpenPlaces(r)) \in {0, 1}
        /\ r \in Filled <=> file[r] + Cardinality(OpenPlaces(r)) > 0
    BY OpenOnce
  <2>2. file'[r] = file[r] + Cardinality(OpenPlaces(r))
    BY <1>1
  <2>3. r \in Filled <=> EventOf(r) \in Emitted
    <3>1. DoneEvents = Emitted
      BY <1>1 DEF DoneEvents
    <3>2. QED BY <3>1 DEF RowInv, FilledInv
  <2>4. QED BY <2>1, <2>2, <2>3
<1>4. QED BY <1>1, <1>2, <1>3 DEF Grown

(* Nothing happens after the file is closed.                               *)
LEMMA ClosedIsFinal ==
    ASSUME ClosedInv, closed, [Next]_vars
    PROVE  UNCHANGED vars
BY DEF ClosedInv, Next, Emit, Preprocess, TakeParent, Recycle, UnfoldFrame, UnfoldNone, Work,
       TakeEvent, CreateContexts, RegisterContexts, FillRow, LockFile, CommitCluster, EndEvent,
       Writes, Finish, Running, Stopped

(* Only Finish closes the file.                                            *)
LEMMA StaysOpen ==
    ASSUME ~closed, [Next]_vars, ~Finish
    PROVE  closed' = closed
BY DEF Next, Emit, Preprocess, TakeParent, Recycle, UnfoldFrame, UnfoldNone, Work,
       TakeEvent, CreateContexts, RegisterContexts, FillRow, LockFile, CommitCluster, EndEvent,
       Writes, Stopped, outVars, vars

(* What holds when the file is closed goes on to hold.                     *)
LEMMA ClosedKeeps ==
    ASSUME ReaderInv, BodyInv, HandsInv, WorkerTypes, closed \/ RowInv, ClosedInv, [Next]_vars
    PROVE  ClosedInv'
<1>1. Blocks' = Blocks /\ AllRows' = AllRows
  BY SameInput
<1>2. CASE closed
  <2>1. UNCHANGED vars
    BY <1>2, ClosedIsFinal
  <2>2. /\ UNCHANGED <<slice, source, parent, child_idx, m_next_frame, queue, at, pc, file, closed>>
    BY <2>1 DEF vars, unfoldVars, workerVars, outVars
  <2>3. EventsInFlight' = EventsInFlight /\ Emitted' = Emitted
    BY <2>2, SeenStays DEF EventsInFlight
  <2>4. QED BY <1>1, <2>2, <2>3 DEF ClosedInv, EventOf
<1>3. CASE Finish /\ ~closed
  <2>1. /\ closed' /\ source = "finished" /\ EventsInFlight = {}
        /\ UNCHANGED <<slice, source, parent, child_idx, m_next_frame, queue, at, pc>>
        /\ \A b \in Blocks : slice[b].where = "recycled"
        /\ \A r \in AllRows : file'[r] > 0 <=> EventOf(r) \in Emitted
    BY <1>3, FinishCloses
  <2>2. EventsInFlight' = EventsInFlight /\ Emitted' = Emitted
    BY <2>1, SeenStays DEF EventsInFlight
  <2>3. QED BY <1>1, <2>1, <2>2 DEF ClosedInv, EventOf
<1>4. CASE ~closed /\ ~Finish
  BY <1>4, StaysOpen DEF ClosedInv
<1>5. QED BY <1>2, <1>3, <1>4

-----------------------------------------------------------------------------
(* The reader, with the steps that are not its own.                        *)
LEMMA ReaderStep ==
    ASSUME ReaderInv, BodyInv, [Next]_vars
    PROVE  ReaderInv'
<1>0. slice \in [Blocks -> Slices]
  BY DEF BodyInv, BodyTypes
<1>1. CASE Emit
  BY <1>1, EmitReader
<1>2. ASSUME NEW b \in Blocks, Preprocess(b) \/ TakeParent(b) \/ Recycle(b) PROVE ReaderInv'
  <2>1. /\ UNCHANGED <<cursor, truncated, source>>
        /\ \A c \in Blocks : slice'[c].where = "file" <=> slice[c].where = "file"
    BY <1>0, <1>2 DEF Preprocess, TakeParent, Recycle, readerVars, Slices, NoData
  <2>2. QED BY <2>1, ReaderKeeps
<1>3. CASE Unfolds
  <2>1. UNCHANGED <<cursor, truncated, source>> /\ (slice' = slice \/ NextParent) /\ parent \in Blocks
        /\ slice[parent].where \in {"emitted", "mapped", "unfolding"}
    BY <1>3 DEF Unfolds, UnfoldFrame, UnfoldNone, readerVars, BodyInv, BodyTypes
  <2>2. \A c \in Blocks : slice'[c].where = "file" <=> slice[c].where = "file"
    BY <1>0, <2>1 DEF NextParent, Slices
  <2>3. QED BY <2>1, <2>2, ReaderKeeps
<1>4. CASE (\E w \in Workers : Work(w)) \/ Finish \/ UNCHANGED vars
  <2>1. UNCHANGED <<cursor, truncated, source, slice>>
    BY <1>4, WorkersApart DEF readerVars
  <2>2. QED BY <2>1, ReaderKeeps
<1>5. QED BY <1>1, <1>2, <1>3, <1>4 DEF Next, Stopped, Unfolds

IndInv == BodyInv /\ PipeInv

(* All parts together are inductive.                                       *)
LEMMA PipeStep ==
    ASSUME IndInv, [Next]_vars
    PROVE  IndInv'
<1>1. /\ BodyInv /\ ReaderInv /\ ParsedInv /\ UnfoldInv /\ HandsInv /\ WorkerTypes
      /\ closed \/ RowInv
      /\ TotalsInv /\ WrittenInv /\ ClosedInv
  BY DEF IndInv, PipeInv
<1>2. BodyInv' /\ ReaderInv' /\ ParsedInv' /\ UnfoldInv' /\ TotalsInv'
  BY <1>1, StepKeeps, ReaderStep, ParsedKeeps, UnfoldKeeps, TotalsKeep
<1>3. HandsInv' /\ WorkerTypes' /\ WrittenInv' /\ ClosedInv'
  BY <1>1, StepKinds, HandsKeep, TypesKeep, WrittenKeep, ClosedKeeps
<1>4. (closed \/ RowInv)'
  <2>1. CASE closed
    <3>1. UNCHANGED vars
      BY <1>1, <2>1, ClosedIsFinal
    <3>2. QED BY <2>1, <3>1 DEF vars, outVars
  <2>2. CASE ~closed /\ Finish
    BY <1>1, <2>2, FinishCloses
  <2>3. CASE ~closed /\ ~Finish
    BY <1>1, <2>3, RowsKeep
  <2>4. QED BY <2>1, <2>2, <2>3
<1>5. QED BY <1>2, <1>3, <1>4 DEF IndInv, PipeInv

(* They hold when the run begins.                                          *)
LEMMA PipeInit == Init => IndInv
<1>1. SUFFICES ASSUME Init PROVE IndInv
  OBVIOUS
<1>2. BodyInv
  BY <1>1, InitBodies
<1>3. /\ items \in Inputs /\ use_mmap \in BOOLEAN /\ source = "reading"
      /\ slice = [b \in Blocks |-> NoData] /\ parent = 0 /\ child_idx = 0 /\ m_next_frame = 0
      /\ m_frames_seen = 0 /\ m_frames_emitted = 0 /\ m_parse_stats = <<>>
      /\ queue = {} /\ ~closed /\ cursor = 0 /\ truncated = 0
      /\ at = [w \in Workers |-> NoEvent] /\ pc = [w \in Workers |-> "idle"]
      /\ todo = [w \in Workers |-> <<>>] /\ m_thread_contexts = {}
      /\ cluster = [w \in Workers |-> [t \in Tables |-> <<>>]]
      /\ table = [w \in Workers |-> "frames"]
      /\ file = [r \in AllRows |-> 0] /\ m_written = [t \in Tables |-> 0]
  BY <1>1 DEF Init, ReaderInit
<1>4. /\ DOMAIN items = 1..Len(items) /\ Len(items) \in Nat /\ Blocks \subseteq DOMAIN items
  BY <1>3, InputsTyped DEF Blocks
<1>5. \A b \in Blocks : slice[b].where = "file" /\ slice[b].parsed = 0 /\ ~slice[b].pending
  BY <1>3 DEF NoData
<1>6. ReaderInv
  <2>1. CutsTo(0) = {}
    BY <1>4 DEF CutsTo
  <2>2. Cardinality(CutsTo(cursor)) = 0
    BY <1>3, <2>1, FS_EmptySet
  <2>3. \A b \in Blocks : b > cursor
    BY <1>3, <1>4
  <2>4. cursor \in 0..Len(items)
    BY <1>3, <1>4
  <2>5. QED BY <1>3, <1>5, <2>2, <2>3, <2>4 DEF ReaderInv
<1>7. ParsedInv
  BY <1>5 DEF ParsedInv, ParsedAs
<1>8. UnfoldInv
  BY <1>3, <1>4, <1>5 DEF UnfoldInv
<1>9. SeenFrames = {} /\ Emitted = {} /\ StatsDone = {}
  <2>1. SeenFrames = {}
    <3>1. SUFFICES ASSUME NEW e \in AllEvents PROVE e \notin SeenFrames
      BY DEF SeenFrames
    <3>2. e[1] \in Blocks /\ e[1] # parent
      BY <1>3, <1>4, EventShape
    <3>3. QED BY <1>5, <3>2 DEF SeenFrames, Past
  <2>2. StatsDone = {}
    BY <1>3, <1>5 DEF StatsDone, Past
  <2>3. QED BY <2>1, <2>2 DEF Emitted
<1>10. EventsInFlight = {} /\ DoneEvents = {}
  BY <1>3, <1>9 DEF EventsInFlight, DoneEvents
<1>11. HandsInv
  BY <1>3 DEF HandsInv
<1>12. WorkerTypes
  BY <1>3 DEF WorkerTypes, Tables
<1>13. Filled = {} /\ \A w \in Workers : InCluster(w) = {}
  <2>1. \A w \in Workers : InCluster(w) = {}
    <3>1. SUFFICES ASSUME NEW w \in Workers, NEW r \in AllRows PROVE r \notin Range(cluster[w][r[1]])
      BY DEF InCluster
    <3>2. cluster[w][r[1]] = <<>>
      BY <1>3, <1>6, RowTypes
    <3>3. QED BY <3>2 DEF Range
  <2>2. QED BY <1>3, <2>1 DEF Filled
<1>14. RowInv
  <2>1. ClustersInv
    <3>1. ASSUME NEW w \in Workers, NEW t \in Tables
          PROVE  cluster[w][t] = <<>> /\ DOMAIN cluster[w][t] = {}
      BY <1>3
    <3>2. QED BY <1>3, <3>1 DEF ClustersInv, Distinct
  <2>2. OncePlaced
    BY <1>3, <1>13 DEF OncePlaced
  <2>3. \A w \in Workers : todo[w] = <<>> /\ DOMAIN todo[w] = {} /\ pc[w] = "idle"
    BY <1>3
  <2>4. FilledInv
    BY <1>10, <1>13, <2>3 DEF FilledInv, Distinct, RowsToDo, Range
  <2>5. QED BY <2>1, <2>2, <2>4 DEF RowInv
<1>15. IsFiniteSet({}) /\ Cardinality({}) = 0
  BY FS_EmptySet
<1>16. TotalsInv
  <2>1. m_parse_stats \in Seq(Blocks) /\ Len(m_parse_stats) = 0 /\ Range(m_parse_stats) = {}
    BY <1>3 DEF Range
  <2>2. QED BY <1>3, <1>9, <1>15, <2>1 DEF TotalsInv
<1>17. WrittenInv
  <2>1. \A t \in Tables : DoneRows(t) = {} /\ m_written[t] = 0
    BY <1>3, <1>10 DEF DoneRows
  <2>2. QED BY <1>10, <1>15, <2>1 DEF WrittenInv, Tables
<1>18. ClosedInv
  BY <1>3 DEF ClosedInv
<1>19. QED BY <1>2, <1>6, <1>7, <1>8, <1>11, <1>12, <1>14, <1>16, <1>17, <1>18 DEF IndInv, PipeInv

(* The pipeline keeps each frame and each row in one place: for all lists  *)
(* of files, modes, pool sizes and numbers of workers.                     *)
THEOREM PipeInvariant == Spec => []IndInv
<1>1. QED BY PipeInit, PipeStep, PTL DEF Spec

-----------------------------------------------------------------------------
(* The totals are those that the code logs and the headers promise.        *)
LEMMA TotalsAgree == IndInv => NoBlockLost
<1>1. SUFFICES ASSUME IndInv PROVE NoBlockLost
  OBVIOUS
<1>2. /\ BodyInv /\ ReaderInv /\ HandsInv /\ WorkerTypes /\ TotalsInv /\ WrittenInv /\ ClosedInv
  BY <1>1 DEF IndInv, PipeInv
<1>3. m_frames_emitted = m_written["frames"] + Cardinality(EventsInFlight)
  <2>1. EventsInFlight \subseteq Emitted /\ IsFiniteSet(Emitted) /\ Cardinality(Emitted) \in Nat
    BY <1>2, InFlightMoves, FramesFinite
  <2>2. Emitted \cap EventsInFlight = EventsInFlight /\ IsFiniteSet(EventsInFlight)
    BY <1>2, <2>1 DEF WrittenInv
  <2>3. Cardinality(Emitted \ EventsInFlight) = Cardinality(Emitted) - Cardinality(Emitted \cap EventsInFlight)
    BY <2>1, FS_Difference
  <2>4. Cardinality(EventsInFlight) \in Nat
    BY <2>2, FS_CardinalityType
  <2>5. m_frames_emitted = Cardinality(Emitted) /\ m_written["frames"] = Cardinality(Emitted \ EventsInFlight)
    BY <1>2 DEF TotalsInv, WrittenInv, DoneEvents
  <2>6. QED BY <2>1, <2>2, <2>3, <2>4, <2>5
<1>4. ASSUME closed
      PROVE  /\ \A b \in Blocks : slice[b].where = "recycled"
             /\ truncated = Cardinality({i \in DOMAIN items : items[i].kind = "cut"})
             /\ Len(m_parse_stats) = Cardinality(Blocks)
             /\ Range(m_parse_stats) = Blocks
             /\ m_frames_seen = IF parse = "off" THEN 0 ELSE Cardinality(AllEvents)
             /\ \A t \in Tables : m_written[t] = RowsInFile(t)
  <2>1. /\ source = "finished" /\ EventsInFlight = {}
        /\ \A b \in Blocks : slice[b].where = "recycled"
        /\ \A r \in AllRows : file[r] > 0 <=> EventOf(r) \in Emitted
    BY <1>2, <1>4 DEF ClosedInv
  <2>2. truncated = Cardinality({i \in DOMAIN items : items[i].kind = "cut"})
    <3>1. DOMAIN items = 1..Len(items) /\ Len(items) \in Nat
      BY <1>2, InputsTyped DEF ReaderInv
    <3>2. cursor = Len(items) /\ truncated = Cardinality(CutsTo(cursor))
      BY <1>2, <2>1 DEF ReaderInv
    <3>3. CutsTo(Len(items)) = {i \in DOMAIN items : items[i].kind = "cut"}
      BY <3>1 DEF CutsTo
    <3>4. QED BY <3>2, <3>3
  <2>3. /\ SeenFrames = IF parse = "off" THEN {} ELSE AllEvents
        /\ StatsDone = Blocks
    BY <1>2, <2>1, AllPast DEF Past
  <2>4. /\ Len(m_parse_stats) = Cardinality(Blocks) /\ Range(m_parse_stats) = Blocks
        /\ m_frames_seen = IF parse = "off" THEN 0 ELSE Cardinality(AllEvents)
    BY <1>2, <2>3 DEF TotalsInv
  <2>5. ASSUME NEW t \in Tables PROVE m_written[t] = RowsInFile(t)
    <3>1. DoneRows(t) = {r \in AllRows : r[1] = t /\ file[r] > 0}
      BY <2>1 DEF DoneRows, DoneEvents
    <3>2. QED BY <1>2, <3>1 DEF WrittenInv, RowsInFile
  <2>6. QED BY <2>1, <2>2, <2>4, <2>5
<1>5. QED BY <1>3, <1>4 DEF NoBlockLost

(* No block and no frame is lost between reader, unfolder and writer, and  *)
(* the totals that they log agree (EvioSroBlockSource, SroFrameUnfolder    *)
(* and SroRNTupleWriter::Finish): for all lists of files, modes, pool      *)
(* sizes, numbers of workers and cluster sizes.                            *)
THEOREM BlocksAccounted == Spec => []NoBlockLost
<1>1. QED BY PipeInvariant, TotalsAgree, PTL

-----------------------------------------------------------------------------
(* The rows that are to be written are those of the frames to write.       *)
LEMMA WhatToWrite ==
    ASSUME ReaderInv, NEW r
    PROVE  r \in RowsToWrite <=> r \in AllRows /\ EventOf(r) \in ToWrite
<1>1. RowsToWrite = UNION {Range(RowsOf(e)) : e \in ToWrite}
  BY DEF RowsToWrite, ToWrite
<1>2. \A e \in ToWrite : e \in AllEvents
  BY DEF ToWrite
<1>3. ASSUME NEW e \in AllEvents PROVE Range(RowsOf(e)) = {s \in AllRows : EventOf(s) = e}
  BY RowsOfEvent
<1>4. QED BY <1>1, <1>2, <1>3

(* A step adds rows to the file, closes it with all rows, or leaves it.    *)
LEMMA WritesMore ==
    ASSUME IndInv, IndInv', [Next]_vars
    PROVE  [Output!Commit \/ Output!Close]_Output!vars
<1>1. /\ BodyInv /\ ReaderInv /\ ParsedInv /\ UnfoldInv /\ HandsInv /\ WorkerTypes
      /\ closed \/ RowInv
      /\ ClosedInv /\ WorkerTypes' /\ (closed \/ RowInv)'
  BY DEF IndInv, PipeInv
<1>2. /\ items' = items /\ parse' = parse /\ AllRows' = AllRows /\ AllEvents' = AllEvents
      /\ \A e : FrameOf(e)' = FrameOf(e) /\ RowsOf(e)' = RowsOf(e)
  BY SameInput
<1>3. RowsToWrite' = RowsToWrite /\ ToWrite' = ToWrite
  BY <1>2 DEF RowsToWrite, ToWrite
<1>4. DOMAIN file = AllRows /\ DOMAIN file' = AllRows
  BY <1>1, <1>2 DEF WorkerTypes
<1>5. CASE closed
  <2>1. UNCHANGED vars
    BY <1>1, <1>5, ClosedIsFinal
  <2>2. UNCHANGED Output!vars
    BY <1>3, <2>1 DEF Output!vars, vars, outVars
  <2>3. QED BY <2>2
<1>6. CASE ~closed /\ ~Finish
  <2>1. closed' = closed /\ RowInv' /\ Grown
    <3>1. closed' = closed
      BY <1>6, StaysOpen
    <3>2. RowInv /\ ~closed'
      BY <1>1, <1>6, <3>1
    <3>3. QED BY <1>1, <1>6, <3>1, <3>2, RowsKeep
  <2>2. ASSUME NEW r \in AllRows, file'[r] > 0 PROVE r \in RowsToWrite
    <3>1. r \in Filled'
      BY <1>2, <2>2 DEF Filled
    <3>2. EventOf(r)' \in Emitted'
      BY <2>1, <3>1 DEF RowInv, FilledInv
    <3>3. EventOf(r) \in ToWrite
      BY <1>2, <3>2 DEF Emitted, SeenFrames, ToWrite, EventOf
    <3>4. QED BY <1>1, <3>3, WhatToWrite
  <2>3. Output!Grows
    BY <1>3, <1>4, <2>1, <2>2 DEF Output!Grows, Output!InFile, Grown
  <2>4. QED BY <1>6, <2>1, <2>3 DEF Output!Commit
<1>7. CASE ~closed /\ Finish
  <2>1. /\ Grown /\ closed'
        /\ \A b \in Blocks : slice[b].where = "recycled"
        /\ \A r \in AllRows : file'[r] > 0 <=> EventOf(r) \in Emitted
    BY <1>1, <1>7, FinishCloses
  <2>2. Emitted = ToWrite
    BY <1>1, <2>1, AllPast DEF Past
  <2>3. \A r \in AllRows : file'[r] > 0 <=> r \in RowsToWrite
    BY <1>1, <2>1, <2>2, WhatToWrite
  <2>4. Output!InFile' = RowsToWrite
    <3>1. \A r \in RowsToWrite : r \in AllRows
      BY <1>1, WhatToWrite
    <3>2. QED BY <1>4, <2>3, <3>1 DEF Output!InFile
  <2>5. Output!Grows
    BY <1>3, <1>4, <2>1, <2>4 DEF Output!Grows, Grown
  <2>6. QED BY <1>3, <1>7, <2>1, <2>4, <2>5 DEF Output!Close
<1>8. QED BY <1>5, <1>6, <1>7

(* The pipeline implements RowsWritten: each row of a frame that passes    *)
(* the finder comes to the output file once, whatever worker's cluster it  *)
(* was in, none of another frame does, and the file is closed only when    *)
(* all of them are in it (SroRNTupleWriter::ProcessParallel and Finish).   *)
THEOREM PipelineRefinesRowsWritten == Spec => ImplementsRowsWritten
<1>1. Init => Output!Init
  <2>1. SUFFICES ASSUME Init PROVE Output!InFile = {} /\ closed = FALSE
    BY DEF Output!Init
  <2>2. file = [r \in AllRows |-> 0] /\ closed = FALSE
    BY <2>1 DEF Init
  <2>3. QED BY <2>2 DEF Output!InFile
<1>2. IndInv /\ IndInv' /\ [Next]_vars => [Output!Commit \/ Output!Close]_Output!vars
  BY WritesMore
<1>3. QED BY <1>1, <1>2, PipeInvariant, PTL DEF Spec, ImplementsRowsWritten, Output!Spec
---------------------------------------------------

-----------------------------------------------------------------------------
(* What the variables of the parser hold.                                  *)
Positions   == 0..Size
FrameRec == [number : Nat, firstFadc : Nat, nFadc : Nat, firstDcrb : Nat, nDcrb : Nat,
             firstDeferred : Nat, nDeferred : Nat]
OpenRec  == [number : Nat, firstFadc : Nat, firstDcrb : Nat, firstDeferred : Nat]
DeferRec == [pos : Positions, limit : Positions]

IsSequence(v) == v \in Seq(Range(v))
HasHits(s) ==
    s = [fadc |-> s.fadc, dcrb |-> s.dcrb] /\ IsSequence(s.fadc) /\ IsSequence(s.dcrb)

TypeOK ==
    /\ words \in Seq(Word)
    /\ level \in {"set", "roc", "payload", "parsed", "deferred", "done"}
    /\ pos \in Positions /\ setEnd \in Positions /\ rocPos \in Positions /\ payPos \in Positions
    /\ roc.start \in Nat /\ roc.end \in Positions
    /\ frame \in OpenRec /\ frames \in Seq(FrameRec)
    /\ deferred \in Seq(DeferRec)
    /\ HasHits(sink) /\ HasHits(hits)
    /\ nextDeferred \in Nat
    /\ IsSequence(decoded)

(* Sets are walked, and one is open; a deferred bank is decoded for a      *)
(* frame there is.                                                         *)
Walking == level \in {"set", "roc", "payload"} /\ ~Deferring
InSet   == level \in {"roc", "payload"} /\ ~Deferring
Levels ==
    /\ level \in {"set", "roc", "parsed", "done"} => ~Deferring
    /\ level = "deferred" => Deferring
    /\ Deferring => Len(decoded) < Len(frames)

(* The slices there are follow one another up to start, hold the hits      *)
(* before it, and end inside them; those from start on are of frame open.  *)
Sliced(fs, v, first, n, start) ==
    /\ Follows(fs, first, n, start)
    /\ \A f \in DOMAIN fs : fs[f][first] + fs[f][n] <= start
    /\ start <= Len(v)
OfOpen(fs, v, start) ==
    \A k \in DOMAIN v : start < k => v[k].frame = Len(fs) + 1

Fadc == IF Walking THEN sink.fadc ELSE hits.fadc
Dcrb == IF Walking THEN sink.dcrb ELSE hits.dcrb
SlicesUpTo(fadc, dcrb, def) ==
    /\ Sliced(frames, Fadc, "firstFadc", "nFadc", fadc)
    /\ Sliced(frames, Dcrb, "firstDcrb", "nDcrb", dcrb)
    /\ Sliced(frames, deferred, "firstDeferred", "nDeferred", def)
    /\ InSlice(frames, Fadc, "firstFadc", "nFadc")
    /\ InSlice(frames, Dcrb, "firstDcrb", "nDcrb")
    /\ OfOpen(frames, Fadc, fadc)
    /\ OfOpen(frames, Dcrb, dcrb)
SlicesInv ==
    /\ InSet => SlicesUpTo(frame.firstFadc, frame.firstDcrb, frame.firstDeferred)
    /\ ~InSet => SlicesUpTo(Len(Fadc), Len(Dcrb), Len(deferred))

PartitionInv == TypeOK /\ Levels /\ SlicesInv

-----------------------------------------------------------------------------
(* Slices of sequences.                                                    *)

(* Where a slice begins and how long it is, of all the kinds of slices.    *)
Kinds == {<<"firstFadc", "nFadc">>, <<"firstDcrb", "nDcrb">>, <<"firstDeferred", "nDeferred">>}
IsKind(first, n) == <<first, n>> \in Kinds

LEMMA KindFields ==
    ASSUME NEW first, NEW n, IsKind(first, n), NEW r \in FrameRec
    PROVE  r[first] \in Nat /\ r[n] \in Nat
<1>1. CASE first = "firstFadc" /\ n = "nFadc"
  BY <1>1 DEF FrameRec
<1>2. CASE first = "firstDcrb" /\ n = "nDcrb"
  BY <1>2 DEF FrameRec
<1>3. CASE first = "firstDeferred" /\ n = "nDeferred"
  BY <1>3 DEF FrameRec
<1>4. QED BY <1>1, <1>2, <1>3 DEF IsKind, Kinds

(* A sequence that goes on leaves the slices before as they are.           *)
LEMMA SlicedInLonger ==
    ASSUME NEW S, NEW v \in Seq(S), NEW w \in Seq(S), Len(v) <= Len(w),
           NEW fs, NEW first, NEW n, NEW start \in Nat, Sliced(fs, v, first, n, start)
    PROVE  Sliced(fs, w, first, n, start)
<1>1. Len(v) \in Nat /\ Len(w) \in Nat
  OBVIOUS
<1>2. start <= Len(w)
  BY <1>1 DEF Sliced
<1>3. QED BY <1>2 DEF Sliced

LEMMA HitsInLonger ==
    ASSUME NEW S, NEW v \in Seq(S), NEW w \in Seq(S), Len(v) <= Len(w),
           \A k \in DOMAIN v : w[k] = v[k],
           NEW fs \in Seq(FrameRec), \A k \in DOMAIN w : Len(v) < k => w[k].frame = Len(fs) + 1,
           NEW first, NEW n, IsKind(first, n),
           NEW start \in Nat, Sliced(fs, v, first, n, start),
           InSlice(fs, v, first, n), OfOpen(fs, v, start)
    PROVE  InSlice(fs, w, first, n) /\ OfOpen(fs, w, start)
<1>1. Len(v) \in Nat /\ Len(w) \in Nat /\ DOMAIN v = 1..Len(v) /\ DOMAIN w = 1..Len(w)
  OBVIOUS
<1>2. ASSUME NEW f \in DOMAIN fs, NEW k \in 1..fs[f][n] PROVE w[fs[f][first] + k].frame = f
  <2>1. fs[f] \in FrameRec
    OBVIOUS
  <2>2. fs[f][first] \in Nat /\ fs[f][n] \in Nat
    BY <2>1, KindFields
  <2>3. fs[f][first] + fs[f][n] <= start /\ start <= Len(v)
    BY DEF Sliced
  <2>4. fs[f][first] + k \in DOMAIN v
    BY <1>1, <2>2, <2>3
  <2>5. QED BY <2>4, <1>2 DEF InSlice
<1>3. ASSUME NEW k \in DOMAIN w, start < k PROVE w[k].frame = Len(fs) + 1
  <2>1. CASE k \in DOMAIN v
    BY <2>1, <1>3 DEF OfOpen
  <2>2. CASE k \notin DOMAIN v
    <3>1. Len(v) < k
      BY <1>1, <2>2
    <3>2. QED BY <3>1
  <2>3. QED BY <2>1, <2>2
<1>4. QED BY <1>2, <1>3 DEF InSlice, OfOpen

(* The set is closed: its slice goes from where it was opened to the end.  *)
LEMMA SlicedWithOneMore ==
    ASSUME NEW S, NEW v \in Seq(S), NEW fs \in Seq(FrameRec), NEW x \in FrameRec,
           NEW first, NEW n, IsKind(first, n),
           Sliced(fs, v, first, n, x[first]), x[first] + x[n] = Len(v)
    PROVE  Sliced(Append(fs, x), v, first, n, Len(v))
<1> DEFINE m == Len(fs)
           gs == Append(fs, x)
<1>1. m \in Nat /\ DOMAIN fs = 1..m /\ DOMAIN gs = 1..(m + 1) /\ Len(gs) = m + 1
  OBVIOUS
<1>0. gs # <<>>
  BY <1>1
<1>2. (\A f \in 1..m : gs[f] = fs[f]) /\ gs[m + 1] = x
  BY AppendIndex, <1>1
<1>3. (fs = <<>>) = (m = 0)
  OBVIOUS
<1>4. Len(v) \in Nat /\ x[first] \in Nat /\ x[n] \in Nat
  BY KindFields
<1>5. \A f \in 1..m : fs[f] \in FrameRec
  OBVIOUS
<1>6. \A f \in 1..m : fs[f][first] \in Nat /\ fs[f][n] \in Nat
  BY <1>5, KindFields
<1> HIDE DEF m, gs
<1>7. ASSUME NEW f \in 1..(m + 1)
      PROVE  /\ gs[f][first] = IF f = 1 THEN 0 ELSE gs[f - 1][first] + gs[f - 1][n]
             /\ gs[f][first] + gs[f][n] <= Len(v)
  <2>1. CASE f \in 1..m
    <3>1. f = 1 \/ (f - 1 \in 1..m /\ gs[f - 1] = fs[f - 1])
      BY <1>1, <1>2, <2>1
    <3>2. fs[f][first] = IF f = 1 THEN 0 ELSE fs[f - 1][first] + fs[f - 1][n]
      BY <1>1, <2>1 DEF Sliced, Follows
    <3>3. gs[f][first] = IF f = 1 THEN 0 ELSE gs[f - 1][first] + gs[f - 1][n]
      BY <3>1, <3>2, <1>2, <2>1
    <3>4. fs[f][first] + fs[f][n] <= x[first]
      BY <1>1, <2>1 DEF Sliced
    <3>5. gs[f] = fs[f] /\ x[first] <= Len(v)
      BY <1>2, <1>4, <2>1
    <3>6. fs[f][first] + fs[f][n] <= Len(v)
      BY <3>4, <3>5, <1>4, <1>6, <2>1
    <3>7. QED BY <3>3, <3>5, <3>6
  <2>2. CASE f = m + 1
    <3>1. x[first] = IF fs = <<>> THEN 0 ELSE fs[m][first] + fs[m][n]
      BY DEF Sliced, Follows, m
    <3>2. CASE m = 0
      BY <2>2, <3>1, <3>2, <1>2, <1>3, <1>4
    <3>3. CASE m # 0
      <4>1. f - 1 = m /\ m \in 1..m /\ f # 1
        BY <2>2, <3>3, <1>1
      <4>2. gs[f - 1] = fs[m]
        BY <4>1, <1>2
      <4>3. x[first] = gs[f - 1][first] + gs[f - 1][n]
        BY <3>1, <3>3, <1>3, <4>2
      <4>4. QED BY <4>1, <4>3, <2>2, <1>2, <1>4
    <3>4. QED BY <3>2, <3>3
  <2>3. QED BY <2>1, <2>2, <1>1
<1>8. Len(v) = IF gs = <<>> THEN 0 ELSE gs[Len(gs)][first] + gs[Len(gs)][n]
  BY <1>1, <1>2, <1>0
<1>9. Follows(gs, first, n, Len(v))
  BY <1>7, <1>8, <1>1 DEF Follows
<1>10. Sliced(gs, v, first, n, Len(v))
  BY <1>7, <1>9, <1>1, <1>4 DEF Sliced
<1>11. QED BY <1>10 DEF gs

LEMMA HitsWithOneMore ==
    ASSUME NEW S, NEW v \in Seq(S), NEW fs \in Seq(FrameRec), NEW x \in FrameRec,
           NEW first, NEW n, IsKind(first, n), x[first] + x[n] = Len(v),
           InSlice(fs, v, first, n), OfOpen(fs, v, x[first])
    PROVE  InSlice(Append(fs, x), v, first, n) /\ OfOpen(Append(fs, x), v, Len(v))
<1> DEFINE m == Len(fs)
           gs == Append(fs, x)
<1>1. m \in Nat /\ DOMAIN fs = 1..m /\ DOMAIN gs = 1..(m + 1)
  OBVIOUS
<1>2. (\A f \in 1..m : gs[f] = fs[f]) /\ gs[m + 1] = x
  BY AppendIndex, <1>1
<1>3. Len(v) \in Nat /\ DOMAIN v = 1..Len(v) /\ x[first] \in Nat /\ x[n] \in Nat
  BY KindFields
<1> HIDE DEF gs
<1>4. ASSUME NEW f \in 1..(m + 1), NEW k \in 1..gs[f][n] PROVE v[gs[f][first] + k].frame = f
  <2>1. CASE f \in 1..m
    BY <2>1, <1>1, <1>2, <1>4 DEF InSlice
  <2>2. CASE f = m + 1
    <3>1. gs[f] = x
      BY <2>2, <1>2
    <3>2. k \in 1..x[n]
      BY <3>1, <1>4
    <3>3. x[first] + k \in DOMAIN v /\ x[first] < x[first] + k
      BY <3>2, <1>3
    <3>4. v[x[first] + k].frame = m + 1
      BY <3>3 DEF OfOpen
    <3>5. QED BY <3>1, <3>4, <2>2
  <2>3. QED BY <2>1, <2>2, <1>1
<1>5. InSlice(gs, v, first, n)
  BY <1>4, <1>1 DEF InSlice
<1>6. OfOpen(gs, v, Len(v))
  BY <1>3 DEF OfOpen
<1>7. QED BY <1>5, <1>6 DEF gs

-----------------------------------------------------------------------------
(* A bank that reads lies inside its limit, and its words inside the block. *)
LEMMA BankInside ==
    ASSUME TypeOK, NEW p \in Nat, NEW limit \in Positions, BankReads(p, limit)
    PROVE  /\ Bank(p).start = p + 2 /\ Bank(p).start \in Nat
           /\ Bank(p).end \in Positions /\ Bank(p).end <= limit
           /\ NoneWraps => Bank(p).start <= Bank(p).end
<1>1. Size \in Nat /\ DOMAIN words = 1..Size /\ limit <= Size /\ limit \in Nat
  BY DEF TypeOK, Size, Positions
<1>2. p + 2 <= limit /\ At(p).len >= 1 /\ BankEnd(p) <= limit
  BY DEF BankReads
<1>3. p + 1 \in DOMAIN words
  BY <1>1, <1>2
<1>4. At(p) \in Word
  BY <1>3 DEF At, TypeOK
<1>5. At(p).len \in Nat
  BY <1>4 DEF Word
<1>6. p + 1 + At(p).len \in Nat
  BY <1>5
<1>7. BankEnd(p) \in Nat
  <2>1. Modulus \in Nat \ {0}
    BY SroParserAssumption
  <2> DEFINE s == p + 1 + At(p).len
  <2>2. BankEnd(p) = s % Modulus
    BY DEF BankEnd
  <2>3. s \in Nat
    BY <1>6
  <2> HIDE DEF s
  <2>4. s % Modulus \in 0..(Modulus - 1)
    BY ONLY <2>1, <2>3
  <2>5. QED BY ONLY <2>1, <2>2, <2>4
<1>8. BankEnd(p) \in Positions
  BY <1>1, <1>2, <1>7 DEF Positions
<1>9. ASSUME NoneWraps PROVE p + 2 <= BankEnd(p)
  <2>1. Size + At(p).len < Modulus
    BY <1>3, <1>9 DEF NoneWraps, At
  <2> DEFINE s == p + 1 + At(p).len
  <2>2. s \in Nat /\ s < Modulus /\ p + 2 <= s /\ Modulus \in Nat \ {0}
    BY <2>1, <1>1, <1>2, <1>5, SroParserAssumption
  <2>3. BankEnd(p) = s % Modulus
    BY DEF BankEnd
  <2> HIDE DEF s
  <2>4. s % Modulus = s
    BY ONLY <2>2
  <2>5. QED BY ONLY <2>2, <2>3, <2>4
<1>10. Bank(p).start = p + 2 /\ Bank(p).end = BankEnd(p)
  BY DEF Bank
<1>11. QED BY <1>2, <1>5, <1>8, <1>9, <1>10

(* The first thing in a ROC bank is read: the payloads begin inside it.    *)
LEMMA InfoInside ==
    ASSUME TypeOK, NEW bank, bank.start \in Nat, bank.end \in Positions, InfoReads(bank)
    PROVE  /\ Bank(bank.start).end \in Positions
           /\ Bank(bank.start).end <= bank.end
           /\ NoneWraps => bank.start <= Bank(bank.start).end
<1>1. BankReads(bank.start, bank.end)
  BY DEF InfoReads
<1>2. /\ Bank(bank.start).start = bank.start + 2
      /\ Bank(bank.start).end \in Positions /\ Bank(bank.start).end <= bank.end
      /\ NoneWraps => Bank(bank.start).start <= Bank(bank.start).end
  BY <1>1, BankInside
<1>3. Bank(bank.start).end \in Int
  BY <1>2 DEF Positions, Size, TypeOK
<1>4. QED BY <1>2, <1>3

(* What parsing a ROC bank up to its payloads may do.                       *)
LEMMA RocParsed ==
    ASSUME TypeOK, NEW bank, bank = Bank(bank.start - 2),
           bank.start \in Nat, bank.end \in Positions,
           ParseRocBank(bank)
    PROVE  \/ UNCHANGED <<level, rocVars>>
           \/ /\ level' = "payload" /\ roc' = bank
              /\ payPos' \in Positions /\ payPos' <= bank.end
              /\ NoneWraps => bank.start <= payPos'
<1>1. CASE UNCHANGED <<level, rocVars>>
  BY <1>1
<1>2. CASE InfoReads(bank) /\ level' = "payload" /\ roc' = bank /\ payPos' = Bank(bank.start).end
  BY <1>2, InfoInside
<1>3. QED BY <1>1, <1>2 DEF ParseRocBank

-----------------------------------------------------------------------------
(* Sequences.                                                              *)
LEMMA SequenceOf ==
    ASSUME NEW S, NEW v \in Seq(S)
    PROVE  IsSequence(v)
<1>1. Len(v) \in Nat /\ DOMAIN v = 1..Len(v)
  OBVIOUS
<1>2. v = [k \in 1..Len(v) |-> v[k]]
  OBVIOUS
<1>3. \A k \in 1..Len(v) : v[k] \in Range(v)
  BY <1>1 DEF Range
<1>4. QED BY <1>1, <1>2, <1>3 DEF IsSequence

LEMMA SequenceOn ==
    ASSUME NEW m \in Int, NEW g, g = [k \in 1..m |-> g[k]]
    PROVE  IsSequence(g) /\ DOMAIN g = 1..m
<1>1. DOMAIN g = 1..m
  OBVIOUS
<1>2. \A k \in 1..m : g[k] \in Range(g)
  BY <1>1 DEF Range
<1>3. g \in Seq(Range(g))
  BY <1>2
<1>4. QED BY <1>1, <1>3 DEF IsSequence

LEMMA SequencesJoin ==
    ASSUME NEW v, NEW w, IsSequence(v), IsSequence(w)
    PROVE  /\ IsSequence(v \o w) /\ Len(v) \in Nat /\ Len(w) \in Nat
           /\ Len(v \o w) = Len(v) + Len(w)
           /\ \A k \in DOMAIN v : (v \o w)[k] = v[k]
           /\ \E S : v \in Seq(S) /\ v \o w \in Seq(S)
<1> DEFINE S == Range(v) \cup Range(w)
<1>1. v \in Seq(S) /\ w \in Seq(S)
  <2>1. v \in Seq(Range(v)) /\ w \in Seq(Range(w))
    BY DEF IsSequence
  <2> DEFINE A == Range(v)
             B == Range(w)
  <2> HIDE DEF A, B
  <2>2. \A x \in Seq(A) : x \in Seq(A \cup B)
    OBVIOUS
  <2>3. \A x \in Seq(B) : x \in Seq(A \cup B)
    OBVIOUS
  <2>4. QED BY <2>1, <2>2, <2>3 DEF A, B
<1> HIDE DEF S
<1>2. v \o w \in Seq(S) /\ Len(v) \in Nat /\ Len(w) \in Nat /\ Len(v \o w) = Len(v) + Len(w)
      /\ DOMAIN v = 1..Len(v)
  BY <1>1
<1>3. \A k \in DOMAIN v : (v \o w)[k] = v[k]
  BY <1>1, ConcatIndex
<1>4. IsSequence(v \o w)
  BY <1>2, SequenceOf
<1>5. QED BY <1>1, <1>2, <1>3, <1>4

LEMMA AddedElements ==
    ASSUME NEW v, NEW w, IsSequence(v), IsSequence(w), NEW k \in DOMAIN (v \o w), Len(v) < k
    PROVE  \E j \in DOMAIN w : (v \o w)[k] = w[j]
<1> DEFINE S == Range(v) \cup Range(w)
<1>1. v \in Seq(S) /\ w \in Seq(S)
  BY DEF IsSequence
<1> HIDE DEF S
<1>2. k \notin DOMAIN v
  BY <1>1
<1>3. PICK j \in DOMAIN w : k = Len(v) + j
  BY <1>1, <1>2, ConcatIndex
<1>4. (v \o w)[Len(v) + j] = w[j]
  BY <1>1, ConcatIndex
<1>5. QED BY <1>3, <1>4

(* The hits of a payload are hits of the frame they are unpacked for.      *)
HitFrame == IF Deferring THEN FrameBeingDecoded ELSE Len(frames) + 1

-----------------------------------------------------------------------------
(* Chains.                                                                 *)
Chain(start, next) ==
    {p \in Nat : \A W \in SUBSET Nat :
        start \in W /\ (\A q \in W \cap DOMAIN next : next[q] \in W) => p \in W}

Forward(next) == \A q \in DOMAIN next : q \in Nat /\ next[q] \in Nat /\ q < next[q]

LEMMA ChainInduction ==
    ASSUME NEW start, NEW next, NEW W \in SUBSET Nat, start \in W,
           \A q \in W \cap DOMAIN next : next[q] \in W
    PROVE  Chain(start, next) \subseteq W
BY DEF Chain

LEMMA ChainGoesOn ==
    ASSUME NEW start \in Nat, NEW next, Forward(next)
    PROVE  /\ start \in Chain(start, next) /\ Chain(start, next) \subseteq Nat
           /\ \A q \in Chain(start, next) \cap DOMAIN next : next[q] \in Chain(start, next)
           /\ \A q \in Chain(start, next) : start <= q
<1> DEFINE C == Chain(start, next)
<1>1. start \in C /\ C \subseteq Nat
  BY DEF Chain
<1>2. ASSUME NEW q \in C \cap DOMAIN next PROVE next[q] \in C
  <2>1. ASSUME NEW W \in SUBSET Nat, start \in W, \A x \in W \cap DOMAIN next : next[x] \in W
        PROVE  next[q] \in W
    <3>1. C \subseteq W
      BY <2>1, ChainInduction
    <3>2. QED BY <1>2, <2>1, <3>1
  <2>2. next[q] \in Nat
    BY <1>2 DEF Forward
  <2>3. QED BY <2>1, <2>2 DEF Chain
<1>3. C \subseteq {q \in Nat : start <= q}
  <2> DEFINE W == {q \in Nat : start <= q}
  <2>1. start \in W /\ \A q \in W \cap DOMAIN next : next[q] \in W
    BY DEF Forward
  <2>2. W \in SUBSET Nat
    OBVIOUS
  <2> HIDE DEF W
  <2>3. C \subseteq W
    BY <2>1, <2>2, ChainInduction
  <2>4. QED BY <2>3 DEF W
<1>4. QED BY <1>1, <1>2, <1>3

(* Nothing of a chain is between a place and its next.                     *)
LEMMA ChainHasNoGap ==
    ASSUME NEW start \in Nat, NEW next, Forward(next),
           NEW p \in Chain(start, next), NEW q \in Chain(start, next), q < p
    PROVE  q \in DOMAIN next /\ next[q] <= p
<1> DEFINE C == Chain(start, next)
           AllPassed(x) == \A y \in C : y < x => y \in DOMAIN next /\ next[y] <= x
           W == {x \in C : AllPassed(x)}
<1>1. /\ start \in C /\ C \subseteq Nat /\ (\A y \in C : start <= y)
      /\ \A y \in C \cap DOMAIN next : next[y] \in C
  BY ChainGoesOn
<1> HIDE DEF C
<1>2. start \in W
  BY <1>1
<1>3. ASSUME NEW x \in W \cap DOMAIN next PROVE next[x] \in W
  <2> DEFINE z == next[x]
             V == {y \in C : y <= x \/ z <= y}
  <2>1. x \in C /\ AllPassed(x) /\ z \in C /\ x < z /\ x \in Nat /\ z \in Nat
    BY <1>1, <1>3 DEF Forward
  <2>2. start \in V
    BY <1>1, <2>1
  <2>3. ASSUME NEW y \in V \cap DOMAIN next PROVE next[y] \in V
    <3>1. y \in C /\ y \in Nat /\ next[y] \in C /\ y < next[y] /\ next[y] \in Nat
      BY <1>1, <2>3 DEF Forward
    <3>2. CASE y = x
      BY <3>1, <3>2
    <3>3. CASE y < x
      BY <2>1, <3>1, <3>3
    <3>4. CASE z <= y
      BY <2>1, <3>1, <3>4
    <3>5. QED BY <2>1, <2>3, <3>1, <3>2, <3>3, <3>4
  <2>4. V \in SUBSET Nat
    BY <1>1
  <2> HIDE DEF V
  <2>5. C \subseteq V
    BY <2>2, <2>3, <2>4, ChainInduction DEF C
  <2>6. ASSUME NEW y \in C, y < z PROVE y \in DOMAIN next /\ next[y] <= z
    <3>1. y \in Nat /\ (y <= x \/ z <= y)
      BY <1>1, <2>5 DEF V
    <3>2. CASE y = x
      BY <1>3, <2>1, <3>2
    <3>3. CASE y < x
      <4>1. y \in DOMAIN next /\ next[y] <= x
        BY <2>1, <3>3
      <4>2. next[y] \in Nat
        BY <4>1 DEF Forward
      <4>3. QED BY <2>1, <4>1, <4>2
    <3>4. QED BY <2>1, <2>6, <3>1, <3>2, <3>3
  <2>7. QED BY <2>1, <2>6
<1>4. W \in SUBSET Nat
  BY <1>1
<1> HIDE DEF W
<1>5. C \subseteq W
  BY <1>2, <1>3, <1>4, ChainInduction DEF C
<1>6. p \in W /\ q \in C
  BY <1>5 DEF C
<1>7. QED BY <1>6 DEF W

(* What is before the next place of p is before p, or p.                   *)
Before(p) == {q \in Nat : q < p}

LEMMA ChainStep ==
    ASSUME NEW start \in Nat, NEW next, Forward(next), NEW p \in Chain(start, next) \cap DOMAIN next
    PROVE  /\ Chain(start, next) \cap Before(next[p]) = (Chain(start, next) \cap Before(p)) \cup {p}
           /\ next[p] \in Chain(start, next)
<1> DEFINE C == Chain(start, next)
<1>1. /\ C \subseteq Nat /\ next[p] \in C /\ p \in Nat /\ next[p] \in Nat /\ p < next[p]
  BY ChainGoesOn DEF Forward
<1>2. \A q \in C : p < q => next[p] <= q
  BY ChainHasNoGap
<1> HIDE DEF C
<1>3. \A q \in C : q < next[p] <=> q < p \/ q = p
  BY <1>1, <1>2
<1>4. p \in C
  BY DEF C
<1>5. QED BY <1>1, <1>3, <1>4 DEF Before, C

(* Nothing is after a place that has no next.                              *)
LEMMA ChainEnds ==
    ASSUME NEW start \in Nat, NEW next, Forward(next), NEW p \in Chain(start, next), p \notin DOMAIN next
    PROVE  Chain(start, next) \cap DOMAIN next \subseteq Before(p)
<1>1. Chain(start, next) \subseteq Nat
  BY ChainGoesOn
<1>2. \A q \in Chain(start, next) : ~(p < q)
  BY ChainHasNoGap
<1>3. QED BY <1>1, <1>2 DEF Before

-----------------------------------------------------------------------------
(* Sequences that have each thing of a set once.                           *)
Each(v, a, b, H) ==
    /\ {v[k] : k \in a + 1 .. b} = H
    /\ \A j, k \in a + 1 .. b : v[j] = v[k] => j = k

LEMMA EachOfNone == ASSUME NEW v, NEW a \in Int, NEW H PROVE Each(v, a, a, H) <=> H = {}
<1>1. a + 1 .. a = {}
  OBVIOUS
<1>2. QED BY <1>1 DEF Each

LEMMA EachStays ==
    ASSUME NEW v, NEW w, NEW a, NEW b, NEW H, \A k \in a + 1 .. b : w[k] = v[k], Each(v, a, b, H)
    PROVE  Each(w, a, b, H)
BY DEF Each

LEMMA EachLonger ==
    ASSUME NEW v, NEW w, IsSequence(v), IsSequence(w), NEW a \in Nat, a <= Len(v),
           NEW H, Each(v, a, Len(v), H), NEW G, Each(w, 0, Len(w), G), H \cap G = {}
    PROVE  Each(v \o w, a, Len(v \o w), H \cup G)
<1> DEFINE u == v \o w
           n == Len(v)
           m == Len(w)
           S == Range(v) \cup Range(w)
<1>1. v \in Seq(S) /\ w \in Seq(S)
  BY DEF IsSequence
<1> HIDE DEF S
<1>2. n \in Nat /\ m \in Nat /\ Len(u) = n + m /\ DOMAIN v = 1 .. n /\ DOMAIN w = 1 .. m
  BY <1>1
<1>3. (\A k \in 1 .. n : u[k] = v[k]) /\ (\A k \in 1 .. m : u[n + k] = w[k])
  BY <1>1, <1>2, ConcatIndex
<1>4. /\ {v[k] : k \in a + 1 .. n} = H /\ \A j, k \in a + 1 .. n : v[j] = v[k] => j = k
      /\ {w[k] : k \in 1 .. m} = G /\ \A j, k \in 1 .. m : w[j] = w[k] => j = k
  BY DEF Each
<1> HIDE DEF u, n, m
<1>5. \A k \in a + 1 .. n + m : \/ k \in a + 1 .. n /\ u[k] = v[k]
                                \/ k - n \in 1 .. m /\ u[k] = w[k - n]
  <2>1. ASSUME NEW k \in a + 1 .. n + m, k \notin a + 1 .. n
        PROVE  k - n \in 1 .. m /\ u[k] = w[k - n]
    <3>1. k - n \in 1 .. m /\ n + (k - n) = k
      BY <1>2, <2>1
    <3>2. QED BY <1>3, <3>1
  <2>2. \A k \in a + 1 .. n : k \in 1 .. n
    BY <1>2
  <2>3. QED BY <1>3, <2>1, <2>2
<1>6. {u[k] : k \in a + 1 .. n + m} = H \cup G
  <2>1. {u[k] : k \in a + 1 .. n + m} \subseteq H \cup G
    BY <1>4, <1>5
  <2>2. ASSUME NEW x \in H PROVE x \in {u[k] : k \in a + 1 .. n + m}
    <3>1. PICK k \in a + 1 .. n : x = v[k]
      BY <1>4
    <3>2. k \in 1 .. n /\ k \in a + 1 .. n + m
      BY <1>2
    <3>3. QED BY <1>3, <3>1, <3>2
  <2>3. ASSUME NEW x \in G PROVE x \in {u[k] : k \in a + 1 .. n + m}
    <3>1. PICK k \in 1 .. m : x = w[k]
      BY <1>4
    <3>2. n + k \in a + 1 .. n + m
      BY <1>2 DEF n
    <3>3. u[n + k] = x
      BY <1>3, <3>1
    <3>4. QED BY <3>2, <3>3
  <2>4. QED BY <2>1, <2>2, <2>3
<1>7. ASSUME NEW j \in a + 1 .. n + m, NEW k \in a + 1 .. n + m, u[j] = u[k] PROVE j = k
  <2>1. CASE j \in a + 1 .. n /\ u[j] = v[j] /\ k \in a + 1 .. n /\ u[k] = v[k]
    BY <1>4, <1>7, <2>1
  <2>2. CASE j - n \in 1 .. m /\ u[j] = w[j - n] /\ k - n \in 1 .. m /\ u[k] = w[k - n]
    <3>1. j - n = k - n
      BY <1>4, <1>7, <2>2
    <3>2. QED BY <1>2, <3>1
  <2>3. CASE j \in a + 1 .. n /\ u[j] = v[j] /\ k - n \in 1 .. m /\ u[k] = w[k - n]
    <3>1. v[j] \in H /\ w[k - n] \in G
      BY <1>4, <2>3
    <3>2. QED BY <1>7, <2>3, <3>1
  <2>4. CASE k \in a + 1 .. n /\ u[k] = v[k] /\ j - n \in 1 .. m /\ u[j] = w[j - n]
    <3>1. v[k] \in H /\ w[j - n] \in G
      BY <1>4, <2>4
    <3>2. QED BY <1>7, <2>4, <3>1
  <2>5. QED BY <1>5, <2>1, <2>2, <2>3, <2>4
<1>8. Each(u, a, n + m, H \cup G)
  BY <1>6, <1>7 DEF Each
<1>9. QED BY <1>2, <1>8 DEF u

LEMMA EachAppended ==
    ASSUME NEW S, NEW v \in Seq(S), NEW x \in S, NEW a \in Nat, a <= Len(v),
           NEW H, Each(v, a, Len(v), H), x \notin H
    PROVE  Each(Append(v, x), a, Len(Append(v, x)), H \cup {x})
<1>1. <<x>> \in Seq(S) /\ Len(<<x>>) = 1 /\ Append(v, x) = v \o <<x>>
  OBVIOUS
<1>2. IsSequence(v) /\ IsSequence(<<x>>)
  BY <1>1, SequenceOf
<1>3. Each(<<x>>, 0, Len(<<x>>), {x})
  <2>1. 0 + 1 .. 1 = {1} /\ <<x>>[1] = x
    OBVIOUS
  <2>2. QED BY <1>1, <2>1 DEF Each
<1>4. H \cap {x} = {}
  OBVIOUS
<1> DEFINE y == <<x>>
<1> HIDE DEF y
<1>5. Each(v \o y, a, Len(v \o y), H \cup {x})
  BY <1>2, <1>3, <1>4, EachLonger DEF y
<1>6. QED BY <1>1, <1>5 DEF y

LEMMA EachOfSlice ==
    ASSUME NEW v, IsSequence(v), NEW a \in Nat, NEW b \in Nat, b <= Len(v), a <= b,
           NEW H, Each(v, a, b, H)
    PROVE  LET w == SubSeq(v, a + 1, b)
           IN  IsSequence(w) /\ Len(w) = b - a /\ Each(w, 0, Len(w), H)
<1> DEFINE w == SubSeq(v, a + 1, b)
           S == Range(v)
<1>1. v \in Seq(S)
  BY DEF IsSequence
<1> HIDE DEF S
<1>2. w \in Seq(S) /\ Len(w) = b - a /\ \A k \in 1 .. b - a : w[k] = v[a + k]
  BY <1>1
<1>3. IsSequence(w)
  BY <1>2, SequenceOf
<1> HIDE DEF w
<1>4. {v[k] : k \in a + 1 .. b} = H /\ \A j, k \in a + 1 .. b : v[j] = v[k] => j = k
  BY DEF Each
<1>5. \A k \in 1 .. b - a : a + k \in a + 1 .. b
  OBVIOUS
<1>6. {w[k] : k \in 1 .. b - a} = H
  <2>1. \A k \in a + 1 .. b : k - a \in 1 .. b - a /\ a + (k - a) = k
    OBVIOUS
  <2>2. \A k \in a + 1 .. b : w[k - a] = v[k]
    BY <1>2, <2>1
  <2>3. \A k \in 1 .. b - a : w[k] \in H
    BY <1>2, <1>4, <1>5
  <2>4. ASSUME NEW x \in H PROVE x \in {w[k] : k \in 1 .. b - a}
    <3>1. PICK k \in a + 1 .. b : x = v[k]
      BY <1>4
    <3>2. QED BY <2>1, <2>2, <3>1
  <2>5. QED BY <2>3, <2>4
<1>7. ASSUME NEW j \in 1 .. b - a, NEW k \in 1 .. b - a, w[j] = w[k] PROVE j = k
  <2>1. v[a + j] = v[a + k]
    BY <1>2, <1>7
  <2>2. a + j = a + k
    BY <1>4, <1>5, <2>1
  <2>3. QED BY <2>2
<1>8. Each(w, 0, Len(w), H)
  BY <1>2, <1>6, <1>7 DEF Each
<1>9. QED BY <1>2, <1>3, <1>8 DEF w

(* As a bag it is the set.                                                 *)
LEMMA EachIsBag ==
    ASSUME NEW v, IsSequence(v), NEW H, Each(v, 0, Len(v), H)
    PROVE  Range(v) = H /\ ToBag(v) = [x \in H |-> 1]
<1>1. DOMAIN v = 1 .. Len(v)
  BY DEF IsSequence
<1>2. Range(v) = H
  BY <1>1 DEF Each, Range
<1>3. ASSUME NEW x \in H PROVE Cardinality({k \in DOMAIN v : v[k] = x}) = 1
  <2>1. PICK k \in DOMAIN v : v[k] = x
    BY <1>2 DEF Range
  <2>2. {j \in DOMAIN v : v[j] = x} = {k}
    BY <1>1, <2>1 DEF Each
  <2>3. QED BY <2>2, FS_Singleton
<1>4. QED BY <1>2, <1>3 DEF ToBag

(* The hits of a payload: one for each of its words, or for each pair of   *)
(* words that is good, of the frame they are unpacked for.                 *)
FadcWords(bank) == bank.start .. bank.end - 1
DcrbWords(bank) == {i \in Range(Pairs(bank)) : ~BadGroup(i)}
HitsAt(I, bank) == {Hit(i, bank) : i \in I}

LEMMA HitsDiffer ==
    ASSUME NEW bank, NEW i, NEW j, Hit(i, bank) = Hit(j, bank)
    PROVE  i = j
BY DEF Hit

LEMMA FadcHitsAre ==
    ASSUME NEW bank, bank.start \in Int, bank.end \in Int
    PROVE  /\ IsSequence(FadcHits(bank))
           /\ Each(FadcHits(bank), 0, Len(FadcHits(bank)), HitsAt(FadcWords(bank), bank))
<1> DEFINE m == Contents(bank)
           g == [k \in 1..m |-> Hit(bank.start + k - 1, bank)]
<1>1. FadcHits(bank) = g /\ m \in Int
  BY DEF FadcHits, Contents
<1>2. \A k \in 1..m : g[k] = Hit((bank.start + k) - 1, bank)
  OBVIOUS
<1>3. g = [k \in 1..m |-> g[k]]
  OBVIOUS
<1>4. \A k \in 1..m : (bank.start + k) - 1 \in FadcWords(bank)
  BY DEF FadcWords, Contents
<1>5. \A i \in FadcWords(bank) : (i - bank.start) + 1 \in 1..m /\ (bank.start + ((i - bank.start) + 1)) - 1 = i
  BY DEF FadcWords, Contents
<1> HIDE DEF m, g
<1>6. IsSequence(g) /\ DOMAIN g = 1..m
  BY <1>1, <1>3, SequenceOn
<1>7. 1..m = 1..Len(g)
  BY <1>6 DEF IsSequence
<1>8. {g[k] : k \in 1..m} = HitsAt(FadcWords(bank), bank)
  <2>1. \A k \in 1..m : g[k] \in HitsAt(FadcWords(bank), bank)
    BY <1>2, <1>4 DEF HitsAt
  <2>2. ASSUME NEW i \in FadcWords(bank) PROVE \E k \in 1..m : g[k] = Hit(i, bank)
    BY <1>2, <1>5
  <2>3. QED BY <2>1, <2>2 DEF HitsAt
<1>9. ASSUME NEW j \in 1..m, NEW k \in 1..m, g[j] = g[k] PROVE j = k
  <2>1. (bank.start + j) - 1 = (bank.start + k) - 1
    BY <1>2, <1>9, HitsDiffer
  <2>2. QED BY <2>1
<1>10. 0 + 1 = 1
  OBVIOUS
<1>11. Each(g, 0, Len(g), HitsAt(FadcWords(bank), bank))
  BY <1>7, <1>8, <1>9, <1>10 DEF Each
<1>12. QED BY <1>1, <1>6, <1>11

LEMMA DcrbHitsAre ==
    ASSUME NEW bank, bank.start \in Int, bank.end \in Int
    PROVE  /\ IsSequence(DcrbHits(bank))
           /\ Each(DcrbHits(bank), 0, Len(DcrbHits(bank)), HitsAt(DcrbWords(bank), bank))
<1> DEFINE p == Pairs(bank)
           n == Len(p)
           H == {Hit(i, bank) : i \in Int}
           T == Seq(H)
           Add(found, i) == IF BadGroup(i) THEN found ELSE Append(found, Hit(i, bank))
           step == [x \in (1..n) \X T |-> Add(x[2], p[x[1]])]
           Is(f) == f = [k \in 0..n |-> IF k = 0 THEN <<>>
                              ELSE IF BadGroup(p[k]) THEN f[k - 1]
                              ELSE Append(f[k - 1], Hit(p[k], bank))]
           found == CHOOSE f : Is(f)
           Good(k) == {i \in {p[j] : j \in 1..k} : ~BadGroup(i)}
<1>1. p \in Seq(Int) /\ \A k \in DOMAIN p : p[k] = bank.start + 2 * (k - 1)
  <2> DEFINE m == Contents(bank) \div 2
             s == bank.start
  <2>1. p = [k \in 1..m |-> s + 2 * (k - 1)]
    BY DEF Pairs
  <2>2. m \in Int /\ s \in Int
    BY DEF Contents
  <2> HIDE DEF m, s, p
  <2>3. p \in Seq(Int) /\ \A k \in DOMAIN p : p[k] = s + 2 * (k - 1)
    <3>1. \A k \in 1..m : s + 2 * (k - 1) \in Int
      BY <2>2
    <3>2. DOMAIN p = 1..m /\ \A k \in 1..m : p[k] = s + 2 * (k - 1)
      BY <2>1
    <3>3. p = [k \in 1..m |-> p[k]] /\ \A k \in 1..m : p[k] \in Int
      BY <2>1, <3>1, <3>2
    <3>4. p \in Seq(Int)
      BY <2>2, <3>3
    <3>5. QED BY <3>2, <3>4
  <2>4. QED BY <2>3 DEF s
<1>2. n \in Nat /\ DOMAIN p = 1..n /\ \A k \in 1..n : p[k] \in Int
  BY <1>1
<1>3. ASSUME NEW j \in 1..n, NEW k \in 1..n, p[j] = p[k] PROVE j = k
  <2>1. p[j] = bank.start + 2 * (j - 1) /\ p[k] = bank.start + 2 * (k - 1)
    BY <1>1, <1>2, <1>3
  <2> DEFINE s == bank.start
  <2>2. s + 2 * (j - 1) = s + 2 * (k - 1) /\ s \in Int
    BY <1>3, <2>1
  <2> HIDE DEF s
  <2>3. QED BY ONLY <1>2, <1>3, <2>2
<1>4. DcrbHits(bank) = found[n]
  BY DEF DcrbHits
<1> HIDE DEF p, n
<1>5. \A x \in T : \A i \in Int : Add(x, i) \in T
  <2>1. \A i \in Int : Hit(i, bank) \in H
    OBVIOUS
  <2> HIDE DEF H
  <2>2. QED BY <2>1
<1>6. <<>> \in T
  OBVIOUS
<1> HIDE DEF T
<1>7. step \in [(1..n) \X T -> T]
  <2> HIDE DEF Add
  <2>1. QED BY <1>2, <1>5
<1>8. PICK f : FollowsStep(f, T, n, <<>>, step)
  <2> HIDE DEF step
  <2>1. QED BY <1>2, <1>6, <1>7, RecursionExists
<1>9. f \in [0..n -> T] /\ f[0] = <<>> /\ \A k \in 1..n : f[k] = step[<<k, f[k - 1]>>]
  BY <1>8 DEF FollowsStep
<1>10. ASSUME NEW k \in 1..n PROVE f[k] = Add(f[k - 1], p[k])
  <2>1. k - 1 \in 0..n
    BY <1>2
  <2>2. f[k - 1] \in T
    BY <1>9, <2>1
  <2>3. f[k] = step[<<k, f[k - 1]>>]
    BY <1>9
  <2> HIDE DEF Add
  <2>4. QED BY <2>2, <2>3 DEF step
<1> HIDE DEF step
<1>11. Is(f)
  <2>1. ASSUME NEW k \in 0..n
        PROVE  f[k] = IF k = 0 THEN <<>> ELSE IF BadGroup(p[k]) THEN f[k - 1]
                                              ELSE Append(f[k - 1], Hit(p[k], bank))
    <3>1. CASE k = 0
      BY <1>9, <3>1
    <3>2. CASE k # 0
      <4>1. k \in 1..n
        BY <1>2, <3>2
      <4>2. QED BY <1>10, <3>2, <4>1
    <3>3. QED BY <3>1, <3>2
  <2>2. f = [k \in 0..n |-> f[k]]
    BY <1>9
  <2>3. QED BY <2>1, <2>2
<1>12. Is(found)
  <2> HIDE DEF Is
  <2>1. QED BY <1>11
<1> HIDE DEF found
<1>13. found[0] = <<>> /\ \A k \in 1..n : found[k] = Add(found[k - 1], p[k])
  <2>1. \A k \in 0..n : found[k] = IF k = 0 THEN <<>> ELSE IF BadGroup(p[k]) THEN found[k - 1]
                                   ELSE Append(found[k - 1], Hit(p[k], bank))
    BY <1>12
  <2>2. 0 \in 0..n /\ \A k \in 1..n : k \in 0..n /\ k # 0
    BY <1>2
  <2>3. \A k \in 1..n : found[k] = Add(found[k - 1], p[k])
    BY <2>1, <2>2
  <2>4. QED BY <2>1, <2>2, <2>3
<1> DEFINE U == {k \in 0..n : found[k] \in T /\ Each(found[k], 0, Len(found[k]), HitsAt(Good(k), bank))}
<1>14. 0 \in U
  <2>1. Good(0) = {} /\ Len(<<>>) = 0 /\ HitsAt({}, bank) = {}
    BY DEF HitsAt
  <2>2. Each(<<>>, 0, Len(<<>>), HitsAt(Good(0), bank))
    <3> HIDE DEF Good
    <3>1. Each(<<>>, 0, 0, {})
      BY EachOfNone
    <3>2. QED BY <2>1, <3>1
  <2>3. QED BY <1>2, <1>6, <1>13, <2>2
<1>15. ASSUME NEW k \in 0..n - 1, k \in U PROVE k + 1 \in U
  <2>1. k + 1 \in 1..n /\ (k + 1) - 1 = k /\ k + 1 \in 0..n
    BY <1>2
  <2>2. found[k] \in T /\ Each(found[k], 0, Len(found[k]), HitsAt(Good(k), bank))
    BY <1>15
  <2> DEFINE v == found[k]
             i == p[k + 1]
  <2>3. found[k + 1] = Add(v, i) /\ i \in Int
    BY <1>2, <1>13, <2>1
  <2>4. {p[j] : j \in 1..k + 1} = {p[j] : j \in 1..k} \cup {i}
    <3>1. 1..k + 1 = (1..k) \cup {k + 1}
      BY <1>2
    <3>2. QED BY <3>1
  <2> HIDE DEF v
  <2>5. CASE BadGroup(i)
    <3>1. Good(k + 1) = Good(k)
      BY <2>4, <2>5
    <3> HIDE DEF i, Good
    <3>2. found[k + 1] = v
      BY <2>3, <2>5
    <3>3. QED BY <2>1, <2>2, <3>1, <3>2 DEF v
  <2>6. CASE ~BadGroup(i)
    <3>1. Good(k + 1) = Good(k) \cup {i}
      BY <2>4, <2>6
    <3>2. i \notin Good(k)
      <4>1. \A j \in 1..k : j \in 1..n /\ j # k + 1
        BY <1>2
      <4>2. QED BY <1>3, <2>1, <4>1
    <3> HIDE DEF i, Good
    <3>3. found[k + 1] = Append(v, Hit(i, bank))
      BY <2>3, <2>6
    <3>4. HitsAt(Good(k + 1), bank) = HitsAt(Good(k), bank) \cup {Hit(i, bank)}
      BY <3>1 DEF HitsAt
    <3>5. Hit(i, bank) \notin HitsAt(Good(k), bank)
      BY <3>2, HitsDiffer DEF HitsAt
    <3>6. Hit(i, bank) \in H /\ v \in Seq(H)
      BY <2>2, <2>3 DEF T, v
    <3> HIDE DEF H
    <3>7. 0 <= Len(v) /\ 0 \in Nat
      BY <3>6
    <3> DEFINE x == Hit(i, bank)
               G == HitsAt(Good(k), bank)
    <3> HIDE DEF x, G
    <3>8. v \in Seq(H) /\ x \in H /\ x \notin G /\ Each(v, 0, Len(v), G)
      BY <2>2, <3>5, <3>6 DEF v, x, G
    <3>9. Each(Append(v, x), 0, Len(Append(v, x)), G \cup {x})
      BY <3>7, <3>8, EachAppended, Zenon
    <3>10. Append(v, x) \in T
      BY <3>8 DEF T
    <3>11. QED BY <2>1, <3>3, <3>4, <3>9, <3>10 DEF x, G
  <2>7. QED BY <2>5, <2>6
<1> HIDE DEF U
<1>16. 0..n \subseteq U
  BY <1>2, <1>14, <1>15, IntervalByInduction
<1>17. found[n] \in T /\ Each(found[n], 0, Len(found[n]), HitsAt(Good(n), bank))
  <2>1. n \in 0..n
    BY <1>2
  <2>2. n \in U
    BY <1>16, <2>1
  <2>3. QED BY <2>2 DEF U
<1>18. Good(n) = DcrbWords(bank)
  BY <1>2 DEF DcrbWords, Range, p
<1>19. IsSequence(found[n])
  BY <1>17, SequenceOf DEF T
<1>20. QED BY <1>4, <1>17, <1>18, <1>19

LEMMA HitsAreOfFrame ==
    ASSUME NEW I, NEW bank, NEW v, IsSequence(v), Each(v, 0, Len(v), HitsAt(I, bank))
    PROVE  \A k \in DOMAIN v : v[k].frame = HitFrame
<1>1. \A i \in I : Hit(i, bank).frame = HitFrame
  BY DEF Hit, HitFrame
<1>2. DOMAIN v = 1 .. Len(v) /\ 0 + 1 = 1
  BY DEF IsSequence
<1>3. ASSUME NEW k \in DOMAIN v PROVE v[k] \in HitsAt(I, bank)
  BY <1>2 DEF Each
<1>4. QED BY <1>1, <1>3 DEF HitsAt

LEMMA FadcHitsOfFrame ==
    ASSUME NEW bank, bank.start \in Int, bank.end \in Int
    PROVE  /\ IsSequence(FadcHits(bank))
           /\ \A k \in DOMAIN FadcHits(bank) : FadcHits(bank)[k].frame = HitFrame
<1>1. IsSequence(FadcHits(bank)) /\ Each(FadcHits(bank), 0, Len(FadcHits(bank)), HitsAt(FadcWords(bank), bank))
  BY FadcHitsAre
<1>2. QED BY <1>1, HitsAreOfFrame

LEMMA DcrbHitsOfFrame ==
    ASSUME NEW bank, bank.start \in Int, bank.end \in Int
    PROVE  /\ IsSequence(DcrbHits(bank))
           /\ \A k \in DOMAIN DcrbHits(bank) : DcrbHits(bank)[k].frame = HitFrame
<1>1. IsSequence(DcrbHits(bank)) /\ Each(DcrbHits(bank), 0, Len(DcrbHits(bank)), HitsAt(DcrbWords(bank), bank))
  BY DcrbHitsAre
<1>2. QED BY <1>1, HitsAreOfFrame

-----------------------------------------------------------------------------
(* Steps that leave the slices where they are.                             *)

(* The state of the walk that the slices are of.                           *)
LEMMA SlicesStay ==
    ASSUME SlicesInv, UNCHANGED <<frame, frames, deferred>>,
           Fadc' = Fadc, Dcrb' = Dcrb, InSet' = InSet
    PROVE  SlicesInv'
BY DEF SlicesInv, SlicesUpTo, Sliced, Follows, InSlice, OfOpen

LEMMA NoHitsHaveHits == HasHits(NoHits) /\ Len(NoHits.fadc) = 0 /\ Len(NoHits.dcrb) = 0
<1>1. <<>> \in Seq({})
  OBVIOUS
<1>2. IsSequence(<<>>)
  BY <1>1, SequenceOf
<1>3. NoHits.fadc = <<>> /\ NoHits.dcrb = <<>> /\ Len(<<>>) = 0
  BY DEF NoHits
<1>4. NoHits = [fadc |-> NoHits.fadc, dcrb |-> NoHits.dcrb]
  BY <1>3 DEF NoHits
<1>5. QED BY <1>2, <1>3, <1>4 DEF HasHits

LEMMA EmptySlices ==
    ASSUME NEW v, Len(v) = 0, NEW first, NEW n
    PROVE  Sliced(<<>>, v, first, n, Len(v)) /\ InSlice(<<>>, v, first, n)
BY DEF Sliced, Follows, InSlice

(* Nothing has been walked.                                                *)
LEMMA NothingWalked ==
    ASSUME level = "set", nextDeferred = 0, frames = <<>>, deferred = <<>>, sink = NoHits
    PROVE  SlicesInv
<1>1. Walking /\ ~InSet
  BY DEF Walking, InSet, Deferring
<1>2. Fadc = <<>> /\ Dcrb = <<>> /\ Len(<<>>) = 0
  BY <1>1 DEF Fadc, Dcrb, NoHits
<1>3. OfOpen(<<>>, <<>>, 0)
  BY DEF OfOpen
<1>4. SlicesUpTo(Len(Fadc), Len(Dcrb), Len(deferred))
  BY <1>2, <1>3, EmptySlices DEF SlicesUpTo
<1>5. QED BY <1>1, <1>4 DEF SlicesInv

THEOREM PartitionInitially == BlockInit => PartitionInv
<1> SUFFICES ASSUME BlockInit PROVE PartitionInv
  OBVIOUS
<1> USE DEF BlockInit, ParserInit
<1>1. words \in Seq(Word)
  <2> DEFINE sound == BlockWords(origin)
  <2>1. sound \in Seq(Word) /\ \A k \in DOMAIN sound : Damages(sound[k]) \subseteq Word
    BY SroParserAssumption
  <2> HIDE DEF sound
  <2>2. CASE damaged = -1 /\ words = sound
    BY <2>1, <2>2
  <2>3. ASSUME damaged \in 0..(Len(sound) - 1),
               NEW w \in Damages(sound[damaged + 1]), words = [sound EXCEPT ![damaged + 1] = w]
        PROVE  words \in Seq(Word)
    <3>1. damaged + 1 \in DOMAIN sound
      BY <2>1, <2>3
    <3>2. w \in Word
      BY <2>1, <2>3, <3>1
    <3>3. QED BY <2>1, <2>3, <3>2
  <2>4. QED BY <2>2, <2>3 DEF sound
<1>2. Size \in Nat /\ 0 \in Positions
  BY <1>1 DEF Size, Positions
<1>3. IsSequence(<<>>) /\ HasHits(sink) /\ HasHits(hits)
  <2>1. <<>> \in Seq({})
    OBVIOUS
  <2>2. IsSequence(<<>>)
    BY <2>1, SequenceOf
  <2>3. QED BY <2>2, NoHitsHaveHits
<1>4. frame \in OpenRec /\ roc.start \in Nat /\ roc.end \in Positions
  BY <1>2 DEF NoFrame, OpenRec, NoBank
<1>5. TypeOK
  BY <1>1, <1>2, <1>3, <1>4 DEF TypeOK
<1>6. Levels
  BY DEF Levels, Deferring
<1>7. SlicesInv
  BY NothingWalked
<1>8. QED BY <1>5, <1>6, <1>7 DEF PartitionInv

(* Parsing is over, or goes on for a frame by itself.                      *)
LEMMA AfterTheWalk ==
    ASSUME PartitionInv, ~Walking, ~Walking', UNCHANGED <<hits, frame, frames, deferred>>
    PROVE  SlicesInv'
<1>1. Fadc' = Fadc /\ Dcrb' = Dcrb
  BY DEF Fadc, Dcrb
<1>2. InSet' = InSet
  BY DEF InSet, Walking
<1>3. QED BY <1>1, <1>2, SlicesStay DEF PartitionInv

LEMMA WalkUnchanged ==
    ASSUME PartitionInv, Walking, Walking', InSet' = InSet, UNCHANGED <<sink, frame, frames, deferred>>
    PROVE  SlicesInv'
<1>1. Fadc' = Fadc /\ Dcrb' = Dcrb
  BY DEF Fadc, Dcrb
<1>2. QED BY <1>1, SlicesStay DEF PartitionInv

-----------------------------------------------------------------------------
(* The steps of the parser, one by one.                                    *)

(* The words are the same ones.                                            *)
LEMMA SamePlaces ==
    ASSUME UNCHANGED input
    PROVE  words' = words /\ Positions' = Positions /\ DeferRec' = DeferRec /\ (NoneWraps => NoneWraps')
BY DEF input, Positions, DeferRec, Size, NoneWraps

LEMMA EndWalkKeeps ==
    ASSUME PartitionInv, level = "set", NEW found, EndWalk(found)
    PROVE  PartitionInv'
<1> USE DEF PartitionInv
<1>1. /\ level' = "parsed" /\ hits' = sink /\ UNCHANGED input
      /\ UNCHANGED <<pos, setEnd, rocPos, payPos, roc, frame, frames, deferred>>
      /\ UNCHANGED <<sink, nextDeferred, decoded>>
  BY DEF EndWalk, setVars, rocVars
<1>2. ~Deferring /\ ~Deferring'
  BY <1>1 DEF Levels, Deferring
<1>3. TypeOK'
  BY <1>1, SamePlaces DEF TypeOK
<1>4. Levels'
  BY <1>1, <1>2 DEF Levels
<1>5. Fadc = sink.fadc /\ Dcrb = sink.dcrb
  BY <1>2 DEF Fadc, Dcrb, Walking
<1>6. Fadc' = Fadc /\ Dcrb' = Dcrb /\ InSet' = InSet
  BY <1>1, <1>2, <1>5 DEF Fadc, Dcrb, Walking, InSet
<1>7. SlicesInv'
  BY <1>1, <1>6, SlicesStay
<1>8. QED BY <1>3, <1>4, <1>7

LEMMA SkipSetKeeps == ASSUME PartitionInv, SkipSet PROVE PartitionInv'
<1> USE DEF PartitionInv
<1>1. /\ level = "set" /\ level' = "set" /\ pos' = Bank(pos).end /\ SetReads /\ UNCHANGED input
      /\ UNCHANGED <<setEnd, rocPos, payPos, roc, frame, frames, deferred>>
      /\ UNCHANGED <<sink, hits, nextDeferred, decoded>>
  BY DEF SkipSet, rocVars, childVars
<1>2. pos' \in Positions
  <2>1. pos \in Nat /\ Size \in Positions
    BY DEF TypeOK, Positions, Size
  <2>2. QED BY <1>1, <2>1, BankInside DEF SetReads
<1>3. ~Deferring /\ ~Deferring'
  BY <1>1 DEF Levels, Deferring
<1>4. TypeOK'
  BY <1>1, <1>2, SamePlaces DEF TypeOK
<1>5. Levels'
  BY <1>1, <1>3 DEF Levels
<1>6. Walking /\ Walking' /\ InSet' = InSet
  BY <1>1, <1>3 DEF Walking, InSet
<1>7. SlicesInv'
  BY <1>1, <1>6, WalkUnchanged
<1>8. QED BY <1>4, <1>5, <1>7

LEMMA OpenSetKeeps == ASSUME PartitionInv, OpenSet PROVE PartitionInv'
<1> USE DEF PartitionInv
<1> DEFINE set == Bank(pos)
           sib == Bank(set.start)
<1>1. /\ level = "set" /\ level' = "roc" /\ SetReads /\ SibReads
      /\ pos' = set.end /\ setEnd' = set.end /\ rocPos' = sib.end
      /\ frame' = FrameHere(sib.start + 1) /\ UNCHANGED input
      /\ UNCHANGED <<payPos, roc, frames, deferred, sink, hits, nextDeferred, decoded>>
  BY DEF OpenSet, rocVars, childVars
<1>2. set.start \in Nat /\ set.end \in Positions
  <2>1. pos \in Nat /\ Size \in Positions
    BY DEF TypeOK, Positions, Size
  <2>2. QED BY <1>1, <2>1, BankInside DEF SetReads
<1>3. sib.start \in Nat /\ sib.end \in Positions
  BY <1>1, <1>2, BankInside DEF SibReads
<1> HIDE DEF set, sib
<1>4. ~Deferring /\ ~Deferring'
  BY <1>1 DEF Levels, Deferring
<1>5. Walking /\ Walking' /\ ~InSet /\ InSet'
  BY <1>1, <1>4 DEF Walking, InSet
<1>6. Fadc = sink.fadc /\ Dcrb = sink.dcrb /\ Fadc' = Fadc /\ Dcrb' = Dcrb
  BY <1>1, <1>5 DEF Fadc, Dcrb
<1>7. Len(sink.fadc) \in Nat /\ Len(sink.dcrb) \in Nat /\ Len(deferred) \in Nat
  BY DEF TypeOK, HasHits, IsSequence
<1>8. /\ frame' = [number |-> sib.start + 1, firstFadc |-> Len(sink.fadc),
                   firstDcrb |-> Len(sink.dcrb), firstDeferred |-> Len(deferred)]
  BY <1>1 DEF FrameHere
<1>9. frame' \in OpenRec
  BY <1>3, <1>7, <1>8 DEF OpenRec
<1>10. TypeOK'
  BY <1>1, <1>2, <1>3, <1>9, SamePlaces DEF TypeOK
<1>11. Levels'
  BY <1>1, <1>4 DEF Levels
<1>12. /\ frame'.firstFadc = Len(Fadc) /\ frame'.firstDcrb = Len(Dcrb)
       /\ frame'.firstDeferred = Len(deferred)
  BY <1>6, <1>8
<1>13. SlicesUpTo(Len(Fadc), Len(Dcrb), Len(deferred))
  BY <1>5 DEF SlicesInv
<1>14. SlicesUpTo(Len(Fadc), Len(Dcrb), Len(deferred))'
  BY <1>1, <1>6, <1>13 DEF SlicesUpTo, Sliced, Follows, InSlice, OfOpen
<1>15. SlicesUpTo(frame.firstFadc, frame.firstDcrb, frame.firstDeferred)'
  BY <1>1, <1>6, <1>12, <1>14
<1>16. SlicesInv'
  BY <1>5, <1>15 DEF SlicesInv
<1>17. QED BY <1>10, <1>11, <1>16

LEMMA CloseSetKeeps == ASSUME PartitionInv, CloseSet PROVE PartitionInv'
<1> USE DEF PartitionInv
<1> DEFINE x == [number |-> frame.number,
             firstFadc |-> frame.firstFadc, nFadc |-> Len(sink.fadc) - frame.firstFadc,
             firstDcrb |-> frame.firstDcrb, nDcrb |-> Len(sink.dcrb) - frame.firstDcrb,
             firstDeferred |-> frame.firstDeferred,
             nDeferred |-> Len(deferred) - frame.firstDeferred]
<1>1. /\ level = "roc" /\ level' = "set" /\ frames' = Append(frames, x) /\ UNCHANGED input
      /\ UNCHANGED <<pos, setEnd, rocPos, payPos, roc, frame, deferred>>
      /\ UNCHANGED <<sink, hits, nextDeferred, decoded>>
  BY DEF CloseSet, rocVars, childVars
<1>2. ~Deferring /\ ~Deferring'
  BY <1>1 DEF Levels, Deferring
<1>3. Walking /\ Walking' /\ InSet /\ ~InSet'
  BY <1>1, <1>2 DEF Walking, InSet
<1>4. Fadc = sink.fadc /\ Dcrb = sink.dcrb /\ Fadc' = sink.fadc /\ Dcrb' = sink.dcrb
  BY <1>1, <1>3 DEF Fadc, Dcrb
<1>5. SlicesUpTo(frame.firstFadc, frame.firstDcrb, frame.firstDeferred)
  BY <1>3 DEF SlicesInv
<1>6. /\ Len(sink.fadc) \in Nat /\ Len(sink.dcrb) \in Nat /\ Len(deferred) \in Nat
      /\ frame \in OpenRec /\ frames \in Seq(FrameRec)
      /\ sink.fadc \in Seq(Range(sink.fadc)) /\ sink.dcrb \in Seq(Range(sink.dcrb))
      /\ deferred \in Seq(DeferRec)
  BY DEF TypeOK, HasHits, IsSequence
<1>7. /\ frame.number \in Nat /\ frame.firstFadc \in Nat /\ frame.firstDcrb \in Nat
      /\ frame.firstDeferred \in Nat
  BY <1>6 DEF OpenRec
<1>8. /\ frame.firstFadc <= Len(sink.fadc) /\ frame.firstDcrb <= Len(sink.dcrb)
      /\ frame.firstDeferred <= Len(deferred)
  BY <1>4, <1>5 DEF SlicesUpTo, Sliced
<1>9. x \in FrameRec
  BY <1>6, <1>7, <1>8 DEF FrameRec
<1>10. /\ x["firstFadc"] = frame.firstFadc /\ x["firstFadc"] + x["nFadc"] = Len(sink.fadc)
       /\ x["firstDcrb"] = frame.firstDcrb /\ x["firstDcrb"] + x["nDcrb"] = Len(sink.dcrb)
       /\ x["firstDeferred"] = frame.firstDeferred
       /\ x["firstDeferred"] + x["nDeferred"] = Len(deferred)
  BY <1>6, <1>7
<1>11. /\ IsKind("firstFadc", "nFadc") /\ IsKind("firstDcrb", "nDcrb")
       /\ IsKind("firstDeferred", "nDeferred")
  BY DEF IsKind, Kinds
<1>12. Len(frames) + 1 = Len(Append(frames, x)) /\ Len(frames) \in Nat
  BY <1>6, <1>9
<1> HIDE DEF x
<1>13. frames' \in Seq(FrameRec) /\ Len(frames') = Len(frames) + 1
  BY <1>1, <1>6, <1>9, <1>12
<1>14. TypeOK'
  BY <1>1, <1>13, SamePlaces DEF TypeOK
<1>15. Levels'
  BY <1>1, <1>2 DEF Levels
<1>16. /\ Sliced(Append(frames, x), sink.fadc, "firstFadc", "nFadc", Len(sink.fadc))
       /\ InSlice(Append(frames, x), sink.fadc, "firstFadc", "nFadc")
       /\ OfOpen(Append(frames, x), sink.fadc, Len(sink.fadc))
  <2>1. /\ Sliced(frames, sink.fadc, "firstFadc", "nFadc", x["firstFadc"])
        /\ InSlice(frames, sink.fadc, "firstFadc", "nFadc")
        /\ OfOpen(frames, sink.fadc, x["firstFadc"])
    BY <1>4, <1>5, <1>10 DEF SlicesUpTo
  <2>2. QED BY <2>1, <1>6, <1>9, <1>10, <1>11, SlicedWithOneMore, HitsWithOneMore, Zenon
<1>17. /\ Sliced(Append(frames, x), sink.dcrb, "firstDcrb", "nDcrb", Len(sink.dcrb))
       /\ InSlice(Append(frames, x), sink.dcrb, "firstDcrb", "nDcrb")
       /\ OfOpen(Append(frames, x), sink.dcrb, Len(sink.dcrb))
  <2>1. /\ Sliced(frames, sink.dcrb, "firstDcrb", "nDcrb", x["firstDcrb"])
        /\ InSlice(frames, sink.dcrb, "firstDcrb", "nDcrb")
        /\ OfOpen(frames, sink.dcrb, x["firstDcrb"])
    BY <1>4, <1>5, <1>10 DEF SlicesUpTo
  <2>2. QED BY <2>1, <1>6, <1>9, <1>10, <1>11, SlicedWithOneMore, HitsWithOneMore, Zenon
<1>18. Sliced(Append(frames, x), deferred, "firstDeferred", "nDeferred", Len(deferred))
  <2>1. Sliced(frames, deferred, "firstDeferred", "nDeferred", x["firstDeferred"])
    BY <1>5, <1>10 DEF SlicesUpTo
  <2>2. QED BY <2>1, <1>6, <1>9, <1>10, <1>11, SlicedWithOneMore, Zenon
<1>19. SlicesUpTo(Len(Fadc), Len(Dcrb), Len(deferred))'
  BY <1>1, <1>4, <1>16, <1>17, <1>18 DEF SlicesUpTo
<1>20. SlicesInv'
  BY <1>3, <1>19 DEF SlicesInv
<1>21. QED BY <1>14, <1>15, <1>20

LEMMA DeferRocKeeps == ASSUME PartitionInv, DeferRoc PROVE PartitionInv'
<1> USE DEF PartitionInv
<1> DEFINE d == [pos |-> rocPos, limit |-> setEnd]
<1>1. /\ level = "roc" /\ level' = "roc" /\ BankReads(rocPos, setEnd) /\ UNCHANGED input
      /\ deferred' = Append(deferred, d) /\ rocPos' = Bank(rocPos).end
      /\ UNCHANGED <<pos, setEnd, payPos, roc, frame, frames, sink, hits, nextDeferred, decoded>>
  BY DEF DeferRoc, rocVars, childVars
<1>2. rocPos' \in Positions /\ d \in DeferRec
  <2>1. rocPos \in Nat /\ rocPos \in Positions /\ setEnd \in Positions
    BY DEF TypeOK, Positions
  <2>2. Bank(rocPos).end \in Positions
    BY <1>1, <2>1, BankInside
  <2>3. QED BY <1>1, <2>1, <2>2 DEF DeferRec
<1> HIDE DEF d
<1>3. deferred \in Seq(DeferRec)
  BY DEF TypeOK
<1>4. deferred' \in Seq(DeferRec) /\ Len(deferred) \in Nat /\ Len(deferred') = Len(deferred) + 1
  BY <1>1, <1>2, <1>3
<1>5. ~Deferring /\ ~Deferring'
  BY <1>1 DEF Levels, Deferring
<1>6. TypeOK'
  BY <1>1, <1>2, <1>4, SamePlaces DEF TypeOK
<1>7. Levels'
  BY <1>1, <1>5 DEF Levels
<1>8. Walking /\ Walking' /\ InSet /\ InSet'
  BY <1>1, <1>5 DEF Walking, InSet
<1>9. Fadc' = Fadc /\ Dcrb' = Dcrb
  BY <1>1, <1>8 DEF Fadc, Dcrb
<1>10. SlicesUpTo(frame.firstFadc, frame.firstDcrb, frame.firstDeferred)
  BY <1>8 DEF SlicesInv
<1>11. Sliced(frames, deferred', "firstDeferred", "nDeferred", frame.firstDeferred)
  <2>1. Sliced(frames, deferred, "firstDeferred", "nDeferred", frame.firstDeferred)
    BY <1>10 DEF SlicesUpTo
  <2>2. frame.firstDeferred \in Nat /\ Len(deferred) <= Len(deferred')
    BY <1>4 DEF TypeOK, OpenRec
  <2>3. QED BY <2>1, <2>2, <1>3, <1>4, SlicedInLonger, Zenon
<1>12. SlicesUpTo(frame.firstFadc, frame.firstDcrb, frame.firstDeferred)'
  BY <1>1, <1>9, <1>10, <1>11 DEF SlicesUpTo
<1>13. SlicesInv'
  BY <1>8, <1>12 DEF SlicesInv
<1>14. QED BY <1>6, <1>7, <1>13

(* The ROC bank at p is parsed up to its payloads; the level keeps the     *)
(* frame that hits are of.                                                 *)
LEMMA RocKeepsType ==
    ASSUME TypeOK, NEW p \in Nat, NEW limit \in Positions, BankReads(p, limit),
           ParseRocBank(Bank(p))
    PROVE  /\ level' \in {level, "payload"}
           /\ payPos' \in Positions
           /\ roc'.start \in Nat /\ roc'.end \in Positions
<1> DEFINE bank == Bank(p)
<1>1. bank.start \in Nat /\ bank.end \in Positions /\ bank.start = p + 2
  BY BankInside
<1>2. p = bank.start - 2
  BY <1>1
<1>3. bank = Bank(bank.start - 2)
  BY <1>2
<1>4. ParseRocBank(bank)
  OBVIOUS
<1> HIDE DEF bank
<1>5. \/ UNCHANGED <<level, rocVars>>
      \/ level' = "payload" /\ roc' = bank /\ payPos' \in Positions
  BY <1>1, <1>3, <1>4, RocParsed
<1>6. payPos \in Positions /\ roc.start \in Nat /\ roc.end \in Positions
  BY DEF TypeOK
<1>7. QED BY <1>1, <1>5, <1>6 DEF rocVars

LEMMA ReadRocKeeps == ASSUME PartitionInv, ReadRoc PROVE PartitionInv'
<1> USE DEF PartitionInv
<1>1. /\ level = "roc" /\ BankReads(rocPos, setEnd) /\ ParseRocBank(Bank(rocPos))
      /\ rocPos' = Bank(rocPos).end /\ UNCHANGED input
      /\ UNCHANGED <<pos, setEnd, frame, frames, deferred, sink, hits, nextDeferred, decoded>>
  BY DEF ReadRoc, childVars
<1>2. rocPos \in Nat /\ setEnd \in Positions
  BY DEF TypeOK, Positions
<1>3. rocPos' \in Positions
  BY <1>1, <1>2, BankInside
<1>4. /\ level' \in {"roc", "payload"} /\ payPos' \in Positions
      /\ roc'.start \in Nat /\ roc'.end \in Positions
  BY <1>1, <1>2, RocKeepsType
<1>5. ~Deferring /\ ~Deferring'
  BY <1>1 DEF Levels, Deferring
<1>6. TypeOK'
  BY <1>1, <1>3, <1>4, SamePlaces DEF TypeOK
<1>7. Levels'
  BY <1>1, <1>4, <1>5 DEF Levels
<1>8. Walking /\ Walking' /\ InSet' = InSet
  BY <1>1, <1>4, <1>5 DEF Walking, InSet
<1>9. SlicesInv'
  BY <1>1, <1>8, WalkUnchanged
<1>10. QED BY <1>6, <1>7, <1>9

LEMMA EndPayloadsKeeps == ASSUME PartitionInv, EndPayloads PROVE PartitionInv'
<1> USE DEF PartitionInv
<1>1. /\ level = "payload" /\ level' = IF Deferring THEN "deferred" ELSE "roc"
      /\ UNCHANGED input
      /\ UNCHANGED <<pos, setEnd, rocPos, frame, frames, deferred, roc, payPos>>
      /\ UNCHANGED <<sink, hits, nextDeferred, decoded>>
  BY DEF EndPayloads, setVars, rocVars, childVars
<1>2. Deferring' = Deferring
  BY <1>1 DEF Deferring
<1>3. TypeOK'
  BY <1>1, SamePlaces DEF TypeOK
<1>4. Levels'
  BY <1>1, <1>2 DEF Levels
<1>5. SlicesInv'
  <2>1. CASE Deferring
    <3>1. ~Walking /\ ~Walking'
      BY <1>2, <2>1 DEF Walking
    <3>2. QED BY <1>1, <3>1, AfterTheWalk
  <2>2. CASE ~Deferring
    <3>1. Walking /\ Walking' /\ InSet' = InSet
      BY <1>1, <1>2, <2>2 DEF Walking, InSet
    <3>2. QED BY <1>1, <3>1, WalkUnchanged
  <2>3. QED BY <2>1, <2>2
<1>6. QED BY <1>3, <1>4, <1>5

(* Hits, of the frame that is open, are added at the end.                   *)
LEMMA HitsAdded ==
    ASSUME TypeOK, NEW v, IsSequence(v), NEW h, IsSequence(h),
           \A k \in DOMAIN h : h[k].frame = Len(frames) + 1,
           NEW first, NEW n, IsKind(first, n), NEW start \in Nat,
           Sliced(frames, v, first, n, start),
           InSlice(frames, v, first, n), OfOpen(frames, v, start)
    PROVE  /\ Sliced(frames, v \o h, first, n, start)
           /\ InSlice(frames, v \o h, first, n) /\ OfOpen(frames, v \o h, start)
<1> DEFINE w == v \o h
<1>1. PICK S : v \in Seq(S) /\ w \in Seq(S)
  BY SequencesJoin
<1>2. /\ Len(v) \in Nat /\ Len(h) \in Nat /\ Len(w) = Len(v) + Len(h)
      /\ \A k \in DOMAIN v : w[k] = v[k]
  BY SequencesJoin, Zenon
<1>3. ASSUME NEW k \in DOMAIN w, Len(v) < k PROVE w[k].frame = Len(frames) + 1
  <2>1. PICK j \in DOMAIN h : w[k] = h[j]
    BY <1>3, AddedElements
  <2>2. QED BY <2>1
<1> HIDE DEF w
<1>4. Len(v) <= Len(w)
  BY <1>2
<1>5. frames \in Seq(FrameRec)
  BY DEF TypeOK
<1>6. Sliced(frames, w, first, n, start)
  BY <1>1, <1>4, SlicedInLonger, Zenon
<1>7. InSlice(frames, w, first, n) /\ OfOpen(frames, w, start)
  BY <1>1, <1>2, <1>3, <1>4, <1>5, HitsInLonger, Zenon
<1>8. QED BY <1>6, <1>7 DEF w

LEMMA UnpackPayloadKeeps == ASSUME PartitionInv, UnpackPayload PROVE PartitionInv'
<1> USE DEF PartitionInv
<1> DEFINE bank == Bank(payPos)
<1>1. /\ level = "payload" /\ level' = "payload" /\ BankReads(payPos, roc.end)
      /\ payPos' = bank.end /\ UNCHANGED input
      /\ \/ sink' = [sink EXCEPT !.fadc = @ \o FadcHits(bank)]
         \/ sink' = [sink EXCEPT !.dcrb = @ \o DcrbHits(bank)]
         \/ sink' = sink
      /\ UNCHANGED <<pos, setEnd, rocPos, frame, frames, deferred, roc>>
      /\ UNCHANGED <<hits, nextDeferred, decoded>>
  BY DEF UnpackPayload, NextPayload, setVars, childVars
<1>2. bank.start \in Int /\ bank.end \in Int /\ bank.end \in Positions
  <2>1. payPos \in Nat /\ roc.end \in Positions
    BY DEF TypeOK, Positions
  <2>2. bank.start \in Nat /\ bank.end \in Positions
    BY <1>1, <2>1, BankInside
  <2>3. QED BY <2>2 DEF Positions
<1> HIDE DEF bank
<1>3. IsSequence(FadcHits(bank)) /\ IsSequence(DcrbHits(bank))
  BY <1>2, FadcHitsOfFrame, DcrbHitsOfFrame
<1>4. /\ sink = [fadc |-> sink.fadc, dcrb |-> sink.dcrb]
      /\ IsSequence(sink.fadc) /\ IsSequence(sink.dcrb)
  BY DEF TypeOK, HasHits
<1>5. \E hf, hd :
        /\ IsSequence(hf) /\ IsSequence(hd)
        /\ \A k \in DOMAIN hf : hf[k].frame = HitFrame
        /\ \A k \in DOMAIN hd : hd[k].frame = HitFrame
        /\ sink' = [fadc |-> sink.fadc \o hf, dcrb |-> sink.dcrb \o hd]
  <2>1. <<>> \in Seq({}) /\ DOMAIN <<>> = {}
    OBVIOUS
  <2>2. IsSequence(<<>>) /\ \A k \in DOMAIN <<>> : <<>>[k].frame = HitFrame
    BY <2>1, SequenceOf
  <2>3. sink.fadc \o <<>> = sink.fadc /\ sink.dcrb \o <<>> = sink.dcrb
    BY <1>4 DEF IsSequence
  <2>4. CASE sink' = [sink EXCEPT !.fadc = @ \o FadcHits(bank)]
    <3>1. sink' = [fadc |-> sink.fadc \o FadcHits(bank), dcrb |-> sink.dcrb \o <<>>]
      BY <1>4, <2>3, <2>4
    <3>2. QED BY <1>2, <1>3, <2>2, <3>1, FadcHitsOfFrame, Zenon
  <2>5. CASE sink' = [sink EXCEPT !.dcrb = @ \o DcrbHits(bank)]
    <3>1. sink' = [fadc |-> sink.fadc \o <<>>, dcrb |-> sink.dcrb \o DcrbHits(bank)]
      BY <1>4, <2>3, <2>5
    <3>2. QED BY <1>2, <1>3, <2>2, <3>1, DcrbHitsOfFrame, Zenon
  <2>6. CASE sink' = sink
    <3>1. sink' = [fadc |-> sink.fadc \o <<>>, dcrb |-> sink.dcrb \o <<>>]
      BY <1>4, <2>3, <2>6
    <3>2. QED BY <2>2, <3>1, Zenon
  <2>7. QED BY <1>1, <2>4, <2>5, <2>6
<1>6. PICK hf, hd :
        /\ IsSequence(hf) /\ IsSequence(hd)
        /\ \A k \in DOMAIN hf : hf[k].frame = HitFrame
        /\ \A k \in DOMAIN hd : hd[k].frame = HitFrame
        /\ sink' = [fadc |-> sink.fadc \o hf, dcrb |-> sink.dcrb \o hd]
  BY <1>5
<1>7. sink'.fadc = sink.fadc \o hf /\ sink'.dcrb = sink.dcrb \o hd
  BY <1>6
<1>8. IsSequence(sink'.fadc) /\ IsSequence(sink'.dcrb)
  BY <1>4, <1>6, <1>7, SequencesJoin
<1>9. sink' = [fadc |-> sink'.fadc, dcrb |-> sink'.dcrb]
  BY <1>6, <1>7
<1>10. TypeOK'
  BY <1>1, <1>2, <1>8, <1>9, SamePlaces DEF TypeOK, HasHits
<1>11. Deferring' = Deferring
  BY <1>1 DEF Deferring
<1>12. Levels'
  BY <1>1, <1>11 DEF Levels
<1>13. SlicesInv'
  <2>1. CASE Deferring
    <3>1. ~Walking /\ ~Walking'
      BY <1>11, <2>1 DEF Walking
    <3>2. QED BY <1>1, <3>1, AfterTheWalk
  <2>2. CASE ~Deferring
    <3>1. Walking /\ Walking' /\ InSet /\ InSet'
      BY <1>1, <1>11, <2>2 DEF Walking, InSet
    <3>2. Fadc = sink.fadc /\ Dcrb = sink.dcrb /\ Fadc' = sink'.fadc /\ Dcrb' = sink'.dcrb
      BY <3>1 DEF Fadc, Dcrb
    <3>3. SlicesUpTo(frame.firstFadc, frame.firstDcrb, frame.firstDeferred)
      BY <3>1 DEF SlicesInv
    <3>4. HitFrame = Len(frames) + 1
      BY <2>2 DEF HitFrame
    <3>5. frame.firstFadc \in Nat /\ frame.firstDcrb \in Nat
      BY DEF TypeOK, OpenRec
    <3>6. IsKind("firstFadc", "nFadc") /\ IsKind("firstDcrb", "nDcrb")
      BY DEF IsKind, Kinds
    <3>7. /\ Sliced(frames, sink.fadc \o hf, "firstFadc", "nFadc", frame.firstFadc)
          /\ InSlice(frames, sink.fadc \o hf, "firstFadc", "nFadc")
          /\ OfOpen(frames, sink.fadc \o hf, frame.firstFadc)
      <4>1. /\ Sliced(frames, sink.fadc, "firstFadc", "nFadc", frame.firstFadc)
            /\ InSlice(frames, sink.fadc, "firstFadc", "nFadc")
            /\ OfOpen(frames, sink.fadc, frame.firstFadc)
        BY <3>2, <3>3 DEF SlicesUpTo
      <4>2. \A k \in DOMAIN hf : hf[k].frame = Len(frames) + 1
        BY <1>6, <3>4
      <4>3. QED BY <4>1, <4>2, <1>4, <1>6, <3>5, <3>6, HitsAdded, Zenon
    <3>8. /\ Sliced(frames, sink.dcrb \o hd, "firstDcrb", "nDcrb", frame.firstDcrb)
          /\ InSlice(frames, sink.dcrb \o hd, "firstDcrb", "nDcrb")
          /\ OfOpen(frames, sink.dcrb \o hd, frame.firstDcrb)
      <4>1. /\ Sliced(frames, sink.dcrb, "firstDcrb", "nDcrb", frame.firstDcrb)
            /\ InSlice(frames, sink.dcrb, "firstDcrb", "nDcrb")
            /\ OfOpen(frames, sink.dcrb, frame.firstDcrb)
        BY <3>2, <3>3 DEF SlicesUpTo
      <4>2. \A k \in DOMAIN hd : hd[k].frame = Len(frames) + 1
        BY <1>6, <3>4
      <4>3. QED BY <4>1, <4>2, <1>4, <1>6, <3>5, <3>6, HitsAdded, Zenon
    <3>9. SlicesUpTo(frame.firstFadc, frame.firstDcrb, frame.firstDeferred)'
      BY <1>1, <1>7, <3>2, <3>3, <3>7, <3>8 DEF SlicesUpTo
    <3>10. QED BY <3>1, <3>9 DEF SlicesInv
  <2>3. QED BY <2>1, <2>2
<1>14. QED BY <1>10, <1>12, <1>13

(* The frames are there to be decoded, with their hits and deferred banks. *)
LEMMA FrameInBounds ==
    ASSUME PartitionInv, ~Walking, Len(decoded) < Len(frames)
    PROVE  /\ frames[FrameBeingDecoded] \in FrameRec
           /\ LET f == frames[FrameBeingDecoded] IN
              /\ f.firstFadc + f.nFadc <= Len(hits.fadc)
              /\ f.firstDeferred + f.nDeferred <= Len(deferred)
<1> DEFINE g == FrameBeingDecoded
<1>1. g \in DOMAIN frames /\ frames[g] \in FrameRec
  BY DEF PartitionInv, TypeOK, IsSequence, FrameBeingDecoded
<1>2. ~InSet /\ Fadc = hits.fadc
  BY DEF InSet, Walking, Fadc
<1>3. /\ Sliced(frames, hits.fadc, "firstFadc", "nFadc", Len(hits.fadc))
      /\ Sliced(frames, deferred, "firstDeferred", "nDeferred", Len(deferred))
  BY <1>2 DEF PartitionInv, SlicesInv, SlicesUpTo
<1> HIDE DEF g
<1>4. /\ frames[g].firstFadc + frames[g].nFadc <= Len(hits.fadc)
      /\ frames[g].firstDeferred + frames[g].nDeferred <= Len(deferred)
  BY <1>1, <1>3 DEF Sliced
<1>5. QED BY <1>1, <1>4 DEF g

LEMMA DecodeFrameKeeps == ASSUME PartitionInv, DecodeFrame PROVE PartitionInv'
<1> USE DEF PartitionInv
<1> DEFINE f == frames[FrameBeingDecoded]
<1>1. /\ level = "parsed" /\ level' = "deferred" /\ Len(decoded) < Len(frames)
      /\ sink' = [fadc |-> OwnHits(f), dcrb |-> <<>>]
      /\ nextDeferred' = f.firstDeferred + 1 /\ UNCHANGED input
      /\ UNCHANGED <<pos, setEnd, rocPos, frame, frames, deferred, roc, payPos, hits, decoded>>
  BY DEF DecodeFrame, setVars, rocVars
<1>2. ~Walking
  BY <1>1 DEF Walking
<1>3. f \in FrameRec /\ f.firstFadc + f.nFadc <= Len(hits.fadc)
  BY <1>1, <1>2, FrameInBounds
<1> HIDE DEF f
<1>4. f.firstFadc \in Nat /\ f.nFadc \in Nat /\ f.firstDeferred \in Nat
  BY <1>3 DEF FrameRec
<1>5. IsSequence(OwnHits(f)) /\ IsSequence(<<>>)
  <2>1. hits.fadc \in Seq(Range(hits.fadc)) /\ Len(hits.fadc) \in Nat
    BY DEF TypeOK, HasHits, IsSequence
  <2>2. OwnHits(f) = SubSeq(hits.fadc, f.firstFadc + 1, f.firstFadc + f.nFadc)
    BY DEF OwnHits, Slice
  <2>3. OwnHits(f) \in Seq(Range(hits.fadc))
    BY <1>3, <1>4, <2>1, <2>2
  <2>4. <<>> \in Seq({})
    OBVIOUS
  <2>5. QED BY <2>3, <2>4, SequenceOf
<1>6. HasHits(sink')
  BY <1>1, <1>5 DEF HasHits
<1>7. TypeOK'
  BY <1>1, <1>4, <1>6, SamePlaces DEF TypeOK, HasHits
<1>8. Levels'
  BY <1>1, <1>4 DEF Levels, Deferring
<1>9. ~Walking'
  BY <1>1 DEF Walking
<1>10. SlicesInv'
  BY <1>1, <1>2, <1>9, AfterTheWalk
<1>11. QED BY <1>7, <1>8, <1>10

LEMMA DeferredInBounds ==
    ASSUME PartitionInv, DecodeRoc
    PROVE  nextDeferred \in DOMAIN deferred
<1>1. nextDeferred <= LastDeferred
  BY DEF DecodeRoc
<1>2. ~Walking /\ Deferring /\ nextDeferred \in Nat /\ Len(decoded) < Len(frames)
  BY DEF DecodeRoc, PartitionInv, Walking, Levels, TypeOK
<1>3. LET f == frames[FrameBeingDecoded]
      IN  f \in FrameRec /\ f.firstDeferred + f.nDeferred <= Len(deferred)
  BY <1>2, FrameInBounds
<1>4. LastDeferred \in Nat /\ LastDeferred <= Len(deferred)
  BY <1>3 DEF LastDeferred, FrameRec
<1>5. deferred \in Seq(DeferRec) /\ Len(deferred) \in Nat /\ DOMAIN deferred = 1..Len(deferred)
  BY DEF PartitionInv, TypeOK
<1>6. nextDeferred \in 1..Len(deferred)
  BY <1>1, <1>2, <1>4, <1>5 DEF Deferring
<1>7. QED BY <1>5, <1>6

LEMMA DecodeRocKeeps == ASSUME PartitionInv, DecodeRoc PROVE PartitionInv'
<1> USE DEF PartitionInv
<1> DEFINE d == deferred[nextDeferred]
<1>1. /\ level = "deferred" /\ nextDeferred <= LastDeferred /\ UNCHANGED input
      /\ \/ UNCHANGED <<level, rocVars>>
         \/ BankReads(d.pos, d.limit) /\ ParseRocBank(Bank(d.pos))
      /\ nextDeferred' = nextDeferred + 1
      /\ UNCHANGED <<pos, setEnd, rocPos, frame, frames, deferred, sink, hits, decoded>>
  BY DEF DecodeRoc, setVars
<1>2. ~Walking /\ Deferring /\ nextDeferred \in Nat /\ Len(decoded) < Len(frames)
  BY <1>1 DEF Walking, Levels, TypeOK
<1>3. nextDeferred \in DOMAIN deferred
  BY DeferredInBounds
<1>4. d.pos \in Nat /\ d.limit \in Positions
  <2>1. d \in DeferRec
    BY <1>3 DEF TypeOK
  <2>2. d.pos \in Positions /\ d.limit \in Positions
    BY <2>1 DEF DeferRec
  <2> HIDE DEF d
  <2>3. QED BY <2>2 DEF Positions
<1> HIDE DEF d
<1>5. /\ level' \in {"deferred", "payload"} /\ payPos' \in Positions
      /\ roc'.start \in Nat /\ roc'.end \in Positions
  <2>1. CASE UNCHANGED <<level, rocVars>>
    BY <1>1, <2>1 DEF rocVars, TypeOK
  <2>2. CASE BankReads(d.pos, d.limit) /\ ParseRocBank(Bank(d.pos))
    BY <1>1, <1>4, <2>2, RocKeepsType
  <2>3. QED BY <1>1, <2>1, <2>2
<1>6. Deferring' /\ nextDeferred' \in Nat
  BY <1>1, <1>2 DEF Deferring
<1>7. TypeOK'
  BY <1>1, <1>5, <1>6, SamePlaces DEF TypeOK
<1>8. Levels'
  BY <1>1, <1>2, <1>5, <1>6 DEF Levels
<1>9. ~Walking'
  BY <1>6 DEF Walking
<1>10. SlicesInv'
  BY <1>1, <1>2, <1>9, AfterTheWalk
<1>11. QED BY <1>7, <1>8, <1>10

LEMMA EndFrameKeeps == ASSUME PartitionInv, EndFrame PROVE PartitionInv'
<1> USE DEF PartitionInv
<1>1. /\ level = "deferred" /\ level' = "parsed" /\ decoded' = Append(decoded, sink)
      /\ nextDeferred' = 0 /\ UNCHANGED input
      /\ UNCHANGED <<pos, setEnd, rocPos, frame, frames, deferred, roc, payPos, sink, hits>>
  BY DEF EndFrame, setVars, rocVars
<1>2. IsSequence(decoded')
  <2>1. decoded \in Seq(Range(decoded) \cup {sink})
    BY DEF TypeOK, IsSequence
  <2>2. decoded' \in Seq(Range(decoded) \cup {sink})
    BY <1>1, <2>1
  <2>3. QED BY <2>2, SequenceOf
<1>3. TypeOK'
  BY <1>1, <1>2, SamePlaces DEF TypeOK
<1>4. Levels'
  BY <1>1 DEF Levels, Deferring
<1>5. ~Walking /\ ~Walking'
  BY <1>1 DEF Walking
<1>6. SlicesInv'
  BY <1>1, <1>5, AfterTheWalk
<1>7. QED BY <1>3, <1>4, <1>6

LEMMA AllReadKeeps == ASSUME PartitionInv, AllRead PROVE PartitionInv'
<1> USE DEF PartitionInv
<1>1. /\ level = "parsed" /\ level' = "done" /\ UNCHANGED input
      /\ UNCHANGED <<pos, setEnd, rocPos, frame, frames, deferred, roc, payPos, sink, hits>>
      /\ UNCHANGED <<nextDeferred, decoded>>
  BY DEF AllRead, setVars, rocVars, childVars
<1>2. TypeOK'
  BY <1>1, SamePlaces DEF TypeOK
<1>3. Levels'
  BY <1>1 DEF Levels, Deferring
<1>4. ~Walking /\ ~Walking'
  BY <1>1 DEF Walking
<1>5. SlicesInv'
  BY <1>1, <1>4, AfterTheWalk
<1>6. QED BY <1>2, <1>3, <1>5

LEMMA ParseAgainKeeps == ASSUME PartitionInv, ParseAgain PROVE PartitionInv'
<1> USE DEF PartitionInv
<1>1. /\ level = "done" /\ level' = "set" /\ pos' = 0
      /\ frames' = <<>> /\ deferred' = <<>> /\ sink' = NoHits /\ hits' = NoHits
      /\ words' = words
      /\ UNCHANGED <<setEnd, rocPos, payPos, roc, frame, nextDeferred, decoded>>
  BY DEF ParseAgain, rocVars
<1>2. Positions' = Positions /\ DeferRec' = DeferRec /\ 0 \in Positions
  <2>1. Size' = Size /\ Size \in Nat
    BY <1>1 DEF Size, TypeOK
  <2>2. Positions' = Positions /\ 0 \in Positions
    BY <2>1 DEF Positions
  <2>3. QED BY <2>2 DEF DeferRec
<1>3. HasHits(sink') /\ HasHits(hits')
  BY <1>1, NoHitsHaveHits
<1>4. frames' \in Seq(FrameRec) /\ deferred' \in Seq(DeferRec)
  BY <1>1
<1>5. TypeOK'
  BY <1>1, <1>2, <1>3, <1>4 DEF TypeOK, HasHits
<1>6. nextDeferred = 0
  BY <1>1 DEF Levels, Deferring, TypeOK
<1>7. Levels'
  BY <1>1, <1>6 DEF Levels, Deferring
<1>8. SlicesInv'
  <2>1. Walking' /\ ~InSet'
    BY <1>1, <1>6 DEF Walking, InSet, Deferring
  <2>2. Fadc' = <<>> /\ Dcrb' = <<>> /\ Len(<<>>) = 0
    BY <1>1, <2>1 DEF Fadc, Dcrb, NoHits
  <2>3. OfOpen(<<>>, <<>>, 0)
    BY DEF OfOpen
  <2>4. SlicesUpTo(Len(Fadc), Len(Dcrb), Len(deferred))'
    BY <1>1, <2>2, <2>3, EmptySlices DEF SlicesUpTo
  <2>5. QED BY <2>1, <2>4 DEF SlicesInv
<1>9. QED BY <1>5, <1>7, <1>8

-----------------------------------------------------------------------------
LEMMA UnchangedKeeps == ASSUME PartitionInv, UNCHANGED parseVars PROVE PartitionInv'
<1>1. UNCHANGED <<words, level, pos, setEnd, rocPos, payPos, roc, frame, frames, deferred,
                  sink, hits, nextDeferred, decoded>>
  BY DEF parseVars, parserVars, input, setVars, rocVars, childVars
<1>2. Size' = Size /\ Positions' = Positions /\ Deferring' = Deferring
  BY <1>1 DEF Size, Positions, Deferring
<1>3. DeferRec' = DeferRec
  BY <1>2 DEF DeferRec
<1>4. TypeOK'
  BY <1>1, <1>2, <1>3 DEF PartitionInv, TypeOK, HasHits, IsSequence, Range
<1>5. Levels'
  BY <1>1, <1>2 DEF PartitionInv, Levels
<1>6. Walking' = Walking /\ InSet' = InSet
  BY <1>1, <1>2 DEF Walking, InSet
<1>7. Fadc' = Fadc /\ Dcrb' = Dcrb
  BY <1>1, <1>6 DEF Fadc, Dcrb
<1>8. SlicesInv'
  BY <1>1, <1>6, <1>7, SlicesStay DEF PartitionInv
<1>9. QED BY <1>4, <1>5, <1>8 DEF PartitionInv

LEMMA PartitionPreserved ==
    ASSUME PartitionInv, [Parse \/ ParseAgain \/ Done]_parseVars
    PROVE  PartitionInv'
<1>1. CASE Parse
  <2>1. ParserNext
    BY <1>1 DEF Parse
  <2>2. CASE EndBlock \/ AbandonBlock
    BY <2>2, EndWalkKeeps DEF EndBlock, AbandonBlock
  <2>3. QED
    BY <2>1, <2>2, SkipSetKeeps, OpenSetKeeps, CloseSetKeeps, DeferRocKeeps, ReadRocKeeps,
       EndPayloadsKeeps, UnpackPayloadKeeps, DecodeFrameKeeps, DecodeRocKeeps, EndFrameKeeps,
       AllReadKeeps DEF ParserNext
<1>2. CASE ParseAgain
  BY <1>2, ParseAgainKeeps
<1>3. CASE Done \/ UNCHANGED parseVars
  BY <1>3, UnchangedKeeps DEF Done
<1>4. QED BY <1>1, <1>2, <1>3

(* The inductive invariant of the parser.                                  *)
THEOREM PartitionInvariant == ParseSpec => []PartitionInv
BY PartitionInitially, PartitionPreserved, PTL DEF ParseSpec

(* SroData.h:51: the hit ranges of the frames are contiguous slices of the *)
(* hit vectors, of all of them, whatever the words of the block are.       *)
THEOREM SlicesPartition == ParseSpec => []SlicesPartitionHits
<1>1. PartitionInv => SlicesPartitionHits
  <2> SUFFICES ASSUME PartitionInv, level \in {"parsed", "deferred", "done"}
               PROVE  /\ Follows(frames, "firstFadc", "nFadc", Len(hits.fadc))
                      /\ Follows(frames, "firstDcrb", "nDcrb", Len(hits.dcrb))
                      /\ Follows(frames, "firstDeferred", "nDeferred", Len(deferred))
                      /\ InSlice(frames, hits.fadc, "firstFadc", "nFadc")
                      /\ InSlice(frames, hits.dcrb, "firstDcrb", "nDcrb")
    BY DEF SlicesPartitionHits
  <2>1. ~InSet /\ Fadc = hits.fadc /\ Dcrb = hits.dcrb
    BY DEF InSet, Walking, Fadc, Dcrb
  <2>2. SlicesUpTo(Len(Fadc), Len(Dcrb), Len(deferred))
    BY <2>1 DEF PartitionInv, SlicesInv
  <2>3. QED BY <2>1, <2>2 DEF SlicesUpTo, Sliced
<1>2. QED BY <1>1, PartitionInvariant, PTL

-----------------------------------------------------------------------------
(* No step changes the block.                                               *)
LEMMA WordsKept == [Parse \/ ParseAgain \/ Done]_parseVars => words' = words
<1>1. ParserNext => words' = words
  BY DEF ParserNext, EndBlock, AbandonBlock, EndWalk, SkipSet, OpenSet, CloseSet, DeferRoc,
     ReadRoc, EndPayloads, UnpackPayload, DecodeFrame, DecodeRoc, EndFrame, AllRead, input
<1>2. QED BY <1>1 DEF Parse, ParseAgain, Done, parseVars, parserVars, input

(* The loops over ROC banks and payloads, of the frame that is walked and  *)
(* of one that is decoded later.                                           *)
RocsNest ==
    level \in {"roc", "payload"} /\ ~Deferring => rocPos <= setEnd /\ setEnd <= pos /\ pos <= Size
PayloadsNest ==
    /\ level = "payload" => roc.start <= payPos /\ payPos <= roc.end /\ roc.end <= Size
    /\ level = "payload" /\ ~Deferring => roc.end = rocPos

LEMMA NestByParts == CursorsNest <=> RocsNest /\ PayloadsNest
BY DEF CursorsNest, RocsNest, PayloadsNest

LEMMA PlacesAreNumbers == ASSUME TypeOK PROVE Size \in Nat /\ Size \in Positions /\ Positions \subseteq Nat
                                              /\ \A i \in Positions : i <= Size
BY DEF TypeOK, Size, Positions

LEMMA RocNests ==
    ASSUME TypeOK, NoneWraps, NEW p \in Nat, NEW limit \in Positions, BankReads(p, limit),
           ParseRocBank(Bank(p))
    PROVE  \/ UNCHANGED <<level, rocVars>>
           \/ /\ level' = "payload" /\ roc'.end = Bank(p).end
              /\ roc'.start <= payPos' /\ payPos' <= roc'.end /\ roc'.end <= Size
<1> DEFINE bank == Bank(p)
<1>1. bank.start \in Nat /\ bank.end \in Positions /\ bank.start = p + 2
  BY BankInside
<1>2. p = bank.start - 2
  BY <1>1
<1>3. bank = Bank(bank.start - 2)
  BY <1>2
<1>4. ParseRocBank(bank) /\ bank.end <= Size
  BY <1>1, PlacesAreNumbers
<1> HIDE DEF bank
<1>5. \/ UNCHANGED <<level, rocVars>>
      \/ /\ level' = "payload" /\ roc' = bank /\ payPos' <= bank.end
         /\ NoneWraps => bank.start <= payPos'
  BY <1>1, <1>3, <1>4, RocParsed
<1>6. QED BY <1>4, <1>5 DEF bank

LEMMA NestPreserved ==
    ASSUME PartitionInv, NoneWraps, CursorsNest, ParserNext
    PROVE  CursorsNest'
<1>1. TypeOK /\ Levels /\ RocsNest /\ PayloadsNest
  BY NestByParts DEF PartitionInv
<1>2. /\ pos \in Nat /\ rocPos \in Nat /\ payPos \in Nat /\ roc.start \in Nat
      /\ roc.end \in Positions /\ setEnd \in Positions /\ Size \in Positions /\ Size \in Nat
      /\ setEnd \in Nat /\ roc.end \in Nat
  BY <1>1, PlacesAreNumbers DEF TypeOK
<1>3. CASE EndBlock \/ AbandonBlock \/ SkipSet \/ CloseSet \/ DecodeFrame \/ EndFrame \/ AllRead
  <2>1. level' \notin {"roc", "payload"}
    BY <1>3 DEF EndBlock, AbandonBlock, EndWalk, SkipSet, CloseSet, DecodeFrame, EndFrame, AllRead
  <2>2. QED BY <2>1 DEF CursorsNest
<1>4. CASE OpenSet
  <2> DEFINE set == Bank(pos)
             sib == Bank(set.start)
  <2>1. /\ level' = "roc" /\ SetReads /\ SibReads /\ UNCHANGED input
        /\ pos' = set.end /\ setEnd' = set.end /\ rocPos' = sib.end
    BY <1>4 DEF OpenSet
  <2>2. set.start \in Nat /\ set.end \in Positions
    BY <1>1, <1>2, <2>1, BankInside DEF SetReads
  <2>3. sib.end \in Positions /\ sib.end <= set.end
    BY <1>1, <2>1, <2>2, BankInside DEF SibReads
  <2> HIDE DEF set, sib
  <2>4. set.end <= Size /\ set.end \in Nat /\ Size' = Size
    BY <1>1, <2>1, <2>2, PlacesAreNumbers DEF Size, input
  <2>5. QED BY <2>1, <2>3, <2>4 DEF CursorsNest
<1>5. CASE DeferRoc
  <2>1. /\ level = "roc" /\ level' = "roc" /\ BankReads(rocPos, setEnd)
        /\ rocPos' = Bank(rocPos).end /\ words' = words /\ UNCHANGED <<setEnd, pos, nextDeferred>>
    BY <1>5 DEF DeferRoc, input, childVars
  <2>2. rocPos' <= setEnd
    BY <1>1, <1>2, <2>1, BankInside
  <2>3. ~Deferring /\ Size' = Size
    BY <1>1, <2>1 DEF Levels, Size
  <2>4. QED BY <1>1, <2>1, <2>2, <2>3 DEF CursorsNest, RocsNest
<1>6. CASE ReadRoc
  <2>1. /\ level = "roc" /\ BankReads(rocPos, setEnd) /\ ParseRocBank(Bank(rocPos))
        /\ rocPos' = Bank(rocPos).end /\ words' = words /\ UNCHANGED <<setEnd, pos, nextDeferred>>
    BY <1>6 DEF ReadRoc, input, childVars
  <2>2. rocPos' <= setEnd
    BY <1>1, <1>2, <2>1, BankInside
  <2>3. ~Deferring /\ Size' = Size
    BY <1>1, <2>1 DEF Levels, Size
  <2>4. \/ UNCHANGED <<level, rocVars>>
        \/ /\ level' = "payload" /\ roc'.end = Bank(rocPos).end
           /\ roc'.start <= payPos' /\ payPos' <= roc'.end /\ roc'.end <= Size
    BY <1>1, <1>2, <2>1, RocNests
  <2>5. RocsNest'
    BY <1>1, <2>1, <2>2, <2>3 DEF RocsNest
  <2>6. PayloadsNest'
    BY <2>1, <2>3, <2>4 DEF PayloadsNest
  <2>7. CursorsNest' <=> RocsNest' /\ PayloadsNest'
    BY DEF CursorsNest, RocsNest, PayloadsNest
  <2>8. QED BY <2>5, <2>6, <2>7
<1>7. CASE EndPayloads
  <2>1. /\ level = "payload" /\ level' = IF Deferring THEN "deferred" ELSE "roc"
        /\ words' = words /\ UNCHANGED <<pos, setEnd, rocPos, nextDeferred>>
    BY <1>7 DEF EndPayloads, input, setVars, childVars
  <2>2. Size' = Size /\ Deferring' = Deferring
    BY <2>1 DEF Size, Deferring
  <2>3. QED BY <1>1, <2>1, <2>2 DEF CursorsNest, RocsNest
<1>8. CASE UnpackPayload
  <2>1. /\ level = "payload" /\ level' = "payload" /\ payPos < roc.end
        /\ BankReads(payPos, roc.end) /\ payPos' = Bank(payPos).end
        /\ words' = words /\ UNCHANGED <<pos, setEnd, rocPos, roc, nextDeferred>>
    BY <1>8 DEF UnpackPayload, NextPayload, input, setVars, childVars
  <2>2. /\ Bank(payPos).start = payPos + 2 /\ Bank(payPos).end \in Positions
        /\ Bank(payPos).end <= roc.end /\ Bank(payPos).start <= Bank(payPos).end
    BY <1>1, <1>2, <2>1, BankInside
  <2>3. roc.start <= payPos /\ payPos' \in Nat
    BY <1>1, <2>1, <2>2, PlacesAreNumbers DEF PayloadsNest
  <2>4. roc.start <= payPos' /\ payPos' <= roc.end
    BY <1>2, <2>1, <2>2, <2>3
  <2>5. Size' = Size /\ Deferring' = Deferring
    BY <2>1 DEF Size, Deferring
  <2>6. RocsNest'
    BY <1>1, <2>1, <2>5 DEF RocsNest
  <2>7. PayloadsNest'
    BY <1>1, <2>1, <2>4, <2>5 DEF PayloadsNest
  <2>8. CursorsNest' <=> RocsNest' /\ PayloadsNest'
    BY DEF CursorsNest, RocsNest, PayloadsNest
  <2>9. QED BY <2>6, <2>7, <2>8
<1>9. CASE DecodeRoc
  <2> DEFINE d == deferred[nextDeferred]
  <2>1. /\ level = "deferred" /\ words' = words /\ nextDeferred' = nextDeferred + 1
        /\ \/ UNCHANGED <<level, rocVars>>
           \/ BankReads(d.pos, d.limit) /\ ParseRocBank(Bank(d.pos))
    BY <1>9 DEF DecodeRoc, input
  <2>2. d.pos \in Nat /\ d.limit \in Positions
    <3>1. nextDeferred \in DOMAIN deferred
      BY <1>9, DeferredInBounds
    <3>2. d \in DeferRec
      BY <1>1, <3>1 DEF TypeOK
    <3> HIDE DEF d
    <3>3. d.pos \in Positions /\ d.limit \in Positions
      BY <3>2 DEF DeferRec
    <3>4. QED BY <1>1, <3>3, PlacesAreNumbers
  <2> HIDE DEF d
  <2>3. Deferring' /\ Size' = Size
    BY <1>1, <2>1 DEF Levels, Deferring, TypeOK, Size
  <2>4. CASE UNCHANGED <<level, rocVars>>
    BY <2>1, <2>4 DEF CursorsNest
  <2>5. CASE BankReads(d.pos, d.limit) /\ ParseRocBank(Bank(d.pos))
    <3>1. \/ UNCHANGED <<level, rocVars>>
          \/ /\ level' = "payload"
             /\ roc'.start <= payPos' /\ payPos' <= roc'.end /\ roc'.end <= Size
      BY <1>1, <2>2, <2>5, RocNests
    <3>2. QED BY <2>1, <2>3, <3>1 DEF CursorsNest
  <2>6. QED BY <2>1, <2>4, <2>5
<1>10. QED BY <1>3, <1>4, <1>5, <1>6, <1>7, <1>8, <1>9 DEF ParserNext

(* SroFrameSetParser.cc:24: the banks being walked lie inside one another, *)
(* and every cursor inside its bank, if no length wraps around.            *)
THEOREM BanksNesting == ParseSpec => []BanksNest
<1> DEFINE NestInv == PartitionInv /\ NoneWraps /\ CursorsNest
<1>1. BlockInit /\ NoneWraps => NestInv
  <2>1. BlockInit => CursorsNest
    BY DEF BlockInit, ParserInit, CursorsNest
  <2>2. QED BY <2>1, PartitionInitially
<1>2. NestInv /\ [Parse \/ ParseAgain \/ Done]_parseVars => NestInv'
  <2> SUFFICES ASSUME NestInv, [Parse \/ ParseAgain \/ Done]_parseVars PROVE NestInv'
    OBVIOUS
  <2>1. PartitionInv'
    BY PartitionPreserved
  <2>2. NoneWraps'
    BY WordsKept DEF NoneWraps, Size
  <2>3. CursorsNest'
    <3>1. CASE Parse
      BY <3>1, NestPreserved DEF Parse
    <3>2. CASE ParseAgain
      BY <3>2 DEF ParseAgain, CursorsNest
    <3>3. CASE Done \/ UNCHANGED parseVars
      <4>1. UNCHANGED <<words, level, pos, setEnd, rocPos, payPos, roc, nextDeferred>>
        BY <3>3 DEF Done, parseVars, parserVars, input, setVars, rocVars, childVars
      <4>2. QED BY <4>1 DEF CursorsNest, Deferring, Size
    <3>4. QED BY <3>1, <3>2, <3>3
  <2>4. QED BY <2>1, <2>2, <2>3
<1>3. ~NoneWraps /\ [Parse \/ ParseAgain \/ Done]_parseVars => ~NoneWraps'
  BY WordsKept DEF NoneWraps, Size
<1>4. NestInv => BanksNest
  BY DEF BanksNest
<1>5. ~NoneWraps => BanksNest
  BY DEF BanksNest
<1>6. QED BY <1>1, <1>2, <1>3, <1>4, <1>5, PTL DEF ParseSpec

-----------------------------------------------------------------------------
(* What the walk finds, said of the words alone.                            *)
BanksWithin(limit) == [p \in {q \in Nat : BankReads(q, limit)} |-> Bank(p).end]
SetBanks == [p \in {q \in Nat : BankReads(q, Size) /\ Bank(q).tag = "set"} |-> Bank(p).end]

Sib(p)   == Bank(Bank(p).start)
Opens(p) == /\ BankReads(Bank(p).start, Bank(p).end)
            /\ Sib(p).tag = "sib" /\ Sib(p).start + 4 <= Sib(p).end
SetChain == Chain(0, SetBanks)
OpenSets == {p \in SetChain \cap DOMAIN SetBanks : Opens(p)}

RocChain(p) == Chain(Sib(p).end, BanksWithin(Bank(p).end))
Rocs(p)     == RocChain(p) \cap DOMAIN BanksWithin(Bank(p).end)

(* The ROC banks that are decoded at once, when parsing is lazy (z) or not. *)
Direct(z) == {r \in Nat : z => Bank(r).tag \in EcalRocs}

MapLen(r)      == At(MapPos(Bank(r))).slen
HasPayloads(r) == /\ InfoReads(Bank(r)) /\ MapPos(Bank(r)) < Size
                  /\ MapLen(r) > 0 /\ MapReads(Bank(r), MapLen(r))
ModulesOf(r)   == [id \in PayloadIds |-> ModuleOf(Entries(Bank(r), MapLen(r)), id)]
PayloadChain(r) == Chain(Bank(Bank(r).start).end, BanksWithin(Bank(r).end))
Payloads(r) == IF HasPayloads(r) THEN PayloadChain(r) \cap DOMAIN BanksWithin(Bank(r).end)
               ELSE {}

(* The hits of a payload, a ROC bank, and of several, for frame f.         *)
ModuleAt(r, y) == IF Bank(y).tag \in PayloadIds THEN ModulesOf(r)[Bank(y).tag] ELSE "none"
Units(kind, y) == IF kind = "fadc" THEN FadcWords(Bank(y)) ELSE DcrbWords(Bank(y))
PayloadHits(kind, f, r, y) ==
    {[frame |-> f, roc |-> Bank(r).tag, slot |-> Bank(y).tag, word |-> i] :
        i \in {u \in Units(kind, y) : ModuleAt(r, y) = kind}}
SomeHits(kind, f, r, upto) == UNION {PayloadHits(kind, f, r, y) : y \in {x \in Payloads(r) : x < upto}}
RocHits(kind, f, r)   == UNION {PayloadHits(kind, f, r, y) : y \in Payloads(r)}
HitsOf(kind, f, rocs) == UNION {RocHits(kind, f, r) : r \in rocs}


(* What lazy parsing notes of the ROC banks of a set that are not decoded.  *)
DeferredOf(p, rocs) == {[pos |-> r, limit |-> Bank(p).end] : r \in rocs}
(* None of it changes with the words as they are.                           *)
LEMMA SameWalk ==
    ASSUME words' = words
    PROVE  /\ Size' = Size /\ OpenSets' = OpenSets /\ SetChain' = SetChain /\ SetBanks' = SetBanks
           /\ \A p : /\ Bank(p)' = Bank(p) /\ Opens(p)' = Opens(p) /\ Sib(p)' = Sib(p)
                     /\ Rocs(p)' = Rocs(p) /\ RocChain(p)' = RocChain(p)
                     /\ HasPayloads(p)' = HasPayloads(p) /\ ModulesOf(p)' = ModulesOf(p)
                     /\ Payloads(p)' = Payloads(p) /\ PayloadChain(p)' = PayloadChain(p)
           /\ \A z : Direct(z)' = Direct(z)
           /\ \A p, R : DeferredOf(p, R)' = DeferredOf(p, R)
           /\ \A kind, f, R : HitsOf(kind, f, R)' = HitsOf(kind, f, R)
           /\ \A kind, f, r, u : SomeHits(kind, f, r, u)' = SomeHits(kind, f, r, u)
<1>1. /\ Size' = Size /\ \A p : At(p)' = At(p)
  BY DEF Size, At
<1>2. (\A p : BankEnd(p)' = BankEnd(p)) /\ \A p : Bank(p)' = Bank(p)
  BY <1>1 DEF BankEnd, Bank
<1>3. \A p, limit : BankReads(p, limit)' = BankReads(p, limit)
  BY <1>1, <1>2 DEF BankReads
<1>4. (\A limit : BanksWithin(limit)' = BanksWithin(limit)) /\ SetBanks' = SetBanks
  BY <1>1, <1>2, <1>3 DEF BanksWithin, SetBanks
<1>5. SetChain' = SetChain /\ (\A p : Sib(p)' = Sib(p)) /\ \A p : Opens(p)' = Opens(p)
  BY <1>2, <1>3, <1>4 DEF SetChain, Sib, Opens
<1>6. OpenSets' = OpenSets
  BY <1>4, <1>5 DEF OpenSets
<1>7. \A p : Rocs(p)' = Rocs(p) /\ RocChain(p)' = RocChain(p)
  BY <1>2, <1>4, <1>5 DEF Rocs, RocChain
<1>8. \A p : HasPayloads(p)' = HasPayloads(p)
  BY <1>1, <1>2, <1>3 DEF HasPayloads, InfoReads, MapPos, MapLen, MapReads
<1>9. \A p : ModulesOf(p)' = ModulesOf(p)
  BY <1>1, <1>2 DEF ModulesOf, Entries, MapLen, MapPos
<1>10. \A p : Payloads(p)' = Payloads(p) /\ PayloadChain(p)' = PayloadChain(p)
  BY <1>2, <1>4, <1>8 DEF Payloads, PayloadChain
<1>11. \A z : Direct(z)' = Direct(z)
  BY <1>2 DEF Direct
<1>12. \A p, R : DeferredOf(p, R)' = DeferredOf(p, R)
  BY <1>2 DEF DeferredOf
<1>13. \A kind, y : Units(kind, y)' = Units(kind, y)
  <2>1. \A y : FadcWords(Bank(y))' = FadcWords(Bank(y))
    BY <1>2 DEF FadcWords
  <2>2. \A y : DcrbWords(Bank(y))' = DcrbWords(Bank(y))
    BY <1>1, <1>2 DEF DcrbWords, Pairs, Contents, BadGroup
  <2>3. QED BY <2>1, <2>2 DEF Units
<1>14. \A r, y : ModuleAt(r, y)' = ModuleAt(r, y)
  BY <1>2, <1>9 DEF ModuleAt
<1>15. \A kind, f, r, y : PayloadHits(kind, f, r, y)' = PayloadHits(kind, f, r, y)
  BY <1>2, <1>13, <1>14 DEF PayloadHits
<1>16. \A kind, f, r, u : SomeHits(kind, f, r, u)' = SomeHits(kind, f, r, u)
  BY <1>10, <1>15 DEF SomeHits
<1>17. \A kind, f, R : HitsOf(kind, f, R)' = HitsOf(kind, f, R)
  <2>1. \A kind, f, r : RocHits(kind, f, r)' = RocHits(kind, f, r)
    BY <1>10, <1>15 DEF RocHits
  <2>2. QED BY <2>1 DEF HitsOf
<1>18. QED BY <1>1, <1>2, <1>4, <1>5, <1>6, <1>7, <1>8, <1>9, <1>10, <1>11, <1>12, <1>16, <1>17

(* Banks follow one another.                                               *)
LEMMA BanksGoForward ==
    ASSUME TypeOK, NoneWraps, NEW limit \in Positions
    PROVE  /\ Forward(BanksWithin(limit))
           /\ \A p \in DOMAIN BanksWithin(limit) :
                /\ p \in Nat /\ BankReads(p, limit) /\ BanksWithin(limit)[p] = Bank(p).end
                /\ Bank(p).start = p + 2 /\ Bank(p).end \in Positions /\ Bank(p).end \in Nat
                /\ p + 2 <= Bank(p).end /\ Bank(p).end <= limit
<1>1. ASSUME NEW p \in Nat, BankReads(p, limit)
      PROVE  /\ Bank(p).start = p + 2 /\ Bank(p).end \in Positions /\ Bank(p).end \in Nat
             /\ p + 2 <= Bank(p).end /\ Bank(p).end <= limit
  <2>1. /\ Bank(p).start = p + 2 /\ Bank(p).end \in Positions
        /\ Bank(p).end <= limit /\ Bank(p).start <= Bank(p).end
    BY <1>1, BankInside
  <2>2. QED BY <2>1, PlacesAreNumbers
<1>2. /\ DOMAIN BanksWithin(limit) = {q \in Nat : BankReads(q, limit)}
      /\ \A p \in {q \in Nat : BankReads(q, limit)} : BanksWithin(limit)[p] = Bank(p).end
  BY DEF BanksWithin
<1>3. ASSUME NEW p \in DOMAIN BanksWithin(limit)
      PROVE  p \in Nat /\ BanksWithin(limit)[p] \in Nat /\ p < BanksWithin(limit)[p]
  <2>1. p \in Nat /\ BankReads(p, limit)
    BY <1>2, <1>3
  <2>2. Bank(p).end \in Nat /\ p + 2 <= Bank(p).end /\ BanksWithin(limit)[p] = Bank(p).end
    BY <1>1, <1>2, <2>1
  <2>3. QED BY <2>1, <2>2
<1>4. Forward(BanksWithin(limit))
  BY <1>3 DEF Forward
<1>5. QED BY <1>1, <1>2, <1>4

LEMMA SetsGoForward ==
    ASSUME TypeOK, NoneWraps
    PROVE  /\ Forward(SetBanks)
           /\ \A p \in DOMAIN SetBanks :
                /\ p \in Nat /\ BankReads(p, Size) /\ Bank(p).tag = "set" /\ SetBanks[p] = Bank(p).end
                /\ Bank(p).start = p + 2 /\ Bank(p).end \in Positions /\ Bank(p).end \in Nat
                /\ p + 2 <= Bank(p).end
<1>1. Size \in Positions
  BY PlacesAreNumbers
<1>2. /\ Forward(BanksWithin(Size))
      /\ \A p \in DOMAIN BanksWithin(Size) :
                /\ p \in Nat /\ BankReads(p, Size) /\ BanksWithin(Size)[p] = Bank(p).end
                /\ Bank(p).start = p + 2 /\ Bank(p).end \in Positions /\ Bank(p).end \in Nat
                /\ p + 2 <= Bank(p).end
  BY <1>1, BanksGoForward
<1>3. ASSUME NEW p \in DOMAIN SetBanks
      PROVE  p \in DOMAIN BanksWithin(Size) /\ Bank(p).tag = "set" /\ SetBanks[p] = Bank(p).end
  BY DEF SetBanks, BanksWithin
<1>4. QED BY <1>2, <1>3 DEF Forward

(* Where the ROC banks of a set begin and end.                             *)
LEMMA RocsOfSet ==
    ASSUME TypeOK, NoneWraps, NEW p \in OpenSets
    PROVE  /\ p \in Nat /\ p \in SetChain /\ p \in DOMAIN SetBanks /\ Sib(p).start = p + 4
           /\ Bank(p).end \in Positions /\ Bank(p).end \in Nat
           /\ Sib(p).end \in Positions /\ Sib(p).end \in Nat /\ Sib(p).end <= Bank(p).end
           /\ Forward(BanksWithin(Bank(p).end))
           /\ Rocs(p) \subseteq Nat /\ RocChain(p) \subseteq Nat
<1>1. p \in SetChain /\ p \in DOMAIN SetBanks /\ Opens(p)
  BY DEF OpenSets
<1>2. p \in Nat /\ Bank(p).start = p + 2 /\ Bank(p).end \in Positions /\ Bank(p).end \in Nat
  BY <1>1, SetsGoForward
<1>3. BankReads(Bank(p).start, Bank(p).end) /\ Bank(p).start \in Nat
  BY <1>1, <1>2 DEF Opens
<1>4. /\ Sib(p).start = Bank(p).start + 2 /\ Sib(p).end \in Positions /\ Sib(p).end <= Bank(p).end
  BY <1>2, <1>3, BankInside DEF Sib
<1>5. Sib(p).end \in Nat /\ Sib(p).start = p + 4
  BY <1>2, <1>4, PlacesAreNumbers
<1>6. Forward(BanksWithin(Bank(p).end))
  BY <1>2, BanksGoForward
<1>7. Rocs(p) \subseteq Nat /\ RocChain(p) \subseteq Nat
  BY <1>5, <1>6, ChainGoesOn DEF Rocs, RocChain
<1>8. QED BY <1>1, <1>2, <1>4, <1>5, <1>6, <1>7

LEMMA RocOfSet ==
    ASSUME TypeOK, NoneWraps, NEW p \in OpenSets, NEW r \in Rocs(p)
    PROVE  /\ r \in Nat /\ r \in RocChain(p) /\ r \in DOMAIN BanksWithin(Bank(p).end)
           /\ BankReads(r, Bank(p).end) /\ Bank(r).start = r + 2
           /\ Bank(r).end \in Positions /\ Bank(r).end \in Nat /\ r + 2 <= Bank(r).end
           /\ BanksWithin(Bank(p).end)[r] = Bank(r).end
<1>1. Bank(p).end \in Positions
  BY RocsOfSet
<1>2. r \in RocChain(p) /\ r \in DOMAIN BanksWithin(Bank(p).end)
  BY DEF Rocs
<1>3. QED BY <1>1, <1>2, BanksGoForward

(* The payloads of a ROC bank.                                             *)
IsRoc(r) == r \in Nat /\ Bank(r).start = r + 2 /\ Bank(r).end \in Positions /\ Bank(r).end \in Nat

LEMMA PayloadsBegin ==
    ASSUME TypeOK, NoneWraps, NEW r, IsRoc(r), HasPayloads(r)
    PROVE  /\ Bank(Bank(r).start).end \in Nat /\ r < Bank(Bank(r).start).end
           /\ Forward(BanksWithin(Bank(r).end))
           /\ Payloads(r) = PayloadChain(r) \cap DOMAIN BanksWithin(Bank(r).end)
           /\ \A y \in PayloadChain(r) : y \in Nat /\ r < y
<1>1. InfoReads(Bank(r)) /\ Bank(r).start \in Nat /\ Bank(r).end \in Positions /\ r \in Nat
      /\ Bank(r).start = r + 2
  BY DEF HasPayloads, IsRoc
<1> DEFINE bank == Bank(r)
<1>2. Bank(bank.start).end \in Positions /\ bank.start <= Bank(bank.start).end
  <2> HIDE DEF bank
  <2>1. bank.start \in Nat /\ bank.end \in Positions /\ InfoReads(bank)
    BY <1>1 DEF bank
  <2>2. QED BY <2>1, InfoInside
<1>3. Bank(bank.start).end \in Nat /\ r < Bank(bank.start).end
  BY <1>1, <1>2, PlacesAreNumbers
<1>4. Forward(BanksWithin(Bank(r).end))
  BY <1>1, BanksGoForward
<1>5. Payloads(r) = PayloadChain(r) \cap DOMAIN BanksWithin(Bank(r).end)
  BY DEF Payloads
<1>6. ASSUME NEW y \in PayloadChain(r) PROVE y \in Nat /\ r < y
  <2>1. y \in Nat /\ Bank(bank.start).end <= y
    BY <1>3, <1>4, <1>6, ChainGoesOn DEF PayloadChain
  <2>2. QED BY <1>1, <1>3, <2>1
<1>7. QED BY <1>3, <1>4, <1>5, <1>6

LEMMA PayloadOfRoc ==
    ASSUME TypeOK, NoneWraps, NEW r, IsRoc(r), NEW y \in Payloads(r)
    PROVE  /\ HasPayloads(r) /\ y \in Nat /\ r < y /\ y \in DOMAIN BanksWithin(Bank(r).end)
           /\ BankReads(y, Bank(r).end) /\ Bank(y).start = y + 2
           /\ Bank(y).end \in Nat /\ y + 2 <= Bank(y).end /\ Bank(y).end <= Bank(r).end
           /\ BanksWithin(Bank(r).end)[y] = Bank(y).end
<1>1. HasPayloads(r)
  BY DEF Payloads
<1>2. y \in PayloadChain(r) /\ y \in DOMAIN BanksWithin(Bank(r).end) /\ r < y
  BY <1>1, PayloadsBegin
<1>3. Bank(r).end \in Positions
  BY DEF IsRoc
<1>4. QED BY <1>1, <1>2, <1>3, BanksGoForward

(* A hit is inside its payload, and so inside its ROC bank.                *)
LEMMA HitsInPayload ==
    ASSUME NEW kind, NEW f, NEW r, NEW y, y \in Nat, Bank(y).start = y + 2, Bank(y).end \in Int,
           NEW h \in PayloadHits(kind, f, r, y)
    PROVE  h.word \in Int /\ y < h.word /\ h.word < Bank(y).end /\ h.roc = Bank(r).tag
<1>1. PICK i \in Units(kind, y) : h = [frame |-> f, roc |-> Bank(r).tag, slot |-> Bank(y).tag, word |-> i]
  BY DEF PayloadHits
<1> DEFINE bank == Bank(y)
           e == bank.end
<1>2. bank.start = y + 2 /\ e \in Int
  OBVIOUS
<1>3. i \in Int /\ y < i /\ i < e
  <2>1. CASE kind = "fadc"
    <3>1. i \in (y + 2) .. e - 1
      BY <1>1, <1>2, <2>1 DEF Units, FadcWords
    <3> HIDE DEF e
    <3>2. QED BY <1>2, <3>1
  <2>2. CASE kind # "fadc"
    <3>1. i \in Range(Pairs(bank))
      BY <1>1, <2>2 DEF Units, DcrbWords
    <3>1a. PICK k \in 1 .. (Contents(bank) \div 2) : i = bank.start + 2 * (k - 1)
      BY <3>1 DEF Pairs, Range
    <3>1b. bank.start < e
      <4>1. ASSUME ~(bank.start < e) PROVE FALSE
        <5>1. Contents(bank) = 0
          BY <4>1 DEF Contents
        <5>2. QED BY <3>1a, <5>1
      <4>2. QED BY <4>1
    <3>2. k \in 1 .. ((e - bank.start) \div 2) /\ i = bank.start + 2 * (k - 1)
      BY <3>1a, <3>1b DEF Contents
    <3> HIDE DEF e, bank
    <3> DEFINE m == (e - (y + 2)) \div 2
    <3>3. k \in 1 .. m /\ i = (y + 2) + 2 * (k - 1)
      BY <1>2, <3>2
    <3>4. m \in Int /\ 2 * m <= e - (y + 2)
      BY <1>2
    <3> HIDE DEF m
    <3>5. QED BY <1>2, <3>3, <3>4
  <2>3. QED BY <2>1, <2>2
<1>4. QED BY <1>1, <1>3 DEF e, bank

LEMMA HitsInRoc ==
    ASSUME TypeOK, NoneWraps, NEW kind, NEW f, NEW r, IsRoc(r), NEW h \in RocHits(kind, f, r)
    PROVE  h.word \in Int /\ r < h.word /\ h.word < Bank(r).end /\ h.roc = Bank(r).tag
<1>1. PICK y \in Payloads(r) : h \in PayloadHits(kind, f, r, y)
  BY DEF RocHits
<1>2. /\ y \in Nat /\ r < y /\ Bank(y).start = y + 2 /\ Bank(y).end \in Nat /\ Bank(y).end <= Bank(r).end
  BY PayloadOfRoc
<1>3. h.word \in Int /\ y < h.word /\ h.word < Bank(y).end /\ h.roc = Bank(r).tag
  BY <1>1, <1>2, HitsInPayload
<1>4. r \in Nat /\ Bank(r).end \in Nat
  BY DEF IsRoc
<1>5. QED BY <1>2, <1>3, <1>4

(* Hits of two ROC banks of a set, of two payloads of a ROC bank, differ.   *)
LEMMA RocsApart ==
    ASSUME TypeOK, NoneWraps, NEW p \in OpenSets, NEW kind, NEW f, NEW g,
           NEW r \in Rocs(p), NEW q \in Rocs(p), r # q
    PROVE  RocHits(kind, f, r) \cap RocHits(kind, g, q) = {}
<1>1. ASSUME NEW a \in Rocs(p), NEW b \in Rocs(p), a < b PROVE Bank(a).end <= b
  <2>1. a \in RocChain(p) /\ b \in RocChain(p) /\ BanksWithin(Bank(p).end)[a] = Bank(a).end
    BY RocOfSet
  <2>2. Sib(p).end \in Nat /\ Forward(BanksWithin(Bank(p).end))
    BY RocsOfSet
  <2>3. QED BY <1>1, <2>1, <2>2, ChainHasNoGap DEF RocChain
<1>2. /\ IsRoc(r) /\ IsRoc(q) /\ r \in Nat /\ q \in Nat /\ Bank(r).end \in Nat /\ Bank(q).end \in Nat
  BY RocOfSet DEF IsRoc
<1>3. ASSUME NEW h \in RocHits(kind, f, r), h \in RocHits(kind, g, q) PROVE FALSE
  <2>1. h.word \in Int /\ r < h.word /\ h.word < Bank(r).end /\ q < h.word /\ h.word < Bank(q).end
    BY <1>2, <1>3, HitsInRoc
  <2>2. CASE r < q
    <3>1. Bank(r).end <= q
      BY <1>1, <2>2
    <3>2. QED BY <1>2, <2>1, <3>1
  <2>3. CASE q < r
    <3>1. Bank(q).end <= r
      BY <1>1, <2>3
    <3>2. QED BY <1>2, <2>1, <3>1
  <2>4. QED BY <1>2, <2>2, <2>3
<1>4. QED BY <1>3

LEMMA RocApartFromOthers ==
    ASSUME TypeOK, NoneWraps, NEW p \in OpenSets, NEW kind, NEW f,
           NEW r \in Rocs(p), NEW R \in SUBSET Rocs(p), r \notin R
    PROVE  RocHits(kind, f, r) \cap HitsOf(kind, f, R) = {}
<1>1. \A q \in R : RocHits(kind, f, r) \cap RocHits(kind, f, q) = {}
  BY RocsApart
<1>2. QED BY <1>1 DEF HitsOf

LEMMA PayloadApart ==
    ASSUME TypeOK, NoneWraps, NEW r, IsRoc(r), NEW y \in Payloads(r), NEW kind, NEW f
    PROVE  /\ PayloadHits(kind, f, r, y) \cap SomeHits(kind, f, r, y) = {}
           /\ PayloadHits(kind, f, r, y) \subseteq RocHits(kind, f, r)
           /\ SomeHits(kind, f, r, Bank(y).end) = SomeHits(kind, f, r, y) \cup PayloadHits(kind, f, r, y)
           /\ Bank(y).end \in PayloadChain(r)
<1> DEFINE first == Bank(Bank(r).start).end
           next == BanksWithin(Bank(r).end)
<1>1. /\ HasPayloads(r) /\ y \in Nat /\ y \in DOMAIN next /\ Bank(y).start = y + 2
      /\ Bank(y).end \in Nat /\ y + 2 <= Bank(y).end /\ next[y] = Bank(y).end
  BY PayloadOfRoc
<1>2. /\ first \in Nat /\ Forward(next) /\ Payloads(r) = Chain(first, next) \cap DOMAIN next
  BY <1>1, PayloadsBegin DEF PayloadChain
<1>3. PayloadChain(r) = Chain(first, next)
  BY DEF PayloadChain
<1> HIDE DEF first, next
<1>4. /\ Chain(first, next) \cap Before(next[y]) = (Chain(first, next) \cap Before(y)) \cup {y}
      /\ next[y] \in Chain(first, next)
  BY <1>2, ChainStep
<1>5. \A x \in Payloads(r) : x \in Nat /\ Bank(x).end \in Nat /\ Bank(x).start = x + 2
  BY PayloadOfRoc
<1>6. {x \in Payloads(r) : x < Bank(y).end} = {x \in Payloads(r) : x < y} \cup {y}
  <2>1. \A x \in Payloads(r) : x < Bank(y).end <=> (x < y \/ x = y)
    BY <1>1, <1>2, <1>4, <1>5 DEF Before
  <2>2. QED BY <2>1
<1>7. SomeHits(kind, f, r, Bank(y).end) = SomeHits(kind, f, r, y) \cup PayloadHits(kind, f, r, y)
  BY <1>6 DEF SomeHits
<1>8. ASSUME NEW x \in Payloads(r), x < y, NEW h \in PayloadHits(kind, f, r, x), h \in PayloadHits(kind, f, r, y)
      PROVE  FALSE
  <2>1. next[x] <= y /\ next[x] = Bank(x).end
    BY <1>2, <1>8, ChainHasNoGap, PayloadOfRoc DEF next
  <2>2. h.word \in Int /\ h.word < Bank(x).end /\ y < h.word
    BY <1>1, <1>5, <1>8, HitsInPayload
  <2>3. QED BY <1>1, <1>5, <2>1, <2>2
<1>9. PayloadHits(kind, f, r, y) \cap SomeHits(kind, f, r, y) = {}
  BY <1>8 DEF SomeHits
<1>10. PayloadHits(kind, f, r, y) \subseteq RocHits(kind, f, r)
  BY DEF RocHits
<1>11. QED BY <1>1, <1>3, <1>4, <1>7, <1>9, <1>10

(* Before the first payload, and when no more are read.                     *)
LEMMA PayloadsDone ==
    ASSUME TypeOK, NoneWraps, NEW r, IsRoc(r), HasPayloads(r), NEW kind, NEW f
    PROVE  /\ SomeHits(kind, f, r, Bank(Bank(r).start).end) = {}
           /\ Bank(Bank(r).start).end \in PayloadChain(r)
           /\ \A y \in PayloadChain(r) :
                ~BankReads(y, Bank(r).end) => SomeHits(kind, f, r, y) = RocHits(kind, f, r)
<1> DEFINE first == Bank(Bank(r).start).end
           next == BanksWithin(Bank(r).end)
<1>1. /\ first \in Nat /\ Forward(next) /\ Payloads(r) = Chain(first, next) \cap DOMAIN next
  BY PayloadsBegin DEF PayloadChain
<1>2. PayloadChain(r) = Chain(first, next) /\ \A y \in DOMAIN next : BankReads(y, Bank(r).end)
  BY DEF PayloadChain, BanksWithin
<1> HIDE DEF first, next
<1>3. first \in Chain(first, next) /\ Chain(first, next) \subseteq Nat /\ \A y \in Chain(first, next) : first <= y
  BY <1>1, ChainGoesOn
<1>4. {x \in Payloads(r) : x < first} = {}
  BY <1>1, <1>3
<1>5. ASSUME NEW y \in Chain(first, next), ~BankReads(y, Bank(r).end)
      PROVE  {x \in Payloads(r) : x < y} = Payloads(r)
  <2>1. y \notin DOMAIN next
    BY <1>2, <1>5
  <2>2. Payloads(r) \subseteq Before(y)
    BY <1>1, <1>5, <2>1, ChainEnds
  <2>3. QED BY <2>2 DEF Before
<1>6. QED BY <1>2, <1>3, <1>4, <1>5 DEF SomeHits, RocHits, first

-----------------------------------------------------------------------------
(* Frames are of the sets S in their order, with the hits of those of      *)
(* their ROC banks that are decoded at once, and the others deferred.      *)
SetAt(fs, f) == fs[f].number - 5
SetsAre(fs, S) ==
    /\ {SetAt(fs, f) : f \in DOMAIN fs} = S
    /\ \A f, g \in DOMAIN fs : f < g => SetAt(fs, f) < SetAt(fs, g)
Holds(fs, v, kind, first, n, z) ==
    \A f \in DOMAIN fs :
        Each(v, fs[f][first], fs[f][first] + fs[f][n], HitsOf(kind, f, Rocs(SetAt(fs, f)) \cap Direct(z)))
Defers(fs, def, z) ==
    \A f \in DOMAIN fs :
        Each(def, fs[f].firstDeferred, fs[f].firstDeferred + fs[f].nDeferred,
             DeferredOf(SetAt(fs, f), Rocs(SetAt(fs, f)) \ Direct(z)))
HoldsBoth(fs, fadc, dcrb, z) ==
    /\ Holds(fs, fadc, "fadc", "firstFadc", "nFadc", z)
    /\ Holds(fs, dcrb, "dcrb", "firstDcrb", "nDcrb", z)

(* The set and the ROC bank that are being read.                           *)
ThisSet == frame.number - 5
ThisRoc == roc.start - 2
InPayloads ==
    /\ roc = Bank(ThisRoc) /\ HasPayloads(ThisRoc) /\ modules = ModulesOf(ThisRoc)
    /\ payPos \in PayloadChain(ThisRoc)
BothSinks(fadc, dcrb, F, D) ==
    /\ Each(sink.fadc, fadc, Len(sink.fadc), F)
    /\ Each(sink.dcrb, dcrb, Len(sink.dcrb), D)

(* At the sets, the ROC banks and the payloads of the walk.                *)
AtSets ==
    level = "set" =>
        /\ pos \in SetChain
        /\ SetsAre(frames, OpenSets \cap Before(pos))
InSets ==
    InSet =>
        /\ ThisSet \in OpenSets /\ pos = Bank(ThisSet).end /\ setEnd = pos
        /\ SetsAre(frames, OpenSets \cap Before(ThisSet))
        /\ rocPos \in RocChain(ThisSet)
        /\ Each(deferred, frame.firstDeferred, Len(deferred),
                DeferredOf(ThisSet, (Rocs(ThisSet) \cap Before(rocPos)) \ Direct(lazy)))
RocsBefore(kind, p) == HitsOf(kind, Len(frames) + 1, Rocs(ThisSet) \cap Before(p) \cap Direct(lazy))
AtRocs ==
    level = "roc" => BothSinks(frame.firstFadc, frame.firstDcrb,
                               RocsBefore("fadc", rocPos), RocsBefore("dcrb", rocPos))
AtPayloads ==
    level = "payload" /\ ~Deferring =>
        /\ InPayloads /\ ThisRoc \in Rocs(ThisSet) \cap Direct(lazy) /\ rocPos = Bank(ThisRoc).end
        /\ BothSinks(frame.firstFadc, frame.firstDcrb,
             RocsBefore("fadc", ThisRoc) \cup SomeHits("fadc", Len(frames) + 1, ThisRoc, payPos),
             RocsBefore("dcrb", ThisRoc) \cup SomeHits("dcrb", Len(frames) + 1, ThisRoc, payPos))
WalkInv ==
    /\ AtSets /\ InSets /\ AtRocs /\ AtPayloads
    /\ HoldsBoth(frames, Fadc, Dcrb, lazy)
    /\ Defers(frames, deferred, lazy)
    /\ ~Walking => SetsAre(frames, OpenSets)

(* The frame that is decoded has the hits it came with, and those of the   *)
(* banks that were deferred, so far.                                       *)
FrameSet == SetAt(frames, FrameBeingDecoded)
Taken(n) == {deferred[k].pos : k \in frames[FrameBeingDecoded].firstDeferred + 1 .. n}
OwnFadc  == HitsOf("fadc", FrameBeingDecoded, Rocs(FrameSet) \cap Direct(TRUE))
AtDeferred ==
    level = "deferred" =>
        BothSinks(0, 0, OwnFadc \cup HitsOf("fadc", FrameBeingDecoded, Taken(nextDeferred - 1)),
                  HitsOf("dcrb", FrameBeingDecoded, Taken(nextDeferred - 1)))
AtItsPayloads ==
    level = "payload" /\ Deferring =>
        /\ InPayloads /\ frames[FrameBeingDecoded].firstDeferred + 1 < nextDeferred
        /\ ThisRoc = deferred[nextDeferred - 1].pos
        /\ BothSinks(0, 0,
             OwnFadc \cup HitsOf("fadc", FrameBeingDecoded, Taken(nextDeferred - 2))
                     \cup SomeHits("fadc", FrameBeingDecoded, ThisRoc, payPos),
             HitsOf("dcrb", FrameBeingDecoded, Taken(nextDeferred - 2))
                     \cup SomeHits("dcrb", FrameBeingDecoded, ThisRoc, payPos))
Decodes(d, f, p) ==
    /\ IsSequence(d.fadc) /\ IsSequence(d.dcrb)
    /\ Each(d.fadc, 0, Len(d.fadc), HitsOf("fadc", f, Rocs(p)))
    /\ Each(d.dcrb, 0, Len(d.dcrb), HitsOf("dcrb", f, Rocs(p) \ Direct(TRUE)))
DecodeInv ==
    /\ lazy \in BOOLEAN /\ Len(decoded) <= Len(frames)
    /\ Walking \/ ~lazy => decoded = <<>>
    /\ Deferring => /\ lazy
                    /\ frames[FrameBeingDecoded].firstDeferred < nextDeferred
                    /\ nextDeferred <= LastDeferred + 1
    /\ level = "done" /\ lazy => Len(decoded) = Len(frames)
    /\ AtDeferred /\ AtItsPayloads
    /\ \A f \in DOMAIN decoded : Decodes(decoded[f], f, SetAt(frames, f))

(* What eager parsing gave.                                                *)
EagerInv ==
    lazy =>
        /\ eager.frames \in Seq(FrameRec)
        /\ IsSequence(eager.hits.fadc) /\ IsSequence(eager.hits.dcrb)
        /\ Sliced(eager.frames, eager.hits.fadc, "firstFadc", "nFadc", Len(eager.hits.fadc))
        /\ Sliced(eager.frames, eager.hits.dcrb, "firstDcrb", "nDcrb", Len(eager.hits.dcrb))
        /\ SetsAre(eager.frames, OpenSets)
        /\ HoldsBoth(eager.frames, eager.hits.fadc, eager.hits.dcrb, FALSE)

ParseInv == PartitionInv /\ NoneWraps /\ CursorsNest /\ WalkInv /\ DecodeInv /\ EagerInv
-----------------------------------------------------------------------------
(* What the walk passes.                                                   *)
LEMMA SetsFirst == ASSUME TypeOK, NoneWraps PROVE 0 \in SetChain /\ OpenSets \cap Before(0) = {}
<1>1. Forward(SetBanks) /\ 0 \in Nat
  BY SetsGoForward
<1>2. 0 \in SetChain
  BY <1>1, ChainGoesOn DEF SetChain
<1>3. QED BY <1>2 DEF Before

LEMMA SetPassed ==
    ASSUME TypeOK, NoneWraps, NEW p \in SetChain \cap DOMAIN SetBanks
    PROVE  /\ Bank(p).end \in SetChain
           /\ OpenSets \cap Before(Bank(p).end) =
                (OpenSets \cap Before(p)) \cup (IF Opens(p) THEN {p} ELSE {})
<1>1. Forward(SetBanks) /\ SetBanks[p] = Bank(p).end /\ 0 \in Nat
  BY SetsGoForward
<1>2. /\ SetChain \cap Before(Bank(p).end) = (SetChain \cap Before(p)) \cup {p}
      /\ Bank(p).end \in SetChain
  BY <1>1, ChainStep DEF SetChain
<1>3. OpenSets \subseteq SetChain /\ (p \in OpenSets <=> Opens(p))
  BY DEF OpenSets
<1>4. OpenSets \cap Before(Bank(p).end) = OpenSets \cap (SetChain \cap Before(Bank(p).end))
      /\ OpenSets \cap Before(p) = OpenSets \cap (SetChain \cap Before(p))
  BY <1>3
<1>5. QED BY <1>2, <1>3, <1>4

LEMMA SetsLast ==
    ASSUME TypeOK, NoneWraps, NEW p \in SetChain, p \notin DOMAIN SetBanks
    PROVE  OpenSets \cap Before(p) = OpenSets
<1>1. Forward(SetBanks) /\ 0 \in Nat
  BY SetsGoForward
<1>2. SetChain \cap DOMAIN SetBanks \subseteq Before(p)
  BY <1>1, ChainEnds DEF SetChain
<1>3. QED BY <1>2 DEF OpenSets

LEMMA RocsFirst ==
    ASSUME TypeOK, NoneWraps, NEW p \in OpenSets
    PROVE  Sib(p).end \in RocChain(p) /\ Rocs(p) \cap Before(Sib(p).end) = {}
<1>1. Sib(p).end \in Nat /\ Forward(BanksWithin(Bank(p).end))
  BY RocsOfSet
<1>2. Sib(p).end \in RocChain(p) /\ \A q \in RocChain(p) : q \in Nat /\ Sib(p).end <= q
  BY <1>1, ChainGoesOn DEF RocChain
<1>3. QED BY <1>1, <1>2 DEF Rocs, Before

LEMMA RocHere ==
    ASSUME TypeOK, NoneWraps, NEW p \in OpenSets, NEW r \in RocChain(p), BankReads(r, Bank(p).end)
    PROVE  r \in Rocs(p)
<1>1. r \in Nat
  BY RocsOfSet
<1>2. QED BY <1>1 DEF Rocs, BanksWithin

LEMMA RocPassed ==
    ASSUME TypeOK, NoneWraps, NEW p \in OpenSets, NEW r \in Rocs(p)
    PROVE  /\ Bank(r).end \in RocChain(p)
           /\ Rocs(p) \cap Before(Bank(r).end) = (Rocs(p) \cap Before(r)) \cup {r}
           /\ r \notin Before(r)
<1> DEFINE next == BanksWithin(Bank(p).end)
<1>1. Sib(p).end \in Nat /\ Forward(next)
  BY RocsOfSet
<1>2. r \in Nat /\ r \in RocChain(p) \cap DOMAIN next /\ next[r] = Bank(r).end
  BY RocOfSet
<1>3. RocChain(p) = Chain(Sib(p).end, next) /\ Rocs(p) = RocChain(p) \cap DOMAIN next
  BY DEF RocChain, Rocs
<1> HIDE DEF next
<1>4. /\ RocChain(p) \cap Before(Bank(r).end) = (RocChain(p) \cap Before(r)) \cup {r}
      /\ Bank(r).end \in RocChain(p)
  BY <1>1, <1>2, <1>3, ChainStep
<1>5. Rocs(p) \cap Before(Bank(r).end) = Rocs(p) \cap (RocChain(p) \cap Before(Bank(r).end))
      /\ Rocs(p) \cap Before(r) = Rocs(p) \cap (RocChain(p) \cap Before(r))
  BY <1>3
<1>6. r \notin Before(r)
  BY <1>2 DEF Before
<1>7. QED BY <1>4, <1>5, <1>6

LEMMA RocsLast ==
    ASSUME TypeOK, NoneWraps, NEW p \in OpenSets, NEW q \in RocChain(p), ~BankReads(q, Bank(p).end)
    PROVE  Rocs(p) \cap Before(q) = Rocs(p)
<1> DEFINE next == BanksWithin(Bank(p).end)
<1>1. Sib(p).end \in Nat /\ Forward(next)
  BY RocsOfSet
<1>2. q \notin DOMAIN next
  BY DEF BanksWithin
<1>3. RocChain(p) = Chain(Sib(p).end, next) /\ Rocs(p) = RocChain(p) \cap DOMAIN next
  BY DEF RocChain, Rocs
<1> HIDE DEF next
<1>4. RocChain(p) \cap DOMAIN next \subseteq Before(q)
  BY <1>1, <1>2, <1>3, ChainEnds
<1>5. QED BY <1>3, <1>4

(* The hits of ROC banks, one by one.                                       *)
LEMMA HitsOfMore ==
    ASSUME NEW kind, NEW f, NEW R, NEW r
    PROVE  HitsOf(kind, f, R \cup {r}) = HitsOf(kind, f, R) \cup RocHits(kind, f, r)
BY DEF HitsOf

LEMMA HitsOfBoth ==
    ASSUME NEW kind, NEW f, NEW R, NEW Q
    PROVE  HitsOf(kind, f, R \cup Q) = HitsOf(kind, f, R) \cup HitsOf(kind, f, Q)
BY DEF HitsOf

(* What is done with a ROC bank.                                            *)
LEMMA RocTaken ==
    ASSUME TypeOK, NoneWraps, NEW r, IsRoc(r), ParseRocBank(Bank(r))
    PROVE  \/ UNCHANGED <<level, rocVars>> /\ Payloads(r) = {}
           \/ /\ HasPayloads(r) /\ level' = "payload" /\ roc' = Bank(r)
              /\ modules' = ModulesOf(r) /\ payPos' = Bank(Bank(r).start).end
<1> DEFINE bank == Bank(r)
<1>1. bank.start \in Nat /\ bank.end \in Positions
  BY DEF IsRoc
<1>2. CASE ~InfoReads(bank)
  BY <1>2 DEF ParseRocBank, Payloads, HasPayloads
<1>3. CASE InfoReads(bank)
  <2> DEFINE m == MapPos(bank)
  <2>1. m \in Nat /\ Size \in Nat /\ Bank(bank.start).end \in Nat /\ Bank(bank.start).end <= Size
    <3>1. Bank(bank.start).start = bank.start + 2
      BY DEF Bank
    <3>2. Bank(bank.start).end \in Positions
      <4> HIDE DEF bank
      <4>1. QED BY <1>1, <1>3, InfoInside
    <3>3. m \in Nat
      <4> HIDE DEF bank
      <4>1. QED BY <1>1, <3>1 DEF MapPos
    <3>4. QED BY <3>2, <3>3, PlacesAreNumbers
  <2>2. PICK n \in MapLens(bank) :
            \/ n = 0 /\ UNCHANGED <<level, rocVars>>
            \/ n > 0 /\ ~MapReads(bank, n) /\ UNCHANGED <<level, rocVars>>
            \/ /\ n > 0 /\ MapReads(bank, n)
               /\ modules' = [id \in PayloadIds |-> ModuleOf(Entries(bank, n), id)]
               /\ level' = "payload" /\ roc' = bank /\ payPos' = Bank(bank.start).end
    BY <1>3 DEF ParseRocBank
  <2>3. CASE m < Size
    <3>1. n = MapLen(r)
      BY <2>2, <2>3 DEF MapLens, MapLen
    <3>2. HasPayloads(r) <=> n > 0 /\ MapReads(bank, n)
      BY <1>3, <2>3, <3>1 DEF HasPayloads
    <3>3. n \in Nat
      <4>1. DOMAIN words = 1 .. Size /\ m + 1 \in DOMAIN words
        BY <2>1, <2>3 DEF TypeOK, Size
      <4>2. At(m) \in Word
        <5> HIDE DEF m
        <5>1. At(m) = words[m + 1] /\ \A k \in DOMAIN words : words[k] \in Word
          BY DEF At, TypeOK
        <5>2. QED BY <4>1, <5>1
      <4>3. At(m).slen \in Nat
        BY <4>2 DEF Word
      <4>4. QED BY <3>1, <4>3 DEF MapLen
    <3>4. CASE n = 0
      <4>1. ~HasPayloads(r) /\ UNCHANGED <<level, rocVars>>
        BY <2>2, <3>2, <3>4
      <4>2. QED BY <4>1 DEF Payloads
    <3>5. CASE n > 0 /\ ~MapReads(bank, n)
      <4>1. ~HasPayloads(r) /\ UNCHANGED <<level, rocVars>>
        BY <2>2, <3>2, <3>5
      <4>2. QED BY <4>1 DEF Payloads
    <3>6. CASE n > 0 /\ MapReads(bank, n)
      <4>1. HasPayloads(r) /\ modules' = [id \in PayloadIds |-> ModuleOf(Entries(bank, n), id)]
            /\ level' = "payload" /\ roc' = bank /\ payPos' = Bank(bank.start).end
        BY <2>2, <3>2, <3>6
      <4>2. modules' = ModulesOf(r)
        BY <3>1, <4>1 DEF ModulesOf
      <4>3. QED BY <4>1, <4>2
    <3>7. QED BY <3>3, <3>4, <3>5, <3>6
  <2>4. CASE ~(m < Size)
    <3>1. n \in {0, 1}
      BY <2>2, <2>4 DEF MapLens
    <3>2. ~MapReads(bank, 1)
      <4>1. ~(m + 1 + 1 <= Bank(bank.start).end)
        <5> HIDE DEF m, bank
        <5>1. QED BY <2>1, <2>4
      <4>2. QED BY <4>1 DEF MapReads
    <3>3. UNCHANGED <<level, rocVars>>
      BY <2>2, <3>1, <3>2
    <3>4. ~HasPayloads(r)
      BY <2>4 DEF HasPayloads
    <3>5. QED BY <3>3, <3>4 DEF Payloads
  <2>5. QED BY <2>3, <2>4
<1>4. QED BY <1>2, <1>3

(* A payload is unpacked: the sink gets its hits.                           *)
LEMMA Unpacked ==
    ASSUME TypeOK, NoneWraps, InPayloads, IsRoc(ThisRoc), UnpackPayload
    PROVE  /\ payPos \in Payloads(ThisRoc) /\ payPos' = Bank(payPos).end
           /\ \E F, D :
                /\ sink'.fadc = sink.fadc \o F /\ sink'.dcrb = sink.dcrb \o D
                /\ IsSequence(F) /\ Each(F, 0, Len(F), PayloadHits("fadc", HitFrame, ThisRoc, payPos))
                /\ IsSequence(D) /\ Each(D, 0, Len(D), PayloadHits("dcrb", HitFrame, ThisRoc, payPos))
<1> DEFINE bank == Bank(payPos)
           r == ThisRoc
<1>1. /\ roc = Bank(r) /\ HasPayloads(r) /\ modules = ModulesOf(r) /\ payPos \in PayloadChain(r)
      /\ BankReads(payPos, roc.end) /\ payPos' = bank.end
  BY DEF InPayloads, UnpackPayload, NextPayload
<1>2. payPos \in Nat /\ payPos \in Payloads(r)
  <2>1. payPos \in Nat /\ Payloads(r) = PayloadChain(r) \cap DOMAIN BanksWithin(Bank(r).end)
    BY <1>1, PayloadsBegin
  <2>2. payPos \in DOMAIN BanksWithin(Bank(r).end)
    BY <1>1, <2>1 DEF BanksWithin
  <2>3. QED BY <1>1, <2>1, <2>2
<1>3. bank.start \in Int /\ bank.end \in Int
  BY <1>2, PayloadOfRoc
<1>4. Module(bank) = ModuleAt(r, payPos)
  BY <1>1 DEF Module, ModuleAt
<1>5. ASSUME NEW I PROVE HitsAt(I, bank) = {[frame |-> HitFrame, roc |-> Bank(r).tag, slot |-> Bank(payPos).tag, word |-> i] : i \in I}
  BY <1>1 DEF HitsAt, Hit, HitFrame
<1>6. /\ Module(bank) = "fadc" => PayloadHits("fadc", HitFrame, r, payPos) = HitsAt(FadcWords(bank), bank)
      /\ Module(bank) = "dcrb" => PayloadHits("dcrb", HitFrame, r, payPos) = HitsAt(DcrbWords(bank), bank)
  <2>1. ASSUME Module(bank) = "fadc"
        PROVE  PayloadHits("fadc", HitFrame, r, payPos) = HitsAt(FadcWords(bank), bank)
    <3>1. {u \in Units("fadc", payPos) : ModuleAt(r, payPos) = "fadc"} = FadcWords(bank)
      BY <1>4, <2>1 DEF Units
    <3>2. QED BY <1>5, <3>1 DEF PayloadHits
  <2>2. ASSUME Module(bank) = "dcrb"
        PROVE  PayloadHits("dcrb", HitFrame, r, payPos) = HitsAt(DcrbWords(bank), bank)
    <3>1. {u \in Units("dcrb", payPos) : ModuleAt(r, payPos) = "dcrb"} = DcrbWords(bank)
      BY <1>4, <2>2 DEF Units
    <3>2. QED BY <1>5, <3>1 DEF PayloadHits
  <2>3. QED BY <2>1, <2>2
<1>7. \A kind : Module(bank) # kind => PayloadHits(kind, HitFrame, r, payPos) = {}
  BY <1>4 DEF PayloadHits
<1>8. HasHits(sink)
  BY DEF TypeOK
<1>9. /\ sink.fadc \o <<>> = sink.fadc /\ sink.dcrb \o <<>> = sink.dcrb
      /\ IsSequence(<<>>) /\ Each(<<>>, 0, Len(<<>>), {})
  <2>1. /\ sink.fadc \in Seq(Range(sink.fadc)) /\ sink.dcrb \in Seq(Range(sink.dcrb))
    BY <1>8 DEF HasHits, IsSequence
  <2>2. sink.fadc \o <<>> = sink.fadc /\ sink.dcrb \o <<>> = sink.dcrb
    BY <2>1
  <2>3. <<>> \in Seq({}) /\ Len(<<>>) = 0
    OBVIOUS
  <2>4. IsSequence(<<>>)
    BY <2>3, SequenceOf
  <2>5. Each(<<>>, 0, 0, {})
    BY 0 \in Int, EachOfNone
  <2>6. QED BY <2>2, <2>3, <2>4, <2>5
<1> DEFINE Result(F, D) ==
                /\ sink'.fadc = sink.fadc \o F /\ sink'.dcrb = sink.dcrb \o D
                /\ IsSequence(F) /\ Each(F, 0, Len(F), PayloadHits("fadc", HitFrame, r, payPos))
                /\ IsSequence(D) /\ Each(D, 0, Len(D), PayloadHits("dcrb", HitFrame, r, payPos))
<1>10. \E F, D : Result(F, D)
  <2>1. \/ Module(bank) = "fadc" /\ sink' = [sink EXCEPT !.fadc = @ \o FadcHits(bank)]
        \/ Module(bank) = "dcrb" /\ sink' = [sink EXCEPT !.dcrb = @ \o DcrbHits(bank)]
        \/ Module(bank) \notin {"fadc", "dcrb"} /\ sink' = sink
    BY DEF UnpackPayload
  <2>2. sink = [fadc |-> sink.fadc, dcrb |-> sink.dcrb]
    BY <1>8 DEF HasHits
  <2>3. CASE Module(bank) = "fadc" /\ sink' = [sink EXCEPT !.fadc = @ \o FadcHits(bank)]
    <3>1. sink'.fadc = sink.fadc \o FadcHits(bank) /\ sink'.dcrb = sink.dcrb
      BY <2>2, <2>3
    <3>2. /\ IsSequence(FadcHits(bank))
          /\ Each(FadcHits(bank), 0, Len(FadcHits(bank)), HitsAt(FadcWords(bank), bank))
      BY <1>3, FadcHitsAre
    <3>3. PayloadHits("dcrb", HitFrame, r, payPos) = {}
      BY <1>7, <2>3
    <3>4. Result(FadcHits(bank), <<>>)
      BY <1>6, <1>9, <2>3, <3>1, <3>2, <3>3
    <3>5. QED BY <3>4
  <2>4. CASE Module(bank) = "dcrb" /\ sink' = [sink EXCEPT !.dcrb = @ \o DcrbHits(bank)]
    <3>1. sink'.dcrb = sink.dcrb \o DcrbHits(bank) /\ sink'.fadc = sink.fadc
      BY <2>2, <2>4
    <3>2. /\ IsSequence(DcrbHits(bank))
          /\ Each(DcrbHits(bank), 0, Len(DcrbHits(bank)), HitsAt(DcrbWords(bank), bank))
      BY <1>3, DcrbHitsAre
    <3>3. PayloadHits("fadc", HitFrame, r, payPos) = {}
      BY <1>7, <2>4
    <3>4. Result(<<>>, DcrbHits(bank))
      BY <1>6, <1>9, <2>4, <3>1, <3>2, <3>3
    <3>5. QED BY <3>4
  <2>5. CASE Module(bank) \notin {"fadc", "dcrb"} /\ sink' = sink
    <3>1. PayloadHits("fadc", HitFrame, r, payPos) = {} /\ PayloadHits("dcrb", HitFrame, r, payPos) = {}
      BY <1>7, <2>5
    <3>2. Result(<<>>, <<>>)
      BY <1>9, <2>5, <3>1
    <3>3. QED BY <3>2
  <2>6. QED BY <2>1, <2>3, <2>4, <2>5
<1>11. QED BY <1>1, <1>2, <1>10

LEMMA SinkGrows ==
    ASSUME TypeOK, NoneWraps, InPayloads, IsRoc(ThisRoc), UnpackPayload,
           NEW a \in Nat, a <= Len(sink.fadc), NEW b \in Nat, b <= Len(sink.dcrb),
           NEW F, F \cap RocHits("fadc", HitFrame, ThisRoc) = {},
           NEW D, D \cap RocHits("dcrb", HitFrame, ThisRoc) = {},
           BothSinks(a, b, F \cup SomeHits("fadc", HitFrame, ThisRoc, payPos),
                           D \cup SomeHits("dcrb", HitFrame, ThisRoc, payPos))
    PROVE  /\ Each(sink'.fadc, a, Len(sink'.fadc), F \cup SomeHits("fadc", HitFrame, ThisRoc, payPos'))
           /\ Each(sink'.dcrb, b, Len(sink'.dcrb), D \cup SomeHits("dcrb", HitFrame, ThisRoc, payPos'))
           /\ payPos' \in PayloadChain(ThisRoc)
<1> DEFINE r == ThisRoc
           Got(kind) == PayloadHits(kind, HitFrame, r, payPos)
           Had(kind) == SomeHits(kind, HitFrame, r, payPos)
<1>1. payPos \in Payloads(r) /\ payPos' = Bank(payPos).end
  BY Unpacked
<1>2. PICK G, E :
        /\ sink'.fadc = sink.fadc \o G /\ sink'.dcrb = sink.dcrb \o E
        /\ IsSequence(G) /\ Each(G, 0, Len(G), Got("fadc"))
        /\ IsSequence(E) /\ Each(E, 0, Len(E), Got("dcrb"))
  BY Unpacked
<1>3. \A kind : /\ Got(kind) \cap Had(kind) = {} /\ Got(kind) \subseteq RocHits(kind, HitFrame, r)
                /\ SomeHits(kind, HitFrame, r, payPos') = Had(kind) \cup Got(kind)
                /\ payPos' \in PayloadChain(r)
  BY <1>1, PayloadApart
<1>4. IsSequence(sink.fadc) /\ IsSequence(sink.dcrb)
  BY DEF TypeOK, HasHits
<1>5. /\ Each(sink.fadc, a, Len(sink.fadc), F \cup Had("fadc"))
      /\ Each(sink.dcrb, b, Len(sink.dcrb), D \cup Had("dcrb"))
  BY DEF BothSinks
<1> HIDE DEF r, Got, Had
<1>6. (F \cup Had("fadc")) \cap Got("fadc") = {} /\ (D \cup Had("dcrb")) \cap Got("dcrb") = {}
  BY <1>3 DEF r
<1>7. Each(sink.fadc \o G, a, Len(sink.fadc \o G), (F \cup Had("fadc")) \cup Got("fadc"))
  BY <1>2, <1>4, <1>5, <1>6, EachLonger
<1>8. Each(sink.dcrb \o E, b, Len(sink.dcrb \o E), (D \cup Had("dcrb")) \cup Got("dcrb"))
  BY <1>2, <1>4, <1>5, <1>6, EachLonger
<1>9. /\ F \cup SomeHits("fadc", HitFrame, r, payPos') = (F \cup Had("fadc")) \cup Got("fadc")
      /\ D \cup SomeHits("dcrb", HitFrame, r, payPos') = (D \cup Had("dcrb")) \cup Got("dcrb")
  BY <1>3
<1>10. payPos' \in PayloadChain(r)
  BY <1>3
<1>11. QED BY <1>2, <1>7, <1>8, <1>9, <1>10 DEF r

-----------------------------------------------------------------------------
(* Frames and the vectors of their hits as they were.                       *)
LEMMA HoldsLonger ==
    ASSUME NEW fs \in Seq(FrameRec), NEW v, NEW w, NEW kind, NEW first, NEW n, IsKind(first, n),
           NEW start, Sliced(fs, v, first, n, start), Len(v) \in Nat, start \in Nat,
           NEW z, Holds(fs, v, kind, first, n, z),
           \A k \in 1 .. Len(v) : w[k] = v[k]
    PROVE  Holds(fs, w, kind, first, n, z)
<1> SUFFICES ASSUME NEW f \in DOMAIN fs
             PROVE  Each(w, fs[f][first], fs[f][first] + fs[f][n],
                         HitsOf(kind, f, Rocs(SetAt(fs, f)) \cap Direct(z)))
  BY DEF Holds
<1>1. fs[f] \in FrameRec
  OBVIOUS
<1>2. fs[f][first] \in Nat /\ fs[f][n] \in Nat
  BY <1>1, KindFields
<1>3. fs[f][first] + fs[f][n] <= Len(v)
  BY <1>2 DEF Sliced
<1> DEFINE a == fs[f][first]
           b == fs[f][first] + fs[f][n]
<1>4. a \in Nat /\ b \in Nat /\ b <= Len(v)
  BY <1>2, <1>3
<1>5. Each(v, a, b, HitsOf(kind, f, Rocs(SetAt(fs, f)) \cap Direct(z)))
  BY DEF Holds
<1> HIDE DEF a, b
<1>6. \A k \in a + 1 .. b : k \in 1 .. Len(v)
  BY <1>4
<1>7. \A k \in a + 1 .. b : w[k] = v[k]
  BY <1>6
<1>8. QED BY <1>5, <1>7, EachStays DEF a, b

LEMMA DefersLonger ==
    ASSUME NEW fs \in Seq(FrameRec), NEW v, NEW w,
           NEW start, Sliced(fs, v, "firstDeferred", "nDeferred", start), Len(v) \in Nat, start \in Nat,
           NEW z, Defers(fs, v, z),
           \A k \in 1 .. Len(v) : w[k] = v[k]
    PROVE  Defers(fs, w, z)
<1> SUFFICES ASSUME NEW f \in DOMAIN fs
             PROVE  Each(w, fs[f].firstDeferred, fs[f].firstDeferred + fs[f].nDeferred,
                         DeferredOf(SetAt(fs, f), Rocs(SetAt(fs, f)) \ Direct(z)))
  BY DEF Defers
<1>1. fs[f] \in FrameRec
  OBVIOUS
<1>2. fs[f].firstDeferred \in Nat /\ fs[f].nDeferred \in Nat
  BY <1>1 DEF FrameRec
<1>3. fs[f].firstDeferred + fs[f].nDeferred <= Len(v)
  BY <1>2 DEF Sliced
<1> DEFINE a == fs[f].firstDeferred
           b == fs[f].firstDeferred + fs[f].nDeferred
<1>4. a \in Nat /\ b \in Nat /\ b <= Len(v)
  BY <1>2, <1>3
<1>5. Each(v, a, b, DeferredOf(SetAt(fs, f), Rocs(SetAt(fs, f)) \ Direct(z)))
  BY DEF Defers
<1> HIDE DEF a, b
<1>6. \A k \in a + 1 .. b : k \in 1 .. Len(v)
  BY <1>4
<1>7. \A k \in a + 1 .. b : w[k] = v[k]
  BY <1>6
<1>8. QED BY <1>5, <1>7, EachStays DEF a, b

LEMMA SameHolds ==
    ASSUME words' = words
    PROVE  /\ \A fs, fadc, dcrb, z : HoldsBoth(fs, fadc, dcrb, z)' = HoldsBoth(fs, fadc, dcrb, z)
           /\ \A fs, def, z : Defers(fs, def, z)' = Defers(fs, def, z)
           /\ \A d, f, p : Decodes(d, f, p)' = Decodes(d, f, p)
<1>1. /\ \A p : Rocs(p)' = Rocs(p) 
      /\ \A z : Direct(z)' = Direct(z)
      /\ \A p, R : DeferredOf(p, R)' = DeferredOf(p, R)
      /\ \A kind, f, R : HitsOf(kind, f, R)' = HitsOf(kind, f, R)
  BY SameWalk
<1>2. \A fs, v, kind, first, n, z : Holds(fs, v, kind, first, n, z)' = Holds(fs, v, kind, first, n, z)
  BY <1>1 DEF Holds, SetAt
<1>3. QED BY <1>1, <1>2 DEF HoldsBoth, Defers, Decodes, SetAt

-----------------------------------------------------------------------------
(* What a step leaves as it was.                                            *)
LEMMA EagerStays ==
    ASSUME EagerInv, UNCHANGED <<words, lazy, eager>>
    PROVE  EagerInv'
<1>1. /\ OpenSets' = OpenSets
      /\ \A fs, fadc, dcrb, z : HoldsBoth(fs, fadc, dcrb, z)' = HoldsBoth(fs, fadc, dcrb, z)
  BY SameWalk, SameHolds
<1>2. QED BY <1>1 DEF EagerInv

LEMMA FramesStay ==
    ASSUME WalkInv, UNCHANGED <<words, lazy, frames, deferred>>, Fadc' = Fadc, Dcrb' = Dcrb
    PROVE  HoldsBoth(frames, Fadc, Dcrb, lazy)' /\ Defers(frames, deferred, lazy)'
<1>1. /\ \A fs, fadc, dcrb, z : HoldsBoth(fs, fadc, dcrb, z)' = HoldsBoth(fs, fadc, dcrb, z)
      /\ \A fs, def, z : Defers(fs, def, z)' = Defers(fs, def, z)
  BY SameHolds
<1>2. HoldsBoth(frames, Fadc, Dcrb, lazy) /\ Defers(frames, deferred, lazy)
  BY DEF WalkInv
<1>3. QED BY <1>1, <1>2

LEMMA AfterWalkStays ==
    ASSUME WalkInv, Levels', ~Walking, ~Walking', UNCHANGED <<words, lazy, frames, deferred, hits>>
    PROVE  WalkInv'
<1>1. Fadc' = Fadc /\ Dcrb' = Dcrb
  BY DEF Fadc, Dcrb
<1>2. HoldsBoth(frames, Fadc, Dcrb, lazy)' /\ Defers(frames, deferred, lazy)'
  BY <1>1, FramesStay
<1>3. level' # "set" /\ ~InSet' /\ level' # "roc" /\ ~(level' = "payload" /\ ~Deferring')
  BY DEF Levels, Walking, InSet
<1>4. OpenSets' = OpenSets /\ SetsAre(frames, OpenSets)
  BY SameWalk DEF WalkInv
<1>5. AtSets' /\ InSets' /\ AtRocs' /\ AtPayloads'
  BY <1>3 DEF AtSets, InSets, AtRocs, AtPayloads
<1>6. SetsAre(frames, OpenSets)'
  BY <1>4
<1>7. QED BY <1>2, <1>5, <1>6 DEF WalkInv

(* While sets are walked, nothing is decoded later.                         *)
LEMMA NothingDecoded ==
    ASSUME DecodeInv, Walking, UNCHANGED <<lazy, nextDeferred, decoded>>, level' \notin {"deferred", "done"},
           frames' \in Seq(FrameRec)
    PROVE  DecodeInv'
<1>1. ~Deferring /\ ~Deferring' /\ decoded' = <<>> /\ lazy' \in BOOLEAN
  BY DEF Walking, Deferring, DecodeInv
<1>2. Len(<<>>) = 0 /\ Len(frames') \in Nat /\ DOMAIN <<>> = {}
  OBVIOUS
<1>3. AtDeferred' /\ AtItsPayloads'
  BY <1>1 DEF AtDeferred, AtItsPayloads
<1>4. Len(decoded') <= Len(frames') /\ DOMAIN decoded' = {}
  BY <1>1, <1>2
<1>5. QED BY <1>1, <1>3, <1>4 DEF DecodeInv

-----------------------------------------------------------------------------
(* The steps of the walk.                                                   *)
Sums == WalkInv /\ DecodeInv

LEMMA EndWalkSums ==
    ASSUME ParseInv, PartitionInv', level = "set", NEW found, EndWalk(found),
           ~BankReads(pos, Size) \/ ~SetReads
    PROVE  Sums'
<1>1. /\ level' = "parsed" /\ hits' = sink
      /\ UNCHANGED <<words, lazy, frames, deferred, sink, nextDeferred, decoded>>
  BY DEF EndWalk, setVars, input
<1>2. TypeOK /\ Levels /\ NoneWraps /\ WalkInv /\ DecodeInv /\ frames \in Seq(FrameRec)
  BY DEF ParseInv, PartitionInv, TypeOK
<1>3. ~Deferring /\ ~Deferring' /\ Walking /\ ~Walking' /\ ~InSet'
  BY <1>1, <1>2 DEF Levels, Deferring, Walking, InSet
<1>4. Fadc' = Fadc /\ Dcrb' = Dcrb
  BY <1>1, <1>3 DEF Fadc, Dcrb
<1>5. HoldsBoth(frames, Fadc, Dcrb, lazy)' /\ Defers(frames, deferred, lazy)'
  BY <1>1, <1>2, <1>4, FramesStay
<1>6. SetsAre(frames, OpenSets)
  <2>1. pos \in SetChain /\ SetsAre(frames, OpenSets \cap Before(pos))
    BY <1>2 DEF WalkInv, AtSets
  <2>2. pos \notin DOMAIN SetBanks
    BY DEF SetReads, SetBanks
  <2>3. OpenSets \cap Before(pos) = OpenSets
    BY <1>2, <2>1, <2>2, SetsLast
  <2>4. QED BY <2>1, <2>3
<1>7. SetsAre(frames, OpenSets)'
  BY <1>1, <1>6, SameWalk
<1>8. AtSets' /\ InSets' /\ AtRocs' /\ AtPayloads'
  BY <1>1, <1>3 DEF AtSets, InSets, AtRocs, AtPayloads
<1>9. WalkInv'
  BY <1>5, <1>7, <1>8 DEF WalkInv
<1>10. DecodeInv'
  BY <1>1, <1>2, <1>3, NothingDecoded
<1>11. QED BY <1>9, <1>10 DEF Sums

LEMMA SkipSetSums == ASSUME ParseInv, PartitionInv', SkipSet PROVE Sums'
<1>1. /\ level = "set" /\ level' = "set" /\ pos' = Bank(pos).end /\ SetReads /\ ~SibReads
      /\ UNCHANGED <<words, lazy, frames, deferred, sink, nextDeferred, decoded, hits>>
  BY DEF SkipSet, childVars, input
<1>2. TypeOK /\ Levels /\ NoneWraps /\ WalkInv /\ DecodeInv /\ frames \in Seq(FrameRec) /\ pos \in Nat
  BY PlacesAreNumbers DEF ParseInv, PartitionInv, TypeOK
<1>3. ~Deferring /\ ~Deferring' /\ Walking /\ Walking' /\ ~InSet'
  BY <1>1, <1>2 DEF Levels, Deferring, Walking, InSet
<1>4. Fadc' = Fadc /\ Dcrb' = Dcrb
  BY <1>1, <1>3 DEF Fadc, Dcrb
<1>5. HoldsBoth(frames, Fadc, Dcrb, lazy)' /\ Defers(frames, deferred, lazy)'
  BY <1>1, <1>2, <1>4, FramesStay
<1>6. pos' \in SetChain /\ SetsAre(frames, OpenSets \cap Before(pos'))
  <2>1. pos \in SetChain /\ SetsAre(frames, OpenSets \cap Before(pos))
    BY <1>1, <1>2 DEF WalkInv, AtSets
  <2>2. pos \in DOMAIN SetBanks /\ ~Opens(pos)
    BY <1>1, <1>2 DEF SetReads, SetBanks, SibReads, Opens, Sib
  <2>3. /\ Bank(pos).end \in SetChain
        /\ OpenSets \cap Before(Bank(pos).end) = OpenSets \cap Before(pos)
    BY <1>2, <2>1, <2>2, SetPassed
  <2>4. QED BY <1>1, <2>1, <2>3
<1>7. AtSets'
  <2>1. SetChain' = SetChain /\ OpenSets' = OpenSets
    BY <1>1, SameWalk
  <2>2. QED BY <1>1, <1>6, <2>1 DEF AtSets, Before
<1>8. InSets' /\ AtRocs' /\ AtPayloads'
  BY <1>1, <1>3 DEF InSets, AtRocs, AtPayloads
<1>9. WalkInv'
  BY <1>3, <1>5, <1>7, <1>8 DEF WalkInv
<1>10. DecodeInv'
  BY <1>1, <1>2, <1>3, NothingDecoded
<1>11. QED BY <1>9, <1>10 DEF Sums

LEMMA OpenSetSums == ASSUME ParseInv, PartitionInv', OpenSet PROVE Sums'
<1> DEFINE p == pos
<1>1. /\ level = "set" /\ level' = "roc" /\ SetReads /\ SibReads
      /\ pos' = Bank(p).end /\ setEnd' = Bank(p).end /\ rocPos' = Sib(p).end
      /\ frame' = FrameHere(Sib(p).start + 1)
      /\ UNCHANGED <<words, lazy, frames, deferred, sink, nextDeferred, decoded, hits>>
  BY DEF OpenSet, childVars, input, Sib
<1>2. TypeOK /\ Levels /\ NoneWraps /\ WalkInv /\ DecodeInv /\ frames \in Seq(FrameRec) /\ p \in Nat
  BY PlacesAreNumbers DEF ParseInv, PartitionInv, TypeOK
<1>3. ~Deferring /\ ~Deferring' /\ Walking /\ Walking' /\ InSet'
  BY <1>1, <1>2 DEF Levels, Deferring, Walking, InSet
<1>4. Fadc' = Fadc /\ Dcrb' = Dcrb
  BY <1>1, <1>3 DEF Fadc, Dcrb
<1>5. HoldsBoth(frames, Fadc, Dcrb, lazy)' /\ Defers(frames, deferred, lazy)'
  BY <1>1, <1>2, <1>4, FramesStay
<1>6. p \in SetChain /\ SetsAre(frames, OpenSets \cap Before(p))
  BY <1>1, <1>2 DEF WalkInv, AtSets
<1>7. p \in OpenSets
  <2>1. p \in DOMAIN SetBanks /\ Opens(p)
    BY <1>1, <1>2 DEF SetReads, SetBanks, SibReads, Opens, Sib
  <2>2. QED BY <1>6, <2>1 DEF OpenSets
<1>8. Sib(p).start = p + 4
  BY <1>2, <1>7, RocsOfSet
<1> HIDE DEF p
<1>9. /\ frame'.number = (Sib(p).start + 1) /\ frame'.firstFadc = Len(sink.fadc)
      /\ frame'.firstDcrb = Len(sink.dcrb) /\ frame'.firstDeferred = Len(deferred)
  BY <1>1 DEF FrameHere
<1>10. ThisSet' = p
  BY <1>2, <1>8, <1>9 DEF ThisSet
<1>11. Sib(p).end \in RocChain(p) /\ Rocs(p) \cap Before(Sib(p).end) = {}
  BY <1>2, <1>7, RocsFirst
<1>12. Len(sink.fadc) \in Int /\ Len(sink.dcrb) \in Int /\ Len(deferred) \in Int
  BY <1>2 DEF TypeOK, HasHits, IsSequence
<1>13. /\ OpenSets' = OpenSets
       /\ (\A z : Direct(z)' = Direct(z)) /\ (\A q, R : DeferredOf(q, R)' = DeferredOf(q, R))
       /\ \A kind, f, R : HitsOf(kind, f, R)' = HitsOf(kind, f, R)
       /\ \A q : Bank(q)' = Bank(q) /\ Rocs(q)' = Rocs(q) /\ RocChain(q)' = RocChain(q)
  BY <1>1, SameWalk
<1>14. AtSets' /\ AtPayloads'
  BY <1>1 DEF AtSets, AtPayloads
<1>15. InSets'
  <2>1. Each(deferred, Len(deferred), Len(deferred), DeferredOf(p, {}))
    BY <1>12, EachOfNone DEF DeferredOf
  <2>2. (Rocs(p) \cap Before(rocPos')) \ Direct(lazy) = {}
    BY <1>1, <1>11
  <2>3. Each(deferred', frame'.firstDeferred, Len(deferred'),
             DeferredOf(p, (Rocs(p) \cap Before(rocPos')) \ Direct(lazy)))
    BY <1>1, <1>9, <2>1, <2>2
  <2>4. /\ p \in OpenSets /\ pos' = Bank(p).end /\ setEnd' = pos'
        /\ SetsAre(frames', OpenSets \cap Before(p)) /\ rocPos' \in RocChain(p)
    BY <1>1, <1>6, <1>7, <1>11
  <2>5. QED BY <1>1, <1>10, <1>13, <2>3, <2>4 DEF InSets, Before
<1>16. AtRocs'
  <2>1. HitsOf("fadc", Len(frames) + 1, {}) = {} /\ HitsOf("dcrb", Len(frames) + 1, {}) = {}
    BY DEF HitsOf
  <2>2. Each(sink.fadc, Len(sink.fadc), Len(sink.fadc), {}) /\ Each(sink.dcrb, Len(sink.dcrb), Len(sink.dcrb), {})
    BY <1>12, EachOfNone
  <2>3. Rocs(p) \cap Before(rocPos') \cap Direct(lazy) = {}
    BY <1>1, <1>11
  <2>4. /\ RocsBefore("fadc", rocPos)' = {} /\ RocsBefore("dcrb", rocPos)' = {}
    BY <1>1, <1>10, <1>13, <2>1, <2>3 DEF RocsBefore, Before
  <2>5. QED BY <1>1, <1>9, <2>2, <2>4 DEF AtRocs, BothSinks
<1>17. WalkInv'
  BY <1>3, <1>5, <1>14, <1>15, <1>16 DEF WalkInv
<1>18. DecodeInv'
  BY <1>1, <1>2, <1>3, NothingDecoded
<1>19. QED BY <1>17, <1>18 DEF Sums

-----------------------------------------------------------------------------
(* One more frame.                                                          *)
LEMMA OneMore ==
    ASSUME NEW fs \in Seq(FrameRec), NEW x \in FrameRec
    PROVE  /\ DOMAIN Append(fs, x) = DOMAIN fs \cup {Len(fs) + 1} /\ Len(fs) \in Nat
           /\ DOMAIN fs = 1 .. Len(fs)
           /\ Append(fs, x)[Len(fs) + 1] = x /\ \A f \in DOMAIN fs : Append(fs, x)[f] = fs[f]
<1>1. Len(fs) \in Nat /\ DOMAIN fs = 1 .. Len(fs) /\ DOMAIN Append(fs, x) = 1 .. (Len(fs) + 1)
  OBVIOUS
<1>2. 1 .. (Len(fs) + 1) = 1 .. Len(fs) \cup {Len(fs) + 1}
  BY <1>1
<1>3. QED BY <1>1, <1>2

LEMMA SetsAppended ==
    ASSUME NEW fs \in Seq(FrameRec), NEW x \in FrameRec, NEW S, SetsAre(fs, S),
           NEW p \in Nat, x.number - 5 = p, \A s \in S : s < p
    PROVE  SetsAre(Append(fs, x), S \cup {p})
<1> DEFINE gs == Append(fs, x)
           l == Len(fs) + 1
<1>1. /\ DOMAIN gs = DOMAIN fs \cup {l} /\ DOMAIN fs = 1 .. Len(fs) /\ Len(fs) \in Nat
      /\ gs[l] = x /\ \A f \in DOMAIN fs : gs[f] = fs[f]
  BY OneMore
<1> HIDE DEF gs
<1>2. SetAt(gs, l) = p /\ \A f \in DOMAIN fs : SetAt(gs, f) = SetAt(fs, f)
  BY <1>1 DEF SetAt
<1>3. {SetAt(gs, f) : f \in DOMAIN gs} = S \cup {p}
  BY <1>1, <1>2 DEF SetsAre
<1>4. ASSUME NEW f \in DOMAIN gs, NEW g \in DOMAIN gs, f < g PROVE SetAt(gs, f) < SetAt(gs, g)
  <2>1. CASE g = l
    <3>1. f \in DOMAIN fs
      BY <1>1, <1>4, <2>1
    <3>2. SetAt(fs, f) \in S
      BY <3>1 DEF SetsAre
    <3>3. QED BY <1>2, <2>1, <3>1, <3>2
  <2>2. CASE g # l
    <3>1. f \in DOMAIN fs /\ g \in DOMAIN fs
      BY <1>1, <1>4, <2>2
    <3>2. QED BY <1>2, <1>4, <3>1 DEF SetsAre
  <2>3. QED BY <2>1, <2>2
<1>5. QED BY <1>3, <1>4 DEF SetsAre, gs

LEMMA HoldsAppended ==
    ASSUME NEW fs \in Seq(FrameRec), NEW x \in FrameRec, NEW v, NEW kind, NEW first, NEW n, NEW z,
           Holds(fs, v, kind, first, n, z),
           Each(v, x[first], x[first] + x[n], HitsOf(kind, Len(fs) + 1, Rocs(x.number - 5) \cap Direct(z)))
    PROVE  Holds(Append(fs, x), v, kind, first, n, z)
<1> DEFINE gs == Append(fs, x)
           l == Len(fs) + 1
<1>1. /\ DOMAIN gs = DOMAIN fs \cup {l}
      /\ gs[l] = x /\ \A f \in DOMAIN fs : gs[f] = fs[f]
  BY OneMore
<1> HIDE DEF gs
<1>2. SetAt(gs, l) = x.number - 5 /\ \A f \in DOMAIN fs : SetAt(gs, f) = SetAt(fs, f)
  BY <1>1 DEF SetAt
<1>3. ASSUME NEW f \in DOMAIN gs
      PROVE  Each(v, gs[f][first], gs[f][first] + gs[f][n], HitsOf(kind, f, Rocs(SetAt(gs, f)) \cap Direct(z)))
  <2>1. CASE f = l
    BY <1>1, <1>2, <2>1
  <2>2. CASE f # l
    BY <1>1, <1>2, <1>3, <2>2 DEF Holds
  <2>3. QED BY <2>1, <2>2
<1>4. QED BY <1>3 DEF Holds, gs

LEMMA DefersAppended ==
    ASSUME NEW fs \in Seq(FrameRec), NEW x \in FrameRec, NEW v, NEW z, Defers(fs, v, z),
           Each(v, x.firstDeferred, x.firstDeferred + x.nDeferred,
                DeferredOf(x.number - 5, Rocs(x.number - 5) \ Direct(z)))
    PROVE  Defers(Append(fs, x), v, z)
<1> DEFINE gs == Append(fs, x)
           l == Len(fs) + 1
<1>1. /\ DOMAIN gs = DOMAIN fs \cup {l}
      /\ gs[l] = x /\ \A f \in DOMAIN fs : gs[f] = fs[f]
  BY OneMore
<1> HIDE DEF gs
<1>2. SetAt(gs, l) = x.number - 5 /\ \A f \in DOMAIN fs : SetAt(gs, f) = SetAt(fs, f)
  BY <1>1 DEF SetAt
<1>3. ASSUME NEW f \in DOMAIN gs
      PROVE  Each(v, gs[f].firstDeferred, gs[f].firstDeferred + gs[f].nDeferred,
             DeferredOf(SetAt(gs, f), Rocs(SetAt(gs, f)) \ Direct(z)))
  <2>1. CASE f = l
    BY <1>1, <1>2, <2>1
  <2>2. CASE f # l
    BY <1>1, <1>2, <1>3, <2>2 DEF Defers
  <2>3. QED BY <2>1, <2>2
<1>4. QED BY <1>3 DEF Defers, gs

LEMMA CloseSetSums == ASSUME ParseInv, PartitionInv', CloseSet PROVE Sums'
<1> DEFINE p == ThisSet
           x == [number |-> frame.number,
             firstFadc |-> frame.firstFadc, nFadc |-> Len(sink.fadc) - frame.firstFadc,
             firstDcrb |-> frame.firstDcrb, nDcrb |-> Len(sink.dcrb) - frame.firstDcrb,
             firstDeferred |-> frame.firstDeferred,
             nDeferred |-> Len(deferred) - frame.firstDeferred]
<1>1. /\ level = "roc" /\ level' = "set" /\ frames' = Append(frames, x)
      /\ (rocPos >= setEnd \/ ~BankReads(rocPos, setEnd))
      /\ UNCHANGED <<words, lazy, pos, deferred, sink, nextDeferred, decoded, hits>>
  BY DEF CloseSet, input, childVars
<1>2. /\ TypeOK /\ Levels /\ NoneWraps /\ WalkInv /\ DecodeInv /\ frames \in Seq(FrameRec)
      /\ frames' \in Seq(FrameRec) /\ rocPos \in Nat /\ setEnd \in Nat
  BY PlacesAreNumbers DEF ParseInv, PartitionInv, TypeOK
<1>3. ~Deferring /\ ~Deferring' /\ Walking /\ Walking' /\ InSet /\ ~InSet'
  BY <1>1, <1>2 DEF Levels, Deferring, Walking, InSet
<1>4. Fadc = sink.fadc /\ Dcrb = sink.dcrb /\ Fadc' = sink.fadc /\ Dcrb' = sink.dcrb
  BY <1>1, <1>3 DEF Fadc, Dcrb
<1>5. /\ p \in OpenSets /\ pos = Bank(p).end /\ setEnd = pos
      /\ SetsAre(frames, OpenSets \cap Before(p)) /\ rocPos \in RocChain(p)
      /\ Each(deferred, frame.firstDeferred, Len(deferred),
                DeferredOf(p, (Rocs(p) \cap Before(rocPos)) \ Direct(lazy)))
  BY <1>2, <1>3 DEF WalkInv, InSets
<1>6. BothSinks(frame.firstFadc, frame.firstDcrb, RocsBefore("fadc", rocPos), RocsBefore("dcrb", rocPos))
  BY <1>1, <1>2 DEF WalkInv, AtRocs
<1>7. Rocs(p) \cap Before(rocPos) = Rocs(p)
  <2>1. ~BankReads(rocPos, setEnd)
    BY <1>1, <1>2 DEF BankReads
  <2>2. QED BY <1>2, <1>5, <2>1, RocsLast
<1>8. p \in Nat /\ p \in SetChain \cap DOMAIN SetBanks /\ Opens(p)
  BY <1>2, <1>5, RocsOfSet DEF OpenSets
<1>9. x \in FrameRec /\ frame.number \in Nat
  <2>1. Len(frames) + 1 \in DOMAIN frames' /\ frames'[Len(frames) + 1] = x
    BY <1>1, <1>2
  <2>2. frame \in OpenRec
    BY <1>2 DEF TypeOK
  <2> HIDE DEF x
  <2>3. QED BY <1>2, <2>1, <2>2 DEF OpenRec
<1>10. x.number - 5 = p
  BY DEF ThisSet
<1>11. /\ x["firstFadc"] = frame.firstFadc /\ x["firstFadc"] + x["nFadc"] = Len(sink.fadc)
       /\ x["firstDcrb"] = frame.firstDcrb /\ x["firstDcrb"] + x["nDcrb"] = Len(sink.dcrb)
       /\ x.firstDeferred = frame.firstDeferred /\ x.firstDeferred + x.nDeferred = Len(deferred)
  <2>1. /\ Len(sink.fadc) \in Int /\ Len(sink.dcrb) \in Int /\ Len(deferred) \in Int
        /\ frame \in OpenRec
    BY <1>2 DEF TypeOK, HasHits, IsSequence
  <2>2. frame.firstFadc \in Int /\ frame.firstDcrb \in Int /\ frame.firstDeferred \in Int
    BY <2>1 DEF OpenRec
  <2>3. QED BY <2>1, <2>2
<1> HIDE DEF x, p
<1>12. Each(sink.fadc, x["firstFadc"], x["firstFadc"] + x["nFadc"],
            HitsOf("fadc", Len(frames) + 1, Rocs(x.number - 5) \cap Direct(lazy)))
  BY <1>6, <1>7, <1>10, <1>11 DEF BothSinks, RocsBefore, p
<1>13. Each(sink.dcrb, x["firstDcrb"], x["firstDcrb"] + x["nDcrb"],
            HitsOf("dcrb", Len(frames) + 1, Rocs(x.number - 5) \cap Direct(lazy)))
  BY <1>6, <1>7, <1>10, <1>11 DEF BothSinks, RocsBefore, p
<1>14. HoldsBoth(frames', sink.fadc, sink.dcrb, lazy)
  <2>1. HoldsBoth(frames, sink.fadc, sink.dcrb, lazy)
    BY <1>2, <1>4 DEF WalkInv
  <2>2. QED BY <1>1, <1>2, <1>9, <1>12, <1>13, <2>1, HoldsAppended DEF HoldsBoth
<1>15. Defers(frames', deferred, lazy)
  <2>1. Defers(frames, deferred, lazy)
    BY <1>2 DEF WalkInv
  <2>2. Each(deferred, x.firstDeferred, x.firstDeferred + x.nDeferred,
             DeferredOf(x.number - 5, Rocs(x.number - 5) \ Direct(lazy)))
    BY <1>5, <1>7, <1>10, <1>11
  <2>3. QED BY <1>1, <1>2, <1>9, <2>1, <2>2, DefersAppended
<1>16. pos \in SetChain /\ SetsAre(frames', OpenSets \cap Before(pos))
  <2>1. pos \in SetChain /\ OpenSets \cap Before(pos) = (OpenSets \cap Before(p)) \cup {p}
    BY <1>2, <1>5, <1>8, SetPassed
  <2>2. \A s \in OpenSets \cap Before(p) : s < p
    BY DEF Before
  <2>3. SetsAre(Append(frames, x), (OpenSets \cap Before(p)) \cup {p})
    BY <1>2, <1>5, <1>8, <1>9, <1>10, <2>2, SetsAppended
  <2>4. QED BY <1>1, <2>1, <2>3
<1>17. HoldsBoth(frames, Fadc, Dcrb, lazy)' /\ Defers(frames, deferred, lazy)'
  BY <1>1, <1>4, <1>14, <1>15, SameHolds
<1>18. AtSets'
  BY <1>1, <1>16, SameWalk DEF AtSets, Before
<1>19. InSets' /\ AtRocs' /\ AtPayloads'
  BY <1>1, <1>3 DEF InSets, AtRocs, AtPayloads
<1>20. WalkInv'
  BY <1>3, <1>17, <1>18, <1>19 DEF WalkInv
<1>21. DecodeInv'
  BY <1>1, <1>2, <1>3, NothingDecoded
<1>22. QED BY <1>20, <1>21 DEF Sums

LEMMA OpenSliceEnds ==
    ASSUME PartitionInv, InSet
    PROVE  /\ frame.firstFadc \in Nat /\ frame.firstFadc <= Len(sink.fadc)
           /\ frame.firstDcrb \in Nat /\ frame.firstDcrb <= Len(sink.dcrb)
           /\ frame.firstDeferred \in Nat /\ frame.firstDeferred <= Len(deferred)
           /\ Len(sink.fadc) \in Nat /\ Len(sink.dcrb) \in Nat /\ Len(deferred) \in Nat
           /\ Sliced(frames, sink.fadc, "firstFadc", "nFadc", frame.firstFadc)
           /\ Sliced(frames, sink.dcrb, "firstDcrb", "nDcrb", frame.firstDcrb)
           /\ Sliced(frames, deferred, "firstDeferred", "nDeferred", frame.firstDeferred)
<1>1. Fadc = sink.fadc /\ Dcrb = sink.dcrb
  BY DEF Fadc, Dcrb, Walking, InSet
<1>2. SlicesUpTo(frame.firstFadc, frame.firstDcrb, frame.firstDeferred)
  BY DEF PartitionInv, SlicesInv
<1>3. frame \in OpenRec /\ Len(sink.fadc) \in Nat /\ Len(sink.dcrb) \in Nat /\ Len(deferred) \in Nat
  BY DEF PartitionInv, TypeOK, HasHits, IsSequence
<1>4. frame.firstFadc \in Nat /\ frame.firstDcrb \in Nat /\ frame.firstDeferred \in Nat
  BY <1>3 DEF OpenRec
<1>5. QED BY <1>1, <1>2, <1>3, <1>4 DEF SlicesUpTo, Sliced

LEMMA SameOpenSet ==
    ASSUME UNCHANGED <<words, lazy, frame, frames>>
    PROVE  /\ ThisSet' = ThisSet /\ \A kind, p : RocsBefore(kind, p)' = RocsBefore(kind, p)
<1>1. /\ \A p : Rocs(p)' = Rocs(p)
      /\ (\A z : Direct(z)' = Direct(z))
      /\ \A kind, f, R : HitsOf(kind, f, R)' = HitsOf(kind, f, R)
  BY SameWalk
<1>2. ThisSet' = ThisSet
  BY DEF ThisSet
<1>3. QED BY <1>1, <1>2 DEF RocsBefore, Before

(* The ROC bank that comes next in the set that is open.                    *)
LEMMA NextRoc ==
    ASSUME TypeOK, NoneWraps, WalkInv, level = "roc", Levels, rocPos < setEnd, BankReads(rocPos, setEnd)
    PROVE  /\ ThisSet \in OpenSets /\ setEnd = Bank(ThisSet).end /\ rocPos \in Rocs(ThisSet)
           /\ IsRoc(rocPos) /\ rocPos \in Nat /\ Bank(rocPos).end \in RocChain(ThisSet)
           /\ Rocs(ThisSet) \cap Before(Bank(rocPos).end) = (Rocs(ThisSet) \cap Before(rocPos)) \cup {rocPos}
           /\ rocPos \notin Before(rocPos)
<1>1. InSet
  BY DEF InSet, Levels
<1>2. ThisSet \in OpenSets /\ setEnd = Bank(ThisSet).end /\ rocPos \in RocChain(ThisSet)
  BY <1>1 DEF WalkInv, InSets
<1>3. rocPos \in Rocs(ThisSet)
  BY <1>2, RocHere
<1>4. IsRoc(rocPos) /\ rocPos \in Nat
  BY <1>2, <1>3, RocOfSet DEF IsRoc
<1>5. QED BY <1>2, <1>3, <1>4, RocPassed

LEMMA DeferRocSums == ASSUME ParseInv, PartitionInv', DeferRoc PROVE Sums'
<1> DEFINE p == ThisSet
           r == rocPos
           x == [pos |-> rocPos, limit |-> setEnd]
           n == Len(frames) + 1
<1>1. /\ level = "roc" /\ level' = "roc" /\ rocPos < setEnd /\ BankReads(rocPos, setEnd) /\ Deferrable
      /\ deferred' = Append(deferred, x) /\ rocPos' = Bank(r).end
      /\ UNCHANGED <<words, lazy, pos, setEnd, frame, frames, sink, nextDeferred, decoded, hits>>
  BY DEF DeferRoc, input, childVars
<1>2. /\ PartitionInv /\ TypeOK /\ Levels /\ NoneWraps /\ WalkInv /\ DecodeInv /\ frames \in Seq(FrameRec)
      /\ deferred \in Seq(DeferRec) /\ rocPos \in Positions /\ setEnd \in Positions
  BY DEF ParseInv, PartitionInv, TypeOK
<1>3. ~Deferring /\ ~Deferring' /\ Walking /\ Walking' /\ InSet /\ InSet'
  BY <1>1, <1>2 DEF Levels, Deferring, Walking, InSet
<1>4. Fadc = sink.fadc /\ Dcrb = sink.dcrb /\ Fadc' = sink.fadc /\ Dcrb' = sink.dcrb
  BY <1>1, <1>3 DEF Fadc, Dcrb
<1>5. /\ p \in OpenSets /\ setEnd = Bank(p).end /\ r \in Rocs(p)
      /\ Bank(r).end \in RocChain(p) /\ r \in Nat
      /\ Rocs(p) \cap Before(Bank(r).end) = (Rocs(p) \cap Before(r)) \cup {r}
      /\ r \notin Before(r)
  BY <1>1, <1>2, NextRoc
<1>6. /\ pos = Bank(p).end /\ setEnd = pos
      /\ SetsAre(frames, OpenSets \cap Before(p))
      /\ Each(deferred, frame.firstDeferred, Len(deferred),
                DeferredOf(p, (Rocs(p) \cap Before(r)) \ Direct(lazy)))
  BY <1>2, <1>3 DEF WalkInv, InSets
<1>7. BothSinks(frame.firstFadc, frame.firstDcrb, RocsBefore("fadc", r), RocsBefore("dcrb", r))
  BY <1>1, <1>2 DEF WalkInv, AtRocs
<1>8. r \notin Direct(lazy)
  BY <1>1 DEF Deferrable, Direct
<1>9. /\ frame.firstDeferred \in Nat /\ frame.firstDeferred <= Len(deferred) /\ Len(deferred) \in Nat
      /\ Sliced(frames, deferred, "firstDeferred", "nDeferred", frame.firstDeferred)
  BY <1>2, <1>3, OpenSliceEnds
<1>10. x \in DeferRec
  BY <1>2 DEF DeferRec
<1> DEFINE R == (Rocs(p) \cap Before(r)) \ Direct(lazy)
<1>11. (Rocs(p) \cap Before(Bank(r).end)) \ Direct(lazy) = R \cup {r} /\ r \notin R
  BY <1>5, <1>8
<1>12. DeferredOf(p, R \cup {r}) = DeferredOf(p, R) \cup {x} /\ x \notin DeferredOf(p, R)
  <2> HIDE DEF R
  <2>1. x = [pos |-> r, limit |-> Bank(p).end]
    BY <1>5
  <2> HIDE DEF x
  <2>2. \A q \in R : [pos |-> q, limit |-> Bank(p).end] # x
    BY <1>11, <2>1
  <2>3. QED BY <2>1, <2>2 DEF DeferredOf
<1>13. Each(deferred', frame.firstDeferred, Len(deferred'), DeferredOf(p, R \cup {r}))
  <2> HIDE DEF x, R
  <2>1. Each(deferred, frame.firstDeferred, Len(deferred), DeferredOf(p, R))
    BY <1>6 DEF R
  <2> DEFINE H == DeferredOf(p, R)
             a == frame.firstDeferred
  <2>2. a \in Nat /\ a <= Len(deferred) /\ Each(deferred, a, Len(deferred), H) /\ x \notin H
    BY <1>9, <1>12, <2>1
  <2> HIDE DEF H, a
  <2>3. Each(Append(deferred, x), a, Len(Append(deferred, x)), H \cup {x})
    BY <1>2, <1>10, <2>2, EachAppended
  <2>4. QED BY <1>1, <1>12, <2>3 DEF H, a
<1>14. Defers(frames, deferred', lazy)
  <2>1. Defers(frames, deferred, lazy)
    BY <1>2 DEF WalkInv
  <2>2. \A k \in 1 .. Len(deferred) : deferred'[k] = deferred[k]
    <3> HIDE DEF x
    <3>1. QED BY <1>1, <1>2, <1>10
  <2>3. QED BY <1>2, <1>9, <2>1, <2>2, DefersLonger
<1>15. /\ OpenSets' = OpenSets
       /\ (\A z : Direct(z)' = Direct(z)) /\ (\A q, Q : DeferredOf(q, Q)' = DeferredOf(q, Q))
       /\ \A q : Bank(q)' = Bank(q) /\ Rocs(q)' = Rocs(q) /\ RocChain(q)' = RocChain(q)
       /\ ThisSet' = ThisSet /\ \A kind, q : RocsBefore(kind, q)' = RocsBefore(kind, q)
  BY <1>1, SameWalk, SameOpenSet
<1>16. HoldsBoth(frames, Fadc, Dcrb, lazy)' /\ Defers(frames, deferred, lazy)'
  <2>1. HoldsBoth(frames, sink.fadc, sink.dcrb, lazy)
    BY <1>2, <1>4 DEF WalkInv
  <2>2. QED BY <1>1, <1>4, <1>14, <2>1, SameHolds
<1>17. AtSets' /\ AtPayloads'
  BY <1>1 DEF AtSets, AtPayloads
<1>18. InSets'
  BY <1>1, <1>5, <1>6, <1>11, <1>13, <1>15 DEF InSets, Before
<1>19. AtRocs'
  <2>1. Rocs(p) \cap Before(Bank(r).end) \cap Direct(lazy) = Rocs(p) \cap Before(r) \cap Direct(lazy)
    BY <1>5, <1>8
  <2>2. \A kind : RocsBefore(kind, Bank(r).end) = RocsBefore(kind, r)
    BY <2>1 DEF RocsBefore
  <2>3. /\ RocsBefore("fadc", rocPos)' = RocsBefore("fadc", r)
        /\ RocsBefore("dcrb", rocPos)' = RocsBefore("dcrb", r)
    BY <1>1, <1>15, <2>2
  <2>4. QED BY <1>1, <1>7, <2>3 DEF AtRocs, BothSinks
<1>20. WalkInv'
  BY <1>3, <1>16, <1>17, <1>18, <1>19 DEF WalkInv
<1>21. DecodeInv'
  BY <1>1, <1>2, <1>3, NothingDecoded
<1>22. QED BY <1>20, <1>21 DEF Sums

LEMMA PayloadsEntered ==
    ASSUME words' = words, NEW r \in Nat, IsRoc(r), roc' = Bank(r), HasPayloads(r),
           modules' = ModulesOf(r), payPos' \in PayloadChain(r)
    PROVE  InPayloads' /\ ThisRoc' = r
<1>1. ThisRoc' = r
  BY DEF ThisRoc, IsRoc
<1>2. \A p : /\ Bank(p)' = Bank(p) /\ HasPayloads(p)' = HasPayloads(p)
             /\ ModulesOf(p)' = ModulesOf(p) /\ PayloadChain(p)' = PayloadChain(p)
  BY SameWalk
<1>3. QED BY <1>1, <1>2 DEF InPayloads

LEMMA ReadRocSums == ASSUME ParseInv, PartitionInv', ReadRoc PROVE Sums'
<1> DEFINE p == ThisSet
           r == rocPos
           n == Len(frames) + 1
<1>1. /\ level = "roc" /\ rocPos < setEnd /\ BankReads(rocPos, setEnd) /\ ~Deferrable
      /\ ParseRocBank(Bank(r)) /\ rocPos' = Bank(r).end
      /\ UNCHANGED <<words, lazy, pos, setEnd, frame, frames, deferred, sink, nextDeferred, decoded, hits>>
  BY DEF ReadRoc, input, childVars
<1>2. /\ PartitionInv /\ TypeOK /\ Levels /\ NoneWraps /\ WalkInv /\ DecodeInv /\ frames \in Seq(FrameRec)
  BY DEF ParseInv, PartitionInv, TypeOK
<1>3. /\ p \in OpenSets /\ setEnd = Bank(p).end /\ r \in Rocs(p)
      /\ Bank(r).end \in RocChain(p) /\ r \in Nat /\ IsRoc(r)
      /\ Rocs(p) \cap Before(Bank(r).end) = (Rocs(p) \cap Before(r)) \cup {r}
      /\ r \notin Before(r)
  BY <1>1, <1>2, NextRoc
<1>4. \/ UNCHANGED <<level, rocVars>> /\ Payloads(r) = {}
      \/ /\ HasPayloads(r) /\ level' = "payload" /\ roc' = Bank(r)
         /\ modules' = ModulesOf(r) /\ payPos' = Bank(Bank(r).start).end
  BY <1>1, <1>2, <1>3, RocTaken
<1>5. level' \in {"roc", "payload"}
  BY <1>1, <1>4
<1>6. ~Deferring /\ ~Deferring' /\ Walking /\ Walking' /\ InSet /\ InSet'
  BY <1>1, <1>2, <1>5 DEF Levels, Deferring, Walking, InSet
<1>7. Fadc' = Fadc /\ Dcrb' = Dcrb
  BY <1>1, <1>6 DEF Fadc, Dcrb
<1>8. HoldsBoth(frames, Fadc, Dcrb, lazy)' /\ Defers(frames, deferred, lazy)'
  BY <1>1, <1>2, <1>7, FramesStay
<1>9. /\ pos = Bank(p).end /\ setEnd = pos
      /\ SetsAre(frames, OpenSets \cap Before(p))
      /\ Each(deferred, frame.firstDeferred, Len(deferred),
                DeferredOf(p, (Rocs(p) \cap Before(r)) \ Direct(lazy)))
  BY <1>2, <1>6 DEF WalkInv, InSets
<1>10. BothSinks(frame.firstFadc, frame.firstDcrb, RocsBefore("fadc", r), RocsBefore("dcrb", r))
  BY <1>1, <1>2 DEF WalkInv, AtRocs
<1>11. r \in Direct(lazy)
  BY <1>1, <1>3 DEF Deferrable, Direct
<1>12. (Rocs(p) \cap Before(Bank(r).end)) \ Direct(lazy) = (Rocs(p) \cap Before(r)) \ Direct(lazy)
  BY <1>3, <1>11
<1>13. /\ OpenSets' = OpenSets
       /\ (\A z : Direct(z)' = Direct(z)) /\ (\A q, Q : DeferredOf(q, Q)' = DeferredOf(q, Q))
       /\ (\A q : Bank(q)' = Bank(q) /\ Rocs(q)' = Rocs(q) /\ RocChain(q)' = RocChain(q))
       /\ \A kind, f, q, u : SomeHits(kind, f, q, u)' = SomeHits(kind, f, q, u)
       /\ ThisSet' = ThisSet /\ \A kind, q : RocsBefore(kind, q)' = RocsBefore(kind, q)
  BY <1>1, SameWalk, SameOpenSet
<1>14. AtSets'
  BY <1>5 DEF AtSets
<1>15. InSets'
  BY <1>1, <1>3, <1>9, <1>12, <1>13 DEF InSets, Before
<1>16. AtRocs' /\ AtPayloads'
  <2>1. CASE UNCHANGED <<level, rocVars>> /\ Payloads(r) = {}
    <3>1. \A kind : RocHits(kind, n, r) = {}
      BY <2>1 DEF RocHits
    <3>2. Rocs(p) \cap Before(Bank(r).end) \cap Direct(lazy) = (Rocs(p) \cap Before(r) \cap Direct(lazy)) \cup {r}
      BY <1>3, <1>11
    <3>3. \A kind : RocsBefore(kind, Bank(r).end) = RocsBefore(kind, r)
      <4> DEFINE R == Rocs(p) \cap Before(r) \cap Direct(lazy)
      <4>1. \A kind : RocsBefore(kind, Bank(r).end) = HitsOf(kind, n, R \cup {r}) /\ RocsBefore(kind, r) = HitsOf(kind, n, R)
        BY <3>2 DEF RocsBefore
      <4> HIDE DEF R, n
      <4>2. \A kind : HitsOf(kind, n, R \cup {r}) = HitsOf(kind, n, R)
        <5>1. \A kind : HitsOf(kind, n, R \cup {r}) = HitsOf(kind, n, R) \cup RocHits(kind, n, r)
          BY HitsOfMore
        <5>2. QED BY <3>1, <5>1
      <4>3. QED BY <4>1, <4>2
    <3>4. /\ RocsBefore("fadc", rocPos)' = RocsBefore("fadc", r)
          /\ RocsBefore("dcrb", rocPos)' = RocsBefore("dcrb", r)
      BY <1>1, <1>13, <3>3
    <3>5. AtRocs'
      BY <1>1, <1>10, <3>4 DEF AtRocs, BothSinks
    <3>6. AtPayloads'
      BY <1>1, <2>1 DEF AtPayloads
    <3>7. QED BY <3>5, <3>6
  <2>2. CASE /\ HasPayloads(r) /\ level' = "payload" /\ roc' = Bank(r)
             /\ modules' = ModulesOf(r) /\ payPos' = Bank(Bank(r).start).end
    <3>1. \A kind : /\ SomeHits(kind, n, r, payPos') = {} /\ payPos' \in PayloadChain(r)
      BY <1>2, <1>3, <2>2, PayloadsDone
    <3>2. InPayloads' /\ ThisRoc' = r
      BY <1>1, <1>3, <2>2, <3>1, PayloadsEntered
    <3>3. \A kind : SomeHits(kind, Len(frames) + 1, ThisRoc, payPos)' = {}
      BY <1>1, <1>13, <3>1, <3>2
    <3>4. /\ RocsBefore("fadc", ThisRoc)' = RocsBefore("fadc", r)
          /\ RocsBefore("dcrb", ThisRoc)' = RocsBefore("dcrb", r)
      BY <1>13, <3>2
    <3>5. /\ Each(sink.fadc, frame.firstFadc, Len(sink.fadc), RocsBefore("fadc", r) \cup {})
          /\ Each(sink.dcrb, frame.firstDcrb, Len(sink.dcrb), RocsBefore("dcrb", r) \cup {})
      BY <1>10 DEF BothSinks
    <3>6. BothSinks(frame.firstFadc, frame.firstDcrb,
             RocsBefore("fadc", ThisRoc) \cup SomeHits("fadc", Len(frames) + 1, ThisRoc, payPos),
             RocsBefore("dcrb", ThisRoc) \cup SomeHits("dcrb", Len(frames) + 1, ThisRoc, payPos))'
      BY <1>1, <3>3, <3>4, <3>5 DEF BothSinks
    <3>7. (ThisRoc \in Rocs(ThisSet) \cap Direct(lazy) /\ rocPos = Bank(ThisRoc).end)'
      BY <1>1, <1>3, <1>11, <1>13, <3>2
    <3>8. AtPayloads'
      BY <3>2, <3>6, <3>7 DEF AtPayloads
    <3>9. AtRocs'
      BY <2>2 DEF AtRocs
    <3>10. QED BY <3>8, <3>9
  <2>3. QED BY <1>4, <2>1, <2>2
<1>17. WalkInv'
  BY <1>6, <1>8, <1>14, <1>15, <1>16 DEF WalkInv
<1>18. DecodeInv'
  BY <1>1, <1>2, <1>5, <1>6, NothingDecoded
<1>19. QED BY <1>17, <1>18 DEF Sums

-----------------------------------------------------------------------------
(* The frame that is decoded later, and the ROC banks deferred for it.      *)
LEMMA SameFrame ==
    ASSUME UNCHANGED <<words, frames, deferred, decoded>>
    PROVE  /\ FrameBeingDecoded' = FrameBeingDecoded /\ FrameSet' = FrameSet
           /\ OwnFadc' = OwnFadc /\ LastDeferred' = LastDeferred
           /\ \A n : Taken(n)' = Taken(n)
<1>1. FrameBeingDecoded' = FrameBeingDecoded
  BY DEF FrameBeingDecoded
<1>2. FrameSet' = FrameSet
  BY <1>1 DEF FrameSet, SetAt
<1>3. /\ \A p : Rocs(p)' = Rocs(p)
      /\ (\A z : Direct(z)' = Direct(z))
      /\ \A kind, f, R : HitsOf(kind, f, R)' = HitsOf(kind, f, R)
  BY SameWalk
<1>4. OwnFadc' = OwnFadc
  BY <1>1, <1>2, <1>3 DEF OwnFadc
<1>5. LastDeferred' = LastDeferred /\ \A n : Taken(n)' = Taken(n)
  BY <1>1 DEF Taken, LastDeferred
<1>6. QED BY <1>1, <1>2, <1>4, <1>5

LEMMA TakenMore ==
    ASSUME NEW m \in Int, frames[FrameBeingDecoded].firstDeferred \in Int
    PROVE  /\ m <= frames[FrameBeingDecoded].firstDeferred => Taken(m) = {}
           /\ frames[FrameBeingDecoded].firstDeferred < m => Taken(m) = Taken(m - 1) \cup {deferred[m].pos}
<1> DEFINE a == frames[FrameBeingDecoded].firstDeferred
<1>1. \A k : Taken(k) = {deferred[j].pos : j \in a + 1 .. k}
  BY DEF Taken
<1>2. a \in Int
  OBVIOUS
<1> HIDE DEF a
<1>3. ASSUME a < m PROVE a + 1 .. m = (a + 1 .. m - 1) \cup {m}
  BY <1>2, <1>3
<1>4. ASSUME m <= a PROVE a + 1 .. m = {}
  BY <1>2, <1>4
<1>5. QED BY <1>1, <1>3, <1>4 DEF a

LEMMA FrameNumbers ==
    ASSUME PartitionInv, ~Walking, Len(decoded) < Len(frames)
    PROVE  /\ FrameBeingDecoded \in DOMAIN frames
           /\ frames[FrameBeingDecoded] \in FrameRec
           /\ frames[FrameBeingDecoded].firstDeferred \in Nat /\ frames[FrameBeingDecoded].nDeferred \in Nat
           /\ frames[FrameBeingDecoded].firstFadc \in Nat /\ frames[FrameBeingDecoded].nFadc \in Nat
           /\ frames[FrameBeingDecoded].firstFadc + frames[FrameBeingDecoded].nFadc <= Len(hits.fadc)
           /\ LastDeferred = frames[FrameBeingDecoded].firstDeferred + frames[FrameBeingDecoded].nDeferred
           /\ LastDeferred \in Nat
<1>1. FrameBeingDecoded \in DOMAIN frames
  BY DEF PartitionInv, TypeOK, IsSequence, FrameBeingDecoded
<1>2. /\ frames[FrameBeingDecoded] \in FrameRec
      /\ frames[FrameBeingDecoded].firstFadc + frames[FrameBeingDecoded].nFadc <= Len(hits.fadc)
  BY FrameInBounds
<1>3. LastDeferred = frames[FrameBeingDecoded].firstDeferred + frames[FrameBeingDecoded].nDeferred
  BY DEF LastDeferred
<1> DEFINE f == frames[FrameBeingDecoded]
<1>4. f.firstDeferred \in Nat /\ f.nDeferred \in Nat /\ f.firstFadc \in Nat /\ f.nFadc \in Nat
  <2> HIDE DEF f
  <2>1. f \in FrameRec
    BY <1>2 DEF f
  <2>2. QED BY <2>1 DEF FrameRec
<1>5. QED BY <1>1, <1>2, <1>3, <1>4

LEMMA DeferredForFrame ==
    ASSUME PartitionInv, WalkInv, ~Walking, Len(decoded) < Len(frames)
    PROVE  /\ FrameSet \in OpenSets
           /\ \A k \in frames[FrameBeingDecoded].firstDeferred + 1 .. LastDeferred :
                /\ deferred[k].pos \in Rocs(FrameSet) \ Direct(lazy)
                /\ deferred[k].limit = Bank(FrameSet).end
                /\ \A j \in frames[FrameBeingDecoded].firstDeferred + 1 .. LastDeferred :
                      deferred[j].pos = deferred[k].pos => j = k
           /\ Taken(LastDeferred) = Rocs(FrameSet) \ Direct(lazy)
<1> DEFINE g == FrameBeingDecoded
           K == frames[g].firstDeferred + 1 .. LastDeferred
           D == Rocs(FrameSet) \ Direct(lazy)
<1>1. g \in DOMAIN frames /\ LastDeferred = frames[g].firstDeferred + frames[g].nDeferred
  BY FrameNumbers
<1>2. FrameSet \in OpenSets
  <2>1. SetsAre(frames, OpenSets)
    BY DEF WalkInv
  <2>2. QED BY <1>1, <2>1 DEF SetsAre, FrameSet
<1>3. Each(deferred, frames[g].firstDeferred, LastDeferred, DeferredOf(FrameSet, D))
  BY <1>1 DEF WalkInv, Defers, FrameSet
<1>4. /\ {deferred[k] : k \in K} = DeferredOf(FrameSet, D)
      /\ \A j, k \in K : deferred[j] = deferred[k] => j = k
  BY <1>3 DEF Each
<1>5. Taken(LastDeferred) = {deferred[k].pos : k \in K}
  BY DEF Taken
<1> HIDE DEF K, D
<1> DEFINE Noted(r) == [pos |-> r, limit |-> Bank(FrameSet).end]
<1>6. DeferredOf(FrameSet, D) = {Noted(r) : r \in D} /\ \A r : Noted(r).pos = r /\ Noted(r).limit = Bank(FrameSet).end
  BY DEF DeferredOf
<1> HIDE DEF Noted
<1>7. ASSUME NEW k \in K PROVE deferred[k].pos \in D /\ deferred[k] = Noted(deferred[k].pos)
  BY <1>4, <1>6
<1>8. ASSUME NEW j \in K, NEW k \in K, deferred[j].pos = deferred[k].pos PROVE j = k
  BY <1>4, <1>7, <1>8
<1>9. {deferred[k].pos : k \in K} = D
  <2>1. ASSUME NEW r \in D PROVE \E k \in K : deferred[k].pos = r
    BY <1>4, <1>6
  <2>2. QED BY <1>7, <2>1
<1>10. \A k \in K : deferred[k].pos \in D /\ deferred[k].limit = Bank(FrameSet).end
  BY <1>6, <1>7
<1>11. QED BY <1>2, <1>5, <1>8, <1>9, <1>10 DEF K, D

LEMMA DecodeStays ==
    ASSUME DecodeInv, UNCHANGED <<words, lazy, frames, deferred, nextDeferred, decoded>>,
           Walking' => Walking, level' # "done", AtDeferred', AtItsPayloads'
    PROVE  DecodeInv'
<1>1. /\ FrameBeingDecoded' = FrameBeingDecoded /\ LastDeferred' = LastDeferred /\ Deferring' = Deferring
      /\ \A d, f, p : Decodes(d, f, p)' = Decodes(d, f, p)
  BY SameFrame, SameHolds DEF Deferring
<1>2. \A f \in DOMAIN decoded' : Decodes(decoded[f], f, SetAt(frames, f))'
  BY <1>1 DEF DecodeInv
<1>3. /\ lazy' \in BOOLEAN /\ Len(decoded') <= Len(frames')
      /\ (Walking' \/ ~lazy' => decoded' = <<>>)
      /\ Deferring' => /\ lazy'
                       /\ frames'[FrameBeingDecoded'].firstDeferred < nextDeferred'
                       /\ nextDeferred' <= LastDeferred' + 1
  BY <1>1 DEF DecodeInv
<1>4. QED BY <1>2, <1>3 DEF DecodeInv

LEMMA EndPayloadsSums == ASSUME ParseInv, PartitionInv', EndPayloads PROVE Sums'
<1> DEFINE r == ThisRoc
           f == HitFrame
<1>1. /\ level = "payload" /\ level' = IF Deferring THEN "deferred" ELSE "roc"
      /\ (payPos >= roc.end \/ ~BankReads(payPos, roc.end))
      /\ UNCHANGED <<words, lazy, pos, setEnd, rocPos, frame, frames, deferred, sink, nextDeferred, decoded, hits>>
  BY DEF EndPayloads, input, setVars, childVars
<1>2. /\ PartitionInv /\ TypeOK /\ Levels /\ Levels' /\ NoneWraps /\ WalkInv /\ DecodeInv
      /\ payPos \in Nat /\ roc.end \in Nat /\ nextDeferred \in Nat
  BY PlacesAreNumbers DEF ParseInv, PartitionInv, TypeOK
<1>3. Deferring' = Deferring /\ ~BankReads(payPos, roc.end)
  BY <1>1, <1>2 DEF Deferring, BankReads
<1>4. ASSUME InPayloads, IsRoc(r) PROVE \A kind : SomeHits(kind, f, r, payPos) = RocHits(kind, f, r)
  <2>1. roc = Bank(r) /\ HasPayloads(r) /\ payPos \in PayloadChain(r)
    BY <1>4 DEF InPayloads
  <2>2. QED BY <1>2, <1>3, <1>4, <2>1, PayloadsDone
<1>5. CASE ~Deferring
  <2> DEFINE p == ThisSet
             n == Len(frames) + 1
  <2>1. Walking /\ Walking' /\ InSet /\ InSet' /\ level' = "roc" /\ f = n
    BY <1>1, <1>3, <1>5 DEF Walking, InSet, HitFrame
  <2>2. Fadc' = Fadc /\ Dcrb' = Dcrb
    BY <1>1, <2>1 DEF Fadc, Dcrb
  <2>3. HoldsBoth(frames, Fadc, Dcrb, lazy)' /\ Defers(frames, deferred, lazy)'
    BY <1>1, <1>2, <2>2, FramesStay
  <2>4. /\ InPayloads /\ r \in Rocs(p) \cap Direct(lazy) /\ rocPos = Bank(r).end
        /\ BothSinks(frame.firstFadc, frame.firstDcrb,
             RocsBefore("fadc", r) \cup SomeHits("fadc", n, r, payPos),
             RocsBefore("dcrb", r) \cup SomeHits("dcrb", n, r, payPos))
    BY <1>1, <1>2, <1>5 DEF WalkInv, AtPayloads
  <2>5. InSets
    BY <1>2 DEF WalkInv
  <2>6. p \in OpenSets
    BY <2>1, <2>5 DEF InSets
  <2>7. IsRoc(r) /\ Rocs(p) \cap Before(rocPos) = (Rocs(p) \cap Before(r)) \cup {r}
    BY <1>2, <2>4, <2>6, RocOfSet, RocPassed DEF IsRoc
  <2>8. \A kind : RocsBefore(kind, rocPos) = RocsBefore(kind, r) \cup SomeHits(kind, n, r, payPos)
    <3> DEFINE R == Rocs(p) \cap Before(r) \cap Direct(lazy)
    <3>1. Rocs(p) \cap Before(rocPos) \cap Direct(lazy) = R \cup {r}
      BY <2>4, <2>7
    <3>2. \A kind : RocsBefore(kind, rocPos) = HitsOf(kind, n, R \cup {r}) /\ RocsBefore(kind, r) = HitsOf(kind, n, R)
      BY <3>1 DEF RocsBefore
    <3>3. \A kind : SomeHits(kind, n, r, payPos) = RocHits(kind, n, r)
      BY <1>4, <2>1, <2>4, <2>7
    <3> HIDE DEF R, n
    <3>4. \A kind : HitsOf(kind, n, R \cup {r}) = HitsOf(kind, n, R) \cup RocHits(kind, n, r)
      BY HitsOfMore
    <3>5. QED BY <3>2, <3>3, <3>4
  <2>9. /\ OpenSets' = OpenSets
        /\ (\A z : Direct(z)' = Direct(z)) /\ (\A q, Q : DeferredOf(q, Q)' = DeferredOf(q, Q))
        /\ (\A q : Bank(q)' = Bank(q) /\ Rocs(q)' = Rocs(q) /\ RocChain(q)' = RocChain(q))
        /\ ThisSet' = ThisSet /\ \A kind, q : RocsBefore(kind, q)' = RocsBefore(kind, q)
    BY <1>1, SameWalk, SameOpenSet
  <2>10. InSets'
    BY <1>1, <2>1, <2>5, <2>9 DEF InSets, Before
  <2>11. AtRocs'
    <3>1. /\ RocsBefore("fadc", rocPos)' = RocsBefore("fadc", rocPos)
          /\ RocsBefore("dcrb", rocPos)' = RocsBefore("dcrb", rocPos)
      BY <1>1, <2>9
    <3>2. BothSinks(frame.firstFadc, frame.firstDcrb, RocsBefore("fadc", rocPos), RocsBefore("dcrb", rocPos))
      BY <2>4, <2>8
    <3>3. QED BY <1>1, <3>1, <3>2 DEF AtRocs, BothSinks
  <2>12. AtSets' /\ AtPayloads'
    BY <2>1 DEF AtSets, AtPayloads
  <2>13. WalkInv'
    BY <2>1, <2>3, <2>10, <2>11, <2>12 DEF WalkInv
  <2>14. AtDeferred' /\ AtItsPayloads'
    BY <2>1 DEF AtDeferred, AtItsPayloads
  <2>15. DecodeInv'
    BY <1>1, <1>2, <2>1, <2>14, DecodeStays
  <2>16. QED BY <2>13, <2>15 DEF Sums
<1>6. CASE Deferring
  <2> DEFINE a == frames[FrameBeingDecoded].firstDeferred
             m == nextDeferred - 1
  <2>1. ~Walking /\ ~Walking' /\ level' = "deferred" /\ f = FrameBeingDecoded /\ Len(decoded) < Len(frames)
    BY <1>1, <1>2, <1>3, <1>6 DEF Walking, HitFrame, Levels
  <2>2. WalkInv'
    BY <1>1, <1>2, <2>1, AfterWalkStays
  <2>3. /\ InPayloads /\ a + 1 < nextDeferred /\ r = deferred[m].pos
        /\ BothSinks(0, 0,
             OwnFadc \cup HitsOf("fadc", f, Taken(nextDeferred - 2)) \cup SomeHits("fadc", f, r, payPos),
             HitsOf("dcrb", f, Taken(nextDeferred - 2)) \cup SomeHits("dcrb", f, r, payPos))
    BY <1>1, <1>2, <1>6, <2>1 DEF DecodeInv, AtItsPayloads
  <2>4. a \in Nat /\ LastDeferred \in Nat /\ m \in Int /\ a < m /\ m <= LastDeferred
    <3>1. a \in Nat /\ LastDeferred \in Nat
      BY <1>2, <2>1, FrameNumbers
    <3>2. nextDeferred <= LastDeferred + 1
      BY <1>2, <1>6 DEF DecodeInv
    <3>3. QED BY <1>2, <2>3, <3>1, <3>2
  <2>5. IsRoc(r)
    <3>1. m \in a + 1 .. LastDeferred
      BY <2>4
    <3>2. FrameSet \in OpenSets /\ r \in Rocs(FrameSet)
      BY <1>2, <2>1, <2>3, <3>1, DeferredForFrame
    <3>3. QED BY <1>2, <3>2, RocOfSet DEF IsRoc
  <2>6. \A kind : SomeHits(kind, f, r, payPos) = RocHits(kind, f, r)
    BY <1>4, <2>3, <2>5
  <2>7. Taken(m) = Taken(nextDeferred - 2) \cup {r}
    <3>1. m - 1 = nextDeferred - 2
      BY <1>2
    <3>2. Taken(m) = Taken(m - 1) \cup {deferred[m].pos}
      BY <2>4, TakenMore
    <3>3. QED BY <2>3, <3>1, <3>2
  <2>8. \A kind : HitsOf(kind, f, Taken(m)) = HitsOf(kind, f, Taken(nextDeferred - 2)) \cup SomeHits(kind, f, r, payPos)
    <3> DEFINE R == Taken(nextDeferred - 2)
    <3> HIDE DEF R
    <3>1. Taken(m) = R \cup {r}
      BY <2>7 DEF R
    <3>2. \A kind : HitsOf(kind, f, R \cup {r}) = HitsOf(kind, f, R) \cup RocHits(kind, f, r)
      BY HitsOfMore
    <3>3. QED BY <2>6, <3>1, <3>2 DEF R
  <2>9. BothSinks(0, 0, OwnFadc \cup HitsOf("fadc", f, Taken(m)), HitsOf("dcrb", f, Taken(m)))
    <3>1. (OwnFadc \cup HitsOf("fadc", f, Taken(nextDeferred - 2))) \cup SomeHits("fadc", f, r, payPos)
          = OwnFadc \cup HitsOf("fadc", f, Taken(m))
      BY <2>8
    <3>2. QED BY <2>3, <2>8, <3>1
  <2>10. /\ FrameBeingDecoded' = FrameBeingDecoded /\ OwnFadc' = OwnFadc
         /\ (\A n : Taken(n)' = Taken(n))
         /\ \A kind, g, R : HitsOf(kind, g, R)' = HitsOf(kind, g, R)
    BY <1>1, SameFrame, SameWalk
  <2>11. AtDeferred'
    <3>1. nextDeferred' - 1 = m
      BY <1>1
    <3>2. QED BY <1>1, <2>1, <2>9, <2>10, <3>1 DEF AtDeferred, BothSinks
  <2>12. AtItsPayloads'
    BY <2>1 DEF AtItsPayloads
  <2>13. DecodeInv'
    <3>1. DecodeInv /\ UNCHANGED <<words, lazy, frames, deferred, nextDeferred, decoded>>
      BY <1>1, <1>2
    <3>2. level' # "done" /\ (Walking' => Walking)
      BY <1>1, <2>1 DEF Walking
    <3>3. QED BY <2>11, <2>12, <3>1, <3>2, DecodeStays
  <2>14. QED BY <2>2, <2>13 DEF Sums
<1>7. QED BY <1>5, <1>6

LEMMA UnpackPayloadSums == ASSUME ParseInv, PartitionInv', UnpackPayload PROVE Sums'
<1> DEFINE r == ThisRoc
           f == HitFrame
<1>1. /\ level = "payload" /\ level' = "payload"
      /\ UNCHANGED <<words, lazy, pos, setEnd, rocPos, frame, frames, deferred, roc, modules,
                     nextDeferred, decoded, hits>>
  BY DEF UnpackPayload, input, setVars, childVars
<1>2. /\ PartitionInv /\ TypeOK /\ Levels /\ Levels' /\ NoneWraps /\ WalkInv /\ DecodeInv
      /\ nextDeferred \in Nat /\ frames \in Seq(FrameRec)
      /\ Len(sink.fadc) \in Nat /\ Len(sink.dcrb) \in Nat /\ IsSequence(sink.fadc) /\ IsSequence(sink.dcrb)
  <2>1. PartitionInv /\ TypeOK /\ Levels /\ Levels' /\ NoneWraps /\ WalkInv /\ DecodeInv
    BY DEF ParseInv, PartitionInv
  <2>2. nextDeferred \in Nat /\ frames \in Seq(FrameRec) /\ IsSequence(sink.fadc) /\ IsSequence(sink.dcrb)
    BY <2>1 DEF TypeOK, HasHits
  <2>3. \A v : IsSequence(v) => Len(v) \in Nat
    BY DEF IsSequence
  <2>4. QED BY <2>1, <2>2, <2>3
<1>3. Deferring' = Deferring
  BY <1>1 DEF Deferring
<1>4. ASSUME InPayloads, payPos' \in PayloadChain(r)
      PROVE  InPayloads' /\ ThisRoc' = r
  <2>1. \A p : /\ Bank(p)' = Bank(p) /\ HasPayloads(p)' = HasPayloads(p)
               /\ ModulesOf(p)' = ModulesOf(p) /\ PayloadChain(p)' = PayloadChain(p)
    BY <1>1, SameWalk
  <2>2. ThisRoc' = r
    BY <1>1 DEF ThisRoc
  <2>3. QED BY <1>1, <1>4, <2>1, <2>2 DEF InPayloads
<1>5. CASE ~Deferring
  <2> DEFINE p == ThisSet
             n == Len(frames) + 1
  <2>1. Walking /\ Walking' /\ InSet /\ InSet' /\ f = n
    BY <1>1, <1>3, <1>5 DEF Walking, InSet, HitFrame
  <2>2. Fadc = sink.fadc /\ Dcrb = sink.dcrb /\ Fadc' = sink'.fadc /\ Dcrb' = sink'.dcrb
    BY <1>1, <2>1 DEF Fadc, Dcrb
  <2>3. /\ InPayloads /\ r \in Rocs(p) \cap Direct(lazy) /\ rocPos = Bank(r).end
        /\ BothSinks(frame.firstFadc, frame.firstDcrb,
             RocsBefore("fadc", r) \cup SomeHits("fadc", n, r, payPos),
             RocsBefore("dcrb", r) \cup SomeHits("dcrb", n, r, payPos))
    BY <1>1, <1>2, <1>5 DEF WalkInv, AtPayloads
  <2>4. InSets
    BY <1>2 DEF WalkInv
  <2>5. p \in OpenSets
    BY <2>1, <2>4 DEF InSets
  <2>6. IsRoc(r) /\ r \notin Before(r)
    BY <1>2, <2>3, <2>5, RocOfSet, RocPassed DEF IsRoc
  <2>7. \A kind : RocsBefore(kind, r) \cap RocHits(kind, n, r) = {}
    <3> DEFINE R == Rocs(p) \cap Before(r) \cap Direct(lazy)
    <3>1. R \in SUBSET Rocs(p) /\ r \notin R
      BY <2>6
    <3>2. \A kind : RocsBefore(kind, r) = HitsOf(kind, n, R)
      BY DEF RocsBefore
    <3> HIDE DEF R, n
    <3>3. \A kind : RocHits(kind, n, r) \cap HitsOf(kind, n, R) = {}
      BY <1>2, <2>3, <2>5, <3>1, RocApartFromOthers
    <3>4. QED BY <3>2, <3>3
  <2>8. /\ frame.firstFadc \in Nat /\ frame.firstFadc <= Len(sink.fadc)
        /\ frame.firstDcrb \in Nat /\ frame.firstDcrb <= Len(sink.dcrb)
        /\ Sliced(frames, sink.fadc, "firstFadc", "nFadc", frame.firstFadc)
        /\ Sliced(frames, sink.dcrb, "firstDcrb", "nDcrb", frame.firstDcrb)
    BY <1>2, <2>1, OpenSliceEnds
  <2>9. /\ Each(sink'.fadc, frame.firstFadc, Len(sink'.fadc), RocsBefore("fadc", r) \cup SomeHits("fadc", n, r, payPos'))
        /\ Each(sink'.dcrb, frame.firstDcrb, Len(sink'.dcrb), RocsBefore("dcrb", r) \cup SomeHits("dcrb", n, r, payPos'))
        /\ payPos' \in PayloadChain(r)
    <3> DEFINE a == frame.firstFadc
               b == frame.firstDcrb
               F == RocsBefore("fadc", r)
               D == RocsBefore("dcrb", r)
    <3>1. /\ a \in Nat /\ a <= Len(sink.fadc) /\ b \in Nat /\ b <= Len(sink.dcrb)
          /\ F \cap RocHits("fadc", f, r) = {} /\ D \cap RocHits("dcrb", f, r) = {}
          /\ BothSinks(a, b, F \cup SomeHits("fadc", f, r, payPos), D \cup SomeHits("dcrb", f, r, payPos))
      BY <2>1, <2>3, <2>7, <2>8
    <3> HIDE DEF a, b, F, D, n
    <3>2. /\ Each(sink'.fadc, a, Len(sink'.fadc), F \cup SomeHits("fadc", f, r, payPos'))
          /\ Each(sink'.dcrb, b, Len(sink'.dcrb), D \cup SomeHits("dcrb", f, r, payPos'))
          /\ payPos' \in PayloadChain(r)
      BY <1>2, <2>3, <2>6, <3>1, SinkGrows
    <3>3. QED BY <2>1, <3>2 DEF a, b, F, D
  <2>10. HoldsBoth(frames, sink'.fadc, sink'.dcrb, lazy)
    <3>1. PICK F, D : /\ sink'.fadc = sink.fadc \o F /\ sink'.dcrb = sink.dcrb \o D
                      /\ IsSequence(F) /\ IsSequence(D)
      BY <1>2, <2>3, <2>6, Unpacked
    <3>2. \A k \in 1 .. Len(sink.fadc) : sink'.fadc[k] = sink.fadc[k]
      BY <1>2, <3>1 DEF IsSequence
    <3>3. \A k \in 1 .. Len(sink.dcrb) : sink'.dcrb[k] = sink.dcrb[k]
      BY <1>2, <3>1 DEF IsSequence
    <3>4. IsKind("firstFadc", "nFadc") /\ IsKind("firstDcrb", "nDcrb")
      BY DEF IsKind, Kinds
    <3>5. Holds(frames, sink.fadc, "fadc", "firstFadc", "nFadc", lazy)
          /\ Holds(frames, sink.dcrb, "dcrb", "firstDcrb", "nDcrb", lazy)
      BY <1>2, <2>2 DEF WalkInv, HoldsBoth
    <3>6. Holds(frames, sink'.fadc, "fadc", "firstFadc", "nFadc", lazy)
      BY <1>2, <2>8, <3>2, <3>4, <3>5, HoldsLonger
    <3>7. Holds(frames, sink'.dcrb, "dcrb", "firstDcrb", "nDcrb", lazy)
      BY <1>2, <2>8, <3>3, <3>4, <3>5, HoldsLonger
    <3>8. QED BY <3>6, <3>7 DEF HoldsBoth
  <2>11. HoldsBoth(frames, Fadc, Dcrb, lazy)' /\ Defers(frames, deferred, lazy)'
    <3>1. Defers(frames, deferred, lazy)
      BY <1>2 DEF WalkInv
    <3>2. QED BY <1>1, <2>2, <2>10, <3>1, SameHolds
  <2>12. /\ OpenSets' = OpenSets
         /\ (\A z : Direct(z)' = Direct(z)) /\ (\A q, Q : DeferredOf(q, Q)' = DeferredOf(q, Q))
         /\ (\A q : Bank(q)' = Bank(q) /\ Rocs(q)' = Rocs(q) /\ RocChain(q)' = RocChain(q))
         /\ (\A kind, g, q, u : SomeHits(kind, g, q, u)' = SomeHits(kind, g, q, u))
         /\ ThisSet' = ThisSet /\ \A kind, q : RocsBefore(kind, q)' = RocsBefore(kind, q)
    BY <1>1, SameWalk, SameOpenSet
  <2>13. InSets'
    BY <1>1, <2>1, <2>4, <2>12 DEF InSets, Before
  <2>14. AtPayloads'
    <3>1. InPayloads' /\ ThisRoc' = r
      BY <1>4, <2>3, <2>9
    <3>2. /\ RocsBefore("fadc", ThisRoc)' = RocsBefore("fadc", r)
          /\ RocsBefore("dcrb", ThisRoc)' = RocsBefore("dcrb", r)
      BY <2>12, <3>1
    <3>3. /\ SomeHits("fadc", Len(frames) + 1, ThisRoc, payPos)' = SomeHits("fadc", n, r, payPos')
          /\ SomeHits("dcrb", Len(frames) + 1, ThisRoc, payPos)' = SomeHits("dcrb", n, r, payPos')
      BY <1>1, <2>12, <3>1
    <3>4. BothSinks(frame.firstFadc, frame.firstDcrb,
             RocsBefore("fadc", ThisRoc) \cup SomeHits("fadc", Len(frames) + 1, ThisRoc, payPos),
             RocsBefore("dcrb", ThisRoc) \cup SomeHits("dcrb", Len(frames) + 1, ThisRoc, payPos))'
      BY <1>1, <2>9, <3>2, <3>3 DEF BothSinks
    <3>5. (ThisRoc \in Rocs(ThisSet) \cap Direct(lazy) /\ rocPos = Bank(ThisRoc).end)'
      BY <1>1, <2>3, <2>12, <3>1
    <3>6. QED BY <3>1, <3>4, <3>5 DEF AtPayloads
  <2>15. AtSets' /\ AtRocs'
    BY <1>1 DEF AtSets, AtRocs
  <2>16. WalkInv'
    BY <2>1, <2>11, <2>13, <2>14, <2>15 DEF WalkInv
  <2>17. DecodeInv'
    BY <1>1, <1>2, <2>1, NothingDecoded
  <2>18. QED BY <2>16, <2>17 DEF Sums
<1>6. CASE Deferring
  <2> DEFINE a == frames[FrameBeingDecoded].firstDeferred
             m == nextDeferred - 1
  <2>1. ~Walking /\ ~Walking' /\ f = FrameBeingDecoded /\ Len(decoded) < Len(frames)
    BY <1>1, <1>2, <1>3, <1>6 DEF Walking, HitFrame, Levels
  <2>2. WalkInv'
    BY <1>1, <1>2, <2>1, AfterWalkStays
  <2> DEFINE T == Taken(nextDeferred - 2)
  <2>3. /\ InPayloads /\ a + 1 < nextDeferred /\ r = deferred[m].pos
        /\ BothSinks(0, 0,
             OwnFadc \cup HitsOf("fadc", f, T) \cup SomeHits("fadc", f, r, payPos),
             HitsOf("dcrb", f, T) \cup SomeHits("dcrb", f, r, payPos))
    BY <1>1, <1>2, <1>6, <2>1 DEF DecodeInv, AtItsPayloads
  <2>4. a \in Nat /\ LastDeferred \in Nat /\ m \in Int /\ a < m /\ m <= LastDeferred /\ lazy
    <3>1. a \in Nat /\ LastDeferred \in Nat
      BY <1>2, <2>1, FrameNumbers
    <3>2. nextDeferred <= LastDeferred + 1 /\ lazy
      BY <1>2, <1>6 DEF DecodeInv
    <3>3. QED BY <1>2, <2>3, <3>1, <3>2
  <2>5. /\ FrameSet \in OpenSets /\ r \in Rocs(FrameSet) \ Direct(lazy)
        /\ T \subseteq Rocs(FrameSet) /\ r \notin T
    <3> DEFINE K == a + 1 .. LastDeferred
    <3>1. m \in K /\ \A k \in a + 1 .. nextDeferred - 2 : k \in K /\ k # m
      BY <1>2, <2>4
    <3>2. /\ FrameSet \in OpenSets
          /\ \A k \in K : /\ deferred[k].pos \in Rocs(FrameSet) \ Direct(lazy)
                          /\ \A j \in K : deferred[j].pos = deferred[k].pos => j = k
      BY <1>2, <2>1, DeferredForFrame
    <3>3. T = {deferred[k].pos : k \in a + 1 .. nextDeferred - 2}
      BY DEF Taken
    <3> HIDE DEF K, T, a, m
    <3>4. QED BY <2>3, <3>1, <3>2, <3>3
  <2>6. IsRoc(r)
    BY <1>2, <2>5, RocOfSet DEF IsRoc
  <2> DEFINE F == OwnFadc \cup HitsOf("fadc", f, T)
             D == HitsOf("dcrb", f, T)
  <2>7. F \cap RocHits("fadc", f, r) = {} /\ D \cap RocHits("dcrb", f, r) = {}
    <3> DEFINE Q == Rocs(FrameSet) \cap Direct(TRUE)
    <3>1. Q \in SUBSET Rocs(FrameSet) /\ r \notin Q /\ T \in SUBSET Rocs(FrameSet) /\ r \notin T
          /\ r \in Rocs(FrameSet)
      BY <2>4, <2>5 DEF Direct
    <3>2. OwnFadc = HitsOf("fadc", f, Q)
      BY <2>1 DEF OwnFadc
    <3> HIDE DEF Q, T
    <3>3. /\ RocHits("fadc", f, r) \cap HitsOf("fadc", f, Q) = {}
          /\ RocHits("fadc", f, r) \cap HitsOf("fadc", f, T) = {}
          /\ RocHits("dcrb", f, r) \cap HitsOf("dcrb", f, T) = {}
      BY <1>2, <2>5, <3>1, RocApartFromOthers
    <3>4. QED BY <3>2, <3>3
  <2>8. /\ Each(sink'.fadc, 0, Len(sink'.fadc), F \cup SomeHits("fadc", f, r, payPos'))
        /\ Each(sink'.dcrb, 0, Len(sink'.dcrb), D \cup SomeHits("dcrb", f, r, payPos'))
        /\ payPos' \in PayloadChain(r)
    <3>1. 0 \in Nat /\ 0 <= Len(sink.fadc) /\ 0 <= Len(sink.dcrb)
      BY <1>2
    <3>2. BothSinks(0, 0, F \cup SomeHits("fadc", f, r, payPos), D \cup SomeHits("dcrb", f, r, payPos))
      BY <2>3
    <3> HIDE DEF F, D
    <3>3. QED BY <1>2, <2>3, <2>6, <2>7, <3>1, <3>2, SinkGrows
  <2>9. /\ FrameBeingDecoded' = FrameBeingDecoded /\ OwnFadc' = OwnFadc
        /\ (\A n : Taken(n)' = Taken(n))
        /\ (\A kind, g, R : HitsOf(kind, g, R)' = HitsOf(kind, g, R))
        /\ \A kind, g, q, u : SomeHits(kind, g, q, u)' = SomeHits(kind, g, q, u)
    BY <1>1, SameFrame, SameWalk
  <2>10. AtItsPayloads'
    <3>1. InPayloads' /\ ThisRoc' = r
      BY <1>4, <2>3, <2>8
    <3>2. nextDeferred' - 2 = nextDeferred - 2 /\ nextDeferred' - 1 = m
      BY <1>1
    <3>3. /\ OwnFadc' = OwnFadc /\ Taken(nextDeferred - 2)' = T
      BY <1>1, <2>9
    <3>4. /\ HitsOf("fadc", FrameBeingDecoded, Taken(nextDeferred - 2))' = HitsOf("fadc", f, T)
          /\ HitsOf("dcrb", FrameBeingDecoded, Taken(nextDeferred - 2))' = HitsOf("dcrb", f, T)
          /\ SomeHits("fadc", FrameBeingDecoded, ThisRoc, payPos)' = SomeHits("fadc", f, r, payPos')
          /\ SomeHits("dcrb", FrameBeingDecoded, ThisRoc, payPos)' = SomeHits("dcrb", f, r, payPos')
      BY <2>1, <2>9, <3>1, <3>3
    <3>5. BothSinks(0, 0,
             OwnFadc \cup HitsOf("fadc", FrameBeingDecoded, Taken(nextDeferred - 2))
                     \cup SomeHits("fadc", FrameBeingDecoded, ThisRoc, payPos),
             HitsOf("dcrb", FrameBeingDecoded, Taken(nextDeferred - 2))
                     \cup SomeHits("dcrb", FrameBeingDecoded, ThisRoc, payPos))'
      BY <2>8, <3>3, <3>4 DEF BothSinks
    <3>6. /\ (frames[FrameBeingDecoded].firstDeferred + 1 < nextDeferred)'
          /\ (ThisRoc = deferred[nextDeferred - 1].pos)'
      BY <1>1, <2>3, <2>9, <3>1
    <3>7. QED BY <3>1, <3>5, <3>6 DEF AtItsPayloads
  <2>11. AtDeferred'
    BY <1>1 DEF AtDeferred
  <2>12. DecodeInv'
    BY <1>1, <1>2, <2>1, <2>10, <2>11, DecodeStays
  <2>13. QED BY <2>2, <2>12 DEF Sums
<1>7. QED BY <1>5, <1>6

LEMMA DecodeFrameSums == ASSUME ParseInv, PartitionInv', DecodeFrame PROVE Sums'
<1> DEFINE g == FrameBeingDecoded
           f == frames[g]
<1>1. /\ level = "parsed" /\ level' = "deferred" /\ lazy /\ Len(decoded) < Len(frames)
      /\ sink' = [fadc |-> OwnHits(f), dcrb |-> <<>>]
      /\ nextDeferred' = f.firstDeferred + 1
      /\ UNCHANGED <<words, lazy, frames, deferred, hits, decoded>>
  BY DEF DecodeFrame, input, setVars
<1>2. /\ PartitionInv /\ TypeOK /\ Levels /\ Levels' /\ NoneWraps /\ WalkInv /\ DecodeInv
      /\ IsSequence(hits.fadc)
  BY DEF ParseInv, PartitionInv, TypeOK, HasHits
<1>3. ~Walking /\ ~Walking' /\ lazy = TRUE
  BY <1>1, <1>2 DEF Walking, DecodeInv
<1>4. WalkInv'
  BY <1>1, <1>2, <1>3, AfterWalkStays
<1>5. /\ g \in DOMAIN frames /\ f.firstDeferred \in Nat /\ f.nDeferred \in Nat
      /\ f.firstFadc \in Nat /\ f.nFadc \in Nat /\ f.firstFadc + f.nFadc <= Len(hits.fadc)
      /\ LastDeferred = f.firstDeferred + f.nDeferred
  BY <1>1, <1>2, <1>3, FrameNumbers
<1>6. Each(hits.fadc, f.firstFadc, f.firstFadc + f.nFadc, OwnFadc)
  <2>1. Fadc = hits.fadc
    BY <1>3 DEF Fadc
  <2>2. Holds(frames, hits.fadc, "fadc", "firstFadc", "nFadc", TRUE)
    BY <1>2, <1>3, <2>1 DEF WalkInv, HoldsBoth
  <2>3. Each(hits.fadc, frames[g]["firstFadc"], frames[g]["firstFadc"] + frames[g]["nFadc"],
             HitsOf("fadc", g, Rocs(SetAt(frames, g)) \cap Direct(TRUE)))
    BY <1>5, <2>2 DEF Holds
  <2>4. QED BY <2>3 DEF OwnFadc, FrameSet
<1>7. Each(sink'.fadc, 0, Len(sink'.fadc), OwnFadc)
  <2> DEFINE v == hits.fadc
             a == f.firstFadc
             b == f.firstFadc + f.nFadc
  <2>1. IsSequence(v) /\ a \in Nat /\ b \in Nat /\ b <= Len(v) /\ a <= b /\ Each(v, a, b, OwnFadc)
    BY <1>2, <1>5, <1>6
  <2>2. sink'.fadc = SubSeq(v, a + 1, b)
    BY <1>1 DEF OwnHits, Slice
  <2> HIDE DEF v, a, b
  <2>3. QED BY <2>1, <2>2, EachOfSlice
<1>8. Each(sink'.dcrb, 0, Len(sink'.dcrb), {})
  <2>1. sink'.dcrb = <<>> /\ Len(<<>>) = 0
    BY <1>1
  <2>2. Each(<<>>, 0, 0, {})
    BY 0 \in Int, EachOfNone
  <2>3. QED BY <2>1, <2>2
<1> HIDE DEF f
<1>9. nextDeferred' - 1 = f.firstDeferred
  BY <1>1, <1>5
<1>10. Taken(f.firstDeferred) = {} /\ \A kind : HitsOf(kind, g, {}) = {}
  BY <1>5, TakenMore DEF f, HitsOf
<1>11. /\ FrameBeingDecoded' = g /\ OwnFadc' = OwnFadc /\ LastDeferred' = LastDeferred
       /\ (\A n : Taken(n)' = Taken(n))
       /\ (\A kind, j, R : HitsOf(kind, j, R)' = HitsOf(kind, j, R))
       /\ \A d, j, q : Decodes(d, j, q)' = Decodes(d, j, q)
  BY <1>1, SameFrame, SameWalk, SameHolds
<1>12. AtDeferred'
  <2>1. Taken(nextDeferred - 1)' = {}
    BY <1>9, <1>10, <1>11
  <2>2. /\ HitsOf("fadc", FrameBeingDecoded, Taken(nextDeferred - 1))' = {}
        /\ HitsOf("dcrb", FrameBeingDecoded, Taken(nextDeferred - 1))' = {}
    BY <1>10, <1>11, <2>1
  <2>3. Each(sink'.fadc, 0, Len(sink'.fadc), OwnFadc \cup {})
    BY <1>7
  <2>4. QED BY <1>8, <1>11, <2>2, <2>3 DEF AtDeferred, BothSinks
<1>13. AtItsPayloads'
  BY <1>1 DEF AtItsPayloads
<1>14. DecodeInv'
  <2>1. /\ lazy' \in BOOLEAN /\ Len(decoded') <= Len(frames')
        /\ (Walking' \/ ~lazy' => decoded' = <<>>) /\ lazy'
    BY <1>1, <1>2, <1>3 DEF DecodeInv
  <2>2. /\ frames'[FrameBeingDecoded'].firstDeferred < nextDeferred'
        /\ nextDeferred' <= LastDeferred' + 1
    BY <1>1, <1>5, <1>11 DEF f
  <2>3. \A j \in DOMAIN decoded' : Decodes(decoded[j], j, SetAt(frames, j))'
    BY <1>1, <1>2, <1>11 DEF DecodeInv
  <2>4. QED BY <1>1, <1>12, <1>13, <2>1, <2>2, <2>3 DEF DecodeInv
<1>15. QED BY <1>4, <1>14 DEF Sums

LEMMA DecodeRocSums == ASSUME ParseInv, PartitionInv', DecodeRoc PROVE Sums'
<1> DEFINE g == FrameBeingDecoded
           k == nextDeferred
           d == deferred[k]
           r == d.pos
           p == FrameSet
<1>1. /\ level = "deferred" /\ k <= LastDeferred
      /\ (BankReads(d.pos, d.limit) => ParseRocBank(Bank(r)))
      /\ nextDeferred' = k + 1
      /\ UNCHANGED <<words, lazy, frames, deferred, sink, hits, decoded>>
  BY DEF DecodeRoc, input, setVars
<1>2. /\ PartitionInv /\ TypeOK /\ Levels /\ Levels' /\ NoneWraps /\ WalkInv /\ DecodeInv
      /\ nextDeferred \in Nat
  BY DEF ParseInv, PartitionInv, TypeOK
<1>3. Deferring /\ Deferring' /\ ~Walking /\ ~Walking' /\ Len(decoded) < Len(frames)
  BY <1>1, <1>2 DEF Walking, Levels, Deferring
<1>4. WalkInv'
  BY <1>1, <1>2, <1>3, AfterWalkStays
<1>5. lazy /\ frames[g].firstDeferred < k
  BY <1>2, <1>3 DEF DecodeInv
<1>6. frames[g].firstDeferred \in Nat /\ LastDeferred \in Nat
  BY <1>2, <1>3, FrameNumbers
<1>7. p \in OpenSets /\ r \in Rocs(p) /\ d.limit = Bank(p).end
  <2>1. k \in frames[g].firstDeferred + 1 .. LastDeferred
    BY <1>1, <1>2, <1>5, <1>6
  <2>2. QED BY <1>2, <1>3, <2>1, DeferredForFrame
<1>8. IsRoc(r) /\ BankReads(r, d.limit) /\ r \in Nat
  BY <1>2, <1>7, RocOfSet DEF IsRoc
<1>9. \/ UNCHANGED <<level, rocVars>> /\ Payloads(r) = {}
      \/ /\ HasPayloads(r) /\ level' = "payload" /\ roc' = Bank(r)
         /\ modules' = ModulesOf(r) /\ payPos' = Bank(Bank(r).start).end
  BY <1>1, <1>2, <1>8, RocTaken
<1>10. BothSinks(0, 0, OwnFadc \cup HitsOf("fadc", g, Taken(k - 1)), HitsOf("dcrb", g, Taken(k - 1)))
  BY <1>1, <1>2 DEF DecodeInv, AtDeferred
<1>11. /\ FrameBeingDecoded' = g /\ OwnFadc' = OwnFadc /\ LastDeferred' = LastDeferred
       /\ (\A n : Taken(n)' = Taken(n))
       /\ (\A kind, j, R : HitsOf(kind, j, R)' = HitsOf(kind, j, R))
       /\ (\A kind, j, q, u : SomeHits(kind, j, q, u)' = SomeHits(kind, j, q, u))
       /\ \A e, j, q : Decodes(e, j, q)' = Decodes(e, j, q)
  BY <1>1, SameFrame, SameWalk, SameHolds
<1>12. nextDeferred' - 1 = k /\ nextDeferred' - 2 = k - 1
  BY <1>1, <1>2
<1>13. AtDeferred' /\ AtItsPayloads'
  <2>1. CASE UNCHANGED <<level, rocVars>> /\ Payloads(r) = {}
    <3> DEFINE T == Taken(k - 1)
    <3>1. \A kind : RocHits(kind, g, r) = {}
      BY <2>1 DEF RocHits
    <3>2. Taken(k) = T \cup {r}
      BY <1>2, <1>5, <1>6, TakenMore
    <3>3. \A kind : HitsOf(kind, g, Taken(k)) = HitsOf(kind, g, T)
      <4> HIDE DEF T, r, g
      <4>1. \A kind : HitsOf(kind, g, T \cup {r}) = HitsOf(kind, g, T) \cup RocHits(kind, g, r)
        BY HitsOfMore
      <4>2. QED BY <3>1, <3>2, <4>1
    <3>4. /\ HitsOf("fadc", FrameBeingDecoded, Taken(nextDeferred - 1))' = HitsOf("fadc", g, T)
          /\ HitsOf("dcrb", FrameBeingDecoded, Taken(nextDeferred - 1))' = HitsOf("dcrb", g, T)
      BY <1>11, <1>12, <3>3
    <3>5. AtDeferred'
      BY <1>1, <1>10, <1>11, <3>4 DEF AtDeferred, BothSinks
    <3>6. AtItsPayloads'
      BY <1>1, <2>1 DEF AtItsPayloads
    <3>7. QED BY <3>5, <3>6
  <2>2. CASE /\ HasPayloads(r) /\ level' = "payload" /\ roc' = Bank(r)
             /\ modules' = ModulesOf(r) /\ payPos' = Bank(Bank(r).start).end
    <3>1. \A kind : /\ SomeHits(kind, g, r, payPos') = {} /\ payPos' \in PayloadChain(r)
      BY <1>2, <1>8, <2>2, PayloadsDone
    <3>2. InPayloads' /\ ThisRoc' = r
      BY <1>1, <1>8, <2>2, <3>1, PayloadsEntered
    <3>3. \A kind : SomeHits(kind, FrameBeingDecoded, ThisRoc, payPos)' = {}
      BY <1>11, <3>1, <3>2
    <3>4. /\ HitsOf("fadc", FrameBeingDecoded, Taken(nextDeferred - 2))' = HitsOf("fadc", g, Taken(k - 1))
          /\ HitsOf("dcrb", FrameBeingDecoded, Taken(nextDeferred - 2))' = HitsOf("dcrb", g, Taken(k - 1))
      BY <1>11, <1>12
    <3>5. BothSinks(0, 0, (OwnFadc \cup HitsOf("fadc", g, Taken(k - 1))) \cup {}, HitsOf("dcrb", g, Taken(k - 1)) \cup {})
      BY <1>10
    <3>6. BothSinks(0, 0,
             OwnFadc \cup HitsOf("fadc", FrameBeingDecoded, Taken(nextDeferred - 2))
                     \cup SomeHits("fadc", FrameBeingDecoded, ThisRoc, payPos),
             HitsOf("dcrb", FrameBeingDecoded, Taken(nextDeferred - 2))
                     \cup SomeHits("dcrb", FrameBeingDecoded, ThisRoc, payPos))'
      BY <1>1, <1>11, <3>3, <3>4, <3>5 DEF BothSinks
    <3>7. /\ (frames[FrameBeingDecoded].firstDeferred + 1 < nextDeferred)'
          /\ (ThisRoc = deferred[nextDeferred - 1].pos)'
      BY <1>1, <1>2, <1>5, <1>6, <1>11, <1>12, <3>2
    <3>8. AtItsPayloads'
      BY <3>2, <3>6, <3>7 DEF AtItsPayloads
    <3>9. AtDeferred'
      BY <2>2 DEF AtDeferred
    <3>10. QED BY <3>8, <3>9
  <2>3. QED BY <1>9, <2>1, <2>2
<1>14. DecodeInv'
  <2>1. /\ lazy' \in BOOLEAN /\ Len(decoded') <= Len(frames')
        /\ (Walking' \/ ~lazy' => decoded' = <<>>) /\ lazy' /\ level' # "done"
    BY <1>1, <1>2, <1>3, <1>5, <1>9 DEF DecodeInv
  <2>2. /\ frames'[FrameBeingDecoded'].firstDeferred < nextDeferred'
        /\ nextDeferred' <= LastDeferred' + 1
    BY <1>1, <1>2, <1>5, <1>6, <1>11
  <2>3. \A j \in DOMAIN decoded' : Decodes(decoded[j], j, SetAt(frames, j))'
    BY <1>1, <1>2, <1>11 DEF DecodeInv
  <2>4. QED BY <1>13, <2>1, <2>2, <2>3 DEF DecodeInv
<1>15. QED BY <1>4, <1>14 DEF Sums

LEMMA EndFrameSums == ASSUME ParseInv, PartitionInv', EndFrame PROVE Sums'
<1> DEFINE g == FrameBeingDecoded
           p == FrameSet
<1>1. /\ level = "deferred" /\ nextDeferred > LastDeferred /\ level' = "parsed"
      /\ decoded' = Append(decoded, sink) /\ nextDeferred' = 0
      /\ UNCHANGED <<words, lazy, frames, deferred, sink, hits>>
  BY DEF EndFrame, input, setVars
<1>2. /\ PartitionInv /\ TypeOK /\ Levels /\ Levels' /\ NoneWraps /\ WalkInv /\ DecodeInv
      /\ nextDeferred \in Nat /\ IsSequence(sink.fadc) /\ IsSequence(sink.dcrb)
      /\ decoded \in Seq(Range(decoded)) /\ frames \in Seq(FrameRec)
  BY DEF ParseInv, PartitionInv, TypeOK, HasHits, IsSequence
<1>3. Deferring /\ ~Deferring' /\ ~Walking /\ ~Walking' /\ Len(decoded) < Len(frames)
  BY <1>1, <1>2 DEF Walking, Levels, Deferring
<1>4. WalkInv'
  BY <1>1, <1>2, <1>3, AfterWalkStays
<1>5. lazy = TRUE /\ nextDeferred <= LastDeferred + 1
  BY <1>2, <1>3 DEF DecodeInv
<1>6. LastDeferred \in Nat
  BY <1>2, <1>3, FrameNumbers
<1>7. nextDeferred - 1 = LastDeferred
  BY <1>1, <1>2, <1>5, <1>6
<1> DEFINE D == Rocs(p) \ Direct(TRUE)
           Q == Rocs(p) \cap Direct(TRUE)
<1>8. Taken(LastDeferred) = D
  BY <1>2, <1>3, <1>5, DeferredForFrame
<1>9. BothSinks(0, 0, OwnFadc \cup HitsOf("fadc", g, D), HitsOf("dcrb", g, D))
  BY <1>1, <1>2, <1>7, <1>8 DEF DecodeInv, AtDeferred
<1>10. OwnFadc \cup HitsOf("fadc", g, D) = HitsOf("fadc", g, Rocs(p))
  <2>1. OwnFadc = HitsOf("fadc", g, Q)
    BY DEF OwnFadc
  <2>2. Q \cup D = Rocs(p)
    OBVIOUS
  <2> HIDE DEF Q, D
  <2>3. HitsOf("fadc", g, Q \cup D) = HitsOf("fadc", g, Q) \cup HitsOf("fadc", g, D)
    BY HitsOfBoth
  <2>4. QED BY <2>1, <2>2, <2>3
<1>11. Decodes(sink, g, SetAt(frames, g))
  BY <1>2, <1>9, <1>10 DEF Decodes, BothSinks, FrameSet
<1>12. \A f \in DOMAIN decoded' : Decodes(decoded'[f], f, SetAt(frames, f))
  <2>1. /\ DOMAIN decoded' = DOMAIN decoded \cup {g} /\ decoded'[g] = sink
        /\ \A f \in DOMAIN decoded : decoded'[f] = decoded[f]
    <3> DEFINE S == Range(decoded) \cup {sink}
    <3>1. decoded \in Seq(S) /\ sink \in S
      BY <1>2
    <3> HIDE DEF S
    <3>2. Len(decoded) \in Nat /\ DOMAIN decoded = 1 .. Len(decoded) /\ DOMAIN decoded' = 1 .. (Len(decoded) + 1)
          /\ decoded'[Len(decoded) + 1] = sink /\ \A f \in 1 .. Len(decoded) : decoded'[f] = decoded[f]
      BY <1>1, <3>1
    <3>3. QED BY <3>2 DEF FrameBeingDecoded
  <2>2. \A f \in DOMAIN decoded : Decodes(decoded[f], f, SetAt(frames, f))
    BY <1>2 DEF DecodeInv
  <2>3. QED BY <1>11, <2>1, <2>2
<1>13. \A f \in DOMAIN decoded' : Decodes(decoded[f], f, SetAt(frames, f))'
  <2>1. \A d, j, q : Decodes(d, j, q)' = Decodes(d, j, q)
    BY <1>1, SameHolds
  <2>2. QED BY <1>1, <1>12, <2>1
<1>14. Len(decoded') <= Len(frames')
  <2>1. Len(decoded') = Len(decoded) + 1 /\ Len(decoded) \in Nat /\ Len(frames) \in Nat
    <3>1. decoded \in Seq(Range(decoded) \cup {sink}) /\ sink \in Range(decoded) \cup {sink}
      BY <1>2
    <3>2. QED BY <1>1, <1>2, <3>1
  <2>2. QED BY <1>1, <1>3, <2>1
<1>15. AtDeferred' /\ AtItsPayloads'
  BY <1>1 DEF AtDeferred, AtItsPayloads
<1>16. DecodeInv'
  BY <1>1, <1>3, <1>5, <1>13, <1>14, <1>15 DEF DecodeInv
<1>17. QED BY <1>4, <1>16 DEF Sums

LEMMA AllReadSums == ASSUME ParseInv, PartitionInv', AllRead PROVE Sums'
<1>1. /\ level = "parsed" /\ (lazy => Len(decoded) = Len(frames)) /\ level' = "done"
      /\ UNCHANGED <<words, lazy, frames, deferred, nextDeferred, decoded, hits>>
  BY DEF AllRead, input, setVars, childVars
<1>2. /\ PartitionInv /\ Levels /\ Levels' /\ WalkInv /\ DecodeInv
  BY DEF ParseInv, PartitionInv
<1>3. ~Deferring /\ ~Deferring' /\ ~Walking /\ ~Walking'
  BY <1>1, <1>2 DEF Walking, Levels, Deferring
<1>4. WalkInv'
  BY <1>1, <1>2, <1>3, AfterWalkStays
<1>5. AtDeferred' /\ AtItsPayloads'
  BY <1>1 DEF AtDeferred, AtItsPayloads
<1>6. \A f \in DOMAIN decoded' : Decodes(decoded[f], f, SetAt(frames, f))'
  <2>1. \A d, j, q : Decodes(d, j, q)' = Decodes(d, j, q)
    BY <1>1, SameHolds
  <2>2. QED BY <1>1, <1>2, <2>1 DEF DecodeInv
<1>7. /\ lazy' \in BOOLEAN /\ Len(decoded') <= Len(frames')
      /\ (~lazy' => decoded' = <<>>) /\ (lazy' => Len(decoded') = Len(frames'))
  BY <1>1, <1>2 DEF DecodeInv
<1>8. DecodeInv'
  BY <1>3, <1>5, <1>6, <1>7 DEF DecodeInv
<1>9. QED BY <1>4, <1>8 DEF Sums

(* Nothing is walked yet.                                                   *)
LEMMA NoFrames ==
    /\ SetsAre(<<>>, {})
    /\ \A fadc, dcrb, z : HoldsBoth(<<>>, fadc, dcrb, z)
    /\ \A def, z : Defers(<<>>, def, z)
<1>1. DOMAIN <<>> = {}
  OBVIOUS
<1>2. QED BY <1>1 DEF SetsAre, HoldsBoth, Holds, Defers

LEMMA ParseAgainSums == ASSUME ParseInv, PartitionInv', ParseAgain PROVE Sums' /\ EagerInv'
<1>1. /\ level = "done" /\ ~lazy /\ eager' = [frames |-> frames, hits |-> hits]
      /\ lazy' = TRUE /\ level' = "set" /\ pos' = 0 /\ frames' = <<>> /\ deferred' = <<>>
      /\ UNCHANGED <<words, nextDeferred, decoded>>
  BY DEF ParseAgain
<1>2. /\ PartitionInv /\ TypeOK /\ Levels /\ Levels' /\ NoneWraps /\ WalkInv /\ DecodeInv /\ SlicesInv
      /\ frames \in Seq(FrameRec) /\ IsSequence(hits.fadc) /\ IsSequence(hits.dcrb)
  BY DEF ParseInv, PartitionInv, TypeOK, HasHits
<1>3. ~Walking /\ ~InSet /\ ~Deferring' /\ Walking' /\ ~InSet'
  BY <1>1, <1>2 DEF Walking, InSet, Levels
<1>4. lazy = FALSE /\ decoded' = <<>>
  BY <1>1, <1>2 DEF DecodeInv
<1>5. Fadc = hits.fadc /\ Dcrb = hits.dcrb
  BY <1>3 DEF Fadc, Dcrb
<1>6. EagerInv'
  <2>1. SetsAre(frames, OpenSets) /\ HoldsBoth(frames, hits.fadc, hits.dcrb, FALSE)
    BY <1>2, <1>3, <1>4, <1>5 DEF WalkInv
  <2>2. /\ Sliced(frames, hits.fadc, "firstFadc", "nFadc", Len(hits.fadc))
        /\ Sliced(frames, hits.dcrb, "firstDcrb", "nDcrb", Len(hits.dcrb))
    BY <1>2, <1>3, <1>5 DEF SlicesInv, SlicesUpTo
  <2>3. eager'.frames = frames /\ eager'.hits = hits
    BY <1>1
  <2>4. HoldsBoth(eager'.frames, eager'.hits.fadc, eager'.hits.dcrb, FALSE)
    BY <2>1, <2>3
  <2>5. /\ OpenSets' = OpenSets
        /\ \A fs, fadc, dcrb, z : HoldsBoth(fs, fadc, dcrb, z)' = HoldsBoth(fs, fadc, dcrb, z)
    BY <1>1, SameWalk, SameHolds
  <2>6. HoldsBoth(eager.frames, eager.hits.fadc, eager.hits.dcrb, FALSE)'
    BY <2>4, <2>5
  <2>7. QED BY <1>2, <2>1, <2>2, <2>3, <2>5, <2>6 DEF EagerInv
<1>7. WalkInv'
  <2>1. 0 \in SetChain /\ OpenSets \cap Before(0) = {}
    BY <1>2, SetsFirst
  <2>2. SetChain' = SetChain /\ OpenSets' = OpenSets
    BY <1>1, SameWalk
  <2>3. AtSets'
    BY <1>1, <2>1, <2>2, NoFrames DEF AtSets, Before
  <2>4. InSets' /\ AtRocs' /\ AtPayloads'
    BY <1>1, <1>3 DEF InSets, AtRocs, AtPayloads
  <2>5. HoldsBoth(frames, Fadc, Dcrb, lazy)' /\ Defers(frames, deferred, lazy)'
    <3>1. HoldsBoth(<<>>, Fadc', Dcrb', TRUE) /\ Defers(<<>>, <<>>, TRUE)
      BY NoFrames
    <3>2. QED BY <1>1, <3>1, SameHolds
  <2>6. QED BY <1>3, <2>3, <2>4, <2>5 DEF WalkInv
<1>8. DecodeInv'
  <2>1. AtDeferred' /\ AtItsPayloads'
    BY <1>1 DEF AtDeferred, AtItsPayloads
  <2>2. Len(<<>>) = 0 /\ DOMAIN <<>> = {}
    OBVIOUS
  <2>3. Len(decoded') <= Len(frames') /\ DOMAIN decoded' = {}
    BY <1>1, <1>4, <2>2
  <2>4. QED BY <1>1, <1>3, <1>4, <2>1, <2>3 DEF DecodeInv
<1>9. QED BY <1>6, <1>7, <1>8 DEF Sums

LEMMA ParseStarts == ASSUME BlockInit, PartitionInv, NoneWraps PROVE Sums /\ EagerInv
<1>1. /\ level = "set" /\ pos = 0 /\ frames = <<>> /\ deferred = <<>> /\ decoded = <<>>
      /\ lazy = FALSE /\ nextDeferred = 0
  BY DEF BlockInit, ParserInit
<1>2. TypeOK /\ ~Deferring /\ Walking /\ ~InSet
  BY <1>1 DEF PartitionInv, Deferring, Walking, InSet
<1>3. AtSets
  BY <1>1, <1>2, SetsFirst, NoFrames DEF AtSets
<1>4. InSets /\ AtRocs /\ AtPayloads
  BY <1>1, <1>2 DEF InSets, AtRocs, AtPayloads
<1>5. WalkInv
  BY <1>1, <1>2, <1>3, <1>4, NoFrames DEF WalkInv
<1>6. DecodeInv
  <2>1. AtDeferred /\ AtItsPayloads
    BY <1>1 DEF AtDeferred, AtItsPayloads
  <2>2. Len(<<>>) = 0 /\ DOMAIN <<>> = {}
    OBVIOUS
  <2>3. Len(decoded) <= Len(frames) /\ DOMAIN decoded = {}
    BY <1>1, <2>2
  <2>4. QED BY <1>1, <1>2, <2>1, <2>3 DEF DecodeInv
<1>7. EagerInv
  BY <1>1 DEF EagerInv
<1>8. QED BY <1>5, <1>6, <1>7 DEF Sums

LEMMA ParseStutters == ASSUME ParseInv, UNCHANGED parseVars PROVE Sums'
<1>1. UNCHANGED <<words, lazy, level, pos, setEnd, rocPos, frame, frames, deferred, roc, payPos,
                  modules, sink, hits, nextDeferred, decoded>>
  BY DEF parseVars, parserVars, input, setVars, rocVars, childVars
<1>2. WalkInv /\ DecodeInv
  BY DEF ParseInv
<1>3. /\ Deferring' = Deferring /\ Walking' = Walking /\ InSet' = InSet
      /\ Fadc' = Fadc /\ Dcrb' = Dcrb
  BY <1>1 DEF Deferring, Walking, InSet, Fadc, Dcrb
<1>4. /\ OpenSets' = OpenSets /\ SetChain' = SetChain
      /\ (\A p : /\ Bank(p)' = Bank(p) /\ Rocs(p)' = Rocs(p) /\ RocChain(p)' = RocChain(p)
                 /\ HasPayloads(p)' = HasPayloads(p) /\ ModulesOf(p)' = ModulesOf(p)
                 /\ PayloadChain(p)' = PayloadChain(p))
      /\ (\A z : Direct(z)' = Direct(z))
      /\ (\A p, R : DeferredOf(p, R)' = DeferredOf(p, R))
      /\ (\A kind, f, R : HitsOf(kind, f, R)' = HitsOf(kind, f, R))
      /\ \A kind, f, r, u : SomeHits(kind, f, r, u)' = SomeHits(kind, f, r, u)
  BY <1>1, SameWalk
<1>5. ThisSet' = ThisSet /\ ThisRoc' = ThisRoc /\ \A kind, p : RocsBefore(kind, p)' = RocsBefore(kind, p)
  BY <1>1, SameOpenSet DEF ThisRoc
<1>6. InPayloads' = InPayloads
  BY <1>1, <1>4, <1>5 DEF InPayloads
<1>7. HoldsBoth(frames, Fadc, Dcrb, lazy)' /\ Defers(frames, deferred, lazy)'
  BY <1>1, <1>2, <1>3, FramesStay
<1>8. AtSets' /\ InSets'
  BY <1>1, <1>2, <1>3, <1>4, <1>5 DEF WalkInv, AtSets, InSets, Before
<1>9. AtRocs'
  BY <1>1, <1>2, <1>5 DEF WalkInv, AtRocs, BothSinks
<1>10. AtPayloads'
  <2>1. /\ SomeHits("fadc", Len(frames) + 1, ThisRoc, payPos)' = SomeHits("fadc", Len(frames) + 1, ThisRoc, payPos)
        /\ SomeHits("dcrb", Len(frames) + 1, ThisRoc, payPos)' = SomeHits("dcrb", Len(frames) + 1, ThisRoc, payPos)
        /\ RocsBefore("fadc", ThisRoc)' = RocsBefore("fadc", ThisRoc)
        /\ RocsBefore("dcrb", ThisRoc)' = RocsBefore("dcrb", ThisRoc)
    BY <1>1, <1>4, <1>5
  <2>2. QED BY <1>1, <1>2, <1>3, <1>4, <1>5, <1>6, <2>1 DEF WalkInv, AtPayloads, BothSinks
<1>11. WalkInv'
  BY <1>1, <1>2, <1>3, <1>4, <1>7, <1>8, <1>9, <1>10 DEF WalkInv
<1>12. /\ FrameBeingDecoded' = FrameBeingDecoded /\ OwnFadc' = OwnFadc /\ LastDeferred' = LastDeferred
       /\ (\A n : Taken(n)' = Taken(n))
       /\ \A d, f, p : Decodes(d, f, p)' = Decodes(d, f, p)
  BY <1>1, SameFrame, SameHolds
<1>13. /\ HitsOf("fadc", FrameBeingDecoded, Taken(nextDeferred - 1))' = HitsOf("fadc", FrameBeingDecoded, Taken(nextDeferred - 1))
       /\ HitsOf("dcrb", FrameBeingDecoded, Taken(nextDeferred - 1))' = HitsOf("dcrb", FrameBeingDecoded, Taken(nextDeferred - 1))
       /\ HitsOf("fadc", FrameBeingDecoded, Taken(nextDeferred - 2))' = HitsOf("fadc", FrameBeingDecoded, Taken(nextDeferred - 2))
       /\ HitsOf("dcrb", FrameBeingDecoded, Taken(nextDeferred - 2))' = HitsOf("dcrb", FrameBeingDecoded, Taken(nextDeferred - 2))
       /\ SomeHits("fadc", FrameBeingDecoded, ThisRoc, payPos)' = SomeHits("fadc", FrameBeingDecoded, ThisRoc, payPos)
       /\ SomeHits("dcrb", FrameBeingDecoded, ThisRoc, payPos)' = SomeHits("dcrb", FrameBeingDecoded, ThisRoc, payPos)
  BY <1>1, <1>4, <1>5, <1>12
<1>14. AtDeferred'
  BY <1>1, <1>2, <1>12, <1>13 DEF DecodeInv, AtDeferred, BothSinks
<1>15. AtItsPayloads'
  BY <1>1, <1>2, <1>3, <1>5, <1>6, <1>12, <1>13 DEF DecodeInv, AtItsPayloads, BothSinks
<1>16. \A f \in DOMAIN decoded' : Decodes(decoded[f], f, SetAt(frames, f))'
  BY <1>1, <1>2, <1>12 DEF DecodeInv
<1>17. DecodeInv'
  BY <1>1, <1>2, <1>3, <1>12, <1>14, <1>15, <1>16 DEF DecodeInv
<1>18. QED BY <1>11, <1>17 DEF Sums

-----------------------------------------------------------------------------
(* Lazy parsing gives the hits of eager parsing.                            *)

(* The frames of both ways are of the same sets, in the same order.         *)
LEMMA FramesAlike ==
    ASSUME NEW fs \in Seq(FrameRec), NEW gs \in Seq(FrameRec), NEW S, SetsAre(fs, S), SetsAre(gs, S),
           NEW f \in DOMAIN fs
    PROVE  f \in DOMAIN gs /\ SetAt(fs, f) = SetAt(gs, f)
<1> DEFINE Same(k) == k \in DOMAIN gs /\ SetAt(fs, k) = SetAt(gs, k)
           Bad == {k \in DOMAIN fs : ~Same(k)}
           F(k) == SetAt(fs, k)
           G(k) == SetAt(gs, k)
<1>1. /\ Len(fs) \in Nat /\ DOMAIN fs = 1 .. Len(fs) /\ Len(gs) \in Nat /\ DOMAIN gs = 1 .. Len(gs)
  OBVIOUS
<1>2. (\A k \in DOMAIN fs : F(k) \in Int) /\ \A k \in DOMAIN gs : G(k) \in Int
  <2>1. ASSUME NEW k \in DOMAIN fs PROVE F(k) \in Int
    <3>1. fs[k] \in FrameRec
      OBVIOUS
    <3>2. fs[k].number \in Nat
      BY <3>1 DEF FrameRec
    <3>3. QED BY <3>2 DEF SetAt
  <2>2. ASSUME NEW k \in DOMAIN gs PROVE G(k) \in Int
    <3>1. gs[k] \in FrameRec
      OBVIOUS
    <3>2. gs[k].number \in Nat
      BY <3>1 DEF FrameRec
    <3>3. QED BY <3>2 DEF SetAt
  <2>3. QED BY <2>1, <2>2
<1>3. /\ \A k \in DOMAIN fs : \E j \in DOMAIN gs : G(j) = F(k)
      /\ \A k \in DOMAIN gs : \E j \in DOMAIN fs : F(j) = G(k)
      /\ \A j, k \in DOMAIN fs : j < k => F(j) < F(k)
      /\ \A j, k \in DOMAIN gs : j < k => G(j) < G(k)
  <2>1. {F(k) : k \in DOMAIN fs} = {G(k) : k \in DOMAIN gs}
    BY DEF SetsAre
  <2>2. (\A j, k \in DOMAIN fs : j < k => F(j) < F(k)) /\ \A j, k \in DOMAIN gs : j < k => G(j) < G(k)
    BY DEF SetsAre
  <2> HIDE DEF F, G
  <2>3. QED BY <2>1, <2>2
<1> HIDE DEF F, G
<1>4. ASSUME Bad # {} PROVE FALSE
  <2>1. PICK k \in Bad : \A l \in Bad : k <= l
    <3>1. Bad \in SUBSET Nat
      BY <1>1
    <3> HIDE DEF Bad
    <3>2. QED BY <1>4, <3>1, LeastNumber
  <2>2. k \in DOMAIN fs /\ ~Same(k)
    OBVIOUS
  <2>3. \A l \in DOMAIN fs : l < k => Same(l)
    BY <1>1, <2>1
  <2> HIDE DEF Bad
  <2>4. \A l \in DOMAIN fs : l < k => l \in DOMAIN gs /\ F(l) = G(l)
    BY <2>3 DEF F, G
  <2>5. ~(k \in DOMAIN gs /\ F(k) = G(k))
    BY <2>2 DEF F, G
  <2> HIDE DEF Same
  <2>6. PICK j \in DOMAIN gs : G(j) = F(k)
    BY <1>3, <2>2
  <2>7. ~(j < k)
    <3>1. ASSUME j < k PROVE FALSE
      <4>1. j \in DOMAIN fs
        BY <1>1, <2>2, <2>6, <3>1
      <4>2. F(j) = F(k) /\ F(j) < F(k)
        BY <1>3, <2>2, <2>4, <2>6, <3>1, <4>1
      <4>3. QED BY <1>2, <2>2, <4>2
    <3>2. QED BY <3>1
  <2>8. k \in DOMAIN gs /\ k < j
    BY <1>1, <2>2, <2>5, <2>6, <2>7
  <2>9. PICK i \in DOMAIN fs : F(i) = G(k)
    BY <1>3, <2>8
  <2>10. G(k) < F(k)
    BY <1>3, <2>6, <2>8
  <2>11. i < k
    <3>1. F(i) \in Int /\ F(k) \in Int /\ F(i) < F(k)
      BY <1>2, <2>2, <2>9, <2>10
    <3>2. ASSUME k < i PROVE FALSE
      <4>1. F(k) < F(i)
        BY <1>3, <2>2, <2>9, <3>2
      <4>2. QED BY <3>1, <4>1
    <3>3. i # k
      BY <3>1
    <3>4. i \in Nat /\ k \in Nat
      BY <1>1, <2>2, <2>9
    <3>5. QED BY <3>2, <3>3, <3>4
  <2>12. i \in DOMAIN gs /\ G(i) = G(k) /\ G(i) < G(k)
    BY <1>3, <2>4, <2>8, <2>9, <2>11
  <2>13. QED BY <1>2, <2>8, <2>12
<1>5. Same(f)
  BY <1>4
<1>6. QED BY <1>5

LEMMA SameCount ==
    ASSUME NEW fs \in Seq(FrameRec), NEW gs \in Seq(FrameRec), NEW S, SetsAre(fs, S), SetsAre(gs, S)
    PROVE  Len(fs) = Len(gs)
<1>1. Len(fs) \in Nat /\ DOMAIN fs = 1 .. Len(fs) /\ Len(gs) \in Nat /\ DOMAIN gs = 1 .. Len(gs)
  OBVIOUS
<1>2. (\A f \in DOMAIN fs : f \in DOMAIN gs) /\ \A f \in DOMAIN gs : f \in DOMAIN fs
  BY FramesAlike
<1> DEFINE m == Len(fs)
           n == Len(gs)
<1>3. (\A f \in 1 .. m : f \in 1 .. n) /\ \A f \in 1 .. n : f \in 1 .. m
  <2>1. DOMAIN fs = 1 .. m /\ DOMAIN gs = 1 .. n
    BY <1>1
  <2> HIDE DEF m, n
  <2>2. QED BY <1>2, <2>1
<1>4. m \in Nat /\ n \in Nat
  BY <1>1
<1> HIDE DEF m, n
<1>5. m > 0 => m <= n
  <2>1. m > 0 => m \in 1 .. m
    BY <1>4
  <2>2. QED BY <1>3, <1>4, <2>1
<1>6. n > 0 => n <= m
  <2>1. n > 0 => n \in 1 .. n
    BY <1>4
  <2>2. QED BY <1>3, <1>4, <2>1
<1>7. m = n
  BY <1>4, <1>5, <1>6
<1>8. QED BY <1>7 DEF m, n

(* A slice of the hits of eager parsing has those of all the ROC banks of   *)
(* the frame, once each.                                                    *)
Once(H) == [x \in H |-> 1]
IsSliceOf(fs, v, kind, first, n, f, H) ==
    /\ fs \in Seq(FrameRec) /\ f \in DOMAIN fs
    /\ IsSequence(v) /\ IsKind(first, n) /\ Sliced(fs, v, first, n, Len(v))
    /\ Holds(fs, v, kind, first, n, FALSE)
    /\ H = HitsOf(kind, f, Rocs(SetAt(fs, f))) /\ Rocs(SetAt(fs, f)) \subseteq Nat
LEMMA EagerSliceIs ==
    ASSUME NEW fs, NEW v, NEW kind, NEW first, NEW n, NEW f, NEW H, IsSliceOf(fs, v, kind, first, n, f, H)
    PROVE  ToBag(Slice(v, fs[f][first], fs[f][n])) = Once(H)
<1> DEFINE a == fs[f][first]
           b == fs[f][first] + fs[f][n]
           w == SubSeq(v, a + 1, b)
<1>1. /\ fs \in Seq(FrameRec) /\ f \in DOMAIN fs
      /\ IsSequence(v) /\ IsKind(first, n) /\ Sliced(fs, v, first, n, Len(v))
      /\ Holds(fs, v, kind, first, n, FALSE)
      /\ H = HitsOf(kind, f, Rocs(SetAt(fs, f))) /\ Rocs(SetAt(fs, f)) \subseteq Nat
  BY DEF IsSliceOf
<1>2. fs[f] \in FrameRec /\ Len(v) \in Nat
  BY <1>1 DEF IsSequence
<1>3. fs[f][first] \in Nat /\ fs[f][n] \in Nat
  BY <1>1, <1>2, KindFields
<1>4. a \in Nat /\ b \in Nat /\ a <= b /\ b <= Len(v)
  BY <1>1, <1>2, <1>3 DEF Sliced
<1>5. Each(v, a, b, H)
  <2>1. Rocs(SetAt(fs, f)) \cap Direct(FALSE) = Rocs(SetAt(fs, f))
    BY <1>1 DEF Direct
  <2>2. QED BY <1>1, <2>1 DEF Holds
<1>6. Slice(v, fs[f][first], fs[f][n]) = w
  BY DEF Slice
<1> HIDE DEF a, b
<1>7. IsSequence(w) /\ Each(w, 0, Len(w), H)
  BY <1>1, <1>4, <1>5, EachOfSlice
<1> HIDE DEF w
<1>8. ToBag(w) = [x \in H |-> 1]
  BY <1>7, EachIsBag
<1>9. QED BY <1>6, <1>8 DEF Once

LEMMA HitsNotOfEcal ==
    ASSUME TypeOK, NoneWraps, NEW p \in OpenSets, NEW f
    PROVE  {h \in HitsOf("dcrb", f, Rocs(p)) : h.roc \notin EcalRocs}
           = HitsOf("dcrb", f, Rocs(p) \ Direct(TRUE))
<1>1. ASSUME NEW r \in Rocs(p), NEW h \in RocHits("dcrb", f, r)
      PROVE  h.roc \notin EcalRocs <=> r \notin Direct(TRUE)
  <2>1. IsRoc(r) /\ r \in Nat
    BY RocOfSet DEF IsRoc
  <2>2. h.roc = Bank(r).tag
    BY <2>1, HitsInRoc
  <2>3. QED BY <2>1, <2>2 DEF Direct
<1>2. QED BY <1>1 DEF HitsOf

LEMMA ParsedAlike == ParseInv => LazyAsEager
<1> SUFFICES ASSUME ParseInv, Finished PROVE LazyAsEager
  BY DEF LazyAsEager, FadcAsEager, DcrbButForEcal
<1>1. /\ TypeOK /\ Levels /\ NoneWraps /\ WalkInv /\ DecodeInv /\ frames \in Seq(FrameRec) /\ IsSequence(decoded)
  BY DEF ParseInv, PartitionInv, TypeOK
<1>2. /\ eager.frames \in Seq(FrameRec)
      /\ IsSequence(eager.hits.fadc) /\ IsSequence(eager.hits.dcrb)
      /\ Sliced(eager.frames, eager.hits.fadc, "firstFadc", "nFadc", Len(eager.hits.fadc))
      /\ Sliced(eager.frames, eager.hits.dcrb, "firstDcrb", "nDcrb", Len(eager.hits.dcrb))
      /\ SetsAre(eager.frames, OpenSets)
      /\ HoldsBoth(eager.frames, eager.hits.fadc, eager.hits.dcrb, FALSE)
  BY DEF ParseInv, EagerInv, Finished
<1>3. SetsAre(frames, OpenSets) /\ Len(decoded) = Len(frames)
  BY <1>1 DEF Finished, WalkInv, Walking, DecodeInv
<1>4. Len(frames) = Len(eager.frames)
  BY <1>1, <1>2, <1>3, SameCount
<1>5. ASSUME NEW f \in DOMAIN decoded
      PROVE  /\ ToBag(decoded[f].fadc) = ToBag(EagerSlice(f, eager.hits.fadc, "firstFadc", "nFadc"))
             /\ LET part == EagerSlice(f, eager.hits.dcrb, "firstDcrb", "nDcrb")
                IN  ToBag(decoded[f].dcrb) = RestrictDomain(ToBag(part), LAMBDA h : h.roc \notin EcalRocs)
  <2> DEFINE fs == eager.frames
             p == SetAt(frames, f)
             H == HitsOf("fadc", f, Rocs(p))
             D == HitsOf("dcrb", f, Rocs(p))
             E == HitsOf("dcrb", f, Rocs(p) \ Direct(TRUE))
  <2>1. f \in DOMAIN frames
    BY <1>1, <1>3 DEF IsSequence
  <2>2. f \in DOMAIN fs /\ SetAt(fs, f) = p
    BY <1>1, <1>2, <1>3, <2>1, FramesAlike
  <2>3. p \in OpenSets
    BY <1>3, <2>1 DEF SetsAre
  <2>4. Rocs(p) \subseteq Nat
    BY <1>1, <2>3, RocsOfSet
  <2>5. ToBag(decoded[f].fadc) = [x \in H |-> 1] /\ ToBag(decoded[f].dcrb) = [x \in E |-> 1]
    <3>1. /\ IsSequence(decoded[f].fadc) /\ IsSequence(decoded[f].dcrb)
          /\ Each(decoded[f].fadc, 0, Len(decoded[f].fadc), H)
          /\ Each(decoded[f].dcrb, 0, Len(decoded[f].dcrb), E)
      BY <1>1 DEF DecodeInv, Decodes
    <3> HIDE DEF H, E
    <3>2. QED BY <3>1, EachIsBag
  <2>6. /\ ToBag(EagerSlice(f, eager.hits.fadc, "firstFadc", "nFadc")) = [x \in H |-> 1]
        /\ ToBag(EagerSlice(f, eager.hits.dcrb, "firstDcrb", "nDcrb")) = [x \in D |-> 1]
    <3>1. IsKind("firstFadc", "nFadc") /\ IsKind("firstDcrb", "nDcrb")
      BY DEF IsKind, Kinds
    <3>2. /\ Holds(fs, eager.hits.fadc, "fadc", "firstFadc", "nFadc", FALSE)
          /\ Holds(fs, eager.hits.dcrb, "dcrb", "firstDcrb", "nDcrb", FALSE)
      BY <1>2 DEF HoldsBoth
    <3> DEFINE u == eager.hits.fadc
               v == eager.hits.dcrb
    <3>3. /\ IsSequence(u) /\ Sliced(fs, u, "firstFadc", "nFadc", Len(u))
          /\ Holds(fs, u, "fadc", "firstFadc", "nFadc", FALSE)
          /\ IsSequence(v) /\ Sliced(fs, v, "firstDcrb", "nDcrb", Len(v))
          /\ Holds(fs, v, "dcrb", "firstDcrb", "nDcrb", FALSE)
      BY <1>2, <3>2
    <3>4. fs \in Seq(FrameRec) /\ f \in DOMAIN fs /\ Rocs(SetAt(fs, f)) \subseteq Nat
      BY <1>2, <2>2, <2>4
    <3> HIDE DEF fs, u, v, p
    <3>6. ToBag(Slice(u, fs[f]["firstFadc"], fs[f]["nFadc"])) = Once(H)
      <4> DEFINE first == "firstFadc"
                 n == "nFadc"
                 kind == "fadc"
      <4>1. H = HitsOf(kind, f, Rocs(SetAt(fs, f)))
        BY <2>2
      <4> HIDE DEF H
      <4>2. IsSliceOf(fs, u, kind, first, n, f, H)
        BY <3>1, <3>3, <3>4, <4>1 DEF IsSliceOf
      <4> HIDE DEF first, n, kind
      <4>3. ToBag(Slice(u, fs[f][first], fs[f][n])) = Once(H)
        BY <4>2, EagerSliceIs
      <4>4. QED BY <4>3 DEF first, n
    <3>7. ToBag(Slice(v, fs[f]["firstDcrb"], fs[f]["nDcrb"])) = Once(D)
      <4> DEFINE first == "firstDcrb"
                 n == "nDcrb"
                 kind == "dcrb"
      <4>1. D = HitsOf(kind, f, Rocs(SetAt(fs, f)))
        BY <2>2
      <4> HIDE DEF D
      <4>2. IsSliceOf(fs, v, kind, first, n, f, D)
        BY <3>1, <3>3, <3>4, <4>1 DEF IsSliceOf
      <4> HIDE DEF first, n, kind
      <4>3. ToBag(Slice(v, fs[f][first], fs[f][n])) = Once(D)
        BY <4>2, EagerSliceIs
      <4>4. QED BY <4>3 DEF first, n
    <3>9. QED BY <3>6, <3>7 DEF EagerSlice, Once, fs, u, v
  <2>7. {h \in D : h.roc \notin EcalRocs} = E
    BY <1>1, <2>3, HitsNotOfEcal
  <2> DEFINE bag == [x \in D |-> 1]
  <2>8. RestrictDomain(bag, LAMBDA h : h.roc \notin EcalRocs) = [x \in E |-> 1]
    <3> HIDE DEF D, E
    <3>1. DOMAIN bag = D /\ \A x \in D : bag[x] = 1
      OBVIOUS
    <3> HIDE DEF bag
    <3>2. {h \in DOMAIN bag : h.roc \notin EcalRocs} = E /\ E \subseteq D
      BY <2>7, <3>1
    <3>3. Restrict(bag, E) = [x \in E |-> 1]
      BY <3>1, <3>2 DEF Restrict
    <3>4. QED BY <3>2, <3>3 DEF RestrictDomain
  <2>9. QED BY <2>5, <2>6, <2>8
<1>6. QED BY <1>3, <1>4, <1>5 DEF LazyAsEager, FadcAsEager, DcrbButForEcal

(* SroFrameSetParser.h:35: lazy parsing, with every frame decoded later,    *)
(* gives for each frame exactly the FADC hits of eager parsing, each as     *)
(* often, and of the DCRB hits those that are not of the ECAL, whatever the *)
(* words of the block are, if no length wraps around.                       *)
THEOREM LazyGivesEager == ParseSpec => [](NoneWraps => LazyAsEager)
<1>1. BlockInit /\ NoneWraps => ParseInv
  <2> SUFFICES ASSUME BlockInit, NoneWraps PROVE ParseInv
    OBVIOUS
  <2>1. PartitionInv /\ NoneWraps
    BY PartitionInitially
  <2>2. CursorsNest
    BY DEF BlockInit, ParserInit, CursorsNest
  <2>3. Sums /\ EagerInv
    BY <2>1, ParseStarts
  <2>4. QED BY <2>1, <2>2, <2>3 DEF ParseInv, Sums
<1>2. ParseInv /\ [Parse \/ ParseAgain \/ Done]_parseVars => ParseInv'
  <2> SUFFICES ASSUME ParseInv, [Parse \/ ParseAgain \/ Done]_parseVars PROVE ParseInv'
    OBVIOUS
  <2>1. PartitionInv /\ NoneWraps /\ CursorsNest /\ EagerInv /\ PartitionInv'
    BY PartitionPreserved DEF ParseInv
  <2>2. CASE Parse
    <3>1. ParserNext /\ eager' = eager
      BY <2>2 DEF Parse
    <3>2. words' = words /\ lazy' = lazy
      BY <3>1 DEF ParserNext, EndBlock, AbandonBlock, EndWalk, SkipSet, OpenSet, CloseSet, DeferRoc,
         ReadRoc, EndPayloads, UnpackPayload, DecodeFrame, DecodeRoc, EndFrame, AllRead, input
    <3>3. Sums'
      <4>1. CASE EndBlock
        <5>1. level = "set" /\ pos >= Size /\ EndWalk(0)
          BY <4>1 DEF EndBlock
        <5>2. pos \in Nat /\ Size \in Nat
          BY <2>1, PlacesAreNumbers DEF PartitionInv, TypeOK
        <5>3. ~BankReads(pos, Size)
          BY <5>1, <5>2 DEF BankReads
        <5>4. QED BY <2>1, <5>1, <5>3, EndWalkSums
      <4>2. CASE AbandonBlock
        BY <2>1, <4>2, EndWalkSums DEF AbandonBlock
      <4>3. QED
        BY <2>1, <3>1, <4>1, <4>2, SkipSetSums, OpenSetSums, CloseSetSums, DeferRocSums, ReadRocSums,
           EndPayloadsSums, UnpackPayloadSums, DecodeFrameSums, DecodeRocSums, EndFrameSums,
           AllReadSums DEF ParserNext
    <3>4. EagerInv'
      BY <2>1, <3>1, <3>2, EagerStays
    <3>5. NoneWraps' /\ CursorsNest'
      BY <2>1, <3>1, <3>2, NestPreserved DEF NoneWraps, Size
    <3>6. QED BY <2>1, <3>3, <3>4, <3>5 DEF ParseInv, Sums
  <2>3. CASE ParseAgain
    <3>1. Sums' /\ EagerInv'
      BY <2>1, <2>3, ParseAgainSums
    <3>2. NoneWraps' /\ CursorsNest'
      BY <2>1, <2>3 DEF ParseAgain, CursorsNest, NoneWraps, Size
    <3>3. QED BY <2>1, <3>1, <3>2 DEF ParseInv, Sums
  <2>4. CASE Done \/ UNCHANGED parseVars
    <3>1. UNCHANGED parseVars
      BY <2>4 DEF Done
    <3>2. UNCHANGED <<words, lazy, level, pos, setEnd, rocPos, payPos, roc, nextDeferred, eager>>
      BY <3>1 DEF parseVars, parserVars, input, setVars, rocVars, childVars
    <3>3. NoneWraps' /\ CursorsNest'
      BY <2>1, <3>2 DEF CursorsNest, Deferring, NoneWraps, Size
    <3>4. EagerInv'
      BY <2>1, <3>2, EagerStays
    <3>5. Sums'
      BY <3>1, ParseStutters
    <3>6. QED BY <2>1, <3>3, <3>4, <3>5 DEF ParseInv, Sums
  <2>5. QED BY <2>2, <2>3, <2>4
<1>3. ~NoneWraps /\ [Parse \/ ParseAgain \/ Done]_parseVars => ~NoneWraps'
  BY WordsKept DEF NoneWraps, Size
<1>4. QED BY <1>1, <1>2, <1>3, ParsedAlike, PTL DEF ParseSpec
=============================================================================
