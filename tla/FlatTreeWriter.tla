-------------------------- MODULE FlatTreeWriter ---------------------------
(***************************************************************************)
(* FlatTreeWriterProcessor: JANA calls Process on worker threads, each     *)
(* with an event of its own.  With one thread there is one tree, in the    *)
(* histogram file; otherwise each thread fills a tree of its own, whose    *)
(* rows a TBufferMerger moves to the output file when the thread writes    *)
(* its buffer.  The branches of the first gem_samples_max_events events    *)
(* hold the samples of the GEM, which take most of the space.              *)
(*                                                                         *)
(* The buffers behind one row of the events tree (flatio::FlatIoBundle and *)
(* the generated *RecordIO classes).  Of a group of branches the model     *)
(* keeps the events whose records are in it, and of f125_wraw, a group     *)
(* with a sample vector per record, how the flattened vector is cut.       *)
(***************************************************************************)
EXTENDS Naturals, Sequences, SequencesExt, FiniteSets

CONSTANT IndexRange      (* values of a samples_index, 2^16 in the code    *)

ASSUME IndexRangeAssumption == IndexRange \in Nat \ {0}

RawGroups  == {"srs_raw", "f125_raw", "f250_raw", "f125_pulse", "f250_pulse"}
GemOrder   == <<"gem_clusters", "gem_prerecon", "gem_peaks", "gem_samples">>
FpgaOrder  == <<"fpga_cluster", "fpga_hits_to_track", "fpga_track_fit">>
GemGroups  == Range(GemOrder)
FpgaGroups == Range(FpgaOrder)
IoGroups   == RawGroups \cup GemGroups \cup FpgaGroups

(* Branches exist only for the enabled groups; fpga stands for three.      *)
Bound(config) ==
    (config \ {"fpga"}) \cup (IF "fpga" \in config THEN FpgaGroups ELSE {})

NoSlices == [index |-> <<>>, count |-> <<>>, samples |-> <<>>]
NewIo(config) == [own |-> [g \in Bound(config) |-> {}], slices |-> NoSlices, event |-> 0]

(* Mutant: the buffers of the reconstruction keep the last event.          *)
ClearRawOnly(io, e) ==
    [own    |-> [g \in DOMAIN io.own |-> IF g \in RawGroups THEN {} ELSE io.own[g]],
     slices |-> NoSlices,
     event  |-> e]

(* io.clear() and the number of the new event.                             *)
Clear(io, e) ==
    [own |-> [g \in DOMAIN io.own |-> {}], slices |-> NoSlices, event |-> e]

SaveGroups(io, gs, e) ==
    [io EXCEPT !.own = [g \in DOMAIN @ |-> IF g \in gs THEN @[g] \cup {e} ELSE @[g]]]

(* Mutant: the index advances by the record's own samples.                 *)
AddWindowOwnCount(slices, e, n) ==
    [index   |-> Append(slices.index,
                   IF slices.count = <<>> THEN 0 ELSE (Last(slices.index) + n) % IndexRange),
     count   |-> Append(slices.count, n % IndexRange),
     samples |-> slices.samples \o [k \in 1..n |-> <<e, Len(slices.count) + 1>>]]

(* F125WindowRawRecordIO::add for a record of n samples of event e: the    *)
(* flattened samples grow, and the index is a uint16_t.                    *)
AddWindow(slices, e, n) ==
    [index   |-> Append(slices.index,
                   IF slices.count = <<>> THEN 0
                   ELSE (Last(slices.index) + Last(slices.count)) % IndexRange),
     count   |-> Append(slices.count, n % IndexRange),
     samples |-> slices.samples \o [k \in 1..n |-> <<e, Len(slices.count) + 1>>]]

(* The slices after the first k records of the event.                      *)
AddWindows(slices, e, windows) ==
    LET added[k \in 0..Len(windows)] ==
            IF k = 0 THEN slices ELSE AddWindow(added[k - 1], e, windows[k])
    IN  added[Len(windows)]

SaveWindows(io, e, windows) == [io EXCEPT !.slices = AddWindows(@, e, windows)]

(* The banks of an event that are there and enabled.                       *)
SaveBanks(io, gs, e, windows) ==
    LET row == SaveGroups(io, gs, e)
    IN  IF "f125_raw" \in gs THEN SaveWindows(row, e, windows) ELSE row

-----------------------------------------------------------------------------
CONSTANTS
    Inputs,       (* [threads, mt_output, config, events], see MCFlatTree  *)
    Workers, NoWorker,
    MaxSampled,   (* m_gem_samples_max_events, 0 is no limit               *)
    FlushEvents   (* m_flush_events                                        *)

ASSUME FlatTreeWriterAssumption ==
    MaxSampled \in Nat /\ FlushEvents \in Nat \ {0} /\ NoWorker \notin Workers

Event == [banks : SUBSET RawGroups, windows : Seq(Nat), throws : IoGroups \cup {"none"}]

ASSUME InputsAssumption ==
    \A input \in Inputs :
        /\ input.threads \subseteq Workers /\ IsFiniteSet(input.threads)
        /\ input.config \subseteq RawGroups \cup GemGroups \cup {"fpga"}
        /\ input.events \in Seq(Event)

VARIABLES
    run,          (* the Input                                             *)
    next,         (* the next event of the source                          *)
    pc, at, io,   (* of a worker: where it is, its event and its buffers   *)
    ctx,          (* workers whose context exists: tl_ctx                  *)
    m_contexts,   (* contexts that Finish has still to visit               *)
    m_ctx_mutex,
    fills,        (* fills_since_flush                                     *)
    tree,         (* rows of a worker's tree that are not in the file      *)
    m_gem_samples_seen,
    merged,       (* rows in the file, in the order they came              *)
    finished

contextVars == <<ctx, m_contexts, m_ctx_mutex>>
fileVars    == <<fills, tree, merged, finished>>
vars == <<run, next, pc, at, io, contextVars, m_gem_samples_seen, fileVars>>

Events == DOMAIN run.events
Has(e, bank) == bank \in run.events[e].banks
Throws(e)    == run.events[e].throws
Enabled(g)   == g \in run.config

m_mt_mode == Cardinality(run.threads) # 1 \/ run.mt_output

(* Init makes the only context of the legacy mode.                         *)
Init ==
    /\ run \in Inputs
    /\ next = 1
    /\ pc = [w \in run.threads |-> "idle"]
    /\ at = [w \in run.threads |-> 0]
    /\ io = [w \in run.threads |-> NewIo(run.config)]
    /\ ctx = IF m_mt_mode THEN {} ELSE run.threads
    /\ m_contexts = ctx
    /\ m_ctx_mutex = NoWorker
    /\ fills = [w \in run.threads |-> 0]
    /\ tree = [w \in run.threads |-> <<>>]
    /\ m_gem_samples_seen = 0
    /\ merged = <<>>
    /\ finished = FALSE

Goto(w, label) == pc' = [pc EXCEPT ![w] = label]

(* A worker takes the oldest event that no worker has.                     *)
Take(w) ==
    /\ pc[w] = "idle" /\ next \in Events
    /\ at' = [at EXCEPT ![w] = next]
    /\ next' = next + 1
    /\ Goto(w, IF w \in ctx THEN "raw" ELSE "context")
    /\ UNCHANGED <<run, io, contextVars, m_gem_samples_seen, fileVars>>

-----------------------------------------------------------------------------
(* GetCtx: the file and the tree of a new context are made without the     *)
(* lock, and the context is announced under it.                            *)
LockContexts(w) ==
    /\ pc[w] = "context" /\ m_ctx_mutex = NoWorker
    /\ m_ctx_mutex' = w
    /\ io' = [io EXCEPT ![w] = NewIo(run.config)]
    /\ Goto(w, "register")
    /\ UNCHANGED <<run, next, at, ctx, m_contexts, m_gem_samples_seen, fileVars>>

RegisterContext(w) ==
    /\ pc[w] = "register"
    /\ ctx' = ctx \cup {w}
    /\ m_contexts' = m_contexts \cup {w}
    /\ m_ctx_mutex' = NoWorker
    /\ Goto(w, "raw")
    /\ UNCHANGED <<run, next, at, io, m_gem_samples_seen, fileVars>>

-----------------------------------------------------------------------------
(* Pass 1, over the banks of the event: what is there decides which        *)
(* reconstruction runs, whether or not its branches are written.           *)
WantsGem(e)  == Has(e, "srs_raw") /\ \E g \in GemGroups : Enabled(g)
WantsFpga(e) == Has(e, "f125_raw") /\ Enabled("fpga")

SaveRaw(w) ==
    LET e    == at[w]
        raw  == {g \in RawGroups : Has(e, g) /\ Enabled(g)}
    IN  /\ pc[w] = "raw"
        /\ io' = [io EXCEPT ![w] = SaveBanks(Clear(@, e), raw, e, run.events[e].windows)]
        /\ Goto(w, IF WantsGem(e) THEN "gem" ELSE "fpga")
        /\ UNCHANGED <<run, next, at, contextVars, m_gem_samples_seen, fileVars>>

(* The groups of order that are saved before one of them throws.  What is  *)
(* not written is not asked for, and cannot throw.                         *)
SavedBefore(order, e) ==
    {order[i] : i \in {j \in DOMAIN order :
        /\ order[j] \in Bound(run.config)
        /\ Throws(e) \in Bound(run.config) => \A k \in 1..j : order[k] # Throws(e)}}

(* The try block of the GEM up to its last Get: clusters, decoded planes   *)
(* and peaks.  An exception leaves it, and keeps what was saved.           *)
GemThrows(e) == Throws(e) \in GemGroups \ {"gem_samples"} /\ Enabled(Throws(e))

SaveGem(w) ==
    LET e == at[w] IN
    /\ pc[w] = "gem"
    /\ io' = [io EXCEPT ![w] = SaveGroups(@, SavedBefore(SubSeq(GemOrder, 1, 3), e), e)]
    /\ Goto(w, IF GemThrows(e) \/ ~Enabled("gem_samples") THEN "fpga" ELSE "place")
    /\ UNCHANGED <<run, next, at, contextVars, m_gem_samples_seen, fileVars>>

(* Mutant: the limit is compared with the count after this event.          *)
PlaceIsLeftOneMore == MaxSampled = 0 \/ m_gem_samples_seen <= MaxSampled

PlaceIsLeft == MaxSampled = 0 \/ m_gem_samples_seen < MaxSampled

(* fetch_add, which the check for no limit comes before.                   *)
TakePlace(w) ==
    /\ pc[w] = "place"
    /\ m_gem_samples_seen' = IF MaxSampled = 0 THEN 0 ELSE m_gem_samples_seen + 1
    /\ Goto(w, IF PlaceIsLeft THEN "samples" ELSE "fpga")
    /\ UNCHANGED <<run, next, at, io, contextVars, fileVars>>

SaveSamples(w) ==
    LET e == at[w] IN
    /\ pc[w] = "samples"
    /\ io' = IF Throws(e) = "gem_samples" THEN io
             ELSE [io EXCEPT ![w] = SaveGroups(@, {"gem_samples"}, e)]
    /\ Goto(w, "fpga")
    /\ UNCHANGED <<run, next, at, contextVars, m_gem_samples_seen, fileVars>>

SaveFpga(w) ==
    LET e == at[w] IN
    /\ pc[w] = "fpga"
    /\ io' = IF WantsFpga(e) THEN [io EXCEPT ![w] = SaveGroups(@, SavedBefore(FpgaOrder, e), e)]
             ELSE io
    /\ Goto(w, "fill")
    /\ UNCHANGED <<run, next, at, contextVars, m_gem_samples_seen, fileVars>>

(* Fill; every FlushEvents fills of a worker its buffer goes to the merger *)
(* and its tree starts anew.  The legacy tree stays whole.                 *)
FlushIsDue(w) == m_mt_mode /\ fills[w] + 1 >= FlushEvents

Fill(w) ==
    /\ pc[w] = "fill"
    /\ \/ /\ FlushIsDue(w)
          /\ merged' = merged \o Append(tree[w], io[w])
          /\ tree' = [tree EXCEPT ![w] = <<>>]
          /\ fills' = [fills EXCEPT ![w] = 0]
       \/ /\ ~FlushIsDue(w)
          /\ tree' = [tree EXCEPT ![w] = Append(@, io[w])]
          /\ fills' = IF m_mt_mode THEN [fills EXCEPT ![w] = @ + 1] ELSE fills
          /\ UNCHANGED merged
    /\ at' = [at EXCEPT ![w] = 0]
    /\ Goto(w, "idle")
    /\ UNCHANGED <<run, next, io, contextVars, m_gem_samples_seen, finished>>

(* Finish, which one thread calls when the events are done, visits the     *)
(* contexts one after another, and closes the file.                        *)
Processed == next \notin Events /\ \A w \in run.threads : pc[w] = "idle"

(* Mutant: the last rows of a tree stay in its buffer.                     *)
WriteLastRowsNone(w) ==
    /\ ~finished /\ Processed
    /\ w \in m_contexts
    /\ m_contexts' = m_contexts \ {w}
    /\ tree' = [tree EXCEPT ![w] = <<>>]
    /\ UNCHANGED <<run, next, pc, at, io, ctx, m_ctx_mutex, fills, m_gem_samples_seen, merged, finished>>

WriteLastRows(w) ==
    /\ ~finished /\ Processed
    /\ w \in m_contexts
    /\ m_contexts' = m_contexts \ {w}
    /\ merged' = merged \o tree[w]
    /\ tree' = [tree EXCEPT ![w] = <<>>]
    /\ UNCHANGED <<run, next, pc, at, io, ctx, m_ctx_mutex, fills, m_gem_samples_seen, finished>>

Finish ==
    /\ ~finished /\ Processed /\ m_contexts = {}
    /\ finished' = TRUE
    /\ UNCHANGED <<run, next, pc, at, io, contextVars, m_gem_samples_seen, fills, tree, merged>>

Step(w) ==
    \/ Take(w) \/ LockContexts(w) \/ RegisterContext(w)
    \/ SaveRaw(w) \/ SaveGem(w) \/ TakePlace(w) \/ SaveSamples(w) \/ SaveFpga(w)
    \/ Fill(w) \/ WriteLastRows(w)

Done == finished /\ UNCHANGED vars
Next == Finish \/ (\E w \in run.threads : Step(w)) \/ Done
Spec == Init /\ [][Next]_vars

-----------------------------------------------------------------------------
Rows == Range(merged) \cup UNION {Range(tree[w]) : w \in run.threads}

(* The row of event e, whichever worker fills it and whatever that worker  *)
(* filled before, if samples says that its samples were asked for.         *)
ExpectedIn(g, e, samples) ==
    \/ g \in RawGroups /\ Has(e, g)
    \/ /\ g \in GemGroups /\ WantsGem(e) /\ (g = "gem_samples" => samples)
       /\ ~ \E i, j \in DOMAIN GemOrder :
              /\ i <= j /\ GemOrder[j] = g /\ GemOrder[i] = Throws(e) /\ Enabled(Throws(e))
    \/ /\ g \in FpgaGroups /\ WantsFpga(e)
       /\ ~ \E i, j \in DOMAIN FpgaOrder : i <= j /\ FpgaOrder[j] = g /\ FpgaOrder[i] = Throws(e)

(* Every row holds, in each of its groups, the records of its own event,   *)
(* all of them, and nothing of another event; only an exception, or the    *)
(* limit on samples, leaves a group empty, and with it those after it.     *)
GroupsAreOwn ==
    \A row \in Rows : \E samples \in BOOLEAN : \A g \in DOMAIN row.own :
        row.own[g] = IF ExpectedIn(g, row.event, samples) THEN {row.event} ELSE {}

(* As long as an event has no more samples than samples_index can count,   *)
(* the slice of every record is that record's samples.                     *)
SlicesAreOwn ==
    \A row \in Rows : Len(row.slices.samples) < IndexRange =>
        \A r \in DOMAIN row.slices.index : \A p \in DOMAIN row.slices.samples :
            row.slices.samples[p][2] = r <=>
                p \in row.slices.index[r] + 1 .. row.slices.index[r] + row.slices.count[r]

(* A row of the tree is of one event, and each record has its own samples. *)
RowsAreOwn == GroupsAreOwn /\ SlicesAreOwn

(* "The cutoff is approximate to within one event per thread"              *)
(* (FlatTreeWriterProcessor.h): at most MaxSampled rows have samples, and  *)
(* a row with samples overtakes at most one row without them, that could   *)
(* have had them, per other thread.                                        *)
Sampled   == {row.event : row \in {r \in Rows : "gem_samples" \in DOMAIN r.own
                                                  /\ r.own["gem_samples"] # {}}}
Unsampled == {row.event : row \in Rows} \ Sampled
CouldHave(e) == WantsGem(e) /\ Enabled("gem_samples") /\ Throws(e) \notin GemGroups

CutoffIsSharp ==
    MaxSampled # 0 =>
        /\ Cardinality(Sampled) <= MaxSampled
        /\ \A e \in Sampled :
             Cardinality({f \in Unsampled : f < e /\ CouldHave(f)}) < Cardinality(run.threads)

(* The file gets each event's row once, and is whole when Finish ends.     *)
Output == INSTANCE RowsWritten WITH
    rows   <- Events,
    file   <- [e \in Events |-> Cardinality({k \in DOMAIN merged : merged[k].event = e})],
    closed <- finished

ImplementsRowsWritten == Output!Spec
=============================================================================
