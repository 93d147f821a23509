-------------------------- MODULE FileWriterProofs --------------------------
(***************************************************************************)
(* Proofs about the two programs that put what comes in on the disk.       *)
(*                                                                         *)
(* FlatTreeWriter, for every number of threads, every list of events with  *)
(* any window of samples, every set of groups, and every limit of samples  *)
(* and of fills: each row is of one event (RowsAreOwn), the limit on the   *)
(* samples is sharp (CutoffIsSharp), and the file gets each row once       *)
(* (ImplementsRowsWritten).  The invariant says where each event that was  *)
(* taken is, in the hands of one worker, in its tree or in the file; what  *)
(* the buffers of a worker hold at each step of Process; and which         *)
(* contexts Finish has to visit.                                           *)
(*                                                                         *)
(* SroStream, for every capacity of the ring, every set of sessions and    *)
(* all their ways of framing the words: what sro_recv has in its hands     *)
(* grows by the record that arrived, and by nothing else, whatever its two *)
(* threads do (HandedOver).  The invariant says what each of the three     *)
(* threads holds at each of its steps, and that the ring is the queue of   *)
(* the records that were put in and not yet taken out.                     *)
(***************************************************************************)
EXTENDS FlatTreeWriter, SroStream, ProofFacts, FiniteSetTheorems,
        SequenceTheorems

-----------------------------------------------------------------------------
(* The flattened samples of an event.                                      *)
Slices == [index : Seq(Nat), count : Seq(Nat), samples : Seq(Nat \X Nat)]

(* Each record's slice is its samples, if they are not too many.           *)
SliceHasItsOwn(s) ==
    \A r \in DOMAIN s.index : \A p \in DOMAIN s.samples :
        s.samples[p][2] = r <=> p \in s.index[r] + 1 .. s.index[r] + s.count[r]
Cut(s) ==
    /\ Len(s.index) = Len(s.count)
    /\ \A p \in DOMAIN s.samples : s.samples[p][2] \in DOMAIN s.index
    /\ Len(s.samples) < IndexRange =>
        /\ s.count = <<>> => s.samples = <<>>
        /\ s.count # <<>> => Last(s.index) + Last(s.count) = Len(s.samples)
        /\ \A r \in DOMAIN s.index : s.index[r] + s.count[r] <= Len(s.samples)
        /\ SliceHasItsOwn(s)

(* A record more.                                                          *)
LEMMA AddWindowKeeps ==
    ASSUME NEW s \in Slices, Cut(s), NEW e \in Nat, NEW n \in Nat
    PROVE  AddWindow(s, e, n) \in Slices /\ Cut(AddWindow(s, e, n))
<1> DEFINE m   == Len(s.count)
           l   == Len(s.samples)
           i   == IF s.count = <<>> THEN 0 ELSE (Last(s.index) + Last(s.count)) % IndexRange
           c   == n % IndexRange
           new == [k \in 1..n |-> <<e, m + 1>>]
           t   == AddWindow(s, e, n)
<1>1. IndexRange \in Nat /\ IndexRange > 0
  BY IndexRangeAssumption
<1>2. /\ s.index \in Seq(Nat) /\ s.count \in Seq(Nat) /\ s.samples \in Seq(Nat \X Nat)
      /\ Len(s.index) = m /\ Len(s.count) = m /\ Len(s.samples) = l /\ m \in Nat /\ l \in Nat
      /\ c \in Nat
  BY <1>1 DEF Slices, Cut
<1> HIDE DEF m, l
<1>3. s.count # <<>> => m \in 1..m /\ Last(s.index) \in Nat /\ Last(s.count) \in Nat
  <2>1. s.count # <<>> => m \in 1..m
    BY <1>2
  <2>2. s.count # <<>> => s.index[m] \in Nat /\ s.count[m] \in Nat
    BY <1>2, <2>1, ElementOfSeq
  <2>3. QED BY <1>2, <2>1, <2>2, Zenon DEF Last
<1>4. i \in Nat
  BY <1>1, <1>3
<1>5. new \in Seq(Nat \X Nat) /\ Len(new) = n /\ \A k \in 1..n : new[k] = <<e, m + 1>>
  BY <1>2
<1>6. t.index = Append(s.index, i) /\ t.count = Append(s.count, c) /\ t.samples = s.samples \o new
  BY DEF AddWindow, m
<1>6a. t = [index |-> t.index, count |-> t.count, samples |-> t.samples]
  BY DEF AddWindow
<1> HIDE DEF new, i, c, t
<1>7. /\ t.index \in Seq(Nat) /\ t.count \in Seq(Nat) /\ t.samples \in Seq(Nat \X Nat)
      /\ Len(t.index) = m + 1 /\ Len(t.count) = m + 1 /\ Len(t.samples) = l + n
  <2>1. t.index \in Seq(Nat) /\ Len(t.index) = m + 1
    BY <1>2, <1>4, <1>6
  <2>2. t.count \in Seq(Nat) /\ Len(t.count) = m + 1
    BY <1>2, <1>6
  <2>3. t.samples \in Seq(Nat \X Nat) /\ Len(t.samples) = l + n
    <3>1. /\ s.samples \o new \in Seq(Nat \X Nat)
          /\ Len(s.samples \o new) = Len(s.samples) + Len(new)
      BY <1>2, <1>5, ConcatProperties, Zenon
    <3>2. QED BY <1>2, <1>5, <1>6, <3>1, Zenon
  <2>4. QED BY <2>1, <2>2, <2>3
<1>8. /\ t.index[m + 1] = i /\ t.count[m + 1] = c
      /\ \A r \in 1..m : t.index[r] = s.index[r] /\ t.count[r] = s.count[r]
  <2>1. t.index[m + 1] = i /\ \A r \in 1..m : t.index[r] = s.index[r]
    BY <1>2, <1>4, <1>6
  <2>2. t.count[m + 1] = c /\ \A r \in 1..m : t.count[r] = s.count[r]
    BY <1>2, <1>6
  <2>3. QED BY <2>1, <2>2
<1>9. \A p \in 1..l : t.samples[p] = s.samples[p]
  BY <1>2, <1>5, <1>6
<1>10. \A p \in l + 1..l + n : t.samples[p] = <<e, m + 1>>
  <2>1. \A p \in l + 1..l + n : p - l \in 1..n /\ p \in 1..l + n /\ ~(p <= l)
    BY <1>2
  <2>2. ASSUME NEW p \in l + 1..l + n PROVE (s.samples \o new)[p] = new[p - l]
    <3>1. s.samples \in Seq(Nat \X Nat) /\ new \in Seq(Nat \X Nat)
      BY <1>2, <1>5
    <3>2. p \in 1..Len(s.samples) + Len(new) /\ ~(p <= Len(s.samples))
      BY <1>2, <1>5, <2>1
    <3>3. (s.samples \o new)[p] = new[p - Len(s.samples)]
      BY <3>1, <3>2, ConcatProperties
    <3>4. QED BY <1>2, <3>3
  <2>3. QED BY <1>5, <1>6, <2>1, <2>2
<1>11. t \in Slices
  BY <1>6a, <1>7 DEF Slices
<1>12. /\ DOMAIN t.samples = 1..l + n /\ DOMAIN t.index = 1..m + 1 /\ DOMAIN t.count = 1..m + 1
       /\ DOMAIN s.samples = 1..l /\ DOMAIN s.index = 1..m
  <2>1. DOMAIN t.samples = 1..l + n /\ DOMAIN s.samples = 1..l
    BY <1>2, <1>7
  <2>2. DOMAIN t.index = 1..m + 1 /\ DOMAIN t.count = 1..m + 1
    BY <1>7
  <2>3. DOMAIN s.index = 1..m
    BY <1>2
  <2>4. QED BY <2>1, <2>2, <2>3
<1>13. \A p \in 1..l : s.samples[p][2] \in 1..m
  BY <1>12 DEF Cut
<1>14. \A p \in 1..l + n : p \in 1..l \/ p \in l + 1..l + n
  BY <1>2
<1>15. \A p \in DOMAIN t.samples : t.samples[p][2] \in DOMAIN t.index
  <2>1. ASSUME NEW p \in 1..l PROVE t.samples[p][2] \in 1..m + 1
    <3>1. t.samples[p] = s.samples[p] /\ s.samples[p][2] \in 1..m
      BY <1>9, <1>13, Zenon
    <3>2. 1..m \subseteq 1..m + 1
      BY <1>2
    <3>3. QED BY <3>1, <3>2, Zenon
  <2>2. ASSUME NEW p \in l + 1..l + n PROVE t.samples[p][2] \in 1..m + 1
    <3>1. t.samples[p] = <<e, m + 1>>
      BY <1>10, Zenon
    <3>2. t.samples[p][2] = m + 1
      BY <3>1
    <3>3. QED BY <1>2, <3>2
  <2>3. QED BY <1>12, <1>14, <2>1, <2>2
<1>16. ASSUME l + n < IndexRange
       PROVE  /\ Last(t.index) + Last(t.count) = l + n
              /\ \A r \in DOMAIN t.index : t.index[r] + t.count[r] <= l + n
              /\ SliceHasItsOwn(t)
  <2>1. l < IndexRange /\ n < IndexRange
    BY <1>1, <1>2, <1>16
  <2>2. c = n
    BY <1>1, <2>1 DEF c
  <2>3. i = l
    <3>1. CASE s.count = <<>>
      <4>1. l = 0
        BY <1>2, <2>1, <3>1 DEF Cut
      <4>2. QED BY <3>1, <4>1 DEF i
    <3>2. CASE s.count # <<>>
      <4>1. Last(s.index) + Last(s.count) = l
        BY <1>2, <2>1, <3>2 DEF Cut
      <4>2. l % IndexRange = l
        <5>1. l \in Nat /\ l < IndexRange /\ IndexRange \in Nat
          BY <1>1, <1>2, <2>1
        <5>2. QED BY ONLY <5>1
      <4>3. QED BY <3>2, <4>1, <4>2 DEF i
    <3>3. QED BY <3>1, <3>2
  <2>4. Last(t.index) = l /\ Last(t.count) = n
    BY <1>7, <1>8, <2>2, <2>3 DEF Last
  <2>5. \A r \in 1..m : s.index[r] \in Nat /\ s.count[r] \in Nat /\ s.index[r] + s.count[r] <= l
    <3>1. \A r \in 1..m : s.index[r] \in Nat /\ s.count[r] \in Nat
      BY <1>2, ElementOfSeq, Zenon
    <3>2. Len(s.samples) < IndexRange
      BY <1>2, <2>1
    <3>3. \A r \in DOMAIN s.index : s.index[r] + s.count[r] <= Len(s.samples)
      BY <3>2, Zenon DEF Cut
    <3>4. QED BY <1>2, <1>12, <3>1, <3>3
  <2>6. \A r \in 1..m : t.index[r] + t.count[r] <= l
    BY <1>8, <2>5
  <2>7. \A r \in 1..m + 1 : t.index[r] + t.count[r] <= l + n
    <3>1. \A r \in 1..m + 1 : r = m + 1 \/ r \in 1..m
      BY <1>2
    <3>2. ASSUME NEW r \in 1..m PROVE t.index[r] + t.count[r] <= l + n
      <4>1. t.index[r] = s.index[r] /\ t.count[r] = s.count[r] /\ s.index[r] \in Nat
            /\ s.count[r] \in Nat /\ s.index[r] + s.count[r] <= l
        BY <1>8, <2>5, Zenon
      <4>2. l \in Nat /\ n \in Nat
        BY <1>2
      <4>3. QED BY ONLY <4>1, <4>2
    <3>3. t.index[m + 1] + t.count[m + 1] = l + n
      BY <1>8, <2>2, <2>3, Zenon
    <3>4. l + n <= l + n
      BY <1>2
    <3>5. QED BY <3>1, <3>2, <3>3, <3>4, Zenon
  <2>8. ASSUME NEW r \in 1..m + 1, NEW p \in 1..l + n
        PROVE  t.samples[p][2] = r <=> p \in t.index[r] + 1 .. t.index[r] + t.count[r]
    <3>1. CASE p \in 1..l /\ r = m + 1
      <4>1. t.samples[p][2] # m + 1
        <5>1. t.samples[p] = s.samples[p] /\ s.samples[p][2] \in 1..m
          BY <1>9, <1>13, <3>1
        <5>2. QED BY <1>2, <5>1
      <4>2. p \notin l + 1 .. l + n
        BY <1>2, <3>1
      <4>3. QED BY <1>8, <2>2, <2>3, <3>1, <4>1, <4>2
    <3>2. CASE p \in 1..l /\ r \in 1..m
      <4>1. s.samples[p][2] = r <=> p \in s.index[r] + 1 .. s.index[r] + s.count[r]
        BY <1>2, <1>12, <2>1, <3>2 DEF Cut, SliceHasItsOwn
      <4>2. QED BY <1>8, <1>9, <3>2, <4>1
    <3>3. CASE p \in l + 1..l + n /\ r = m + 1
      BY <1>8, <1>10, <2>2, <2>3, <3>3
    <3>4. CASE p \in l + 1..l + n /\ r \in 1..m
      <4>1. t.samples[p][2] # r
        <5>1. t.samples[p] = <<e, m + 1>>
          BY <1>10, <3>4, Zenon
        <5>2. m + 1 # r
          BY <1>2, <3>4
        <5>3. QED BY <5>1, <5>2
      <4>2. p \notin s.index[r] + 1 .. s.index[r] + s.count[r]
        <5>1. /\ s.index[r] \in Nat /\ s.count[r] \in Nat /\ s.index[r] + s.count[r] <= l
              /\ p \in l + 1..l + n /\ l \in Nat
          BY <1>2, <2>5, <3>4, Zenon
        <5>2. QED BY ONLY <5>1
      <4>3. QED BY <1>8, <3>4, <4>1, <4>2
    <3>5. QED BY <1>2, <1>14, <3>1, <3>2, <3>3, <3>4
  <2>9. QED BY <1>12, <2>4, <2>7, <2>8, <1>2 DEF SliceHasItsOwn
<1>17. t.count # <<>>
  BY <1>2, <1>7
<1>18. Cut(t)
  BY <1>7, <1>15, <1>16, <1>17 DEF Cut
<1>19. QED BY <1>11, <1>18 DEF t

(* All the records of an event.                                            *)
LEMMA AddWindowsKeeps ==
    ASSUME NEW s \in Slices, Cut(s), NEW e \in Nat, NEW windows \in Seq(Nat)
    PROVE  AddWindows(s, e, windows) \in Slices /\ Cut(AddWindows(s, e, windows))
<1> DEFINE T == {x \in Slices : Cut(x)}
           n == Len(windows)
           step == [x \in (1..n) \X T |-> AddWindow(x[2], e, windows[x[1]])]
           Is(f) == f = [k \in 0..n |-> IF k = 0 THEN s ELSE AddWindow(f[k - 1], e, windows[k])]
           added == CHOOSE f : Is(f)
<1>1. n \in Nat /\ \A k \in 1..n : windows[k] \in Nat
  OBVIOUS
<1>2. \A x \in T : \A k \in 1..n : AddWindow(x, e, windows[k]) \in T
  BY <1>1, AddWindowKeeps
<1>3. s \in T
  OBVIOUS
<1> HIDE DEF T
<1>4. step \in [(1..n) \X T -> T]
  BY <1>2
<1>5. PICK f : FollowsStep(f, T, n, s, step)
  <2> HIDE DEF n, step
  <2>1. QED BY <1>1, <1>3, <1>4, RecursionExists
<1> HIDE DEF step, n
<1>5a. f \in [0..n -> T] /\ f[0] = s /\ \A k \in 1..n : f[k] = step[<<k, f[k - 1]>>]
  BY <1>5 DEF FollowsStep
<1>6. Is(f)
  <2>1. ASSUME NEW k \in 1..n PROVE f[k] = AddWindow(f[k - 1], e, windows[k])
    <3>1. f[k - 1] \in T
      BY <1>1, <1>5a
    <3>2. f[k] = step[<<k, f[k - 1]>>]
      BY <1>5a
    <3>3. QED BY <3>1, <3>2 DEF step
  <2>2. ASSUME NEW k \in 0..n, k # 0 PROVE k \in 1..n
    BY <1>1, <2>2
  <2>3. QED BY <1>5a, <2>1, <2>2
<1>7. Is(added)
  <2> HIDE DEF Is
  <2>1. QED BY <1>6
<1> HIDE DEF added
<1>8. added[n] \in T
  <2> DEFINE U == {k \in 0..n : added[k] \in T}
  <2>1. 0 \in U
    BY <1>1, <1>3, <1>7
  <2>2. ASSUME NEW k \in 0..n - 1, k \in U PROVE k + 1 \in U
    <3>1. k + 1 \in 0..n /\ k + 1 # 0 /\ (k + 1) - 1 = k
      BY <1>1
    <3>2. added[k + 1] = AddWindow(added[k], e, windows[k + 1])
      BY <1>7, <3>1
    <3>3. k + 1 \in 1..n
      BY <1>1
    <3>4. QED BY <1>2, <2>2, <3>1, <3>2, <3>3
  <2> HIDE DEF U
  <2>3. 0..n \subseteq U
    BY <1>1, <2>1, <2>2, IntervalByInduction
  <2>4. QED BY <1>1, <2>3 DEF U
<1>9. AddWindows(s, e, windows) = added[n]
  BY DEF AddWindows, added, n
<1>10. QED BY <1>8, <1>9 DEF T

-----------------------------------------------------------------------------
(* Types.                                                                  *)
Io(config) == [own : [Bound(config) -> SUBSET Nat], slices : Slices, event : Nat]

Early == {"context", "register", "raw", "gem", "place"}
Late  == {"raw", "gem", "place", "samples", "fpga", "fill"}
Labels == {"idle", "context", "register"} \cup Late

TypeOK ==
    /\ run \in Inputs
    /\ next \in Nat \ {0} /\ next <= Len(run.events) + 1
    /\ pc \in [run.threads -> Labels]
    /\ at \in [run.threads -> Nat]
    /\ io \in [run.threads -> Io(run.config)]
    /\ ctx \in SUBSET run.threads /\ m_contexts \in SUBSET run.threads
    /\ fills \in [run.threads -> Nat]
    /\ tree \in [run.threads -> Seq(Io(run.config))]
    /\ m_gem_samples_seen \in Nat
    /\ merged \in Seq(Io(run.config))
    /\ finished \in BOOLEAN

(* The groups.                                                             *)
LEMMA GroupNames ==
    /\ GemGroups = {"gem_clusters", "gem_prerecon", "gem_peaks", "gem_samples"}
    /\ FpgaGroups = {"fpga_cluster", "fpga_hits_to_track", "fpga_track_fit"}
BY DEF GemGroups, FpgaGroups, GemOrder, FpgaOrder, Range

(* The branches that exist are those of the enabled groups.                *)
LEMMA BoundNames ==
    ASSUME TypeOK
    PROVE  /\ Bound(run.config) \subseteq IoGroups
           /\ \A g \in RawGroups \cup GemGroups : g \in Bound(run.config) <=> Enabled(g)
           /\ \A g \in FpgaGroups : g \in Bound(run.config) <=> Enabled("fpga")
<1>1. run.config \subseteq RawGroups \cup GemGroups \cup {"fpga"}
  BY InputsAssumption DEF TypeOK
<1>2. QED BY <1>1, GroupNames DEF Bound, IoGroups, RawGroups, Enabled

(* The events are numbered from 1.                                         *)
LEMMA EventType ==
    ASSUME TypeOK
    PROVE  /\ run.events \in Seq(Event) /\ Len(run.events) \in Nat /\ Events = 1..Len(run.events)
           /\ \A e \in Events : run.events[e].windows \in Seq(Nat)
<1>1. run.events \in Seq(Event)
  BY InputsAssumption DEF TypeOK
<1>2. \A e \in 1..Len(run.events) : run.events[e] \in Event
  BY <1>1
<1>3. DOMAIN run.events = 1..Len(run.events) /\ Len(run.events) \in Nat
  BY <1>1
<1>4. \A e \in 1..Len(run.events) : run.events[e].windows \in Seq(Nat)
  <2>1. \A x \in Event : x.windows \in Seq(Nat)
    BY DEF Event
  <2>2. QED BY <1>2, <2>1, Zenon
<1>5. QED BY <1>1, <1>3, <1>4 DEF Events

(* Buffers with nothing in them, and what is saved in buffers.             *)
LEMMA NewIoType ==
    ASSUME NEW config
    PROVE  NewIo(config) \in Io(config) /\ Cut(NewIo(config).slices)
<1>1. NoSlices \in Slices
  BY DEF NoSlices, Slices
<1>2. Cut(NoSlices)
  BY DEF NoSlices, Cut, SliceHasItsOwn
<1>3. QED BY <1>1, <1>2 DEF NewIo, Io

(* Cleared buffers.                                                        *)
LEMMA ClearType ==
    ASSUME NEW config, NEW b \in Io(config), NEW e \in Nat
    PROVE  /\ Clear(b, e) \in Io(config) /\ Cut(Clear(b, e).slices)
           /\ Clear(b, e).event = e
<1>1. NoSlices \in Slices
  BY DEF NoSlices, Slices
<1>2. Cut(NoSlices)
  BY DEF NoSlices, Cut, SliceHasItsOwn
<1>3. QED BY <1>1, <1>2 DEF Clear, Io

(* Groups that are saved change nothing else.                              *)
LEMMA SaveGroupsType ==
    ASSUME NEW config, NEW b \in Io(config), NEW e \in Nat, NEW gs
    PROVE  /\ SaveGroups(b, gs, e) \in Io(config)
           /\ SaveGroups(b, gs, e).slices = b.slices
           /\ SaveGroups(b, gs, e).event = b.event
BY DEF SaveGroups, Io

(* The saved groups get the event.                                         *)
LEMMA SaveGroupsOwn ==
    ASSUME NEW config, NEW b \in Io(config), NEW e \in Nat, NEW gs, NEW g \in Bound(config)
    PROVE  SaveGroups(b, gs, e).own[g] = IF g \in gs THEN b.own[g] \cup {e} ELSE b.own[g]
BY DEF SaveGroups, Io

(* So do the banks, and the windows are cut as they come.                  *)
LEMMA SaveBanksType ==
    ASSUME NEW config, NEW b \in Io(config), Cut(b.slices), NEW e \in Nat, NEW gs,
           NEW windows \in Seq(Nat)
    PROVE  /\ SaveBanks(b, gs, e, windows) \in Io(config)
           /\ Cut(SaveBanks(b, gs, e, windows).slices)
           /\ SaveBanks(b, gs, e, windows).event = b.event
           /\ SaveBanks(b, gs, e, windows).own = SaveGroups(b, gs, e).own
<1> DEFINE row  == SaveGroups(b, gs, e)
           more == AddWindows(row.slices, e, windows)
<1>1. row \in Io(config) /\ row.slices = b.slices /\ row.event = b.event
  BY SaveGroupsType
<1> HIDE DEF row
<1>2. row.slices \in Slices /\ Cut(row.slices)
  BY <1>1 DEF Io
<1>3. more \in Slices /\ Cut(more)
  BY <1>2, AddWindowsKeeps
<1> HIDE DEF more
<1>4. SaveWindows(row, e, windows) = [row EXCEPT !.slices = more]
  BY DEF SaveWindows, more
<1>5. /\ SaveWindows(row, e, windows) \in Io(config)
      /\ SaveWindows(row, e, windows).slices = more
      /\ SaveWindows(row, e, windows).event = row.event
      /\ SaveWindows(row, e, windows).own = row.own
  BY <1>1, <1>3, <1>4 DEF Io
<1>6. SaveBanks(b, gs, e, windows) =
        IF "f125_raw" \in gs THEN SaveWindows(row, e, windows) ELSE row
  BY DEF SaveBanks, row
<1>7. CASE "f125_raw" \in gs
  BY <1>1, <1>3, <1>5, <1>6, <1>7 DEF row
<1>8. CASE "f125_raw" \notin gs
  BY <1>1, <1>2, <1>6, <1>8 DEF row
<1>9. QED BY <1>7, <1>8

-----------------------------------------------------------------------------
(* What is saved in the buffers of a worker, up to each step.              *)
Shows(own, e, groups, samples) ==
    \A g \in DOMAIN own :
        own[g] = IF g \in groups /\ ExpectedIn(g, e, samples) THEN {e} ELSE {}

AtHand(label, e, b) ==
    /\ label \in {"gem", "place", "samples", "fpga", "fill"} => b.event = e
    /\ label \in {"gem", "place", "samples"} => WantsGem(e)
    /\ label = "gem" => Shows(b.own, e, RawGroups, FALSE)
    /\ label \in {"place", "samples"} =>
         /\ ~GemThrows(e) /\ Enabled("gem_samples")
         /\ Shows(b.own, e, RawGroups \cup GemGroups, FALSE)
    /\ label = "fpga" => \E samples \in BOOLEAN : Shows(b.own, e, RawGroups \cup GemGroups, samples)
    /\ label = "fill" => \E samples \in BOOLEAN : Shows(b.own, e, IoGroups, samples)

HandOwn(w) == AtHand(pc[w], at[w], io[w])

RowOwn(row) == \E samples \in BOOLEAN : Shows(row.own, row.event, IoGroups, samples)

(* Who has which event.                                                    *)
Busy(w) == pc[w] # "idle"

Hands ==
    /\ \A w \in run.threads : Busy(w) => at[w] \in 1..next - 1
    /\ \A v, w \in run.threads : Busy(v) /\ Busy(w) /\ at[v] = at[w] => v = w

OwnInv ==
    /\ \A w \in run.threads : HandOwn(w) /\ Cut(io[w].slices)
    /\ \A row \in Rows : row.event \in 1..next - 1 /\ RowOwn(row) /\ Cut(row.slices)

(* The order of the groups, spelled out.                                   *)
LEMMA ExpectedGem ==
    ASSUME NEW e, NEW samples
    PROVE  LET on == Enabled(Throws(e)) IN
           /\ ExpectedIn("gem_clusters", e, samples)
                <=> WantsGem(e) /\ ~(on /\ Throws(e) \in {"gem_clusters"})
           /\ ExpectedIn("gem_prerecon", e, samples)
                <=> WantsGem(e) /\ ~(on /\ Throws(e) \in {"gem_clusters", "gem_prerecon"})
           /\ ExpectedIn("gem_peaks", e, samples)
                <=> WantsGem(e) /\ ~(on /\ Throws(e) \in {"gem_clusters", "gem_prerecon", "gem_peaks"})
           /\ ExpectedIn("gem_samples", e, samples)
                <=> WantsGem(e) /\ samples /\ ~(on /\ Throws(e) \in GemGroups)
<1>1. DOMAIN GemOrder = 1..4 /\ GemOrder[1] = "gem_clusters" /\ GemOrder[2] = "gem_prerecon"
      /\ GemOrder[3] = "gem_peaks" /\ GemOrder[4] = "gem_samples"
  BY DEF GemOrder
<1>2. \A g \in GemGroups : g \notin RawGroups /\ g \notin FpgaGroups
  BY GroupNames DEF RawGroups
<1>3. \A j : j \in 1..4 <=> j = 1 \/ j = 2 \/ j = 3 \/ j = 4
  OBVIOUS
<1>4. QED BY <1>1, <1>2, <1>3, GroupNames DEF ExpectedIn

(* The same for the groups of the FPGA.                                    *)
LEMMA ExpectedFpga ==
    ASSUME NEW e, NEW samples
    PROVE  /\ ExpectedIn("fpga_cluster", e, samples)
                <=> WantsFpga(e) /\ Throws(e) \notin {"fpga_cluster"}
           /\ ExpectedIn("fpga_hits_to_track", e, samples)
                <=> WantsFpga(e) /\ Throws(e) \notin {"fpga_cluster", "fpga_hits_to_track"}
           /\ ExpectedIn("fpga_track_fit", e, samples)
                <=> WantsFpga(e) /\ Throws(e) \notin FpgaGroups
<1>1. DOMAIN FpgaOrder = 1..3 /\ FpgaOrder[1] = "fpga_cluster"
      /\ FpgaOrder[2] = "fpga_hits_to_track" /\ FpgaOrder[3] = "fpga_track_fit"
  BY DEF FpgaOrder
<1>2. \A g \in FpgaGroups : g \notin RawGroups /\ g \notin GemGroups
  BY GroupNames DEF RawGroups
<1>3. \A j : j \in 1..3 <=> j = 1 \/ j = 2 \/ j = 3
  OBVIOUS
<1>4. QED BY <1>1, <1>2, <1>3, GroupNames DEF ExpectedIn

(* Banks are expected if they are there.                                   *)
LEMMA ExpectedRaw ==
    ASSUME NEW e, NEW samples, NEW g \in RawGroups
    PROVE  ExpectedIn(g, e, samples) <=> Has(e, g)
BY GroupNames DEF ExpectedIn, RawGroups

(* What is saved of the GEM before an exception.                           *)
LEMMA SavedGem ==
    ASSUME NEW e
    PROVE  LET saved == SavedBefore(SubSeq(GemOrder, 1, 3), e)
               asked == Throws(e) \in Bound(run.config)
           IN
           /\ \A g \in saved : g \in {"gem_clusters", "gem_prerecon", "gem_peaks"} /\ g \in Bound(run.config)
           /\ "gem_clusters" \in Bound(run.config) =>
                ("gem_clusters" \in saved <=> ~(asked /\ Throws(e) \in {"gem_clusters"}))
           /\ "gem_prerecon" \in Bound(run.config) =>
                ("gem_prerecon" \in saved <=>
                    ~(asked /\ Throws(e) \in {"gem_clusters", "gem_prerecon"}))
           /\ "gem_peaks" \in Bound(run.config) =>
                ("gem_peaks" \in saved <=>
                    ~(asked /\ Throws(e) \in {"gem_clusters", "gem_prerecon", "gem_peaks"}))
<1> DEFINE order == SubSeq(GemOrder, 1, 3)
<1>1. DOMAIN order = 1..3 /\ order[1] = "gem_clusters" /\ order[2] = "gem_prerecon"
      /\ order[3] = "gem_peaks"
  BY DEF GemOrder
<1>2. \A j : j \in 1..3 <=> j = 1 \/ j = 2 \/ j = 3
  OBVIOUS
<1>3. /\ \A k : k \in 1..1 <=> k = 1
      /\ \A k : k \in 1..2 <=> k = 1 \/ k = 2
  OBVIOUS
<1> HIDE DEF order
<1> DEFINE saved == SavedBefore(order, e)
<1>4. \A g : g \in saved <=>
        \E j \in 1..3 : /\ g = order[j] /\ order[j] \in Bound(run.config)
                        /\ Throws(e) \in Bound(run.config) => \A k \in 1..j : order[k] # Throws(e)
  BY <1>1 DEF SavedBefore
<1> HIDE DEF saved
<1>5. \A g \in saved : g \in {"gem_clusters", "gem_prerecon", "gem_peaks"} /\ g \in Bound(run.config)
  BY <1>1, <1>2, <1>4
<1>6. "gem_clusters" \in Bound(run.config) =>
        ("gem_clusters" \in saved <=>
            ~(Throws(e) \in Bound(run.config) /\ Throws(e) \in {"gem_clusters"}))
  BY <1>1, <1>2, <1>3, <1>4
<1>7. "gem_prerecon" \in Bound(run.config) =>
        ("gem_prerecon" \in saved <=>
            ~(Throws(e) \in Bound(run.config) /\ Throws(e) \in {"gem_clusters", "gem_prerecon"}))
  BY <1>1, <1>2, <1>3, <1>4
<1>8. "gem_peaks" \in Bound(run.config) =>
        ("gem_peaks" \in saved <=>
            ~(Throws(e) \in Bound(run.config)
                /\ Throws(e) \in {"gem_clusters", "gem_prerecon", "gem_peaks"}))
  BY <1>1, <1>2, <1>3, <1>4
<1>9. QED BY <1>5, <1>6, <1>7, <1>8 DEF saved, order

(* What is saved of the FPGA before an exception.                          *)
LEMMA SavedFpga ==
    ASSUME NEW e
    PROVE  LET saved == SavedBefore(FpgaOrder, e)
               asked == Throws(e) \in Bound(run.config)
           IN
           /\ \A g \in saved : g \in FpgaGroups /\ g \in Bound(run.config)
           /\ "fpga_cluster" \in Bound(run.config) =>
                ("fpga_cluster" \in saved <=> ~(asked /\ Throws(e) \in {"fpga_cluster"}))
           /\ "fpga_hits_to_track" \in Bound(run.config) =>
                ("fpga_hits_to_track" \in saved <=>
                    ~(asked /\ Throws(e) \in {"fpga_cluster", "fpga_hits_to_track"}))
           /\ "fpga_track_fit" \in Bound(run.config) =>
                ("fpga_track_fit" \in saved <=> ~(asked /\ Throws(e) \in FpgaGroups))
<1> DEFINE order == FpgaOrder
<1>1. DOMAIN order = 1..3 /\ order[1] = "fpga_cluster" /\ order[2] = "fpga_hits_to_track"
      /\ order[3] = "fpga_track_fit"
  BY DEF FpgaOrder
<1>2. \A j : j \in 1..3 <=> j = 1 \/ j = 2 \/ j = 3
  OBVIOUS
<1>3. /\ \A k : k \in 1..1 <=> k = 1
      /\ \A k : k \in 1..2 <=> k = 1 \/ k = 2
  OBVIOUS
<1> HIDE DEF order
<1> DEFINE saved == SavedBefore(order, e)
<1>4. \A g : g \in saved <=>
        \E j \in 1..3 : /\ g = order[j] /\ order[j] \in Bound(run.config)
                        /\ Throws(e) \in Bound(run.config) => \A k \in 1..j : order[k] # Throws(e)
  BY <1>1 DEF SavedBefore
<1> HIDE DEF saved
<1>5. \A g \in saved : g \in FpgaGroups /\ g \in Bound(run.config)
  BY <1>1, <1>2, <1>4, GroupNames
<1>6. "fpga_cluster" \in Bound(run.config) =>
        ("fpga_cluster" \in saved <=>
            ~(Throws(e) \in Bound(run.config) /\ Throws(e) \in {"fpga_cluster"}))
  BY <1>1, <1>2, <1>3, <1>4
<1>7. "fpga_hits_to_track" \in Bound(run.config) =>
        ("fpga_hits_to_track" \in saved <=>
            ~(Throws(e) \in Bound(run.config) /\ Throws(e) \in {"fpga_cluster", "fpga_hits_to_track"}))
  BY <1>1, <1>2, <1>3, <1>4
<1>8. "fpga_track_fit" \in Bound(run.config) =>
        ("fpga_track_fit" \in saved <=>
            ~(Throws(e) \in Bound(run.config) /\ Throws(e) \in FpgaGroups))
  BY <1>1, <1>2, <1>3, <1>4, GroupNames
<1>9. QED BY <1>5, <1>6, <1>7, <1>8 DEF saved, order

-----------------------------------------------------------------------------
(* Init and the types.                                                     *)
LEMMA TypeInit == ASSUME Init PROVE TypeOK
<1>1. run \in Inputs /\ next \in Nat \ {0} /\ next <= Len(run.events) + 1
  <2>1. run.events \in Seq(Event)
    BY InputsAssumption DEF Init
  <2>2. Len(run.events) \in Nat
    BY <2>1
  <2>3. QED BY <2>2 DEF Init
<1>2. NewIo(run.config) \in Io(run.config)
  BY NewIoType
<1>3. /\ ctx \in SUBSET run.threads /\ m_contexts \in SUBSET run.threads
      /\ m_gem_samples_seen \in Nat /\ merged \in Seq(Io(run.config)) /\ finished \in BOOLEAN
  <2>1. ctx \in SUBSET run.threads /\ m_contexts = ctx
    BY Zenon DEF Init
  <2>2. m_gem_samples_seen = 0 /\ merged = <<>> /\ finished = FALSE
    BY Zenon DEF Init
  <2>3. ctx \in SUBSET run.threads /\ m_contexts \in SUBSET run.threads
    BY <2>1
  <2>4. m_gem_samples_seen \in Nat
    BY <2>2
  <2>5. merged \in Seq(Io(run.config))
    BY <2>2
  <2>6. finished \in BOOLEAN
    BY <2>2, Zenon
  <2>7. QED BY <2>3, <2>4, <2>5, <2>6, Zenon
<1>4. /\ pc \in [run.threads -> Labels] /\ at \in [run.threads -> Nat]
      /\ io \in [run.threads -> Io(run.config)] /\ fills \in [run.threads -> Nat]
  BY <1>2 DEF Init, Labels
<1>5. tree \in [run.threads -> Seq(Io(run.config))]
  BY DEF Init
<1>6. QED BY <1>1, <1>3, <1>4, <1>5 DEF TypeOK

(* A step keeps the types.                                                 *)
LEMMA TypeStep ==
    ASSUME TypeOK, Hands, [Next]_vars
    PROVE  TypeOK'
<1> USE DEF TypeOK
<1>1. ASSUME NEW w \in run.threads, Take(w) PROVE TypeOK'
  <2>1. /\ next' = next + 1 /\ at' = [at EXCEPT ![w] = next] /\ next <= Len(run.events)
        /\ pc' = [pc EXCEPT ![w] = IF w \in ctx THEN "raw" ELSE "context"]
    BY <1>1, EventType DEF Take, Goto
  <2>2. UNCHANGED <<run, io, ctx, m_contexts, fills, tree, merged, finished, m_gem_samples_seen>>
    BY <1>1 DEF Take, contextVars, fileVars
  <2>3. next' \in Nat \ {0} /\ next' <= Len(run'.events) + 1
    BY <2>1, <2>2, EventType
  <2>4. at' \in [run.threads -> Nat] /\ pc' \in [run.threads -> Labels]
    BY <2>1 DEF Labels, Late
  <2>5. QED BY <2>2, <2>3, <2>4
<1>2. ASSUME NEW w \in run.threads, LockContexts(w) PROVE TypeOK'
  BY <1>2, NewIoType DEF LockContexts, Goto, Labels, Late, fileVars
<1>3. ASSUME NEW w \in run.threads, RegisterContext(w) PROVE TypeOK'
  BY <1>3 DEF RegisterContext, Goto, Labels, Late, fileVars
<1>4. ASSUME NEW w \in run.threads, SaveRaw(w) PROVE TypeOK'
  <2> DEFINE raw == {g \in RawGroups : Has(at[w], g) /\ Enabled(g)}
             b   == SaveBanks(Clear(io[w], at[w]), raw, at[w], run.events[at[w]].windows)
  <2>1. b \in Io(run.config)
    <3>1. at[w] \in Nat /\ io[w] \in Io(run.config)
      OBVIOUS
    <3>2. Clear(io[w], at[w]) \in Io(run.config) /\ Cut(Clear(io[w], at[w]).slices)
      BY <3>1, ClearType
    <3>3. run.events[at[w]].windows \in Seq(Nat)
      <4>1. at[w] \in Events
        <5>1. pc[w] # "idle"
          BY <1>4 DEF SaveRaw
        <5>2. at[w] \in 1..next - 1
          BY <5>1 DEF Hands, Busy
        <5>3. Len(run.events) \in Nat /\ Events = 1..Len(run.events)
          BY EventType
        <5>4. QED BY <5>2, <5>3
      <4>2. QED BY <4>1, EventType
    <3> HIDE DEF raw
    <3>4. QED BY <3>1, <3>2, <3>3, SaveBanksType
  <2> HIDE DEF b
  <2>2. io' = [io EXCEPT ![w] = b]
    BY <1>4 DEF SaveRaw, b
  <2>3. pc' \in [run.threads -> Labels]
    BY <1>4 DEF SaveRaw, Goto, Labels, Late
  <2>4. QED BY <1>4, <2>1, <2>2, <2>3 DEF SaveRaw, contextVars, fileVars
<1>5. ASSUME NEW w \in run.threads, SaveGem(w) PROVE TypeOK'
  <2>1. SaveGroups(io[w], SavedBefore(SubSeq(GemOrder, 1, 3), at[w]), at[w]) \in Io(run.config)
    BY SaveGroupsType
  <2>2. pc' \in [run.threads -> Labels]
    BY <1>5 DEF SaveGem, Goto, Labels, Late
  <2>3. QED BY <1>5, <2>1, <2>2 DEF SaveGem, contextVars, fileVars
<1>6. ASSUME NEW w \in run.threads, TakePlace(w) PROVE TypeOK'
  BY <1>6 DEF TakePlace, Goto, Labels, Late, contextVars, fileVars
<1>7. ASSUME NEW w \in run.threads, SaveSamples(w) PROVE TypeOK'
  <2>1. SaveGroups(io[w], {"gem_samples"}, at[w]) \in Io(run.config)
    BY SaveGroupsType
  <2>2. pc' \in [run.threads -> Labels]
    BY <1>7 DEF SaveSamples, Goto, Labels, Late
  <2>3. QED BY <1>7, <2>1, <2>2 DEF SaveSamples, contextVars, fileVars
<1>8. ASSUME NEW w \in run.threads, SaveFpga(w) PROVE TypeOK'
  <2>1. SaveGroups(io[w], SavedBefore(FpgaOrder, at[w]), at[w]) \in Io(run.config)
    BY SaveGroupsType
  <2>2. pc' \in [run.threads -> Labels]
    BY <1>8 DEF SaveFpga, Goto, Labels, Late
  <2>3. QED BY <1>8, <2>1, <2>2 DEF SaveFpga, contextVars, fileVars
<1>9. ASSUME NEW w \in run.threads, Fill(w) PROVE TypeOK'
  <2>1. io[w] \in Io(run.config) /\ tree[w] \in Seq(Io(run.config)) /\ fills[w] + 1 \in Nat
    OBVIOUS
  <2>2. Append(tree[w], io[w]) \in Seq(Io(run.config))
    BY <2>1
  <2>3. merged \o Append(tree[w], io[w]) \in Seq(Io(run.config)) /\ <<>> \in Seq(Io(run.config))
    BY <2>2
  <2>4. merged' \in Seq(Io(run.config)) /\ tree' \in [run.threads -> Seq(Io(run.config))]
        /\ fills' \in [run.threads -> Nat]
    <3>1. CASE FlushIsDue(w)
      <4>1. merged' = merged \o Append(tree[w], io[w]) /\ tree' = [tree EXCEPT ![w] = <<>>]
            /\ fills' = [fills EXCEPT ![w] = 0]
        BY <1>9, <3>1 DEF Fill
      <4>2. tree' \in [run.threads -> Seq(Io(run.config))] /\ fills' \in [run.threads -> Nat]
        BY <2>3, <4>1
      <4>3. QED BY <2>3, <4>1, <4>2
    <3>2. CASE ~FlushIsDue(w)
      <4>1. tree' = [tree EXCEPT ![w] = Append(tree[w], io[w])] /\ merged' = merged
            /\ fills' = IF m_mt_mode THEN [fills EXCEPT ![w] = @ + 1] ELSE fills
        BY <1>9, <3>2 DEF Fill
      <4>2. tree' \in [run.threads -> Seq(Io(run.config))]
        BY <2>2, <4>1
      <4>3. fills' \in [run.threads -> Nat]
        BY <4>1
      <4>4. QED BY <4>1, <4>2, <4>3
    <3>3. QED BY <3>1, <3>2
  <2>5. pc' \in [run.threads -> Labels] /\ at' \in [run.threads -> Nat]
    BY <1>9 DEF Fill, Goto, Labels
  <2>6. QED BY <1>9, <2>4, <2>5 DEF Fill, contextVars
<1>10. ASSUME NEW w \in run.threads, WriteLastRows(w) PROVE TypeOK'
  <2>1. merged \o tree[w] \in Seq(Io(run.config)) /\ <<>> \in Seq(Io(run.config))
    OBVIOUS
  <2>2. QED BY <1>10, <2>1 DEF WriteLastRows
<1>11. ASSUME Finish PROVE TypeOK'
  BY <1>11 DEF Finish, contextVars
<1>12. ASSUME UNCHANGED vars PROVE TypeOK'
  BY <1>12 DEF vars, contextVars, fileVars
<1>13. QED
  BY <1>1, <1>2, <1>3, <1>4, <1>5, <1>6, <1>7, <1>8, <1>9, <1>10, <1>11, <1>12 DEF Next, Step, Done

(* A step of the writer keeps the run.                                     *)
LEMMA SameRun ==
    ASSUME [Next]_vars
    PROVE  run' = run
BY DEF Next, Step, Done, Take, LockContexts, RegisterContext, SaveRaw, SaveGem, TakePlace,
       SaveSamples, SaveFpga, Fill, WriteLastRows, Finish, vars

(* Every event is in the hands of one worker at most.                      *)
LEMMA HandsStep ==
    ASSUME TypeOK, Hands, [Next]_vars
    PROVE  Hands'
<1> USE DEF TypeOK, Hands, Busy
<1>1. ASSUME NEW w \in run.threads, Take(w) PROVE Hands'
  <2>1. at' = [at EXCEPT ![w] = next] /\ next' = next + 1 /\ run' = run
        /\ \A v \in run.threads : v # w => pc'[v] = pc[v]
    BY <1>1 DEF Take, Goto
  <2>2. QED BY <2>1
<1>2. ASSUME NEW w \in run.threads, pc[w] # "idle", UNCHANGED <<run, at, next>>,
             \A v \in run.threads : v # w => pc'[v] = pc[v]
      PROVE  Hands'
  <2>1. \A v \in run.threads : pc'[v] # "idle" => pc[v] # "idle"
    BY <1>2
  <2>2. run'.threads = run.threads
    BY <1>2
  <2>3. QED BY <1>2, <2>1, <2>2
<1>3. ASSUME NEW w \in run.threads, Fill(w) PROVE Hands'
  <2>1. at' = [at EXCEPT ![w] = 0] /\ next' = next /\ run' = run /\ pc'[w] = "idle"
        /\ \A v \in run.threads : v # w => pc'[v] = pc[v]
    BY <1>3 DEF Fill, Goto
  <2>2. QED BY <2>1
<1>4. ASSUME UNCHANGED <<run, next, at, pc>> PROVE Hands'
  BY <1>4
<1>5. ASSUME NEW w \in run.threads, Step(w) PROVE Hands'
  <2>1. CASE Take(w)
    BY <1>1, <2>1
  <2>2. CASE Fill(w)
    BY <1>3, <2>2
  <2>3. CASE WriteLastRows(w)
    BY <1>4, <2>3 DEF WriteLastRows
  <2>4. CASE \/ LockContexts(w) \/ RegisterContext(w) \/ SaveRaw(w) \/ SaveGem(w)
             \/ TakePlace(w) \/ SaveSamples(w) \/ SaveFpga(w)
    <3>1. pc[w] # "idle" /\ UNCHANGED <<run, at, next>> /\ \E l : Goto(w, l)
      BY <2>4 DEF LockContexts, RegisterContext, SaveRaw, SaveGem, TakePlace, SaveSamples, SaveFpga
    <3>2. \A v \in run.threads : v # w => pc'[v] = pc[v]
      BY <3>1 DEF Goto
    <3>3. QED BY <1>2, <3>1, <3>2
  <2>5. QED BY <1>5, <2>1, <2>2, <2>3, <2>4 DEF Step
<1>6. CASE Finish
  BY <1>4, <1>6 DEF Finish
<1>7. CASE UNCHANGED vars
  BY <1>4, <1>7 DEF vars
<1>8. QED BY <1>5, <1>6, <1>7 DEF Next, Done

-----------------------------------------------------------------------------
(* The rows of a tree with one more.                                       *)
LEMMA RangeAppend ==
    ASSUME NEW T, NEW s \in Seq(T), NEW x \in T
    PROVE  Range(Append(s, x)) = Range(s) \cup {x}
<1> DEFINE u == Append(s, x)
<1>1. /\ \A k \in DOMAIN s : k \in DOMAIN u /\ u[k] = s[k]
      /\ Len(s) + 1 \in DOMAIN u /\ u[Len(s) + 1] = x
      /\ \A k \in DOMAIN u : k \in DOMAIN s \/ k = Len(s) + 1
  BY AppendIndex
<1> HIDE DEF u
<1>2. Range(u) = Range(s) \cup {x}
  BY <1>1, Zenon DEF Range
<1>3. QED BY <1>2 DEF u

(* The rows of a file with those of a tree.                                *)
LEMMA RangeConcat ==
    ASSUME NEW T, NEW s \in Seq(T), NEW t \in Seq(T)
    PROVE  Range(s \o t) = Range(s) \cup Range(t)
<1> DEFINE u == s \o t
<1>1. /\ \A k \in DOMAIN s : k \in DOMAIN u /\ u[k] = s[k]
      /\ \A k \in DOMAIN t : Len(s) + k \in DOMAIN u /\ u[Len(s) + k] = t[k]
      /\ \A k \in DOMAIN u : k \in DOMAIN s \/ \E j \in DOMAIN t : k = Len(s) + j
  BY ConcatIndex
<1> HIDE DEF u
<1>2. \A x : x \in Range(u) => x \in Range(s) \cup Range(t)
  BY <1>1 DEF Range
<1>3. \A x : x \in Range(s) => x \in Range(u)
  BY <1>1 DEF Range
<1>4. \A x : x \in Range(t) => x \in Range(u)
  BY <1>1 DEF Range
<1>5. Range(u) = Range(s) \cup Range(t)
  BY <1>2, <1>3, <1>4
<1>6. QED BY <1>5 DEF u

(* A row is in the file or in a tree.                                      *)
LEMMA RowsMembers ==
    \A row : row \in Rows <=> row \in Range(merged) \/ \E v \in run.threads : row \in Range(tree[v])
BY DEF Rows

(* And so after a step.                                                    *)
LEMMA RowsMembersNext ==
    \A row : row \in Rows' <=>
                row \in Range(merged') \/ \E v \in run'.threads : row \in Range(tree'[v])
BY DEF Rows

(* A filled row is in the tree or, with those of the tree, in the file.    *)
LEMMA FillRows ==
    ASSUME TypeOK, NEW w \in run.threads, Fill(w)
    PROVE  Rows' = Rows \cup {io[w]}
<1>1. /\ run.threads = DOMAIN tree /\ run' = run /\ tree[w] \in Seq(Io(run.config))
      /\ merged \in Seq(Io(run.config)) /\ io[w] \in Io(run.config)
  BY DEF TypeOK, Fill
<1>2. Append(tree[w], io[w]) \in Seq(Io(run.config))
  BY <1>1
<1>3. Range(Append(tree[w], io[w])) = Range(tree[w]) \cup {io[w]}
  BY <1>1, RangeAppend
<1>4. Range(merged \o Append(tree[w], io[w])) = Range(merged) \cup Range(Append(tree[w], io[w]))
  <2> DEFINE t == Append(tree[w], io[w])
  <2>1. t \in Seq(Io(run.config))
    BY <1>2
  <2> HIDE DEF t
  <2>2. Range(merged \o t) = Range(merged) \cup Range(t)
    BY <1>1, <2>1, RangeConcat
  <2>3. QED BY <2>2 DEF t
<1>5. Range(<<>>) = {}
  BY DEF Range
<1>6. CASE FlushIsDue(w)
  <2>1. merged' = merged \o Append(tree[w], io[w]) /\ tree'[w] = <<>>
        /\ \A v \in run.threads : v # w => tree'[v] = tree[v]
    BY <1>1, <1>6 DEF Fill
  <2>2. Range(merged') = Range(merged) \cup Range(tree[w]) \cup {io[w]} /\ Range(tree'[w]) = {}
    BY <1>3, <1>4, <1>5, <2>1
  <2>3. QED BY <1>1, <2>1, <2>2, RowsMembers, RowsMembersNext
<1>7. CASE ~FlushIsDue(w)
  <2>1. merged' = merged /\ tree'[w] = Append(tree[w], io[w])
        /\ \A v \in run.threads : v # w => tree'[v] = tree[v]
    BY <1>1, <1>7 DEF Fill
  <2>2. QED BY <1>1, <1>3, <2>1, RowsMembers, RowsMembersNext
<1>8. QED BY <1>6, <1>7

(* The rows of a tree that Finish writes are the same rows.                *)
LEMMA LastRows ==
    ASSUME TypeOK, NEW w \in run.threads, WriteLastRows(w)
    PROVE  Rows' = Rows
<1>1. /\ run.threads = DOMAIN tree /\ run' = run /\ tree[w] \in Seq(Io(run.config))
      /\ merged \in Seq(Io(run.config)) /\ merged' = merged \o tree[w] /\ tree'[w] = <<>>
      /\ \A v \in run.threads : v # w => tree'[v] = tree[v]
  BY DEF TypeOK, WriteLastRows
<1>2. Range(merged') = Range(merged) \cup Range(tree[w])
  BY <1>1, RangeConcat
<1>3. Range(tree'[w]) = {}
  BY <1>1 DEF Range
<1>4. QED BY <1>1, <1>2, <1>3, RowsMembers, RowsMembersNext

(* What the run decides about an event does not change.                    *)
LEMMA RunDecides ==
    ASSUME run' = run
    PROVE  /\ \A label, e, b : AtHand(label, e, b)' <=> AtHand(label, e, b)
           /\ \A row : RowOwn(row)' <=> RowOwn(row)
           /\ \A e : CouldHave(e)' <=> CouldHave(e)
<1>1. \A e : (WantsGem(e)' <=> WantsGem(e)) /\ (WantsFpga(e)' <=> WantsFpga(e))
             /\ Throws(e)' = Throws(e) /\ (GemThrows(e)' <=> GemThrows(e))
  BY DEF WantsGem, WantsFpga, Throws, GemThrows, Has, Enabled
<1>2. \A g : Enabled(g)' <=> Enabled(g)
  BY DEF Enabled
<1>3. \A g, e : Has(e, g)' <=> Has(e, g)
  BY DEF Has
<1>4. ASSUME NEW g, NEW e, NEW samples
      PROVE  ExpectedIn(g, e, samples)' <=> ExpectedIn(g, e, samples)
  BY <1>1, <1>2, <1>3 DEF ExpectedIn
<1>5. ASSUME NEW own, NEW e, NEW groups, NEW samples
      PROVE  Shows(own, e, groups, samples)' <=> Shows(own, e, groups, samples)
  BY <1>4, Zenon DEF Shows
<1>6. ASSUME NEW label, NEW e, NEW b
      PROVE  AtHand(label, e, b)' <=> AtHand(label, e, b)
  BY <1>1, <1>2, <1>5, Zenon DEF AtHand
<1>7. ASSUME NEW row
      PROVE  RowOwn(row)' <=> RowOwn(row)
  BY <1>5, Zenon DEF RowOwn
<1>8. ASSUME NEW e
      PROVE  CouldHave(e)' <=> CouldHave(e)
  BY <1>1, <1>2, Zenon DEF CouldHave
<1>9. QED BY <1>6, <1>7, <1>8, Zenon

(* A step of one worker that fills no row.                                 *)
LEMMA OwnKeeps ==
    ASSUME TypeOK, TypeOK', OwnInv, run' = run, next <= next', Rows' = Rows, NEW w \in run.threads,
           \A v \in run.threads : v # w => pc'[v] = pc[v] /\ at'[v] = at[v] /\ io'[v] = io[v],
           AtHand(pc'[w], at'[w], io'[w]), Cut(io'[w].slices)
    PROVE  OwnInv'
<1>1. \A v \in run.threads : AtHand(pc'[v], at'[v], io'[v]) /\ Cut(io'[v].slices)
  BY DEF OwnInv, HandOwn
<1>2. \A v \in run.threads : HandOwn(v)'
  BY <1>1, RunDecides, Zenon DEF HandOwn
<1>3. 1..next - 1 \subseteq 1..next' - 1
  <2>1. next \in Nat /\ next' \in Nat /\ next <= next'
    BY DEF TypeOK
  <2>2. QED BY <2>1, IntervalsNest, Zenon
<1>4. \A row \in Rows' : row.event \in 1..next' - 1 /\ RowOwn(row)' /\ Cut(row.slices)
  BY <1>3, RunDecides DEF OwnInv
<1>5. \A v \in run'.threads : HandOwn(v)' /\ Cut(io'[v].slices)
  BY <1>1, <1>2
<1>6. QED BY <1>4, <1>5, Zenon DEF OwnInv

(* At first there are no rows and no events.                               *)
LEMMA OwnInit == ASSUME Init PROVE Hands /\ OwnInv
<1>1. \A w \in run.threads : pc[w] = "idle" /\ io[w] = NewIo(run.config)
  BY DEF Init
<1>2. \A row : row \notin Rows
  <2>1. Range(merged) = {} /\ \A v \in run.threads : Range(tree[v]) = {}
    BY DEF Init, Range
  <2>2. QED BY <2>1, RowsMembers
<1>3. \A w \in run.threads : HandOwn(w) /\ Cut(io[w].slices)
  BY <1>1, NewIoType DEF HandOwn, AtHand
<1>4. QED BY <1>1, <1>2, <1>3 DEF Hands, OwnInv, Busy

(* Pass 1 leaves the banks of the event, and only those.                   *)
LEMMA SaveRawOwn ==
    ASSUME TypeOK, TypeOK', Hands, OwnInv, NEW w \in run.threads, SaveRaw(w)
    PROVE  AtHand(pc'[w], at'[w], io'[w]) /\ Cut(io'[w].slices)
<1> DEFINE e   == at[w]
           raw == {g \in RawGroups : Has(e, g) /\ Enabled(g)}
           z   == Clear(io[w], e)
           b   == SaveBanks(z, raw, e, run.events[e].windows)
<1>1. /\ e \in Nat /\ io[w] \in Io(run.config) /\ run.events[e].windows \in Seq(Nat)
  <2>1. pc[w] # "idle"
    BY DEF SaveRaw
  <2>2. e \in 1..next - 1
    BY <2>1 DEF Hands, Busy
  <2>3. next \in Nat \ {0} /\ next <= Len(run.events) + 1 /\ at[w] \in Nat /\ io[w] \in Io(run.config)
    BY DEF TypeOK
  <2>4. Len(run.events) \in Nat /\ Events = 1..Len(run.events)
    BY EventType
  <2>5. e \in Events
    BY <2>2, <2>3, <2>4
  <2>6. run.events[e].windows \in Seq(Nat)
    BY <2>5, EventType, Zenon
  <2>7. QED BY <2>3, <2>6
<1>2. /\ z \in Io(run.config) /\ Cut(z.slices) /\ z.event = e
      /\ \A g \in Bound(run.config) : z.own[g] = {}
  <2>1. z \in Io(run.config) /\ Cut(z.slices) /\ z.event = e
    BY <1>1, ClearType
  <2>2. DOMAIN io[w].own = Bound(run.config)
    BY <1>1 DEF Io
  <2>3. QED BY <2>1, <2>2 DEF Clear
<1>3. io'[w] = b /\ at'[w] = e /\ pc'[w] = (IF WantsGem(e) THEN "gem" ELSE "fpga")
  BY DEF SaveRaw, Goto, TypeOK
<1> HIDE DEF raw, z
<1>4. /\ b \in Io(run.config) /\ Cut(b.slices) /\ b.event = z.event
      /\ \A g \in Bound(run.config) : b.own[g] = IF g \in raw THEN z.own[g] \cup {e} ELSE z.own[g]
  <2>1. b \in Io(run.config) /\ Cut(b.slices) /\ b.event = z.event /\ b.own = SaveGroups(z, raw, e).own
    BY <1>1, <1>2, SaveBanksType
  <2> HIDE DEF b
  <2>2. ASSUME NEW g \in Bound(run.config)
        PROVE  b.own[g] = IF g \in raw THEN z.own[g] \cup {e} ELSE z.own[g]
    <3>1. SaveGroups(z, raw, e).own[g] = IF g \in raw THEN z.own[g] \cup {e} ELSE z.own[g]
      BY <1>1, <1>2 DEF SaveGroups, Io
    <3>2. QED BY <2>1, <3>1
  <2>3. QED BY <2>1, <2>2
<1> HIDE DEF b
<1>5. b.event = e /\ DOMAIN b.own = Bound(run.config)
      /\ \A g \in Bound(run.config) : b.own[g] = IF g \in raw THEN {e} ELSE {}
  <2>1. \A g \in Bound(run.config) : b.own[g] = IF g \in raw THEN {e} ELSE {}
    BY <1>2, <1>4
  <2>2. DOMAIN b.own = Bound(run.config)
    BY <1>4 DEF Io
  <2>3. QED BY <1>2, <1>4, <2>1, <2>2
<1>6. ASSUME NEW g \in Bound(run.config)
      PROVE  g \in raw <=> g \in RawGroups /\ ExpectedIn(g, e, FALSE)
  <2>1. g \in RawGroups => Enabled(g)
    BY BoundNames
  <2>2. QED BY <2>1, ExpectedRaw DEF raw
<1>7. CASE WantsGem(e)
  <2>1. Shows(b.own, e, RawGroups, FALSE)
    BY <1>5, <1>6, Zenon DEF Shows
  <2>2. QED BY <1>3, <1>4, <1>5, <1>7, <2>1 DEF AtHand
<1>8. CASE ~WantsGem(e)
  <2>1. ASSUME NEW g \in GemGroups PROVE ~ExpectedIn(g, e, FALSE)
    BY <1>8, ExpectedGem, GroupNames
  <2>2. Shows(b.own, e, RawGroups \cup GemGroups, FALSE)
    BY <1>5, <1>6, <2>1, Zenon DEF Shows
  <2>3. QED BY <1>3, <1>4, <1>5, <1>8, <2>2 DEF AtHand
<1>9. QED BY <1>7, <1>8

(* The GEM adds its groups up to the one that throws.                      *)
LEMMA SaveGemOwn ==
    ASSUME TypeOK, TypeOK', OwnInv, NEW w \in run.threads, SaveGem(w)
    PROVE  AtHand(pc'[w], at'[w], io'[w]) /\ Cut(io'[w].slices)
<1> DEFINE e     == at[w]
           saved == SavedBefore(SubSeq(GemOrder, 1, 3), e)
           b     == SaveGroups(io[w], saved, e)
<1>1. e \in Nat /\ io[w] \in Io(run.config)
  BY DEF TypeOK
<1>2. /\ io'[w] = b /\ at'[w] = e
      /\ pc'[w] = (IF GemThrows(e) \/ ~Enabled("gem_samples") THEN "fpga" ELSE "place")
  BY DEF SaveGem, Goto, TypeOK
<1>3. /\ \A g \in saved : g \in {"gem_clusters", "gem_prerecon", "gem_peaks"} /\ g \in Bound(run.config)
      /\ \A g \in {"gem_clusters", "gem_prerecon", "gem_peaks"} :
            WantsGem(e) /\ g \in Bound(run.config) => (g \in saved <=> ExpectedIn(g, e, FALSE))
  BY SavedGem, ExpectedGem, BoundNames, GroupNames
<1>4. ~ExpectedIn("gem_samples", e, FALSE)
  BY ExpectedGem
<1> HIDE DEF saved
<1>5. /\ b.slices = io[w].slices /\ b.event = io[w].event /\ DOMAIN b.own = Bound(run.config)
      /\ DOMAIN io[w].own = Bound(run.config)
      /\ \A g \in Bound(run.config) :
            b.own[g] = IF g \in saved THEN io[w].own[g] \cup {e} ELSE io[w].own[g]
  BY <1>1 DEF SaveGroups, Io
<1>6. /\ WantsGem(e) /\ io[w].event = e /\ Shows(io[w].own, e, RawGroups, FALSE)
      /\ Cut(io[w].slices)
  BY DEF OwnInv, HandOwn, AtHand, SaveGem
<1> HIDE DEF b
<1>7. ASSUME NEW g \in Bound(run.config)
      PROVE  b.own[g] = IF g \in RawGroups \cup GemGroups /\ ExpectedIn(g, e, FALSE) THEN {e} ELSE {}
  <2>1. io[w].own[g] = IF g \in RawGroups /\ ExpectedIn(g, e, FALSE) THEN {e} ELSE {}
    BY <1>5, <1>6, Zenon DEF Shows
  <2>2. CASE g \in RawGroups
    <3>1. g \notin saved
      BY <1>3, <2>2 DEF RawGroups
    <3>2. QED BY <1>5, <2>1, <2>2, <3>1
  <2>3. CASE g \in {"gem_clusters", "gem_prerecon", "gem_peaks"}
    <3>1. g \notin RawGroups /\ g \in GemGroups
      BY <2>3, GroupNames DEF RawGroups
    <3>2. g \in saved <=> ExpectedIn(g, e, FALSE)
      BY <1>3, <1>6, <2>3
    <3>3. QED BY <1>5, <2>1, <3>1, <3>2
  <2>4. CASE g \notin RawGroups /\ g \notin {"gem_clusters", "gem_prerecon", "gem_peaks"}
    <3>1. g \notin saved
      BY <1>3, <2>4
    <3>2. g \in GemGroups => ~ExpectedIn(g, e, FALSE)
      BY <1>4, <2>4, GroupNames
    <3>3. QED BY <1>5, <2>1, <2>4, <3>1, <3>2
  <2>5. QED BY <2>2, <2>3, <2>4
<1>8. Shows(b.own, e, RawGroups \cup GemGroups, FALSE)
  BY <1>5, <1>7, Zenon DEF Shows
<1>9. QED BY <1>2, <1>5, <1>6, <1>8 DEF AtHand

(* Then its samples.                                                       *)
LEMMA SaveSamplesOwn ==
    ASSUME TypeOK, TypeOK', OwnInv, NEW w \in run.threads, SaveSamples(w)
    PROVE  AtHand(pc'[w], at'[w], io'[w]) /\ Cut(io'[w].slices)
<1> DEFINE e == at[w]
           b == SaveGroups(io[w], {"gem_samples"}, e)
<1>1. e \in Nat /\ io[w] \in Io(run.config)
  BY DEF TypeOK
<1>2. /\ at'[w] = e /\ pc'[w] = "fpga"
      /\ io'[w] = IF Throws(e) = "gem_samples" THEN io[w] ELSE b
  BY DEF SaveSamples, Goto, TypeOK
<1>3. /\ WantsGem(e) /\ io[w].event = e /\ ~GemThrows(e) /\ Enabled("gem_samples")
      /\ Shows(io[w].own, e, RawGroups \cup GemGroups, FALSE) /\ Cut(io[w].slices)
  BY DEF OwnInv, HandOwn, AtHand, SaveSamples
<1>4. CASE Throws(e) = "gem_samples"
  BY <1>2, <1>3, <1>4 DEF AtHand
<1>5. CASE Throws(e) # "gem_samples"
  <2>1. /\ b.slices = io[w].slices /\ b.event = io[w].event /\ DOMAIN b.own = Bound(run.config)
        /\ DOMAIN io[w].own = Bound(run.config)
        /\ \A g \in Bound(run.config) :
              b.own[g] = IF g = "gem_samples" THEN io[w].own[g] \cup {e} ELSE io[w].own[g]
    BY <1>1 DEF SaveGroups, Io
  <2> HIDE DEF b
  <2>2. ExpectedIn("gem_samples", e, TRUE) /\ ~ExpectedIn("gem_samples", e, FALSE)
    BY <1>3, <1>5, ExpectedGem, GroupNames DEF GemThrows
  <2>3. ASSUME NEW g, g # "gem_samples"
        PROVE  ExpectedIn(g, e, TRUE) <=> ExpectedIn(g, e, FALSE)
    BY <2>3 DEF ExpectedIn
  <2>4. "gem_samples" \in GemGroups
    BY GroupNames
  <2>5. ASSUME NEW g \in Bound(run.config)
        PROVE  b.own[g] = IF g \in RawGroups \cup GemGroups /\ ExpectedIn(g, e, TRUE) THEN {e} ELSE {}
    <3>1. io[w].own[g] = IF g \in RawGroups \cup GemGroups /\ ExpectedIn(g, e, FALSE) THEN {e} ELSE {}
      BY <1>3, <2>1, Zenon DEF Shows
    <3>2. QED BY <2>1, <2>2, <2>3, <2>4, <3>1
  <2>6. Shows(b.own, e, RawGroups \cup GemGroups, TRUE)
    BY <2>1, <2>5, Zenon DEF Shows
  <2>7. QED BY <1>2, <1>3, <1>5, <2>1, <2>6 DEF AtHand
<1>6. QED BY <1>4, <1>5

(* The FPGA adds its groups, and the row is whole.                         *)
LEMMA SaveFpgaOwn ==
    ASSUME TypeOK, TypeOK', OwnInv, NEW w \in run.threads, SaveFpga(w)
    PROVE  AtHand(pc'[w], at'[w], io'[w]) /\ Cut(io'[w].slices)
<1> DEFINE e     == at[w]
           saved == SavedBefore(FpgaOrder, e)
           b     == SaveGroups(io[w], saved, e)
<1>1. e \in Nat /\ io[w] \in Io(run.config) /\ DOMAIN io[w].own = Bound(run.config)
  BY DEF TypeOK, Io
<1>2. /\ at'[w] = e /\ pc'[w] = "fill" /\ io'[w] = IF WantsFpga(e) THEN b ELSE io[w]
  BY DEF SaveFpga, Goto, TypeOK
<1>3. /\ io[w].event = e /\ Cut(io[w].slices)
      /\ \E samples \in BOOLEAN : Shows(io[w].own, e, RawGroups \cup GemGroups, samples)
  BY DEF OwnInv, HandOwn, AtHand, SaveFpga
<1>4. PICK samples \in BOOLEAN : Shows(io[w].own, e, RawGroups \cup GemGroups, samples)
  BY <1>3
<1>5. \A g \in FpgaGroups : g \notin RawGroups \cup GemGroups
  BY GroupNames DEF RawGroups
<1>6. \A g \in Bound(run.config) : g \in IoGroups /\ (g \in RawGroups \cup GemGroups \/ g \in FpgaGroups)
  BY BoundNames DEF IoGroups
<1>7. CASE ~WantsFpga(e)
  <2>1. \A g \in FpgaGroups : ~ExpectedIn(g, e, samples)
    BY <1>7, ExpectedFpga, GroupNames
  <2>2. Shows(io[w].own, e, IoGroups, samples)
    BY <1>1, <1>4, <1>5, <1>6, <2>1, Zenon DEF Shows
  <2>3. QED BY <1>2, <1>3, <1>7, <2>2 DEF AtHand
<1>8. CASE WantsFpga(e)
  <2>1. \A g \in FpgaGroups : g \in Bound(run.config)
    BY <1>8, BoundNames DEF WantsFpga
  <2>2. /\ \A g \in saved : g \in FpgaGroups
        /\ \A g \in FpgaGroups : g \in saved <=> ExpectedIn(g, e, samples)
    BY <1>8, <2>1, SavedFpga, ExpectedFpga, GroupNames
  <2> HIDE DEF saved
  <2>3. /\ b.slices = io[w].slices /\ b.event = io[w].event /\ DOMAIN b.own = Bound(run.config)
        /\ \A g \in Bound(run.config) :
              b.own[g] = IF g \in saved THEN io[w].own[g] \cup {e} ELSE io[w].own[g]
    BY <1>1 DEF SaveGroups, Io
  <2> HIDE DEF b
  <2>4. ASSUME NEW g \in Bound(run.config)
        PROVE  b.own[g] = IF g \in IoGroups /\ ExpectedIn(g, e, samples) THEN {e} ELSE {}
    <3>1. io[w].own[g] =
            IF g \in RawGroups \cup GemGroups /\ ExpectedIn(g, e, samples) THEN {e} ELSE {}
      BY <1>1, <1>4, Zenon DEF Shows
    <3>2. CASE g \in FpgaGroups
      BY <1>5, <1>6, <2>2, <2>3, <3>1, <3>2
    <3>3. CASE g \notin FpgaGroups
      BY <1>6, <2>2, <2>3, <3>1, <3>3
    <3>4. QED BY <3>2, <3>3
  <2>5. Shows(b.own, e, IoGroups, samples)
    BY <2>3, <2>4, Zenon DEF Shows
  <2>6. QED BY <1>2, <1>3, <1>8, <2>3, <2>5 DEF AtHand
<1>9. QED BY <1>7, <1>8

(* A row that is filled is of the event of its worker.                     *)
LEMMA FillOwn ==
    ASSUME TypeOK, TypeOK', Hands, OwnInv, NEW w \in run.threads, Fill(w)
    PROVE  OwnInv'
<1>1. /\ run' = run /\ next' = next /\ io' = io /\ pc[w] = "fill" /\ pc'[w] = "idle"
      /\ \A v \in run.threads : v # w => pc'[v] = pc[v] /\ at'[v] = at[v]
  BY DEF Fill, Goto, TypeOK
<1>2. \A v \in run.threads : AtHand(pc'[v], at'[v], io'[v]) /\ Cut(io'[v].slices)
  <2>1. AtHand(pc'[w], at'[w], io'[w])
    BY <1>1 DEF AtHand
  <2>2. QED BY <1>1, <2>1 DEF OwnInv, HandOwn
<1>3. /\ io[w].event = at[w] /\ at[w] \in 1..next - 1 /\ Cut(io[w].slices)
      /\ \E samples \in BOOLEAN : Shows(io[w].own, at[w], IoGroups, samples)
  BY <1>1 DEF OwnInv, HandOwn, AtHand, Hands, Busy
<1>4. RowOwn(io[w])
  BY <1>3, Zenon DEF RowOwn
<1>5. Rows' = Rows \cup {io[w]}
  BY FillRows
<1>6. \A row \in Rows' : row.event \in 1..next - 1 /\ RowOwn(row) /\ Cut(row.slices)
  BY <1>3, <1>4, <1>5 DEF OwnInv
<1>7. \A row \in Rows' : row.event \in 1..next' - 1 /\ RowOwn(row)' /\ Cut(row.slices)
  BY <1>1, <1>6, RunDecides
<1>8. \A v \in run'.threads : HandOwn(v)' /\ Cut(io'[v].slices)
  BY <1>1, <1>2, RunDecides, Zenon DEF HandOwn
<1>9. QED BY <1>7, <1>8, Zenon DEF OwnInv

(* A step that moves no event and no row.                                  *)
LEMMA SameOwn ==
    ASSUME OwnInv, UNCHANGED <<run, next, pc, at, io>>, Rows' = Rows
    PROVE  OwnInv'
<1>1. \A v \in run'.threads : HandOwn(v)' /\ Cut(io'[v].slices)
  BY RunDecides DEF HandOwn, OwnInv
<1>2. \A row \in Rows' : row.event \in 1..next' - 1 /\ RowOwn(row)' /\ Cut(row.slices)
  BY RunDecides DEF OwnInv
<1>3. QED BY <1>1, <1>2, Zenon DEF OwnInv

(* No row moves if no tree and no file changes.                            *)
LEMMA SameRows ==
    ASSUME UNCHANGED <<run, tree, merged>>
    PROVE  Rows' = Rows
BY DEF Rows

(* What a worker does to its own hand.                                     *)
LEMMA HandSteps ==
    ASSUME TypeOK, NEW w \in run.threads,
           \/ Take(w) \/ LockContexts(w) \/ RegisterContext(w) \/ SaveRaw(w) \/ SaveGem(w)
           \/ TakePlace(w) \/ SaveSamples(w) \/ SaveFpga(w)
    PROVE  /\ next <= next' /\ Rows' = Rows /\ run' = run
           /\ \A v \in run.threads : v # w => pc'[v] = pc[v] /\ at'[v] = at[v] /\ io'[v] = io[v]
<1>1. next \in Nat /\ (next' = next \/ next' = next + 1)
  BY DEF TypeOK, Take, LockContexts, RegisterContext, SaveRaw, SaveGem, TakePlace, SaveSamples, SaveFpga
<1>2. UNCHANGED <<run, tree, merged>>
  BY DEF Take, LockContexts, RegisterContext, SaveRaw, SaveGem, TakePlace, SaveSamples, SaveFpga, fileVars
<1>3. \A v \in run.threads : v # w => pc'[v] = pc[v]
  BY DEF TypeOK, Take, LockContexts, RegisterContext, SaveRaw, SaveGem, TakePlace, SaveSamples, SaveFpga, Goto
<1>4. \A v \in run.threads : v # w => at'[v] = at[v]
  BY DEF TypeOK, Take, LockContexts, RegisterContext, SaveRaw, SaveGem, TakePlace, SaveSamples, SaveFpga
<1>5. \A v \in run.threads : v # w => io'[v] = io[v]
  BY DEF TypeOK, Take, LockContexts, RegisterContext, SaveRaw, SaveGem, TakePlace, SaveSamples, SaveFpga
<1>6. QED BY <1>1, <1>2, <1>3, <1>4, <1>5, SameRows

(* A step keeps the rows to their events.                                  *)
LEMMA OwnStep ==
    ASSUME TypeOK, TypeOK', Hands, OwnInv, [Next]_vars
    PROVE  OwnInv'
<1>1. ASSUME NEW w \in run.threads, Step(w) PROVE OwnInv'
  <2>1. ASSUME \/ Take(w) \/ LockContexts(w) \/ RegisterContext(w) \/ SaveRaw(w) \/ SaveGem(w)
               \/ TakePlace(w) \/ SaveSamples(w) \/ SaveFpga(w)
        PROVE  OwnInv'
    <3>1. AtHand(pc'[w], at'[w], io'[w]) /\ Cut(io'[w].slices)
      <4>1. CASE Take(w)
        <5>1. pc'[w] \in {"raw", "context"} /\ io' = io
          BY <4>1 DEF Take, Goto, TypeOK
        <5>2. QED BY <5>1 DEF AtHand, OwnInv
      <4>2. CASE LockContexts(w)
        <5>1. pc'[w] = "register" /\ io'[w] = NewIo(run.config)
          BY <4>2 DEF LockContexts, Goto, TypeOK
        <5>2. QED BY <5>1, NewIoType DEF AtHand
      <4>3. CASE RegisterContext(w)
        <5>1. pc'[w] = "raw" /\ io' = io
          BY <4>3 DEF RegisterContext, Goto, TypeOK
        <5>2. QED BY <5>1 DEF AtHand, OwnInv
      <4>4. CASE TakePlace(w)
        <5>1. pc[w] = "place" /\ at'[w] = at[w] /\ io'[w] = io[w] /\ pc'[w] \in {"samples", "fpga"}
              /\ Cut(io[w].slices)
          BY <4>4 DEF TakePlace, Goto, TypeOK, OwnInv
        <5>2. /\ io[w].event = at[w] /\ WantsGem(at[w]) /\ ~GemThrows(at[w]) /\ Enabled("gem_samples")
              /\ Shows(io[w].own, at[w], RawGroups \cup GemGroups, FALSE)
          BY <5>1 DEF OwnInv, HandOwn, AtHand
        <5>3. \E samples \in BOOLEAN : Shows(io[w].own, at[w], RawGroups \cup GemGroups, samples)
          BY <5>2
        <5>4. QED BY <5>1, <5>2, <5>3 DEF AtHand
      <4>5. QED BY <2>1, <4>1, <4>2, <4>3, <4>4, SaveRawOwn, SaveGemOwn, SaveSamplesOwn, SaveFpgaOwn
    <3>2. QED BY <2>1, <3>1, HandSteps, OwnKeeps
  <2>2. CASE Fill(w)
    BY <2>2, FillOwn
  <2>3. CASE WriteLastRows(w)
    <3>1. UNCHANGED <<run, next, pc, at, io>> /\ Rows' = Rows
      BY <2>3, LastRows DEF WriteLastRows
    <3>2. QED BY <3>1, SameOwn
  <2>4. QED BY <1>1, <2>1, <2>2, <2>3 DEF Step
<1>2. CASE Finish
  <2>1. UNCHANGED <<run, next, pc, at, io>> /\ Rows' = Rows
    BY <1>2, SameRows DEF Finish
  <2>2. QED BY <2>1, SameOwn
<1>3. CASE UNCHANGED vars
  <2>1. UNCHANGED <<run, next, pc, at, io>> /\ Rows' = Rows
    BY <1>3, SameRows DEF vars, fileVars
  <2>2. QED BY <2>1, SameOwn
<1>4. QED BY <1>1, <1>2, <1>3 DEF Next, Done

-----------------------------------------------------------------------------
(* The events of some rows, no two of which are of the same event.         *)
EventsOf(s) == {s[k].event : k \in DOMAIN s}
Distinct(s) == \A j, k \in DOMAIN s : s[j].event = s[k].event => j = k

InHand(w) == IF Busy(w) THEN {at[w]} ELSE {}

(* Every event that was taken is in one place.                             *)
OncePlaced ==
    /\ Distinct(merged) /\ \A w \in run.threads : Distinct(tree[w])
    /\ \A w \in run.threads : EventsOf(merged) \cap (EventsOf(tree[w]) \cup InHand(w)) = {}
    /\ \A v, w \in run.threads :
          /\ EventsOf(tree[v]) \cap InHand(w) = {}
          /\ v # w => EventsOf(tree[v]) \cap EventsOf(tree[w]) = {}
    /\ \A e \in 1..next - 1 :
          e \in EventsOf(merged) \/ \E w \in run.threads : e \in EventsOf(tree[w]) \cup InHand(w)

(* The rows that are not in the file are of a context Finish will visit.   *)
ContextsLeft ==
    /\ \A w \in run.threads : tree[w] # <<>> => w \in m_contexts
    /\ \A w \in run.threads : pc[w] \in Late => w \in ctx
    /\ ~Processed => m_contexts = ctx
    /\ finished => Processed /\ m_contexts = {}

(* The events of rows with one more.                                       *)
LEMMA AppendEvent ==
    ASSUME NEW T, NEW s \in Seq(T), NEW x \in T
    PROVE  /\ EventsOf(Append(s, x)) = EventsOf(s) \cup {x.event}
           /\ Distinct(s) /\ x.event \notin EventsOf(s) => Distinct(Append(s, x))
<1> DEFINE u == Append(s, x)
<1>1. /\ \A k \in DOMAIN s : k \in DOMAIN u /\ u[k] = s[k]
      /\ Len(s) + 1 \in DOMAIN u /\ u[Len(s) + 1] = x
      /\ \A k \in DOMAIN u : k \in DOMAIN s \/ k = Len(s) + 1
  BY AppendIndex
<1> HIDE DEF u
<1>2. EventsOf(u) = EventsOf(s) \cup {x.event}
  BY <1>1, Zenon DEF EventsOf
<1>3. ASSUME Distinct(s), x.event \notin EventsOf(s) PROVE Distinct(u)
  <2>1. \A k \in DOMAIN s : s[k].event # x.event
    BY <1>3, Zenon DEF EventsOf
  <2>2. QED BY <1>1, <1>3, <2>1, Zenon DEF Distinct
<1>4. QED BY <1>2, <1>3 DEF u

(* The events of rows that are written after others.                       *)
LEMMA ConcatEvents ==
    ASSUME NEW T, NEW s \in Seq(T), NEW t \in Seq(T)
    PROVE  /\ EventsOf(s \o t) = EventsOf(s) \cup EventsOf(t)
           /\ Distinct(s) /\ Distinct(t) /\ EventsOf(s) \cap EventsOf(t) = {} => Distinct(s \o t)
<1> DEFINE u == s \o t
<1>1. /\ \A k \in DOMAIN s : k \in DOMAIN u /\ u[k] = s[k]
      /\ \A k \in DOMAIN t : Len(s) + k \in DOMAIN u /\ u[Len(s) + k] = t[k]
      /\ \A k \in DOMAIN u : k \in DOMAIN s \/ \E j \in DOMAIN t : k = Len(s) + j
  BY ConcatIndex
<1> HIDE DEF u
<1>2. \A e : e \in EventsOf(u) => e \in EventsOf(s) \cup EventsOf(t)
  BY <1>1 DEF EventsOf
<1>3. \A e : e \in EventsOf(s) => e \in EventsOf(u)
  BY <1>1 DEF EventsOf
<1>4. \A e : e \in EventsOf(t) => e \in EventsOf(u)
  BY <1>1 DEF EventsOf
<1>5. ASSUME Distinct(s), Distinct(t), EventsOf(s) \cap EventsOf(t) = {},
             NEW j \in DOMAIN u, NEW k \in DOMAIN u, u[j].event = u[k].event
      PROVE  j = k
  <2>1. \A i \in DOMAIN s : \A l \in DOMAIN t : s[i].event # t[l].event
    BY <1>5 DEF EventsOf
  <2>2. CASE j \in DOMAIN s /\ k \in DOMAIN s
    BY <1>1, <1>5, <2>2 DEF Distinct
  <2>3. CASE j \in DOMAIN s /\ \E l \in DOMAIN t : k = Len(s) + l
    BY <1>1, <1>5, <2>1, <2>3
  <2>4. CASE k \in DOMAIN s /\ \E l \in DOMAIN t : j = Len(s) + l
    BY <1>1, <1>5, <2>1, <2>4
  <2>5. CASE (\E l \in DOMAIN t : j = Len(s) + l) /\ (\E l \in DOMAIN t : k = Len(s) + l)
    BY <1>1, <1>5, <2>5 DEF Distinct
  <2>6. QED BY <1>1, <2>2, <2>3, <2>4, <2>5
<1>6. Distinct(s) /\ Distinct(t) /\ EventsOf(s) \cap EventsOf(t) = {} => Distinct(u)
  BY <1>5, Zenon DEF Distinct
<1>7. EventsOf(u) = EventsOf(s) \cup EventsOf(t)
  BY <1>2, <1>3, <1>4
<1>8. QED BY <1>6, <1>7 DEF u

(* No rows, no events.                                                     *)
LEMMA EmptyEvents == EventsOf(<<>>) = {} /\ Distinct(<<>>)
BY DEF EventsOf, Distinct

(* Init takes no event, and Finish has to visit the contexts there are.    *)
LEMMA OnceInit == ASSUME Init PROVE OncePlaced /\ ContextsLeft
<1>1. /\ next = 1 /\ merged = <<>> /\ \A w \in run.threads : tree[w] = <<>> /\ ~Busy(w)
      /\ \A w \in run.threads : InHand(w) = {} /\ pc[w] \notin Late
  BY DEF Init, Busy, InHand, Late
<1>2. OncePlaced
  BY <1>1, EmptyEvents DEF OncePlaced
<1>3. m_contexts = ctx /\ ~finished
  BY Zenon DEF Init
<1>4. QED BY <1>1, <1>2, <1>3 DEF ContextsLeft

(* Rows are of events that were taken.                                     *)
LEMMA RowsTaken ==
    ASSUME TypeOK, OwnInv
    PROVE  /\ EventsOf(merged) \subseteq 1..next - 1
           /\ \A w \in run.threads : EventsOf(tree[w]) \subseteq 1..next - 1
<1>1. \A k \in DOMAIN merged : merged[k] \in Rows
  BY RowsMembers DEF Range
<1>2. \A w \in run.threads : \A k \in DOMAIN tree[w] : tree[w][k] \in Rows
  BY RowsMembers DEF Range
<1>3. \A row \in Rows : row.event \in 1..next - 1
  BY DEF OwnInv
<1>4. \A k \in DOMAIN merged : merged[k].event \in 1..next - 1
  BY <1>1, <1>3
<1>5. \A w \in run.threads : \A k \in DOMAIN tree[w] : tree[w][k].event \in 1..next - 1
  BY <1>2, <1>3
<1>6. QED BY <1>4, <1>5 DEF EventsOf

(* A worker moves its rows and its event among its hands, its tree and the *)
(* file.                                                                   *)
LEMMA OnceMoved ==
    ASSUME Hands, OncePlaced, UNCHANGED <<run, next>>, NEW w \in run.threads,
           \A v \in run.threads : v # w => tree'[v] = tree[v] /\ InHand(v)' = InHand(v),
           Distinct(merged'), Distinct(tree'[w]),
           EventsOf(merged') \cup EventsOf(tree'[w]) \cup InHand(w)' =
             EventsOf(merged) \cup EventsOf(tree[w]) \cup InHand(w),
           EventsOf(merged') \cap (EventsOf(tree'[w]) \cup InHand(w)') = {},
           EventsOf(tree'[w]) \cap InHand(w)' = {}
    PROVE  OncePlaced'
<1> DEFINE S == EventsOf(merged) \cup EventsOf(tree[w]) \cup InHand(w)
           R(v) == EventsOf(tree[v]) \cup InHand(v)
<1>1. \A v \in run.threads : v # w => R(v) \cap S = {}
  <2>1. ASSUME NEW v \in run.threads, v # w PROVE InHand(v) \cap InHand(w) = {}
    BY <2>1 DEF Hands, InHand
  <2>2. QED BY <2>1 DEF OncePlaced
<1>2. EventsOf(merged') \subseteq S /\ EventsOf(tree'[w]) \subseteq S /\ InHand(w)' \subseteq S
  OBVIOUS
<1>3. \A v \in run.threads : v # w => EventsOf(tree'[v]) \subseteq R(v) /\ InHand(v)' \subseteq R(v)
  OBVIOUS
<1>4. \A v \in run.threads : Distinct(tree'[v])
  BY DEF OncePlaced
<1>5. ASSUME NEW v \in run.threads PROVE EventsOf(merged') \cap (EventsOf(tree'[v]) \cup InHand(v)') = {}
  <2>1. CASE v = w
    BY <2>1
  <2>2. CASE v # w
    <3>1. EventsOf(tree'[v]) \cup InHand(v)' \subseteq R(v) /\ R(v) \cap S = {}
      BY <1>1, <1>3, <2>2
    <3> HIDE DEF R, S
    <3>2. QED BY <1>2, <3>1
  <2>3. QED BY <2>1, <2>2
<1>6. ASSUME NEW v \in run.threads, NEW u \in run.threads PROVE EventsOf(tree'[v]) \cap InHand(u)' = {}
  <2>1. CASE v = w /\ u = w
    BY <2>1
  <2>2. CASE v = w /\ u # w
    <3>1. InHand(u)' \subseteq R(u) /\ R(u) \cap S = {}
      BY <1>1, <1>3, <2>2
    <3> HIDE DEF R, S
    <3>2. QED BY <1>2, <2>2, <3>1
  <2>3. CASE v # w /\ u = w
    <3>1. EventsOf(tree'[v]) \subseteq R(v) /\ R(v) \cap S = {}
      BY <1>1, <1>3, <2>3
    <3> HIDE DEF R, S
    <3>2. QED BY <1>2, <2>3, <3>1
  <2>4. CASE v # w /\ u # w
    <3>1. EventsOf(tree[v]) \cap InHand(u) = {}
      BY DEF OncePlaced
    <3>2. QED BY <2>4, <3>1
  <2>5. QED BY <2>1, <2>2, <2>3, <2>4
<1>7. ASSUME NEW v \in run.threads, NEW u \in run.threads, v # u
      PROVE  EventsOf(tree'[v]) \cap EventsOf(tree'[u]) = {}
  <2>1. CASE v = w
    <3>1. EventsOf(tree'[u]) \subseteq R(u) /\ R(u) \cap S = {}
      BY <1>1, <1>3, <1>7, <2>1
    <3> HIDE DEF R, S
    <3>2. QED BY <1>2, <2>1, <3>1
  <2>2. CASE u = w
    <3>1. EventsOf(tree'[v]) \subseteq R(v) /\ R(v) \cap S = {}
      BY <1>1, <1>3, <1>7, <2>2
    <3> HIDE DEF R, S
    <3>2. QED BY <1>2, <2>2, <3>1
  <2>3. CASE v # w /\ u # w
    <3>1. EventsOf(tree[v]) \cap EventsOf(tree[u]) = {}
      BY <1>7 DEF OncePlaced
    <3>2. QED BY <2>3, <3>1
  <2>4. QED BY <2>1, <2>2, <2>3
<1>8. ASSUME NEW e \in 1..next - 1
      PROVE  \/ e \in EventsOf(merged')
             \/ \E v \in run.threads : e \in EventsOf(tree'[v]) \cup InHand(v)'
  <2>1. e \in S \/ \E v \in run.threads : v # w /\ e \in R(v)
    BY DEF OncePlaced
  <2>2. S = EventsOf(merged') \cup EventsOf(tree'[w]) \cup InHand(w)'
    OBVIOUS
  <2>3. CASE e \in S
    <3> HIDE DEF S
    <3>1. QED BY <2>2, <2>3
  <2>4. CASE \E v \in run.threads : v # w /\ e \in R(v)
    <3>1. PICK v \in run.threads : v # w /\ e \in EventsOf(tree[v]) \cup InHand(v)
      BY <2>4
    <3>2. tree'[v] = tree[v] /\ InHand(v)' = InHand(v)
      BY <3>1
    <3>3. QED BY <3>1, <3>2
  <2>5. QED BY <2>1, <2>3, <2>4
<1>9. run' = run /\ next' = next
  OBVIOUS
<1>10. QED BY <1>4, <1>5, <1>6, <1>7, <1>8, <1>9 DEF OncePlaced

(* What Fill changes.                                                      *)
LEMMA FillEffect ==
    ASSUME TypeOK, NEW w \in run.threads, Fill(w)
    PROVE  /\ UNCHANGED <<run, next, io>> /\ pc[w] = "fill" /\ pc'[w] = "idle"
           /\ \A v \in run.threads : v # w => /\ pc'[v] = pc[v] /\ at'[v] = at[v]
                                              /\ tree'[v] = tree[v]
           /\ \/ tree'[w] = <<>> /\ merged' = merged \o Append(tree[w], io[w])
              \/ tree'[w] = Append(tree[w], io[w]) /\ merged' = merged
BY DEF TypeOK, Fill, Goto

(* A step keeps every event in one place.                                  *)
LEMMA OnceStep ==
    ASSUME TypeOK, Hands, OwnInv, OncePlaced, [Next]_vars
    PROVE  OncePlaced'
<1>1. ASSUME UNCHANGED <<run, next, tree, merged>>, \A v \in run.threads : InHand(v)' = InHand(v)
      PROVE  OncePlaced'
  BY <1>1 DEF OncePlaced
<1>2. ASSUME NEW w \in run.threads, Take(w) PROVE OncePlaced'
  <2>1. /\ run' = run /\ tree' = tree /\ merged' = merged /\ next' = next + 1 /\ next \in Nat
        /\ InHand(w)' = {next} /\ InHand(w) = {}
        /\ \A v \in run.threads : v # w => InHand(v)' = InHand(v)
    BY <1>2 DEF Take, Goto, TypeOK, InHand, Busy, fileVars
  <2>2. next \notin EventsOf(merged) /\ \A v \in run.threads : next \notin EventsOf(tree[v])
    BY <2>1, RowsTaken
  <2>3. \A e \in 1..next' - 1 : e \in 1..next - 1 \/ e = next
    BY <2>1
  <2>4. \A v \in run.threads : InHand(v)' \subseteq InHand(v) \cup {next}
    BY <2>1
  <2>5. \A v \in run.threads : EventsOf(merged) \cap (EventsOf(tree[v]) \cup InHand(v)') = {}
    BY <2>2, <2>4 DEF OncePlaced
  <2>6. \A u, v \in run.threads : EventsOf(tree[u]) \cap InHand(v)' = {}
    BY <2>2, <2>4 DEF OncePlaced
  <2>7. \A e \in 1..next' - 1 :
           e \in EventsOf(merged) \/ \E v \in run.threads : e \in EventsOf(tree[v]) \cup InHand(v)'
    <3>1. ASSUME NEW e \in 1..next - 1
          PROVE  \/ e \in EventsOf(merged)
                 \/ \E v \in run.threads : e \in EventsOf(tree[v]) \cup InHand(v)'
      <4>1. \A v \in run.threads : InHand(v) \subseteq InHand(v)'
        BY <2>1
      <4>2. QED BY <4>1 DEF OncePlaced
    <3>2. QED BY <2>1, <2>3, <3>1
  <2>8. QED BY <2>1, <2>5, <2>6, <2>7 DEF OncePlaced
<1>3. ASSUME NEW w \in run.threads, Fill(w) PROVE OncePlaced'
  <2> DEFINE e == at[w]
             t == Append(tree[w], io[w])
  <2>1. /\ UNCHANGED <<run, next>> /\ InHand(w) = {e} /\ InHand(w)' = {}
        /\ \A v \in run.threads : v # w => tree'[v] = tree[v] /\ InHand(v)' = InHand(v)
        /\ \/ tree'[w] = <<>> /\ merged' = merged \o t
           \/ tree'[w] = t /\ merged' = merged
    BY <1>3, FillEffect DEF InHand, Busy
  <2>2. io[w].event = e
    BY <1>3, FillEffect DEF OwnInv, HandOwn, AtHand
  <2>3. /\ merged \in Seq(Io(run.config)) /\ tree[w] \in Seq(Io(run.config)) /\ io[w] \in Io(run.config)
        /\ t \in Seq(Io(run.config))
    BY DEF TypeOK
  <2>4. /\ Distinct(merged) /\ Distinct(tree[w]) /\ EventsOf(merged) \cap EventsOf(tree[w]) = {}
        /\ EventsOf(merged) \cap {e} = {} /\ EventsOf(tree[w]) \cap {e} = {}
    BY <2>1 DEF OncePlaced
  <2>5. EventsOf(t) = EventsOf(tree[w]) \cup {e} /\ Distinct(t)
    BY <2>2, <2>3, <2>4, AppendEvent
  <2> HIDE DEF t
  <2>6. EventsOf(merged \o t) = EventsOf(merged) \cup EventsOf(t) /\ Distinct(merged \o t)
    BY <2>3, <2>4, <2>5, ConcatEvents
  <2>7. CASE tree'[w] = <<>> /\ merged' = merged \o t
    <3>1. /\ Distinct(merged') /\ Distinct(tree'[w]) /\ EventsOf(tree'[w]) = {}
          /\ EventsOf(merged') = EventsOf(merged) \cup EventsOf(tree[w]) \cup {e}
      BY <2>5, <2>6, <2>7, EmptyEvents
    <3>2. QED BY <2>1, <2>4, <3>1, OnceMoved
  <2>8. CASE tree'[w] = t /\ merged' = merged
    <3>1. /\ Distinct(merged') /\ Distinct(tree'[w]) /\ EventsOf(merged') = EventsOf(merged)
          /\ EventsOf(tree'[w]) = EventsOf(tree[w]) \cup {e}
      BY <2>4, <2>5, <2>8
    <3>2. QED BY <2>1, <2>4, <3>1, OnceMoved
  <2>9. QED BY <2>1, <2>7, <2>8
<1>4. ASSUME NEW w \in run.threads, WriteLastRows(w) PROVE OncePlaced'
  <2>1. /\ UNCHANGED <<run, next>> /\ InHand(w) = {} /\ InHand(w)' = {}
        /\ \A v \in run.threads : v # w => tree'[v] = tree[v] /\ InHand(v)' = InHand(v)
        /\ tree'[w] = <<>> /\ merged' = merged \o tree[w]
    BY <1>4 DEF WriteLastRows, Processed, InHand, Busy, TypeOK
  <2>2. merged \in Seq(Io(run.config)) /\ tree[w] \in Seq(Io(run.config))
    BY DEF TypeOK
  <2>3. Distinct(merged) /\ Distinct(tree[w]) /\ EventsOf(merged) \cap EventsOf(tree[w]) = {}
    BY DEF OncePlaced
  <2>4. /\ Distinct(merged') /\ Distinct(tree'[w]) /\ EventsOf(tree'[w]) = {}
        /\ EventsOf(merged') = EventsOf(merged) \cup EventsOf(tree[w])
    BY <2>1, <2>2, <2>3, ConcatEvents, EmptyEvents
  <2>5. QED BY <2>1, <2>4, OnceMoved
<1>5. ASSUME NEW w \in run.threads, Step(w) PROVE OncePlaced'
  <2>1. CASE \/ LockContexts(w) \/ RegisterContext(w) \/ SaveRaw(w) \/ SaveGem(w)
             \/ TakePlace(w) \/ SaveSamples(w) \/ SaveFpga(w)
    <3>1. UNCHANGED <<run, next, tree, merged, at>> /\ Busy(w) /\ Busy(w)'
      BY <2>1 DEF LockContexts, RegisterContext, SaveRaw, SaveGem, TakePlace, SaveSamples, SaveFpga,
                  Goto, Busy, TypeOK, fileVars
    <3>2. \A v \in run.threads : v # w => pc'[v] = pc[v]
      BY <2>1, HandSteps
    <3>3. \A v \in run.threads : InHand(v)' = InHand(v)
      BY <3>1, <3>2 DEF InHand, Busy
    <3>4. QED BY <1>1, <3>1, <3>3
  <2>2. QED BY <1>2, <1>3, <1>4, <1>5, <2>1 DEF Step
<1>6. CASE Finish
  <2>1. UNCHANGED <<run, next, tree, merged, at, pc>>
    BY <1>6 DEF Finish
  <2>2. QED BY <1>1, <2>1 DEF InHand, Busy
<1>7. CASE UNCHANGED vars
  <2>1. UNCHANGED <<run, next, tree, merged, at, pc>>
    BY <1>7 DEF vars, fileVars
  <2>2. QED BY <1>1, <2>1 DEF InHand, Busy
<1>8. QED BY <1>5, <1>6, <1>7 DEF Next, Done

(* A step leaves no row in a context that Finish does not visit.           *)
LEMMA ContextsStep ==
    ASSUME TypeOK, ContextsLeft, [Next]_vars
    PROVE  ContextsLeft'
<1> USE DEF ContextsLeft
<1>1. ASSUME NEW w \in run.threads, pc[w] # "idle" PROVE ~Processed /\ ~finished /\ m_contexts = ctx
  BY <1>1 DEF Processed
<1>2. ASSUME NEW w \in run.threads, Step(w) PROVE ContextsLeft'
  <2>1. CASE Take(w)
    <3>1. ~Processed
      BY <2>1 DEF Take, Processed
    <3>2. UNCHANGED <<run, tree, m_contexts, ctx, finished>> /\ pc'[w] \in {"raw", "context"}
          /\ (pc'[w] = "raw" => w \in ctx)
      BY <2>1 DEF Take, Goto, TypeOK, contextVars, fileVars
    <3>3. \A v \in run.threads : v # w => pc'[v] = pc[v]
      BY <2>1, HandSteps
    <3>4. ~Processed' /\ m_contexts = ctx /\ ~finished
      BY <3>1, <3>2 DEF Processed
    <3>5. QED BY <3>2, <3>3, <3>4 DEF Late
  <2>2. CASE RegisterContext(w)
    <3>1. ~Processed /\ ~finished /\ m_contexts = ctx
      BY <1>1, <2>2 DEF RegisterContext
    <3>2. /\ UNCHANGED <<run, tree, finished>> /\ pc'[w] = "raw" /\ w \in ctx' /\ ctx \subseteq ctx'
          /\ ctx' = ctx \cup {w} /\ m_contexts' = m_contexts \cup {w}
      BY <2>2 DEF RegisterContext, Goto, TypeOK, fileVars
    <3>3. \A v \in run.threads : v # w => pc'[v] = pc[v]
      BY <2>2, HandSteps
    <3>4. ~Processed' /\ m_contexts' = ctx'
      BY <3>1, <3>2 DEF Processed
    <3>5. QED BY <3>1, <3>2, <3>3, <3>4
  <2>3. CASE LockContexts(w) \/ SaveRaw(w) \/ SaveGem(w) \/ TakePlace(w) \/ SaveSamples(w) \/ SaveFpga(w)
    <3>1. pc[w] # "idle" /\ pc'[w] # "idle" /\ (pc'[w] \in Late => pc[w] \in Late)
      BY <2>3 DEF LockContexts, SaveRaw, SaveGem, TakePlace, SaveSamples, SaveFpga, Goto, TypeOK, Late
    <3>2. UNCHANGED <<run, tree, m_contexts, ctx, finished>>
      BY <2>3 DEF LockContexts, SaveRaw, SaveGem, TakePlace, SaveSamples, SaveFpga, contextVars, fileVars
    <3>3. \A v \in run.threads : v # w => pc'[v] = pc[v]
      BY <2>3, HandSteps
    <3>4. ~Processed' /\ m_contexts = ctx /\ ~finished
      BY <1>1, <3>1, <3>2 DEF Processed
    <3>5. QED BY <3>1, <3>2, <3>3, <3>4
  <2>4. CASE Fill(w)
    <3>1. ~Processed /\ ~finished /\ m_contexts = ctx /\ w \in ctx
      BY <1>1, <2>4 DEF Fill, Late
    <3>2. /\ UNCHANGED <<run, m_contexts, ctx, finished>> /\ pc'[w] = "idle"
          /\ \A v \in run.threads : v # w => pc'[v] = pc[v] /\ tree'[v] = tree[v]
      BY <2>4, FillEffect DEF Fill, contextVars
    <3>3. QED BY <3>1, <3>2 DEF Late
  <2>5. CASE WriteLastRows(w)
    <3>1. /\ Processed /\ ~finished /\ UNCHANGED <<run, next, pc, ctx, finished>>
          /\ m_contexts' = m_contexts \ {w} /\ tree'[w] = <<>>
          /\ \A v \in run.threads : v # w => tree'[v] = tree[v]
      BY <2>5 DEF WriteLastRows, TypeOK
    <3>2. Processed'
      BY <3>1 DEF Processed, Events
    <3>3. QED BY <3>1, <3>2
  <2>6. QED BY <1>2, <2>1, <2>2, <2>3, <2>4, <2>5 DEF Step
<1>3. CASE Finish
  <2>1. Processed /\ m_contexts = {} /\ UNCHANGED <<run, next, pc, ctx, m_contexts, tree>>
    BY <1>3 DEF Finish, contextVars
  <2>2. Processed'
    BY <2>1 DEF Processed, Events
  <2>3. QED BY <2>1, <2>2
<1>4. CASE UNCHANGED vars
  <2>1. UNCHANGED <<run, next, pc, ctx, m_contexts, tree, finished>>
    BY <1>4 DEF vars, contextVars, fileVars
  <2>2. Processed' <=> Processed
    BY <2>1 DEF Processed, Events
  <2>3. QED BY <2>1, <2>2
<1>5. QED BY <1>2, <1>3, <1>4 DEF Next, Done

-----------------------------------------------------------------------------
IndInv == TypeOK /\ Hands /\ OwnInv /\ OncePlaced /\ ContextsLeft

(* The invariant of the writer.                                            *)
THEOREM WriterInvariant == Spec => []IndInv
<1>1. Init => IndInv
  BY TypeInit, OwnInit, OnceInit DEF IndInv
<1>2. IndInv /\ [Next]_vars => IndInv'
  BY TypeStep, HandsStep, OwnStep, OnceStep, ContextsStep DEF IndInv
<1>3. QED BY <1>1, <1>2, PTL DEF Spec

(* Every row of the output is of one event.                                *)
THEOREM EveryRowIsOwn == Spec => []RowsAreOwn
<1>1. OwnInv => RowsAreOwn
  <2>1. ASSUME OwnInv, NEW row \in Rows
        PROVE  \E samples \in BOOLEAN : \A g \in DOMAIN row.own :
                  row.own[g] = IF ExpectedIn(g, row.event, samples) THEN {row.event} ELSE {}
    <3>1. PICK samples \in BOOLEAN : Shows(row.own, row.event, IoGroups, samples)
      BY <2>1 DEF OwnInv, RowOwn
    <3>2. \A g : ExpectedIn(g, row.event, samples) => g \in IoGroups
      BY DEF ExpectedIn, IoGroups
    <3>3. QED BY <3>1, <3>2, Zenon DEF Shows
  <2>2. ASSUME OwnInv, NEW row \in Rows, Len(row.slices.samples) < IndexRange
        PROVE  SliceHasItsOwn(row.slices)
    BY <2>2 DEF OwnInv, Cut
  <2>3. OwnInv => GroupsAreOwn
    BY <2>1, Zenon DEF GroupsAreOwn
  <2>4. OwnInv => SlicesAreOwn
    BY <2>2, Zenon DEF SlicesAreOwn, SliceHasItsOwn
  <2>5. QED BY <2>3, <2>4 DEF RowsAreOwn
<1>2. QED BY <1>1, WriterInvariant, PTL DEF IndInv

(* How often an event is in a file of rows of different events.            *)
Copies(s, e) == {k \in DOMAIN s : s[k].event = e}

(* Rows of different events have each event once or not at all.            *)
LEMMA CopiesOnce ==
    ASSUME NEW T, NEW s \in Seq(T), Distinct(s), NEW e
    PROVE  /\ Cardinality(Copies(s, e)) \in Nat /\ Cardinality(Copies(s, e)) <= 1
           /\ Cardinality(Copies(s, e)) > 0 <=> e \in EventsOf(s)
<1>1. \A j, k \in Copies(s, e) : j = k
  BY DEF Copies, Distinct
<1>2. CASE Copies(s, e) = {}
  <2>1. e \notin EventsOf(s)
    BY <1>2 DEF Copies, EventsOf
  <2>2. Cardinality(Copies(s, e)) = 0
    BY <1>2, FS_EmptySet
  <2>3. QED BY <2>1, <2>2
<1>3. CASE Copies(s, e) # {}
  <2>1. PICK k \in Copies(s, e) : TRUE
    BY <1>3
  <2>2. Copies(s, e) = {k}
    BY <1>1, <2>1
  <2>3. e \in EventsOf(s)
    BY <2>1 DEF Copies, EventsOf
  <2>4. Cardinality(Copies(s, e)) = 1
    BY <2>2, FS_Singleton
  <2>5. QED BY <2>3, <2>4
<1>4. QED BY <1>2, <1>3

(* Each event's row comes to the file once.                                *)
InFile(s) == [e \in Events |-> Cardinality(Copies(s, e))]

(* What is written stays written, once.                                    *)
LEMMA FileGrows ==
    ASSUME IndInv, IndInv', run' = run,
           merged' = merged \/ \E w \in run.threads : merged' = merged \o tree[w]
                            \/ merged' = merged \o Append(tree[w], io[w])
    PROVE  \A e \in Events : /\ Cardinality(Copies(merged, e)) <= Cardinality(Copies(merged', e))
                             /\ Cardinality(Copies(merged', e)) <= 1
<1>1. /\ merged \in Seq(Io(run.config)) /\ Distinct(merged)
      /\ merged' \in Seq(Io(run.config)) /\ Distinct(merged')
  BY DEF IndInv, TypeOK, OncePlaced
<1>2. EventsOf(merged) \subseteq EventsOf(merged')
  <2>1. CASE merged' = merged
    BY <2>1
  <2>2. ASSUME NEW t \in Seq(Io(run.config)), merged' = merged \o t
        PROVE  EventsOf(merged) \subseteq EventsOf(merged')
    <3>1. EventsOf(merged \o t) = EventsOf(merged) \cup EventsOf(t)
      BY <1>1, ConcatEvents
    <3>2. QED BY <2>2, <3>1
  <2>3. \A w \in run.threads : /\ tree[w] \in Seq(Io(run.config))
                               /\ Append(tree[w], io[w]) \in Seq(Io(run.config))
    BY DEF IndInv, TypeOK
  <2>4. QED BY <2>1, <2>2, <2>3, Zenon
<1>3. ASSUME NEW e \in Events
      PROVE  /\ Cardinality(Copies(merged, e)) <= Cardinality(Copies(merged', e))
             /\ Cardinality(Copies(merged', e)) <= 1
  <2>1. /\ Cardinality(Copies(merged, e)) \in Nat /\ Cardinality(Copies(merged, e)) <= 1
        /\ Cardinality(Copies(merged, e)) > 0 <=> e \in EventsOf(merged)
    BY <1>1, CopiesOnce
  <2>2. /\ Cardinality(Copies(merged', e)) \in Nat /\ Cardinality(Copies(merged', e)) <= 1
        /\ Cardinality(Copies(merged', e)) > 0 <=> e \in EventsOf(merged')
    BY <1>1, CopiesOnce
  <2>3. QED BY <1>2, <2>1, <2>2
<1>4. QED BY <1>3

(* The writer implements RowsWritten: each event's row comes to the file once,
   and the file is whole when it is closed. *)
THEOREM WriterRefinesRowsWritten == Spec => ImplementsRowsWritten
<1> DEFINE file == [e \in Events |-> Cardinality(Copies(merged, e))]
<1>1. file = [e \in Events |-> Cardinality({k \in DOMAIN merged : merged[k].event = e})]
  BY DEF Copies
<1>2. Init /\ IndInv => Output!Init
  <2>1. ASSUME Init, IndInv PROVE Output!InFile = {} /\ finished = FALSE
    <3>1. merged = <<>> /\ finished = FALSE
      BY <2>1, Zenon DEF Init
    <3>2. \A e \in Events : ~(Cardinality(Copies(merged, e)) > 0)
      <4>1. merged \in Seq(Io(run.config)) /\ Distinct(merged) /\ EventsOf(merged) = {}
        BY <2>1, <3>1, EmptyEvents DEF IndInv, TypeOK
      <4>2. QED BY <4>1, CopiesOnce
    <3>3. QED BY <3>1, <3>2 DEF Output!InFile, Copies
  <2>2. QED BY <2>1, Zenon DEF Output!Init
<1>3. IndInv /\ IndInv' /\ [Next]_vars => [Output!Commit \/ Output!Close]_Output!vars
  <2> SUFFICES ASSUME IndInv, IndInv', [Next]_vars
               PROVE  [Output!Commit \/ Output!Close]_Output!vars
    OBVIOUS
  <2>1. run' = run /\ Events' = Events
    BY SameRun DEF Events
  <2> DEFINE grows == /\ \A e \in Events : file[e] <= file'[e] /\ file'[e] <= 1
  <2>2. ASSUME merged' = merged \/ \E w \in run.threads : merged' = merged \o tree[w]
                                \/ merged' = merged \o Append(tree[w], io[w])
        PROVE  Output!Grows
    <3>1. \A e \in Events : /\ Cardinality(Copies(merged, e)) <= Cardinality(Copies(merged', e))
                            /\ Cardinality(Copies(merged', e)) <= 1
      BY <2>1, <2>2, FileGrows
    <3>2. QED BY <2>1, <3>1 DEF Output!Grows, Output!InFile, Copies
  <2>3. ASSUME finished' = finished, ~finished, Output!Grows
        PROVE  Output!Commit
    BY <2>3 DEF Output!Commit
  <2>4. ASSUME run' = run, merged' = merged, finished' = finished PROVE UNCHANGED Output!vars
    BY <2>4 DEF Output!vars, Events
  <2>5. ASSUME NEW w \in run.threads, Step(w) PROVE [Output!Commit \/ Output!Close]_Output!vars
    <3>1. CASE Fill(w)
      <4>1. ~finished
        BY <3>1 DEF IndInv, ContextsLeft, Processed, Fill
      <4>2. finished' = finished /\ (merged' = merged \/ merged' = merged \o Append(tree[w], io[w]))
        BY <3>1 DEF Fill
      <4>3. Output!Grows
        BY <2>2, <4>2
      <4>4. QED BY <2>3, <4>1, <4>2, <4>3
    <3>2. CASE WriteLastRows(w)
      <4>1. ~finished /\ finished' = finished /\ merged' = merged \o tree[w]
        BY <3>2 DEF WriteLastRows
      <4>2. Output!Grows
        BY <2>2, <4>1
      <4>3. QED BY <2>3, <4>1, <4>2
    <3>3. CASE \/ Take(w) \/ LockContexts(w) \/ RegisterContext(w) \/ SaveRaw(w) \/ SaveGem(w)
               \/ TakePlace(w) \/ SaveSamples(w) \/ SaveFpga(w)
      <4>1. merged' = merged /\ finished' = finished
        BY <3>3 DEF Take, LockContexts, RegisterContext, SaveRaw, SaveGem, TakePlace, SaveSamples,
                    SaveFpga, fileVars
      <4>2. QED BY <2>1, <2>4, <4>1
    <3>4. QED BY <2>5, <3>1, <3>2, <3>3 DEF Step
  <2>6. CASE Finish
    <3>1. ~finished /\ finished' = TRUE /\ merged' = merged /\ Processed /\ m_contexts = {}
      BY <2>6 DEF Finish
    <3>2. Output!Grows
      BY <2>2, <3>1
    <3>3. \A e \in Events : e \in EventsOf(merged)
      <4>1. \A w \in run.threads : InHand(w) = {} /\ EventsOf(tree[w]) = {}
        BY <3>1, EmptyEvents DEF Processed, InHand, Busy, IndInv, ContextsLeft
      <4>2. Events \subseteq 1..next - 1
        <5>1. Events = 1..Len(run.events) /\ Len(run.events) \in Nat /\ next \in Nat \ {0} /\ next \notin Events
          BY <3>1, EventType DEF IndInv, TypeOK, Processed
        <5>2. QED BY <5>1
      <4>3. QED BY <4>1, <4>2 DEF IndInv, OncePlaced
    <3>4. \A e \in Events : Cardinality(Copies(merged, e)) > 0
      <4>1. merged \in Seq(Io(run.config)) /\ Distinct(merged)
        BY DEF IndInv, TypeOK, OncePlaced
      <4>2. QED BY <3>3, <4>1, CopiesOnce
    <3>5. Output!InFile' = Events
      BY <2>1, <3>1, <3>4 DEF Output!InFile, Copies
    <3>6. QED BY <3>1, <3>2, <3>5 DEF Output!Close
  <2>7. CASE UNCHANGED vars
    BY <2>4, <2>7 DEF vars, fileVars
  <2>8. QED BY <2>5, <2>6, <2>7 DEF Next, Done
<1>4. QED BY <1>2, <1>3, WriterInvariant, PTL DEF Spec, ImplementsRowsWritten, Output!Spec

-----------------------------------------------------------------------------
HasSamples(b) == "gem_samples" \in DOMAIN b.own /\ b.own["gem_samples"] # {}
Granted(w) == pc[w] = "samples" \/ (pc[w] \in {"fpga", "fill"} /\ HasSamples(io[w]))
Got == Sampled \cup {at[w] : w \in {v \in run.threads : Granted(v)}}
Waits(f) == \E w \in run.threads : at[w] = f /\ pc[w] \in Early
Overtaken(e) == {f \in 1..e - 1 : CouldHave(f)} \ Got

(* Places are for the events that come first, but for those in other hands *)
(* when the place was taken.                                               *)
SharpInv ==
    /\ Cardinality(Got) <= m_gem_samples_seen /\ Cardinality(Got) <= MaxSampled
    /\ \A f \in 1..next - 1 :
          CouldHave(f) /\ f \notin Got => Waits(f) \/ m_gem_samples_seen >= MaxSampled
    /\ \A e \in Got : Cardinality(Overtaken(e)) < Cardinality(run.threads)

(* Who has a place: rows with samples, and hands that have been given one. *)
LEMMA GotMembers ==
    \A e : e \in Got <=> \/ \E row \in Rows : HasSamples(row) /\ row.event = e
                         \/ \E v \in run.threads : Granted(v) /\ at[v] = e
BY DEF Got, Sampled, HasSamples

(* And so after a step.                                                    *)
LEMMA GotMembersNext ==
    \A e : e \in Got' <=> \/ \E row \in Rows' : HasSamples(row) /\ row.event = e
                          \/ \E v \in run'.threads : Granted(v)' /\ at'[v] = e
BY DEF Got, Sampled, HasSamples

(* The events with a place have been taken, and are finitely many.         *)
LEMMA GotType ==
    ASSUME TypeOK, Hands, OwnInv
    PROVE  /\ Got \subseteq 1..next - 1 /\ IsFiniteSet(Got) /\ Cardinality(Got) \in Nat
           /\ \A e \in Got : IsFiniteSet(Overtaken(e)) /\ Cardinality(Overtaken(e)) \in Nat
<1>1. Got \subseteq 1..next - 1
  <2>1. \A v \in run.threads : Granted(v) => at[v] \in 1..next - 1
    BY DEF Granted, Hands, Busy
  <2>2. \A row \in Rows : row.event \in 1..next - 1
    BY DEF OwnInv
  <2>3. QED BY <2>1, <2>2, GotMembers
<1>2. next \in Int /\ next - 1 \in Int /\ 1 \in Int
  BY DEF TypeOK
<1>3. IsFiniteSet(1..next - 1)
  BY <1>2, FS_Interval
<1>4. IsFiniteSet(Got)
  BY <1>1, <1>3, FS_Subset
<1>5. ASSUME NEW e \in Got PROVE IsFiniteSet(Overtaken(e)) /\ Cardinality(Overtaken(e)) \in Nat
  <2>1. e - 1 \in Int
    BY <1>1, <1>2
  <2>2. IsFiniteSet(1..e - 1)
    BY <2>1, FS_Interval
  <2>3. Overtaken(e) \subseteq 1..e - 1
    BY DEF Overtaken
  <2>4. IsFiniteSet(Overtaken(e))
    BY <2>2, <2>3, FS_Subset
  <2>5. QED BY <2>4, FS_CardinalityType
<1>6. QED BY <1>1, <1>4, <1>5, FS_CardinalityType

(* At first nobody has a place.                                            *)
LEMMA SharpInit == ASSUME Init, IndInv PROVE SharpInv
<1>1. next = 1 /\ \A w \in run.threads : pc[w] = "idle"
  BY DEF Init
<1>2. 1..next - 1 = {}
  BY <1>1
<1>3. Got = {}
  BY <1>2, GotType DEF IndInv
<1>4. Cardinality(Got) = 0
  BY <1>3, FS_EmptySet
<1>5. m_gem_samples_seen \in Nat /\ MaxSampled \in Nat
  BY FlatTreeWriterAssumption DEF IndInv, TypeOK
<1>6. QED BY <1>2, <1>3, <1>4, <1>5 DEF SharpInv

(* A step that gives no new place.                                         *)
LEMMA SharpKeeps ==
    ASSUME IndInv, IndInv', SharpInv, run' = run, next <= next',
           m_gem_samples_seen <= m_gem_samples_seen', Got' \subseteq Got,
           \A f \in Got : CouldHave(f) => f \in Got',
           \A f \in 1..next' - 1 : CouldHave(f) /\ f \notin Got' =>
              \/ Waits(f)' \/ m_gem_samples_seen' >= MaxSampled
              \/ f \in 1..next - 1 /\ ~Waits(f)
    PROVE  SharpInv'
<1>1. /\ IsFiniteSet(Got) /\ Cardinality(Got) \in Nat /\ m_gem_samples_seen \in Nat
      /\ m_gem_samples_seen' \in Nat /\ MaxSampled \in Nat /\ Cardinality(Got') \in Nat
  BY GotType, FlatTreeWriterAssumption, FS_Subset, FS_CardinalityType DEF IndInv, TypeOK
<1>2. Cardinality(Got') <= Cardinality(Got)
  BY <1>1, FS_Subset
<1>3. Cardinality(Got') <= m_gem_samples_seen' /\ Cardinality(Got') <= MaxSampled
  BY <1>1, <1>2 DEF SharpInv
<1>4. \A f : CouldHave(f)' <=> CouldHave(f)
  BY RunDecides
<1>5. \A f \in 1..next' - 1 :
         CouldHave(f)' /\ f \notin Got' => Waits(f)' \/ m_gem_samples_seen' >= MaxSampled
  <2>1. SUFFICES ASSUME NEW f \in 1..next' - 1, CouldHave(f), f \notin Got',
                        ~Waits(f)', ~(m_gem_samples_seen' >= MaxSampled)
                 PROVE  FALSE
    BY <1>4
  <2>2. f \in 1..next - 1 /\ ~Waits(f) /\ f \notin Got
    BY <2>1
  <2>3. m_gem_samples_seen >= MaxSampled
    BY <2>1, <2>2 DEF SharpInv
  <2>4. QED BY <1>1, <2>1, <2>3
<1>6. ASSUME NEW e \in Got' PROVE Overtaken(e)' = Overtaken(e)
  BY <1>4 DEF Overtaken
<1>7. \A e \in Got' : Cardinality(Overtaken(e)') < Cardinality(run'.threads)
  BY <1>6 DEF SharpInv
<1>8. QED BY <1>3, <1>5, <1>7 DEF SharpInv

(* A worker that goes on with its event and is given no place.             *)
LEMMA SharpHand ==
    ASSUME IndInv, IndInv', SharpInv, UNCHANGED <<run, next, at>>, Rows' = Rows,
           m_gem_samples_seen <= m_gem_samples_seen', NEW w \in run.threads,
           \A v \in run.threads : v # w => pc'[v] = pc[v] /\ io'[v] = io[v],
           Granted(w)' => Granted(w),
           CouldHave(at[w]) /\ Granted(w) => Granted(w)',
           CouldHave(at[w]) /\ pc[w] \in Early =>
              pc'[w] \in Early \/ Granted(w)' \/ m_gem_samples_seen' >= MaxSampled
    PROVE  SharpInv'
<1>1. \A v \in run.threads : v # w => (Granted(v)' <=> Granted(v))
  BY DEF Granted
<1>2. Got' \subseteq Got
  BY <1>1, GotMembers, GotMembersNext
<1>3. \A f \in Got : CouldHave(f) => f \in Got'
  BY <1>1, GotMembers, GotMembersNext
<1>4. ASSUME NEW f \in 1..next' - 1, CouldHave(f), f \notin Got', Waits(f)
      PROVE  Waits(f)' \/ m_gem_samples_seen' >= MaxSampled
  <2>1. PICK v \in run.threads : at[v] = f /\ pc[v] \in Early
    BY <1>4 DEF Waits
  <2>2. CASE v # w
    BY <2>1, <2>2 DEF Waits
  <2>3. CASE v = w
    <3>1. ~Granted(w)'
      BY <1>4, <2>1, <2>3, GotMembersNext
    <3>2. QED BY <1>4, <2>1, <2>3, <3>1 DEF Waits
  <2>4. QED BY <2>2, <2>3
<1>5. next <= next'
  BY DEF IndInv, TypeOK
<1>6. \A f \in 1..next' - 1 : CouldHave(f) /\ f \notin Got' =>
         \/ Waits(f)' \/ m_gem_samples_seen' >= MaxSampled
         \/ f \in 1..next - 1 /\ ~Waits(f)
  BY <1>4
<1>7. QED BY <1>2, <1>3, <1>5, <1>6, SharpKeeps

(* A step that moves no event and no row.                                  *)
LEMMA SharpSame ==
    ASSUME IndInv, IndInv', SharpInv, UNCHANGED <<run, next, at, pc, io, m_gem_samples_seen>>, Rows' = Rows
    PROVE  SharpInv'
<1>1. Got' = Got
  BY DEF Got, Sampled, Granted, HasSamples
<1>2. \A f : Waits(f)' <=> Waits(f)
  BY DEF Waits
<1>3. next <= next' /\ m_gem_samples_seen <= m_gem_samples_seen'
  BY DEF IndInv, TypeOK
<1>4. QED BY <1>1, <1>2, <1>3, SharpKeeps

(* Buffers that show no samples have none.                                 *)
LEMMA NoSamples ==
    ASSUME TypeOK, NEW b \in Io(run.config), NEW e, NEW groups, NEW samples,
           Shows(b.own, e, groups, samples), ~ExpectedIn("gem_samples", e, samples)
    PROVE  ~HasSamples(b)
BY DEF Shows, HasSamples

(* What the label of a worker says of its place.                           *)
LEMMA HandHolds ==
    ASSUME IndInv, NEW w \in run.threads
    PROVE  AtHand(pc[w], at[w], io[w]) /\ io[w] \in Io(run.config)
BY DEF IndInv, OwnInv, HandOwn, TypeOK

(* And so after a step.                                                    *)
LEMMA HandHoldsNext ==
    ASSUME IndInv', run' = run, NEW w \in run.threads
    PROVE  AtHand(pc'[w], at'[w], io'[w]) /\ io'[w] \in Io(run.config)
<1>1. HandOwn(w)' /\ io'[w] \in Io(run'.config)
  BY DEF IndInv, OwnInv, TypeOK
<1>2. QED BY <1>1, RunDecides DEF HandOwn

(* A place that is given: what it overtakes is in the hands of other workers. *)
LEMMA SharpGrant ==
    ASSUME IndInv, IndInv', SharpInv, MaxSampled # 0, NEW w \in run.threads, TakePlace(w), PlaceIsLeft
    PROVE  SharpInv'
<1> DEFINE e == at[w]
<1>1. /\ UNCHANGED <<run, next, at, io>> /\ Rows' = Rows /\ pc[w] = "place" /\ pc'[w] = "samples"
      /\ m_gem_samples_seen' = m_gem_samples_seen + 1 /\ m_gem_samples_seen < MaxSampled
      /\ \A v \in run.threads : v # w => pc'[v] = pc[v]
  <2>1. Rows' = Rows
    BY HandSteps DEF IndInv
  <2>2. QED BY <2>1 DEF TakePlace, PlaceIsLeft, Goto, IndInv, TypeOK
<1>2. /\ IsFiniteSet(Got) /\ Cardinality(Got) \in Nat /\ m_gem_samples_seen \in Nat /\ MaxSampled \in Nat
      /\ e \in 1..next - 1
  BY <1>1, GotType, FlatTreeWriterAssumption DEF IndInv, TypeOK, Hands, Busy
<1>3. Got' = Got \cup {e}
  <2>1. Granted(w)' /\ ~Granted(w) /\ \A v \in run.threads : v # w => (Granted(v)' <=> Granted(v))
    BY <1>1 DEF Granted
  <2>2. QED BY <1>1, <2>1, GotMembers, GotMembersNext
<1>4. Cardinality(Got') <= m_gem_samples_seen' /\ Cardinality(Got') <= MaxSampled
  <2>1. Cardinality(Got \cup {e}) <= Cardinality(Got) + 1 /\ Cardinality(Got \cup {e}) \in Nat
    <3>1. /\ IsFiniteSet(Got \cup {e})
          /\ Cardinality(Got \cup {e}) = IF e \in Got THEN Cardinality(Got) ELSE Cardinality(Got) + 1
      BY <1>2, FS_AddElement, Zenon
    <3>2. QED BY <1>2, <3>1
  <2>2. Cardinality(Got) <= m_gem_samples_seen
    BY DEF SharpInv
  <2>3. QED BY <1>1, <1>2, <1>3, <2>1, <2>2
<1>5. \A f : (CouldHave(f)' <=> CouldHave(f))
  BY <1>1, RunDecides
<1>6. ASSUME NEW f \in 1..next - 1, CouldHave(f), f \notin Got'
      PROVE  \E v \in run.threads \ {w} : at[v] = f /\ pc[v] \in Early
  <2>1. Waits(f) \/ m_gem_samples_seen >= MaxSampled
    BY <1>3, <1>6 DEF SharpInv
  <2>2. Waits(f)
    BY <1>1, <1>2, <2>1
  <2>3. f # e
    BY <1>3, <1>6
  <2>4. QED BY <2>2, <2>3 DEF Waits
<1>7. \A f \in 1..next' - 1 :
         CouldHave(f)' /\ f \notin Got' => Waits(f)' \/ m_gem_samples_seen' >= MaxSampled
  BY <1>1, <1>5, <1>6 DEF Waits
<1>8. IsFiniteSet(run.threads) /\ Cardinality(run.threads) \in Nat
  BY InputsAssumption, FS_CardinalityType DEF IndInv, TypeOK
<1>9. Cardinality(Overtaken(e)') < Cardinality(run.threads)
  <2> DEFINE others == run.threads \ {w}
             hand   == [v \in others |-> at[v]]
             held   == {at[v] : v \in others}
  <2>1. IsFiniteSet(others) /\ Cardinality(others) = Cardinality(run.threads) - 1
    BY <1>8, FS_RemoveElement
  <2>2. hand \in Surjection(others, held)
    BY DEF Surjection
  <2> HIDE DEF hand, others
  <2>3. IsFiniteSet(held) /\ Cardinality(held) <= Cardinality(others)
    <3> HIDE DEF held
    <3>1. QED BY <2>1, <2>2, FS_Surjection
  <2>4. Overtaken(e)' \subseteq held
    <3>1. ASSUME NEW f \in Overtaken(e)' PROVE f \in held
      <4>1. f \in 1..e - 1 /\ CouldHave(f) /\ f \notin Got'
        BY <1>1, <1>5, <3>1 DEF Overtaken
      <4>2. f \in 1..next - 1
        <5>1. next \in Nat
          BY DEF IndInv, TypeOK
        <5>2. QED BY <1>2, <4>1, <5>1
      <4>3. QED BY <1>6, <4>1, <4>2 DEF others
    <3>2. QED BY <3>1
  <2>5. Cardinality(Overtaken(e)') <= Cardinality(held) /\ IsFiniteSet(Overtaken(e)')
    BY <2>3, <2>4, FS_Subset
  <2>6. Cardinality(Overtaken(e)') \in Nat /\ Cardinality(held) \in Nat /\ Cardinality(others) \in Nat
    BY <2>1, <2>3, <2>5, FS_CardinalityType
  <2>7. QED BY <1>8, <2>1, <2>3, <2>5, <2>6
<1>10. ASSUME NEW d \in Got PROVE Cardinality(Overtaken(d)') < Cardinality(run.threads)
  <2>1. Overtaken(d)' \subseteq Overtaken(d)
    BY <1>3, <1>5 DEF Overtaken
  <2>2. IsFiniteSet(Overtaken(d)) /\ Cardinality(Overtaken(d)) \in Nat
    BY GotType DEF IndInv
  <2>3. Cardinality(Overtaken(d)') <= Cardinality(Overtaken(d)) /\ Cardinality(Overtaken(d)') \in Nat
    BY <2>1, <2>2, FS_Subset, FS_CardinalityType
  <2>4. Cardinality(Overtaken(d)) < Cardinality(run.threads)
    BY DEF SharpInv
  <2>5. QED BY <1>8, <2>2, <2>3, <2>4
<1>11. \A d \in Got' : Cardinality(Overtaken(d)') < Cardinality(run'.threads)
  BY <1>1, <1>3, <1>9, <1>10
<1>12. QED BY <1>4, <1>7, <1>11 DEF SharpInv

(* A step keeps the limit.                                                 *)
LEMMA SharpStep ==
    ASSUME IndInv, IndInv', MaxSampled # 0, SharpInv, [Next]_vars
    PROVE  SharpInv'
<1> DEFINE seen == m_gem_samples_seen
<1>0. TypeOK /\ TypeOK' /\ Hands /\ OwnInv /\ next \in Nat /\ seen \in Nat
  BY DEF IndInv, TypeOK
<1>1. ASSUME NEW w \in run.threads, Take(w) PROVE SharpInv'
  <2>1. /\ run' = run /\ io' = io /\ next' = next + 1 /\ seen' = seen /\ Rows' = Rows
        /\ pc[w] = "idle" /\ at'[w] = next /\ pc'[w] \in Early
        /\ \A v \in run.threads : v # w => pc'[v] = pc[v] /\ at'[v] = at[v]
    <3>1. Rows' = Rows
      BY <1>0, <1>1, HandSteps
    <3>2. QED BY <1>0, <1>1, <3>1 DEF Take, Goto, TypeOK, Early, contextVars
  <2>2. ~Granted(w) /\ ~Granted(w)' /\ \A v \in run.threads : v # w => (Granted(v)' <=> Granted(v))
    BY <2>1 DEF Granted, Early
  <2>3. Got' = Got
    BY <2>1, <2>2, GotMembers, GotMembersNext
  <2>4. \A f : f = next => Waits(f)'
    BY <2>1 DEF Waits
  <2>5. ASSUME NEW f, Waits(f) PROVE Waits(f)'
    <3>1. PICK v \in run.threads : at[v] = f /\ pc[v] \in Early
      BY <2>5 DEF Waits
    <3>2. v # w
      BY <2>1, <3>1 DEF Early
    <3>3. QED BY <2>1, <3>1, <3>2 DEF Waits
  <2>6. \A f \in 1..next' - 1 : f = next \/ f \in 1..next - 1
    BY <1>0, <2>1
  <2>7. next <= next' /\ seen <= seen'
    BY <1>0, <2>1
  <2>8. QED BY <2>1, <2>3, <2>4, <2>5, <2>6, <2>7, SharpKeeps
<1>2. ASSUME NEW w \in run.threads, LockContexts(w) \/ RegisterContext(w) PROVE SharpInv'
  <2>1. /\ UNCHANGED <<run, next, at>> /\ seen' = seen /\ Rows' = Rows
        /\ pc[w] \in Early /\ pc'[w] \in Early
        /\ \A v \in run.threads : v # w => pc'[v] = pc[v] /\ io'[v] = io[v]
    <3>1. /\ Rows' = Rows
          /\ \A v \in run.threads : v # w => pc'[v] = pc[v] /\ io'[v] = io[v]
      BY <1>0, <1>2, HandSteps
    <3>2. QED BY <1>0, <1>2, <3>1 DEF LockContexts, RegisterContext, Goto, TypeOK, Early
  <2>2. ~Granted(w) /\ ~Granted(w)'
    BY <2>1 DEF Granted, Early
  <2>3. seen <= seen'
    BY <1>0, <2>1
  <2>4. QED BY <2>1, <2>2, <2>3, SharpHand
<1>3. ASSUME NEW w \in run.threads, SaveRaw(w) \/ SaveGem(w) PROVE SharpInv'
  <2>1. /\ UNCHANGED <<run, next, at>> /\ seen' = seen /\ Rows' = Rows
        /\ pc[w] \in Early /\ pc'[w] \in Early \cup {"fpga"}
        /\ \A v \in run.threads : v # w => pc'[v] = pc[v] /\ io'[v] = io[v]
    <3>1. /\ Rows' = Rows
          /\ \A v \in run.threads : v # w => pc'[v] = pc[v] /\ io'[v] = io[v]
      BY <1>0, <1>3, HandSteps
    <3>2. QED BY <1>0, <1>3, <3>1 DEF SaveRaw, SaveGem, Goto, TypeOK, Early
  <2>2. pc'[w] = "fpga" => ~CouldHave(at[w]) /\ ~HasSamples(io'[w])
    <3>1. ASSUME pc'[w] = "fpga" PROVE ~CouldHave(at[w]) /\ ~HasSamples(io'[w])
      <4>1. PICK samples \in BOOLEAN : Shows(io'[w].own, at'[w], RawGroups \cup GemGroups, samples)
        BY <2>1, <3>1, HandHoldsNext DEF AtHand
      <4>2. /\ io'[w] \in Io(run.config)
            /\ Shows(io'[w].own, at[w], RawGroups \cup GemGroups, samples)
        BY <2>1, <4>1, HandHoldsNext
      <4>3. CASE SaveRaw(w)
        <5>1. ~WantsGem(at[w])
          BY <1>0, <3>1, <4>3 DEF SaveRaw, Goto, TypeOK
        <5>2. ~ExpectedIn("gem_samples", at[w], samples)
          BY <5>1, ExpectedGem
        <5>3. QED BY <1>0, <4>2, <5>1, <5>2, NoSamples DEF CouldHave
      <4>4. CASE SaveGem(w)
        <5>1. GemThrows(at[w]) \/ ~Enabled("gem_samples")
          BY <1>0, <3>1, <4>4 DEF SaveGem, Goto, TypeOK
        <5>2. ~CouldHave(at[w])
          BY <5>1 DEF CouldHave, GemThrows
        <5>3. CASE GemThrows(at[w])
          <6>1. ~ExpectedIn("gem_samples", at[w], samples)
            BY <5>3, ExpectedGem DEF GemThrows
          <6>2. QED BY <1>0, <4>2, <5>2, <6>1, NoSamples
        <5>4. CASE ~Enabled("gem_samples")
          <6>1. "gem_samples" \notin Bound(run.config)
            BY <1>0, <5>4, BoundNames, GroupNames
          <6>2. "gem_samples" \notin DOMAIN io'[w].own
            BY <4>2, <6>1 DEF Io
          <6>3. QED BY <5>2, <6>2 DEF HasSamples
        <5>5. QED BY <5>1, <5>3, <5>4
      <4>5. QED BY <1>3, <4>3, <4>4
    <3>2. QED BY <3>1
  <2>3. ~Granted(w) /\ ~Granted(w)'
    BY <2>1, <2>2 DEF Granted, Early
  <2>4. CouldHave(at[w]) => pc'[w] \in Early
    BY <2>1, <2>2
  <2>5. seen <= seen'
    BY <1>0, <2>1
  <2>6. QED BY <2>1, <2>3, <2>4, <2>5, SharpHand
<1>4. ASSUME NEW w \in run.threads, TakePlace(w), ~PlaceIsLeft PROVE SharpInv'
  <2>1. /\ UNCHANGED <<run, next, at>> /\ seen' = seen + 1 /\ Rows' = Rows /\ io'[w] = io[w]
        /\ pc[w] = "place" /\ pc'[w] = "fpga"
        /\ \A v \in run.threads : v # w => pc'[v] = pc[v] /\ io'[v] = io[v]
    <3>1. /\ Rows' = Rows
          /\ \A v \in run.threads : v # w => pc'[v] = pc[v] /\ io'[v] = io[v]
      BY <1>0, <1>4, HandSteps
    <3>2. QED BY <1>0, <1>4, <3>1 DEF TakePlace, Goto, TypeOK, PlaceIsLeft
  <2>2. ~HasSamples(io[w])
    <3>1. io[w] \in Io(run.config) /\ Shows(io[w].own, at[w], RawGroups \cup GemGroups, FALSE)
      BY <2>1, HandHolds DEF AtHand
    <3>2. ~ExpectedIn("gem_samples", at[w], FALSE)
      BY ExpectedGem
    <3>3. QED BY <1>0, <3>1, <3>2, NoSamples
  <2>3. ~Granted(w) /\ ~Granted(w)'
    BY <2>1, <2>2 DEF Granted
  <2>4. seen <= seen' /\ seen' >= MaxSampled
    BY <1>0, <1>4, <2>1, FlatTreeWriterAssumption DEF PlaceIsLeft
  <2>5. QED BY <2>1, <2>3, <2>4, SharpHand
<1>5. ASSUME NEW w \in run.threads, SaveSamples(w) PROVE SharpInv'
  <2>1. /\ UNCHANGED <<run, next, at>> /\ seen' = seen /\ Rows' = Rows
        /\ pc[w] = "samples" /\ pc'[w] = "fpga"
        /\ \A v \in run.threads : v # w => pc'[v] = pc[v] /\ io'[v] = io[v]
    <3>1. /\ Rows' = Rows
          /\ \A v \in run.threads : v # w => pc'[v] = pc[v] /\ io'[v] = io[v]
      BY <1>0, <1>5, HandSteps
    <3>2. QED BY <1>0, <1>5, <3>1 DEF SaveSamples, Goto, TypeOK
  <2>2. CouldHave(at[w]) => HasSamples(io'[w])
    <3>1. SUFFICES ASSUME CouldHave(at[w]) PROVE HasSamples(io'[w])
      OBVIOUS
    <3>2. Throws(at[w]) # "gem_samples" /\ "gem_samples" \in Bound(run.config)
      BY <1>0, <3>1, BoundNames, GroupNames DEF CouldHave
    <3>3. io'[w] = SaveGroups(io[w], {"gem_samples"}, at[w])
      BY <1>0, <1>5, <3>2 DEF SaveSamples, TypeOK
    <3>4. io[w] \in Io(run.config)
      BY HandHolds
    <3>5. "gem_samples" \in DOMAIN io'[w].own /\ at[w] \in io'[w].own["gem_samples"]
      BY <3>2, <3>3, <3>4 DEF SaveGroups, Io
    <3>6. QED BY <3>5 DEF HasSamples
  <2>3. Granted(w) /\ (CouldHave(at[w]) => Granted(w)')
    BY <2>1, <2>2 DEF Granted
  <2>4. seen <= seen' /\ pc[w] \notin Early
    BY <1>0, <2>1 DEF Early
  <2>5. QED BY <2>1, <2>3, <2>4, SharpHand
<1>6. ASSUME NEW w \in run.threads, SaveFpga(w) PROVE SharpInv'
  <2>1. /\ UNCHANGED <<run, next, at>> /\ seen' = seen /\ Rows' = Rows
        /\ pc[w] = "fpga" /\ pc'[w] = "fill"
        /\ \A v \in run.threads : v # w => pc'[v] = pc[v] /\ io'[v] = io[v]
    <3>1. /\ Rows' = Rows
          /\ \A v \in run.threads : v # w => pc'[v] = pc[v] /\ io'[v] = io[v]
      BY <1>0, <1>6, HandSteps
    <3>2. QED BY <1>0, <1>6, <3>1 DEF SaveFpga, Goto, TypeOK
  <2>2. HasSamples(io'[w]) <=> HasSamples(io[w])
    <3> DEFINE saved == SavedBefore(FpgaOrder, at[w])
    <3>1. io[w] \in Io(run.config)
      BY HandHolds
    <3>2. "gem_samples" \notin saved
      BY SavedFpga, GroupNames
    <3> HIDE DEF saved
    <3>3. io'[w] = io[w] \/ io'[w] = SaveGroups(io[w], saved, at[w])
      BY <1>0, <1>6 DEF SaveFpga, TypeOK, saved
    <3>4. "gem_samples" \in Bound(run.config) =>
             SaveGroups(io[w], saved, at[w]).own["gem_samples"] = io[w].own["gem_samples"]
      BY <3>1, <3>2 DEF SaveGroups, Io
    <3>5. DOMAIN io[w].own = Bound(run.config)
          /\ DOMAIN SaveGroups(io[w], saved, at[w]).own = Bound(run.config)
      BY <3>1 DEF SaveGroups, Io
    <3>6. QED BY <3>3, <3>4, <3>5 DEF HasSamples
  <2>3. Granted(w)' <=> Granted(w)
    BY <2>1, <2>2 DEF Granted
  <2>4. seen <= seen' /\ pc[w] \notin Early
    BY <1>0, <2>1 DEF Early
  <2>5. QED BY <2>1, <2>3, <2>4, SharpHand
<1>7. ASSUME NEW w \in run.threads, Fill(w) PROVE SharpInv'
  <2>1. /\ UNCHANGED <<run, next, io>> /\ seen' = seen /\ pc[w] = "fill" /\ pc'[w] = "idle"
        /\ \A v \in run.threads : v # w => pc'[v] = pc[v] /\ at'[v] = at[v]
    BY <1>0, <1>7, FillEffect DEF Fill
  <2>2. Rows' = Rows \cup {io[w]} /\ io[w].event = at[w]
    BY <1>0, <1>7, <2>1, FillRows, HandHolds DEF AtHand
  <2>3. /\ (Granted(w) <=> HasSamples(io[w])) /\ ~Granted(w)'
        /\ \A v \in run.threads : v # w => (Granted(v)' <=> Granted(v))
    BY <2>1 DEF Granted
  <2>4. \A f : f \in Got <=> f \in Got'
    BY <2>1, <2>2, <2>3, GotMembers, GotMembersNext
  <2>5. ASSUME NEW f, Waits(f) PROVE Waits(f)'
    <3>1. PICK v \in run.threads : at[v] = f /\ pc[v] \in Early
      BY <2>5 DEF Waits
    <3>2. v # w
      BY <2>1, <3>1 DEF Early
    <3>3. QED BY <2>1, <3>1, <3>2 DEF Waits
  <2>6. next <= next' /\ seen <= seen'
    BY <1>0, <2>1
  <2>7. QED BY <2>1, <2>4, <2>5, <2>6, SharpKeeps
<1>8. ASSUME NEW w \in run.threads, WriteLastRows(w) PROVE SharpInv'
  <2>1. UNCHANGED <<run, next, at, pc, io, m_gem_samples_seen>> /\ Rows' = Rows
    BY <1>0, <1>8, LastRows DEF WriteLastRows
  <2>2. QED BY <2>1, SharpSame
<1>9. CASE Finish
  <2>1. UNCHANGED <<run, next, at, pc, io, m_gem_samples_seen>> /\ Rows' = Rows
    BY <1>9, SameRows DEF Finish
  <2>2. QED BY <2>1, SharpSame
<1>10. CASE UNCHANGED vars
  <2>1. UNCHANGED <<run, next, at, pc, io, m_gem_samples_seen>> /\ Rows' = Rows
    BY <1>10, SameRows DEF vars, fileVars
  <2>2. QED BY <2>1, SharpSame
<1>11. ASSUME NEW w \in run.threads, Step(w) PROVE SharpInv'
  BY <1>1, <1>2, <1>3, <1>4, <1>5, <1>6, <1>7, <1>8, <1>11, SharpGrant DEF Step
<1>12. QED BY <1>9, <1>10, <1>11 DEF Next, Done

(* The limit on the samples is sharp, to one event per thread.             *)
THEOREM LimitIsSharp == Spec => []CutoffIsSharp
<1>1. IndInv /\ (MaxSampled # 0 => SharpInv) => CutoffIsSharp
  <2>1. SUFFICES ASSUME IndInv, MaxSampled # 0, SharpInv
                 PROVE  /\ Cardinality(Sampled) <= MaxSampled
                        /\ \A e \in Sampled :
                             Cardinality({f \in Unsampled : f < e /\ CouldHave(f)}) < Cardinality(run.threads)
    BY DEF CutoffIsSharp
  <2>2. /\ Got \subseteq 1..next - 1 /\ IsFiniteSet(Got) /\ Cardinality(Got) \in Nat
        /\ \A e \in Got : IsFiniteSet(Overtaken(e)) /\ Cardinality(Overtaken(e)) \in Nat
    BY <2>1, GotType DEF IndInv
  <2>3. Sampled \subseteq Got
    BY DEF Got
  <2>4. Cardinality(Sampled) <= Cardinality(Got) /\ Cardinality(Sampled) \in Nat
    BY <2>2, <2>3, FS_Subset, FS_CardinalityType
  <2>5. Cardinality(Got) <= MaxSampled /\ MaxSampled \in Nat
    BY <2>1, FlatTreeWriterAssumption DEF SharpInv
  <2>6. ASSUME NEW e \in Sampled
        PROVE  Cardinality({f \in Unsampled : f < e /\ CouldHave(f)}) < Cardinality(run.threads)
    <3> DEFINE past == {f \in Unsampled : f < e /\ CouldHave(f)}
    <3>1. ASSUME NEW f \in Unsampled PROVE f \notin Got /\ f \in 1..next - 1
      <4>1. PICK row \in Rows : row.event = f
        BY <3>1 DEF Unsampled
      <4>2. f \in EventsOf(merged) \/ \E v \in run.threads : f \in EventsOf(tree[v])
        BY <4>1, RowsMembers DEF Range, EventsOf
      <4>3. \A v \in run.threads : f \notin InHand(v)
        BY <2>1, <4>2 DEF IndInv, OncePlaced
      <4>4. \A v \in run.threads : ~(Granted(v) /\ at[v] = f)
        BY <4>3 DEF InHand, Busy, Granted
      <4>5. f \notin Sampled
        BY <3>1 DEF Unsampled
      <4>6. f \notin Got
        BY <4>4, <4>5 DEF Got
      <4>7. QED BY <2>1, <4>1, <4>6 DEF IndInv, OwnInv
    <3>2. past \subseteq Overtaken(e)
      <4>1. ASSUME NEW f \in past PROVE f \in 1..e - 1
        <5>1. f \in 1..next - 1 /\ f < e /\ e \in 1..next - 1
          BY <2>2, <2>3, <3>1
        <5>2. QED BY <5>1
      <4>2. QED BY <3>1, <4>1 DEF Overtaken
    <3> HIDE DEF past
    <3>3. e \in Got
      BY <2>3
    <3>4. Cardinality(past) <= Cardinality(Overtaken(e)) /\ Cardinality(past) \in Nat
      BY <2>2, <3>2, <3>3, FS_Subset, FS_CardinalityType
    <3>5. Cardinality(Overtaken(e)) < Cardinality(run.threads)
      BY <2>1, <3>3 DEF SharpInv
    <3>6. Cardinality(run.threads) \in Nat
      BY <2>1, InputsAssumption, FS_CardinalityType DEF IndInv, TypeOK
    <3>7. Cardinality(past) < Cardinality(run.threads)
      BY <2>2, <3>3, <3>4, <3>5, <3>6
    <3>8. QED BY <3>7 DEF past
  <2>7. Cardinality(Sampled) <= MaxSampled
    BY <2>2, <2>4, <2>5
  <2>8. QED BY <2>6, <2>7, Zenon
<1>2. Init /\ IndInv => (MaxSampled # 0 => SharpInv)
  BY SharpInit
<1>3. IndInv /\ IndInv' /\ (MaxSampled # 0 => SharpInv) /\ [Next]_vars => (MaxSampled # 0 => SharpInv')
  BY SharpStep
<1>4. (MaxSampled # 0)' <=> MaxSampled # 0
  OBVIOUS
<1>5. QED BY <1>1, <1>2, <1>3, <1>4, WriterInvariant, PTL DEF Spec

-----------------------------------------------------------------------------
(* Going round a ring.                                                     *)
LEMMA ModIs ==
    ASSUME NEW c \in Nat \ {0}, NEW x \in Nat, x < c + c + c
    PROVE  /\ x < c => x % c = x
           /\ c <= x /\ x < c + c => x % c = x - c
           /\ c + c <= x => x % c = x - (c + c)
           /\ x % c \in 0 .. c - 1
<1>1. x < c => x % c = x
  OBVIOUS
<1>2. c <= x /\ x < c + c => x % c = x - c
  OBVIOUS
<1>3. c + c <= x => x % c = x - (c + c)
  OBVIOUS
<1>4. QED BY <1>1, <1>2, <1>3
LEMMA PlaceIs ==
    ASSUME NEW from \in 0 .. Capacity - 1, NEW x \in 0 .. Capacity
    PROVE  /\ Place(from, x) \in 0 .. Capacity - 1
           /\ Place(from, 0) = from
           /\ Place(from, x) = IF from + x < Capacity THEN from + x ELSE from + x - Capacity
<1> DEFINE c == Capacity
<1>1. c \in Nat \ {0} /\ from + x \in Nat /\ from + x < c + c /\ from + 0 = from /\ from < c
  BY CapacityAssumption
<1> DEFINE s == from + x
<1>2. /\ c \in Nat \ {0} /\ s \in Nat /\ s < c + c + c
      /\ from \in Nat /\ from < c + c + c /\ from < c /\ s < c + c /\ (~(s < c) => c <= s)
  BY <1>1
<1> HIDE DEF c, s
<1>3. s % c \in 0 .. c - 1 /\ from % c = from
  BY <1>2, ModIs, Zenon
<1>4. s < c => s % c = s
  BY <1>2, ModIs, Zenon
<1>5. ~(s < c) => s % c = s - c
  BY <1>2, ModIs, Zenon
<1>6. Place(from, x) = s % c /\ Place(from, 0) = from % c
  BY <1>1 DEF Place, c, s
<1>7. s % c = IF s < c THEN s ELSE s - c
  BY <1>4, <1>5
<1>8. Place(from, x) \in 0 .. c - 1 /\ Place(from, 0) = from
  BY <1>3, <1>6, Zenon
<1>9. Place(from, x) = IF s < c THEN s ELSE s - c
  <2> DEFINE p == s % c
  <2> HIDE DEF p
  <2>1. p = (IF s < c THEN s ELSE s - c) /\ Place(from, x) = p
    BY <1>6, <1>7 DEF p
  <2>2. QED BY <2>1
<1>10. QED BY <1>8, <1>9, CapacityAssumption DEF c, s

(* One offset after the other.                                             *)
LEMMA PlacesAdd ==
    ASSUME NEW from \in 0 .. Capacity - 1, NEW x \in 0 .. Capacity, NEW y \in 0 .. Capacity,
           x + y <= Capacity
    PROVE  Place(Place(from, x), y) = Place(from, x + y)
<1> DEFINE p == Place(from, x)
<1>1. /\ p \in 0 .. Capacity - 1
      /\ p = IF from + x < Capacity THEN from + x ELSE from + x - Capacity
  BY PlaceIs
<1>2. x + y \in 0 .. Capacity
  OBVIOUS
<1>3. Place(from, x + y) = IF from + (x + y) < Capacity THEN from + (x + y) ELSE from + (x + y) - Capacity
  BY <1>2, PlaceIs
<1> HIDE DEF p
<1>4. Place(p, y) = IF p + y < Capacity THEN p + y ELSE p + y - Capacity
  BY <1>1, PlaceIs
<1>5. Capacity \in Nat
  BY CapacityAssumption
<1>6. Place(p, y) = Place(from, x + y)
  BY <1>1, <1>3, <1>4, <1>5
<1>7. QED BY <1>6 DEF p

(* How far behind the place of offset u the place of offset x is.          *)
LEMMA PlacesApart ==
    ASSUME NEW from \in 0 .. Capacity - 1, NEW u \in 0 .. Capacity, NEW x \in 0 .. Capacity - 1
    PROVE  (Place(from, x) + Capacity - Place(from, u)) % Capacity
               = IF u <= x THEN x - u ELSE x + Capacity - u
<1> DEFINE c == Capacity
           p == Place(from, x)
           q == Place(from, u)
           d == p + c - q
<1>1. c \in Nat \ {0} /\ x \in 0 .. c /\ from \in Nat /\ from < c
  BY CapacityAssumption
<1>2. /\ p = IF from + x < c THEN from + x ELSE from + x - c
      /\ q = IF from + u < c THEN from + u ELSE from + u - c
      /\ p \in 0 .. c - 1 /\ q \in 0 .. c - 1
  BY <1>1, PlaceIs
<1> HIDE DEF c, p, q
<1>3. d \in Nat /\ d < c + c
  BY <1>1, <1>2
<1>4. u \in 0 .. c /\ x \in 0 .. c - 1
  BY DEF c
<1>5. \/ u <= x /\ d = x - u + c
      \/ u <= x /\ d = x - u
      \/ ~(u <= x) /\ d = x + c - u
      \/ ~(u <= x) /\ d = x + c - u + c
  BY <1>1, <1>2, <1>4
<1>6. ~(u <= x) => x + c - u \in Nat /\ x + c - u < c
  BY <1>1, <1>4
<1>7. u <= x => x - u \in Nat /\ x - u < c
  BY <1>1, <1>4
<1>8. d % c = IF d < c THEN d ELSE d - c
  <2> HIDE DEF d
  <2>1. d < c + c + c /\ (~(d < c) => c <= d)
    BY <1>1, <1>3
  <2>2. d < c => d % c = d
    BY <1>1, <1>3, <2>1, ModIs, Zenon
  <2>3. ~(d < c) => d % c = d - c
    BY <1>1, <1>3, <2>1, ModIs, Zenon
  <2>4. QED BY <2>2, <2>3
<1>9. d % c = IF u <= x THEN x - u ELSE x + c - u
  <2>1. c \in Int /\ u \in Int /\ x \in Int /\ d \in Int
    BY <1>1, <1>3, <1>4
  <2> DEFINE e == d % c
  <2> HIDE DEF d, e
  <2>3. e = IF d < c THEN d ELSE d - c
    BY <1>8 DEF e
  <2>4. e = IF u <= x THEN x - u ELSE x + c - u
    BY <1>3, <1>5, <1>6, <1>7, <2>1, <2>3
  <2>5. QED BY <2>4 DEF e
<1>10. QED BY <1>9 DEF c, p, q, d

-----------------------------------------------------------------------------
(* The offsets at which the records of the ring begin.                     *)
Words == [v : Nat, be : BOOLEAN, of : Nat \X Nat \X Nat]
Buffers == [0 .. Capacity - 1 -> Words]

AreOffsets(o, buffer, from, n) ==
    /\ o \in [0 .. n -> Nat] /\ o[0] = 0
    /\ \A k \in 1 .. n : o[k] = o[k - 1] + 1 + buffer[Place(from, o[k - 1])].v

LEMMA PlaceInRing ==
    ASSUME NEW from \in Nat, NEW x \in Nat
    PROVE  Place(from, x) \in 0 .. Capacity - 1
<1>1. from + x \in Nat /\ Capacity \in Nat \ {0}
  BY CapacityAssumption
<1>2. QED BY <1>1 DEF Place

LEMMA OffsetsAre ==
    ASSUME NEW buffer \in Buffers, NEW from \in Nat, NEW n \in Nat
    PROVE  AreOffsets(Offsets(buffer, from, n), buffer, from, n)
<1> DEFINE step == [x \in (1 .. n) \X Nat |-> x[2] + 1 + buffer[Place(from, x[2])].v]
           Is(f) == f = [k \in 0 .. n |-> IF k = 0 THEN 0
                              ELSE f[k - 1] + 1 + buffer[Place(from, f[k - 1])].v]
           o == CHOOSE f : Is(f)
<1>1. \A x \in Nat : buffer[Place(from, x)].v \in Nat
  BY PlaceInRing DEF Buffers, Words
<1>2. step \in [(1 .. n) \X Nat -> Nat]
  BY <1>1
<1>3. PICK f : FollowsStep(f, Nat, n, 0, step)
  <2> HIDE DEF step
  <2>1. QED BY <1>2, RecursionExists
<1>4. /\ f \in [0 .. n -> Nat] /\ f[0] = 0
      /\ \A k \in 1 .. n : f[k] = step[<<k, f[k - 1]>>]
  BY <1>3 DEF FollowsStep
<1>5. \A k \in 1 .. n : f[k] = f[k - 1] + 1 + buffer[Place(from, f[k - 1])].v
  <2>1. ASSUME NEW k \in 1 .. n PROVE f[k] = f[k - 1] + 1 + buffer[Place(from, f[k - 1])].v
    <3>1. k - 1 \in 0 .. n /\ f[k - 1] \in Nat
      BY <1>4
    <3>2. QED BY <1>4, <3>1
  <2>2. QED BY <2>1
<1>6. Is(f)
  BY <1>4, <1>5
<1>7. Is(o)
  <2> HIDE DEF Is
  <2>1. QED BY <1>6
<1>8. o = Offsets(buffer, from, n)
  BY DEF Offsets
<1> HIDE DEF o
<1>9. o[0] = 0 /\ DOMAIN o = 0 .. n
  BY <1>7
<1>10. \A k \in 1 .. n : o[k] = o[k - 1] + 1 + buffer[Place(from, o[k - 1])].v
  BY <1>7
<1> DEFINE T == {k \in 0 .. n : o[k] \in Nat}
<1>11. 0 \in T
  BY <1>9
<1>12. ASSUME NEW k \in 0 .. n - 1, k \in T PROVE k + 1 \in T
  <2>1. k + 1 \in 1 .. n /\ (k + 1) - 1 = k /\ o[k] \in Nat
    BY <1>12
  <2>2. o[k + 1] = o[k] + 1 + buffer[Place(from, o[k])].v
    BY <1>10, <2>1
  <2>3. QED BY <1>1, <2>1, <2>2
<1> HIDE DEF T
<1>13. 0 .. n \subseteq T
  BY <1>11, <1>12, IntervalByInduction
<1>14. o \in [0 .. n -> Nat]
  <2>1. \A k \in 0 .. n : o[k] \in Nat
    BY <1>13 DEF T
  <2>2. o = [k \in 0 .. n |-> o[k]]
    BY <1>7
  <2>3. QED BY <2>1, <2>2
<1>15. QED BY <1>8, <1>9, <1>10, <1>14 DEF AreOffsets

(* They grow.                                                              *)
LEMMA OffsetsGrow ==
    ASSUME NEW buffer \in Buffers, NEW from \in Nat, NEW n \in Nat, NEW o,
           AreOffsets(o, buffer, from, n)
    PROVE  \A k \in 0 .. n : \A l \in 0 .. k : o[l] + (k - l) <= o[k]
<1> DEFINE T == {k \in 0 .. n : \A l \in 0 .. k : o[l] + (k - l) <= o[k]}
<1>1. o \in [0 .. n -> Nat]
  BY DEF AreOffsets
<1>2. 0 \in T
  BY <1>1
<1>3. ASSUME NEW k \in 0 .. n - 1, k \in T PROVE k + 1 \in T
  <2>1. k + 1 \in 1 .. n /\ (k + 1) - 1 = k /\ o[k] \in Nat /\ o[k + 1] \in Nat
    BY <1>1
  <2>2. o[k + 1] = o[k] + 1 + buffer[Place(from, o[k])].v /\ buffer[Place(from, o[k])].v \in Nat
    BY <2>1, PlaceInRing DEF AreOffsets, Buffers, Words
  <2>3. o[k + 1] >= o[k] + 1
    BY <2>1, <2>2
  <2>4. ASSUME NEW l \in 0 .. k + 1 PROVE o[l] + ((k + 1) - l) <= o[k + 1]
    <3>1. CASE l = k + 1
      BY <2>1, <3>1
    <3>2. CASE l \in 0 .. k
      <4>1. o[l] + (k - l) <= o[k] /\ o[l] \in Nat
        BY <1>1, <1>3, <3>2
      <4>2. QED BY <2>1, <2>3, <3>2, <4>1
    <3>3. QED BY <3>1, <3>2
  <2>5. QED BY <2>1, <2>4
<1> HIDE DEF T
<1>4. 0 .. n \subseteq T
  BY <1>2, <1>3, IntervalByInduction
<1>5. QED BY <1>4 DEF T

(* They are given by the words the lengths are in.                         *)
SameLengths(o, buffer, from, n, p, filled, start, m) ==
    /\ n \in Nat /\ m \in Nat /\ n <= m
    /\ AreOffsets(o, buffer, from, n) /\ AreOffsets(p, filled, start, m)
    /\ \A k \in 0 .. n - 1 : filled[Place(start, o[k])].v = buffer[Place(from, o[k])].v

LEMMA OffsetsAgree ==
    ASSUME NEW o, NEW buffer, NEW from, NEW n, NEW p, NEW filled, NEW start, NEW m,
           SameLengths(o, buffer, from, n, p, filled, start, m)
    PROVE  \A k \in 0 .. n : p[k] = o[k]
<1> DEFINE T == {k \in 0 .. n : p[k] = o[k]}
<1>1. /\ n \in Nat /\ m \in Nat /\ n <= m
      /\ AreOffsets(o, buffer, from, n) /\ AreOffsets(p, filled, start, m)
      /\ \A k \in 0 .. n - 1 : filled[Place(start, o[k])].v = buffer[Place(from, o[k])].v
  BY DEF SameLengths
<1>2. 0 \in T
  BY <1>1 DEF AreOffsets
<1>3. ASSUME NEW k \in 0 .. n - 1, k \in T PROVE k + 1 \in T
  <2>1. k + 1 \in 1 .. n /\ (k + 1) - 1 = k /\ k + 1 \in 1 .. m /\ k + 1 \in 0 .. n
    BY <1>1
  <2>2. o[k + 1] = o[k] + 1 + buffer[Place(from, o[k])].v
    BY <1>1, <2>1 DEF AreOffsets
  <2>3. p[k + 1] = p[k] + 1 + filled[Place(start, p[k])].v
    BY <1>1, <2>1 DEF AreOffsets
  <2>4. p[k] = o[k]
    BY <1>3
  <2>5. p[k + 1] = o[k] + 1 + buffer[Place(from, o[k])].v
    BY <1>1, <2>3, <2>4
  <2>6. QED BY <2>1, <2>2, <2>5
<1> HIDE DEF T
<1>4. 0 .. n \subseteq T
  BY <1>1, <1>2, <1>3, IntervalByInduction
<1>5. QED BY <1>4 DEF T


-----------------------------------------------------------------------------
(* Sequences put one behind the other.                                     *)
Flattens(f, T, ss) ==
    /\ f \in [0 .. Len(ss) -> Seq(T)] /\ f[0] = <<>>
    /\ \A k \in 1 .. Len(ss) : f[k] = f[k - 1] \o ss[k]
    /\ FlattenSeq(ss) = f[Len(ss)]

LEMMA FlattenBy ==
    ASSUME NEW T, NEW ss \in Seq(Seq(T))
    PROVE  \E f : Flattens(f, T, ss)
<1> DEFINE n == Len(ss)
           S == Seq(T)
           step == [x \in (1 .. n) \X S |-> x[2] \o ss[x[1]]]
           Is(f) == f = [i \in 1 .. n |-> IF i = 1 THEN ss[i] ELSE f[i - 1] \o ss[i]]
           flatten == CHOOSE f : Is(f)
<1>1. n \in Nat /\ \A i \in 1 .. n : ss[i] \in S
  OBVIOUS
<1>2. <<>> \in S /\ \A s, t \in S : s \o t \in S
  OBVIOUS
<1>3. \A s \in S : <<>> \o s = s
  OBVIOUS
<1>4. PICK f : FollowsStep(f, S, n, <<>>, step)
  <2>1. step \in [(1 .. n) \X S -> S]
    <3> HIDE DEF n, S
    <3>1. QED BY <1>1, <1>2
  <2> HIDE DEF n, S, step
  <2>2. QED BY <1>1, <1>2, <2>1, RecursionExists
<1>5. f \in [0 .. n -> S] /\ f[0] = <<>> /\ \A k \in 1 .. n : f[k] = f[k - 1] \o ss[k]
  <2> HIDE DEF n, S
  <2>1. f \in [0 .. n -> S] /\ f[0] = <<>> /\ \A k \in 1 .. n : f[k] = step[<<k, f[k - 1]>>]
    BY <1>4 DEF FollowsStep
  <2>2. ASSUME NEW k \in 1 .. n PROVE f[k] = f[k - 1] \o ss[k]
    <3>1. k - 1 \in 0 .. n /\ f[k - 1] \in S
      BY <1>1, <2>1
    <3>2. step[<<k, f[k - 1]>>] = f[k - 1] \o ss[k]
      BY <3>1
    <3>3. QED BY <2>1, <3>2
  <2>3. QED BY <2>1, <2>2
<1>6. FlattenSeq(ss) = f[n]
  <2>1. CASE n = 0
    <3>1. FlattenSeq(ss) = ss /\ ss = <<>>
      BY <2>1 DEF FlattenSeq
    <3>2. QED BY <1>5, <2>1, <3>1
  <2>2. CASE n # 0
    <3> HIDE DEF n, S
    <3> DEFINE g == [i \in 1 .. n |-> f[i]]
    <3>1. Is(g)
      <4>1. ASSUME NEW i \in 1 .. n PROVE f[i] = IF i = 1 THEN ss[i] ELSE f[i - 1] \o ss[i]
        <5>1. i = 1 => f[i - 1] = <<>>
          BY <1>5
        <5>2. i = 1 => f[i] = ss[i]
          BY <1>1, <1>3, <1>5, <5>1
        <5>3. QED BY <1>5, <5>2
      <4>2. ASSUME NEW i \in 1 .. n, i # 1 PROVE i - 1 \in 1 .. n
        BY <1>1, <4>2
      <4>3. QED BY <4>1, <4>2
    <3>2. Is(flatten)
      <4> HIDE DEF Is, g
      <4>1. QED BY <3>1
    <3>3. FlattenSeq(ss) = flatten[n]
      BY <2>2 DEF FlattenSeq, flatten, n
    <3> HIDE DEF flatten
    <3> DEFINE U == {k \in 0 .. n : k # 0 => flatten[k] = f[k]}
    <3>4. 0 \in U
      BY <1>1
    <3>5. ASSUME NEW k \in 0 .. n - 1, k \in U PROVE k + 1 \in U
      <4>1. k + 1 \in 1 .. n /\ k + 1 \in 0 .. n /\ (k + 1) - 1 = k
        BY <1>1
      <4>2. flatten[k + 1] = IF k + 1 = 1 THEN ss[k + 1] ELSE flatten[k] \o ss[k + 1]
        BY <3>2, <4>1
      <4>3. f[k + 1] = IF k + 1 = 1 THEN ss[k + 1] ELSE f[k] \o ss[k + 1]
        <5>1. f[k + 1] = f[k] \o ss[k + 1]
          BY <1>5, <4>1
        <5>2. k = 0 => f[k] \o ss[k + 1] = ss[k + 1]
          BY <1>1, <1>3, <1>5, <4>1
        <5>3. k + 1 = 1 => k = 0
          BY <1>1
        <5>4. k + 1 = 1 => f[k + 1] = ss[k + 1]
          BY <5>1, <5>2, <5>3, Zenon
        <5>5. QED BY <5>1, <5>4, Zenon
      <4>4. k + 1 # 1 => k # 0 /\ flatten[k] = f[k]
        BY <3>5
      <4>5. flatten[k + 1] = f[k + 1]
        BY <4>2, <4>3, <4>4
      <4>6. QED BY <4>1, <4>5
    <3> HIDE DEF U
    <3>6. 0 .. n \subseteq U
      BY <1>1, <3>4, <3>5, IntervalByInduction
    <3>7. QED BY <1>1, <2>2, <3>3, <3>6 DEF U
  <2>3. QED BY <2>1, <2>2
<1>7. Flattens(f, T, ss)
  BY <1>5, <1>6 DEF Flattens
<1>8. QED BY <1>7

LEMMA ConcatAssociates ==
    ASSUME NEW T, NEW s \in Seq(T), NEW t \in Seq(T), NEW u \in Seq(T)
    PROVE  s \o (t \o u) = (s \o t) \o u
OBVIOUS

LEMMA FlattenTyped ==
    ASSUME NEW T, NEW ss \in Seq(Seq(T))
    PROVE  FlattenSeq(ss) \in Seq(T)
<1>1. PICK f : Flattens(f, T, ss)
  BY FlattenBy
<1>2. Len(ss) \in Nat /\ Len(ss) \in 0 .. Len(ss)
  OBVIOUS
<1>3. QED BY <1>1, <1>2 DEF Flattens

(* One more behind them.                                                   *)
LEMMA FlattenAppend ==
    ASSUME NEW T, NEW ss \in Seq(Seq(T)), NEW s \in Seq(T)
    PROVE  FlattenSeq(Append(ss, s)) = FlattenSeq(ss) \o s
<1> DEFINE tt == Append(ss, s)
           n == Len(ss)
<1>1. /\ tt \in Seq(Seq(T)) /\ Len(tt) = n + 1 /\ n \in Nat /\ tt[n + 1] = s
      /\ \A k \in 1 .. n : tt[k] = ss[k]
  OBVIOUS
<1> HIDE DEF tt, n
<1>2. PICK f : Flattens(f, T, ss)
  BY FlattenBy
<1>3. PICK g : Flattens(g, T, tt)
  BY <1>1, FlattenBy
<1>4. /\ f[0] = <<>> /\ \A k \in 1 .. n : f[k] = f[k - 1] \o ss[k]
      /\ FlattenSeq(ss) = f[n]
  BY <1>2 DEF Flattens, n
<1>5. /\ g[0] = <<>> /\ \A k \in 1 .. n + 1 : g[k] = g[k - 1] \o tt[k]
      /\ FlattenSeq(tt) = g[n + 1]
  BY <1>1, <1>3 DEF Flattens
<1> DEFINE U == {k \in 0 .. n : g[k] = f[k]}
<1>6. 0 \in U
  BY <1>1, <1>4, <1>5
<1>7. ASSUME NEW k \in 0 .. n - 1, k \in U PROVE k + 1 \in U
  <2>1. k + 1 \in 1 .. n /\ k + 1 \in 1 .. n + 1 /\ (k + 1) - 1 = k /\ k + 1 \in 0 .. n
    BY <1>1
  <2>2. g[k + 1] = g[k] \o tt[k + 1] /\ f[k + 1] = f[k] \o ss[k + 1]
    BY <1>4, <1>5, <2>1
  <2>3. g[k] = f[k] /\ tt[k + 1] = ss[k + 1]
    BY <1>1, <1>7, <2>1
  <2>4. QED BY <2>1, <2>2, <2>3
<1> HIDE DEF U
<1>8. 0 .. n \subseteq U
  BY <1>1, <1>6, <1>7, IntervalByInduction
<1>9. g[n] = f[n]
  BY <1>1, <1>8 DEF U
<1>10. g[n + 1] = g[n] \o tt[n + 1]
  <2>1. n + 1 \in 1 .. n + 1 /\ (n + 1) - 1 = n
    BY <1>1
  <2>2. QED BY <1>5, <2>1
<1>11. QED BY <1>1, <1>4, <1>5, <1>9, <1>10 DEF tt

(* The first of them.                                                      *)
LEMMA FlattenTail ==
    ASSUME NEW T, NEW ss \in Seq(Seq(T)), ss # <<>>
    PROVE  FlattenSeq(ss) = ss[1] \o FlattenSeq(Tail(ss))
<1> DEFINE tt == Tail(ss)
           n == Len(tt)
<1>1. /\ tt \in Seq(Seq(T)) /\ Len(ss) = n + 1 /\ n \in Nat
      /\ \A k \in 1 .. n : tt[k] = ss[k + 1] /\ tt[k] \in Seq(T)
      /\ ss[1] \in Seq(T)
  OBVIOUS
<1> HIDE DEF tt, n
<1>2. PICK f : Flattens(f, T, tt)
  BY <1>1, FlattenBy
<1>3. PICK g : Flattens(g, T, ss)
  BY FlattenBy
<1>4. /\ f \in [0 .. n -> Seq(T)] /\ f[0] = <<>> /\ \A k \in 1 .. n : f[k] = f[k - 1] \o tt[k]
      /\ FlattenSeq(tt) = f[n]
  BY <1>2 DEF Flattens, n
<1>5. /\ g[0] = <<>> /\ \A k \in 1 .. n + 1 : g[k] = g[k - 1] \o ss[k]
      /\ FlattenSeq(ss) = g[n + 1]
  BY <1>1, <1>3 DEF Flattens
<1> DEFINE U == {k \in 0 .. n : g[k + 1] = ss[1] \o f[k]}
<1>6. 0 \in U
  <2>1. g[1] = <<>> \o ss[1]
    <3>1. 1 \in 1 .. n + 1 /\ 1 - 1 = 0
      BY <1>1
    <3>2. QED BY <1>5, <3>1
  <2>2. <<>> \o ss[1] = ss[1] \o <<>>
    BY <1>1
  <2>3. g[1] = ss[1] \o f[0]
    BY <1>4, <2>1, <2>2, Zenon
  <2>4. 0 + 1 = 1 /\ 0 \in 0 .. n
    BY <1>1
  <2>5. g[0 + 1] = ss[1] \o f[0]
    BY <2>3, <2>4, Zenon
  <2>6. QED BY <2>4, <2>5, Zenon DEF U
<1>7. ASSUME NEW k \in 0 .. n - 1, k \in U PROVE k + 1 \in U
  <2>1. /\ k + 1 \in 1 .. n /\ (k + 1) + 1 \in 1 .. n + 1 /\ (k + 1) - 1 = k
        /\ ((k + 1) + 1) - 1 = k + 1 /\ k + 1 \in 0 .. n /\ k \in 0 .. n
    BY <1>1
  <2>2. g[(k + 1) + 1] = g[k + 1] \o ss[(k + 1) + 1]
    BY <1>5, <2>1
  <2>3. f[k + 1] = f[k] \o tt[k + 1] /\ f[k] \in Seq(T)
    BY <1>4, <2>1
  <2>4. tt[k + 1] = ss[(k + 1) + 1] /\ tt[k + 1] \in Seq(T)
    BY <1>1, <2>1
  <2>5. g[k + 1] = ss[1] \o f[k]
    BY <1>7
  <2>6. ss[1] \o (f[k] \o tt[k + 1]) = (ss[1] \o f[k]) \o tt[k + 1]
    <3>1. ss[1] \in Seq(T) /\ f[k] \in Seq(T) /\ tt[k + 1] \in Seq(T)
      BY <1>1, <2>3, <2>4
    <3> DEFINE x == ss[1]
               y == f[k]
               z == tt[k + 1]
    <3> HIDE DEF x, y, z
    <3>2. x \in Seq(T) /\ y \in Seq(T) /\ z \in Seq(T)
      BY <3>1 DEF x, y, z
    <3>3. x \o (y \o z) = (x \o y) \o z
      BY ONLY <3>2
    <3>4. QED BY <3>3 DEF x, y, z
  <2>7. g[(k + 1) + 1] = ss[1] \o f[k + 1]
    BY <2>2, <2>3, <2>4, <2>5, <2>6, Zenon
  <2>8. QED BY <2>1, <2>7
<1> HIDE DEF U
<1>8. 0 .. n \subseteq U
  BY <1>1, <1>6, <1>7, IntervalByInduction
<1>9. g[n + 1] = ss[1] \o f[n]
  <2>1. n \in U
    BY <1>1, <1>8
  <2>2. QED BY <2>1, Zenon DEF U
<1>10. QED BY <1>4, <1>5, <1>9 DEF tt

-----------------------------------------------------------------------------
(* The records between two places of a ring.                               *)
RingHolds(buffer, from, to, used, n) ==
    /\ buffer \in Buffers /\ from \in 0 .. Capacity - 1 /\ used \in 0 .. Capacity /\ n \in Nat
    /\ Offsets(buffer, from, n)[n] = used
    /\ to = Place(from, used)

(* A record, by the offset it begins at.                                   *)
IsRecord(r, buffer, from, spot) ==
    /\ r \in Seq(Words) /\ Len(r) = buffer[Place(from, spot)].v
    /\ \A l \in 1 .. Len(r) : r[l] = buffer[Place(from, spot + l)]

LEMMA RecordsAre ==
    ASSUME NEW buffer \in Buffers, NEW from \in Nat, NEW n \in Nat, NEW o,
           o = Offsets(buffer, from, n)
    PROVE  /\ RecordsIn(buffer, from, n) \in Seq(Seq(Words))
           /\ Len(RecordsIn(buffer, from, n)) = n
           /\ \A k \in 1 .. n : IsRecord(RecordsIn(buffer, from, n)[k], buffer, from, o[k - 1])
<1> DEFINE rs == RecordsIn(buffer, from, n)
           r(k) == [l \in 1 .. o[k] - o[k - 1] - 1 |-> buffer[Place(from, o[k - 1] + l)]]
<1>1. AreOffsets(o, buffer, from, n)
  BY OffsetsAre
<1>2. rs = [k \in 1 .. n |-> r(k)]
  BY DEF RecordsIn
<1>3. ASSUME NEW k \in 1 .. n
      PROVE  r(k) \in Seq(Words) /\ IsRecord(r(k), buffer, from, o[k - 1])
  <2> DEFINE a == o[k - 1]
             v == buffer[Place(from, a)].v
  <2>1. a \in Nat /\ o[k] = a + 1 + v
    BY <1>1 DEF AreOffsets
  <2>2. v \in Nat
    BY <2>1, PlaceInRing DEF Buffers, Words
  <2> HIDE DEF a, v
  <2>3. o[k] - a - 1 = v
    BY <2>1, <2>2
  <2>4. r(k) = [l \in 1 .. v |-> buffer[Place(from, a + l)]]
    BY <2>3 DEF a
  <2>5. \A l \in 1 .. v : buffer[Place(from, a + l)] \in Words
    <3>1. \A l \in 1 .. v : a + l \in Nat
      BY <2>1
    <3>2. \A l \in 1 .. v : Place(from, a + l) \in 0 .. Capacity - 1
      BY <3>1, PlaceInRing
    <3>3. QED BY <3>2 DEF Buffers
  <2> HIDE DEF r
  <2>6. r(k) \in Seq(Words) /\ Len(r(k)) = v /\ \A l \in 1 .. v : r(k)[l] = buffer[Place(from, a + l)]
    BY <2>2, <2>4, <2>5
  <2>7. IsRecord(r(k), buffer, from, a)
    BY <2>6 DEF IsRecord, v
  <2>8. QED BY <2>6, <2>7 DEF a
<1> HIDE DEF r
<1>4. rs \in Seq(Seq(Words)) /\ Len(rs) = n /\ \A k \in 1 .. n : rs[k] = r(k)
  <2> HIDE DEF rs
  <2>1. QED BY <1>2, <1>3
<1>5. \A k \in 1 .. n : IsRecord(rs[k], buffer, from, o[k - 1])
  BY <1>3, <1>4
<1>6. QED BY <1>4, <1>5 DEF rs

(* Two records are one if they are one in the buffer.                      *)
LEMMA RecordsAlike ==
    ASSUME NEW r, NEW s, NEW buffer, NEW from, NEW spot, NEW filled, NEW start, NEW there,
           IsRecord(r, buffer, from, spot), IsRecord(s, filled, start, there),
           buffer[Place(from, spot)].v = filled[Place(start, there)].v,
           \A l \in 1 .. buffer[Place(from, spot)].v :
               buffer[Place(from, spot + l)] = filled[Place(start, there + l)]
    PROVE  r = s
<1>1. r \in Seq(Words) /\ s \in Seq(Words) /\ Len(r) = Len(s)
  BY DEF IsRecord
<1>2. ASSUME NEW l \in 1 .. Len(r) PROVE r[l] = s[l]
  <2>1. r[l] = buffer[Place(from, spot + l)] /\ buffer[Place(from, spot + l)] = filled[Place(start, there + l)]
    BY DEF IsRecord
  <2>2. s[l] = filled[Place(start, there + l)]
    BY <1>1 DEF IsRecord
  <2>3. QED BY <2>1, <2>2, Zenon
<1>3. QED BY <1>1, <1>2

LEMMA SequencesAlike ==
    ASSUME NEW T, NEW s \in Seq(T), NEW t \in Seq(T), Len(s) = Len(t),
           \A k \in 1 .. Len(s) : s[k] = t[k]
    PROVE  s = t
OBVIOUS

(* What CopyIn writes from place to on.                                    *)
Written(buffer, to, words) ==
    [p \in DOMAIN buffer |->
        LET k == (p + Capacity - to) % Capacity
        IN  IF k < Len(words) THEN words[k + 1] ELSE buffer[p]]

IsWritten(filled, buffer, from, used, words) ==
    /\ buffer \in Buffers /\ from \in 0 .. Capacity - 1 /\ used \in 0 .. Capacity
    /\ words \in Seq(Words) /\ used + Len(words) <= Capacity
    /\ filled = Written(buffer, Place(from, used), words)

LEMMA WrittenAt ==
    ASSUME NEW filled, NEW buffer, NEW from, NEW used, NEW words,
           IsWritten(filled, buffer, from, used, words)
    PROVE  /\ filled \in Buffers
           /\ \A x \in 0 .. used - 1 : filled[Place(from, x)] = buffer[Place(from, x)]
           /\ \A l \in 1 .. Len(words) : filled[Place(from, used + (l - 1))] = words[l]
<1> DEFINE to == Place(from, used)
           k(p) == (p + Capacity - to) % Capacity
<1>0. /\ buffer \in Buffers /\ from \in 0 .. Capacity - 1 /\ used \in 0 .. Capacity
      /\ words \in Seq(Words) /\ used + Len(words) <= Capacity
      /\ filled = Written(buffer, Place(from, used), words)
  BY DEF IsWritten
<1> USE <1>0
<1>1. Capacity \in Nat \ {0} /\ Len(words) \in Nat
  BY CapacityAssumption
<1>2. /\ DOMAIN buffer = 0 .. Capacity - 1
      /\ \A p \in 0 .. Capacity - 1 : buffer[p] \in Words
  BY DEF Buffers
<1>3. \A p \in 0 .. Capacity - 1 : filled[p] = IF k(p) < Len(words) THEN words[k(p) + 1] ELSE buffer[p]
  BY <1>2 DEF Written
<1>4. to \in 0 .. Capacity - 1
  BY PlaceIs
<1>5. \A p \in 0 .. Capacity - 1 : k(p) \in Nat
  <2> HIDE DEF to
  <2>1. \A p \in 0 .. Capacity - 1 : p + Capacity - to \in Nat
    BY <1>1, <1>4
  <2>2. QED BY <1>1, <2>1
<1>6. ASSUME NEW x \in 0 .. Capacity - 1
      PROVE  k(Place(from, x)) = IF used <= x THEN x - used ELSE x + Capacity - used
  BY PlacesApart
<1>7. \A x \in 0 .. Capacity - 1 : Place(from, x) \in 0 .. Capacity - 1
  BY PlaceInRing
<1> HIDE DEF k
<1>8. filled \in Buffers
  <2>1. \A p \in 0 .. Capacity - 1 : filled[p] \in Words
    <3>1. SUFFICES ASSUME NEW p \in 0 .. Capacity - 1 PROVE filled[p] \in Words
      OBVIOUS
    <3>2. CASE k(p) < Len(words)
      <4>1. k(p) + 1 \in 1 .. Len(words)
        BY <1>1, <1>5, <3>2
      <4>2. filled[p] = words[k(p) + 1]
        BY <1>3, <3>2
      <4>3. QED BY <4>1, <4>2
    <3>3. CASE ~(k(p) < Len(words))
      BY <1>2, <1>3, <3>3
    <3>4. QED BY <3>2, <3>3
  <2>2. filled = [p \in 0 .. Capacity - 1 |-> filled[p]]
    BY <1>2 DEF Written
  <2>3. QED BY <2>1, <2>2 DEF Buffers
<1>9. ASSUME NEW x \in 0 .. used - 1 PROVE filled[Place(from, x)] = buffer[Place(from, x)]
  <2>1. x \in 0 .. Capacity - 1 /\ ~(used <= x)
    BY <1>1
  <2>2. k(Place(from, x)) = x + Capacity - used
    BY <1>6, <2>1
  <2>3. ~(k(Place(from, x)) < Len(words))
    BY <1>1, <2>1, <2>2
  <2>4. QED BY <1>3, <1>7, <2>1, <2>3
<1>10. ASSUME NEW l \in 1 .. Len(words) PROVE filled[Place(from, used + (l - 1))] = words[l]
  <2> DEFINE x == used + (l - 1)
  <2>1. x \in 0 .. Capacity - 1 /\ used <= x /\ x - used = l - 1
    BY <1>1
  <2> HIDE DEF x
  <2>2. k(Place(from, x)) = l - 1
    BY <1>6, <2>1
  <2>3. k(Place(from, x)) < Len(words) /\ k(Place(from, x)) + 1 = l
    BY <1>1, <2>2
  <2>4. filled[Place(from, x)] = words[l]
    BY <1>3, <1>7, <2>1, <2>3, Zenon
  <2>5. QED BY <2>4 DEF x
<1>11. QED BY <1>8, <1>9, <1>10

LEMMA LengthsAre ==
    ASSUME NEW buffer \in Buffers, NEW from \in Nat, NEW x \in Nat
    PROVE  buffer[Place(from, x)].v \in Nat
BY PlaceInRing DEF Buffers, Words

LEMMA FunctionsAreSequences ==
    ASSUME NEW T, NEW n \in Nat, NEW f \in [1 .. n -> T]
    PROVE  f \in Seq(T) /\ Len(f) = n
OBVIOUS

-----------------------------------------------------------------------------
(* What is pushed is the last record of the ring, and the others stay.     *)
LEMMA PushKeeps ==
    ASSUME NEW buffer, NEW from, NEW to, NEW used, NEW n, RingHolds(buffer, from, to, used, n),
           NEW rec \in Seq(Words), Needed(rec) <= Capacity - used,
           NEW filled, filled = Written(buffer, to, <<LengthWord(Len(rec))>> \o rec)
    PROVE  /\ RingHolds(filled, from, (to + Needed(rec)) % Capacity, used + Needed(rec), n + 1)
           /\ RecordsIn(filled, from, n + 1) = Append(RecordsIn(buffer, from, n), rec)
<1> DEFINE words == <<LengthWord(Len(rec))>> \o rec
           o == Offsets(buffer, from, n)
           p == Offsets(filled, from, n + 1)
           rs == RecordsIn(buffer, from, n)
           more == RecordsIn(filled, from, n + 1)
<1>1. /\ buffer \in Buffers /\ from \in 0 .. Capacity - 1 /\ used \in 0 .. Capacity /\ n \in Nat
      /\ o[n] = used /\ to = Place(from, used)
  BY DEF RingHolds
<1>2. Capacity \in Nat \ {0} /\ Len(rec) \in Nat /\ from \in Nat /\ n + 1 \in Nat
  BY <1>1, CapacityAssumption
<1>3. /\ words \in Seq(Words) /\ Len(words) = 1 + Len(rec)
      /\ words[1] = LengthWord(Len(rec))
      /\ \A l \in 1 .. Len(rec) : words[l + 1] = rec[l]
  <2> DEFINE w == LengthWord(Len(rec))
  <2>1. w \in Words
    BY <1>2 DEF LengthWord, Words
  <2> HIDE DEF w
  <2>2. /\ (<<w>> \o rec) \in Seq(Words) /\ Len(<<w>> \o rec) = 1 + Len(rec)
        /\ (<<w>> \o rec)[1] = w
        /\ \A l \in 1 .. Len(rec) : (<<w>> \o rec)[l + 1] = rec[l]
    BY <2>1
  <2>3. QED BY <2>2 DEF w
<1> HIDE DEF words
<1>4. used + Len(words) <= Capacity /\ used + 1 + Len(rec) <= Capacity
  BY <1>1, <1>2, <1>3 DEF Needed
<1>5. filled = Written(buffer, Place(from, used), words)
  BY <1>1 DEF words
<1>6. /\ filled \in Buffers
      /\ \A x \in 0 .. used - 1 : filled[Place(from, x)] = buffer[Place(from, x)]
      /\ \A l \in 1 .. Len(words) : filled[Place(from, used + (l - 1))] = words[l]
  <2>1. IsWritten(filled, buffer, from, used, words)
    BY <1>1, <1>3, <1>4, <1>5 DEF IsWritten
  <2>2. QED BY <2>1, WrittenAt
<1>7. filled[Place(from, used)].v = Len(rec)
  <2>1. 1 \in 1 .. Len(words) /\ used + (1 - 1) = used
    BY <1>1, <1>2, <1>3
  <2>2. filled[Place(from, used)] = words[1]
    BY <1>6, <2>1
  <2>3. QED BY <1>3, <2>2 DEF LengthWord
<1>8. \A l \in 1 .. Len(rec) : filled[Place(from, used + l)] = rec[l]
  <2>1. ASSUME NEW l \in 1 .. Len(rec) PROVE filled[Place(from, used + l)] = rec[l]
    <3>1. l + 1 \in 1 .. Len(words) /\ used + ((l + 1) - 1) = used + l
      BY <1>1, <1>2, <1>3
    <3>2. filled[Place(from, used + l)] = words[l + 1]
      BY <1>6, <3>1
    <3>3. QED BY <1>3, <3>2
  <2>2. QED BY <2>1
<1> HIDE DEF o, p, rs, more
<1>9. AreOffsets(o, buffer, from, n) /\ AreOffsets(p, filled, from, n + 1)
  BY <1>1, <1>2, <1>6, OffsetsAre DEF o, p
<1>10. o \in [0 .. n -> Nat] /\ p \in [0 .. n + 1 -> Nat]
  BY <1>9 DEF AreOffsets
<1>11. \A k \in 0 .. n : \A l \in 0 .. k : o[l] + (k - l) <= o[k]
  BY <1>1, <1>2, <1>9, OffsetsGrow
<1>12. \A k \in 0 .. n - 1 : o[k] \in 0 .. used - 1 /\ o[k + 1] <= used
  <2>1. ASSUME NEW k \in 0 .. n - 1 PROVE o[k] \in 0 .. used - 1 /\ o[k + 1] <= used
    <3>1. o[k] + (n - k) <= used /\ o[k + 1] + (n - (k + 1)) <= used
      BY <1>1, <1>11
    <3>2. o[k] \in Nat /\ o[k + 1] \in Nat
      BY <1>1, <1>10
    <3>3. QED BY <1>1, <3>1, <3>2
  <2>2. QED BY <2>1
<1>13. \A k \in 0 .. n - 1 : filled[Place(from, o[k])].v = buffer[Place(from, o[k])].v
  BY <1>6, <1>12
<1>14. \A k \in 0 .. n : p[k] = o[k]
  <2>1. SameLengths(o, buffer, from, n, p, filled, from, n + 1)
    <3>1. n <= n + 1
      BY <1>1
    <3>2. QED BY <1>1, <1>2, <1>9, <1>13, <3>1 DEF SameLengths
  <2>2. QED BY <2>1, OffsetsAgree
<1>15. p[n + 1] = used + Needed(rec)
  <2>1. p[n + 1] = p[(n + 1) - 1] + 1 + filled[Place(from, p[(n + 1) - 1])].v
    <3>1. n + 1 \in 1 .. n + 1
      BY <1>1
    <3>2. QED BY <1>9, <3>1 DEF AreOffsets
  <2>2. (n + 1) - 1 = n /\ p[n] = used
    BY <1>1, <1>14
  <2>3. p[n + 1] = used + 1 + Len(rec)
    BY <1>7, <2>1, <2>2
  <2>4. QED BY <1>1, <1>2, <2>3 DEF Needed
<1>16. (to + Needed(rec)) % Capacity = Place(from, used + Needed(rec)) /\ used + Needed(rec) \in 0 .. Capacity
  <2>1. Needed(rec) \in 0 .. Capacity /\ used + Needed(rec) <= Capacity /\ used + Needed(rec) \in 0 .. Capacity
    BY <1>1, <1>2 DEF Needed
  <2>2. Place(to, Needed(rec)) = Place(from, used + Needed(rec))
    BY <1>1, <2>1, PlacesAdd
  <2>3. QED BY <2>1, <2>2 DEF Place
<1>17. RingHolds(filled, from, (to + Needed(rec)) % Capacity, used + Needed(rec), n + 1)
  BY <1>1, <1>2, <1>6, <1>15, <1>16 DEF RingHolds, p
<1>18. /\ rs \in Seq(Seq(Words)) /\ Len(rs) = n
       /\ \A k \in 1 .. n : IsRecord(rs[k], buffer, from, o[k - 1])
  BY <1>1, <1>2, RecordsAre DEF rs, o
<1>19. /\ more \in Seq(Seq(Words)) /\ Len(more) = n + 1
       /\ \A k \in 1 .. n + 1 : IsRecord(more[k], filled, from, p[k - 1])
  <2>1. filled \in Buffers /\ from \in Nat /\ n + 1 \in Nat
    BY <1>2, <1>6
  <2>2. QED BY <2>1, RecordsAre, Zenon DEF more, p
<1>20. ASSUME NEW k \in 1 .. n PROVE more[k] = rs[k]
  <2> DEFINE a == o[k - 1]
  <2>1. /\ k - 1 \in 0 .. n - 1 /\ k - 1 \in 0 .. n /\ (k - 1) + 1 = k /\ k \in 1 .. n + 1
        /\ a \in 0 .. used - 1 /\ o[k] <= used /\ p[k - 1] = a
    BY <1>1, <1>12, <1>14
  <2>2. IsRecord(rs[k], buffer, from, a) /\ IsRecord(more[k], filled, from, a)
    BY <1>18, <1>19, <2>1
  <2>3. o[k] = a + 1 + buffer[Place(from, a)].v
    BY <1>9 DEF AreOffsets
  <2>4. buffer[Place(from, a)].v \in Nat /\ buffer[Place(from, a)].v = filled[Place(from, a)].v
    <3>1. a \in Nat /\ Place(from, a) = Place(from, o[k - 1])
      BY <2>1
    <3>2. filled[Place(from, a)].v = buffer[Place(from, a)].v
      BY <1>13, <2>1
    <3>3. QED BY <1>1, <1>2, <3>1, <3>2, LengthsAre
  <2> HIDE DEF a
  <2>5. \A l \in 1 .. buffer[Place(from, a)].v : a + l \in 0 .. used - 1
    <3> DEFINE v == buffer[Place(from, a)].v
    <3>1. v \in Nat /\ o[k] = a + 1 + v
      BY <2>3, <2>4
    <3> HIDE DEF v
    <3>2. a + v < used
      BY <1>1, <2>1, <3>1
    <3>3. \A l \in 1 .. v : a + l \in 0 .. used - 1
      BY <1>1, <2>1, <3>1, <3>2
    <3>4. QED BY <3>3 DEF v
  <2>6. \A l \in 1 .. buffer[Place(from, a)].v : filled[Place(from, a + l)] = buffer[Place(from, a + l)]
    BY <1>6, <2>5
  <2>7. QED BY <2>2, <2>4, <2>6, RecordsAlike
<1>21. more[n + 1] = rec
  <2>1. IsRecord(more[n + 1], filled, from, used)
    <3>1. n + 1 \in 1 .. n + 1 /\ (n + 1) - 1 = n /\ p[n] = used
      BY <1>1, <1>14
    <3>2. QED BY <1>19, <3>1
  <2>2. IsRecord(rec, filled, from, used)
    BY <1>7, <1>8 DEF IsRecord
  <2>3. QED BY <2>1, <2>2, RecordsAlike
<1>22. more = Append(rs, rec)
  <2>1. Append(rs, rec) \in Seq(Seq(Words)) /\ Len(Append(rs, rec)) = n + 1
    BY <1>18
  <2>2. \A k \in 1 .. n + 1 : more[k] = Append(rs, rec)[k]
    BY <1>1, <1>18, <1>20, <1>21
  <2>3. QED BY <1>19, <2>1, <2>2, SequencesAlike
<1>23. QED BY <1>17, <1>22 DEF rs, more

IsOldest(first, buffer, from) ==
    first = [k \in 1 .. buffer[from].v |-> buffer[(((from + 1) % Capacity) + k - 1) % Capacity]]

(* What is popped is the first record of the ring, and the others stay.    *)
LEMMA PopKeeps ==
    ASSUME NEW buffer, NEW from, NEW to, NEW used, NEW n, RingHolds(buffer, from, to, used, n), n > 0,
           NEW first, IsOldest(first, buffer, from)
    PROVE  /\ first \in Seq(Words)
           /\ RingHolds(buffer, (from + Needed(first)) % Capacity, to, used - Needed(first), n - 1)
           /\ RecordsIn(buffer, from, n)
                  = <<first>> \o RecordsIn(buffer, (from + Needed(first)) % Capacity, n - 1)
<1> DEFINE o == Offsets(buffer, from, n)
           v == buffer[from].v
           base == 1 + v
           start == Place(from, base)
           q == Offsets(buffer, start, n - 1)
           rs == RecordsIn(buffer, from, n)
           less == RecordsIn(buffer, start, n - 1)
<1>1. /\ buffer \in Buffers /\ from \in 0 .. Capacity - 1 /\ used \in 0 .. Capacity /\ n \in Nat
      /\ o[n] = used /\ to = Place(from, used)
  BY DEF RingHolds
<1>2. Capacity \in Nat \ {0} /\ from \in Nat /\ n - 1 \in Nat /\ n \in 1 .. n
  BY <1>1, CapacityAssumption
<1>3. v \in Nat
  BY <1>1 DEF Buffers, Words
<1> HIDE DEF o, v, q, rs, less
<1>4. AreOffsets(o, buffer, from, n) /\ o \in [0 .. n -> Nat] /\ o[0] = 0
  BY <1>1, <1>2, OffsetsAre DEF o, AreOffsets
<1>5. \A k \in 0 .. n : \A l \in 0 .. k : o[l] + (k - l) <= o[k]
  BY <1>1, <1>2, <1>4, OffsetsGrow
<1>6. Place(from, 0) = from
  BY <1>1, <1>2, PlaceIs
<1>7. o[1] = base
  <2>1. o[1] = o[1 - 1] + 1 + buffer[Place(from, o[1 - 1])].v
    BY <1>2, <1>4 DEF AreOffsets
  <2>2. o[1] = 0 + 1 + v
    BY <1>4, <1>6, <2>1 DEF v
  <2>3. QED BY <1>3, <2>2
<1>8. \A k \in 1 .. n : base <= o[k] /\ o[k] <= used /\ o[k] \in 0 .. Capacity /\ o[k] - base \in 0 .. Capacity
  <2>1. ASSUME NEW k \in 1 .. n
        PROVE  base <= o[k] /\ o[k] <= used /\ o[k] \in 0 .. Capacity /\ o[k] - base \in 0 .. Capacity
    <3>1. k \in 0 .. n /\ n \in 0 .. n /\ 1 \in 0 .. k /\ k \in 0 .. n
      BY <1>1
    <3>2. o[1] + (k - 1) <= o[k] /\ o[k] + (n - k) <= o[n] /\ o[k] \in Nat
      BY <1>4, <1>5, <3>1
    <3>3. base \in Nat /\ o[1] = base /\ o[k] <= Capacity /\ o[k] <= used
      <4>1. o[k] <= used
        BY <1>1, <3>2
      <4>2. base \in Nat
        BY <1>3
      <4>3. QED BY <1>1, <1>2, <1>7, <3>2, <4>1, <4>2
    <3>4. base <= o[k]
      <4> HIDE DEF base
      <4>1. QED BY <1>1, <3>2, <3>3
    <3> HIDE DEF base
    <3>5. QED BY <1>2, <3>2, <3>3, <3>4
  <2>2. QED BY <2>1
<1>9. base \in 0 .. Capacity /\ base <= used
  BY <1>1, <1>2, <1>3, <1>8
<1>10. start \in 0 .. Capacity - 1 /\ start \in Nat
  BY <1>1, <1>9, PlaceIs
<1>11. \A x \in 0 .. Capacity : base + x <= Capacity => Place(start, x) = Place(from, base + x)
  BY <1>1, <1>9, PlacesAdd
<1>12. \A k \in 1 .. n : Place(start, o[k] - base) = Place(from, o[k])
  <2>1. ASSUME NEW k \in 1 .. n PROVE Place(start, o[k] - base) = Place(from, o[k])
    <3>1. base + (o[k] - base) = o[k] /\ o[k] <= Capacity
      BY <1>1, <1>3, <1>8
    <3>2. QED BY <1>8, <1>11, <3>1
  <2>2. QED BY <2>1
<1> HIDE DEF start, base
<1> DEFINE rest == [k \in 0 .. n - 1 |-> o[k + 1] - base]
<1>13. AreOffsets(rest, buffer, start, n - 1)
  <2>1. \A k \in 0 .. n - 1 : k + 1 \in 1 .. n /\ rest[k] = o[k + 1] - base
    BY <1>1
  <2>2. rest \in [0 .. n - 1 -> Nat]
    <3>1. \A k \in 0 .. n - 1 : o[k + 1] - base \in Nat
      BY <1>8, <2>1
    <3>2. QED BY <3>1
  <2>3. rest[0] = 0
    BY <1>2, <1>7, <1>9, <2>1
  <2> HIDE DEF rest
  <2>4. ASSUME NEW k \in 1 .. n - 1
        PROVE  rest[k] = rest[k - 1] + 1 + buffer[Place(start, rest[k - 1])].v
    <3>1. /\ k - 1 \in 0 .. n - 1 /\ k \in 0 .. n - 1 /\ (k - 1) + 1 = k /\ k \in 1 .. n
          /\ k + 1 \in 1 .. n /\ (k + 1) - 1 = k
      BY <1>1
    <3>2. rest[k - 1] = o[k] - base /\ rest[k] = o[k + 1] - base
      BY <2>1, <3>1
    <3>3. o[k + 1] = o[k] + 1 + buffer[Place(from, o[k])].v
      BY <1>4, <3>1 DEF AreOffsets
    <3>4. buffer[Place(start, rest[k - 1])] = buffer[Place(from, o[k])]
      BY <1>12, <3>1, <3>2
    <3> DEFINE u == buffer[Place(from, o[k])].v
    <3>5. u \in Nat
      <4>1. o[k] \in Nat
        BY <1>8, <3>1
      <4>2. QED BY <1>1, <1>2, <4>1, LengthsAre
    <3>6. o[k + 1] = o[k] + 1 + u /\ buffer[Place(start, rest[k - 1])].v = u
      BY <3>3, <3>4
    <3> HIDE DEF u
    <3>7. o[k] \in Nat /\ base \in Nat
      BY <1>8, <1>9, <3>1
    <3>8. rest[k] = rest[k - 1] + 1 + u
      BY <3>2, <3>5, <3>6, <3>7
    <3>9. QED BY <3>6, <3>8
  <2>5. QED BY <2>2, <2>3, <2>4 DEF AreOffsets
<1>14. AreOffsets(q, buffer, start, n - 1)
  BY <1>1, <1>2, <1>10, OffsetsAre DEF q
<1>15. \A k \in 0 .. n - 1 : q[k] = o[k + 1] - base
  <2>1. \A k \in 0 .. n - 1 : rest[k] = o[k + 1] - base
    OBVIOUS
  <2> HIDE DEF rest
  <2>3. SameLengths(rest, buffer, start, n - 1, q, buffer, start, n - 1)
    <3>1. n - 1 <= n - 1
      BY <1>2
    <3>2. QED BY <1>2, <1>13, <1>14, <3>1 DEF SameLengths
  <2>4. \A k \in 0 .. n - 1 : q[k] = rest[k]
    BY <2>3, OffsetsAgree
  <2>5. QED BY <2>1, <2>4
<1>16. /\ first = [k \in 1 .. v |-> buffer[(((from + 1) % Capacity) + k - 1) % Capacity]]
       /\ \A k \in 1 .. v : buffer[(((from + 1) % Capacity) + k - 1) % Capacity] = buffer[Place(from, k)]
  <2>1. ASSUME NEW k \in 1 .. v
        PROVE  buffer[(((from + 1) % Capacity) + k - 1) % Capacity] = buffer[Place(from, k)]
    <3> DEFINE p == Place(from, 1)
    <3>1. 1 \in 0 .. Capacity /\ k - 1 \in 0 .. Capacity /\ 1 + (k - 1) <= Capacity /\ 1 + (k - 1) = k
      BY <1>2, <1>3, <1>9 DEF base
    <3>2. Place(p, k - 1) = Place(from, k)
      BY <1>1, <3>1, PlacesAdd
    <3>3. p \in Nat
      BY <1>1, <3>1, PlaceIs
    <3>4. p = (from + 1) % Capacity
      BY DEF Place
    <3> HIDE DEF p
    <3>5. p + k - 1 = p + (k - 1)
      BY <3>3
    <3>6. Place(p, k - 1) = (p + k - 1) % Capacity
      BY <3>5 DEF Place
    <3>7. QED BY <3>2, <3>4, <3>6
  <2>2. QED BY <2>1 DEF v, IsOldest
<1>17. first \in Seq(Words) /\ Len(first) = v /\ IsRecord(first, buffer, from, 0)
  <2>1. \A k \in 1 .. v : first[k] = buffer[Place(from, k)] /\ buffer[Place(from, k)] \in Words
    <3>1. \A k \in 1 .. v : k \in Nat
      BY <1>3
    <3>2. \A k \in 1 .. v : Place(from, k) \in 0 .. Capacity - 1
      BY <1>2, <3>1, PlaceInRing
    <3>3. QED BY <1>1, <1>16, <3>2 DEF Buffers
  <2>2. first = [k \in 1 .. v |-> buffer[Place(from, k)]]
    BY <1>16
  <2>3. first \in Seq(Words) /\ Len(first) = v
    <3>1. \A k \in 1 .. v : buffer[Place(from, k)] \in Words
      BY <2>1
    <3>2. first \in [1 .. v -> Words]
      BY <2>2, <3>1, Zenon
    <3>3. QED BY <1>3, <3>2, FunctionsAreSequences, Zenon
  <2>4. \A l \in 1 .. Len(first) : first[l] = buffer[Place(from, 0 + l)]
    <3>1. \A l \in 1 .. v : 0 + l = l
      BY <1>3
    <3>2. QED BY <2>1, <2>3, <3>1
  <2>5. buffer[Place(from, 0)].v = v
    BY <1>6 DEF v
  <2>6. QED BY <2>3, <2>4, <2>5 DEF IsRecord
<1>18. Needed(first) = base /\ (from + Needed(first)) % Capacity = start
  BY <1>17 DEF Needed, base, start, Place
<1>19. RingHolds(buffer, start, to, used - base, n - 1)
  <2>1. q[n - 1] = used - base
    <3>1. n - 1 \in 0 .. n - 1 /\ (n - 1) + 1 = n
      BY <1>2
    <3>2. QED BY <1>1, <1>15, <3>1
  <2>2. used - base \in 0 .. Capacity
    BY <1>1, <1>2, <1>9
  <2>3. to = Place(start, used - base)
    BY <1>1, <1>2, <1>12
  <2>4. QED BY <1>1, <1>2, <1>10, <2>1, <2>2, <2>3 DEF RingHolds, q
<1>20. /\ rs \in Seq(Seq(Words)) /\ Len(rs) = n
       /\ \A k \in 1 .. n : IsRecord(rs[k], buffer, from, o[k - 1])
  BY <1>1, <1>2, RecordsAre DEF rs, o
<1>21. /\ less \in Seq(Seq(Words)) /\ Len(less) = n - 1
       /\ \A k \in 1 .. n - 1 : IsRecord(less[k], buffer, start, q[k - 1])
  BY <1>1, <1>2, <1>10, RecordsAre DEF less, q
<1>22. rs[1] = first
  <2>1. IsRecord(rs[1], buffer, from, 0)
    <3>1. 1 \in 1 .. n /\ 1 - 1 = 0
      BY <1>1, <1>2
    <3>2. QED BY <1>4, <1>20, <3>1
  <2>2. QED BY <1>17, <2>1, RecordsAlike
<1>23. ASSUME NEW k \in 1 .. n - 1 PROVE rs[k + 1] = less[k]
  <2> DEFINE a == o[k]
             w == buffer[Place(from, a)].v
  <2>1. /\ k - 1 \in 0 .. n - 1 /\ (k - 1) + 1 = k /\ k \in 1 .. n /\ k + 1 \in 1 .. n
        /\ (k + 1) - 1 = k
    BY <1>1
  <2>2. q[k - 1] = a - base
    BY <1>15, <2>1
  <2>3. IsRecord(rs[k + 1], buffer, from, a) /\ IsRecord(less[k], buffer, start, a - base)
    BY <1>20, <1>21, <2>1, <2>2
  <2>4. Place(start, a - base) = Place(from, a)
    BY <1>12, <2>1
  <2>5. o[k + 1] = a + 1 + w
    BY <1>4, <2>1 DEF AreOffsets
  <2>6. w \in Nat
    BY <1>1, <1>2, <1>8, <2>1, LengthsAre
  <2>7. a \in Nat /\ base \in Nat /\ base <= a /\ o[k + 1] <= used
    BY <1>8, <1>9, <2>1
  <2> HIDE DEF w, a
  <2>8. ASSUME NEW l \in 1 .. w PROVE buffer[Place(from, a + l)] = buffer[Place(start, (a - base) + l)]
    <3>1. (a - base) + l \in 0 .. Capacity /\ base + ((a - base) + l) = a + l /\ a + l <= Capacity
      BY <1>1, <1>2, <2>5, <2>6, <2>7
    <3>2. QED BY <1>11, <3>1
  <2>9. QED BY <2>3, <2>4, <2>8, RecordsAlike DEF w
<1>24. rs = <<first>> \o less
  <2>1. /\ (<<first>> \o less) \in Seq(Seq(Words)) /\ Len(<<first>> \o less) = n
        /\ (<<first>> \o less)[1] = first
        /\ \A k \in 1 .. n - 1 : (<<first>> \o less)[k + 1] = less[k]
    BY <1>1, <1>2, <1>17, <1>21
  <2>2. \A k \in 1 .. n : k = 1 \/ (k - 1 \in 1 .. n - 1 /\ (k - 1) + 1 = k)
    BY <1>1
  <2>3. \A k \in 1 .. n : rs[k] = (<<first>> \o less)[k]
    <3> DEFINE t == <<first>> \o less
    <3>1. t[1] = first /\ \A k \in 1 .. n - 1 : t[k + 1] = less[k]
      BY <2>1
    <3> HIDE DEF t
    <3>2. ASSUME NEW k \in 1 .. n PROVE rs[k] = t[k]
      <4>1. CASE k = 1
        BY <1>22, <3>1, <4>1
      <4>2. CASE k - 1 \in 1 .. n - 1 /\ (k - 1) + 1 = k
        <5>1. rs[(k - 1) + 1] = less[k - 1] /\ t[(k - 1) + 1] = less[k - 1]
          BY <1>23, <3>1, <4>2
        <5>2. QED BY <4>2, <5>1
      <4>3. QED BY <2>2, <4>1, <4>2
    <3>3. QED BY <3>2 DEF t
  <2>4. QED BY <1>20, <2>1, <2>3, SequencesAlike
<1>25. QED BY <1>17, <1>18, <1>19, <1>24 DEF rs, less

-----------------------------------------------------------------------------
(* The state of the senders, of the reader, of the writer and of the ring. *)
SenderInv ==
    /\ senders \in Seq(SenderType) /\ conn \in 1 .. Len(senders)
    /\ sent \in Nat /\ file_index \in Nat \ {0} /\ block_index \in Nat \ {0} /\ event_i \in Nat \ {0}
    /\ unsent \in Seq(Words) /\ wire \in Seq(Words)

Modes == {"raw", "cmsg", "record", "emu"}

ReaderInv ==
    /\ peek \in Seq(Words) /\ buf \in Seq(Words) /\ need \in Nat /\ records \in Nat
    /\ r_pc \in {"first", "peek"} => first_record
    /\ r_pc = "peek" => Len(peek) = 1
    /\ r_pc \in {"record", "checked", "framed", "ints", "desync", "body", "push"} => Len(peek) = 10
    /\ r_pc \in {"checked", "framed", "ints", "desync", "body", "push"} => mode \in Modes
    /\ r_pc = "record" /\ ~first_record => mode \in Modes
    /\ r_pc = "checked" => Len(buf) = BoundaryWords
    /\ r_pc = "framed" => Len(buf) = IF mode = "emu" THEN 2 ELSE 10
    /\ r_pc = "ints" => need # 0
    /\ r_pc = "body" => Len(buf) <= need

BlocksWritten == [events : Nat, words : Seq(Words), whole : BOOLEAN]

WriterInv ==
    /\ output \in Seq(BlocksWritten)
    /\ block_body \in Seq(Words) /\ block_events \in Nat
    /\ popped \in Seq(Words) /\ (w_pc = "pop" => popped = <<>>)

RingInv ==
    /\ RingHolds(m_buffer, m_read_pos, m_write_pos, m_used, m_records)
    /\ m_shutdown => disk = "failed"

StreamInv == SenderInv /\ ReaderInv /\ WriterInv /\ RingInv

-----------------------------------------------------------------------------
(* What the senders put on the wire is words.                              *)
LEMMA SubSeqTyped ==
    ASSUME NEW T, NEW s \in Seq(T), NEW m \in Nat \ {0}, NEW n \in Int, n <= Len(s)
    PROVE  /\ SubSeq(s, m, n) \in Seq(T)
           /\ Len(SubSeq(s, m, n)) = IF m <= n THEN n - m + 1 ELSE 0
OBVIOUS

LEMMA ElementTyped ==
    ASSUME NEW T, NEW s \in Seq(T), NEW i \in 1 .. Len(s)
    PROVE  s[i] \in T
OBVIOUS

LEMMA ConcatTyped ==
    ASSUME NEW T, NEW s \in Seq(T), NEW t \in Seq(T)
    PROVE  s \o t \in Seq(T) /\ Len(s \o t) = Len(s) + Len(t)
OBVIOUS

LEMMA MinOfTwo ==
    ASSUME NEW a \in Int, NEW b \in Int
    PROVE  Min({a, b}) = IF a <= b THEN a ELSE b
BY DEF Min

LEMMA WordsTyped ==
    ASSUME NEW n \in Nat
    PROVE  Word(n) \in Words /\ BeWord(n) \in Words
BY DEF Word, BeWord, Words

LEMMA WordNumbers ==
    ASSUME NEW w \in Words
    PROVE  w.v \in Nat /\ Le(w) \in Nat /\ ntohl(w) \in Nat
BY SMT DEF Words, Le, ntohl, Swap

LEMMA PayloadTyped ==
    ASSUME NEW c \in Nat, NEW i \in Nat, NEW record \in [n : Nat, control : BOOLEAN]
    PROVE  Payload(c, i, record) \in Seq(Words)
<1>1. record.n \in Nat
  OBVIOUS
<1> DEFINE n == record.n
           v(k) == CASE k = 1 -> n - 1
                     [] k = 2 -> IF record.control THEN ControlTag ELSE DataTag
                     [] OTHER -> k
           w(k) == [v |-> v(k), be |-> FALSE, of |-> <<c, i, k>>]
<1>2. \A k \in 1 .. n : v(k) \in Nat
  BY <1>1, SMT DEF ControlTag, DataTag
<1> HIDE DEF v
<1>3. \A k \in 1 .. n : w(k) \in Words
  BY <1>1, <1>2 DEF Words
<1>4. Payload(c, i, record) = [k \in 1 .. n |-> w(k)]
  BY DEF Payload, v
<1> HIDE DEF n, w
<1>5. Payload(c, i, record) \in [1 .. n -> Words]
  BY <1>3, <1>4, Zenon
<1>6. n \in Nat
  BY <1>1 DEF n
<1>7. QED BY <1>5, <1>6, FunctionsAreSequences, Zenon

LEMMA HeaderTyped ==
    ASSUME NEW n \in Nat
    PROVE  RecordHeader(n) \in Seq(Words) /\ CmsgWords(n) \in Seq(Words)
<1> DEFINE a == Word(8 + n)
           b == Word(0)
           c == Word(8)
           d == Word(1)
           e == Word(516)
           f == Word(Magic)
           g == Word(4 * (8 + n))
<1>1. a \in Words /\ b \in Words /\ c \in Words /\ d \in Words /\ e \in Words /\ g \in Words
  <2>1. 8 + n \in Nat /\ 4 * (8 + n) \in Nat /\ 0 \in Nat /\ 8 \in Nat /\ 1 \in Nat /\ 516 \in Nat
    OBVIOUS
  <2>2. QED BY <2>1, WordsTyped
<1>2. f \in Words
  <2>1. Magic \in Nat
    BY SMT DEF Magic
  <2>2. QED BY <2>1, WordsTyped
<1>3. RecordHeader(n) = <<a, b, c, d, b, e, b, f>> /\ CmsgWords(n) = <<c, g>>
  BY DEF RecordHeader, CmsgWords, kRecordHeaderWords
<1> HIDE DEF a, b, c, d, e, f, g
<1>4. QED BY <1>1, <1>2, <1>3

LEMMA FramingTyped == Framing \in Nat /\ \A k \in 1 .. 3 : CMsg[k] \in Nat
BY SMT DEF Framing, CMsg

LEMMA EmuTyped ==
    ASSUME NEW ints \in Nat, NEW payload \in Seq(Words)
    PROVE  EmuRecord(ints, payload) \in Seq(Words)
<1> DEFINE buffer == IF Len(payload) > 1 /\ payload[2].v = ControlTag THEN payload
                     ELSE RecordHeader(Len(payload)) \o payload
           first == <<BeWord(ints)>>
           more == [k \in 1 .. ints - 1 |-> BeWord(Framing)]
           last == <<BeWord(4 * Len(buffer))>>
<1>1. \A s, t \in Seq(Words) : s \o t \in Seq(Words)
  OBVIOUS
<1>2. \A w \in Words : <<w>> \in Seq(Words)
  OBVIOUS
<1>3. Len(payload) \in Nat
  OBVIOUS
<1>4. buffer \in Seq(Words)
  <2>1. RecordHeader(Len(payload)) \in Seq(Words)
    BY <1>3, HeaderTyped
  <2>2. RecordHeader(Len(payload)) \o payload \in Seq(Words)
    BY <1>1, <2>1, Zenon
  <2>3. QED BY <2>2, Zenon
<1> HIDE DEF buffer
<1>5. first \in Seq(Words)
  BY <1>2, WordsTyped
<1>6. more \in Seq(Words)
  <2>1. BeWord(Framing) \in Words
    BY FramingTyped, WordsTyped
  <2>2. more \in [1 .. ints - 1 -> Words]
    BY <2>1, Zenon
  <2>3. CASE ints = 0
    <3>1. 1 .. ints - 1 = {}
      BY <2>3
    <3>2. more = <<>>
      BY <3>1
    <3>3. QED BY <3>2
  <2>4. CASE ints # 0
    <3>1. ints - 1 \in Nat
      BY <2>4
    <3>2. QED BY <2>2, <3>1, FunctionsAreSequences, Zenon
  <2>5. QED BY <2>3, <2>4
<1>7. last \in Seq(Words)
  <2>1. 4 * Len(buffer) \in Nat
    BY <1>4
  <2>2. QED BY <1>2, <2>1, WordsTyped
<1>8. EmuRecord(ints, payload) = first \o more \o last \o buffer
  BY DEF EmuRecord, buffer
<1> HIDE DEF first, more, last
<1>9. first \o more \in Seq(Words)
  BY <1>1, <1>5, <1>6, Zenon
<1>10. first \o more \o last \in Seq(Words)
  BY <1>1, <1>7, <1>9, Zenon
<1>11. first \o more \o last \o buffer \in Seq(Words)
  BY <1>1, <1>4, <1>10, Zenon
<1>12. QED BY <1>8, <1>11, Zenon

Kinds == {"cmsg", "record", "raw", "emu", "bare emu", "long emu"}

LEMMA OnTheWireTyped ==
    ASSUME NEW kind \in Kinds, NEW payload \in Seq(Words)
    PROVE  OnTheWire(kind, payload) \in Seq(Words)
<1>1. \A s, t \in Seq(Words) : s \o t \in Seq(Words)
  OBVIOUS
<1>2. Len(payload) \in Nat /\ <<>> \in Seq(Words)
  OBVIOUS
<1>3. RecordHeader(Len(payload)) \in Seq(Words) /\ CmsgWords(Len(payload)) \in Seq(Words)
  BY <1>2, HeaderTyped
<1>4. Record(kind, payload) \in Seq(Words)
  <2> DEFINE before == IF kind = "cmsg" THEN CmsgWords(Len(payload)) ELSE <<>>
             header == RecordHeader(Len(payload))
  <2>1. before \in Seq(Words) /\ header \in Seq(Words)
    BY <1>2, <1>3, Zenon
  <2>2. Record(kind, payload) = before \o header \o payload
    BY DEF Record
  <2> HIDE DEF before, header
  <2>3. before \o header \in Seq(Words)
    BY <1>1, <2>1, Zenon
  <2>4. before \o header \o payload \in Seq(Words)
    BY <1>1, <2>3, Zenon
  <2>5. QED BY <2>2, <2>4, Zenon
<1>5. EmuRecord(1, payload) \in Seq(Words) /\ EmuRecord(2, payload) \in Seq(Words)
  BY EmuTyped
<1>6. OnTheWire(kind, payload) \in {Record(kind, payload), payload, EmuRecord(1, payload), EmuRecord(2, payload)}
  BY Zenon DEF OnTheWire, Kinds
<1>7. QED BY <1>4, <1>5, <1>6

LEMMA GarbledTyped ==
    ASSUME NEW words \in Seq(Words)
    PROVE  Garbled(words) \in Seq(Words)
<1> DEFINE w(k) == IF words[k].be \/ words[k].v = Magic THEN [words[k] EXCEPT !.v = 6] ELSE words[k]
<1>1. \A k \in DOMAIN words : words[k] \in Words
  OBVIOUS
<1>2. \A x \in Words : [x EXCEPT !.v = 6] \in Words
  BY DEF Words
<1>3. \A k \in DOMAIN words : w(k) \in Words
  BY <1>1, <1>2, Zenon
<1>4. Len(words) \in Nat /\ DOMAIN words = 1 .. Len(words)
  OBVIOUS
<1>5. Garbled(words) = [k \in 1 .. Len(words) |-> w(k)]
  BY <1>4 DEF Garbled
<1> HIDE DEF w
<1>6. Garbled(words) \in [1 .. Len(words) -> Words]
  BY <1>3, <1>4, <1>5, Zenon
<1>7. QED BY <1>4, <1>6, FunctionsAreSequences, Zenon

LEMMA OpeningTyped ==
    ASSUME NEW kind
    PROVE  Opening(kind) \in Seq(Words)
<1> DEFINE hello == [k \in 1 .. 3 |-> BeWord(CMsg[k])]
           rest == [k \in 1 .. 5 |-> BeWord(Framing)]
<1>1. hello \in [1 .. 3 -> Words] /\ rest \in [1 .. 5 -> Words]
  <2>1. BeWord(Framing) \in Words /\ \A k \in 1 .. 3 : BeWord(CMsg[k]) \in Words
    BY FramingTyped, WordsTyped
  <2>2. QED BY <2>1, Zenon
<1>2. EmuHandshake = hello \o rest
  BY DEF EmuHandshake
<1> HIDE DEF hello, rest
<1>3. 3 \in Nat /\ 5 \in Nat
  OBVIOUS
<1>4. hello \in Seq(Words) /\ rest \in Seq(Words)
  BY <1>1, <1>3, FunctionsAreSequences, Zenon
<1>5. hello \o rest \in Seq(Words)
  BY <1>4
<1>6. <<>> \in Seq(Words)
  OBVIOUS
<1>7. QED BY <1>2, <1>5, <1>6, Zenon DEF Opening

-----------------------------------------------------------------------------
(* The senders.                                                            *)
LEMMA SenderIs ==
    ASSUME SenderInv
    PROVE  /\ Sender.kind \in Kinds /\ Sender.files \in Seq(Seq(BlockType))
           /\ file_index <= Len(Sender.files) => Blocks \in Seq(BlockType)
           /\ file_index <= Len(Sender.files) /\ block_index <= Len(Blocks)
              => Block.events \in Seq([n : Nat, control : BOOLEAN])
<1>1. Sender \in SenderType
  BY DEF SenderInv, Sender
<1>2. Sender.kind \in Kinds /\ Sender.files \in Seq(Seq(BlockType))
  BY <1>1 DEF SenderType, Kinds
<1>3. ASSUME file_index <= Len(Sender.files) PROVE Blocks \in Seq(BlockType)
  <2> DEFINE files == Sender.files
  <2>1. files \in Seq(Seq(BlockType)) /\ Blocks = files[file_index]
    BY <1>2 DEF Blocks
  <2>2. file_index \in 1 .. Len(files)
    BY <1>3, <2>1 DEF SenderInv
  <2> HIDE DEF files
  <2>3. QED BY <2>1, <2>2
<1>4. ASSUME file_index <= Len(Sender.files), block_index <= Len(Blocks)
      PROVE  Block.events \in Seq([n : Nat, control : BOOLEAN])
  <2>1. Blocks \in Seq(BlockType)
    BY <1>3, <1>4
  <2>2. block_index \in 1 .. Len(Blocks)
    BY <1>4, <2>1 DEF SenderInv
  <2>3. Block \in BlockType
    BY <2>1, <2>2 DEF Block
  <2>4. QED BY <2>3 DEF BlockType
<1>5. QED BY <1>2, <1>3, <1>4

LEMMA SendRecordKeeps ==
    ASSUME SenderInv, SendRecord
    PROVE  SenderInv'
<1> DEFINE event == Block.events[event_i]
           payload == Payload(conn, sent', event)
           words == OnTheWire(Sender.kind, payload)
<1>1. Block.events \in Seq([n : Nat, control : BOOLEAN]) /\ Sender.kind \in Kinds
  BY SenderIs DEF SendRecord
<1>2. event_i <= Len(Block.events) /\ event_i \in Nat \ {0} /\ conn \in Nat /\ sent' \in Nat
  BY DEF SendRecord, SenderInv
<1>3. event \in [n : Nat, control : BOOLEAN]
  <2> DEFINE events == Block.events
  <2>1. events \in Seq([n : Nat, control : BOOLEAN]) /\ event_i <= Len(events)
    BY <1>1, <1>2
  <2> HIDE DEF events
  <2>2. event_i \in 1 .. Len(events)
    BY <1>2, <2>1
  <2>3. events[event_i] \in [n : Nat, control : BOOLEAN]
    BY <2>1, <2>2, ElementTyped, Zenon
  <2>4. QED BY <2>3 DEF events
<1> HIDE DEF event
<1>4. payload \in Seq(Words)
  BY <1>2, <1>3, PayloadTyped
<1> HIDE DEF payload
<1>5. words \in Seq(Words)
  BY <1>1, <1>4, OnTheWireTyped
<1>6. unsent' = IF sent' = Sender.garbles THEN Garbled(words) ELSE words
  BY DEF SendRecord, payload, event
<1> HIDE DEF words
<1>7. unsent' \in Seq(Words)
  BY <1>5, <1>6, GarbledTyped
<1>8. QED BY <1>2, <1>7 DEF SendRecord, SenderInv

LEMMA WriteKeeps ==
    ASSUME SenderInv, Write
    PROVE  SenderInv'
<1>1. PICK k \in 1 .. Min({WireWords - Len(wire), Len(unsent)}) :
        wire' = wire \o SubSeq(unsent, 1, k) /\ unsent' = SubSeq(unsent, k + 1, Len(unsent))
  BY DEF Write
<1>2. wire \in Seq(Words) /\ unsent \in Seq(Words) /\ Len(wire) \in Nat /\ Len(unsent) \in Nat
  BY DEF SenderInv
<1> DEFINE a == WireWords - Len(wire)
           b == Len(unsent)
<1>3. a \in Int /\ b \in Int
  BY <1>2, WireWordsAssumption
<1>4. Min({a, b}) = IF a <= b THEN a ELSE b
  <2> HIDE DEF a, b
  <2>1. QED BY <1>3, MinOfTwo
<1>5. k \in Nat \ {0} /\ k <= Len(unsent)
  BY <1>2, <1>3, <1>4
<1>6. SubSeq(unsent, 1, k) \in Seq(Words) /\ SubSeq(unsent, k + 1, Len(unsent)) \in Seq(Words)
  BY <1>2, <1>5, SubSeqTyped
<1>7. wire' \in Seq(Words) /\ unsent' \in Seq(Words)
  BY <1>1, <1>2, <1>6
<1>8. QED BY <1>7 DEF Write, SenderInv, walkVars

LEMMA SenderKeeps ==
    ASSUME SenderInv, SenderStep \/ Killed
    PROVE  SenderInv'
<1>1. CASE NextFile
  BY <1>1, SenderIs DEF NextFile, SenderInv
<1>2. CASE SkipCutBlock
  <2>1. Blocks \in Seq(BlockType)
    BY <1>2, SenderIs DEF SkipCutBlock
  <2>2. Len(Blocks) + 1 \in Nat \ {0}
    BY <2>1
  <2>3. QED BY <1>2, <2>2 DEF SkipCutBlock, SenderInv
<1>3. CASE NextBlock
  BY <1>3 DEF NextBlock, SenderInv
<1>4. CASE SendRecord
  BY <1>4, SendRecordKeeps
<1>5. CASE Write
  BY <1>5, WriteKeeps
<1>6. CASE Exit
  BY <1>6 DEF Exit, SenderInv, walkVars
<1>7. QED BY <1>1, <1>2, <1>3, <1>4, <1>5, <1>6 DEF SenderStep, Killed, Leave, WriteFails

-----------------------------------------------------------------------------
(* The reader.                                                             *)
HungUp ==
    /\ wire' = <<>> /\ r_pc' \in {"accept", "drain"}
    /\ UNCHANGED <<senders, conn, sending, walkVars, unsent, peek, buf, need, records>>

Proceeds ==
    /\ wire' \in Seq(Words)
    /\ UNCHANGED <<senders, conn, sending, walkVars, unsent, mode, peek, records>>

Reads == SenderInv' /\ ReaderInv' /\ records' = records

LEMMA HungUpKeeps ==
    ASSUME SenderInv, ReaderInv, HungUp
    PROVE  Reads
BY DEF SenderInv, ReaderInv, HungUp, Reads, walkVars

LEMMA HangUpIs == ASSUME HangUp(TRUE) \/ HangUp(FALSE) \/ HangUp(opt.keep_listening) PROVE HungUp
BY DEF HangUp, HungUp

LEMMA ProceedsKeeps ==
    ASSUME SenderInv, ReaderInv, Proceeds, Len(peek) = 10, mode \in Modes,
           need' \in Nat, buf' \in Seq(Words), r_pc' \notin {"first", "peek"},
           r_pc' = "checked" => Len(buf') = BoundaryWords,
           r_pc' = "framed" => Len(buf') = IF mode = "emu" THEN 2 ELSE 10,
           r_pc' = "ints" => need' # 0,
           r_pc' = "body" => Len(buf') <= need'
    PROVE  Reads
<1>1. SenderInv'
  BY DEF SenderInv, Proceeds, walkVars
<1>2. /\ peek' \in Seq(Words) /\ records' \in Nat /\ records' = records /\ mode' \in Modes
      /\ Len(peek') = 10 /\ mode' = mode
  BY DEF ReaderInv, Proceeds
<1>3. r_pc' = "checked" => Len(buf') = BoundaryWords'
  BY <1>2 DEF BoundaryWords, Modes
<1>4. ReaderInv'
  BY <1>2, <1>3 DEF ReaderInv
<1>5. QED BY <1>1, <1>2, <1>4 DEF Reads

(* Expect(n, have).                                                        *)
Expected == need' \in Nat /\ buf' \in Seq(Words) /\ Len(buf') <= need' /\ r_pc' = "body"

LEMMA ExpectFits ==
    ASSUME NEW n \in Nat, NEW have \in Seq(Words)
    PROVE  /\ SubSeq(have, 1, Min({n, Len(have)})) \in Seq(Words)
           /\ Len(SubSeq(have, 1, Min({n, Len(have)}))) <= n
<1> DEFINE l == Len(have)
           m == Min({n, l})
<1>1. l \in Nat
  OBVIOUS
<1>2. m = IF n <= l THEN n ELSE l
  <2> HIDE DEF l
  <2>1. QED BY <1>1, MinOfTwo
<1>3. m \in Nat /\ m <= l /\ m <= n
  <2> HIDE DEF l, m
  <2>1. QED BY <1>1, <1>2
<1> HIDE DEF m
<1>4. SubSeq(have, 1, m) \in Seq(Words) /\ Len(SubSeq(have, 1, m)) = IF 1 <= m THEN m - 1 + 1 ELSE 0
  BY <1>3, SubSeqTyped
<1>5. Len(SubSeq(have, 1, m)) <= n
  BY <1>3, <1>4
<1>6. QED BY <1>4, <1>5 DEF m

LEMMA ExpectedKeeps ==
    ASSUME SenderInv, ReaderInv, Proceeds, Len(peek) = 10, mode \in Modes, Expected
    PROVE  Reads
BY ProceedsKeeps DEF Expected

-----------------------------------------------------------------------------
(* The steps of the reader between the words of one connection.            *)
LEMMA AcceptKeeps ==
    ASSUME SenderInv, ReaderInv, Accept
    PROVE  Reads
<1>1. unsent' \in Seq(Words)
  <2> DEFINE kind == senders[conn'].kind
  <2>1. unsent' = Opening(kind)
    BY DEF Accept
  <2> HIDE DEF kind
  <2>2. QED BY <2>1, OpeningTyped
<1>2. conn' \in 1 .. Len(senders) /\ senders' = senders
  BY DEF Accept, SenderInv
<1>3. wire' \in Seq(Words) /\ peek' \in Seq(Words)
  BY DEF Accept
<1>4. SenderInv'
  BY <1>1, <1>2, <1>3 DEF Accept, SenderInv
<1>5. ReaderInv'
  BY <1>3 DEF Accept, ReaderInv
<1>6. QED BY <1>4, <1>5 DEF Accept, Reads

LEMMA WaitsKeep ==
    ASSUME SenderInv, ReaderInv, r_pc' \in {"drain", "joining", "done"},
           UNCHANGED <<senderVars, opt, mode, peek, first_record, buf, need, records>>
    PROVE  Reads
BY DEF SenderInv, ReaderInv, Reads, senderVars, walkVars

LEMMA PeekOneKeeps ==
    ASSUME SenderInv, ReaderInv, PeekOne
    PROVE  Reads
<1>1. CASE Arrived(1) /\ TakeWords(1) /\ peek' = <<wire[1]>> /\ r_pc' = "peek"
           /\ StayConnected /\ UNCHANGED <<opt, mode, first_record, buf, need, records>>
  <2>1. wire \in Seq(Words) /\ Len(wire) >= 1 /\ Len(wire) \in Nat
    BY <1>1 DEF Arrived, SenderInv
  <2>2. wire[1] \in Words
    BY <2>1
  <2>3. peek' \in Seq(Words) /\ Len(peek') = 1
    BY <1>1, <2>2
  <2>4. wire' \in Seq(Words)
    <3>1. SubSeq(wire, 2, Len(wire)) \in Seq(Words)
      BY <2>1, SubSeqTyped
    <3>2. QED BY <1>1, <3>1 DEF TakeWords
  <2>5. SenderInv'
    BY <1>1, <2>4 DEF SenderInv, StayConnected, walkVars
  <2>6. ReaderInv'
    BY <1>1, <2>3 DEF PeekOne, ReaderInv
  <2>7. QED BY <1>1, <2>5, <2>6 DEF Reads
<1>2. CASE HangUp(TRUE) \/ HangUp(FALSE)
  BY <1>2, HangUpIs, HungUpKeeps
<1>3. QED BY <1>1, <1>2 DEF PeekOne

LEMMA PeekTenKeeps ==
    ASSUME SenderInv, ReaderInv, PeekTen
    PROVE  Reads
<1>1. CASE /\ Arrived(9) /\ TakeWords(9) /\ peek' = peek \o Head10 /\ r_pc' = "record"
           /\ StayConnected /\ UNCHANGED <<opt, first_record, buf, need, records>>
  <2>1. wire \in Seq(Words) /\ Len(wire) >= 9 /\ Len(wire) \in Nat
    BY <1>1 DEF Arrived, SenderInv
  <2>2. Head10 \in Seq(Words) /\ Len(Head10) = 9
    <3>1. 9 \in Int /\ 1 \in Nat \ {0} /\ 9 <= Len(wire)
      BY <2>1
    <3>2. SubSeq(wire, 1, 9) \in Seq(Words) /\ Len(SubSeq(wire, 1, 9)) = IF 1 <= 9 THEN 9 - 1 + 1 ELSE 0
      BY <2>1, <3>1, SubSeqTyped
    <3>3. QED BY <3>2 DEF Head10
  <2>3. peek \in Seq(Words) /\ Len(peek) = 1
    BY DEF ReaderInv, PeekTen
  <2>4. peek' \in Seq(Words) /\ Len(peek') = 10
    <3> DEFINE h == Head10
    <3>1. h \in Seq(Words) /\ Len(h) = 9 /\ peek' = peek \o h
      BY <1>1, <2>2
    <3> HIDE DEF h
    <3>2. peek \o h \in Seq(Words) /\ Len(peek \o h) = Len(peek) + Len(h)
      BY <2>3, <3>1, ConcatTyped, Zenon
    <3>3. Len(peek) + Len(h) = 10
      BY <2>3, <3>1
    <3>4. QED BY <3>1, <3>2, <3>3, Zenon
  <2>5. wire' \in Seq(Words)
    <3>1. SubSeq(wire, 10, Len(wire)) \in Seq(Words)
      BY <2>1, SubSeqTyped
    <3>2. QED BY <1>1, <3>1 DEF TakeWords
  <2>6. SenderInv'
    BY <1>1, <2>5 DEF SenderInv, StayConnected, walkVars
  <2>7. ReaderInv'
    BY <1>1, <2>4 DEF PeekTen, ReaderInv
  <2>8. QED BY <1>1, <2>6, <2>7 DEF Reads
<1>2. CASE HangUp(TRUE) \/ HangUp(FALSE)
  BY <1>2, HangUpIs, HungUpKeeps
<1>3. QED BY <1>1, <1>2 DEF PeekTen

(* Words that come from the connection.                                    *)
LEMMA TakeWordsIs ==
    ASSUME SenderInv, NEW n \in Nat, n = 0 \/ Len(wire) >= n
    PROVE  /\ SubSeq(wire, n + 1, Len(wire)) \in Seq(Words)
           /\ SubSeq(wire, 1, n) \in Seq(Words) /\ Len(SubSeq(wire, 1, n)) = n
<1>1. wire \in Seq(Words) /\ Len(wire) \in Nat /\ n <= Len(wire) /\ n + 1 \in Nat \ {0}
  BY DEF SenderInv
<1>2. SubSeq(wire, n + 1, Len(wire)) \in Seq(Words)
  BY <1>1, SubSeqTyped
<1>3. SubSeq(wire, 1, n) \in Seq(Words) /\ Len(SubSeq(wire, 1, n)) = IF 1 <= n THEN n - 1 + 1 ELSE 0
  BY <1>1, SubSeqTyped
<1>4. QED BY <1>2, <1>3

LEMMA NextRecordKeeps ==
    ASSUME SenderInv, ReaderInv, NextRecord
    PROVE  Reads
<1> DEFINE n == BoundaryWords
<1>1. mode \in Modes /\ Len(peek) = 10 /\ need \in Nat
  BY DEF NextRecord, ReaderInv
<1>2. n \in {1, 2, 8}
  BY <1>1 DEF BoundaryWords, Modes
<1>3. CASE /\ Arrived(n) /\ TakeWords(n) /\ buf' = SubSeq(wire, 1, n) /\ r_pc' = "checked"
           /\ UNCHANGED <<need, first_record>> /\ Unchanged
  <2>1. n \in Nat /\ (n = 0 \/ Len(wire) >= n)
    BY <1>2, <1>3 DEF Arrived
  <2>2. wire' = SubSeq(wire, n + 1, Len(wire)) /\ buf' = SubSeq(wire, 1, n)
    BY <1>3 DEF TakeWords
  <2> HIDE DEF n
  <2>3. wire' \in Seq(Words) /\ buf' \in Seq(Words) /\ Len(buf') = n
    BY <2>1, <2>2, TakeWordsIs
  <2>4. Proceeds
    BY <1>3, <2>3 DEF Proceeds, Unchanged
  <2>5. QED BY <1>1, <1>3, <2>3, <2>4, ProceedsKeeps DEF n
<1>4. CASE ReadEnds(n, TRUE)
  <2>1. HungUp
    BY <1>4 DEF ReadEnds, HangUp, HungUp
  <2>2. QED BY <2>1, HungUpKeeps
<1>5. QED BY <1>3, <1>4 DEF NextRecord

-----------------------------------------------------------------------------
(* The framings, with the words they are read from.                        *)
LEMMA LengthsRead ==
    ASSUME NEW w \in Words
    PROVE  /\ ntohl(w) \div 4 \in Nat
           /\ ntohl(w) \in 2 .. 16 => ntohl(w) - 1 \in Nat /\ ntohl(w) - 1 # 0
           /\ Le(w) > kRecordHeaderWords => Le(w) - kRecordHeaderWords \in Nat
           /\ Le(w) + 1 \in Nat
<1> DEFINE v == ntohl(w)
           u == Le(w)
<1>1. v \in Nat /\ u \in Nat
  BY WordNumbers
<1> HIDE DEF u, v
<1>2. v \div 4 \in Nat
  BY <1>1
<1>3. v \in 2 .. 16 => v - 1 \in Nat /\ v - 1 # 0
  BY <1>1
<1>4. u > 8 => u - 8 \in Nat
  BY <1>1
<1>5. u + 1 \in Nat
  BY <1>1
<1>6. QED BY <1>2, <1>3, <1>4, <1>5 DEF u, v, kRecordHeaderWords

LEMMA PartsOfTen ==
    ASSUME NEW s \in Seq(Words), Len(s) = 10
    PROVE  /\ SubSeq(s, 3, 10) \in Seq(Words) /\ Len(SubSeq(s, 3, 10)) = 8
           /\ SubSeq(s, 1, 8) \in Seq(Words) /\ Len(SubSeq(s, 1, 8)) = 8
           /\ SubSeq(s, 9, 10) \in Seq(Words)
<1>1. ASSUME NEW a \in 1 .. 10, NEW b \in 1 .. 10, a <= b
      PROVE  SubSeq(s, a, b) \in Seq(Words) /\ Len(SubSeq(s, a, b)) = b - a + 1
  <2>1. a \in Nat \ {0} /\ b \in Int /\ b <= Len(s)
    BY <1>1
  <2>2. SubSeq(s, a, b) \in Seq(Words) /\ Len(SubSeq(s, a, b)) = IF a <= b THEN b - a + 1 ELSE 0
    BY <2>1, SubSeqTyped, Zenon
  <2>3. QED BY <1>1, <2>2, Zenon
<1>2. 3 \in 1 .. 10 /\ 10 \in 1 .. 10 /\ 1 \in 1 .. 10 /\ 8 \in 1 .. 10 /\ 9 \in 1 .. 10
      /\ 3 <= 10 /\ 1 <= 8 /\ 9 <= 10 /\ 10 - 3 + 1 = 8 /\ 8 - 1 + 1 = 8
  OBVIOUS
<1>3. SubSeq(s, 3, 10) \in Seq(Words) /\ Len(SubSeq(s, 3, 10)) = 10 - 3 + 1
  BY <1>1, <1>2, Zenon
<1>4. SubSeq(s, 1, 8) \in Seq(Words) /\ Len(SubSeq(s, 1, 8)) = 8 - 1 + 1
  BY <1>1, <1>2, Zenon
<1>5. SubSeq(s, 9, 10) \in Seq(Words)
  BY <1>1, <1>2, Zenon
<1>6. QED BY <1>2, <1>3, <1>4, <1>5, Zenon

LEMMA PeekedEmuKeeps ==
    ASSUME SenderInv, ReaderInv, mode = "emu", Len(peek) = 10,
           EmuFraming(peek[9], peek[10], <<>>)
    PROVE  Reads
<1>1. wire \in Seq(Words) /\ mode \in Modes
  BY DEF SenderInv, Modes
<1> DEFINE count == peek[9]
           last == peek[10]
           have == <<>>
<1>2. count \in Words /\ last \in Words /\ have \in Seq(Words)
  <2>1. peek \in Seq(Words) /\ 9 \in 1 .. Len(peek) /\ 10 \in 1 .. Len(peek) /\ <<>> \in Seq(Words)
    BY DEF ReaderInv
  <2>2. QED BY <2>1, ElementTyped
<1>3. CASE Expect(ntohl(last) \div 4, have) /\ UNCHANGED wire /\ Unchanged
  <2> DEFINE n == ntohl(last) \div 4
  <2>1. n \in Nat
    BY <1>2, LengthsRead
  <2>2. need' = n /\ buf' = SubSeq(have, 1, Min({n, Len(have)})) /\ r_pc' = "body"
    BY <1>3 DEF Expect
  <2>3. Proceeds
    BY <1>1, <1>3 DEF Proceeds, Unchanged
  <2> HIDE DEF n, have
  <2>4. buf' \in Seq(Words) /\ Len(buf') <= n
    BY <1>2, <2>1, <2>2, ExpectFits
  <2>5. Expected
    BY <2>1, <2>2, <2>4 DEF Expected
  <2>6. QED BY <1>1, <2>3, <2>5, ExpectedKeeps
<1>4. CASE /\ ntohl(count) \in 2 .. 16 /\ buf' = have /\ need' = ntohl(count) - 1 /\ r_pc' = "ints"
           /\ UNCHANGED wire /\ Unchanged
  <2>1. need' \in Nat /\ need' # 0
    BY <1>2, <1>4, LengthsRead
  <2>2. Proceeds
    BY <1>1, <1>4 DEF Proceeds, Unchanged
  <2>3. buf' \in Seq(Words)
    BY <1>2, <1>4
  <2>4. QED BY <1>1, <1>4, <2>1, <2>2, <2>3, ProceedsKeeps
<1>5. CASE HangUp(opt.keep_listening)
  BY <1>5, HangUpIs, HungUpKeeps
<1>6. QED BY <1>3, <1>4, <1>5 DEF EmuFraming, Desync

LEMMA PeekedBareKeeps ==
    ASSUME SenderInv, ReaderInv, mode = "emu", Len(peek) = 10,
           EmuFraming(peek[1], peek[2], SubSeq(peek, 3, 10))
    PROVE  Reads
<1>1. wire \in Seq(Words) /\ mode \in Modes
  BY DEF SenderInv, Modes
<1> DEFINE count == peek[1]
           last == peek[2]
           have == SubSeq(peek, 3, 10)
<1>2. count \in Words /\ last \in Words /\ have \in Seq(Words)
  <2>1. peek \in Seq(Words) /\ 1 \in 1 .. Len(peek) /\ 2 \in 1 .. Len(peek)
    BY DEF ReaderInv
  <2>2. SubSeq(peek, 3, 10) \in Seq(Words)
    BY <2>1, PartsOfTen
  <2>3. QED BY <2>1, <2>2, ElementTyped
<1>3. CASE Expect(ntohl(last) \div 4, have) /\ UNCHANGED wire /\ Unchanged
  <2> DEFINE n == ntohl(last) \div 4
  <2>1. n \in Nat
    BY <1>2, LengthsRead
  <2>2. need' = n /\ buf' = SubSeq(have, 1, Min({n, Len(have)})) /\ r_pc' = "body"
    BY <1>3 DEF Expect
  <2>3. Proceeds
    BY <1>1, <1>3 DEF Proceeds, Unchanged
  <2> HIDE DEF n, have
  <2>4. buf' \in Seq(Words) /\ Len(buf') <= n
    BY <1>2, <2>1, <2>2, ExpectFits
  <2>5. Expected
    BY <2>1, <2>2, <2>4 DEF Expected
  <2>6. QED BY <1>1, <2>3, <2>5, ExpectedKeeps
<1>4. CASE /\ ntohl(count) \in 2 .. 16 /\ buf' = have /\ need' = ntohl(count) - 1 /\ r_pc' = "ints"
           /\ UNCHANGED wire /\ Unchanged
  <2>1. need' \in Nat /\ need' # 0
    BY <1>2, <1>4, LengthsRead
  <2>2. Proceeds
    BY <1>1, <1>4 DEF Proceeds, Unchanged
  <2>3. buf' \in Seq(Words)
    BY <1>2, <1>4
  <2>4. QED BY <1>1, <1>4, <2>1, <2>2, <2>3, ProceedsKeeps
<1>5. CASE HangUp(opt.keep_listening)
  BY <1>5, HangUpIs, HungUpKeeps
<1>6. QED BY <1>3, <1>4, <1>5 DEF EmuFraming, Desync

LEMMA FramedEmuKeeps ==
    ASSUME SenderInv, ReaderInv, Len(buf) = 2, mode = "emu", Len(peek) = 10,
           EmuFraming(buf[1], buf[2], <<>>)
    PROVE  Reads
<1>1. wire \in Seq(Words) /\ mode \in Modes
  BY DEF SenderInv, Modes
<1> DEFINE count == buf[1]
           last == buf[2]
           have == <<>>
<1>2. count \in Words /\ last \in Words /\ have \in Seq(Words)
  <2>1. buf \in Seq(Words) /\ 1 \in 1 .. Len(buf) /\ 2 \in 1 .. Len(buf) /\ <<>> \in Seq(Words)
    BY DEF ReaderInv
  <2>2. QED BY <2>1, ElementTyped
<1>3. CASE Expect(ntohl(last) \div 4, have) /\ UNCHANGED wire /\ Unchanged
  <2> DEFINE n == ntohl(last) \div 4
  <2>1. n \in Nat
    BY <1>2, LengthsRead
  <2>2. need' = n /\ buf' = SubSeq(have, 1, Min({n, Len(have)})) /\ r_pc' = "body"
    BY <1>3 DEF Expect
  <2>3. Proceeds
    BY <1>1, <1>3 DEF Proceeds, Unchanged
  <2> HIDE DEF n, have
  <2>4. buf' \in Seq(Words) /\ Len(buf') <= n
    BY <1>2, <2>1, <2>2, ExpectFits
  <2>5. Expected
    BY <2>1, <2>2, <2>4 DEF Expected
  <2>6. QED BY <1>1, <2>3, <2>5, ExpectedKeeps
<1>4. CASE /\ ntohl(count) \in 2 .. 16 /\ buf' = have /\ need' = ntohl(count) - 1 /\ r_pc' = "ints"
           /\ UNCHANGED wire /\ Unchanged
  <2>1. need' \in Nat /\ need' # 0
    BY <1>2, <1>4, LengthsRead
  <2>2. Proceeds
    BY <1>1, <1>4 DEF Proceeds, Unchanged
  <2>3. buf' \in Seq(Words)
    BY <1>2, <1>4
  <2>4. QED BY <1>1, <1>4, <2>1, <2>2, <2>3, ProceedsKeeps
<1>5. CASE HangUp(opt.keep_listening)
  BY <1>5, HangUpIs, HungUpKeeps
<1>6. QED BY <1>3, <1>4, <1>5 DEF EmuFraming, Desync

LEMMA PeekedCmsgKeeps ==
    ASSUME SenderInv, ReaderInv, mode \in Modes, Len(peek) = 10,
           Header(SubSeq(peek, 3, 10), <<>>)
    PROVE  Reads
<1>1. wire \in Seq(Words)
  BY DEF SenderInv
<1> DEFINE h == SubSeq(peek, 3, 10)
           have == <<>>
<1>2. h[1] \in Words /\ have \in Seq(Words)
  <2>1. peek \in Seq(Words)
    BY DEF ReaderInv
  <2>2. SubSeq(peek, 3, 10) \in Seq(Words) /\ Len(SubSeq(peek, 3, 10)) = 8
    BY <2>1, PartsOfTen
  <2>3. h \in Seq(Words) /\ 1 \in 1 .. Len(h)
    BY <2>2
  <2>4. <<>> \in Seq(Words)
    OBVIOUS
  <2> HIDE DEF h
  <2>5. QED BY <2>3, <2>4, ElementTyped
<1>3. CASE HeaderOk(h) /\ Expect(Le(h[1]) - kRecordHeaderWords, have) /\ UNCHANGED wire /\ Unchanged
  <2> DEFINE n == Le(h[1]) - kRecordHeaderWords
  <2>1. n \in Nat
    <3>1. Le(h[1]) > kRecordHeaderWords
      BY <1>3 DEF HeaderOk
    <3>2. QED BY <1>2, <3>1, LengthsRead
  <2>2. need' = n /\ buf' = SubSeq(have, 1, Min({n, Len(have)})) /\ r_pc' = "body"
    BY <1>3 DEF Expect
  <2>3. Proceeds
    BY <1>1, <1>3 DEF Proceeds, Unchanged
  <2> HIDE DEF n, have
  <2>4. buf' \in Seq(Words) /\ Len(buf') <= n
    BY <1>2, <2>1, <2>2, ExpectFits
  <2>5. Expected
    BY <2>1, <2>2, <2>4 DEF Expected
  <2>6. QED BY <2>3, <2>5, ExpectedKeeps
<1>4. CASE HangUp(opt.keep_listening)
  BY <1>4, HangUpIs, HungUpKeeps
<1>5. QED BY <1>3, <1>4 DEF Header, Desync

LEMMA PeekedRecordKeeps ==
    ASSUME SenderInv, ReaderInv, mode \in Modes, Len(peek) = 10,
           Header(SubSeq(peek, 1, 8), SubSeq(peek, 9, 10))
    PROVE  Reads
<1>1. wire \in Seq(Words)
  BY DEF SenderInv
<1> DEFINE h == SubSeq(peek, 1, 8)
           have == SubSeq(peek, 9, 10)
<1>2. h[1] \in Words /\ have \in Seq(Words)
  <2>1. peek \in Seq(Words)
    BY DEF ReaderInv
  <2>2. SubSeq(peek, 1, 8) \in Seq(Words) /\ Len(SubSeq(peek, 1, 8)) = 8
    BY <2>1, PartsOfTen
  <2>3. h \in Seq(Words) /\ 1 \in 1 .. Len(h)
    BY <2>2
  <2>4. SubSeq(peek, 9, 10) \in Seq(Words)
    BY <2>1, PartsOfTen
  <2> HIDE DEF h
  <2>5. QED BY <2>3, <2>4, ElementTyped
<1>3. CASE HeaderOk(h) /\ Expect(Le(h[1]) - kRecordHeaderWords, have) /\ UNCHANGED wire /\ Unchanged
  <2> DEFINE n == Le(h[1]) - kRecordHeaderWords
  <2>1. n \in Nat
    <3>1. Le(h[1]) > kRecordHeaderWords
      BY <1>3 DEF HeaderOk
    <3>2. QED BY <1>2, <3>1, LengthsRead
  <2>2. need' = n /\ buf' = SubSeq(have, 1, Min({n, Len(have)})) /\ r_pc' = "body"
    BY <1>3 DEF Expect
  <2>3. Proceeds
    BY <1>1, <1>3 DEF Proceeds, Unchanged
  <2> HIDE DEF n, have
  <2>4. buf' \in Seq(Words) /\ Len(buf') <= n
    BY <1>2, <2>1, <2>2, ExpectFits
  <2>5. Expected
    BY <2>1, <2>2, <2>4 DEF Expected
  <2>6. QED BY <2>3, <2>5, ExpectedKeeps
<1>4. CASE HangUp(opt.keep_listening)
  BY <1>4, HangUpIs, HungUpKeeps
<1>5. QED BY <1>3, <1>4 DEF Header, Desync

LEMMA FramedCmsgKeeps ==
    ASSUME SenderInv, ReaderInv, Len(buf) = 10, mode \in Modes, Len(peek) = 10,
           Header(SubSeq(buf, 3, 10), <<>>)
    PROVE  Reads
<1>1. wire \in Seq(Words)
  BY DEF SenderInv
<1> DEFINE h == SubSeq(buf, 3, 10)
           have == <<>>
<1>2. h[1] \in Words /\ have \in Seq(Words)
  <2>1. buf \in Seq(Words)
    BY DEF ReaderInv
  <2>2. SubSeq(buf, 3, 10) \in Seq(Words) /\ Len(SubSeq(buf, 3, 10)) = 8
    BY <2>1, PartsOfTen
  <2>3. h \in Seq(Words) /\ 1 \in 1 .. Len(h)
    BY <2>2
  <2>4. <<>> \in Seq(Words)
    OBVIOUS
  <2> HIDE DEF h
  <2>5. QED BY <2>3, <2>4, ElementTyped
<1>3. CASE HeaderOk(h) /\ Expect(Le(h[1]) - kRecordHeaderWords, have) /\ UNCHANGED wire /\ Unchanged
  <2> DEFINE n == Le(h[1]) - kRecordHeaderWords
  <2>1. n \in Nat
    <3>1. Le(h[1]) > kRecordHeaderWords
      BY <1>3 DEF HeaderOk
    <3>2. QED BY <1>2, <3>1, LengthsRead
  <2>2. need' = n /\ buf' = SubSeq(have, 1, Min({n, Len(have)})) /\ r_pc' = "body"
    BY <1>3 DEF Expect
  <2>3. Proceeds
    BY <1>1, <1>3 DEF Proceeds, Unchanged
  <2> HIDE DEF n, have
  <2>4. buf' \in Seq(Words) /\ Len(buf') <= n
    BY <1>2, <2>1, <2>2, ExpectFits
  <2>5. Expected
    BY <2>1, <2>2, <2>4 DEF Expected
  <2>6. QED BY <2>3, <2>5, ExpectedKeeps
<1>4. CASE HangUp(opt.keep_listening)
  BY <1>4, HangUpIs, HungUpKeeps
<1>5. QED BY <1>3, <1>4 DEF Header, Desync

LEMMA CheckedRecordKeeps ==
    ASSUME SenderInv, ReaderInv, Len(buf) = 8, mode \in Modes, Len(peek) = 10,
           Header(buf, <<>>)
    PROVE  Reads
<1>1. wire \in Seq(Words)
  BY DEF SenderInv
<1> DEFINE h == buf
           have == <<>>
<1>2. h[1] \in Words /\ have \in Seq(Words)
  <2>1. buf \in Seq(Words) /\ 1 \in 1 .. Len(buf) /\ <<>> \in Seq(Words)
    BY DEF ReaderInv
  <2>2. QED BY <2>1, ElementTyped
<1>3. CASE HeaderOk(h) /\ Expect(Le(h[1]) - kRecordHeaderWords, have) /\ UNCHANGED wire /\ Unchanged
  <2> DEFINE n == Le(h[1]) - kRecordHeaderWords
  <2>1. n \in Nat
    <3>1. Le(h[1]) > kRecordHeaderWords
      BY <1>3 DEF HeaderOk
    <3>2. QED BY <1>2, <3>1, LengthsRead
  <2>2. need' = n /\ buf' = SubSeq(have, 1, Min({n, Len(have)})) /\ r_pc' = "body"
    BY <1>3 DEF Expect
  <2>3. Proceeds
    BY <1>1, <1>3 DEF Proceeds, Unchanged
  <2> HIDE DEF n, have
  <2>4. buf' \in Seq(Words) /\ Len(buf') <= n
    BY <1>2, <2>1, <2>2, ExpectFits
  <2>5. Expected
    BY <2>1, <2>2, <2>4 DEF Expected
  <2>6. QED BY <2>3, <2>5, ExpectedKeeps
<1>4. CASE HangUp(opt.keep_listening)
  BY <1>4, HangUpIs, HungUpKeeps
<1>5. QED BY <1>3, <1>4 DEF Header, Desync

LEMMA PeekedRawKeeps ==
    ASSUME SenderInv, ReaderInv, mode \in Modes, Len(peek) = 10,
           \/ RawOk(peek[1], 10) /\ Expect(Le(peek[1]) + 1, peek) /\ UNCHANGED wire /\ Unchanged
           \/ Desync(RawOk(peek[1], 10))
    PROVE  Reads
<1>1. wire \in Seq(Words) /\ peek \in Seq(Words) /\ peek[1] \in Words
  <2>1. peek \in Seq(Words) /\ 1 \in 1 .. Len(peek)
    BY DEF ReaderInv
  <2>2. QED BY <2>1, ElementTyped DEF SenderInv
<1>2. CASE Expect(Le(peek[1]) + 1, peek) /\ UNCHANGED wire /\ Unchanged
  <2> DEFINE n == Le(peek[1]) + 1
  <2>1. n \in Nat
    BY <1>1, LengthsRead
  <2>2. need' = n /\ buf' = SubSeq(peek, 1, Min({n, Len(peek)})) /\ r_pc' = "body"
    BY <1>2 DEF Expect
  <2>3. Proceeds
    BY <1>1, <1>2 DEF Proceeds, Unchanged
  <2> HIDE DEF n
  <2>4. buf' \in Seq(Words) /\ Len(buf') <= n
    BY <1>1, <2>1, <2>2, ExpectFits
  <2>5. Expected
    BY <2>1, <2>2, <2>4 DEF Expected
  <2>6. QED BY <2>3, <2>5, ExpectedKeeps
<1>3. CASE HangUp(opt.keep_listening)
  BY <1>3, HangUpIs, HungUpKeeps
<1>4. QED BY <1>2, <1>3 DEF Desync

LEMMA CheckedRawKeeps ==
    ASSUME SenderInv, ReaderInv, Len(buf) = 1, mode \in Modes, Len(peek) = 10,
           \/ RawOk(buf[1], 2) /\ Expect(Le(buf[1]) + 1, buf) /\ UNCHANGED wire /\ Unchanged
           \/ Desync(RawOk(buf[1], 2))
    PROVE  Reads
<1>1. wire \in Seq(Words) /\ buf \in Seq(Words) /\ buf[1] \in Words
  <2>1. buf \in Seq(Words) /\ 1 \in 1 .. Len(buf)
    BY DEF ReaderInv
  <2>2. QED BY <2>1, ElementTyped DEF SenderInv
<1>2. CASE Expect(Le(buf[1]) + 1, buf) /\ UNCHANGED wire /\ Unchanged
  <2> DEFINE n == Le(buf[1]) + 1
  <2>1. n \in Nat
    BY <1>1, LengthsRead
  <2>2. need' = n /\ buf' = SubSeq(buf, 1, Min({n, Len(buf)})) /\ r_pc' = "body"
    BY <1>2 DEF Expect
  <2>3. Proceeds
    BY <1>1, <1>2 DEF Proceeds, Unchanged
  <2> HIDE DEF n
  <2>4. buf' \in Seq(Words) /\ Len(buf') <= n
    BY <1>1, <2>1, <2>2, ExpectFits
  <2>5. Expected
    BY <2>1, <2>2, <2>4 DEF Expected
  <2>6. QED BY <2>3, <2>5, ExpectedKeeps
<1>3. CASE HangUp(opt.keep_listening)
  BY <1>3, HangUpIs, HungUpKeeps
<1>4. QED BY <1>2, <1>3 DEF Desync

-----------------------------------------------------------------------------
(* The steps of the reader, one by one.                                    *)
LEMMA FirstRecordKeeps ==
    ASSUME SenderInv, ReaderInv, FirstRecord
    PROVE  Reads
<1>1. Len(peek) = 10
  BY DEF FirstRecord, ReaderInv
<1>2. CASE mode = "emu" /\ FirstEmu
  <2>1. \/ EmuFraming(peek[9], peek[10], <<>>)
        \/ EmuFraming(peek[1], peek[2], SubSeq(peek, 3, 10))
    BY <1>2 DEF FirstEmu
  <2>2. QED BY <1>1, <1>2, <2>1, PeekedEmuKeeps, PeekedBareKeeps
<1>3. CASE mode = "raw" /\ FirstRaw
  <2>1. mode \in Modes
    BY <1>3 DEF Modes
  <2>2. QED BY <1>1, <1>3, <2>1, PeekedRawKeeps DEF FirstRaw
<1>4. CASE mode = "cmsg" /\ Header(SubSeq(peek, 3, 10), <<>>)
  <2>1. mode \in Modes
    BY <1>4 DEF Modes
  <2>2. QED BY <1>1, <1>4, <2>1, PeekedCmsgKeeps
<1>5. CASE mode = "record" /\ Header(SubSeq(peek, 1, 8), SubSeq(peek, 9, 10))
  <2>1. mode \in Modes
    BY <1>5 DEF Modes
  <2>2. QED BY <1>1, <1>5, <2>1, PeekedRecordKeeps
<1>6. QED BY <1>2, <1>3, <1>4, <1>5 DEF FirstRecord

(* The words a second read adds to those of the first.                     *)
LEMMA SecondReads ==
    ASSUME SenderInv, ReaderInv, NEW n \in Nat, Len(wire) >= n
    PROVE  /\ SubSeq(wire, n + 1, Len(wire)) \in Seq(Words)
           /\ buf \o SubSeq(wire, 1, n) \in Seq(Words)
           /\ Len(buf \o SubSeq(wire, 1, n)) = Len(buf) + n
<1> DEFINE more == SubSeq(wire, 1, n)
<1>1. SubSeq(wire, n + 1, Len(wire)) \in Seq(Words) /\ more \in Seq(Words) /\ Len(more) = n
  BY TakeWordsIs
<1>2. buf \in Seq(Words)
  BY DEF ReaderInv
<1> HIDE DEF more
<1>3. buf \o more \in Seq(Words) /\ Len(buf \o more) = Len(buf) + Len(more)
  BY <1>1, <1>2, ConcatTyped
<1>4. QED BY <1>1, <1>3 DEF more

LEMMA CheckedKeeps ==
    ASSUME SenderInv, ReaderInv, Checked
    PROVE  Reads
<1>1. mode \in Modes /\ Len(peek) = 10 /\ need \in Nat /\ Len(buf) = BoundaryWords
  BY DEF Checked, ReaderInv
<1>2. CASE mode = "emu" /\ Second(1)
  <2>1. Len(buf) = 1
    BY <1>1, <1>2 DEF BoundaryWords
  <2>2. CASE /\ Arrived(1) /\ TakeWords(1) /\ buf' = buf \o SubSeq(wire, 1, 1) /\ r_pc' = "framed"
             /\ UNCHANGED <<need, first_record>> /\ Unchanged
    <3>1. Len(wire) >= 1 /\ 1 \in Nat /\ wire' = SubSeq(wire, 1 + 1, Len(wire))
      BY <2>2 DEF Arrived, TakeWords
    <3>2. wire' \in Seq(Words) /\ buf' \in Seq(Words) /\ Len(buf') = Len(buf) + 1
      BY <2>2, <3>1, SecondReads
    <3>3. Proceeds
      BY <2>2, <3>2 DEF Proceeds, Unchanged
    <3>4. Len(buf') = 2
      BY <2>1, <3>2
    <3>5. QED BY <1>1, <1>2, <2>2, <3>2, <3>3, <3>4, ProceedsKeeps
  <2>3. CASE ReadEnds(1, FALSE)
    <3>1. HungUp
      BY <2>3 DEF ReadEnds, HangUp, HungUp
    <3>2. QED BY <3>1, HungUpKeeps
  <2>4. QED BY <1>2, <2>2, <2>3 DEF Second
<1>3. CASE mode = "cmsg" /\ Second(8)
  <2>1. Len(buf) = 2
    BY <1>1, <1>3 DEF BoundaryWords
  <2>2. CASE /\ Arrived(8) /\ TakeWords(8) /\ buf' = buf \o SubSeq(wire, 1, 8) /\ r_pc' = "framed"
             /\ UNCHANGED <<need, first_record>> /\ Unchanged
    <3>1. Len(wire) >= 8 /\ 8 \in Nat /\ wire' = SubSeq(wire, 8 + 1, Len(wire))
      BY <2>2 DEF Arrived, TakeWords
    <3>2. wire' \in Seq(Words) /\ buf' \in Seq(Words) /\ Len(buf') = Len(buf) + 8
      BY <2>2, <3>1, SecondReads
    <3>3. Proceeds
      BY <2>2, <3>2 DEF Proceeds, Unchanged
    <3>4. Len(buf') = 10
      BY <2>1, <3>2
    <3>5. QED BY <1>1, <1>3, <2>2, <3>2, <3>3, <3>4, ProceedsKeeps
  <2>3. CASE ReadEnds(8, FALSE)
    <3>1. HungUp
      BY <2>3 DEF ReadEnds, HangUp, HungUp
    <3>2. QED BY <3>1, HungUpKeeps
  <2>4. QED BY <1>3, <2>2, <2>3 DEF Second
<1>4. CASE mode = "record" /\ Header(buf, <<>>)
  <2>1. Len(buf) = 8
    BY <1>1, <1>4 DEF BoundaryWords
  <2>2. QED BY <1>1, <1>4, <2>1, CheckedRecordKeeps
<1>5. CASE /\ mode = "raw"
           /\ \/ RawOk(buf[1], 2) /\ Expect(Le(buf[1]) + 1, buf) /\ UNCHANGED wire /\ Unchanged
              \/ Desync(RawOk(buf[1], 2))
  <2>1. Len(buf) = 1
    BY <1>1, <1>5 DEF BoundaryWords
  <2>2. QED BY <1>1, <1>5, <2>1, CheckedRawKeeps
<1>6. QED BY <1>2, <1>3, <1>4, <1>5 DEF Checked

LEMMA FramedKeeps ==
    ASSUME SenderInv, ReaderInv, Framed
    PROVE  Reads
<1>1. mode \in Modes /\ Len(peek) = 10 /\ Len(buf) = IF mode = "emu" THEN 2 ELSE 10
  BY DEF Framed, ReaderInv
<1>2. CASE mode = "emu" /\ EmuFraming(buf[1], buf[2], <<>>)
  <2>1. Len(buf) = 2
    BY <1>1, <1>2
  <2>2. QED BY <1>1, <1>2, <2>1, FramedEmuKeeps
<1>3. CASE mode = "cmsg" /\ Header(SubSeq(buf, 3, 10), <<>>)
  <2>1. Len(buf) = 10
    BY <1>1, <1>3
  <2>2. QED BY <1>1, <1>3, <2>1, FramedCmsgKeeps
<1>4. QED BY <1>2, <1>3 DEF Framed

LEMMA IntsKeep ==
    ASSUME SenderInv, ReaderInv, Ints
    PROVE  Reads
<1>1. mode \in Modes /\ Len(peek) = 10 /\ need \in Nat \ {0} /\ buf \in Seq(Words)
  BY DEF Ints, ReaderInv
<1>2. CASE /\ Arrived(need) /\ TakeWords(need)
           /\ \/ EmuOk(wire[need]) /\ Expect(ntohl(wire[need]) \div 4, buf) /\ Unchanged
              \/ r_pc' = "desync" /\ UNCHANGED <<buf, need>> /\ Unchanged
  <2>1. wire \in Seq(Words) /\ Len(wire) >= need /\ need \in 1 .. Len(wire)
    BY <1>1, <1>2 DEF Arrived, SenderInv
  <2>2. wire' \in Seq(Words)
    <3>1. SubSeq(wire, need + 1, Len(wire)) \in Seq(Words)
      BY <1>1, <2>1, TakeWordsIs
    <3>2. QED BY <1>2, <3>1 DEF TakeWords
  <2>3. Proceeds
    BY <1>2, <2>2 DEF Proceeds, Unchanged
  <2>4. CASE Expect(ntohl(wire[need]) \div 4, buf)
    <3> DEFINE n == ntohl(wire[need]) \div 4
    <3>1. n \in Nat
      BY <2>1, ElementTyped, LengthsRead
    <3>2. need' = n /\ buf' = SubSeq(buf, 1, Min({n, Len(buf)})) /\ r_pc' = "body"
      BY <2>4 DEF Expect
    <3> HIDE DEF n
    <3>3. buf' \in Seq(Words) /\ Len(buf') <= n
      BY <1>1, <3>1, <3>2, ExpectFits
    <3>4. Expected
      BY <3>1, <3>2, <3>3 DEF Expected
    <3>5. QED BY <1>1, <2>3, <3>4, ExpectedKeeps
  <2>5. CASE r_pc' = "desync" /\ UNCHANGED <<buf, need>>
    <3>1. need' \in Nat /\ buf' \in Seq(Words)
      BY <1>1, <2>5
    <3>2. QED BY <1>1, <2>3, <2>5, <3>1, ProceedsKeeps
  <2>6. QED BY <1>2, <2>4, <2>5
<1>3. CASE ReadEnds(need, FALSE)
  <2>1. HungUp
    BY <1>3 DEF ReadEnds, HangUp, HungUp
  <2>2. QED BY <2>1, HungUpKeeps
<1>4. QED BY <1>2, <1>3 DEF Ints

LEMMA BodyKeeps ==
    ASSUME SenderInv, ReaderInv, Body
    PROVE  Reads
<1> DEFINE n == need - Len(buf)
<1>1. mode \in Modes /\ Len(peek) = 10 /\ need \in Nat /\ buf \in Seq(Words) /\ Len(buf) <= need
  BY DEF Body, ReaderInv
<1>2. n \in Nat
  BY <1>1
<1>3. CASE /\ Arrived(n) /\ TakeWords(n) /\ buf' = Stripped(buf \o SubSeq(wire, 1, n))
           /\ r_pc' \in {"record", "push"} /\ UNCHANGED need /\ Unchanged
  <2> HIDE DEF n
  <2> DEFINE words == buf \o SubSeq(wire, 1, n)
  <2>1. n = 0 \/ Len(wire) >= n
    BY <1>3 DEF Arrived
  <2>2. SubSeq(wire, n + 1, Len(wire)) \in Seq(Words) /\ SubSeq(wire, 1, n) \in Seq(Words)
    BY <1>2, <2>1, TakeWordsIs
  <2>3. words \in Seq(Words)
    BY <1>1, <2>2, ConcatTyped
  <2> HIDE DEF words
  <2>4. SubSeq(words, kRecordHeaderWords + 1, Len(words)) \in Seq(Words)
    <3>1. kRecordHeaderWords + 1 \in Nat \ {0} /\ Len(words) \in Int /\ Len(words) <= Len(words)
      BY <2>3 DEF kRecordHeaderWords
    <3>2. QED BY <2>3, <3>1, SubSeqTyped
  <2>5. buf' \in Seq(Words)
    <3>1. buf' = Stripped(words)
      BY <1>3 DEF words
    <3>2. buf' \in {words, SubSeq(words, kRecordHeaderWords + 1, Len(words))}
      BY <3>1, Zenon DEF Stripped
    <3>3. QED BY <2>3, <2>4, <3>2
  <2>6. Proceeds
    BY <1>3, <2>2 DEF Proceeds, Unchanged, TakeWords
  <2>7. QED BY <1>1, <1>3, <2>5, <2>6, ProceedsKeeps
<1>4. CASE ReadEnds(n, FALSE)
  <2>1. HungUp
    BY <1>4 DEF ReadEnds, HangUp, HungUp
  <2>2. QED BY <2>1, HungUpKeeps
<1>5. QED
  <2>1. \/ /\ Arrived(n) /\ TakeWords(n) /\ buf' = Stripped(buf \o SubSeq(wire, 1, n))
           /\ r_pc' \in {"record", "push"} /\ UNCHANGED need /\ Unchanged
        \/ ReadEnds(n, FALSE)
    BY DEF Body
  <2>2. QED BY <1>3, <1>4, <2>1

LEMMA ReadStepKeeps ==
    ASSUME SenderInv, ReaderInv, ReadStep
    PROVE  Reads
<1>1. CASE StopAccepting \/ Join
  BY <1>1, WaitsKeep DEF StopAccepting, Join
<1>2. CASE Unrecognised \/ Desynced \/ GiveUp
  BY <1>2, HangUpIs, HungUpKeeps DEF Unrecognised, Desynced, GiveUp
<1>3. QED
  BY <1>1, <1>2, AcceptKeeps, PeekOneKeeps, PeekTenKeeps, FirstRecordKeeps, NextRecordKeeps,
     CheckedKeeps, FramedKeeps, IntsKeep, BodyKeeps DEF ReadStep

LEMMA PushRecordKeeps ==
    ASSUME SenderInv, ReaderInv, PushRecord
    PROVE  SenderInv' /\ ReaderInv'
<1>1. SenderInv'
  BY DEF PushRecord, SenderInv, senderVars, walkVars
<1>2. r_pc' \in {"limit", "record"} /\ records' \in Nat /\ mode \in Modes /\ Len(peek) = 10
  BY DEF PushRecord, ReaderInv
<1>3. ReaderInv'
  BY <1>2 DEF PushRecord, ReaderInv
<1>4. QED BY <1>1, <1>3

LEMMA ReaderKeeps ==
    ASSUME SenderInv, ReaderInv, ReaderStep
    PROVE  SenderInv' /\ ReaderInv'
<1>1. CASE Drain
  BY <1>1, WaitsKeep DEF Drain, Reads
<1>2. QED BY <1>1, ReadStepKeeps, PushRecordKeeps DEF ReaderStep, Reads

-----------------------------------------------------------------------------
(* The words of the blocks.                                                *)
LEMMA WordsOfIs ==
    ASSUME NEW blocks \in Seq(BlocksWritten)
    PROVE  /\ WordsOf(blocks) \in Seq(Words)
           /\ \A block \in BlocksWritten :
                  WordsOf(Append(blocks, block)) = WordsOf(blocks) \o block.words
<1> DEFINE n == Len(blocks)
           ws == [b \in DOMAIN blocks |-> blocks[b].words]
<1>1. n \in Nat /\ DOMAIN blocks = 1 .. n
  OBVIOUS
<1>2. \A b \in 1 .. n : blocks[b] \in BlocksWritten
  OBVIOUS
<1>3. \A b \in 1 .. n : blocks[b].words \in Seq(Words)
  BY <1>2 DEF BlocksWritten
<1>4. ws \in [1 .. n -> Seq(Words)]
  BY <1>1, <1>3, Zenon
<1> HIDE DEF ws
<1>5. ws \in Seq(Seq(Words)) /\ Len(ws) = n
  BY <1>1, <1>4, FunctionsAreSequences, Zenon
<1>6. WordsOf(blocks) = FlattenSeq(ws)
  BY DEF WordsOf, ws
<1>7. WordsOf(blocks) \in Seq(Words)
  BY <1>5, <1>6, FlattenTyped
<1>8. ASSUME NEW block \in BlocksWritten
      PROVE  WordsOf(Append(blocks, block)) = WordsOf(blocks) \o block.words
  <2> DEFINE more == Append(blocks, block)
             w == block.words
             vs == [b \in DOMAIN more |-> more[b].words]
  <2>1. w \in Seq(Words)
    BY DEF BlocksWritten
  <2>2. /\ DOMAIN more = 1 .. n + 1 /\ more[n + 1] = block
        /\ \A b \in 1 .. n : more[b] = blocks[b]
    OBVIOUS
  <2>3. /\ DOMAIN vs = 1 .. n + 1 /\ vs[n + 1] = w
        /\ \A b \in 1 .. n : vs[b] = blocks[b].words
    <3>1. n + 1 \in 1 .. n + 1 /\ \A b \in 1 .. n : b \in 1 .. n + 1
      BY <1>1
    <3>2. \A b \in 1 .. n + 1 : vs[b] = more[b].words
      BY <2>2, Zenon
    <3>3. DOMAIN vs = 1 .. n + 1
      BY <2>2, Zenon
    <3> HIDE DEF more
    <3>4. \A b \in 1 .. n : vs[b] = blocks[b].words
      BY <2>2, <3>1, <3>2, Zenon
    <3>5. vs[n + 1] = w
      BY <2>2, <3>1, <3>2, Zenon
    <3>6. QED BY <3>3, <3>4, <3>5
  <2>4. vs = [b \in DOMAIN vs |-> vs[b]]
    OBVIOUS
  <2>5. WordsOf(more) = FlattenSeq(vs)
    BY DEF WordsOf
  <2> HIDE DEF more, vs, w
  <2>6. \A b \in 1 .. n : ws[b] = blocks[b].words
    BY <1>1 DEF ws
  <2>7. vs = Append(ws, w)
    <3>1. Append(ws, w) \in Seq(Seq(Words)) /\ Len(Append(ws, w)) = n + 1
      BY <1>1, <1>5, <2>1
    <3>2. \A b \in 1 .. n : Append(ws, w)[b] = ws[b]
      BY <1>5
    <3>3. Append(ws, w)[n + 1] = w
      BY <1>5
    <3>4. \A b \in 1 .. n + 1 : vs[b] = Append(ws, w)[b]
      <4>1. \A b \in 1 .. n + 1 : b \in 1 .. n \/ b = n + 1
        BY <1>1
      <4>2. QED BY <2>3, <2>6, <3>2, <3>3, <4>1, Zenon
    <3>5. \A b \in 1 .. n + 1 : vs[b] \in Seq(Words)
      <4>1. \A b \in 1 .. n + 1 : b \in 1 .. n \/ b = n + 1
        BY <1>1
      <4>2. QED BY <1>3, <2>1, <2>3, <4>1, Zenon
    <3>6. vs \in [1 .. n + 1 -> Seq(Words)]
      BY <2>3, <2>4, <3>5, Zenon
    <3>7. vs \in Seq(Seq(Words)) /\ Len(vs) = n + 1
      <4>1. n + 1 \in Nat
        BY <1>1
      <4>2. QED BY <3>6, <4>1, FunctionsAreSequences, Zenon
    <3>8. QED BY <3>1, <3>4, <3>7, SequencesAlike
  <2>8. FlattenSeq(Append(ws, w)) = FlattenSeq(ws) \o w
    BY <1>5, <2>1, FlattenAppend
  <2>9. QED BY <1>6, <2>5, <2>7, <2>8 DEF more, w
<1>9. QED BY <1>7, <1>8

(* The words of the records of the ring.                                   *)
LEMMA QueueTyped ==
    ASSUME RingInv
    PROVE  Queue \in Seq(Seq(Words)) /\ FlattenSeq(Queue) \in Seq(Words)
<1>1. m_buffer \in Buffers /\ m_read_pos \in Nat /\ m_records \in Nat
  BY CapacityAssumption DEF RingInv, RingHolds
<1>2. Queue \in Seq(Seq(Words))
  BY <1>1, RecordsAre DEF Queue
<1>3. QED BY <1>2, FlattenTyped

-----------------------------------------------------------------------------
(* The steps on the ring.                                                  *)
LEMMA PushIs ==
    ASSUME RingInv, Push(buf), buf \in Seq(Words), UNCHANGED disk
    PROVE  /\ RingInv'
           /\ disk' = "good" => Queue' = Append(Queue, buf)
<1>1. CASE m_shutdown
  <2>1. UNCHANGED ringVars
    BY <1>1 DEF Push
  <2>2. RingInv'
    BY <2>1 DEF RingInv, ringVars
  <2>3. QED BY <1>1, <2>2 DEF RingInv
<1>2. CASE ~m_shutdown
  <2>1. /\ Needed(buf) <= Capacity - m_used
        /\ m_buffer' = CopyIn(<<LengthWord(Len(buf))>> \o buf)
        /\ m_write_pos' = (m_write_pos + Needed(buf)) % Capacity
        /\ m_used' = m_used + Needed(buf) /\ m_records' = m_records + 1
        /\ UNCHANGED <<m_read_pos, m_shutdown>>
    <3>1. m_used \in Int /\ Capacity \in Int /\ Needed(buf) \in Int
      BY CapacityAssumption DEF RingInv, RingHolds, Needed
    <3>2. Capacity - m_used >= Needed(buf)
      BY <1>2 DEF Push, HasRoom
    <3>3. QED BY <1>2, <3>1, <3>2 DEF Push
  <2> DEFINE filled == CopyIn(<<LengthWord(Len(buf))>> \o buf)
  <2>2. filled = Written(m_buffer, m_write_pos, <<LengthWord(Len(buf))>> \o buf)
    BY DEF CopyIn, Written
  <2>3. RingHolds(m_buffer, m_read_pos, m_write_pos, m_used, m_records)
    BY DEF RingInv
  <2> HIDE DEF filled
  <2>4. /\ RingHolds(filled, m_read_pos, (m_write_pos + Needed(buf)) % Capacity,
                     m_used + Needed(buf), m_records + 1)
        /\ RecordsIn(filled, m_read_pos, m_records + 1)
               = Append(RecordsIn(m_buffer, m_read_pos, m_records), buf)
    BY <2>1, <2>2, <2>3, PushKeeps
  <2>5. m_buffer' = filled
    BY <2>1 DEF filled
  <2>6. RingHolds(m_buffer', m_read_pos', m_write_pos', m_used', m_records')
    BY <2>1, <2>4, <2>5
  <2>7. RecordsIn(m_buffer', m_read_pos', m_records') = Append(Queue, buf)
    BY <2>1, <2>4, <2>5 DEF Queue
  <2>8. m_shutdown' => disk' = "failed"
    BY <2>1 DEF RingInv
  <2>9. RingInv'
    BY <2>6, <2>8 DEF RingInv
  <2>10. QED BY <2>7, <2>9 DEF Queue
<1>3. QED BY <1>1, <1>2

LEMMA PopIs ==
    ASSUME RingInv, Pop, UNCHANGED disk
    PROVE  RingInv' /\ Oldest \in Seq(Words) /\ Queue = <<Oldest>> \o Queue'
<1> DEFINE first == Oldest
<1>1. /\ m_records > 0 /\ UNCHANGED <<m_buffer, m_write_pos, m_shutdown>>
      /\ m_read_pos' = (m_read_pos + Needed(first)) % Capacity
      /\ m_used' = m_used - Needed(first) /\ m_records' = m_records - 1
  BY DEF Pop
<1>2. IsOldest(first, m_buffer, m_read_pos)
  BY DEF Oldest, CopyOut, IsOldest
<1>3. RingHolds(m_buffer, m_read_pos, m_write_pos, m_used, m_records)
  BY DEF RingInv
<1> HIDE DEF first
<1>4. /\ first \in Seq(Words)
      /\ RingHolds(m_buffer, (m_read_pos + Needed(first)) % Capacity, m_write_pos,
                   m_used - Needed(first), m_records - 1)
      /\ RecordsIn(m_buffer, m_read_pos, m_records)
             = <<first>> \o RecordsIn(m_buffer, (m_read_pos + Needed(first)) % Capacity, m_records - 1)
  BY <1>1, <1>2, <1>3, PopKeeps
<1>5. RingHolds(m_buffer', m_read_pos', m_write_pos', m_used', m_records')
  BY <1>1, <1>4
<1>6. RecordsIn(m_buffer, m_read_pos, m_records) = <<first>> \o RecordsIn(m_buffer', m_read_pos', m_records')
  BY <1>1, <1>4
<1>7. m_shutdown' => disk' = "failed"
  BY <1>1 DEF RingInv
<1>8. RingInv'
  BY <1>5, <1>7 DEF RingInv
<1>9. QED BY <1>4, <1>6, <1>8 DEF Queue, first

-----------------------------------------------------------------------------
(* The writer.                                                             *)
LEMMA EndsEmpty ==
    ASSUME NEW T, NEW s \in Seq(T)
    PROVE  s \o <<>> = s /\ <<>> \o s = s
OBVIOUS

LEMMA HeldTyped ==
    ASSUME WriterInv, RingInv
    PROVE  /\ WordsOf(output) \in Seq(Words) /\ block_body \in Seq(Words)
           /\ popped \in Seq(Words) /\ FlattenSeq(Queue) \in Seq(Words)
           /\ Held \in Seq(Words)
<1>1. WordsOf(output) \in Seq(Words) /\ FlattenSeq(Queue) \in Seq(Words)
  BY WordsOfIs, QueueTyped DEF WriterInv
<1>2. block_body \in Seq(Words) /\ popped \in Seq(Words)
  BY DEF WriterInv
<1> DEFINE a == WordsOf(output)
           d == FlattenSeq(Queue)
<1>3. Held = a \o block_body \o popped \o d /\ a \in Seq(Words) /\ d \in Seq(Words)
  BY <1>1 DEF Held
<1> HIDE DEF a, d
<1>4. a \o block_body \in Seq(Words)
  BY <1>2, <1>3, ConcatTyped
<1>5. a \o block_body \o popped \in Seq(Words)
  BY <1>2, <1>4, ConcatTyped
<1>6. a \o block_body \o popped \o d \in Seq(Words)
  BY <1>3, <1>5, ConcatTyped
<1>7. QED BY <1>1, <1>2, <1>3, <1>6

LEMMA FlushIs ==
    ASSUME WriterInv, RingInv, Flush
    PROVE  /\ output' \in Seq(BlocksWritten) /\ block_body' \in Seq(Words) /\ block_events' \in Nat
           /\ RingInv'
           /\ disk' = "good" =>
                WordsOf(output') \o block_body' = WordsOf(output) \o block_body /\ Queue' = Queue
<1>1. /\ output \in Seq(BlocksWritten) /\ block_body \in Seq(Words) /\ block_events \in Nat
      /\ WordsOf(output) \in Seq(Words)
  BY HeldTyped DEF WriterInv
<1>2. BlockOf(TRUE) \in BlocksWritten /\ BlockOf(FALSE) \in BlocksWritten
  BY <1>1 DEF BlockOf, BlocksWritten
<1>3. CASE /\ disk = "good" /\ output' = Append(output, BlockOf(TRUE))
           /\ block_body' = <<>> /\ block_events' = 0 /\ UNCHANGED <<disk, ringVars>>
  <2>1. output' \in Seq(BlocksWritten) /\ block_body' \in Seq(Words)
    <3> DEFINE block == BlockOf(TRUE)
    <3>1. block \in BlocksWritten /\ output' = Append(output, block)
      BY <1>2, <1>3
    <3> HIDE DEF block
    <3>2. Append(output, block) \in Seq(BlocksWritten)
      BY <1>1, <3>1
    <3>3. <<>> \in Seq(Words)
      OBVIOUS
    <3>4. QED BY <1>3, <3>1, <3>2, <3>3, Zenon
  <2>2. WordsOf(output') = WordsOf(output) \o block_body
    <3>1. WordsOf(Append(output, BlockOf(TRUE))) = WordsOf(output) \o BlockOf(TRUE).words
      BY <1>1, <1>2, WordsOfIs
    <3>2. BlockOf(TRUE).words = block_body
      BY DEF BlockOf
    <3>3. QED BY <1>3, <3>1, <3>2
  <2>3. WordsOf(output') \o block_body' = WordsOf(output) \o block_body
    <3> DEFINE w == WordsOf(output) \o block_body
    <3>1. w \in Seq(Words)
      BY <1>1, ConcatTyped
    <3>2. w \o <<>> = w
      <4> HIDE DEF w
      <4>1. QED BY <3>1, EndsEmpty
    <3>3. QED BY <1>3, <2>2, <3>2
  <2>4. RingInv' /\ Queue' = Queue
    BY <1>3 DEF RingInv, ringVars, Queue
  <2>5. QED BY <1>3, <2>1, <2>3, <2>4
<1>4. CASE /\ disk' = "failed" /\ Shutdown /\ output' = Append(output, BlockOf(FALSE))
           /\ UNCHANGED <<block_body, block_events>>
  <2>1. output' \in Seq(BlocksWritten)
    <3> DEFINE block == BlockOf(FALSE)
    <3>1. block \in BlocksWritten /\ output' = Append(output, block)
      BY <1>2, <1>4
    <3> HIDE DEF block
    <3>2. QED BY <1>1, <3>1
  <2>2. RingInv'
    BY <1>4 DEF RingInv, Shutdown
  <2>3. QED BY <1>1, <1>4, <2>1, <2>2
<1>5. CASE disk = "failed" /\ UNCHANGED <<output, block_body, block_events, disk, ringVars>>
  <2>1. RingInv'
    BY <1>5 DEF RingInv, ringVars
  <2>2. QED BY <1>1, <1>5, <2>1
<1>6. QED BY <1>3, <1>4, <1>5 DEF Flush

LEMMA WriterKeeps ==
    ASSUME WriterInv, RingInv, WriterStep
    PROVE  WriterInv' /\ RingInv' /\ (disk' = "good" => Held' = Held)
<1>1. /\ output \in Seq(BlocksWritten) /\ block_body \in Seq(Words) /\ block_events \in Nat
      /\ popped \in Seq(Words)
      /\ WordsOf(output) \in Seq(Words) /\ FlattenSeq(Queue) \in Seq(Words)
  BY HeldTyped DEF WriterInv
<1>2. CASE WriterPop
  <2>1. w_pc = "pop" /\ Pop /\ popped' = Oldest /\ w_pc' = "append"
        /\ UNCHANGED <<block_body, block_events, output, disk>>
    BY <1>2 DEF WriterPop
  <2>2. popped = <<>>
    BY <2>1 DEF WriterInv
  <2>3. RingInv' /\ Oldest \in Seq(Words) /\ Queue = <<Oldest>> \o Queue'
    BY <2>1, PopIs
  <2>4. WriterInv'
    BY <2>1, <2>3 DEF WriterInv
  <2> DEFINE rest == FlattenSeq(Queue')
             a == WordsOf(output) \o block_body
             first == Oldest
  <2>5. FlattenSeq(Queue) = first \o rest /\ rest \in Seq(Words)
    <3> DEFINE q == Queue
               r == Queue'
    <3>1. q \in Seq(Seq(Words))
      BY QueueTyped
    <3>2. r \in Seq(Seq(Words))
      <4>1. m_buffer' \in Buffers /\ m_read_pos' \in Nat /\ m_records' \in Nat
        BY <2>3, CapacityAssumption DEF RingInv, RingHolds
      <4>2. QED BY <4>1, RecordsAre DEF Queue
    <3>3. q = <<first>> \o r /\ first \in Seq(Words)
      BY <2>3
    <3>4. rest = FlattenSeq(r)
      OBVIOUS
    <3> HIDE DEF q, r, first, rest
    <3>5. q # <<>> /\ q[1] = first /\ Tail(q) = r
      BY <3>2, <3>3
    <3>6. FlattenSeq(q) = first \o FlattenSeq(r)
      BY <3>1, <3>5, FlattenTail
    <3>7. FlattenSeq(r) \in Seq(Words)
      BY <3>2, FlattenTyped
    <3>8. QED BY <3>4, <3>6, <3>7 DEF q
  <2>6. a \in Seq(Words)
    BY <1>1, ConcatTyped
  <2>7. Held' = a \o first \o rest
    BY <2>1 DEF Held
  <2>8. Held = a \o <<>> \o (first \o rest)
    BY <2>2, <2>5 DEF Held
  <2>9. first \in Seq(Words)
    BY <2>3
  <2> HIDE DEF a, first, rest
  <2>10. a \o <<>> = a
    BY <2>6, EndsEmpty
  <2>11. a \o (first \o rest) = (a \o first) \o rest
    BY <2>5, <2>6, <2>9, ConcatAssociates
  <2>12. Held' = Held
    BY <2>7, <2>8, <2>10, <2>11, Zenon
  <2>13. QED BY <2>3, <2>4, <2>12
<1>3. CASE FlushFull
  <2>1. Flush /\ w_pc' = "insert" /\ UNCHANGED popped
    BY <1>3 DEF FlushFull
  <2>2. /\ output' \in Seq(BlocksWritten) /\ block_body' \in Seq(Words) /\ block_events' \in Nat
        /\ RingInv'
        /\ disk' = "good" =>
             WordsOf(output') \o block_body' = WordsOf(output) \o block_body /\ Queue' = Queue
    BY <2>1, FlushIs
  <2>3. WriterInv'
    BY <1>1, <2>1, <2>2 DEF WriterInv
  <2>4. ASSUME disk' = "good" PROVE Held' = Held
    <3>1. Held' = WordsOf(output') \o block_body' \o popped \o FlattenSeq(Queue')
      BY <2>1 DEF Held
    <3>2. QED BY <2>2, <2>4, <3>1 DEF Held
  <2>5. QED BY <2>2, <2>3, <2>4
<1>4. CASE Insert
  <2>1. /\ block_body' = block_body \o popped /\ block_events' = block_events + 1
        /\ popped' = <<>> /\ w_pc' = "pop" /\ UNCHANGED <<output, disk, ringVars>>
    BY <1>4 DEF Insert
  <2>2. RingInv' /\ Queue' = Queue
    BY <2>1 DEF RingInv, ringVars, Queue
  <2>3. WriterInv'
    <3>1. block_body' \in Seq(Words) /\ block_events' \in Nat /\ popped' \in Seq(Words)
      BY <1>1, <2>1, ConcatTyped
    <3>2. QED BY <1>1, <2>1, <3>1 DEF WriterInv
  <2> DEFINE a == WordsOf(output)
             d == FlattenSeq(Queue)
             s == a \o block_body \o popped
  <2>4. Held' = a \o (block_body \o popped) \o <<>> \o d
    BY <2>1, <2>2 DEF Held
  <2>5. Held = s \o d
    BY DEF Held
  <2>6. a \in Seq(Words)
    BY <1>1
  <2> HIDE DEF a, d
  <2>7. a \o (block_body \o popped) = s
    <3>1. block_body \in Seq(Words) /\ popped \in Seq(Words)
      BY <1>1
    <3>2. a \o (block_body \o popped) = (a \o block_body) \o popped
      BY ONLY <2>6, <3>1, ConcatAssociates
    <3>3. QED BY <3>2, Zenon
  <2>8. s \in Seq(Words)
    <3>1. a \o block_body \in Seq(Words)
      BY <1>1, <2>6, ConcatTyped
    <3>2. QED BY <1>1, <3>1, ConcatTyped
  <2> HIDE DEF s
  <2>9. s \o <<>> = s
    BY <2>8, EndsEmpty
  <2>10. Held' = Held
    BY <2>4, <2>5, <2>7, <2>9, Zenon
  <2>11. QED BY <2>2, <2>3, <2>10
<1>5. CASE FlushLast
  <2>1. w_pc' = "done" /\ UNCHANGED popped
    BY <1>5 DEF FlushLast
  <2>2. CASE UNCHANGED <<output, block_body, block_events, disk, ringVars>>
    <3>1. RingInv' /\ Queue' = Queue
      BY <2>2 DEF RingInv, ringVars, Queue
    <3>2. WriterInv'
      BY <1>1, <2>1, <2>2 DEF WriterInv
    <3>3. Held' = Held
      BY <2>1, <2>2, <3>1 DEF Held
    <3>4. QED BY <3>1, <3>2, <3>3
  <2>3. CASE Flush
    <3>1. /\ output' \in Seq(BlocksWritten) /\ block_body' \in Seq(Words) /\ block_events' \in Nat
          /\ RingInv'
          /\ disk' = "good" =>
               WordsOf(output') \o block_body' = WordsOf(output) \o block_body /\ Queue' = Queue
      BY <2>3, FlushIs
    <3>2. WriterInv'
      BY <1>1, <2>1, <3>1 DEF WriterInv
    <3>3. ASSUME disk' = "good" PROVE Held' = Held
      <4>1. Held' = WordsOf(output') \o block_body' \o popped \o FlattenSeq(Queue')
        BY <2>1 DEF Held
      <4>2. QED BY <3>1, <3>3, <4>1 DEF Held
    <3>4. QED BY <3>1, <3>2, <3>3
  <2>4. QED BY <1>5, <2>2, <2>3 DEF FlushLast
<1>6. QED BY <1>2, <1>3, <1>4, <1>5 DEF WriterStep

-----------------------------------------------------------------------------
(* Every step.                                                             *)
LEMMA StreamInitially ==
    ASSUME StreamInit
    PROVE  StreamInv
<1>1. SenderInv
  <2>1. senders \in Seq(SenderType) /\ senders # <<>>
    BY SessionsAssumption DEF StreamInit
  <2>2. QED BY <2>1 DEF StreamInit, SenderInit, SenderInv
<1>2. ReaderInv
  BY DEF StreamInit, RecvInit, ReaderInv
<1>3. WriterInv
  BY DEF StreamInit, RecvInit, WriterInv
<1>4. RingInv
  <2>1. /\ m_buffer = [p \in 0 .. Capacity - 1 |-> LengthWord(0)]
        /\ m_read_pos = 0 /\ m_write_pos = 0 /\ m_used = 0 /\ m_records = 0 /\ m_shutdown = FALSE
    BY DEF StreamInit, RecvInit, RingInit
  <2>2. m_buffer \in Buffers
    <3>1. LengthWord(0) \in Words
      BY DEF LengthWord, Words
    <3>2. QED BY <2>1, <3>1, Zenon DEF Buffers
  <2>3. 0 \in 0 .. Capacity - 1 /\ 0 \in 0 .. Capacity /\ 0 \in Nat
    BY CapacityAssumption
  <2>4. Offsets(m_buffer, 0, 0)[0] = 0
    BY <2>2, <2>3, OffsetsAre DEF AreOffsets
  <2>5. Place(0, 0) = 0
    BY <2>3, PlaceIs
  <2>6. QED BY <2>1, <2>2, <2>3, <2>4, <2>5 DEF RingInv, RingHolds
<1>5. QED BY <1>1, <1>2, <1>3, <1>4 DEF StreamInv

HandOver == disk' = "good" => Held' = IF records' = records THEN Held ELSE Held \o buf

LEMMA SameHeld ==
    ASSUME WriterInv, RingInv, UNCHANGED <<writerVars, m_buffer, m_read_pos, m_write_pos, m_used, m_records, m_shutdown>>
    PROVE  WriterInv' /\ RingInv' /\ Held' = Held
BY DEF WriterInv, RingInv, writerVars, Held, Queue

LEMMA StreamStep ==
    ASSUME StreamInv, [StreamNext]_streamVars
    PROVE  StreamInv' /\ HandOver
<1> USE DEF StreamInv
<1>1. CASE Sends \/ Dies
  <2>1. SenderInv'
    BY <1>1, SenderKeeps DEF Sends, Dies
  <2>2. UNCHANGED recvVars
    BY <1>1 DEF Sends, Dies
  <2>3. ReaderInv' /\ records' = records
    BY <2>2 DEF ReaderInv, BoundaryWords, recvVars, readerVars
  <2>4. WriterInv' /\ RingInv' /\ Held' = Held
    BY <2>2, SameHeld DEF recvVars, ringVars
  <2>5. QED BY <2>1, <2>3, <2>4 DEF HandOver
<1>2. CASE ReaderStep
  <2>1. SenderInv' /\ ReaderInv' /\ UNCHANGED writerVars
    BY <1>2, ReaderKeeps DEF ReaderStep
  <2>2. CASE ReadStep
    <3>1. records' = records
      BY <2>2, ReadStepKeeps DEF Reads
    <3>2. UNCHANGED ringVars
      BY <2>2 DEF ReadStep
    <3>3. WriterInv' /\ RingInv' /\ Held' = Held
      BY <2>1, <3>2, SameHeld DEF ringVars
    <3>4. QED BY <2>1, <3>1, <3>3 DEF HandOver
  <2>3. CASE PushRecord
    <3>1. Push(buf) /\ records' = records + 1 /\ UNCHANGED disk /\ buf \in Seq(Words) /\ records \in Nat
      BY <2>1, <2>3 DEF PushRecord, ReaderInv, writerVars
    <3>2. RingInv' /\ (disk' = "good" => Queue' = Append(Queue, buf))
      BY <3>1, PushIs
    <3>3. WriterInv'
      BY <2>1 DEF WriterInv, writerVars
    <3>4. ASSUME disk' = "good" PROVE Held' = Held \o buf
      <4> DEFINE s == WordsOf(output) \o block_body \o popped
                 q == Queue
      <4>1. q \in Seq(Seq(Words))
        BY QueueTyped
      <4>2. Held = s \o FlattenSeq(q)
        BY DEF Held
      <4>3. Held' = s \o FlattenSeq(Append(q, buf))
        BY <2>1, <3>2, <3>4 DEF Held, writerVars
      <4>4. s \in Seq(Words)
        <5>1. /\ WordsOf(output) \in Seq(Words) /\ block_body \in Seq(Words) /\ popped \in Seq(Words)
          BY HeldTyped
        <5>2. WordsOf(output) \o block_body \in Seq(Words)
          BY <5>1, ConcatTyped
        <5>3. QED BY <5>1, <5>2, ConcatTyped
      <4> HIDE DEF s, q
      <4>5. FlattenSeq(Append(q, buf)) = FlattenSeq(q) \o buf /\ FlattenSeq(q) \in Seq(Words)
        BY <3>1, <4>1, FlattenAppend, FlattenTyped
      <4>6. s \o (FlattenSeq(q) \o buf) = (s \o FlattenSeq(q)) \o buf
        BY <3>1, <4>4, <4>5, ConcatAssociates
      <4>7. QED BY <4>2, <4>3, <4>5, <4>6, Zenon
    <3>5. records' # records
      BY <3>1
    <3>6. QED BY <2>1, <3>2, <3>3, <3>4, <3>5 DEF HandOver
  <2>4. CASE Drain
    <3>1. records' = records /\ UNCHANGED <<m_buffer, m_read_pos, m_write_pos, m_used, m_records, m_shutdown>>
      BY <2>4 DEF Drain, SetEof
    <3>2. WriterInv' /\ RingInv' /\ Held' = Held
      BY <2>1, <3>1, SameHeld
    <3>3. QED BY <2>1, <3>1, <3>2 DEF HandOver
  <2>5. QED BY <1>2, <2>2, <2>3, <2>4 DEF ReaderStep
<1>3. CASE WriterStep
  <2>1. UNCHANGED <<senderVars, readerVars>>
    BY <1>3 DEF WriterStep, WriterPop, FlushFull, Insert, FlushLast
  <2>2. SenderInv' /\ ReaderInv' /\ records' = records
    BY <2>1 DEF SenderInv, ReaderInv, BoundaryWords, senderVars, walkVars, readerVars
  <2>3. QED BY <1>3, <2>2, WriterKeeps DEF HandOver
<1>4. CASE Interrupt \/ UNCHANGED streamVars
  <2>1. UNCHANGED <<senderVars, readerVars, writerVars, ringVars>>
    BY <1>4 DEF Interrupt, streamVars, recvVars
  <2>2. SenderInv' /\ ReaderInv' /\ records' = records
    BY <2>1 DEF SenderInv, ReaderInv, BoundaryWords, senderVars, walkVars, readerVars
  <2>3. WriterInv' /\ RingInv' /\ Held' = Held
    BY <2>1, SameHeld DEF ringVars
  <2>4. QED BY <2>2, <2>3 DEF HandOver
<1>5. QED BY <1>1, <1>2, <1>3, <1>4 DEF StreamNext

(* The ring is a queue in a circle, at every step of its two threads: what *)
(* its counters, its two positions and the lengths before the records say  *)
(* goes together, and the writer sees whole records (sro_recv.cc:58-96).   *)
THEOREM StreamInvariant == StreamSpec => []StreamInv
<1>1. StreamInit => StreamInv
  BY StreamInitially
<1>2. StreamInv /\ [StreamNext]_streamVars => StreamInv'
  BY StreamStep
<1>3. QED BY <1>1, <1>2, PTL DEF StreamSpec

(* While the disk works, no step of a process, of a thread or of Ctrl-C    *)
(* changes a word between the reader and the file, or its place, but for   *)
(* the record that is counted, which becomes the last (sro_recv.cc:56).    *)
THEOREM NothingIsDropped == StreamSpec => HandedOver
<1>1. StreamInv /\ [StreamNext]_streamVars
      => [disk' = "good" => Held' = IF records' = records THEN Held ELSE Held \o buf]_streamVars
  BY StreamStep DEF HandOver
<1>2. QED BY <1>1, StreamInvariant, PTL DEF StreamSpec, HandedOver
=============================================================================
