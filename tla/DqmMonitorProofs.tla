-------------------------- MODULE DqmMonitorProofs --------------------------
(***************************************************************************)
(* Proofs about the data quality monitor, for every mapping, selection of  *)
(* events, display and size of the tables, and whatever the network        *)
(* answers: the samples that are written (SamplesWritten), the energy of   *)
(* the clusters (EnergyKept), the APVs of the peaks (PeaksOnTheirApv) and  *)
(* the stages of gemreco beside the factories (StagesArePorted), for any   *)
(* number of slots; the plots of an event (PlotsTogether) and the tracks   *)
(* of its clusters (MarkersOwn), for one slot, the way the monitor is      *)
(* started.                                                                *)
(***************************************************************************)
EXTENDS DqmMonitor, ProofFacts, FiniteSetTheorems

(* Where the processors of a slot are: before the event is counted by the  *)
(* first of the two that count, between the counts, behind the second.     *)
GemSteps   == {"gem raw", "gem apv", "pedestals", "apvs", "planes", "gem plane", "peaks",
               "gem samples"}
CountedOnce == GemSteps \cup {"gem select", "fpga count", "fpga counted"}
CountedTwice == {"idle", "fpga send", "fpga sent", "fpga receive", "fpga plots", "trd"}
Labels == {"gem count", "gem counted", "crashed"} \cup CountedOnce \cup CountedTwice

(* Only the slot whose turn it is moves.                                   *)
LEMMA GoesTo ==
    ASSUME pc \in [Slots -> Labels], NEW s \in Slots, NEW here, NEW there \in Labels,
           GoTo(s, here, there)
    PROVE  /\ pc[s] = here /\ pc'[s] = there /\ pc' \in [Slots -> Labels]
           /\ \A r \in Slots \ {s} : pc'[r] = pc[r]
BY DEF GoTo

-----------------------------------------------------------------------------
(* One slot.  The counters of the two processors count the events taken.   *)
OneSlot == \E s : Slots = {s}

(* At a place, with an event of a number, of so many; the counters, and    *)
(* the one that was read.                                                  *)
CountedAt(at, id, taken, gem, fpga, read) ==
    /\ id = taken
    /\ at \in {"gem count", "gem counted"} => gem = taken - 1 /\ fpga = taken - 1
    /\ at \in CountedOnce => gem = taken /\ fpga = taken - 1
    /\ at \in CountedTwice => gem = taken /\ fpga = taken
    /\ at = "gem counted" => read = gem
    /\ at = "fpga counted" => read = fpga

(* What an event that is taken, the two reads and the two writes do to it. *)
LEMMA CountedNext ==
    ASSUME NEW id, NEW n \in Int, NEW g, NEW f, NEW r
    PROVE  /\ CountedAt("idle", id, n, g, f, r) => CountedAt("gem count", n + 1, n + 1, g, f, r)
           /\ CountedAt("gem count", id, n, g, f, r) => CountedAt("gem counted", id, n, g, f, g)
           /\ CountedAt("gem counted", id, n, g, f, r) => CountedAt("gem select", id, n, r + 1, f, r)
           /\ CountedAt("fpga count", id, n, g, f, r) => CountedAt("fpga counted", id, n, g, f, f)
           /\ CountedAt("fpga counted", id, n, g, f, r) => CountedAt("fpga send", id, n, g, r + 1, r)
           /\ CountedAt("fpga counted", id, n, g, f, r) => CountedAt("trd", id, n, g, r + 1, r)
BY DEF CountedAt, CountedOnce, CountedTwice, GemSteps

OwnNumber(p) == p.sub # "trd" => p.dir = p.event

CountTypes ==
    /\ source \in [file : Nat, number : Nat, taken : Nat]
    /\ pc \in [Slots -> Labels]
    /\ DOMAIN ev = Slots
    /\ m_total_event_num \in [gem : Int, fpga : Int]
    /\ seen \in [Slots -> Int]

Counts(s) == CountedAt(pc[s], ev[s].id, source.taken, m_total_event_num.gem,
                       m_total_event_num.fpga, seen[s])

CountInv ==
    /\ CountTypes
    /\ \A s \in Slots : Counts(s)
    /\ \A p \in plots : OwnNumber(p)

LEMMA CountInit == Init => CountInv
<1> SUFFICES ASSUME Init PROVE CountInv
  OBVIOUS
<1>1. CountTypes /\ plots = {}
  BY DEF Init, CountTypes, Labels, CountedTwice
<1>2. ASSUME NEW s \in Slots PROVE Counts(s)
  <2>1. pc[s] = "idle" /\ ev[s].id = 0 /\ source.taken = 0 /\ m_total_event_num.gem = 0
        /\ m_total_event_num.fpga = 0
    BY DEF Init, NoEvent
  <2>2. QED BY <2>1 DEF Counts, CountedAt, CountedOnce, GemSteps
<1>3. QED BY <1>1, <1>2 DEF CountInv

(* A step from one place to another that takes no event and counts none.   *)
LEMMA CountsStay ==
    ASSUME OneSlot, CountInv, NEW s \in Slots, NEW here, NEW there, GoTo(s, here, there),
           UNCHANGED <<source, ev, m_total_event_num, seen>>,
           \A p \in plots' : OwnNumber(p),
           \/ here \in CountedOnce /\ there \in CountedOnce \ {"fpga counted"}
           \/ here \in CountedTwice /\ there \in CountedTwice
           \/ there = "crashed"
    PROVE  CountInv'
<1>1. there \in Labels /\ pc \in [Slots -> Labels]
  BY DEF Labels, CountInv, CountTypes
<1>2. pc[s] = here /\ pc'[s] = there /\ pc' \in [Slots -> Labels]
  BY <1>1, GoesTo
<1>3. CountTypes'
  BY <1>2 DEF CountTypes, CountInv
<1>4. Counts(s)
  BY DEF CountInv
<1>5. Counts(s)'
  BY <1>2, <1>4 DEF Counts, CountedAt, CountedOnce, CountedTwice, GemSteps
<1>6. \A r \in Slots : r = s
  BY DEF OneSlot
<1>7. QED BY <1>3, <1>5, <1>6 DEF CountInv

(* A plot of the processors that count is drawn under the number counted.  *)
LEMMA PlotAdded ==
    ASSUME CountInv, NEW s \in Slots, NEW n, NEW sub, n = ev[s].id \/ sub = "trd"
    PROVE  \A p \in plots \cup {GetPerEventSubDir(n, sub, s)} : OwnNumber(p)
BY DEF CountInv, OwnNumber, GetPerEventSubDir

LEMMA NumbersCounted ==
    ASSUME CountInv, NEW s \in Slots
    PROVE  /\ pc[s] \in CountedOnce \cup CountedTwice => GemNumber(s) = ev[s].id
           /\ pc[s] \in CountedTwice => m_total_event_num.fpga = ev[s].id
BY DEF CountInv, Counts, CountedAt, GemNumber

LEMMA GemKeepsCount ==
    ASSUME OneSlot, CountInv, NEW s \in Slots, Gem(s)
    PROVE  CountInv'
<1> USE DEF GemSteps, CountedOnce
<1>0. pc \in [Slots -> Labels] /\ Counts(s) /\ \A p \in plots : OwnNumber(p)
  BY DEF CountInv, CountTypes
<1>00. \A r \in Slots : r = s
  BY DEF OneSlot
<1>1. CASE GemCount(s)
  <2>1. GoTo(s, "gem count", "gem counted") /\ "gem counted" \in Labels
    BY <1>1 DEF GemCount, Labels
  <2>2. pc[s] = "gem count" /\ pc'[s] = "gem counted" /\ pc' \in [Slots -> Labels]
    BY <1>0, <2>1, GoesTo
  <2>3. /\ UNCHANGED <<source, ev, m_total_event_num, plots>>
        /\ seen' = [seen EXCEPT ![s] = m_total_event_num.gem]
    BY <1>1 DEF GemCount, ReadCounter
  <2>4. CountTypes' /\ seen'[s] = m_total_event_num.gem
    BY <2>2, <2>3 DEF CountInv, CountTypes
  <2>5. Counts(s)'
    <3>1. source.taken \in Int
      BY DEF CountInv, CountTypes
    <3>2. CountedAt("gem count", ev[s].id, source.taken, m_total_event_num.gem, m_total_event_num.fpga, seen[s])
      BY <1>0, <2>2, Zenon DEF Counts
    <3>3. CountedAt("gem counted", ev[s].id, source.taken, m_total_event_num.gem, m_total_event_num.fpga, m_total_event_num.gem)
      BY <3>1, <3>2, CountedNext, Zenon
    <3>4. source' = source /\ ev' = ev /\ m_total_event_num' = m_total_event_num
      BY <2>3
    <3>5. QED BY <2>2, <2>4, <3>3, <3>4, Zenon DEF Counts
  <2>6. QED BY <1>0, <1>00, <2>3, <2>4, <2>5 DEF CountInv
<1>2. CASE GemCounted(s)
  <2>1. GoTo(s, "gem counted", "gem select") /\ "gem select" \in Labels
    BY <1>2 DEF GemCounted, Labels
  <2>2. pc[s] = "gem counted" /\ pc'[s] = "gem select" /\ pc' \in [Slots -> Labels]
    BY <1>0, <2>1, GoesTo
  <2>3. /\ UNCHANGED <<source, ev, seen, plots>>
        /\ m_total_event_num' = [m_total_event_num EXCEPT !.gem = seen[s] + 1]
    BY <1>2 DEF GemCounted, WriteCounter
  <2>4. /\ CountTypes' /\ m_total_event_num'.gem = seen[s] + 1
        /\ m_total_event_num'.fpga = m_total_event_num.fpga
    <3>1. /\ m_total_event_num = [gem |-> m_total_event_num.gem, fpga |-> m_total_event_num.fpga]
          /\ m_total_event_num.gem \in Int /\ m_total_event_num.fpga \in Int /\ seen[s] \in Int
      BY DEF CountInv, CountTypes
    <3>. m_total_event_num' = [gem |-> seen[s] + 1, fpga |-> m_total_event_num.fpga]
      BY <2>3, <3>1
    <3>2. /\ m_total_event_num' \in [gem : Int, fpga : Int]
          /\ m_total_event_num'.gem = seen[s] + 1
          /\ m_total_event_num'.fpga = m_total_event_num.fpga
      BY <3>1
    <3>3. QED BY <2>2, <2>3, <3>2 DEF CountInv, CountTypes
  <2>5. Counts(s)'
    <3>1. source.taken \in Int
      BY DEF CountInv, CountTypes
    <3>2. CountedAt("gem counted", ev[s].id, source.taken, m_total_event_num.gem, m_total_event_num.fpga, seen[s])
      BY <1>0, <2>2, Zenon DEF Counts
    <3>3. CountedAt("gem select", ev[s].id, source.taken, seen[s] + 1, m_total_event_num.fpga, seen[s])
      BY <3>1, <3>2, CountedNext, Zenon
    <3>4. source' = source /\ ev' = ev /\ seen' = seen
      BY <2>3
    <3>5. QED BY <2>2, <2>4, <3>3, <3>4, Zenon DEF Counts
  <2>6. QED BY <1>0, <1>00, <2>3, <2>4, <2>5 DEF CountInv
<1>3. CASE GemSelect(s)
  <2>1. UNCHANGED <<source, ev, m_total_event_num, seen, plots>>
    BY <1>3 DEF GemSelect
  <2>2. GoTo(s, "gem select", "gem raw") \/ GoTo(s, "gem select", "fpga count")
    BY <1>3 DEF GemSelect
  <2>3. QED BY <1>0, <2>1, <2>2, CountsStay
<1>4. CASE FillEventRawData(s)
  <2>1. /\ GoTo(s, "gem raw", "gem apv") /\ UNCHANGED <<source, ev, m_total_event_num, seen>>
        /\ plots' \subseteq plots \cup {GetPerEventSubDir(GemNumber(s), "gem_raw", s)}
    BY <1>4 DEF FillEventRawData
  <2>2. pc[s] = "gem raw"
    BY <2>1 DEF GoTo
  <2>3. \A p \in plots \cup {GetPerEventSubDir(GemNumber(s), "gem_raw", s)} : OwnNumber(p)
    BY <2>2, NumbersCounted, PlotAdded
  <2>4. QED BY <2>1, <2>3, CountsStay
<1>5. CASE MakeRawData(s)
  <2>1. GoTo(s, "gem apv", "pedestals") /\ UNCHANGED <<source, ev, m_total_event_num, seen, plots>>
    BY <1>5 DEF MakeRawData
  <2>2. QED BY <1>0, <2>1, CountsStay
<1>6. CASE MakePedestal(s)
  <2>1. GoTo(s, "pedestals", "apvs") /\ UNCHANGED <<source, ev, m_total_event_num, seen, plots>>
    BY <1>6 DEF MakePedestal
  <2>2. QED BY <1>0, <2>1, CountsStay
<1>7. CASE FillApvDecodedData(s)
  <2>1. /\ GoTo(s, "apvs", "planes") /\ UNCHANGED <<source, ev, m_total_event_num, seen>>
        /\ plots' \subseteq plots \cup {GetPerEventSubDir(GemNumber(s), "gem_apv", s)}
    BY <1>7 DEF FillApvDecodedData
  <2>2. pc[s] = "apvs"
    BY <2>1 DEF GoTo
  <2>3. \A p \in plots \cup {GetPerEventSubDir(GemNumber(s), "gem_apv", s)} : OwnNumber(p)
    BY <2>2, NumbersCounted, PlotAdded
  <2>4. QED BY <2>1, <2>3, CountsStay
<1>8. CASE MakePlanes(s)
  <2>1. GoTo(s, "planes", "gem plane") /\ UNCHANGED <<source, ev, m_total_event_num, seen, plots>>
    BY <1>8 DEF MakePlanes
  <2>2. QED BY <1>0, <2>1, CountsStay
<1>9. CASE FillEventPlaneData(s)
  <2>1. UNCHANGED <<source, ev, m_total_event_num, seen>>
    BY <1>9 DEF FillEventPlaneData
  <2>2. CASE /\ GoTo(s, "gem plane", "peaks")
             /\ plots' = plots \cup {GetPerEventSubDir(GemNumber(s), "gem_plane", s)}
    <3>1. pc[s] = "gem plane"
      BY <2>2 DEF GoTo
    <3>2. \A p \in plots' : OwnNumber(p)
      BY <2>2, <3>1, NumbersCounted, PlotAdded
    <3>3. QED BY <2>1, <2>2, <3>2, CountsStay
  <2>3. CASE GoTo(s, "gem plane", "crashed") /\ plots' = plots
    BY <1>0, <2>1, <2>3, CountsStay
  <2>4. QED BY <1>9, <2>2, <2>3 DEF FillEventPlaneData
<1>10. CASE MakePeaks(s)
  <2>1. GoTo(s, "peaks", "gem samples") /\ UNCHANGED <<source, ev, m_total_event_num, seen, plots>>
    BY <1>10 DEF MakePeaks
  <2>2. QED BY <1>0, <2>1, CountsStay
<1>11. CASE FillSampleData(s)
  <2>1. GoTo(s, "gem samples", "fpga count") /\ UNCHANGED <<source, ev, m_total_event_num, seen, plots>>
    BY <1>11 DEF FillSampleData
  <2>2. QED BY <1>0, <2>1, CountsStay
<1>12. QED BY <1>1, <1>2, <1>3, <1>4, <1>5, <1>6, <1>7, <1>8, <1>9, <1>10, <1>11 DEF Gem

LEMMA FpgaKeepsCount ==
    ASSUME OneSlot, CountInv, NEW s \in Slots, Fpga(s)
    PROVE  CountInv'
<1> USE DEF CountedTwice
<1>0. pc \in [Slots -> Labels] /\ Counts(s) /\ \A p \in plots : OwnNumber(p)
  BY DEF CountInv, CountTypes
<1>00. \A r \in Slots : r = s
  BY DEF OneSlot
<1>1. CASE FpgaCount(s)
  <2>1. GoTo(s, "fpga count", "fpga counted") /\ "fpga counted" \in Labels
    BY <1>1 DEF FpgaCount, Labels, CountedOnce
  <2>2. pc[s] = "fpga count" /\ pc'[s] = "fpga counted" /\ pc' \in [Slots -> Labels]
    BY <1>0, <2>1, GoesTo
  <2>3. /\ UNCHANGED <<source, ev, m_total_event_num, plots>>
        /\ seen' = [seen EXCEPT ![s] = m_total_event_num.fpga]
    BY <1>1 DEF FpgaCount, ReadCounter
  <2>4. CountTypes' /\ seen'[s] = m_total_event_num.fpga
    BY <2>2, <2>3 DEF CountInv, CountTypes
  <2>5. Counts(s)'
    <3>1. source.taken \in Int
      BY DEF CountInv, CountTypes
    <3>2. CountedAt("fpga count", ev[s].id, source.taken, m_total_event_num.gem, m_total_event_num.fpga, seen[s])
      BY <1>0, <2>2, Zenon DEF Counts
    <3>3. CountedAt("fpga counted", ev[s].id, source.taken, m_total_event_num.gem, m_total_event_num.fpga, m_total_event_num.fpga)
      BY <3>1, <3>2, CountedNext, Zenon
    <3>4. source' = source /\ ev' = ev /\ m_total_event_num' = m_total_event_num
      BY <2>3
    <3>5. QED BY <2>2, <2>4, <3>3, <3>4, Zenon DEF Counts
  <2>6. QED BY <1>0, <1>00, <2>3, <2>4, <2>5 DEF CountInv
<1>2. CASE FpgaCounted(s)
  <2>1. /\ m_total_event_num = [gem |-> m_total_event_num.gem, fpga |-> m_total_event_num.fpga]
        /\ m_total_event_num.gem \in Int /\ m_total_event_num.fpga \in Int /\ seen[s] \in Int
        /\ source.taken \in Int
    BY DEF CountInv, CountTypes
  <2>2. /\ UNCHANGED <<source, ev, seen, plots>>
        /\ m_total_event_num' = [m_total_event_num EXCEPT !.fpga = seen[s] + 1]
    BY <1>2 DEF FpgaCounted, WriteCounter
  <2>3. m_total_event_num' = [gem |-> m_total_event_num.gem, fpga |-> seen[s] + 1]
    BY <2>1, <2>2
  <2>4. /\ m_total_event_num' \in [gem : Int, fpga : Int]
        /\ m_total_event_num'.fpga = seen[s] + 1
        /\ m_total_event_num'.gem = m_total_event_num.gem
    BY <2>1, <2>3
  <2>5. ASSUME NEW there \in Labels, GoTo(s, "fpga counted", there), there \in {"fpga send", "trd"}
        PROVE  CountInv'
    <3>1. pc[s] = "fpga counted" /\ pc'[s] = there /\ pc' \in [Slots -> Labels]
      BY <1>0, <2>5, GoesTo
    <3>2. CountTypes'
      BY <2>2, <2>4, <3>1 DEF CountInv, CountTypes
    <3>3. CountedAt("fpga counted", ev[s].id, source.taken, m_total_event_num.gem,
                    m_total_event_num.fpga, seen[s])
      BY <1>0, <3>1, Zenon DEF Counts
    <3>4. CountedAt(there, ev[s].id, source.taken, m_total_event_num.gem, seen[s] + 1, seen[s])
      <4>1. CASE there = "fpga send"
        BY <2>1, <3>3, <4>1, CountedNext, Zenon
      <4>2. CASE there = "trd"
        BY <2>1, <3>3, <4>2, CountedNext, Zenon
      <4>3. QED BY <2>5, <4>1, <4>2
    <3>5. source' = source /\ ev' = ev /\ seen' = seen
      BY <2>2
    <3>6. Counts(s)'
      BY <2>4, <3>1, <3>4, <3>5, Zenon DEF Counts
    <3>7. QED BY <1>0, <1>00, <2>2, <3>2, <3>6 DEF CountInv
  <2>6. "fpga send" \in Labels /\ "trd" \in Labels
    BY DEF Labels
  <2>7. QED BY <1>2, <2>5, <2>6 DEF FpgaCounted
<1>3. CASE FillBuffer(s)
  <2>1. GoTo(s, "fpga send", "fpga sent") /\ UNCHANGED <<source, ev, m_total_event_num, seen, plots>>
    BY <1>3 DEF FillBuffer
  <2>2. QED BY <1>0, <2>1, CountsStay
<1>4. CASE SendRaw(s)
  <2>1. GoTo(s, "fpga sent", "fpga receive") /\ UNCHANGED <<source, ev, m_total_event_num, seen, plots>>
    BY <1>4 DEF SendRaw
  <2>2. QED BY <1>0, <2>1, CountsStay
<1>5. CASE RecvRaw(s)
  <2>1. GoTo(s, "fpga receive", "fpga plots") /\ UNCHANGED <<source, ev, m_total_event_num, seen, plots>>
    BY <1>5 DEF RecvRaw
  <2>2. QED BY <1>0, <2>1, CountsStay
<1>6. CASE FpgaPlots(s)
  <2>1. UNCHANGED <<source, ev, m_total_event_num, seen>>
    BY <1>6 DEF FpgaPlots
  <2>2. CASE /\ GoTo(s, "fpga plots", "trd")
             /\ plots' = plots \cup {GetPerEventSubDir(m_total_event_num.fpga, "fpgacon", s)}
    <3>1. pc[s] = "fpga plots"
      BY <2>2 DEF GoTo
    <3>2. \A p \in plots' : OwnNumber(p)
      BY <2>2, <3>1, NumbersCounted, PlotAdded
    <3>3. QED BY <2>1, <2>2, <3>2, CountsStay
  <2>3. CASE GoTo(s, "fpga plots", "crashed") /\ plots' = plots
    BY <1>0, <2>1, <2>3, CountsStay
  <2>4. QED BY <1>6, <2>2, <2>3 DEF FpgaPlots
<1>7. QED BY <1>1, <1>2, <1>3, <1>4, <1>5, <1>6 DEF Fpga

LEMMA CountKept ==
    ASSUME OneSlot, CountInv, [Next]_vars
    PROVE  CountInv'
<1>1. PICK s : Slots = {s}
  BY DEF OneSlot
<1>2. s \in Slots /\ pc \in [Slots -> Labels] /\ Counts(s) /\ \A p \in plots : OwnNumber(p)
  BY <1>1 DEF CountInv, CountTypes
<1>3. CASE NextFile
  <2>1. /\ UNCHANGED <<pc, ev, m_total_event_num, seen, plots>>
        /\ source' \in [file : Nat, number : Nat, taken : Nat] /\ source'.taken = source.taken
    <3>1. /\ UNCHANGED <<pc, ev, m_total_event_num, seen, plots>>
          /\ source' = [source EXCEPT !.file = source.file + 1, !.number = 0]
      BY <1>3 DEF NextFile, eventVars
    <3>2. /\ source = [file |-> source.file, number |-> source.number, taken |-> source.taken]
          /\ source.file \in Nat /\ source.number \in Nat /\ source.taken \in Nat
      BY DEF CountInv, CountTypes
    <3>3. source' = [file |-> source.file + 1, number |-> 0, taken |-> source.taken]
      BY <3>1, <3>2
    <3>4. QED BY <3>1, <3>2, <3>3
  <2>2. QED BY <2>1 DEF CountInv, CountTypes, Counts
<1>4. CASE Take(s)
  <2>1. PICK e \in Events :
            ev' = [ev EXCEPT ![s] = [id |-> source.taken + 1, run |-> source.file,
                                     number |-> source.number + 1,
                                     items |-> e.items, records |-> e.records]]
    BY <1>4 DEF Take
  <2>2. DOMAIN ev = Slots
    BY DEF CountInv, CountTypes
  <2>3. DOMAIN ev' = Slots /\ ev'[s].id = source.taken + 1
    BY <1>2, <2>1, <2>2
  <2>4. GoTo(s, "idle", "gem count") /\ "gem count" \in Labels
    BY <1>4 DEF Take, Labels
  <2>5. pc[s] = "idle" /\ pc' \in [Slots -> Labels] /\ pc'[s] = "gem count"
    BY <1>2, <2>4, GoesTo
  <2>6. source' \in [file : Nat, number : Nat, taken : Nat] /\ source'.taken = source.taken + 1
    <3>1. source' = [source EXCEPT !.number = source.number + 1, !.taken = source.taken + 1]
      BY <1>4 DEF Take
    <3>2. /\ source = [file |-> source.file, number |-> source.number, taken |-> source.taken]
          /\ source.file \in Nat /\ source.number \in Nat /\ source.taken \in Nat
      BY DEF CountInv, CountTypes
    <3>3. source' = [file |-> source.file, number |-> source.number + 1, taken |-> source.taken + 1]
      BY <3>1, <3>2
    <3>4. QED BY <3>1, <3>2, <3>3
  <2>7. UNCHANGED <<m_total_event_num, seen, plots>>
    BY <1>4 DEF Take
  <2>8. CountTypes'
    BY <2>3, <2>5, <2>6, <2>7 DEF CountInv, CountTypes
  <2>9. source.taken \in Int
    BY DEF CountInv, CountTypes
  <2>10. Counts(s)'
    <3>1. CountedAt("idle", ev[s].id, source.taken, m_total_event_num.gem,
                    m_total_event_num.fpga, seen[s])
      BY <1>2, <2>5, Zenon DEF Counts
    <3>2. CountedAt("gem count", source.taken + 1, source.taken + 1, m_total_event_num.gem,
                    m_total_event_num.fpga, seen[s])
      BY <2>9, <3>1, CountedNext, Zenon
    <3>3. m_total_event_num' = m_total_event_num /\ seen' = seen
      BY <2>7
    <3>4. QED BY <2>3, <2>5, <2>6, <3>2, <3>3, Zenon DEF Counts
  <2>11. QED BY <1>1, <1>2, <2>7, <2>8, <2>10 DEF CountInv
<1>5. CASE Gem(s)
  BY <1>2, <1>5, GemKeepsCount
<1>6. CASE Fpga(s)
  BY <1>2, <1>6, FpgaKeepsCount
<1>7. CASE FillTrdHistogram(s)
  <2>1. /\ GoTo(s, "trd", "idle") /\ UNCHANGED <<source, ev, m_total_event_num, seen>>
        /\ plots' \subseteq plots \cup {GetPerEventSubDir(ev[s].number, "trd", s)}
    BY <1>7 DEF FillTrdHistogram
  <2>2. \A p \in plots \cup {GetPerEventSubDir(ev[s].number, "trd", s)} : OwnNumber(p)
    BY <1>2, PlotAdded
  <2>3. QED BY <1>2, <2>1, <2>2, CountsStay DEF CountedTwice
<1>8. CASE UNCHANGED vars
  BY <1>8 DEF vars, eventVars, slotVars, CountInv, CountTypes, Counts, OwnNumber
<1>9. QED BY <1>1, <1>3, <1>4, <1>5, <1>6, <1>7, <1>8 DEF Next

(* With one slot, the plots of the GEM and of the FPGA in a directory are  *)
(* of one event, however many files begin their numbers again: each plot   *)
(* is drawn under the total number of its event.                           *)
THEOREM PlotsTogether ==
    ASSUME OneSlot PROVE Spec => []EventPlotsTogether
<1>1. CountInv => EventPlotsTogether
  BY DEF CountInv, OwnNumber, EventPlotsTogether
<1>2. QED BY <1>1, CountInit, CountKept, PTL DEF Spec
-----------------------------------------------------------------------------
(* The greatest of some numbers, and the extremes of two.                  *)
LEMMA GreatestOf ==
    ASSUME NEW n \in Nat, NEW S \in SUBSET (1 .. n), S # {}
    PROVE  Max(S) \in S /\ \A k \in S : k <= Max(S)
<1> DEFINE T == {n - k : k \in S}
<1>1. T \in SUBSET Nat /\ T # {}
  <2>1. \A k \in S : n - k \in Nat
    <3>1. \A k \in S : k \in 1 .. n
      OBVIOUS
    <3>2. QED BY <3>1
  <2>2. T \subseteq Nat
    BY <2>1
  <2>3. PICK k \in S : TRUE
    OBVIOUS
  <2>4. n - k \in T
    OBVIOUS
  <2>5. QED BY <2>2, <2>4
<1>2. PICK l \in T : \A k \in T : l <= k
  <2> HIDE DEF T
  <2>1. QED BY <1>1, LeastNumber
<1>3. PICK m \in S : l = n - m
  OBVIOUS
<1>4. ASSUME NEW k \in S PROVE m >= k
  <2>1. n - k \in T
    OBVIOUS
  <2>2. l <= n - k
    BY <1>2, <2>1
  <2>3. QED BY <1>3, <2>2
<1>5. Max(S) \in S /\ \A k \in S : Max(S) >= k
  BY <1>4 DEF Max
<1>6. QED BY <1>5

LEMMA LeastOf ==
    ASSUME NEW S \in SUBSET Nat, S # {}
    PROVE  Min(S) \in S /\ \A k \in S : Min(S) <= k
<1>1. \E m \in S : \A k \in S : m <= k
  BY LeastNumber
<1>2. QED BY <1>1 DEF Min

LEMMA OfTwo ==
    ASSUME NEW a \in Int, NEW b \in Int
    PROVE  /\ Min({a, b}) = IF a <= b THEN a ELSE b
           /\ Max({a, b}) = IF a >= b THEN a ELSE b
BY DEF Min, Max

-----------------------------------------------------------------------------
(* The display holds samples.                                              *)
LEMMA DisplayHolds ==
    ASSUME NEW records \in Seq([slot : Nat, ch : Nat, samples : Seq(Nat)]),
           NEW place \in DOMAIN Display(records)
    PROVE  Display(records)[place] \in Nat
<1> DEFINE K(x) == {d[1] : d \in {e \in Drawn(records) : PlaceOf(records, e) = x}}
           S == K(place)
           n == Len(records)
<1>1. /\ place \in {PlaceOf(records, d) : d \in Drawn(records)}
      /\ Display(records)[place] = records[Max(S)].samples[NX - place[1] + 1 + TimeWindowStart]
  BY DEF Display
<1>2. PICK p \in Drawn(records) : place = PlaceOf(records, p)
  BY <1>1
<1>3. n \in Nat /\ DOMAIN records = 1 .. n
  OBVIOUS
<1>4. ASSUME NEW d \in Drawn(records)
      PROVE  d[1] \in 1 .. n /\ d[2] \in DOMAIN records[d[1]].samples
  <2>1. PICK k \in DOMAIN records : \E t \in DOMAIN records[k].samples : d = <<k, t>>
    BY Zenon DEF Drawn
  <2>2. QED BY <1>3, <2>1
<1>5. S # {} /\ S \in SUBSET (1 .. n)
  <2>1. p[1] \in S
    BY <1>2
  <2>2. \A x \in S : x \in 1 .. n
    BY <1>4
  <2>3. QED BY <2>1, <2>2
<1>6. Max(S) \in S
  <2> HIDE DEF S, n
  <2>1. QED BY <1>3, <1>5, GreatestOf
<1>7. PICK q \in Drawn(records) : PlaceOf(records, q) = place /\ Max(S) = q[1]
  <2> HIDE DEF Drawn
  <2>1. QED BY <1>6
<1>8. q[1] \in 1 .. n /\ q[2] \in DOMAIN records[q[1]].samples
  BY <1>4, <1>7
<1>9. records[q[1]].samples \in Seq(Nat)
  <2>1. records[q[1]] \in [slot : Nat, ch : Nat, samples : Seq(Nat)]
    <3> DEFINE T == [slot : Nat, ch : Nat, samples : Seq(Nat)]
    <3>1. records \in Seq(T) /\ q[1] \in DOMAIN records
      BY <1>3, <1>8
    <3> HIDE DEF T
    <3>2. records[q[1]] \in T
      BY <3>1
    <3>3. QED BY <3>2 DEF T
  <2>2. QED BY <2>1
<1>10. q[2] \in Nat /\ records[q[1]].samples[q[2]] \in Nat
  <2> DEFINE samples == records[q[1]].samples
  <2>1. samples \in Seq(Nat) /\ q[2] \in DOMAIN samples
    BY <1>8, <1>9
  <2> HIDE DEF samples
  <2>2. q[2] \in Nat /\ samples[q[2]] \in Nat
    BY <2>1
  <2>3. QED BY <2>2 DEF samples
<1>11. place[1] = NX - (q[2] - 1 - TimeWindowStart)
  BY <1>7 DEF PlaceOf
<1>12. q[2] = NX - place[1] + 1 + TimeWindowStart
  BY <1>10, <1>11, TrdAssumption
<1>13. Display(records)[place] = records[q[1]].samples[q[2]]
  BY <1>1, <1>7, <1>12
<1>14. QED BY <1>10, <1>13

-----------------------------------------------------------------------------
(* A table of clusters, each of them of one place or more.                 *)
Cluster == [pos_x : Int, pos_z : Int, dedx : Nat \ {0}, size : Nat,
            width : Int \X Int, length : Int \X Int]

LEMMA WeightedIsInt ==
    ASSUME NEW a \in Int, NEW b \in Int, NEW e \in Nat \ {0}, NEW f \in Nat \ {0}
    PROVE  Weighted(a, e, b, f) \in Int
<1> DEFINE p == a * e
           q == b * f
<1>1. p \in Int /\ q \in Int /\ e + f \in Nat \ {0}
  OBVIOUS
<1>2. Weighted(a, e, b, f) = (p + q) \div (e + f)
  BY DEF Weighted
<1> HIDE DEF p, q
<1>3. QED BY <1>1, <1>2

LEMMA GrowIsCluster ==
    ASSUME NEW c \in Cluster, NEW x \in Int, NEW y \in Int, NEW e \in Nat \ {0}
    PROVE  Grow(c, x, y, e) \in Cluster /\ Grow(c, x, y, e).dedx = c.dedx + e
<1>1. /\ c.pos_x \in Int /\ c.pos_z \in Int /\ c.dedx \in Nat \ {0} /\ c.size \in Nat
      /\ c.width[1] \in Int /\ c.width[2] \in Int /\ c.length[1] \in Int /\ c.length[2] \in Int
  BY DEF Cluster
<1> DEFINE px == Weighted(y, e, c.pos_x, c.dedx)
           pz == Weighted(x, e, c.pos_z, c.dedx)
           w1 == Min({c.width[1], y})
           w2 == Max({c.width[2], y})
           l1 == Min({c.length[1], x})
           l2 == Max({c.length[2], x})
<1>2. px \in Int /\ pz \in Int
  BY <1>1, WeightedIsInt
<1>3. w1 \in Int /\ w2 \in Int /\ l1 \in Int /\ l2 \in Int
  <2>1. /\ w1 = IF c.width[1] <= y THEN c.width[1] ELSE y
        /\ w2 = IF c.width[2] >= y THEN c.width[2] ELSE y
        /\ l1 = IF c.length[1] <= x THEN c.length[1] ELSE x
        /\ l2 = IF c.length[2] >= x THEN c.length[2] ELSE x
    BY <1>1, OfTwo
  <2> HIDE DEF w1, w2, l1, l2
  <2>2. QED BY <1>1, <2>1
<1>4. Grow(c, x, y, e) = [pos_x |-> px, pos_z |-> pz, dedx |-> c.dedx + e, size |-> c.size + 1,
                          width |-> <<w1, w2>>, length |-> <<l1, l2>>]
  BY DEF Grow
<1> HIDE DEF px, pz, w1, w2, l1, l2
<1>5. QED BY <1>1, <1>2, <1>3, <1>4 DEF Cluster

LEMMA NewIsCluster ==
    ASSUME NEW x \in Int, NEW y \in Int, NEW e \in Nat \ {0}
    PROVE  NewCluster(x, y, e) \in Cluster /\ NewCluster(x, y, e).dedx = e
BY DEF NewCluster, Cluster

(* A place joins a cluster, begins one, or finds the table full.           *)
Joined(cs, ds, e) ==
    \E j \in DOMAIN cs : /\ Len(ds) = Len(cs) /\ ds[j].dedx = cs[j].dedx + e
                         /\ \A k \in DOMAIN cs \ {j} : ds[k] = cs[k]
Begun(cs, ds, e) ==
    /\ Len(ds) = Len(cs) + 1 /\ ds[Len(ds)].dedx = e
    /\ \A k \in DOMAIN cs : ds[k] = cs[k]
Full(cs) == Len(cs) + 1 >= MaxClust

LEMMA PlaceAdded ==
    ASSUME NEW cs \in Seq(Cluster), NEW x \in Int, NEW y \in Int, NEW e \in Nat \ {0}
    PROVE  /\ AddPlace(cs, x, y, e) \in Seq(Cluster)
           /\ \/ Joined(cs, AddPlace(cs, x, y, e), e)
              \/ Begun(cs, AddPlace(cs, x, y, e), e)
              \/ AddPlace(cs, x, y, e) = cs /\ Full(cs)
<1> DEFINE near == {k \in DOMAIN cs : IsNear(cs[k], x, y)}
           j == Min(near)
           grown == Grow(cs[j], x, y, e)
           new == NewCluster(x, y, e)
<1>0. Len(cs) \in Nat /\ DOMAIN cs = 1 .. Len(cs) /\ \A k \in 1 .. Len(cs) : cs[k] \in Cluster
  OBVIOUS
<1>1. CASE near # {}
  <2>1. near \in SUBSET Nat /\ near \subseteq DOMAIN cs
    BY <1>0
  <2>2. j \in DOMAIN cs
    <3> HIDE DEF near
    <3>1. QED BY <1>1, <2>1, LeastOf
  <2>3. AddPlace(cs, x, y, e) = [cs EXCEPT ![j] = grown]
    BY <1>1 DEF AddPlace
  <2>4. grown \in Cluster /\ grown.dedx = cs[j].dedx + e
    BY <1>0, <2>2, GrowIsCluster
  <2> HIDE DEF grown, j, near
  <2>5. [cs EXCEPT ![j] = grown] \in Seq(Cluster) /\ Len([cs EXCEPT ![j] = grown]) = Len(cs)
    BY <2>2, <2>4
  <2>6. /\ [cs EXCEPT ![j] = grown][j] = grown
        /\ \A k \in DOMAIN cs \ {j} : [cs EXCEPT ![j] = grown][k] = cs[k]
    BY <2>2
  <2>7. QED BY <2>2, <2>3, <2>4, <2>5, <2>6 DEF Joined
<1>2. CASE near = {} /\ cs # <<>> /\ Len(cs) + 1 >= MaxClust
  <2>1. AddPlace(cs, x, y, e) = cs
    BY <1>2 DEF AddPlace
  <2>2. QED BY <1>2, <2>1 DEF Full
<1>3. CASE near = {} /\ ~(cs # <<>> /\ Len(cs) + 1 >= MaxClust)
  <2>1. AddPlace(cs, x, y, e) = Append(cs, new)
    BY <1>3 DEF AddPlace
  <2>2. new \in Cluster /\ new.dedx = e
    BY NewIsCluster
  <2> HIDE DEF new
  <2>3. Append(cs, new) \in Seq(Cluster) /\ Len(Append(cs, new)) = Len(cs) + 1
    BY <2>2
  <2>4. Append(cs, new)[Len(cs) + 1] = new /\ \A k \in DOMAIN cs : Append(cs, new)[k] = cs[k]
    BY <2>2
  <2>5. QED BY <2>1, <2>2, <2>3, <2>4 DEF Begun
<1>4. QED BY <1>1, <1>2, <1>3

-----------------------------------------------------------------------------
(* Sums.                                                                   *)
IsSum(g, f, n) == g \in [0 .. n -> Nat] /\ g[0] = 0 /\ \A k \in 1 .. n : g[k] = g[k - 1] + f[k]

LEMMA SumToIs ==
    ASSUME NEW n \in Nat, NEW f, \A k \in 1 .. n : f[k] \in Nat
    PROVE  \E g : IsSum(g, f, n) /\ SumTo(f, n) = g[n]
<1> DEFINE step == [x \in (1 .. n) \X Nat |-> x[2] + f[x[1]]]
           Is(g) == g = [k \in 0 .. n |-> IF k = 0 THEN 0 ELSE g[k - 1] + f[k]]
           sum == CHOOSE g : Is(g)
<1>1. step \in [(1 .. n) \X Nat -> Nat]
  OBVIOUS
<1>2. PICK h : FollowsStep(h, Nat, n, 0, step)
  <2> HIDE DEF step
  <2>1. QED BY <1>1, RecursionExists
<1>3. h \in [0 .. n -> Nat] /\ h[0] = 0 /\ \A k \in 1 .. n : h[k] = step[<<k, h[k - 1]>>]
  BY <1>2 DEF FollowsStep
<1>4. \A k \in 1 .. n : h[k] = h[k - 1] + f[k]
  <2>1. \A k \in 1 .. n : k - 1 \in 0 .. n
    OBVIOUS
  <2>2. \A k \in 1 .. n : h[k - 1] \in Nat
    BY <1>3, <2>1
  <2>3. QED BY <1>3, <2>2
<1>5. Is(h)
  <2>1. \A k \in 0 .. n : k # 0 => k \in 1 .. n
    OBVIOUS
  <2>2. QED BY <1>3, <1>4, <2>1
<1>6. Is(sum)
  <2> HIDE DEF Is
  <2>1. QED BY <1>5
<1> HIDE DEF sum
<1>7. sum[0] = 0 /\ \A k \in 1 .. n : sum[k] = sum[k - 1] + f[k]
  BY <1>6
<1>8. \A k \in 0 .. n : sum[k] \in Nat
  <2> DEFINE U == {k \in 0 .. n : sum[k] \in Nat}
  <2>1. 0 \in U
    BY <1>7
  <2>2. ASSUME NEW k \in 0 .. n - 1, k \in U PROVE k + 1 \in U
    <3>1. k + 1 \in 1 .. n /\ k + 1 \in 0 .. n /\ (k + 1) - 1 = k
      OBVIOUS
    <3>2. sum[k + 1] = sum[k] + f[k + 1] /\ f[k + 1] \in Nat
      BY <1>7, <3>1
    <3>3. QED BY <2>2, <3>1, <3>2
  <2> HIDE DEF U
  <2>3. 0 .. n \subseteq U
    BY <2>1, <2>2, IntervalByInduction
  <2>4. QED BY <2>3 DEF U
<1>9. sum \in [0 .. n -> Nat]
  BY <1>6, <1>8
<1>10. SumTo(f, n) = sum[n]
  BY DEF SumTo, sum
<1>11. QED BY <1>7, <1>9, <1>10 DEF IsSum

(* The sums of two functions that are equal but for one place.             *)
Differ(f, a, m, j, e) ==
    /\ j \in 1 .. m => a[j] = f[j] + e
    /\ \A k \in 1 .. m : f[k] \in Nat /\ (k # j => a[k] = f[k])

Raised(g, h, m, j, e) ==
    \A k \in 0 .. m : (j <= k => h[k] = g[k] + e) /\ (k < j => h[k] = g[k])

LEMMA SumsDiffer ==
    ASSUME NEW f, NEW g, NEW m, IsSum(g, f, m), NEW a, NEW h, NEW n, IsSum(h, a, n),
           NEW j, NEW e, Differ(f, a, m, j, e),
           n \in Nat, m \in 0 .. n, j \in 1 .. n + 1, e \in Nat
    PROVE  Raised(g, h, m, j, e)
<1> DEFINE U == {k \in 0 .. m : h[k] = IF j <= k THEN g[k] + e ELSE g[k]}
<1>1. 0 \in U
  BY DEF IsSum
<1> USE DEF Differ
<1>2. ASSUME NEW k \in 0 .. m - 1, k \in U PROVE k + 1 \in U
  <2>1. k + 1 \in 1 .. m /\ k + 1 \in 1 .. n /\ (k + 1) - 1 = k /\ k \in 0 .. m /\ k + 1 \in 0 .. m
    OBVIOUS
  <2>2. g[k + 1] = g[k] + f[k + 1] /\ g[k] \in Nat /\ f[k + 1] \in Nat
    BY <2>1 DEF IsSum
  <2>3. h[k + 1] = h[k] + a[k + 1]
    BY <2>1 DEF IsSum
  <2>4. a[k + 1] = IF k + 1 = j THEN f[k + 1] + e ELSE f[k + 1]
    BY <2>1
  <2>5. h[k] = IF j <= k THEN g[k] + e ELSE g[k]
    BY <1>2
  <2>6. h[k + 1] = IF j <= k + 1 THEN g[k + 1] + e ELSE g[k + 1]
    <3>1. CASE j <= k
      BY <2>2, <2>3, <2>4, <2>5, <3>1
    <3>2. CASE j = k + 1
      BY <2>2, <2>3, <2>4, <2>5, <3>2
    <3>3. CASE j > k + 1
      BY <2>2, <2>3, <2>4, <2>5, <3>3
    <3>4. QED BY <3>1, <3>2, <3>3
  <2>7. QED BY <2>1, <2>6
<1> HIDE DEF U
<1>3. 0 .. m \subseteq U
  BY <1>1, <1>2, IntervalByInduction
<1>4. QED BY <1>3 DEF U, Raised

-----------------------------------------------------------------------------
(* The energy of a table.                                                  *)
LEMMA EnergyIs ==
    ASSUME NEW cs \in Seq(Cluster)
    PROVE  \E g : /\ IsSum(g, [k \in DOMAIN cs |-> cs[k].dedx], Len(cs))
                  /\ Energy(cs) = g[Len(cs)]
<1> DEFINE f == [k \in DOMAIN cs |-> cs[k].dedx]
<1>1. Len(cs) \in Nat /\ \A k \in 1 .. Len(cs) : f[k] \in Nat
  <2>1. Len(cs) \in Nat /\ DOMAIN cs = 1 .. Len(cs) /\ \A k \in 1 .. Len(cs) : cs[k] \in Cluster
    OBVIOUS
  <2>2. \A c \in Cluster : c.dedx \in Nat
    BY DEF Cluster
  <2>3. QED BY <2>1, <2>2
<1>2. Energy(cs) = SumTo(f, Len(cs))
  BY DEF Energy
<1> HIDE DEF f
<1>3. \E g : IsSum(g, f, Len(cs)) /\ SumTo(f, Len(cs)) = g[Len(cs)]
  BY <1>1, SumToIs
<1>4. QED BY <1>2, <1>3 DEF f

LEMMA EnergyAdded ==
    ASSUME NEW cs \in Seq(Cluster), NEW ds \in Seq(Cluster), NEW e \in Nat \ {0},
           Joined(cs, ds, e) \/ Begun(cs, ds, e)
    PROVE  Energy(ds) = Energy(cs) + e
<1> DEFINE f == [k \in DOMAIN cs |-> cs[k].dedx]
           a == [k \in DOMAIN ds |-> ds[k].dedx]
           m == Len(cs)
           n == Len(ds)
<1>1. PICK g : IsSum(g, f, m) /\ Energy(cs) = g[m]
  BY EnergyIs
<1>2. PICK h : IsSum(h, a, n) /\ Energy(ds) = h[n]
  BY EnergyIs
<1>3. m \in Nat /\ DOMAIN cs = 1 .. m /\ n \in Nat /\ DOMAIN ds = 1 .. n
  OBVIOUS
<1>4. \A k \in 1 .. m : f[k] \in Nat
  <2>1. \A k \in 1 .. m : cs[k] \in Cluster
    OBVIOUS
  <2>2. \A c \in Cluster : c.dedx \in Nat
    BY DEF Cluster
  <2>3. QED BY <1>3, <2>1, <2>2
<1>5. CASE Joined(cs, ds, e)
  <2>1. PICK j \in 1 .. m : /\ n = m /\ ds[j].dedx = cs[j].dedx + e
                            /\ \A k \in 1 .. m : k # j => ds[k] = cs[k]
    BY <1>3, <1>5 DEF Joined
  <2>2. Differ(f, a, m, j, e)
    BY <1>3, <1>4, <2>1 DEF Differ
  <2>3. m \in 0 .. n /\ j \in 1 .. n + 1
    BY <1>3, <2>1
  <2> HIDE DEF f, a, m, n
  <2>4. Raised(g, h, m, j, e)
    <3>1. IsSum(g, f, m) /\ IsSum(h, a, n) /\ n \in Nat /\ e \in Nat
      BY <1>1, <1>2, <1>3
    <3>2. QED BY <2>2, <2>3, <3>1, SumsDiffer, Zenon
  <2>5. QED BY <1>1, <1>2, <1>3, <2>1, <2>4 DEF Raised
<1>6. CASE Begun(cs, ds, e)
  <2>1. n = m + 1 /\ ds[n].dedx = e /\ \A k \in 1 .. m : ds[k] = cs[k]
    BY <1>3, <1>6 DEF Begun
  <2>2. Differ(f, a, m, n + 1, 0)
    BY <1>3, <1>4, <2>1, SMTT(30) DEF Differ
  <2>3. m \in 0 .. n /\ n + 1 \in 1 .. n + 1 /\ 0 \in Nat /\ n \in 1 .. n /\ n - 1 = m /\ m \in 0 .. m
    BY <1>3, <2>1
  <2>4. a[n] = e
    BY <1>3, <2>1, <2>3
  <2> HIDE DEF f, a, m, n
  <2>5. Raised(g, h, m, n + 1, 0)
    <3>1. IsSum(g, f, m) /\ IsSum(h, a, n) /\ n \in Nat /\ e \in Nat
      BY <1>1, <1>2, <1>3
    <3>2. QED BY <2>2, <2>3, <3>1, SumsDiffer, Zenon
  <2>6. h[n] = h[m] + a[n]
    BY <1>2, <2>3 DEF IsSum
  <2>7. h[m] = g[m]
    <3>1. m < n + 1
      BY <1>3, <2>1
    <3>2. QED BY <2>3, <2>5, <3>1 DEF Raised
  <2>8. QED BY <1>1, <1>2, <2>4, <2>6, <2>7
<1>7. QED BY <1>5, <1>6

LEMMA NoEnergy == Energy(<<>>) = 0
<1>1. <<>> \in Seq(Cluster) /\ Len(<<>>) = 0
  OBVIOUS
<1>2. PICK g : IsSum(g, [k \in DOMAIN <<>> |-> <<>>[k].dedx], 0) /\ Energy(<<>>) = g[0]
  BY <1>1, EnergyIs
<1>3. QED BY <1>2 DEF IsSum

-----------------------------------------------------------------------------
(* All clusters of an event.                                               *)
Record == [slot : Nat, ch : Nat, samples : Seq(Nat)]

LEMMA BinIs ==
    ASSUME NEW k \in 1 .. NX * NY
    PROVE  Bin(k)[1] * StepX \in Int /\ Bin(k)[2] * StepY \in Int
<1>1. NX \in Nat /\ NY \in Nat \ {0} /\ StepX \in Nat /\ StepY \in Nat
  BY TrdAssumption
<1>2. (k - 1) \div NY \in Int /\ (k - 1) % NY \in Int
  BY <1>1
<1>3. Bin(k)[1] = (k - 1) \div NY /\ Bin(k)[2] = (k - 1) % NY
  BY DEF Bin
<1>4. QED BY <1>1, <1>2, <1>3

LEMMA ChargedIs ==
    ASSUME NEW records \in Seq(Record), NEW k, IsCharged(Display(records), k)
    PROVE  Display(records)[Bin(k)] \in Nat \ {0}
<1>1. Bin(k) \in DOMAIN Display(records) /\ Display(records)[Bin(k)] >= ClusterThreshold
  BY DEF IsCharged
<1>2. Display(records)[Bin(k)] \in Nat
  BY <1>1, DisplayHolds DEF Record
<1>3. ClusterThreshold \in Nat \ {0}
  BY TrdAssumption
<1>4. QED BY <1>1, <1>2, <1>3

LEMMA ClustersOf ==
    ASSUME NEW records \in Seq(Record)
    PROVE  /\ F125ClustersOf(records) \in Seq(Cluster)
           /\ \/ Full(F125ClustersOf(records))
              \/ Energy(F125ClustersOf(records)) = Charge(Display(records))
<1> DEFINE T == Seq(Cluster)
           n == NX * NY
           d == Display(records)
           Place(cs, k) == AddPlace(cs, Bin(k)[1] * StepX, Bin(k)[2] * StepY, d[Bin(k)])
           Step(cs, k) == IF ~IsCharged(d, k) THEN cs ELSE Place(cs, k)
           step == [x \in (1 .. n) \X T |-> Step(x[2], x[1])]
           Is(f) == f = [k \in 0 .. n |-> IF k = 0 THEN <<>>
                                          ELSE IF ~IsCharged(d, k) THEN f[k - 1]
                                          ELSE Place(f[k - 1], k)]
           after == CHOOSE f : Is(f)
           c == [k \in 1 .. n |-> IF IsCharged(d, k) THEN d[Bin(k)] ELSE 0]
<1>1. n \in Nat /\ MaxClust \in Nat
  BY TrdAssumption
<1>2. \A k \in 1 .. n : IsCharged(d, k) => d[Bin(k)] \in Nat \ {0}
  BY ChargedIs
<1>3. ASSUME NEW cs \in T, NEW k \in 1 .. n, IsCharged(d, k)
      PROVE  /\ Place(cs, k) \in T
             /\ \/ Joined(cs, Place(cs, k), d[Bin(k)])
                \/ Begun(cs, Place(cs, k), d[Bin(k)])
                \/ Place(cs, k) = cs /\ Full(cs)
  <2>1. Bin(k)[1] * StepX \in Int /\ Bin(k)[2] * StepY \in Int /\ d[Bin(k)] \in Nat \ {0}
    BY <1>2, <1>3, BinIs
  <2> HIDE DEF d
  <2>2. QED BY <2>1, PlaceAdded
<1> HIDE DEF Place, d, n
<1>4. <<>> \in T /\ \A cs \in T : \A k \in 1 .. n : Step(cs, k) \in T
  BY <1>3
<1> HIDE DEF T
<1>5. step \in [(1 .. n) \X T -> T]
  <2> HIDE DEF Step
  <2>1. QED BY <1>4
<1>6. PICK f : FollowsStep(f, T, n, <<>>, step)
  <2> HIDE DEF step
  <2>1. QED BY <1>1, <1>4, <1>5, RecursionExists
<1>7. f \in [0 .. n -> T] /\ f[0] = <<>> /\ \A k \in 1 .. n : f[k] = step[<<k, f[k - 1]>>]
  BY <1>6 DEF FollowsStep
<1>8. Is(f)
  <2>1. ASSUME NEW k \in 1 .. n PROVE f[k] = Step(f[k - 1], k)
    <3>1. f[k - 1] \in T
      BY <1>1, <1>7
    <3>2. f[k] = step[<<k, f[k - 1]>>]
      BY <1>7
    <3> HIDE DEF Step
    <3>3. QED BY <3>1, <3>2
  <2>2. \A k \in 0 .. n : k # 0 => k \in 1 .. n
    BY <1>1
  <2>3. f = [k \in 0 .. n |-> f[k]]
    BY <1>7
  <2>4. \A k \in 0 .. n : f[k] = IF k = 0 THEN <<>>
                                 ELSE IF ~IsCharged(d, k) THEN f[k - 1] ELSE Place(f[k - 1], k)
    BY <1>7, <2>1, <2>2
  <2>5. QED BY <2>3, <2>4
<1> HIDE DEF step
<1>9. Is(after)
  <2> HIDE DEF Is
  <2>1. QED BY <1>8
<1> HIDE DEF after
<1>10. after[0] = <<>> /\ \A k \in 1 .. n : after[k] = Step(after[k - 1], k)
  BY <1>1, <1>9
<1>11. F125ClustersOf(records) = after[n]
  BY DEF F125ClustersOf, after, n, d, Place
<1>12. PICK g : IsSum(g, c, n) /\ Charge(d) = g[n]
  <2>1. \A k \in 1 .. n : c[k] \in Nat
    BY <1>2
  <2>2. Charge(d) = SumTo(c, n)
    BY DEF Charge, n
  <2> HIDE DEF c
  <2>3. QED BY <1>1, <2>1, <2>2, SumToIs
<1>13. g[0] = 0 /\ \A k \in 1 .. n : g[k] = g[k - 1] + (IF IsCharged(d, k) THEN d[Bin(k)] ELSE 0)
  BY <1>12 DEF IsSum
<1>14. \A k \in 0 .. n : g[k] \in Nat
  BY <1>12 DEF IsSum
<1> DEFINE Holds(k) == after[k] \in T /\ (Full(after[k]) \/ Energy(after[k]) = g[k])
           U == {k \in 0 .. n : Holds(k)}
<1>15. 0 \in U
  BY <1>1, <1>4, <1>10, <1>13, NoEnergy
<1>16. ASSUME NEW k \in 0 .. n - 1, k \in U PROVE k + 1 \in U
  <2>1. k + 1 \in 1 .. n /\ k + 1 \in 0 .. n /\ (k + 1) - 1 = k /\ k \in 0 .. n
    BY <1>1
  <2> DEFINE cs == after[k]
             ds == after[k + 1]
             e == d[Bin(k + 1)]
  <2>2. cs \in T /\ (Full(cs) \/ Energy(cs) = g[k]) /\ g[k] \in Nat
    BY <1>14, <1>16, <2>1
  <2>3. ds = Step(cs, k + 1)
    BY <1>10, <2>1
  <2>4. g[k + 1] = g[k] + (IF IsCharged(d, k + 1) THEN e ELSE 0)
    BY <1>13, <2>1
  <2> HIDE DEF cs, ds
  <2>5. ds \in T /\ (Full(ds) \/ Energy(ds) = g[k + 1])
    <3>1. CASE ~IsCharged(d, k + 1)
      BY <2>2, <2>3, <2>4, <3>1
    <3>2. CASE IsCharged(d, k + 1)
      <4>1. e \in Nat \ {0}
        BY <1>2, <2>1, <3>2
      <4>2. ds \in T /\ (Joined(cs, ds, e) \/ Begun(cs, ds, e) \/ (ds = cs /\ Full(cs)))
        BY <1>3, <2>1, <2>2, <2>3, <3>2
      <4>3. cs \in Seq(Cluster) /\ ds \in Seq(Cluster)
        BY <2>2, <4>2 DEF T
      <4>4. CASE ds = cs /\ Full(cs)
        BY <4>2, <4>4
      <4>5. CASE Joined(cs, ds, e) \/ Begun(cs, ds, e)
        <5> HIDE DEF e
        <5>1. Energy(ds) = Energy(cs) + e
          BY <4>1, <4>3, <4>5, EnergyAdded
        <5>2. Len(ds) >= Len(cs) /\ Len(cs) \in Nat /\ Len(ds) \in Nat
          BY <4>3, <4>5 DEF Joined, Begun
        <5>3. Full(cs) => Full(ds)
          BY <1>1, <5>2 DEF Full
        <5>4. g[k + 1] = g[k] + e
          BY <2>4, <3>2
        <5>5. QED BY <2>2, <4>2, <5>1, <5>3, <5>4
      <4>6. QED BY <4>2, <4>4, <4>5
    <3>3. QED BY <3>1, <3>2
  <2>6. QED BY <2>1, <2>5 DEF ds
<1> HIDE DEF U
<1>17. 0 .. n \subseteq U
  BY <1>1, <1>15, <1>16, IntervalByInduction
<1>18. Holds(n)
  BY <1>1, <1>17 DEF U
<1>19. QED BY <1>11, <1>12, <1>18 DEF d, T

-----------------------------------------------------------------------------
(* Sequences put one behind the other.                                     *)
LEMMA FlattenIs ==
    ASSUME NEW T, NEW ss \in Seq(Seq(T))
    PROVE  FlattenSeq(ss) \in Seq(T)
<1> DEFINE n == Len(ss)
           S == Seq(T)
           step == [x \in (1 .. n) \X S |-> IF x[1] = 1 THEN ss[1] ELSE x[2] \o ss[x[1]]]
           Is(f) == f = [i \in 1 .. n |-> IF i = 1 THEN ss[i] ELSE f[i - 1] \o ss[i]]
           flatten == CHOOSE f : Is(f)
<1>1. n \in Nat /\ \A i \in 1 .. n : ss[i] \in S
  OBVIOUS
<1>2. CASE n = 0
  <2>1. FlattenSeq(ss) = ss
    BY <1>2 DEF FlattenSeq
  <2>2. ss = <<>>
    BY <1>2
  <2>3. QED BY <2>1, <2>2
<1>3. CASE n # 0
  <2>0. <<>> \in S /\ \A s, t \in S : s \o t \in S
    OBVIOUS
  <2> HIDE DEF n, S
  <2>1. step \in [(1 .. n) \X S -> S]
    BY <1>1, <2>0
  <2>2. PICK f : FollowsStep(f, S, n, <<>>, step)
    <3> HIDE DEF step
    <3>1. QED BY <1>1, <2>0, <2>1, RecursionExists
  <2>3. f \in [0 .. n -> S] /\ \A k \in 1 .. n : f[k] = step[<<k, f[k - 1]>>]
    BY <2>2 DEF FollowsStep
  <2> DEFINE g == [i \in 1 .. n |-> f[i]]
  <2>4. Is(g)
    <3>1. ASSUME NEW i \in 1 .. n PROVE f[i] = IF i = 1 THEN ss[i] ELSE f[i - 1] \o ss[i]
      <4>1. i - 1 \in 0 .. n /\ f[i - 1] \in S
        BY <1>1, <2>3
      <4>2. QED BY <2>3, <4>1
    <3>2. ASSUME NEW i \in 1 .. n, i # 1 PROVE i - 1 \in 1 .. n
      BY <1>1, <3>2
    <3>3. QED BY <3>1, <3>2
  <2>5. Is(flatten)
    <3> HIDE DEF Is, g
    <3>1. QED BY <2>4
  <2> HIDE DEF flatten
  <2> DEFINE U == {k \in 0 .. n : k # 0 => flatten[k] \in S}
  <2>6. 0 \in U
    BY <1>1
  <2>7. ASSUME NEW k \in 0 .. n - 1, k \in U PROVE k + 1 \in U
    <3>1. k + 1 \in 1 .. n /\ k + 1 \in 0 .. n /\ (k + 1) - 1 = k
      BY <1>1
    <3>2. flatten[k + 1] = IF k + 1 = 1 THEN ss[k + 1] ELSE flatten[k] \o ss[k + 1]
      BY <2>5, <3>1
    <3>3. k + 1 # 1 => flatten[k] \in S
      BY <2>7
    <3>4. flatten[k + 1] \in S
      BY <1>1, <2>0, <3>1, <3>2, <3>3
    <3>5. QED BY <3>1, <3>4
  <2> HIDE DEF U
  <2>8. 0 .. n \subseteq U
    BY <1>1, <2>6, <2>7, IntervalByInduction
  <2>9. flatten[n] \in S
    BY <1>1, <1>3, <2>8 DEF U
  <2>10. FlattenSeq(ss) = flatten[n]
    BY <1>3 DEF FlattenSeq, flatten, n
  <2>11. QED BY <2>9, <2>10 DEF S
<1>4. QED BY <1>2, <1>3

-----------------------------------------------------------------------------
(* The ids of the samples.                                                 *)
FarApart(d, e) == \/ 1000000000 * d - 4294967296 * e > 100000000
                  \/ 1000000000 * d - 4294967296 * e + 100000000 < 0

LEMMA TimesApart == \A d \in 1 .. 29 : \A e \in Int : FarApart(d, e)
BY SMT DEF FarApart

LEMMA DigitsApart ==
    ASSUME NEW i \in Int, NEW a \in Int, NEW c \in Int,
           a + 255 >= 0, a <= 255, c + 999 >= 0, c <= 999,
           1000000 * i + 1000 * a + c = 0
    PROVE  i = 0 /\ a = 0 /\ c = 0
BY SMT

(* A number of millions and a rest, as the id holds them.                  *)
LEMMA MillionsAndRest ==
    ASSUME NEW m \in Int, NEW r \in Int, NEW n \in Int, NEW s \in Int,
           m + r \div 1000000 = n + s \div 1000000, r % 1000000 = s % 1000000
    PROVE  1000000 * m + r = 1000000 * n + s
BY SMT

SameNumber(i, a, c, t, p, j, b, d, u, q) ==
    1000000 * (i + (1000 * t - 4295 * p)) + (c + a * 1000 + 32704 * p)
        = 1000000 * (j + (1000 * u - 4295 * q)) + (d + b * 1000 + 32704 * q)

LEMMA IdsApart ==
    ASSUME NEW i, NEW a, NEW c, NEW t, NEW p, NEW j, NEW b, NEW d, NEW u, NEW q,
           SameNumber(i, a, c, t, p, j, b, d, u, q),
           i \in 0 .. 99, a \in 0 .. 255, c \in 0 .. 999, t \in 0 .. 29, p \in Int,
           j \in 0 .. 99, b \in 0 .. 255, d \in 0 .. 999, u \in 0 .. 29, q \in Int
    PROVE  a = b /\ c = d /\ t = u
<1>1. 1000000 * (i - j) + 1000 * (a - b) + (c - d)
          = 1000000000 * (u - t) - 4294967296 * (q - p)
  BY SMT DEF SameNumber
<1>2. /\ 1000000 * (i - j) + 1000 * (a - b) + (c - d) <= 100000000
      /\ 1000000 * (i - j) + 1000 * (a - b) + (c - d) + 100000000 >= 0
  BY SMT
<1>3. CASE t < u
  <2>1. u - t \in 1 .. 29 /\ q - p \in Int
    BY <1>3, SMT
  <2>2. FarApart(u - t, q - p)
    BY <2>1, TimesApart, ZenonT(40)
  <2>3. QED BY <1>1, <1>2, <2>2, SMT DEF FarApart
<1>4. CASE u < t
  <2>1. t - u \in 1 .. 29 /\ p - q \in Int
    BY <1>4, SMT
  <2>2. FarApart(t - u, p - q)
    BY <2>1, TimesApart, ZenonT(40)
  <2>3. QED BY <1>1, <1>2, <2>2, SMT DEF FarApart
<1>5. CASE t = u
  <2>1. 1000000 * (i - j) + 1000 * (a - b) + (c - d) = 4294967296 * (p - q)
    BY <1>1, <1>5, SMT
  <2>2. p - q = 0
    BY <1>2, <2>1, SMT
  <2>3. /\ i - j \in Int /\ a - b \in Int /\ c - d \in Int
        /\ a - b + 255 >= 0 /\ a - b <= 255 /\ c - d + 999 >= 0 /\ c - d <= 999
    BY SMT
  <2>4. 1000000 * (i - j) + 1000 * (a - b) + (c - d) = 0
    BY <2>1, <2>2, SMT
  <2>5. a - b = 0 /\ c - d = 0
    BY <2>3, <2>4, DigitsApart, SMT
  <2>6. QED BY <1>5, <2>5, SMT
<1>6. QED BY <1>3, <1>4, <1>5, SMT

LEMMA CorrectionApart ==
    ASSUME NEW c \in Chans, NEW d \in Chans, Correction[c] = Correction[d]
    PROVE  c = d
<1>1. ChannelsCount \in Nat \ {0} /\ Correction \in [Chans -> Chans]
      /\ {Correction[x] : x \in Chans} = Chans
  BY GemReconAssumption
<1>2. IsFiniteSet(Chans)
  BY <1>1, FS_Interval DEF Chans
<1>3. Correction \in Surjection(Chans, Chans)
  BY <1>1 DEF Surjection
<1>4. Correction \in Injection(Chans, Chans)
  BY <1>2, <1>3, FS_SurjSameCardinalityImpliesInj
<1>5. QED BY <1>1, <1>4 DEF Injection, IsInjective

LEMMA ChannelsApart ==
    ASSUME NEW c \in Chans, NEW d \in Chans
    PROVE  /\ SampleChannel(c) \in Chans
           /\ SampleChannel(c) = SampleChannel(d) => c = d
<1>1. ChannelsCount \in Nat \ {0} /\ Correction[c] \in Chans /\ Correction[d] \in Chans
  BY GemReconAssumption
<1>2. Correction[c] = Correction[d] => c = d
  BY CorrectionApart
<1>3. CASE At(mapping.orientation, 0, 0) # 0
  <2>1. SampleChannel(c) = ChannelsCount - 1 - Correction[c]
        /\ SampleChannel(d) = ChannelsCount - 1 - Correction[d]
    BY <1>3 DEF SampleChannel
  <2>2. QED BY <1>1, <1>2, <2>1 DEF Chans
<1>4. CASE ~(At(mapping.orientation, 0, 0) # 0)
  <2>1. SampleChannel(c) = Correction[c] /\ SampleChannel(d) = Correction[d]
    BY <1>4 DEF SampleChannel
  <2>2. QED BY <1>1, <1>2, <2>1
<1>5. QED BY <1>3, <1>4

-----------------------------------------------------------------------------
(* What is written of the samples of an event.                             *)
Item   == [apv : 0 .. 255, ch : Chans, samples : {s \in Seq(Nat) : Len(s) <= 30}]
Sample == [apv : 0 .. 255, raw_channel : Chans, time_bin : 0 .. 29, raw_value : Nat]

LEMMA SampleIdsApart ==
    ASSUME IdsFit, NEW x \in Sample, NEW y \in Sample, IdOf(x) = IdOf(y)
    PROVE  x.apv = y.apv /\ x.raw_channel = y.raw_channel /\ x.time_bin = y.time_bin
<1> DEFINE a == x.apv
           b == y.apv
           t == x.time_bin
           u == y.time_bin
           i == At(mapping.index, a, 0)
           j == At(mapping.index, b, 0)
           c == SampleChannel(x.raw_channel)
           d == SampleChannel(y.raw_channel)
           p == (t * 1953125) \div 8388608
           q == (u * 1953125) \div 8388608
           r == c + a * 1000 + 32704 * p
           s == d + b * 1000 + 32704 * q
           m == i + (1000 * t - 4295 * p)
           n == j + (1000 * u - 4295 * q)
<1>1. /\ a \in 0 .. 255 /\ x.raw_channel \in Chans /\ t \in 0 .. 29
      /\ b \in 0 .. 255 /\ y.raw_channel \in Chans /\ u \in 0 .. 29
  BY SMT DEF Sample
<1>2. i \in 0 .. 99 /\ j \in 0 .. 99
  BY SMT DEF IdsFit, At
<1>3. c \in 0 .. 999 /\ d \in 0 .. 999
  <2>1. c \in Chans /\ d \in Chans
    BY <1>1, ChannelsApart, SMT
  <2>2. ChannelsCount \in Nat /\ ChannelsCount <= 1000
    BY GemReconAssumption, SMT DEF IdsFit
  <2> HIDE DEF c, d
  <2>3. QED BY <2>1, <2>2, SMT DEF Chans
<1>4. c = d => x.raw_channel = y.raw_channel
  BY <1>1, ChannelsApart, SMT
<1>5. m + r \div 1000000 = n + s \div 1000000 /\ r % 1000000 = s % 1000000
  <2>1. /\ IdOf(x)[3] = i + TimeWord(t)[1] + (c + a * 1000 + TimeWord(t)[2]) \div 1000000
        /\ IdOf(x)[4] = (c + a * 1000 + TimeWord(t)[2]) % 1000000
        /\ IdOf(y)[3] = j + TimeWord(u)[1] + (d + b * 1000 + TimeWord(u)[2]) \div 1000000
        /\ IdOf(y)[4] = (d + b * 1000 + TimeWord(u)[2]) % 1000000
    BY SMT DEF IdOf, SampleId
  <2>2. /\ TimeWord(t)[1] = 1000 * t - 4295 * p /\ TimeWord(t)[2] = 32704 * p
        /\ TimeWord(u)[1] = 1000 * u - 4295 * q /\ TimeWord(u)[2] = 32704 * q
    BY SMT DEF TimeWord
  <2> HIDE DEF a, b, t, u, i, j, c, d, p, q
  <2>3. QED BY <2>1, <2>2, SMT
<1>6. p \in Int /\ q \in Int
  <2> HIDE DEF t, u
  <2>1. QED BY <1>1, SMT
<1> HIDE DEF a, b, t, u, i, j, c, d, p, q
<1>7. m \in Int /\ n \in Int /\ r \in Int /\ s \in Int
  BY <1>1, <1>2, <1>3, <1>6, SMT
<1>8. 1000000 * m + r = 1000000 * n + s
  <2> HIDE DEF m, n, r, s
  <2>1. QED BY <1>5, <1>7, MillionsAndRest, SMT
<1>9. SameNumber(i, a, c, t, p, j, b, d, u, q)
  BY <1>8, SMT DEF SameNumber
<1>10. a = b /\ c = d /\ t = u
  BY <1>1, <1>2, <1>3, <1>6, <1>9, IdsApart, ZenonT(40)
<1>11. QED BY <1>4, <1>10, SMT DEF a, b, t, u

LEMMA SampleSeqIs ==
    ASSUME NEW items \in Seq(Item)
    PROVE  SampleSeq(items) \in Seq(Sample)
<1> DEFINE Of(k) == IF items[k].apv \notin Mapped THEN <<>>
                    ELSE [t \in DOMAIN items[k].samples |->
                            [apv |-> items[k].apv, raw_channel |-> items[k].ch,
                             time_bin |-> t - 1, raw_value |-> items[k].samples[t]]]
           ss == [k \in DOMAIN items |-> Of(k)]
<1>1. ASSUME NEW k \in DOMAIN items PROVE Of(k) \in Seq(Sample)
  <2>1. items[k] \in Item
    OBVIOUS
  <2> DEFINE samples == items[k].samples
  <2>2. /\ items[k].apv \in 0 .. 255 /\ items[k].ch \in Chans
        /\ samples \in Seq(Nat) /\ Len(samples) <= 30
    BY <2>1 DEF Item
  <2> HIDE DEF samples
  <2>3. /\ Len(samples) \in 0 .. 30 /\ DOMAIN samples = 1 .. Len(samples)
        /\ \A t \in 1 .. Len(samples) : samples[t] \in Nat /\ t - 1 \in 0 .. 29
    <3>1. Len(samples) \in Nat /\ DOMAIN samples = 1 .. Len(samples)
          /\ \A t \in 1 .. Len(samples) : samples[t] \in Nat
      BY <2>2
    <3>2. ASSUME NEW l \in Nat, l <= 30 PROVE l \in 0 .. 30 /\ \A t \in 1 .. l : t - 1 \in 0 .. 29
      BY <3>2
    <3>3. QED BY <2>2, <3>1, <3>2
  <2> DEFINE out == [t \in 1 .. Len(samples) |->
                        [apv |-> items[k].apv, raw_channel |-> items[k].ch,
                         time_bin |-> t - 1, raw_value |-> samples[t]]]
  <2>4. out \in [1 .. Len(samples) -> Sample]
    BY <2>2, <2>3, ZenonT(40) DEF Sample
  <2>5. out \in Seq(Sample)
    <3> HIDE DEF out
    <3>1. QED BY <2>3, <2>4
  <2>6. Of(k) = <<>> \/ Of(k) = out
    BY <2>3 DEF samples
  <2>7. <<>> \in Seq(Sample)
    OBVIOUS
  <2> HIDE DEF Of, out
  <2>8. QED BY <2>5, <2>6, <2>7
<1>2. ss \in Seq(Seq(Sample))
  <2> HIDE DEF Of
  <2>1. DOMAIN items = 1 .. Len(items) /\ Len(items) \in Nat
    OBVIOUS
  <2>2. QED BY <1>1, <2>1
<1>3. SampleSeq(items) = FlattenSeq(ss)
  BY DEF SampleSeq
<1> HIDE DEF ss
<1>4. QED BY <1>2, <1>3, FlattenIs

(* A sample of the list is among those of out.                             *)
IsKept(sample, out) ==
    \E id \in DOMAIN out : /\ out[id].apv = sample.apv /\ out[id].time_bin = sample.time_bin
                           /\ out[id].raw_channel = sample.raw_channel

AllKept(items, out) == \A k \in DOMAIN SampleSeq(items) : IsKept(SampleSeq(items)[k], out)

LEMMA SamplesAreKept ==
    ASSUME IdsFit, NEW items \in Seq(Item), NEW stats0
    PROVE  AllKept(items, AnalyseSamples(items, stats0).out)
<1> DEFINE all == SampleSeq(items)
           ids == [k \in DOMAIN all |-> IdOf(all[k])]
           With(id) == {k \in DOMAIN all : ids[k] = id}
           out == AnalyseSamples(items, stats0).out
           n == Len(all)
<1>1. all \in Seq(Sample)
  BY SampleSeqIs
<1>2. /\ DOMAIN out = {ids[k] : k \in DOMAIN all}
      /\ \A id \in DOMAIN out : /\ out[id].apv = all[Max(With(id))].apv
                                /\ out[id].raw_channel = all[Max(With(id))].raw_channel
                                /\ out[id].time_bin = all[Max(With(id))].time_bin
  BY DEF AnalyseSamples, Range
<1> HIDE DEF all, out
<1>3. n \in Nat /\ DOMAIN all = 1 .. n /\ \A k \in 1 .. n : all[k] \in Sample
  BY <1>1
<1>4. ASSUME NEW k \in DOMAIN all PROVE IsKept(all[k], out)
  <2> DEFINE id == ids[k]
             S == With(id)
             m == Max(S)
  <2>1. id \in DOMAIN out
    BY <1>2
  <2>2. k \in S /\ S \in SUBSET (1 .. n)
    BY <1>3
  <2>3. m \in S
    <3> HIDE DEF S, n
    <3>1. QED BY <1>3, <2>2, GreatestOf
  <2>4. m \in 1 .. n /\ IdOf(all[m]) = IdOf(all[k])
    BY <1>3, <2>3
  <2> HIDE DEF m
  <2>5. /\ all[m].apv = all[k].apv /\ all[m].raw_channel = all[k].raw_channel
        /\ all[m].time_bin = all[k].time_bin
    BY <1>3, <2>4, SampleIdsApart
  <2>6. /\ out[id].apv = all[m].apv /\ out[id].raw_channel = all[m].raw_channel
        /\ out[id].time_bin = all[m].time_bin
    BY <1>2, <2>1 DEF m
  <2>7. QED BY <2>1, <2>5, <2>6 DEF IsKept
<1>5. QED BY <1>4 DEF AllKept, all, out

-----------------------------------------------------------------------------
(* Any number of slots.  What a slot has made is of the event it holds: it *)
(* has no samples, or those of the event, and behind the clustering the    *)
(* clusters of the event.                                                  *)
IsMade(m) == m = [raw |-> m.raw, pedestal |-> m.pedestal, apvs |-> m.apvs, planes |-> m.planes,
                  peaks |-> m.peaks, sf_clusters |-> m.sf_clusters, samples |-> m.samples,
                  clusters |-> m.clusters, reply |-> m.reply]
IsFactory(f) == f = [srs |-> f.srs, f125 |-> f.f125, run |-> f.run,
                     pedestals |-> f.pedestals, stats |-> f.stats]

FromEvents(x) == \E e \in Events : x.items = e.items /\ x.records = e.records

Clustered == {"fpga sent", "fpga receive", "fpga plots"}
OfItsEvent(at, f125, m, x) ==
    /\ at # "idle" => FromEvents(x)
    /\ m.samples # Empty => \E stats : m.samples = AnalyseSamples(x.items, stats).out
    /\ at \in Clustered => m.clusters = IF f125 THEN F125ClustersOf(x.records) ELSE <<>>

SlotTypes ==
    /\ pc \in [Slots -> Labels]
    /\ DOMAIN ev = Slots /\ DOMAIN factories = Slots /\ DOMAIN made = Slots
    /\ \A s \in Slots : IsFactory(factories[s]) /\ IsMade(made[s])

SlotInv == SlotTypes /\ \A s \in Slots : OfItsEvent(pc[s], factories[s].f125, made[s], ev[s])

LEMMA SlotInit == Init => SlotInv
<1> SUFFICES ASSUME Init PROVE SlotInv
  OBVIOUS
<1>1. "idle" \in Labels
  BY DEF Labels, CountedTwice
<1>2. IsMade(NewMade) /\ NewMade.samples = Empty
  BY DEF IsMade, NewMade
<1>3. SlotTypes
  BY <1>1, <1>2 DEF Init, SlotTypes, IsFactory
<1>4. ASSUME NEW s \in Slots PROVE OfItsEvent(pc[s], factories[s].f125, made[s], ev[s])
  <2>1. pc[s] = "idle" /\ made[s] = NewMade
    BY DEF Init
  <2>2. QED BY <1>2, <2>1 DEF OfItsEvent, Clustered
<1>5. QED BY <1>3, <1>4 DEF SlotInv

(* Nothing happens to the other slots.                                     *)
OthersStay(s) ==
    /\ DOMAIN ev' = Slots /\ DOMAIN factories' = Slots /\ DOMAIN made' = Slots
    /\ \A r \in Slots \ {s} :
          ev'[r] = ev[r] /\ factories'[r] = factories[r] /\ made'[r] = made[r]

LEMMA SlotMoves ==
    ASSUME SlotInv, NEW s \in Slots, NEW here, NEW there \in Labels, GoTo(s, here, there),
           OthersStay(s), IsFactory(factories'[s]), IsMade(made'[s]),
           OfItsEvent(there, factories'[s].f125, made'[s], ev'[s])
    PROVE  SlotInv'
<1>1. pc \in [Slots -> Labels]
  BY DEF SlotInv, SlotTypes
<1>2. /\ pc'[s] = there /\ pc' \in [Slots -> Labels]
      /\ \A r \in Slots \ {s} : pc'[r] = pc[r]
  BY <1>1, GoesTo
<1>3. ASSUME NEW r \in Slots
      PROVE  /\ IsFactory(factories'[r]) /\ IsMade(made'[r])
             /\ OfItsEvent(pc'[r], factories'[r].f125, made'[r], ev'[r])
  <2>1. CASE r = s
    BY <1>2, <2>1
  <2>2. CASE r # s
    <3>1. pc'[r] = pc[r] /\ ev'[r] = ev[r] /\ factories'[r] = factories[r] /\ made'[r] = made[r]
      BY <1>2, <2>2 DEF OthersStay
    <3>2. /\ IsFactory(factories[r]) /\ IsMade(made[r])
          /\ OfItsEvent(pc[r], factories[r].f125, made[r], ev[r])
      BY DEF SlotInv, SlotTypes
    <3>3. QED BY <3>1, <3>2
  <2>3. QED BY <2>1, <2>2
<1>4. SlotTypes'
  BY <1>2, <1>3 DEF SlotTypes, OthersStay
<1>5. QED BY <1>3, <1>4 DEF SlotInv

(* Another object is made, none of the samples and of the clusters.        *)
SameData(m, n) == IsMade(n) /\ n.samples = m.samples /\ n.clusters = m.clusters

LEMMA OthersMade ==
    ASSUME NEW m, IsMade(m), NEW v, NEW w
    PROVE  /\ SameData(m, m)
           /\ SameData(m, [m EXCEPT !.raw = v])
           /\ SameData(m, [m EXCEPT !.pedestal = v])
           /\ SameData(m, [m EXCEPT !.apvs = v])
           /\ SameData(m, [m EXCEPT !.planes = v])
           /\ SameData(m, [m EXCEPT !.peaks = v, !.sf_clusters = w])
           /\ SameData(m, [m EXCEPT !.reply = v])
<1> DEFINE new(raw, pedestal, apvs, planes, peaks, sf_clusters, reply) ==
               [raw |-> raw, pedestal |-> pedestal, apvs |-> apvs, planes |-> planes,
                peaks |-> peaks, sf_clusters |-> sf_clusters, samples |-> m.samples,
                clusters |-> m.clusters, reply |-> reply]
<1>1. \A raw, pedestal, apvs, planes, peaks, sf_clusters, reply :
          SameData(m, new(raw, pedestal, apvs, planes, peaks, sf_clusters, reply))
  BY DEF SameData, IsMade
<1>2. m = new(m.raw, m.pedestal, m.apvs, m.planes, m.peaks, m.sf_clusters, m.reply)
  BY Zenon DEF IsMade
<1>3. [m EXCEPT !.raw = v] = new(v, m.pedestal, m.apvs, m.planes, m.peaks, m.sf_clusters, m.reply)
  BY <1>2
<1>4. [m EXCEPT !.pedestal = v] = new(m.raw, v, m.apvs, m.planes, m.peaks, m.sf_clusters, m.reply)
  BY <1>2
<1>5. [m EXCEPT !.apvs = v] = new(m.raw, m.pedestal, v, m.planes, m.peaks, m.sf_clusters, m.reply)
  BY <1>2
<1>6. [m EXCEPT !.planes = v] = new(m.raw, m.pedestal, m.apvs, v, m.peaks, m.sf_clusters, m.reply)
  BY <1>2
<1>7. [m EXCEPT !.peaks = v, !.sf_clusters = w]
          = new(m.raw, m.pedestal, m.apvs, m.planes, v, w, m.reply)
  <2> DEFINE k == [m EXCEPT !.peaks = v]
  <2>1. k = new(m.raw, m.pedestal, m.apvs, m.planes, v, m.sf_clusters, m.reply)
    BY <1>2
  <2>2. [m EXCEPT !.peaks = v, !.sf_clusters = w] = [k EXCEPT !.sf_clusters = w]
    OBVIOUS
  <2> HIDE DEF k
  <2>3. [k EXCEPT !.sf_clusters = w] = new(m.raw, m.pedestal, m.apvs, m.planes, v, w, m.reply)
    BY <2>1
  <2>4. QED BY <2>2, <2>3
<1>8. [m EXCEPT !.reply = v] = new(m.raw, m.pedestal, m.apvs, m.planes, m.peaks, m.sf_clusters, v)
  BY <1>2
<1> HIDE DEF new
<1>9. QED BY <1>1, <1>2, <1>3, <1>4, <1>5, <1>6, <1>7, <1>8

(* A step to a place behind the one where the clusters are made, or before.*)
LEMMA SlotMakes ==
    ASSUME SlotInv, NEW s \in Slots, NEW here, NEW there \in Labels, GoTo(s, here, there),
           here # "idle", there \in Clustered => here \in Clustered,
           ev' = ev, OthersStay(s), IsFactory(factories'[s]),
           factories'[s].f125 = factories[s].f125, SameData(made[s], made'[s])
    PROVE  SlotInv'
<1>1. pc[s] = here
  BY DEF GoTo
<1>2. OfItsEvent(pc[s], factories[s].f125, made[s], ev[s])
  BY DEF SlotInv
<1>3. OfItsEvent(there, factories'[s].f125, made'[s], ev'[s])
  BY <1>1, <1>2 DEF OfItsEvent, SameData
<1>4. QED BY <1>3, SlotMoves DEF SameData

LEMMA SlotStays ==
    ASSUME SlotInv, NEW s \in Slots, NEW here, NEW there \in Labels, GoTo(s, here, there),
           here # "idle", there \in Clustered => here \in Clustered,
           ev' = ev, factories' = factories, made' = made
    PROVE  SlotInv'
<1>1. SlotTypes
  BY DEF SlotInv
<1>2. OthersStay(s) /\ IsFactory(factories'[s]) /\ SameData(made[s], made'[s])
  BY <1>1, OthersMade DEF SlotTypes, OthersStay
<1>3. QED BY <1>2, SlotMakes

LEMMA GemKeepsSlots ==
    ASSUME SlotInv, NEW s \in Slots, Gem(s)
    PROVE  SlotInv'
<1> USE DEF Labels, CountedOnce, CountedTwice, GemSteps, Clustered
<1>0. /\ SlotTypes /\ DOMAIN made = Slots /\ DOMAIN factories = Slots /\ DOMAIN ev = Slots
      /\ IsMade(made[s]) /\ IsFactory(factories[s])
      /\ OfItsEvent(pc[s], factories[s].f125, made[s], ev[s])
  BY DEF SlotInv, SlotTypes
<1>1. CASE GemCount(s)
  BY <1>1, SlotStays DEF GemCount, slotVars
<1>2. CASE GemCounted(s)
  BY <1>2, SlotStays DEF GemCounted, slotVars
<1>3. CASE GemSelect(s)
  <2>1. ev' = ev /\ factories' = factories /\ made' = made
    BY <1>3 DEF GemSelect, slotVars
  <2>2. GoTo(s, "gem select", "gem raw") \/ GoTo(s, "gem select", "fpga count")
    BY <1>3 DEF GemSelect
  <2>3. QED BY <2>1, <2>2, SlotStays
<1>4. CASE FillEventRawData(s)
  BY <1>4, SlotStays DEF FillEventRawData, slotVars
<1>5. CASE MakeRawData(s)
  <2>1. PICK v : made' = [made EXCEPT ![s].raw = v]
    BY <1>5 DEF MakeRawData
  <2>2. GoTo(s, "gem apv", "pedestals") /\ ev' = ev /\ factories' = factories
    BY <1>5 DEF MakeRawData
  <2>3. made'[s] = [made[s] EXCEPT !.raw = v] /\ OthersStay(s)
    BY <1>0, <2>1, <2>2 DEF OthersStay
  <2>4. SameData(made[s], made'[s])
    <3>1. SameData(made[s], [made[s] EXCEPT !.raw = v])
      BY <1>0, OthersMade
    <3>2. QED BY <2>3, <3>1
  <2>5. QED BY <1>0, <2>2, <2>3, <2>4, SlotMakes
<1>6. CASE MakePedestal(s)
  <2>1. PICK v : made' = [made EXCEPT ![s].pedestal = v]
    BY <1>6 DEF MakePedestal
  <2>2. PICK p : factories' = [factories EXCEPT ![s].run = ev[s].run, ![s].pedestals = p]
    BY <1>6 DEF MakePedestal
  <2>3. GoTo(s, "pedestals", "apvs") /\ ev' = ev
    BY <1>6 DEF MakePedestal
  <2>4. made'[s] = [made[s] EXCEPT !.pedestal = v] /\ DOMAIN made' = Slots
        /\ \A r \in Slots \ {s} : made'[r] = made[r]
    BY <1>0, <2>1
  <2>5. SameData(made[s], made'[s])
    <3>1. SameData(made[s], [made[s] EXCEPT !.pedestal = v])
      BY <1>0, OthersMade
    <3>2. QED BY <2>4, <3>1
  <2>6. factories'[s] = [[factories[s] EXCEPT !.run = ev[s].run] EXCEPT !.pedestals = p]
        /\ DOMAIN factories' = Slots /\ \A r \in Slots \ {s} : factories'[r] = factories[r]
    BY <1>0, <2>2
  <2>7. factories'[s] = [srs |-> factories[s].srs, f125 |-> factories[s].f125, run |-> ev[s].run,
                         pedestals |-> p, stats |-> factories[s].stats]
    <3> DEFINE k == [factories[s] EXCEPT !.run = ev[s].run]
    <3>1. k = [srs |-> factories[s].srs, f125 |-> factories[s].f125, run |-> ev[s].run,
               pedestals |-> factories[s].pedestals, stats |-> factories[s].stats]
      BY <1>0 DEF IsFactory
    <3>2. factories'[s] = [k EXCEPT !.pedestals = p]
      BY <2>6
    <3> HIDE DEF k
    <3>3. QED BY <3>1, <3>2
  <2>8. IsFactory(factories'[s]) /\ factories'[s].f125 = factories[s].f125
    BY <2>7 DEF IsFactory
  <2>9. OthersStay(s)
    BY <1>0, <2>3, <2>4, <2>6 DEF OthersStay
  <2>10. QED BY <2>3, <2>5, <2>8, <2>9, SlotMakes
<1>7. CASE FillApvDecodedData(s)
  <2>1. PICK v : made' = [made EXCEPT ![s].apvs = v]
    BY <1>7 DEF FillApvDecodedData
  <2>2. GoTo(s, "apvs", "planes") /\ ev' = ev /\ factories' = factories
    BY <1>7 DEF FillApvDecodedData
  <2>3. made'[s] = [made[s] EXCEPT !.apvs = v] /\ OthersStay(s)
    BY <1>0, <2>1, <2>2 DEF OthersStay
  <2>4. SameData(made[s], made'[s])
    <3>1. SameData(made[s], [made[s] EXCEPT !.apvs = v])
      BY <1>0, OthersMade
    <3>2. QED BY <2>3, <3>1
  <2>5. QED BY <1>0, <2>2, <2>3, <2>4, SlotMakes
<1>8. CASE MakePlanes(s)
  <2>1. PICK v : made' = [made EXCEPT ![s].planes = v]
    BY <1>8 DEF MakePlanes
  <2>2. GoTo(s, "planes", "gem plane") /\ ev' = ev /\ factories' = factories
    BY <1>8 DEF MakePlanes
  <2>3. made'[s] = [made[s] EXCEPT !.planes = v] /\ OthersStay(s)
    BY <1>0, <2>1, <2>2 DEF OthersStay
  <2>4. SameData(made[s], made'[s])
    <3>1. SameData(made[s], [made[s] EXCEPT !.planes = v])
      BY <1>0, OthersMade
    <3>2. QED BY <2>3, <3>1
  <2>5. QED BY <1>0, <2>2, <2>3, <2>4, SlotMakes
<1>9. CASE FillEventPlaneData(s)
  <2>1. ev' = ev /\ factories' = factories /\ made' = made
    BY <1>9 DEF FillEventPlaneData, slotVars
  <2>2. GoTo(s, "gem plane", "peaks") \/ GoTo(s, "gem plane", "crashed")
    BY <1>9 DEF FillEventPlaneData
  <2>3. QED BY <2>1, <2>2, SlotStays
<1>10. CASE MakePeaks(s)
  <2>1. PICK v, w : made' = [made EXCEPT ![s].peaks = v, ![s].sf_clusters = w]
    BY <1>10 DEF MakePeaks
  <2>2. GoTo(s, "peaks", "gem samples") /\ ev' = ev /\ factories' = factories
    BY <1>10 DEF MakePeaks
  <2>3. made'[s] = [made[s] EXCEPT !.peaks = v, !.sf_clusters = w] /\ OthersStay(s)
    <3>1. made' = [[made EXCEPT ![s].peaks = v] EXCEPT ![s].sf_clusters = w]
      BY <2>1
    <3>2. QED BY <1>0, <2>2, <3>1 DEF OthersStay
  <2>4. SameData(made[s], made'[s])
    <3>1. SameData(made[s], [made[s] EXCEPT !.peaks = v, !.sf_clusters = w])
      BY <1>0, OthersMade
    <3>2. QED BY <2>3, <3>1
  <2>5. QED BY <1>0, <2>2, <2>3, <2>4, SlotMakes
<1>11. CASE FillSampleData(s)
  <2> DEFINE analysed == AnalyseSamples(ev[s].items, factories[s].stats)
             out == analysed.out
             stats == analysed.stats
  <2>1. /\ made' = [made EXCEPT ![s].samples = out]
        /\ factories' = [factories EXCEPT ![s].stats = stats]
        /\ GoTo(s, "gem samples", "fpga count") /\ ev' = ev
    BY <1>11 DEF FillSampleData
  <2>2. out = AnalyseSamples(ev[s].items, factories[s].stats).out
    OBVIOUS
  <2> HIDE DEF out, stats, analysed
  <2>3. /\ made'[s] = [made[s] EXCEPT !.samples = out]
        /\ factories'[s] = [factories[s] EXCEPT !.stats = stats] /\ OthersStay(s)
    BY <1>0, <2>1 DEF OthersStay
  <2>4. made'[s] = [raw |-> made[s].raw, pedestal |-> made[s].pedestal, apvs |-> made[s].apvs,
                    planes |-> made[s].planes, peaks |-> made[s].peaks,
                    sf_clusters |-> made[s].sf_clusters, samples |-> out,
                    clusters |-> made[s].clusters, reply |-> made[s].reply]
    BY <1>0, <2>3 DEF IsMade
  <2>5. IsMade(made'[s]) /\ made'[s].samples = out
    BY <2>4 DEF IsMade
  <2>6. IsFactory(factories'[s])
    BY <1>0, <2>3 DEF IsFactory
  <2>7. pc[s] = "gem samples"
    BY <2>1 DEF GoTo
  <2>8. OfItsEvent("fpga count", factories'[s].f125, made'[s], ev'[s])
    BY <1>0, <2>1, <2>2, <2>5, <2>7 DEF OfItsEvent
  <2>9. QED BY <2>1, <2>3, <2>5, <2>6, <2>8, SlotMoves
<1>12. QED BY <1>1, <1>2, <1>3, <1>4, <1>5, <1>6, <1>7, <1>8, <1>9, <1>10, <1>11 DEF Gem

LEMMA FpgaKeepsSlots ==
    ASSUME SlotInv, NEW s \in Slots, Fpga(s)
    PROVE  SlotInv'
<1> USE DEF Labels, CountedOnce, CountedTwice, GemSteps, Clustered
<1>0. /\ SlotTypes /\ DOMAIN made = Slots /\ DOMAIN factories = Slots /\ DOMAIN ev = Slots
      /\ IsMade(made[s]) /\ IsFactory(factories[s])
      /\ OfItsEvent(pc[s], factories[s].f125, made[s], ev[s])
  BY DEF SlotInv, SlotTypes
<1>1. CASE FpgaCount(s)
  BY <1>1, SlotStays DEF FpgaCount, slotVars
<1>2. CASE FpgaCounted(s)
  <2>1. ev' = ev /\ factories' = factories /\ made' = made
    BY <1>2 DEF FpgaCounted, slotVars
  <2>2. GoTo(s, "fpga counted", "fpga send") \/ GoTo(s, "fpga counted", "trd")
    BY <1>2 DEF FpgaCounted
  <2>3. QED BY <2>1, <2>2, SlotStays
<1>3. CASE FillBuffer(s)
  <2> DEFINE cs == ClustersFor(s)
  <2>1. /\ made' = [made EXCEPT ![s].clusters = cs]
        /\ GoTo(s, "fpga send", "fpga sent") /\ ev' = ev /\ factories' = factories
    BY <1>3 DEF FillBuffer
  <2>2. cs = IF factories[s].f125 THEN F125ClustersOf(ev[s].records) ELSE <<>>
    BY DEF ClustersFor
  <2> HIDE DEF cs
  <2>3. made'[s] = [made[s] EXCEPT !.clusters = cs] /\ OthersStay(s)
    BY <1>0, <2>1 DEF OthersStay
  <2>4. made'[s] = [raw |-> made[s].raw, pedestal |-> made[s].pedestal, apvs |-> made[s].apvs,
                    planes |-> made[s].planes, peaks |-> made[s].peaks,
                    sf_clusters |-> made[s].sf_clusters, samples |-> made[s].samples,
                    clusters |-> cs, reply |-> made[s].reply]
    BY <1>0, <2>3 DEF IsMade
  <2>5. IsMade(made'[s]) /\ made'[s].samples = made[s].samples /\ made'[s].clusters = cs
    BY <2>4 DEF IsMade
  <2>6. pc[s] = "fpga send"
    BY <2>1 DEF GoTo
  <2>7. OfItsEvent("fpga sent", factories'[s].f125, made'[s], ev'[s])
    BY <1>0, <2>1, <2>2, <2>5, <2>6 DEF OfItsEvent
  <2>8. QED BY <1>0, <2>1, <2>3, <2>5, <2>7, SlotMoves
<1>4. CASE SendRaw(s)
  BY <1>4, SlotStays DEF SendRaw, slotVars
<1>5. CASE RecvRaw(s)
  <2>1. PICK v : made' = [made EXCEPT ![s].reply = v]
    BY <1>5 DEF RecvRaw
  <2>2. GoTo(s, "fpga receive", "fpga plots") /\ ev' = ev /\ factories' = factories
    BY <1>5 DEF RecvRaw
  <2>3. made'[s] = [made[s] EXCEPT !.reply = v] /\ OthersStay(s)
    BY <1>0, <2>1, <2>2 DEF OthersStay
  <2>4. SameData(made[s], made'[s])
    <3>1. SameData(made[s], [made[s] EXCEPT !.reply = v])
      BY <1>0, OthersMade
    <3>2. QED BY <2>3, <3>1
  <2>5. QED BY <1>0, <2>2, <2>3, <2>4, SlotMakes
<1>6. CASE FpgaPlots(s)
  <2>1. ev' = ev /\ factories' = factories /\ made' = made
    BY <1>6 DEF FpgaPlots, slotVars
  <2>2. GoTo(s, "fpga plots", "trd") \/ GoTo(s, "fpga plots", "crashed")
    BY <1>6 DEF FpgaPlots
  <2>3. QED BY <2>1, <2>2, SlotStays
<1>7. QED BY <1>1, <1>2, <1>3, <1>4, <1>5, <1>6 DEF Fpga

LEMMA SlotsKept == SlotInv /\ [Next]_vars => SlotInv'
<1> SUFFICES ASSUME SlotInv, [Next]_vars PROVE SlotInv'
  OBVIOUS
<1>1. CASE NextFile
  BY <1>1 DEF NextFile, eventVars, slotVars, SlotInv, SlotTypes
<1>2. ASSUME NEW s \in Slots, Take(s) PROVE SlotInv'
  <2>0. /\ DOMAIN made = Slots /\ DOMAIN factories = Slots /\ DOMAIN ev = Slots
        /\ IsFactory(factories[s])
    BY DEF SlotInv, SlotTypes
  <2>1. GoTo(s, "idle", "gem count") /\ made' = [made EXCEPT ![s] = NewMade]
    BY <1>2 DEF Take
  <2>2. PICK e \in Events :
          /\ ev' = [ev EXCEPT ![s] = [id |-> source.taken + 1, run |-> source.file,
                                      number |-> source.number + 1,
                                      items |-> e.items, records |-> e.records]]
          /\ factories' = [factories EXCEPT ![s].srs = factories[s].srs \/ e.srs,
                                            ![s].f125 = factories[s].f125 \/ e.f125]
    BY <1>2 DEF Take
  <2>3. ev'[s].items = e.items /\ ev'[s].records = e.records /\ made'[s] = NewMade
    BY <2>0, <2>1, <2>2
  <2>4. factories' = [[factories EXCEPT ![s].srs = factories[s].srs \/ e.srs]
                         EXCEPT ![s].f125 = factories[s].f125 \/ e.f125]
    BY <2>2
  <2>5. IsFactory(factories'[s])
    <3>1. factories'[s] = [[factories[s] EXCEPT !.srs = factories[s].srs \/ e.srs]
                              EXCEPT !.f125 = factories[s].f125 \/ e.f125]
      BY <2>0, <2>4
    <3> DEFINE v == factories[s].srs \/ e.srs
               w == factories[s].f125 \/ e.f125
               k == [factories[s] EXCEPT !.srs = v]
    <3>2. k = [srs |-> v, f125 |-> factories[s].f125, run |-> factories[s].run,
               pedestals |-> factories[s].pedestals, stats |-> factories[s].stats]
      <4> HIDE DEF v
      <4>1. QED BY <2>0 DEF IsFactory
    <3>3. factories'[s] = [k EXCEPT !.f125 = w]
      BY <3>1
    <3> HIDE DEF k, v, w
    <3>4. factories'[s] = [srs |-> v, f125 |-> w, run |-> factories[s].run,
                           pedestals |-> factories[s].pedestals, stats |-> factories[s].stats]
      BY <3>2, <3>3
    <3>5. QED BY <3>4 DEF IsFactory
  <2>6. OthersStay(s)
    BY <2>0, <2>1, <2>2, <2>4 DEF OthersStay
  <2>7. IsMade(NewMade) /\ NewMade.samples = Empty
    BY DEF IsMade, NewMade
  <2>8. "gem count" \in Labels /\ "gem count" \notin Clustered
    BY DEF Labels, Clustered
  <2>9. OfItsEvent("gem count", factories'[s].f125, made'[s], ev'[s])
    BY <2>3, <2>7, <2>8 DEF OfItsEvent, FromEvents
  <2>10. QED BY <2>1, <2>3, <2>5, <2>6, <2>7, <2>8, <2>9, SlotMoves
<1>3. ASSUME NEW s \in Slots, FillTrdHistogram(s) PROVE SlotInv'
  <2>1. GoTo(s, "trd", "idle") /\ ev' = ev /\ factories' = factories /\ made' = made
    BY <1>3 DEF FillTrdHistogram, slotVars
  <2>2. "idle" \in Labels /\ "idle" \notin Clustered
    BY DEF Labels, CountedTwice, Clustered
  <2>3. QED BY <2>1, <2>2, SlotStays
<1>4. CASE UNCHANGED vars
  BY <1>4 DEF vars, eventVars, slotVars, SlotInv, SlotTypes
<1>5. QED BY <1>1, <1>2, <1>3, <1>4, GemKeepsSlots, FpgaKeepsSlots DEF Next

-----------------------------------------------------------------------------
LEMMA EventHas ==
    ASSUME NEW x, FromEvents(x)
    PROVE  x.records \in Seq(Record) /\ (IdsFit => x.items \in Seq(Item))
<1>1. PICK e \in Events : x.items = e.items /\ x.records = e.records
  BY DEF FromEvents
<1>2. /\ e.records \in Seq(Record)
      /\ e.items \in Seq([apv : Nat, ch : Chans, samples : Seq(Nat)])
  BY EventsAssumption DEF Record
<1>3. ASSUME IdsFit PROVE e.items \in Seq(Item)
  <2> DEFINE T == [apv : Nat, ch : Chans, samples : Seq(Nat)]
             items == e.items
  <2>1. \A k \in DOMAIN items : items[k].apv <= 255 /\ Len(items[k].samples) <= 30
    BY <1>3 DEF IdsFit
  <2>2. items \in Seq(T)
    BY <1>2
  <2> HIDE DEF items, T
  <2>3. DOMAIN items = 1 .. Len(items) /\ Len(items) \in Nat
        /\ \A k \in 1 .. Len(items) : items[k] \in T
    BY <2>2
  <2>4. ASSUME NEW k \in 1 .. Len(items) PROVE items[k] \in Item
    <3> DEFINE i == items[k]
    <3>1. i \in T /\ i.apv <= 255 /\ Len(i.samples) <= 30
      BY <2>1, <2>3
    <3> HIDE DEF i
    <3>2. i = [apv |-> i.apv, ch |-> i.ch, samples |-> i.samples] /\ i.apv \in Nat
          /\ i.ch \in Chans /\ i.samples \in Seq(Nat)
      BY <3>1 DEF T
    <3>3. i.apv \in 0 .. 255
      <4>1. ASSUME NEW a \in Nat, a <= 255 PROVE a \in 0 .. 255
        BY <4>1
      <4>2. QED BY <3>1, <3>2, <4>1
    <3>4. i \in Item
      BY <3>1, <3>2, <3>3 DEF Item
    <3>5. QED BY <3>4 DEF i
  <2>5. items = [k \in 1 .. Len(items) |-> items[k]]
    BY <2>2, <2>3
  <2>6. items \in Seq(Item)
    BY <2>3, <2>4, <2>5
  <2>7. QED BY <2>6 DEF items
<1>4. QED BY <1>1, <1>2, <1>3

LEMMA SlotsHold == Spec => []SlotInv
BY SlotInit, SlotsKept, PTL DEF Spec

(* The clusters hold the energy of the display once, unless their table is *)
(* full, in every slot and whatever display, table and threshold.          *)
THEOREM EnergyKept == Spec => []EnergyIsKept
<1>1. ASSUME SlotInv PROVE EnergyIsKept
  <2>1. SUFFICES ASSUME NEW s \in Slots, pc[s] = "fpga sent", factories[s].f125,
                        Len(made[s].clusters) + 1 < MaxClust
                 PROVE  Energy(made[s].clusters) = Charge(Display(ev[s].records))
    BY DEF EnergyIsKept
  <2>2. OfItsEvent(pc[s], factories[s].f125, made[s], ev[s])
    BY <1>1 DEF SlotInv
  <2> DEFINE records == ev[s].records
             cs == F125ClustersOf(records)
  <2>3. FromEvents(ev[s]) /\ made[s].clusters = cs
    BY <2>1, <2>2 DEF OfItsEvent, Clustered
  <2>4. records \in Seq(Record)
    BY <2>3, EventHas
  <2> HIDE DEF records
  <2>5. cs \in Seq(Cluster) /\ (Full(cs) \/ Energy(cs) = Charge(Display(records)))
    BY <2>4, ClustersOf
  <2>6. ~Full(cs)
    <3>1. Len(cs) + 1 < MaxClust
      BY <2>1, <2>3
    <3>2. Len(cs) \in Nat /\ MaxClust \in Nat
      BY <2>5, TrdAssumption
    <3> HIDE DEF cs
    <3>3. QED BY <3>1, <3>2 DEF Full
  <2>7. QED BY <2>3, <2>5, <2>6 DEF records
<1>2. QED BY <1>1, SlotsHold, PTL

(* Every sample of a mapped chip is among those written, in every slot and *)
(* for every mapping: no two of them have one id.                          *)
THEOREM SamplesWritten == ASSUME IdsFit PROVE Spec => []NoSampleLost
<1>1. ASSUME SlotInv PROVE NoSampleLost
  <2>1. SUFFICES ASSUME NEW s \in Slots, pc[s] = "fpga count", made[s].samples # Empty
                 PROVE  AllKept(ev[s].items, made[s].samples)
    BY DEF NoSampleLost, AllKept, IsKept
  <2>2. OfItsEvent(pc[s], factories[s].f125, made[s], ev[s])
    BY <1>1 DEF SlotInv
  <2>3. FromEvents(ev[s])
    BY <2>1, <2>2 DEF OfItsEvent
  <2>4. PICK stats : made[s].samples = AnalyseSamples(ev[s].items, stats).out
    BY <2>1, <2>2 DEF OfItsEvent
  <2>5. ev[s].items \in Seq(Item)
    BY <2>3, EventHas
  <2>6. AllKept(ev[s].items, AnalyseSamples(ev[s].items, stats).out)
    BY <2>5, SamplesAreKept
  <2>7. QED BY <2>4, <2>6
<1>2. QED BY <1>1, SlotsHold, PTL

-----------------------------------------------------------------------------
(* One slot.  The buffer holds the hits of the event until they are sent,  *)
(* and the answer that comes is for them.                                  *)
IsAnswer(r, id, cs) ==
    \E x \in Replies :
        /\ Len(x.nodes) = Len(HitsToSend(cs))
        /\ r = [of |-> id, associations |-> Associations(cs, x), tracks |-> TrackFits(x)]

ExchangedAt(at, id, cs, r, buffer, sent) ==
    /\ at = "fpga sent" => buffer = [id |-> id, hits |-> HitsToSend(cs)]
    /\ at \in {"fpga receive", "fpga plots"} => sent = [id |-> id, hits |-> HitsToSend(cs)]
    /\ at = "fpga plots" => IsAnswer(r, id, cs)

Exchanged(s) == ExchangedAt(pc[s], ev[s].id, made[s].clusters, made[s].reply,
                            exchange.BUFFER, exchange.sent[s])

ExchangeTypes == /\ exchange = [BUFFER |-> exchange.BUFFER, sent |-> exchange.sent]
                 /\ DOMAIN exchange.sent = Slots

ExchangeInv == ExchangeTypes /\ \A s \in Slots : Exchanged(s)

LEMMA ExchangeInit == Init => ExchangeInv
<1> SUFFICES ASSUME Init PROVE ExchangeInv
  OBVIOUS
<1>1. ExchangeTypes
  BY DEF Init, ExchangeTypes
<1>2. \A s \in Slots : pc[s] = "idle"
  BY DEF Init
<1>3. QED BY <1>1, <1>2 DEF ExchangeInv, Exchanged, ExchangedAt

LEMMA NotExchanging ==
    ASSUME OneSlot, SlotInv, ExchangeInv, NEW s \in Slots, NEW here, NEW there \in Labels,
           GoTo(s, here, there), there \notin Clustered, exchange' = exchange
    PROVE  ExchangeInv'
<1>1. pc \in [Slots -> Labels]
  BY DEF SlotInv, SlotTypes
<1>2. pc'[s] = there
  BY <1>1, GoesTo
<1>3. \A r \in Slots : r = s
  BY DEF OneSlot
<1>4. Exchanged(s)'
  BY <1>2 DEF Exchanged, ExchangedAt, Clustered
<1>5. ExchangeTypes'
  BY DEF ExchangeInv, ExchangeTypes
<1>6. QED BY <1>3, <1>4, <1>5 DEF ExchangeInv

(* The steps of the GEM processor, and those around the exchange.          *)
StepsBeside(s) == /\ exchange' = exchange
                  /\ \E here, there \in Labels : GoTo(s, here, there) /\ there \notin Clustered

LEMMA Beside ==
    ASSUME NEW s \in Slots, NEW here \in Labels, NEW there \in Labels, GoTo(s, here, there),
           there \notin Clustered, exchange' = exchange
    PROVE  StepsBeside(s)
BY DEF StepsBeside

LEMMA GemStepsBeside ==
    ASSUME NEW s \in Slots, Gem(s)
    PROVE  StepsBeside(s)
<1> USE DEF Labels, CountedOnce, CountedTwice, GemSteps, Clustered
<1>1. CASE GemCount(s)
  BY <1>1, Beside DEF GemCount
<1>2. CASE GemCounted(s)
  BY <1>2, Beside DEF GemCounted
<1>3. CASE GemSelect(s)
  BY <1>3, Beside DEF GemSelect
<1>4. CASE FillEventRawData(s)
  BY <1>4, Beside DEF FillEventRawData
<1>5. CASE MakeRawData(s)
  BY <1>5, Beside DEF MakeRawData
<1>6. CASE MakePedestal(s)
  BY <1>6, Beside DEF MakePedestal
<1>7. CASE FillApvDecodedData(s)
  BY <1>7, Beside DEF FillApvDecodedData
<1>8. CASE MakePlanes(s)
  BY <1>8, Beside DEF MakePlanes
<1>9. CASE FillEventPlaneData(s)
  BY <1>9, Beside DEF FillEventPlaneData
<1>10. CASE MakePeaks(s)
  BY <1>10, Beside DEF MakePeaks
<1>11. CASE FillSampleData(s)
  BY <1>11, Beside DEF FillSampleData
<1>12. QED BY <1>1, <1>2, <1>3, <1>4, <1>5, <1>6, <1>7, <1>8, <1>9, <1>10, <1>11 DEF Gem

LEMMA OtherStepsBeside ==
    ASSUME NEW s \in Slots,
           Take(s) \/ FpgaCount(s) \/ FpgaCounted(s) \/ FpgaPlots(s) \/ FillTrdHistogram(s)
    PROVE  StepsBeside(s)
<1> USE DEF Labels, CountedOnce, CountedTwice, GemSteps, Clustered
<1>1. CASE Take(s)
  BY <1>1, Beside DEF Take
<1>2. CASE FpgaCount(s)
  BY <1>2, Beside DEF FpgaCount
<1>3. CASE FpgaCounted(s)
  BY <1>3, Beside DEF FpgaCounted
<1>4. CASE FpgaPlots(s)
  BY <1>4, Beside DEF FpgaPlots
<1>5. CASE FillTrdHistogram(s)
  BY <1>5, Beside DEF FillTrdHistogram
<1>6. QED BY <1>1, <1>2, <1>3, <1>4, <1>5

LEMMA ExchangeKept ==
    ASSUME OneSlot, SlotInv, ExchangeInv, [Next]_vars
    PROVE  ExchangeInv'
<1>1. PICK s : Slots = {s}
  BY DEF OneSlot
<1>2. /\ s \in Slots /\ pc \in [Slots -> Labels] /\ DOMAIN made = Slots /\ IsMade(made[s])
      /\ OfItsEvent(pc[s], factories[s].f125, made[s], ev[s])
      /\ exchange = [BUFFER |-> exchange.BUFFER, sent |-> exchange.sent]
      /\ DOMAIN exchange.sent = Slots /\ Exchanged(s)
  BY <1>1 DEF SlotInv, SlotTypes, ExchangeInv, ExchangeTypes
<1>3. "fpga sent" \in Labels /\ "fpga receive" \in Labels /\ "fpga plots" \in Labels
  BY DEF Labels, CountedTwice
<1>4. CASE StepsBeside(s)
  BY <1>2, <1>4, NotExchanging DEF StepsBeside
<1>5. CASE FillBuffer(s)
  <2> DEFINE cs == ClustersFor(s)
             buffer == [id |-> ev[s].id, hits |-> HitsToSend(cs)]
  <2>1. /\ GoTo(s, "fpga send", "fpga sent") /\ ev' = ev
        /\ made' = [made EXCEPT ![s].clusters = cs]
        /\ exchange' = [exchange EXCEPT !.BUFFER = buffer]
    BY <1>5 DEF FillBuffer
  <2> HIDE DEF cs
  <2>2. pc'[s] = "fpga sent"
    BY <1>2, <1>3, <2>1, GoesTo
  <2>3. made'[s].clusters = cs
    <3>1. made'[s] = [made[s] EXCEPT !.clusters = cs]
      BY <1>2, <2>1
    <3>2. QED BY <1>2, <3>1 DEF IsMade
  <2>4. exchange' = [BUFFER |-> buffer, sent |-> exchange.sent]
    <3> HIDE DEF buffer
    <3>1. QED BY <1>2, <2>1
  <2>5. ExchangeTypes'
    BY <1>2, <2>4 DEF ExchangeTypes
  <2>6. Exchanged(s)'
    BY <2>1, <2>2, <2>3, <2>4 DEF Exchanged, ExchangedAt
  <2>7. QED BY <1>1, <2>5, <2>6 DEF ExchangeInv
<1>6. CASE SendRaw(s)
  <2>1. /\ GoTo(s, "fpga sent", "fpga receive") /\ ev' = ev /\ made' = made
        /\ exchange' = [exchange EXCEPT !.sent[s] = exchange.BUFFER]
    BY <1>6 DEF SendRaw, slotVars
  <2>2. pc[s] = "fpga sent" /\ pc'[s] = "fpga receive"
    BY <1>2, <1>3, <2>1, GoesTo
  <2> DEFINE sent == [exchange.sent EXCEPT ![s] = exchange.BUFFER]
  <2>3. exchange' = [BUFFER |-> exchange.BUFFER, sent |-> sent]
    BY <1>2, <2>1
  <2>4. DOMAIN sent = Slots /\ sent[s] = exchange.BUFFER
    BY <1>2
  <2> HIDE DEF sent
  <2>5. ExchangeTypes' /\ exchange'.sent[s] = exchange.BUFFER
    BY <2>3, <2>4 DEF ExchangeTypes
  <2>6. exchange.BUFFER = [id |-> ev[s].id, hits |-> HitsToSend(made[s].clusters)]
    BY <1>2, <2>2 DEF Exchanged, ExchangedAt
  <2>7. Exchanged(s)'
    BY <2>1, <2>2, <2>5, <2>6 DEF Exchanged, ExchangedAt
  <2>8. QED BY <1>1, <2>5, <2>7 DEF ExchangeInv
<1>7. CASE RecvRaw(s)
  <2>1. GoTo(s, "fpga receive", "fpga plots") /\ ev' = ev /\ exchange' = exchange
    BY <1>7 DEF RecvRaw
  <2>2. pc[s] = "fpga receive" /\ pc'[s] = "fpga plots"
    BY <1>2, <1>3, <2>1, GoesTo
  <2> DEFINE cs == made[s].clusters
             answer(x) == [of |-> exchange.sent[s].id, associations |-> Associations(cs, x),
                           tracks |-> TrackFits(x)]
  <2>3. PICK x \in Replies : /\ Len(x.nodes) = Len(exchange.sent[s].hits)
                             /\ made' = [made EXCEPT ![s].reply = answer(x)]
    BY <1>7 DEF RecvRaw
  <2>4. exchange.sent[s] = [id |-> ev[s].id, hits |-> HitsToSend(cs)]
    BY <1>2, <2>2 DEF Exchanged, ExchangedAt
  <2>5. answer(x) = [of |-> ev[s].id, associations |-> Associations(cs, x),
                     tracks |-> TrackFits(x)]
        /\ Len(x.nodes) = Len(HitsToSend(cs))
    BY <2>3, <2>4
  <2> HIDE DEF answer, cs
  <2>6. made'[s].reply = answer(x) /\ made'[s].clusters = cs
    <3>1. made'[s] = [made[s] EXCEPT !.reply = answer(x)]
      BY <1>2, <2>3
    <3>2. QED BY <1>2, <3>1 DEF IsMade, cs
  <2>7. IsAnswer(made'[s].reply, ev[s].id, cs)
    BY <2>5, <2>6 DEF IsAnswer
  <2>8. Exchanged(s)'
    BY <2>1, <2>2, <2>4, <2>6, <2>7 DEF Exchanged, ExchangedAt
  <2>9. ExchangeTypes'
    BY <1>2, <2>1 DEF ExchangeTypes
  <2>10. QED BY <1>1, <2>8, <2>9 DEF ExchangeInv
<1>8. CASE NextFile
  BY <1>8 DEF NextFile, eventVars, slotVars, ExchangeInv, ExchangeTypes, Exchanged
<1>9. CASE UNCHANGED vars
  BY <1>9 DEF vars, eventVars, slotVars, ExchangeInv, ExchangeTypes, Exchanged
<1>10. Gem(s) => StepsBeside(s)
  BY <1>2, GemStepsBeside
<1>11. Take(s) \/ FpgaCount(s) \/ FpgaCounted(s) \/ FpgaPlots(s) \/ FillTrdHistogram(s)
           => StepsBeside(s)
  BY <1>2, OtherStepsBeside
<1>12. QED BY <1>1, <1>4, <1>5, <1>6, <1>7, <1>8, <1>9, <1>10, <1>11 DEF Next, Fpga

(* A track of the answer is given to the hit that was sent in its place.   *)
LEMMA AnswerIsOwn ==
    ASSUME NEW cs \in Seq(Cluster), NEW r, NEW id, IsAnswer(r, id, cs),
           NEW k \in DOMAIN r.associations
    PROVE  /\ r.associations[k].hit_index + 1 = k
           /\ HitsToSend(cs)[k] = <<cs[k].pos_x, cs[k].pos_z>>
<1>1. PICK x \in Replies :
          /\ Len(x.nodes) = Len(HitsToSend(cs))
          /\ r = [of |-> id, associations |-> Associations(cs, x), tracks |-> TrackFits(x)]
  BY DEF IsAnswer
<1> DEFINE n == Len(cs)
           w == Min({n, MaxHits})
           m == Min({Len(x.nodes), n})
<1>2. n \in Nat /\ MaxHits \in Nat /\ w \in Nat /\ w <= n
  <2>1. n \in Nat /\ MaxHits \in Nat
    BY TrdAssumption
  <2>2. w = IF n <= MaxHits THEN n ELSE MaxHits
    <3> HIDE DEF n
    <3>1. QED BY <2>1, OfTwo
  <2> HIDE DEF n, w
  <2>3. QED BY <2>1, <2>2
<1>3. HitsToSend(cs) = [i \in 1 .. w |-> <<cs[i].pos_x, cs[i].pos_z>>]
  BY DEF HitsToSend
<1> HIDE DEF w, n, m
<1>4. Len(HitsToSend(cs)) = w
  BY <1>2, <1>3
<1>5. m \in Nat /\ m <= w
  <2>1. m = IF w <= n THEN w ELSE n
    BY <1>1, <1>2, <1>4, OfTwo DEF m
  <2>2. QED BY <1>2, <2>1
<1>6. r.associations = Associations(cs, x)
  BY <1>1
<1>7. x.fits # <<>>
  <2>1. SUFFICES ASSUME x.fits = <<>> PROVE FALSE
    OBVIOUS
  <2>2. r.associations = <<>>
    BY <1>6, <2>1 DEF Associations
  <2>3. QED BY <2>2
<1>8. r.associations = [i \in 1 .. m |-> [hit_index |-> i - 1, track_index |-> x.nodes[i]]]
  BY <1>6, <1>7 DEF Associations, m, n
<1>9. k \in 1 .. m /\ k \in 1 .. w /\ k \in Int
  <2>1. k \in 1 .. m
    BY <1>8
  <2>2. QED BY <1>2, <1>5, <2>1
<1>10. QED BY <1>3, <1>8, <1>9

(* With one slot, the numbers of the tracks that come back are given to    *)
(* the clusters that were sent in their places, for the same event.        *)
THEOREM MarkersOwn == ASSUME OneSlot PROVE Spec => []MarkersAreOwn
<1>1. ASSUME SlotInv, ExchangeInv PROVE MarkersAreOwn
  <2>1. SUFFICES ASSUME NEW s \in Slots, pc[s] = "fpga plots"
                 PROVE  /\ made[s].reply.of = ev[s].id
                        /\ \A k \in Markers(s) :
                             LET c == made[s].clusters[made[s].reply.associations[k].hit_index + 1]
                             IN  exchange.sent[s].hits[k] = <<c.pos_x, c.pos_z>>
    BY DEF MarkersAreOwn
  <2> DEFINE cs == made[s].clusters
             r == made[s].reply
  <2>2. OfItsEvent(pc[s], factories[s].f125, made[s], ev[s]) /\ Exchanged(s)
    BY <1>1 DEF SlotInv, ExchangeInv
  <2>3. /\ IsAnswer(r, ev[s].id, cs)
        /\ exchange.sent[s] = [id |-> ev[s].id, hits |-> HitsToSend(cs)]
    BY <2>1, <2>2 DEF Exchanged, ExchangedAt
  <2>4. cs \in Seq(Cluster)
    <3>1. FromEvents(ev[s])
      BY <2>1, <2>2 DEF OfItsEvent
    <3>2. cs = IF factories[s].f125 THEN F125ClustersOf(ev[s].records) ELSE <<>>
      BY <2>1, <2>2 DEF OfItsEvent, Clustered
    <3>3. F125ClustersOf(ev[s].records) \in Seq(Cluster)
      BY <3>1, EventHas, ClustersOf
    <3>4. QED BY <3>2, <3>3
  <2>5. r.of = ev[s].id
    BY <2>3 DEF IsAnswer
  <2> HIDE DEF cs, r
  <2>6. ASSUME NEW k \in DOMAIN r.associations
        PROVE  exchange.sent[s].hits[k] = <<cs[r.associations[k].hit_index + 1].pos_x,
                                            cs[r.associations[k].hit_index + 1].pos_z>>
    BY <2>3, <2>4, AnswerIsOwn
  <2>7. \A k \in Markers(s) : k \in DOMAIN r.associations
    BY DEF Markers, r
  <2>8. QED BY <2>5, <2>6, <2>7 DEF cs, r
<1>2. QED BY <1>1, SlotInit, SlotsKept, ExchangeInit, ExchangeKept, PTL DEF Spec

-----------------------------------------------------------------------------
(* Folds.  A fold from the left goes through the places 1 .. n of its      *)
(* sequence; the library defines it by a recursion over sets of places,    *)
(* whose greatest is the one that comes last.                              *)
LEMMA TopOfInterval ==
    ASSUME NEW k \in Nat \ {0}
    PROVE  1 .. k # {} /\ Max(1 .. k) = k /\ (1 .. k) \ {k} = 1 .. k - 1
<1>1. k \in 1 .. k /\ 1 .. k \in SUBSET (1 .. k)
  OBVIOUS
<1>2. Max(1 .. k) \in 1 .. k /\ \A j \in 1 .. k : j <= Max(1 .. k)
  BY <1>1, GreatestOf
<1>3. k <= Max(1 .. k) /\ Max(1 .. k) <= k /\ Max(1 .. k) \in Int
  BY <1>1, <1>2
<1>4. Max(1 .. k) = k
  BY <1>3
<1>5. QED BY <1>1, <1>4

IsIteration(it, n, base, step) ==
    \A S \in SUBSET (1 .. n) :
        it[S] = IF S = {} THEN base ELSE step[<<Max(S), it[S \ {Max(S)}]>>]

(* There is such an iteration over a range of values.                      *)
LEMMA IterationExists ==
    ASSUME NEW T, NEW n \in Nat, NEW base \in T, NEW step \in [(1 .. n) \X T -> T]
    PROVE  \E it \in [SUBSET (1 .. n) -> T] : IsIteration(it, n, base, step)
<1> DEFINE Ok(k) == \E it \in [SUBSET (1 .. k) -> T] : IsIteration(it, k, base, step)
           U == {k \in 0 .. n : Ok(k)}
<1>1. 0 \in U
  <2> DEFINE it == [S \in SUBSET (1 .. 0) |-> base]
  <2>1. it \in [SUBSET (1 .. 0) -> T] /\ \A S \in SUBSET (1 .. 0) : S = {} /\ it[S] = base
    OBVIOUS
  <2>2. IsIteration(it, 0, base, step)
    BY <2>1 DEF IsIteration
  <2>3. QED BY <2>1, <2>2
<1>2. ASSUME NEW k \in 0 .. n - 1, k \in U PROVE k + 1 \in U
  <2>1. PICK it \in [SUBSET (1 .. k) -> T] : IsIteration(it, k, base, step)
    BY <1>2
  <2> DEFINE m == k + 1
             g == [S \in SUBSET (1 .. m) |-> IF m \in S THEN step[<<m, it[S \ {m}]>>] ELSE it[S]]
  <2>2. m \in 1 .. n /\ k \in Nat /\ m \in Nat /\ k \in 0 .. n - 1 /\ m \in 0 .. n
    OBVIOUS
  <2>3. \A S \in SUBSET (1 .. m) : S \ {m} \in SUBSET (1 .. k) /\ (m \notin S => S \in SUBSET (1 .. k))
    OBVIOUS
  <2> HIDE DEF m
  <2>4. ASSUME NEW S \in SUBSET (1 .. m)
        PROVE  g[S] \in T /\ g[S] = IF S = {} THEN base ELSE step[<<Max(S), g[S \ {Max(S)}]>>]
    <3>1. CASE m \in S
      <4>1. Max(S) \in S /\ \A j \in S : j <= Max(S)
        BY <2>2, <3>1, GreatestOf
      <4>2. Max(S) = m
        <5>1. Max(S) \in 1 .. m /\ m <= Max(S)
          BY <3>1, <4>1
        <5>2. QED BY <2>2, <5>1
      <4>3. it[S \ {m}] \in T
        BY <2>1, <2>3
      <4>4. S \ {m} \in SUBSET (1 .. m) /\ m \notin S \ {m}
        OBVIOUS
      <4>5. g[S \ {m}] = it[S \ {m}]
        BY <4>4
      <4>6. g[S] = step[<<m, it[S \ {m}]>>] /\ S # {}
        BY <3>1
      <4>7. step[<<m, it[S \ {m}]>>] \in T
        BY <2>2, <4>3
      <4> HIDE DEF g
      <4>8. QED BY <4>2, <4>5, <4>6, <4>7
    <3>2. CASE m \notin S
      <4>1. g[S] = it[S] /\ S \in SUBSET (1 .. k)
        BY <2>3, <3>2
      <4>2. it[S] \in T /\ it[S] = IF S = {} THEN base ELSE step[<<Max(S), it[S \ {Max(S)}]>>]
        BY <2>1, <4>1 DEF IsIteration
      <4>3. \A x : S \ {x} \in SUBSET (1 .. m) /\ m \notin S \ {x}
        BY <3>2
      <4>4. g[S \ {Max(S)}] = it[S \ {Max(S)}]
        BY <4>3
      <4> HIDE DEF g
      <4>5. QED BY <4>1, <4>2, <4>4
    <3>3. QED BY <3>1, <3>2
  <2>5. g \in [SUBSET (1 .. m) -> T] /\ IsIteration(g, m, base, step)
    <3>1. g = [S \in SUBSET (1 .. m) |-> g[S]]
      OBVIOUS
    <3> HIDE DEF g
    <3>2. QED BY <2>4, <3>1 DEF IsIteration
  <2> HIDE DEF g
  <2>6. QED BY <2>2, <2>5 DEF m
<1> HIDE DEF U
<1>3. n \in U
  BY <1>1, <1>2, IntervalByInduction
<1>4. QED BY <1>3 DEF U

(* An iteration is followed from place to place.                           *)
Iterated(it, T, n, base, step) ==
    /\ base \in T /\ step \in [(1 .. n) \X T -> T] /\ it[{}] = base
    /\ \A S \in SUBSET (1 .. n) : S # {} /\ it[S \ {Max(S)}] \in T =>
           it[S] = step[<<Max(S), it[S \ {Max(S)}]>>]

LEMMA IterationFollows ==
    ASSUME NEW T, NEW n \in Nat, NEW base, NEW step, NEW it, Iterated(it, T, n, base, step)
    PROVE  FollowsStep([k \in 0 .. n |-> it[1 .. k]], T, n, base, step)
<1> DEFINE f == [k \in 0 .. n |-> it[1 .. k]]
           U == {k \in 0 .. n : f[k] \in T}
<1> USE DEF Iterated
<1>1. f[0] = base /\ 0 \in 0 .. n
  <2>1. 1 .. 0 = {}
    OBVIOUS
  <2>2. QED BY <2>1
<1>2. ASSUME NEW k \in 1 .. n, f[k - 1] \in T
      PROVE  f[k] = step[<<k, f[k - 1]>>] /\ f[k] \in T
  <2>1. k - 1 \in 0 .. n /\ k \in 0 .. n /\ k \in Nat \ {0} /\ 1 .. k \in SUBSET (1 .. n)
    OBVIOUS
  <2>2. 1 .. k # {} /\ Max(1 .. k) = k /\ (1 .. k) \ {k} = 1 .. k - 1
    BY <2>1, TopOfInterval
  <2>3. f[k] = it[1 .. k] /\ f[k - 1] = it[1 .. k - 1]
    BY <2>1
  <2> HIDE DEF f
  <2>4. it[1 .. k] = step[<<k, it[1 .. k - 1]>>]
    BY <1>2, <2>1, <2>2, <2>3
  <2>5. step[<<k, f[k - 1]>>] \in T
    BY <1>2
  <2>6. QED BY <2>3, <2>4, <2>5
<1>3. f = [k \in 0 .. n |-> f[k]]
  OBVIOUS
<1> HIDE DEF f
<1>4. 0 .. n \subseteq U
  <2>1. 0 \in U
    BY <1>1
  <2>2. ASSUME NEW k \in 0 .. n - 1, k \in U PROVE k + 1 \in U
    <3>1. k + 1 \in 1 .. n /\ k + 1 \in 0 .. n /\ (k + 1) - 1 = k
      OBVIOUS
    <3>2. QED BY <1>2, <2>2, <3>1
  <2> HIDE DEF U
  <2>3. QED BY <2>1, <2>2, IntervalByInduction
<1>5. ASSUME NEW k \in 1 .. n PROVE f[k] = step[<<k, f[k - 1]>>]
  <2>1. k - 1 \in 0 .. n
    OBVIOUS
  <2>2. QED BY <1>2, <1>4, <2>1
<1>6. f \in [0 .. n -> T]
  BY <1>3, <1>4
<1>7. QED BY <1>1, <1>5, <1>6 DEF FollowsStep, f

(* What a step that is given by an operation does with places in range.    *)
LEMMA IterationStep ==
    ASSUME NEW T, NEW n \in Nat, NEW it \in [SUBSET (1 .. n) -> T],
           NEW S \in SUBSET (1 .. n), S # {}
    PROVE  Max(S) \in 1 .. n /\ it[S \ {Max(S)}] \in T
<1>1. Max(S) \in S
  BY GreatestOf
<1>2. QED BY <1>1

(* A sum of numbers is a number.                                           *)
LEMMA SumIs ==
    ASSUME NEW s \in Seq(Int)
    PROVE  FoldLeft(LAMBDA a, x : a + x, 0, s) \in Int
<1> DEFINE n == Len(s)
           step == [x \in (1 .. n) \X Int |-> x[2] + s[x[1]]]
           Is(it) == it = [S \in SUBSET (1 .. n) |->
                             IF S = {} THEN 0 ELSE it[S \ {Max(S)}] + s[Max(S)]]
           iter == CHOOSE it : Is(it)
<1>1. n \in Nat /\ DOMAIN s = 1 .. n /\ \A k \in 1 .. n : s[k] \in Int
  OBVIOUS
<1>2. FoldLeft(LAMBDA a, x : a + x, 0, s) = iter[1 .. n]
  BY <1>1 DEF FoldLeft, MapThenFoldSet
<1> HIDE DEF n
<1>3. step \in [(1 .. n) \X Int -> Int] /\ 0 \in Int
  BY <1>1
<1>4. PICK g \in [SUBSET (1 .. n) -> Int] : IsIteration(g, n, 0, step)
  <2> HIDE DEF step
  <2>1. QED BY <1>1, <1>3, IterationExists
<1>5. ASSUME NEW S \in SUBSET (1 .. n)
      PROVE  g[S] = IF S = {} THEN 0 ELSE g[S \ {Max(S)}] + s[Max(S)]
  <2>1. g[S] = IF S = {} THEN 0 ELSE step[<<Max(S), g[S \ {Max(S)}]>>]
    BY <1>4 DEF IsIteration
  <2>2. S # {} => Max(S) \in 1 .. n /\ g[S \ {Max(S)}] \in Int
    BY <1>1, IterationStep
  <2>3. QED BY <2>1, <2>2
<1>6. Is(iter)
  <2>1. Is(g)
    BY <1>5
  <2> HIDE DEF Is
  <2>2. QED BY <2>1
<1>7. Iterated(iter, Int, n, 0, step)
  <2> HIDE DEF iter
  <2>1. ASSUME NEW S \in SUBSET (1 .. n), S # {} PROVE Max(S) \in 1 .. n
    BY <1>1, <2>1, GreatestOf
  <2>2. QED BY <1>3, <1>6, <2>1 DEF Iterated
<1> HIDE DEF iter, step
<1>8. FollowsStep([k \in 0 .. n |-> iter[1 .. k]], Int, n, 0, step)
  BY <1>1, <1>7, IterationFollows
<1>9. n \in 0 .. n
  BY <1>1
<1>10. iter[1 .. n] \in Int
  BY <1>8, <1>9 DEF FollowsStep
<1>11. QED BY <1>2, <1>10

(* The last value is in the range.                                         *)
LEMMA IterationEnds ==
    ASSUME NEW T, NEW n \in Nat, NEW base, NEW step, NEW it, Iterated(it, T, n, base, step)
    PROVE  it[1 .. n] \in T
<1>1. FollowsStep([k \in 0 .. n |-> it[1 .. k]], T, n, base, step)
  BY IterationFollows
<1>2. n \in 0 .. n
  OBVIOUS
<1>3. QED BY <1>1, <1>2 DEF FollowsStep

-----------------------------------------------------------------------------
(* A recursion that goes on at a later place, up to places where it stops. *)
Leaps(T, n, base, stop, next, add) ==
    /\ base \in T /\ add \in [(0 .. n) \X T -> T]
    /\ \A i \in (0 .. n) \ stop : next[i] \in i + 1 .. n

Leapt(f, n, base, stop, next, add) ==
    \A i \in 0 .. n : f[i] = IF i \in stop THEN base ELSE add[<<i, f[next[i]]>>]

(* A recursion that leaps forward has a solution.                          *)
LEMMA LeapsExist ==
    ASSUME NEW T, NEW n \in Nat, NEW base, NEW stop, NEW next, NEW add,
           Leaps(T, n, base, stop, next, add)
    PROVE  \E f \in [0 .. n -> T] : Leapt(f, n, base, stop, next, add)
<1> USE DEF Leaps, Leapt
<1> DEFINE From(j) == \E f \in [j .. n -> T] : \A i \in j .. n :
                          f[i] = IF i \in stop THEN base ELSE add[<<i, f[next[i]]>>]
           U == {k \in 0 .. n : From(n - k)}
<1>1. 0 \in U
  <2>1. n \in stop
    BY SMT
  <2> DEFINE f == [i \in n .. n |-> base]
  <2>2. f \in [n .. n -> T] /\ \A i \in n .. n : i = n /\ f[i] = base
    OBVIOUS
  <2> HIDE DEF f
  <2>3. From(n)
    BY <2>1, <2>2
  <2>4. n - 0 = n /\ 0 \in 0 .. n
    OBVIOUS
  <2>5. QED BY <2>3, <2>4
<1>2. ASSUME NEW k \in 0 .. n - 1, k \in U PROVE k + 1 \in U
  <2> DEFINE j == n - k
             l == n - (k + 1)
  <2>1. j \in 1 .. n /\ l \in 0 .. n /\ l + 1 = j /\ k + 1 \in 0 .. n
    OBVIOUS
  <2>2. PICK f \in [j .. n -> T] : \A i \in j .. n :
                  f[i] = IF i \in stop THEN base ELSE add[<<i, f[next[i]]>>]
    BY <1>2
  <2> HIDE DEF j, l
  <2> DEFINE g == [i \in l .. n |-> IF i = l THEN IF l \in stop THEN base
                                                  ELSE add[<<l, f[next[l]]>>]
                                    ELSE f[i]]
  <2>3. \A i \in j .. n : i \in l .. n /\ i # l /\ i \in 0 .. n /\ i + 1 .. n \subseteq j .. n
    BY <2>1
  <2>4. \A i \in l .. n : i = l \/ i \in j .. n
    BY <2>1
  <2>5. \A i \in j .. n : g[i] = f[i]
    BY <2>3
  <2>6. l \notin stop => next[l] \in j .. n
    BY <2>1
  <2>7. \A i \in j .. n : i \notin stop => next[i] \in j .. n
    BY <2>3
  <2>8. ASSUME NEW i \in l .. n
        PROVE  g[i] \in T /\ g[i] = IF i \in stop THEN base ELSE add[<<i, g[next[i]]>>]
    <3>1. CASE i = l
      <4>1. g[i] = IF l \in stop THEN base ELSE add[<<l, f[next[l]]>>]
        BY <3>1
      <4>2. l \notin stop => f[next[l]] \in T /\ g[next[l]] = f[next[l]]
        BY <2>2, <2>5, <2>6
      <4> HIDE DEF g
      <4>3. l \notin stop => add[<<l, f[next[l]]>>] \in T
        BY <2>1, <4>2
      <4>4. QED BY <3>1, <4>1, <4>2, <4>3
    <3>2. CASE i # l
      <4>1. i \in j .. n
        BY <2>4, <3>2
      <4>2. i \notin stop => g[next[i]] = f[next[i]]
        BY <2>5, <2>7, <4>1
      <4> HIDE DEF g
      <4>3. QED BY <2>2, <2>5, <4>1, <4>2
    <3>3. QED BY <3>1, <3>2
  <2>9. g \in [l .. n -> T]
    <3>1. g = [i \in l .. n |-> g[i]]
      OBVIOUS
    <3> HIDE DEF g
    <3>2. QED BY <2>8, <3>1
  <2> HIDE DEF g
  <2>10. From(l)
    BY <2>8, <2>9
  <2>11. QED BY <2>1, <2>10 DEF l
<1> HIDE DEF U
<1>3. n \in U
  BY <1>1, <1>2, IntervalByInduction
<1>4. From(n - n)
  BY <1>3 DEF U
<1>5. n - n = 0
  OBVIOUS
<1>6. QED BY <1>4, <1>5

(* The greatest of some numbers below a bound.                             *)
LEMMA GreatestBelow ==
    ASSUME NEW b \in Nat, NEW S \in SUBSET (0 .. b), S # {}
    PROVE  Max(S) \in S /\ \A k \in S : k <= Max(S)
<1> DEFINE T == {k + 1 : k \in S}
<1>1. T \in SUBSET (1 .. b + 1) /\ T # {} /\ b + 1 \in Nat
  <2>1. \A k \in S : k + 1 \in 1 .. b + 1
    OBVIOUS
  <2>2. T \subseteq 1 .. b + 1
    BY <2>1
  <2>3. PICK k \in S : TRUE
    OBVIOUS
  <2>4. k + 1 \in T
    OBVIOUS
  <2>5. QED BY <2>2, <2>4
<1>2. Max(T) \in T /\ \A k \in T : k <= Max(T)
  <2> HIDE DEF T
  <2>1. QED BY <1>1, GreatestOf
<1>3. PICK m \in S : Max(T) = m + 1
  BY <1>2
<1>4. \A k \in S : m >= k
  <2>1. \A k \in S : k + 1 <= m + 1
    BY <1>2, <1>3
  <2>2. QED BY <2>1
<1>5. Max(S) \in S /\ \A k \in S : Max(S) >= k
  BY <1>4 DEF Max
<1>6. QED BY <1>5

-----------------------------------------------------------------------------
(* The peaks that a slice of data can have: at a place above zero, of the  *)
(* height the data have there.                                             *)
Tops(data) == {j \in 0 .. Len(data) - 1 : data[j + 1] > 0}
PeaksIn(data, slice) ==
    {[index |-> j, height |-> data[j + 1], width |-> w, area |-> Sum(data, i, w), time |-> slice] :
        j \in Tops(data), i \in 0 .. Len(data), w \in 0 .. Len(data)}

(* A run has a highest channel, the earliest of equals.                    *)
LEMMA RunHasTop ==
    ASSUME NEW data \in Seq(Int), NEW i \in Nat, NEW w \in Nat \ {0}, i + w <= Len(data)
    PROVE  \E j \in i .. i + w - 1 :
              /\ \A k \in i .. i + w - 1 : data[k + 1] <= data[j + 1]
              /\ \A k \in i .. i + w - 1 : data[k + 1] = data[j + 1] => j <= k
<1> DEFINE run == i .. i + w - 1
           High(m) == \E j \in i .. i + m : \A k \in i .. i + m : data[k + 1] <= data[j + 1]
           U == {m \in 0 .. w - 1 : High(m)}
<1>1. \A k \in run : data[k + 1] \in Int /\ k \in Nat
  OBVIOUS
<1>2. 0 \in U
  <2>1. i \in run /\ i \in i .. i + 0 /\ (\A k \in i .. i + 0 : k = i) /\ 0 \in 0 .. w - 1
    OBVIOUS
  <2>2. data[i + 1] \in Int /\ data[i + 1] <= data[i + 1]
    BY <1>1, <2>1
  <2>3. High(0)
    BY <2>1, <2>2
  <2>4. QED BY <2>1, <2>3
<1>3. ASSUME NEW m \in 0 .. (w - 1) - 1, m \in U PROVE m + 1 \in U
  <2>1. PICK j \in i .. i + m : \A k \in i .. i + m : data[k + 1] <= data[j + 1]
    BY <1>3
  <2> DEFINE l == i + (m + 1)
  <2>2. /\ l \in run /\ j \in run /\ l \in i .. l /\ j \in i .. l /\ m + 1 \in 0 .. w - 1
        /\ i .. i + m \subseteq run /\ \A k \in i .. l : k = l \/ k \in i .. i + m
    OBVIOUS
  <2> HIDE DEF l, run
  <2>3. CASE data[l + 1] <= data[j + 1]
    <3>1. \A k \in i .. l : data[k + 1] <= data[j + 1]
      BY <2>1, <2>2, <2>3
    <3>2. QED BY <2>2, <3>1 DEF l
  <2>4. CASE ~(data[l + 1] <= data[j + 1])
    <3>1. data[j + 1] <= data[l + 1] /\ data[l + 1] <= data[l + 1]
      BY <1>1, <2>2, <2>4
    <3>2. \A k \in i .. i + m : data[k + 1] <= data[l + 1]
      BY <1>1, <2>1, <2>2, <3>1
    <3>3. \A k \in i .. l : data[k + 1] <= data[l + 1]
      BY <2>2, <3>1, <3>2
    <3>4. QED BY <2>2, <3>3 DEF l
  <2>5. QED BY <2>3, <2>4
<1> HIDE DEF U
<1>4. w - 1 \in U
  <2> DEFINE v == w - 1
  <2>1. v \in Nat
    OBVIOUS
  <2>2. \A m \in 0 .. v - 1 : m \in U => m + 1 \in U
    BY <1>3
  <2> HIDE DEF v
  <2>3. 0 .. v \subseteq U
    BY <1>2, <2>1, <2>2, IntervalByInduction
  <2>4. v \in 0 .. v
    BY <2>1
  <2>5. QED BY <2>3, <2>4 DEF v
<1>5. PICK j \in run : \A k \in run : data[k + 1] <= data[j + 1]
  <2>1. i + (w - 1) = i + w - 1
    OBVIOUS
  <2>2. QED BY <1>4, <2>1 DEF U
<1> HIDE DEF run
<1> DEFINE T == {k \in run : data[k + 1] = data[j + 1]}
<1>6. PICK t \in T : \A k \in T : t <= k
  <2>1. T \in SUBSET Nat /\ j \in T
    BY <1>1
  <2> HIDE DEF T
  <2>2. QED BY <2>1, LeastNumber
<1>7. QED BY <1>5, <1>6 DEF run

(* From a channel above on, the run of the channels above has a length.    *)
LEMMA RunHasLength ==
    ASSUME NEW n \in Nat, NEW i \in 0 .. n - 1, NEW up, i \in up
    PROVE  \E w \in 1 .. n - i : /\ \A k \in i .. i + w - 1 : k \in up
                                 /\ i + w = n \/ i + w \notin up
<1> DEFINE T == {w \in 1 .. n - i : i + w = n \/ i + w \notin up}
<1>1. T \in SUBSET Nat /\ n - i \in T
  OBVIOUS
<1>2. PICK w \in T : \A v \in T : w <= v
  <2> HIDE DEF T
  <2>1. QED BY <1>1, LeastNumber
<1>3. w \in 1 .. n - i /\ (i + w = n \/ i + w \notin up)
  BY <1>2
<1>4. ASSUME NEW k \in i .. i + w - 1 PROVE k \in up
  <2>1. CASE k = i
    BY <2>1
  <2>2. CASE k # i
    <3>1. k - i \in 1 .. n - i /\ k - i < w /\ i + (k - i) = k /\ ~(w <= k - i)
      BY <1>3, <2>2
    <3>2. k - i \notin T
      BY <1>2, <3>1
    <3>3. QED BY <3>1, <3>2
  <2>3. QED BY <2>1, <2>2
<1>5. QED BY <1>3, <1>4

(* The peak of a run above zero is a peak of the data.                     *)
LEMMA PeakOfRun ==
    ASSUME NEW data \in Seq(Int), NEW i \in Nat, NEW w \in Nat \ {0}, i + w <= Len(data),
           \A k \in i .. i + w - 1 : data[k + 1] > 0, NEW slice
    PROVE  PeakOf(data, i, w, slice) \in PeaksIn(data, slice)
<1> DEFINE run == i .. i + w - 1
           IsTop(j) == /\ \A k \in run : data[k + 1] <= data[j + 1]
                       /\ \A k \in run : data[k + 1] = data[j + 1] => j <= k
           top == CHOOSE j \in run : IsTop(j)
<1>1. \E j \in run : IsTop(j)
  BY RunHasTop
<1>2. top \in run
  <2> HIDE DEF IsTop, run
  <2>1. QED BY <1>1
<1>3. PeakOf(data, i, w, slice) =
         [index |-> top, height |-> data[top + 1], width |-> w, area |-> Sum(data, i, w),
          time |-> slice]
  BY DEF PeakOf
<1> HIDE DEF top
<1>4. top \in Tops(data) /\ i \in 0 .. Len(data) /\ w \in 0 .. Len(data)
  BY <1>2 DEF Tops
<1>5. QED BY <1>3, <1>4 DEF PeaksIn

(* What is found in a slice are peaks of it.                               *)
LEMMA PeaksFound ==
    ASSUME NEW data \in Seq(Int), NEW noise, NEW slice
    PROVE  find_peaks(data, noise, slice) \in Seq(PeaksIn(data, slice))
<1> DEFINE n == Len(data)
           m == n + MinDistance
           T == Seq(PeaksIn(data, slice))
           above(i) == Above(data[i + 1], noise[i + 1])
           up == {i \in 0 .. n : above(i)}
           IsWidth(i, w) == /\ \A k \in i .. i + w - 1 : above(k)
                            /\ i + w = n \/ ~above(i + w)
           width(i) == CHOOSE w \in 1 .. n - i : IsWidth(i, w)
           stop == {i \in 0 .. m : i >= n - MinWidth}
           found(i) == IF width(i) >= MinWidth THEN <<PeakOf(data, i, width(i), slice)>> ELSE <<>>
           next == [i \in 0 .. m |-> IF ~above(i) THEN i + 1 ELSE i + width(i) + MinDistance]
           add == [x \in (0 .. m) \X T |->
                     IF x[1] \in stop \/ ~above(x[1]) THEN x[2] ELSE found(x[1]) \o x[2]]
           Is(f) == f = [i \in 0 .. m |->
                           CASE i >= n - MinWidth -> <<>>
                             [] i < n - MinWidth /\ ~above(i) -> f[i + 1]
                             [] OTHER -> found(i) \o f[i + width(i) + MinDistance]]
           from == CHOOSE f : Is(f)
<1>1. n \in Nat /\ m \in Nat /\ MinWidth \in Nat /\ MinDistance \in Nat /\ n <= m
  BY PeakFinderAssumption
<1>2. find_peaks(data, noise, slice) = IF n = 0 THEN <<>> ELSE from[0]
  BY DEF find_peaks
<1>3. <<>> \in T /\ \A s, t \in T : s \o t \in T
  OBVIOUS
<1>4. ASSUME NEW i \in 0 .. m, ~(i >= n - MinWidth), above(i)
      PROVE  width(i) \in 1 .. n - i /\ IsWidth(i, width(i)) /\ i \in 0 .. n - 1
  <2>1. i \in 0 .. n - 1 /\ i \in up /\ (\A w \in 1 .. n - i : i + w \in 0 .. n)
        /\ \A w \in 1 .. n - i : \A k \in i .. i + w - 1 : k \in 0 .. n
    BY <1>1, <1>4
  <2>2. PICK w \in 1 .. n - i : /\ \A k \in i .. i + w - 1 : k \in up
                                /\ i + w = n \/ i + w \notin up
    <3> HIDE DEF up, n
    <3>1. QED BY <1>1, <2>1, RunHasLength
  <2>3. IsWidth(i, w)
    <3>1. (\A k \in up : above(k)) /\ \A k \in 0 .. n : above(k) => k \in up
      OBVIOUS
    <3> HIDE DEF above, n, up
    <3>2. \A k \in i .. i + w - 1 : above(k)
      BY <2>2, <3>1
    <3>3. i + w = n \/ ~above(i + w)
      BY <2>1, <2>2, <3>1
    <3>4. QED BY <3>2, <3>3
  <2> HIDE DEF IsWidth
  <2>4. QED BY <2>1, <2>3
<1>5. ASSUME NEW i \in 0 .. m, ~(i >= n - MinWidth), above(i)
      PROVE  found(i) \in T /\ i + width(i) + MinDistance \in i + 1 .. m
  <2>1. width(i) \in 1 .. n - i /\ IsWidth(i, width(i)) /\ i \in 0 .. n - 1
    BY <1>4, <1>5
  <2> HIDE DEF width
  <2>2. width(i) \in Nat \ {0} /\ i + width(i) <= n /\ i \in Nat
    BY <1>1, <2>1
  <2>3. \A k \in i .. i + width(i) - 1 : data[k + 1] > 0
    BY <2>1 DEF Above
  <2>4. PeakOf(data, i, width(i), slice) \in PeaksIn(data, slice)
    BY <2>2, <2>3, PeakOfRun
  <2>5. found(i) \in T
    BY <2>4
  <2>6. i + width(i) + MinDistance \in i + 1 .. m
    <3>1. \A w \in 1 .. n - i : i + w + MinDistance \in i + 1 .. m
      BY <1>1, <2>2
    <3> HIDE DEF m, n
    <3>2. QED BY <2>1, <3>1
  <2>7. QED BY <2>5, <2>6
<1>6. ASSUME NEW i \in (0 .. m) \ stop PROVE next[i] \in i + 1 .. m
  <2>1. ~(i >= n - MinWidth) /\ i \in 0 .. m /\ i + 1 \in i + 1 .. m
    BY <1>1, <1>6
  <2> HIDE DEF width, above, found
  <2>2. QED BY <1>5, <2>1
<1>7. add \in [(0 .. m) \X T -> T]
  <2> HIDE DEF T, above, found
  <2>1. ASSUME NEW i \in 0 .. m, NEW t \in T, ~(i \in stop \/ ~above(i)) PROVE found(i) \o t \in T
    BY <1>3, <1>5, <2>1
  <2>2. QED BY <2>1
<1>8. PICK f \in [0 .. m -> T] : Leapt(f, m, <<>>, stop, next, add)
  <2> HIDE DEF m, T, stop, next, add
  <2>1. Leaps(T, m, <<>>, stop, next, add)
    BY <1>3, <1>6, <1>7 DEF Leaps
  <2>2. QED BY <1>1, <2>1, LeapsExist
<1>9. \A i \in 0 .. m : f[i] = IF i \in stop THEN <<>> ELSE add[<<i, f[next[i]]>>]
  BY <1>8 DEF Leapt
<1>10. ASSUME NEW i \in 0 .. m
      PROVE  f[i] = CASE i >= n - MinWidth -> <<>>
                      [] i < n - MinWidth /\ ~above(i) -> f[i + 1]
                      [] OTHER -> found(i) \o f[i + width(i) + MinDistance]
  <2> HIDE DEF T, above, found, width
  <2>1. (i >= n - MinWidth \/ i < n - MinWidth) /\ ~(i >= n - MinWidth /\ i < n - MinWidth)
    BY <1>1
  <2>2. CASE i >= n - MinWidth
    BY <1>9, <2>1, <2>2
  <2>3. CASE ~(i >= n - MinWidth)
    <3>1. i \notin stop /\ next[i] \in 0 .. m
      <4>1. i \in (0 .. m) \ stop
        BY <2>3
      <4>2. next[i] \in i + 1 .. m
        BY <1>6, <4>1
      <4>3. QED BY <4>1, <4>2
    <3>2. f[i] = add[<<i, f[next[i]]>>] /\ f[next[i]] \in T
      BY <1>9, <3>1
    <3>3. f[i] = IF ~above(i) THEN f[next[i]] ELSE found(i) \o f[next[i]]
      BY <3>1, <3>2
    <3>4. next[i] = IF ~above(i) THEN i + 1 ELSE i + width(i) + MinDistance
      OBVIOUS
    <3> HIDE DEF add, next, stop
    <3>5. QED BY <2>1, <2>3, <3>3, <3>4
  <2>4. QED BY <2>2, <2>3
<1>11. Is(f)
  <2> HIDE DEF T, above, found, width
  <2>1. f = [i \in 0 .. m |-> f[i]]
    BY <1>8
  <2>2. QED BY <1>10, <2>1
<1>12. ASSUME NEW i \in 0 .. m
       PROVE  from[i] = IF i >= n - MinWidth THEN <<>>
                        ELSE IF ~above(i) THEN from[i + 1]
                        ELSE found(i) \o from[i + width(i) + MinDistance]
  <2>1. Is(from)
    <3> HIDE DEF Is
    <3>1. QED BY <1>11
  <2> HIDE DEF from
  <2>2. from[i] = CASE i >= n - MinWidth -> <<>>
                    [] i < n - MinWidth /\ ~above(i) -> from[i + 1]
                    [] OTHER -> found(i) \o from[i + width(i) + MinDistance]
    <3> HIDE DEF n, m, above, found, width
    <3>1. QED BY <2>1
  <2>3. (i >= n - MinWidth \/ i < n - MinWidth) /\ ~(i >= n - MinWidth /\ i < n - MinWidth)
    BY <1>1
  <2> HIDE DEF n, m, above, found, width
  <2>4. QED BY <2>2, <2>3
<1> HIDE DEF from
<1> DEFINE U == {k \in 0 .. m : \A i \in m - k .. m : from[i] \in T}
<1>13. 0 \in U
  <2>1. m \in 0 .. m /\ m >= n - MinWidth /\ (\A i \in m - 0 .. m : i = m) /\ 0 \in 0 .. m
    BY <1>1
  <2> HIDE DEF m, n, T, above, found, width
  <2>2. from[m] = <<>>
    BY <1>12, <2>1
  <2>3. QED BY <1>3, <2>1, <2>2
<1>14. ASSUME NEW k \in 0 .. m - 1, k \in U PROVE k + 1 \in U
  <2> DEFINE j == m - (k + 1)
  <2>1. j \in 0 .. m /\ k + 1 \in 0 .. m /\ j + 1 \in m - k .. m /\ j + 1 .. m \subseteq m - k .. m
        /\ \A i \in j .. m : i = j \/ i \in m - k .. m
    <3> HIDE DEF m
    <3>1. QED BY <1>1
  <2>2. \A i \in j + 1 .. m : from[i] \in T
    BY <1>14, <2>1
  <2>3. j + 1 \in j + 1 .. m
    BY <1>14, <2>1
  <2>4. ~(j >= n - MinWidth) /\ above(j) => found(j) \in T /\ j + width(j) + MinDistance \in j + 1 .. m
    <3> HIDE DEF j, m, n, T, above, found, width
    <3>1. QED BY <1>5, <2>1
  <2> HIDE DEF j, m, n, T, above, found, width
  <2>5. from[j] = IF j >= n - MinWidth THEN <<>>
                  ELSE IF ~above(j) THEN from[j + 1]
                  ELSE found(j) \o from[j + width(j) + MinDistance]
    BY <1>12, <2>1
  <2>6. from[j] \in T
    BY <1>3, <2>2, <2>3, <2>4, <2>5
  <2>7. \A i \in j .. m : from[i] \in T
    BY <1>14, <2>1, <2>6
  <2>8. QED BY <2>1, <2>7 DEF j
<1>15. 0 .. m \subseteq U
  <2> HIDE DEF U, m
  <2>1. QED BY <1>1, <1>13, <1>14, IntervalByInduction
<1>16. m \in 0 .. m /\ m - m = 0 /\ 0 \in m - m .. m
  BY <1>1
<1>17. from[0] \in T
  <2> HIDE DEF m
  <2>1. QED BY <1>15, <1>16
<1>18. QED BY <1>2, <1>3, <1>17

-----------------------------------------------------------------------------
(* Peaks are only taken from the slices, whatever they are joined by.      *)
Sorting(A) == [joined : Seq(A), left : Seq(A), skip : BOOLEAN]

(* What becomes of a peak that is joined, or left.                         *)
LEMMA PeakAppended ==
    ASSUME NEW A, NEW acc \in Sorting(A), NEW p \in A
    PROVE  /\ [acc EXCEPT !.skip = FALSE, !.left = Append(@, p)] \in Sorting(A)
           /\ [acc EXCEPT !.skip = TRUE, !.joined = Append(@, p)] \in Sorting(A)
           /\ [acc EXCEPT !.left = Append(@, p)] \in Sorting(A)
<1> DEFINE a == acc.joined
           b == acc.left
           c == acc.skip
           j == Append(acc.joined, p)
           l == Append(acc.left, p)
<1>1. /\ acc = [joined |-> a, left |-> b, skip |-> c]
      /\ a \in Seq(A) /\ b \in Seq(A) /\ c \in BOOLEAN
  BY DEF Sorting
<1>2. l \in Seq(A) /\ j \in Seq(A)
  BY <1>1
<1>3. /\ [acc EXCEPT !.skip = FALSE, !.left = Append(@, p)] = [acc EXCEPT !.skip = FALSE, !.left = l]
      /\ [acc EXCEPT !.skip = TRUE, !.joined = Append(@, p)] = [acc EXCEPT !.skip = TRUE, !.joined = j]
      /\ [acc EXCEPT !.left = Append(@, p)] = [acc EXCEPT !.left = l]
  OBVIOUS
<1> HIDE DEF a, b, c, j, l
<1>4. /\ [acc EXCEPT !.skip = FALSE, !.left = l] = [joined |-> a, left |-> l, skip |-> FALSE]
      /\ [acc EXCEPT !.skip = TRUE, !.joined = j] = [joined |-> j, left |-> b, skip |-> TRUE]
      /\ [acc EXCEPT !.left = l] = [joined |-> a, left |-> l, skip |-> c]
  <2> DEFINE no == FALSE
             yes == TRUE
             kf == [acc EXCEPT !.skip = no]
             kt == [acc EXCEPT !.skip = yes]
  <2>1. acc = [joined |-> a, left |-> b, skip |-> c]
    BY <1>1
  <2>2. /\ [acc EXCEPT !.skip = FALSE, !.left = l] = [kf EXCEPT !.left = l]
        /\ [acc EXCEPT !.skip = TRUE, !.joined = j] = [kt EXCEPT !.joined = j]
    OBVIOUS
  <2> HIDE DEF no, yes
  <2>3. /\ [acc EXCEPT !.left = l] = [joined |-> a, left |-> l, skip |-> c]
        /\ kf = [joined |-> a, left |-> b, skip |-> no]
        /\ kt = [joined |-> a, left |-> b, skip |-> yes]
    BY ONLY <2>1
  <2> HIDE DEF kf, kt
  <2>4. /\ [kf EXCEPT !.left = l] = [joined |-> a, left |-> l, skip |-> no]
        /\ [kt EXCEPT !.joined = j] = [joined |-> j, left |-> b, skip |-> yes]
    BY ONLY <2>3
  <2>5. QED BY <2>2, <2>3, <2>4, Zenon DEF no, yes
<1>5. /\ [joined |-> a, left |-> l, skip |-> FALSE] \in Sorting(A)
      /\ [joined |-> j, left |-> b, skip |-> TRUE] \in Sorting(A)
      /\ [joined |-> a, left |-> l, skip |-> c] \in Sorting(A)
  BY <1>1, <1>2 DEF Sorting
<1>6. /\ [acc EXCEPT !.skip = FALSE, !.left = l] \in Sorting(A)
      /\ [acc EXCEPT !.skip = TRUE, !.joined = j] \in Sorting(A)
      /\ [acc EXCEPT !.left = l] \in Sorting(A)
  BY <1>4, <1>5
<1>7. QED BY <1>3, <1>6, Zenon

(* The peaks that join, and those that are left, are peaks of the slice.   *)
LEMMA JoiningKeeps ==
    ASSUME NEW A, NEW peaks \in Seq(A), NEW index
    PROVE  Joining(index, peaks).joined \in Seq(A) /\ Joining(index, peaks).left \in Seq(A)
<1> DEFINE T == Sorting(A)
           n == Len(peaks)
           op(acc, p) == IF acc.skip THEN [acc EXCEPT !.skip = FALSE, !.left = Append(@, p)]
                         ELSE IF Abs(index - p.index) <= MaxShift
                              THEN [acc EXCEPT !.skip = TRUE, !.joined = Append(@, p)]
                              ELSE [acc EXCEPT !.left = Append(@, p)]
           base == [joined |-> <<>>, left |-> <<>>, skip |-> FALSE]
           step == [x \in (1 .. n) \X T |-> op(x[2], peaks[x[1]])]
           Is(it) == it = [S \in SUBSET (1 .. n) |->
                             IF S = {} THEN base ELSE op(it[S \ {Max(S)}], peaks[Max(S)])]
           iter == CHOOSE it : Is(it)
<1>1. n \in Nat /\ DOMAIN peaks = 1 .. n /\ \A k \in 1 .. n : peaks[k] \in A
  OBVIOUS
<1>2. Joining(index, peaks) = iter[1 .. n]
  BY <1>1 DEF Joining, FoldLeft, MapThenFoldSet
<1> HIDE DEF n
<1>3. base \in T
  BY DEF Sorting
<1>4. ASSUME NEW acc \in T, NEW p \in A PROVE op(acc, p) \in T
  BY PeakAppended, Zenon
<1> HIDE DEF op, base, T
<1>5. step \in [(1 .. n) \X T -> T]
  BY <1>1, <1>4
<1>6. PICK g \in [SUBSET (1 .. n) -> T] : IsIteration(g, n, base, step)
  <2> HIDE DEF step
  <2>1. QED BY <1>1, <1>3, <1>5, IterationExists
<1>7. ASSUME NEW S \in SUBSET (1 .. n)
      PROVE  g[S] = IF S = {} THEN base ELSE op(g[S \ {Max(S)}], peaks[Max(S)])
  <2>1. g[S] = IF S = {} THEN base ELSE step[<<Max(S), g[S \ {Max(S)}]>>]
    BY <1>6 DEF IsIteration
  <2>2. S # {} => Max(S) \in 1 .. n /\ g[S \ {Max(S)}] \in T
    BY <1>1, IterationStep
  <2>3. QED BY <2>1, <2>2
<1>8. Is(iter)
  <2>1. Is(g)
    BY <1>7
  <2> HIDE DEF Is
  <2>2. QED BY <2>1
<1>9. Iterated(iter, T, n, base, step)
  <2> HIDE DEF iter
  <2>1. ASSUME NEW S \in SUBSET (1 .. n), S # {} PROVE Max(S) \in 1 .. n
    BY <1>1, <2>1, GreatestOf
  <2>2. QED BY <1>3, <1>5, <1>8, <2>1 DEF Iterated
<1> HIDE DEF iter, step
<1>10. iter[1 .. n] \in T
  BY <1>1, <1>9, IterationEnds
<1>11. QED BY <1>2, <1>10 DEF T, Sorting

(* The highest of a bin is of the bin.                                     *)
LEMMA HighestIs ==
    ASSUME NEW A, NEW bin \in Seq(A), bin # <<>>
    PROVE  Highest(bin) \in A
<1> DEFINE n == Len(bin)
           op(a, p) == IF a.height < p.height THEN p ELSE a
           base == bin[1]
           step == [x \in (1 .. n) \X A |-> op(x[2], bin[x[1]])]
           Is(it) == it = [S \in SUBSET (1 .. n) |->
                             IF S = {} THEN base ELSE op(it[S \ {Max(S)}], bin[Max(S)])]
           iter == CHOOSE it : Is(it)
<1>1. n \in Nat /\ DOMAIN bin = 1 .. n /\ (\A k \in 1 .. n : bin[k] \in A) /\ 1 \in 1 .. n
  OBVIOUS
<1>2. Highest(bin) = iter[1 .. n]
  BY <1>1 DEF Highest, FoldLeft, MapThenFoldSet
<1> HIDE DEF n
<1>3. base \in A /\ step \in [(1 .. n) \X A -> A]
  BY <1>1
<1> HIDE DEF op, base
<1>4. PICK g \in [SUBSET (1 .. n) -> A] : IsIteration(g, n, base, step)
  <2> HIDE DEF step
  <2>1. QED BY <1>1, <1>3, IterationExists
<1>5. ASSUME NEW S \in SUBSET (1 .. n)
      PROVE  g[S] = IF S = {} THEN base ELSE op(g[S \ {Max(S)}], bin[Max(S)])
  <2>1. g[S] = IF S = {} THEN base ELSE step[<<Max(S), g[S \ {Max(S)}]>>]
    BY <1>4 DEF IsIteration
  <2>2. S # {} => Max(S) \in 1 .. n /\ g[S \ {Max(S)}] \in A
    BY <1>1, IterationStep
  <2>3. QED BY <2>1, <2>2
<1>6. Is(iter)
  <2>1. Is(g)
    BY <1>5
  <2> HIDE DEF Is
  <2>2. QED BY <2>1
<1>7. Iterated(iter, A, n, base, step)
  <2> HIDE DEF iter
  <2>1. ASSUME NEW S \in SUBSET (1 .. n), S # {} PROVE Max(S) \in 1 .. n
    BY <1>1, <2>1, GreatestOf
  <2>2. QED BY <1>3, <1>6, <2>1 DEF Iterated
<1> HIDE DEF iter, step
<1>8. QED BY <1>1, <1>2, <1>7, IterationEnds

(* One bin for each peak of the first slice; it holds that peak.           *)
LEMMA BinsAreOfSlices ==
    ASSUME NEW A, NEW slices \in Seq(Seq(A))
    PROVE  combine_common_peaks(slices) \in Seq(Seq(A) \ {<<>>})
<1> DEFINE B == Seq(A) \ {<<>>}
           T == [bins : Seq(B), later : Seq(Seq(A))]
           first == Head(slices)
           n == Len(first)
           found(acc, p) == [t \in DOMAIN acc.later |-> Joining(p.index, acc.later[t])]
           joined(acc, p) == FlattenSeq([t \in DOMAIN found(acc, p) |-> found(acc, p)[t].joined])
           left(acc, p) == [t \in DOMAIN found(acc, p) |-> found(acc, p)[t].left]
           op(acc, p) == [bins |-> Append(acc.bins, <<p>> \o joined(acc, p)), later |-> left(acc, p)]
           base == [bins |-> <<>>, later |-> Tail(slices)]
           step == [x \in (1 .. n) \X T |-> op(x[2], first[x[1]])]
           Is(it) == it = [S \in SUBSET (1 .. n) |->
                             IF S = {} THEN base ELSE op(it[S \ {Max(S)}], first[Max(S)])]
           iter == CHOOSE it : Is(it)
<1>1. CASE slices = <<>>
  <2>1. combine_common_peaks(slices) = <<>>
    BY <1>1, Zenon DEF combine_common_peaks
  <2>2. QED BY <2>1
<1>2. CASE slices # <<>>
  <2>1. first \in Seq(A) /\ Tail(slices) \in Seq(Seq(A))
    BY <1>2
  <2>2. n \in Nat /\ DOMAIN first = 1 .. n /\ (\A k \in 1 .. n : first[k] \in A)
    BY <2>1
  <2>3. combine_common_peaks(slices) = iter[1 .. n].bins
    BY <1>2, <2>2 DEF combine_common_peaks, FoldLeft, MapThenFoldSet
  <2> HIDE DEF first, n
  <2>4. base \in T
    BY <2>1
  <2>5. ASSUME NEW acc \in T, NEW p \in A PROVE op(acc, p) \in T
    <3> DEFINE later == acc.later
    <3>1. acc.bins \in Seq(B) /\ later \in Seq(Seq(A))
      OBVIOUS
    <3> HIDE DEF later
    <3>2. Len(later) \in Nat /\ DOMAIN later = 1 .. Len(later) /\ \A t \in 1 .. Len(later) : later[t] \in Seq(A)
      BY <3>1
    <3> DEFINE joins == [t \in 1 .. Len(later) |-> Joining(p.index, later[t]).joined]
               lefts == [t \in 1 .. Len(later) |-> Joining(p.index, later[t]).left]
    <3>3. \A t \in 1 .. Len(later) : /\ Joining(p.index, later[t]).joined \in Seq(A)
                                     /\ Joining(p.index, later[t]).left \in Seq(A)
      BY <3>2, JoiningKeeps
    <3>4. joins \in Seq(Seq(A)) /\ lefts \in Seq(Seq(A))
      BY <3>2, <3>3
    <3>5. left(acc, p) = lefts /\ joined(acc, p) = FlattenSeq(joins)
      BY <3>2 DEF later
    <3> HIDE DEF joins, lefts, left, joined
    <3>6. joined(acc, p) \in Seq(A)
      BY <3>4, <3>5, FlattenIs
    <3>7. <<p>> \o joined(acc, p) \in B
      <4>1. <<p>> \in Seq(A) /\ Len(<<p>>) = 1
        OBVIOUS
      <4>2. /\ <<p>> \o joined(acc, p) \in Seq(A)
            /\ Len(<<p>> \o joined(acc, p)) = 1 + Len(joined(acc, p)) /\ Len(joined(acc, p)) \in Nat
        BY <3>6, <4>1
      <4>3. \A x : x = <<>> => Len(x) = 0
        OBVIOUS
      <4>4. QED BY <4>2, <4>3
    <3> HIDE DEF B
    <3>8. Append(acc.bins, <<p>> \o joined(acc, p)) \in Seq(B)
      BY <3>1, <3>7
    <3>9. QED BY <3>4, <3>5, <3>8
  <2> HIDE DEF op, base, T
  <2>6. step \in [(1 .. n) \X T -> T]
    BY <2>2, <2>5
  <2>7. PICK g \in [SUBSET (1 .. n) -> T] : IsIteration(g, n, base, step)
    <3> HIDE DEF step
    <3>1. QED BY <2>2, <2>4, <2>6, IterationExists
  <2>8. ASSUME NEW S \in SUBSET (1 .. n)
        PROVE  g[S] = IF S = {} THEN base ELSE op(g[S \ {Max(S)}], first[Max(S)])
    <3>1. g[S] = IF S = {} THEN base ELSE step[<<Max(S), g[S \ {Max(S)}]>>]
      BY <2>7 DEF IsIteration
    <3>2. S # {} => Max(S) \in 1 .. n /\ g[S \ {Max(S)}] \in T
      BY <2>2, IterationStep
    <3>3. QED BY <3>1, <3>2
  <2>9. Is(iter)
    <3>1. Is(g)
      BY <2>8
    <3> HIDE DEF Is
    <3>2. QED BY <3>1
  <2>10. Iterated(iter, T, n, base, step)
    <3> HIDE DEF iter
    <3>1. ASSUME NEW S \in SUBSET (1 .. n), S # {} PROVE Max(S) \in 1 .. n
      BY <2>2, <3>1, GreatestOf
    <3>2. QED BY <2>4, <2>6, <2>9, <3>1 DEF Iterated
  <2> HIDE DEF iter, step
  <2>11. iter[1 .. n] \in T
    BY <2>2, <2>10, IterationEnds
  <2> HIDE DEF B
  <2>12. iter[1 .. n].bins \in Seq(B)
    BY <2>11 DEF T
  <2>13. QED BY <2>3, <2>12, Zenon DEF B
<1>3. QED BY <1>1, <1>2

(* The peaks common to all slices are peaks of the slices.                 *)
AllPeaks(slices) == UNION {PeaksIn(slices[t], t - 1) : t \in DOMAIN slices}

LEMMA CommonPeaksFound ==
    ASSUME NEW slices \in Seq(Seq(Int)), NEW noise
    PROVE  find_common_peaks(slices, noise) \in Seq(AllPeaks(slices))
<1> DEFINE A == AllPeaks(slices)
           n == Len(slices)
           peaks == [t \in DOMAIN slices |-> find_peaks(slices[t], noise, t - 1)]
           bins == combine_common_peaks(peaks)
           one(k) == IF Len(bins[k]) = Len(slices) THEN <<Highest(bins[k])>> ELSE <<>>
           ones == [k \in DOMAIN bins |-> one(k)]
<1>1. n \in Nat /\ DOMAIN slices = 1 .. n /\ \A t \in 1 .. n : slices[t] \in Seq(Int)
  OBVIOUS
<1>2. ASSUME NEW t \in 1 .. n PROVE peaks[t] \in Seq(A)
  <2>1. find_peaks(slices[t], noise, t - 1) \in Seq(PeaksIn(slices[t], t - 1))
    BY <1>1, PeaksFound
  <2>2. PeaksIn(slices[t], t - 1) \subseteq A
    BY <1>1 DEF AllPeaks
  <2> DEFINE s == find_peaks(slices[t], noise, t - 1)
             B == PeaksIn(slices[t], t - 1)
  <2>3. peaks[t] = s
    BY <1>1
  <2> HIDE DEF s, B, A
  <2>4. s \in Seq(A)
    BY <2>1, <2>2 DEF s, B
  <2>5. QED BY <2>3, <2>4
<1>3. peaks \in Seq(Seq(A))
  <2>1. peaks = [t \in 1 .. n |-> peaks[t]]
    BY <1>1
  <2> HIDE DEF peaks, A
  <2>2. QED BY <1>1, <1>2, <2>1
<1>4. bins \in Seq(Seq(A) \ {<<>>})
  <2> HIDE DEF peaks, A
  <2>1. QED BY <1>3, BinsAreOfSlices
<1>5. find_common_peaks(slices, noise) = FlattenSeq(ones)
  BY DEF find_common_peaks
<1> HIDE DEF bins, A
<1>6. Len(bins) \in Nat /\ DOMAIN bins = 1 .. Len(bins)
      /\ \A k \in 1 .. Len(bins) : bins[k] \in Seq(A) \ {<<>>}
  BY <1>4
<1>7. ASSUME NEW k \in 1 .. Len(bins) PROVE one(k) \in Seq(A)
  <2>1. bins[k] \in Seq(A) /\ bins[k] # <<>>
    BY <1>6
  <2>2. Highest(bins[k]) \in A
    BY <2>1, HighestIs
  <2>3. <<Highest(bins[k])>> \in Seq(A) /\ <<>> \in Seq(A)
    BY <2>2
  <2>4. QED BY <2>3
<1>8. ones \in Seq(Seq(A))
  <2> HIDE DEF one
  <2>1. QED BY <1>6, <1>7
<1> HIDE DEF ones
<1>9. QED BY <1>5, <1>8, FlattenIs DEF A

-----------------------------------------------------------------------------
(* The values of the chips.  A row has one for each channel; the offsets   *)
(* of a chip are known for each channel.                                   *)
ChannelRow == [1 .. ChannelsCount -> Int]
OffsetsKnown(pedestal) ==
    DOMAIN pedestal = 1 .. ChannelsCount /\ \A c1 \in 1 .. ChannelsCount : pedestal[c1].offset \in Int

LEMMA CommonModeIs ==
    ASSUME NEW row \in ChannelRow, NEW pedestal, OffsetsKnown(pedestal)
    PROVE  CommonMode(row, pedestal) \in Int
<1> DEFINE n == ChannelsCount
           value == [c1 \in DOMAIN row |-> row[c1] - pedestal[c1].offset]
           same(v) == {c1 \in DOMAIN value : value[c1] = v}
           place(c1) == Cardinality({d1 \in DOMAIN value :
                            value[d1] < value[c1] \/ (value[d1] = value[c1] /\ d1 <= c1)})
           test == [c1 \in DOMAIN value |->
                      IF place(c1) <= ComModeCut
                      THEN Baseline - pedestal[Max(same(value[c1]))].offset ELSE value[c1]]
           sum == FoldLeft(LAMBDA a, x : a + x, 0, test)
<1>1. n \in Nat \ {0} /\ Baseline \in Int
  BY GemReconAssumption
<1>2. DOMAIN value = 1 .. n /\ \A c1 \in 1 .. n : value[c1] \in Int
  BY DEF ChannelRow, OffsetsKnown
<1>3. CommonMode(row, pedestal) = sum \div n
  BY DEF CommonMode
<1> HIDE DEF value, place
<1>4. ASSUME NEW c1 \in 1 .. n PROVE test[c1] \in Int
  <2>1. same(value[c1]) \in SUBSET (1 .. n) /\ c1 \in same(value[c1])
    BY <1>2
  <2>2. Max(same(value[c1])) \in 1 .. n
    <3> HIDE DEF same
    <3>1. n \in Nat /\ same(value[c1]) # {}
      BY <1>1, <2>1
    <3>2. QED BY <2>1, <3>1, GreatestOf
  <2>3. pedestal[Max(same(value[c1]))].offset \in Int
    BY <2>2 DEF OffsetsKnown
  <2> HIDE DEF same
  <2>4. QED BY <1>1, <1>2, <2>3
<1>5. test \in Seq(Int)
  <2>1. test = [c1 \in 1 .. n |-> test[c1]]
    BY <1>2
  <2> HIDE DEF test
  <2>2. QED BY <1>1, <1>4, <2>1
<1>6. sum \in Int
  <2> HIDE DEF test
  <2>1. QED BY <1>5, SumIs
<1> HIDE DEF sum
<1>7. QED BY <1>1, <1>3, <1>6

(* The samples of a channel, and of a chip: as many rows as its longest    *)
(* channel has samples.                                                    *)
EventItem == [apv : Nat, ch : Chans, samples : Seq(Nat)]

LEMMA SamplesAre ==
    ASSUME NEW items \in Seq(EventItem), NEW apv, NEW c
    PROVE  SamplesOf(items, apv, c) \in Seq(Nat)
<1> DEFINE same == {k \in DOMAIN items : items[k].apv = apv /\ Correction[items[k].ch] = c}
           n == Len(items)
<1>1. n \in Nat /\ DOMAIN items = 1 .. n /\ \A k \in 1 .. n : items[k] \in EventItem
  OBVIOUS
<1>2. same \in SUBSET (1 .. n)
  BY <1>1
<1>3. SamplesOf(items, apv, c) = IF same = {} THEN <<>> ELSE items[Max(same)].samples
  BY DEF SamplesOf
<1> HIDE DEF same, n
<1>4. CASE same = {}
  BY <1>3, <1>4
<1>5. CASE same # {}
  <2>1. Max(same) \in 1 .. n
    BY <1>1, <1>2, <1>5, GreatestOf
  <2>2. QED BY <1>1, <1>3, <1>5, <2>1 DEF EventItem
<1>6. QED BY <1>4, <1>5

(* No channel of a chip has more samples than some number.                 *)
LEMMA SamplesBounded ==
    ASSUME NEW items \in Seq(EventItem), NEW apv
    PROVE  \E b \in Nat : \A c \in Chans : Len(SamplesOf(items, apv, c)) <= b
<1> DEFINE s(c) == SamplesOf(items, apv, c)
           n == ChannelsCount
           Bounded(k) == \E b \in Nat : \A c \in 0 .. k - 1 : Len(s(c)) <= b
           U == {k \in 0 .. n : Bounded(k)}
<1>1. n \in Nat \ {0} /\ Chans = 0 .. n - 1
  BY GemReconAssumption DEF Chans
<1>2. \A c : s(c) \in Seq(Nat)
  BY SamplesAre
<1>3. \A c : Len(s(c)) \in Nat
  BY <1>2
<1> HIDE DEF s
<1>4. 0 \in U
  <2>1. 0 \in 0 .. n /\ 0 \in Nat /\ 0 .. 0 - 1 = {}
    BY <1>1
  <2>2. QED BY <2>1
<1>5. ASSUME NEW k \in 0 .. n - 1, k \in U PROVE k + 1 \in U
  <2>1. PICK b \in Nat : \A c \in 0 .. k - 1 : Len(s(c)) <= b
    BY <1>5
  <2>2. b + Len(s(k)) \in Nat /\ b <= b + Len(s(k)) /\ Len(s(k)) <= b + Len(s(k))
    BY <1>3
  <2>3. k + 1 \in 0 .. n /\ \A c \in 0 .. (k + 1) - 1 : c = k \/ c \in 0 .. k - 1
    BY <1>1
  <2>4. \A c \in 0 .. (k + 1) - 1 : Len(s(c)) <= b + Len(s(k))
    BY <1>3, <2>1, <2>2, <2>3
  <2>5. QED BY <2>2, <2>3, <2>4
<1> HIDE DEF U
<1>6. n \in U
  <2>1. n \in Nat /\ n \in 0 .. n
    BY <1>1
  <2> HIDE DEF n
  <2>2. 0 .. n \subseteq U
    BY <1>4, <1>5, <2>1, IntervalByInduction
  <2>3. QED BY <2>1, <2>2
<1>7. QED BY <1>1, <1>6 DEF U, s

(* The time bins of a chip are rows of numbers.                            *)
LEMMA TimeBinsAre ==
    ASSUME NEW items \in Seq(EventItem), NEW apv
    PROVE  TimeBins(items, apv) \in Seq(ChannelRow)
<1> DEFINE s(c) == SamplesOf(items, apv, c)
           n == ChannelsCount
           lengths == {Len(s(c)) : c \in Chans}
           longest == Max(lengths)
<1>1. n \in Nat \ {0} /\ Chans = 0 .. n - 1 /\ 0 \in Chans
  BY GemReconAssumption DEF Chans
<1>2. \A c : s(c) \in Seq(Nat)
  BY SamplesAre
<1>3. \A c : Len(s(c)) \in Nat
  BY <1>2
<1>4. PICK b \in Nat : \A c \in Chans : Len(s(c)) <= b
  BY SamplesBounded
<1> HIDE DEF s
<1>5. lengths \in SUBSET (0 .. b) /\ lengths # {}
  <2>1. \A c \in Chans : Len(s(c)) \in 0 .. b
    BY <1>3, <1>4
  <2>2. lengths \subseteq 0 .. b
    BY <2>1
  <2>3. Len(s(0)) \in lengths
    BY <1>1
  <2>4. QED BY <2>2, <2>3
<1>6. longest \in Nat
  <2>1. longest \in 0 .. b
    <3> HIDE DEF lengths
    <3>1. Max(lengths) \in lengths
      BY <1>5, GreatestBelow
    <3>2. QED BY <1>5, <3>1
  <2> HIDE DEF longest
  <2>2. QED BY <2>1
<1> DEFINE row(t) == [c1 \in 1 .. ChannelsCount |->
                        IF t <= Len(s(c1 - 1)) THEN s(c1 - 1)[t] ELSE 0]
<1>7. TimeBins(items, apv) = [t \in 1 .. longest |-> row(t)]
  BY DEF TimeBins, s
<1> HIDE DEF longest
<1>8. ASSUME NEW t \in 1 .. longest PROVE row(t) \in ChannelRow
  <2>1. ASSUME NEW c, t <= Len(s(c)) PROVE s(c)[t] \in Int
    <3>1. s(c) \in Seq(Nat) /\ t \in 1 .. Len(s(c))
      BY <1>2, <1>3, <1>6, <2>1
    <3>2. QED BY <3>1
  <2>2. QED BY <2>1 DEF ChannelRow
<1> HIDE DEF row
<1>9. QED BY <1>6, <1>7, <1>8

(* A decoded place is the offset less the sample, plus the common mode.    *)
LEMMA ApvDecoded ==
    ASSUME NEW bins \in Seq(ChannelRow), NEW pedestal, OffsetsKnown(pedestal)
    PROVE  /\ DecodeApv(bins, pedestal) \in [1 .. Len(bins) -> ChannelRow]
           /\ \A t \in 1 .. Len(bins) : \A c1 \in 1 .. ChannelsCount :
                 DecodeApv(bins, pedestal)[t][c1]
                     = pedestal[c1].offset - bins[t][c1] + CommonMode(bins[t], pedestal)
<1> DEFINE at(t, c1) == -(bins[t][c1] - pedestal[c1].offset - CommonMode(bins[t], pedestal))
<1>1. Len(bins) \in Nat /\ DOMAIN bins = 1 .. Len(bins)
      /\ \A t \in 1 .. Len(bins) : bins[t] \in ChannelRow
  OBVIOUS
<1>2. DecodeApv(bins, pedestal) = [t \in 1 .. Len(bins) |-> [c1 \in 1 .. ChannelsCount |-> at(t, c1)]]
  BY <1>1 DEF DecodeApv
<1>3. ASSUME NEW t \in 1 .. Len(bins), NEW c1 \in 1 .. ChannelsCount
      PROVE  /\ at(t, c1) \in Int
             /\ at(t, c1) = pedestal[c1].offset - bins[t][c1] + CommonMode(bins[t], pedestal)
  <2>1. bins[t] \in ChannelRow /\ bins[t][c1] \in Int /\ pedestal[c1].offset \in Int
    BY <1>1 DEF ChannelRow, OffsetsKnown
  <2>2. CommonMode(bins[t], pedestal) \in Int
    BY <2>1, CommonModeIs
  <2>3. QED BY <2>1, <2>2
<1> HIDE DEF at
<1>4. QED BY <1>2, <1>3 DEF ChannelRow

-----------------------------------------------------------------------------
(* The planes.                                                             *)
LEMMA MergeFolds ==
    ASSUME NEW b, NEW x
    PROVE  /\ FoldLeft(mergeAdcDecodedData, b, <<>>) = b
           /\ FoldLeft(mergeAdcDecodedData, b, <<x>>) = mergeAdcDecodedData(b, x)
<1> DEFINE Is0(it) == it = [S \in SUBSET {} |->
                              IF S = {} THEN b ELSE mergeAdcDecodedData(it[S \ {Max(S)}], <<>>[Max(S)])]
           Is1(it) == it = [S \in SUBSET (1 .. 1) |->
                              IF S = {} THEN b ELSE mergeAdcDecodedData(it[S \ {Max(S)}], <<x>>[Max(S)])]
           iter0 == CHOOSE it : Is0(it)
           iter1 == CHOOSE it : Is1(it)
           none == [S \in SUBSET {} |-> b]
           one == [S \in SUBSET (1 .. 1) |-> IF S = {} THEN b ELSE mergeAdcDecodedData(b, x)]
<1>1. DOMAIN <<>> = {} /\ DOMAIN <<x>> = 1 .. 1 /\ <<x>>[1] = x
  OBVIOUS
<1>2. /\ FoldLeft(mergeAdcDecodedData, b, <<>>) = iter0[{}]
      /\ FoldLeft(mergeAdcDecodedData, b, <<x>>) = iter1[1 .. 1]
  BY <1>1 DEF FoldLeft, MapThenFoldSet
<1>3. 1 .. 1 # {} /\ Max(1 .. 1) = 1 /\ (1 .. 1) \ {1} = {} /\ {} \in SUBSET (1 .. 1)
      /\ \A S \in SUBSET (1 .. 1) : S = {} \/ S = 1 .. 1
  <2>1. 1 \in Nat \ {0} /\ 1 .. 1 - 1 = {}
    OBVIOUS
  <2>2. 1 .. 1 # {} /\ Max(1 .. 1) = 1 /\ (1 .. 1) \ {1} = {}
    BY <2>1, TopOfInterval
  <2>3. QED BY <2>2
<1>4. Is0(none)
  OBVIOUS
<1>5. Is1(one)
  <2>1. one[{}] = b /\ one[1 .. 1] = mergeAdcDecodedData(b, x)
    BY <1>3
  <2>2. one = [S \in SUBSET (1 .. 1) |-> one[S]]
    OBVIOUS
  <2> HIDE DEF one
  <2>3. ASSUME NEW S \in SUBSET (1 .. 1)
        PROVE  one[S] = IF S = {} THEN b ELSE mergeAdcDecodedData(one[S \ {Max(S)}], <<x>>[Max(S)])
    <3>1. CASE S = {}
      BY <2>1, <3>1
    <3>2. CASE S # {}
      <4>1. S = 1 .. 1 /\ Max(S) = 1 /\ S \ {Max(S)} = {}
        BY <1>3, <3>2
      <4>2. QED BY <1>1, <2>1, <3>2, <4>1, Zenon
    <3>3. QED BY <3>1, <3>2
  <2>4. QED BY <2>2, <2>3
<1>6. Is0(iter0) /\ Is1(iter1)
  <2> HIDE DEF Is0, Is1
  <2>1. QED BY <1>4, <1>5
<1>7. iter0[{}] = b
  <2>1. Is0(iter0)
    BY <1>6
  <2> HIDE DEF iter0
  <2>2. QED BY <2>1
<1>8. iter1[1 .. 1] = mergeAdcDecodedData(b, x)
  <2>1. Is1(iter1)
    BY <1>6
  <2> HIDE DEF iter1
  <2>2. iter1[{}] = b
    BY <1>3, <2>1
  <2>3. 1 .. 1 \in SUBSET (1 .. 1)
    OBVIOUS
  <2>4. iter1[1 .. 1] = mergeAdcDecodedData(iter1[(1 .. 1) \ {Max(1 .. 1)}], <<x>>[Max(1 .. 1)])
    BY <1>3, <2>1, <2>3
  <2>5. QED BY <1>1, <1>3, <2>2, <2>4, Zenon
<1>9. QED BY <1>2, <1>7, <1>8

(* What a chip contributes to its plane: its own rows, or zeros.           *)
Decodes(decoded) == \A a \in DOMAIN decoded : decoded[a].ids = <<a>> /\ decoded[a].data \in Seq(ChannelRow)

LEMMA PartIs ==
    ASSUME NEW decoded, Decodes(decoded), NEW a, NEW bins \in Nat
    PROVE  /\ GetApvDataOrZeros(decoded, a, bins).ids = <<a>>
           /\ GetApvDataOrZeros(decoded, a, bins).data \in [1 .. bins -> ChannelRow]
           /\ \A t \in 1 .. bins : \A c1 \in 1 .. ChannelsCount :
                 GetApvDataOrZeros(decoded, a, bins).data[t][c1] > 0 =>
                     /\ a \in DOMAIN decoded
                     /\ GetApvDataOrZeros(decoded, a, bins).data = decoded[a].data
<1>1. CASE a \in DOMAIN decoded /\ Len(decoded[a].data) = bins
  <2>1. GetApvDataOrZeros(decoded, a, bins) = decoded[a]
    BY <1>1 DEF GetApvDataOrZeros
  <2>2. decoded[a].ids = <<a>> /\ decoded[a].data \in Seq(ChannelRow)
    BY <1>1 DEF Decodes
  <2>3. decoded[a].data \in [1 .. bins -> ChannelRow]
    BY <1>1, <2>2
  <2>4. QED BY <1>1, <2>1, <2>2, <2>3
<1>2. CASE ~(a \in DOMAIN decoded /\ Len(decoded[a].data) = bins)
  <2> DEFINE zeros == [t \in 1 .. bins |-> [c1 \in 1 .. ChannelsCount |-> 0]]
  <2>1. GetApvDataOrZeros(decoded, a, bins) = Zeros(a, bins)
    BY <1>2 DEF GetApvDataOrZeros
  <2>2. Zeros(a, bins).ids = <<a>> /\ Zeros(a, bins).data = zeros
    BY DEF Zeros
  <2>3. zeros \in [1 .. bins -> ChannelRow]
        /\ \A t \in 1 .. bins : \A c1 \in 1 .. ChannelsCount : ~(zeros[t][c1] > 0)
    BY DEF ChannelRow
  <2> HIDE DEF zeros
  <2>4. QED BY <2>1, <2>2, <2>3
<1>3. QED BY <1>1, <1>2

(* A plane of one chip holds its rows, one of two chips their rows side by *)
(* side.                                                                   *)
OneChip(plane, decoded, a, bins) ==
    /\ plane.ids = <<a>>
    /\ plane.data = GetApvDataOrZeros(decoded, a, bins).data
TwoChips(plane, decoded, a, b, bins) ==
    /\ plane.ids = <<a, b>>
    /\ plane.data = [t \in 1 .. bins |-> GetApvDataOrZeros(decoded, a, bins).data[t]
                                         \o GetApvDataOrZeros(decoded, b, bins).data[t]]

(* Two sequences one behind the other.                                     *)
LEMMA ConcatIs ==
    ASSUME NEW T, NEW s \in Seq(T), NEW t \in Seq(T)
    PROVE  s \o t \in Seq(T) /\ Len(s \o t) = Len(s) + Len(t)
OBVIOUS

(* Two chips side by side are a pair.                                      *)
LEMMA PairIs ==
    ASSUME NEW a, NEW b
    PROVE  <<a>> \o <<b>> = <<a, b>>
<1> DEFINE T == {a, b}
           s == <<a>>
           t == <<b>>
           z == s \o t
<1>1. s \in Seq(T) /\ t \in Seq(T) /\ Len(s) = 1 /\ Len(t) = 1 /\ s[1] = a /\ t[1] = b
  OBVIOUS
<1> HIDE DEF s, t, T
<1>2. z \in Seq(T) /\ Len(z) = 2
  <2>1. z \in Seq(T) /\ Len(z) = Len(s) + Len(t)
    BY <1>1, ConcatIs
  <2> HIDE DEF z
  <2>2. QED BY <1>1, <2>1
<1>3. z[1] = a /\ z[2] = b
  <2>1. 1 \in DOMAIN s /\ 1 \in DOMAIN t
    BY <1>1
  <2>2. z[1] = s[1] /\ z[Len(s) + 1] = t[1]
    BY <1>1, <2>1, ConcatIndex
  <2> HIDE DEF z
  <2>3. QED BY <1>1, <2>2
<1> HIDE DEF z
<1>4. z = <<z[1], z[2]>>
  BY <1>2
<1>5. QED BY <1>3, <1>4 DEF z, s, t

(* What the chips of a plane are merged into.                              *)
Present(decoded, apvs) == {k \in DOMAIN apvs : apvs[k] \in DOMAIN decoded}
BinsOf(decoded, apvs) == Len(decoded[apvs[Min(Present(decoded, apvs))]].data)

LEMMA PlaneOfParts ==
    ASSUME NEW decoded, Decodes(decoded), NEW apvs, apvs \in [1 .. 1 -> Nat] \cup [1 .. 2 -> Nat],
           Present(decoded, apvs) # {}
    PROVE  LET bins == BinsOf(decoded, apvs)
               p == GetApvDataOrZeros(decoded, apvs[1], bins)
               q == GetApvDataOrZeros(decoded, apvs[2], bins)
               plane == PlaneOf(decoded, apvs)
           IN  /\ bins \in Nat
               /\ apvs \in [1 .. 1 -> Nat] => plane = p
               /\ apvs \in [1 .. 2 -> Nat] =>
                     /\ plane.ids = <<apvs[1], apvs[2]>> /\ plane.noise = p.noise \o q.noise
                     /\ plane.data = [t \in 1 .. bins |-> p.data[t] \o q.data[t]]
<1> DEFINE present == Present(decoded, apvs)
           bins == BinsOf(decoded, apvs)
           p == GetApvDataOrZeros(decoded, apvs[1], bins)
           q == GetApvDataOrZeros(decoded, apvs[2], bins)
           part == [k \in DOMAIN apvs |-> GetApvDataOrZeros(decoded, apvs[k], bins)]
           plane == FoldLeft(mergeAdcDecodedData, part[1], Tail(part))
<1>1. PlaneOf(decoded, apvs) = plane
  BY DEF PlaneOf, Present, BinsOf
<1>2. bins \in Nat
  <2>1. present \in SUBSET Nat /\ present # {}
    BY DEF Present
  <2>2. Min(present) \in present
    <3> HIDE DEF present
    <3>1. QED BY <2>1, LeastOf
  <2>3. QED BY <2>2 DEF Decodes, Present, BinsOf
<1>3. part = [k \in DOMAIN apvs |-> part[k]]
  OBVIOUS
<1> HIDE DEF bins
<1>4. ASSUME apvs \in [1 .. 1 -> Nat] PROVE plane = p
  <2>1. part = <<p>> /\ part[1] = p
    BY <1>4
  <2>2. Tail(part) = <<>>
    <3> HIDE DEF part
    <3>1. Tail(<<p>>) = <<>>
      OBVIOUS
    <3>2. QED BY <2>1, <3>1
  <2>3. QED BY <2>1, <2>2, MergeFolds
<1>5. ASSUME apvs \in [1 .. 2 -> Nat]
      PROVE  /\ plane.ids = <<apvs[1], apvs[2]>> /\ plane.noise = p.noise \o q.noise
             /\ plane.data = [t \in 1 .. bins |-> p.data[t] \o q.data[t]]
  <2>1. part = <<p, q>> /\ part[1] = p
    BY <1>5
  <2>2. /\ p.ids = <<apvs[1]>> /\ p.data \in [1 .. bins -> ChannelRow]
        /\ q.ids = <<apvs[2]>> /\ q.data \in [1 .. bins -> ChannelRow]
    BY <1>2, PartIs
  <2> HIDE DEF p, q
  <2>3. Tail(part) = <<q>>
    <3> HIDE DEF part
    <3>1. Tail(<<p, q>>) = <<q>>
      OBVIOUS
    <3>2. QED BY <2>1, <3>1
  <2>4. plane = mergeAdcDecodedData(p, q)
    <3> HIDE DEF part
    <3>1. QED BY <2>1, <2>3, MergeFolds
  <2>5. Len(p.data) = bins /\ Len(q.data) = bins /\ DOMAIN p.data = 1 .. bins /\ DOMAIN q.data = 1 .. bins
        /\ Max({bins, bins}) = bins
    <3>1. Max({bins, bins}) = bins
      <4>1. \A a \in Int : Max({a, a}) = a
        BY OfTwo
      <4>2. bins \in Int
        BY <1>2
      <4>3. QED BY <4>1, <4>2
    <3>2. QED BY <1>2, <2>2, <3>1
  <2> HIDE DEF part, plane
  <2>6. plane.ids = <<apvs[1], apvs[2]>>
    <3>1. plane.ids = <<apvs[1]>> \o <<apvs[2]>>
      BY <2>2, <2>4 DEF mergeAdcDecodedData
    <3>2. QED BY <3>1, PairIs
  <2>7. plane.data = [t \in 1 .. bins |-> p.data[t] \o q.data[t]]
    BY <2>4, <2>5 DEF mergeAdcDecodedData
  <2>8. plane.noise = p.noise \o q.noise
    BY <2>4 DEF mergeAdcDecodedData
  <2>9. QED BY <2>6, <2>7, <2>8
<1> HIDE DEF plane, p, q
<1>6. QED BY <1>1, <1>2, <1>4, <1>5 DEF p, q, bins

Chips(plane, decoded, apvs, bins) ==
    \/ apvs = <<apvs[1]>> /\ OneChip(plane, decoded, apvs[1], bins)
    \/ apvs = <<apvs[1], apvs[2]>> /\ TwoChips(plane, decoded, apvs[1], apvs[2], bins)

(* What PlaneOf makes of the chips of a plane.                             *)
LEMMA PlaneIs ==
    ASSUME NEW decoded, Decodes(decoded), NEW apvs, apvs \in [1 .. 1 -> Nat] \cup [1 .. 2 -> Nat]
    PROVE  \/ PlaneOf(decoded, apvs) = NoPlane
           \/ \E n \in Nat : Chips(PlaneOf(decoded, apvs), decoded, apvs, n)
<1>1. CASE Present(decoded, apvs) = {}
  BY <1>1 DEF PlaneOf, Present
<1>2. CASE Present(decoded, apvs) # {}
  <2> DEFINE bins == BinsOf(decoded, apvs)
             plane == PlaneOf(decoded, apvs)
  <2>1. /\ bins \in Nat
        /\ apvs \in [1 .. 1 -> Nat] => plane = GetApvDataOrZeros(decoded, apvs[1], bins)
        /\ apvs \in [1 .. 2 -> Nat] => TwoChips(plane, decoded, apvs[1], apvs[2], bins)
    BY <1>2, PlaneOfParts DEF TwoChips
  <2> HIDE DEF bins, plane
  <2>2. CASE apvs \in [1 .. 1 -> Nat]
    <3>1. apvs = <<apvs[1]>>
      BY <2>2
    <3>2. OneChip(plane, decoded, apvs[1], bins)
      BY <2>1, <2>2, PartIs DEF OneChip
    <3>3. QED BY <2>1, <3>1, <3>2 DEF Chips, plane
  <2>3. CASE apvs \in [1 .. 2 -> Nat]
    <3>1. apvs = <<apvs[1], apvs[2]>>
      BY <2>3
    <3>2. QED BY <2>1, <2>3, <3>1 DEF Chips, plane
  <2>4. QED BY <2>2, <2>3
<1>3. QED BY <1>1, <1>2

-----------------------------------------------------------------------------
(* The chip a place is on, and the channel it has there.                   *)
LEMMA ChipOf ==
    ASSUME NEW n \in Nat \ {0}, NEW j \in Nat
    PROVE  /\ j < n => j \div n = 0 /\ j % n = j
           /\ n <= j /\ j < n + n => j \div n = 1 /\ j % n = j - n
<1> DEFINE q == j \div n
           r == j % n
<1>1. q \in Int /\ r \in 0 .. n - 1 /\ j = n * q + r
  OBVIOUS
<1> HIDE DEF q, r
<1>2. CASE j < n
  <2>1. q = 0
    <3>1. CASE q >= 1
      <4>1. n * q >= n
        BY <3>1, <1>1
      <4>2. QED BY <1>1, <1>2, <4>1
    <3>2. CASE q <= -1
      <4>1. n * q <= -n
        BY <3>2, <1>1
      <4>2. QED BY <1>1, <1>2, <4>1
    <3>3. QED BY <1>1, <3>1, <3>2
  <2>2. n * q = 0
    BY <2>1
  <2>3. r = j
    BY <1>1, <2>2
  <2>4. QED BY <1>2, <2>1, <2>3 DEF q, r
<1>3. CASE n <= j /\ j < n + n
  <2>1. q = 1
    <3>1. CASE q >= 2
      <4>1. n * q >= n + n
        BY <3>1, <1>1
      <4>2. QED BY <1>1, <1>3, <4>1
    <3>2. CASE q <= 0
      <4>1. n * q <= 0
        BY <3>2, <1>1
      <4>2. QED BY <1>1, <1>3, <4>1
    <3>3. QED BY <1>1, <3>1, <3>2
  <2>2. n * q = n
    BY <2>1
  <2>3. r = j - n
    BY <1>1, <2>2
  <2>4. QED BY <1>3, <2>1, <2>3 DEF q, r
<1>4. QED BY <1>2, <1>3

(* Two rows side by side.                                                  *)
LEMMA SideBySide ==
    ASSUME NEW a \in ChannelRow, NEW b \in ChannelRow
    PROVE  /\ a \in Seq(Int) /\ Len(a) = ChannelsCount
           /\ a \o b \in Seq(Int) /\ Len(a \o b) = ChannelsCount + ChannelsCount
           /\ \A c1 \in 1 .. ChannelsCount :
                 (a \o b)[c1] = a[c1] /\ (a \o b)[ChannelsCount + c1] = b[c1]
<1>1. ChannelsCount \in Nat
  BY GemReconAssumption
<1>2. a \in Seq(Int) /\ b \in Seq(Int) /\ Len(a) = ChannelsCount /\ Len(b) = ChannelsCount
      /\ DOMAIN a = 1 .. ChannelsCount /\ DOMAIN b = 1 .. ChannelsCount
  BY <1>1 DEF ChannelRow
<1>3. a \o b \in Seq(Int) /\ Len(a \o b) = Len(a) + Len(b)
  BY <1>2, ConcatIs
<1>4. \A c1 \in 1 .. ChannelsCount :
          (a \o b)[c1] = a[c1] /\ (a \o b)[Len(a) + c1] = b[c1]
  BY <1>2, ConcatIndex
<1>5. QED BY <1>2, <1>3, <1>4

(* What is above zero on a plane is on the chip that has the place there,  *)
(* and that chip has data.                                                 *)
TopOnItsChip(plane, decoded, apvs, t, j) ==
    LET a == apvs[(j \div ChannelsCount) + 1] IN
    /\ NamedApv(plane, j) = a /\ a \in DOMAIN decoded
    /\ (j % ChannelsCount) + 1 \in 1 .. ChannelsCount
    /\ t \in 1 .. Len(decoded[a].data)
    /\ plane.data[t][j + 1] = decoded[a].data[t][(j % ChannelsCount) + 1]

LEMMA TopsOnChips ==
    ASSUME NEW decoded, Decodes(decoded), NEW apvs, NEW plane, NEW n \in Nat,
           Chips(plane, decoded, apvs, n)
    PROVE  /\ plane.data \in Seq(Seq(Int))
           /\ \A t \in DOMAIN plane.data : \A j \in Tops(plane.data[t]) :
                 TopOnItsChip(plane, decoded, apvs, t, j)
<1> DEFINE m == ChannelsCount
<1>1. m \in Nat \ {0}
  BY GemReconAssumption
<1>2. CASE apvs = <<apvs[1]>> /\ OneChip(plane, decoded, apvs[1], n)
  <2> DEFINE a == apvs[1]
             p == GetApvDataOrZeros(decoded, a, n).data
  <2>1. plane.ids = <<a>> /\ plane.data = p /\ p \in [1 .. n -> ChannelRow]
    BY <1>2, PartIs DEF OneChip
  <2>2. \A t \in 1 .. n : \A c1 \in 1 .. m : p[t][c1] > 0 => a \in DOMAIN decoded /\ p = decoded[a].data
    BY PartIs
  <2> HIDE DEF p
  <2>3. ASSUME NEW t \in 1 .. n PROVE p[t] \in Seq(Int) /\ Len(p[t]) = m
    BY <2>1, SideBySide
  <2>4. p \in Seq(Seq(Int)) /\ DOMAIN p = 1 .. n /\ Len(p) = n
    BY <2>1, <2>3
  <2>5. ASSUME NEW t \in 1 .. n, NEW j \in Tops(p[t])
        PROVE  TopOnItsChip(plane, decoded, apvs, t, j)
    <3>1. j \in 0 .. m - 1 /\ p[t][j + 1] > 0
      BY <2>3 DEF Tops
    <3>2. j \in Nat /\ j < m /\ j + 1 \in 1 .. m
      BY <1>1, <3>1
    <3>3. j \div m = 0 /\ j % m = j
      BY <1>1, <3>2, ChipOf
    <3>4. a \in DOMAIN decoded /\ p = decoded[a].data
      BY <2>2, <3>1, <3>2
    <3>5. NamedApv(plane, j) = a
      <4>1. Len(<<a>>) = 1 /\ <<a>>[1] = a
        OBVIOUS
      <4>2. QED BY <2>1, <4>1 DEF NamedApv
    <3>6. apvs[(j \div m) + 1] = a
      BY <3>3
    <3> HIDE DEF a
    <3>7. QED BY <2>1, <2>4, <3>2, <3>3, <3>4, <3>5, <3>6 DEF TopOnItsChip
  <2>6. QED BY <2>1, <2>4, <2>5
<1>3. CASE apvs = <<apvs[1], apvs[2]>> /\ TwoChips(plane, decoded, apvs[1], apvs[2], n)
  <2> DEFINE a == apvs[1]
             b == apvs[2]
             p == GetApvDataOrZeros(decoded, a, n).data
             q == GetApvDataOrZeros(decoded, b, n).data
             both == [t \in 1 .. n |-> p[t] \o q[t]]
  <2>1. /\ plane.ids = <<a, b>> /\ plane.data = both
        /\ p \in [1 .. n -> ChannelRow] /\ q \in [1 .. n -> ChannelRow]
    BY <1>3, PartIs DEF TwoChips
  <2>2. \A t \in 1 .. n : \A c1 \in 1 .. m :
            /\ p[t][c1] > 0 => a \in DOMAIN decoded /\ p = decoded[a].data
            /\ q[t][c1] > 0 => b \in DOMAIN decoded /\ q = decoded[b].data
    BY PartIs
  <2> HIDE DEF p, q
  <2>3. ASSUME NEW t \in 1 .. n
        PROVE  /\ both[t] \in Seq(Int) /\ Len(both[t]) = m + m
               /\ \A c1 \in 1 .. m : both[t][c1] = p[t][c1] /\ both[t][m + c1] = q[t][c1]
    <3> DEFINE Joins(r, r1, r2) ==
                   /\ r \in Seq(Int) /\ Len(r) = m + m
                   /\ \A c1 \in 1 .. m : r[c1] = r1[c1] /\ r[m + c1] = r2[c1]
    <3>1. p[t] \in ChannelRow /\ q[t] \in ChannelRow /\ both[t] = p[t] \o q[t]
      BY <2>1
    <3> HIDE DEF both
    <3>2. \A r1, r2 \in ChannelRow : Joins(r1 \o r2, r1, r2)
      BY SideBySide
    <3> HIDE DEF Joins
    <3>3. Joins(both[t], p[t], q[t])
      BY <3>1, <3>2
    <3>4. QED BY <3>3 DEF Joins
  <2>4. both \in Seq(Seq(Int)) /\ DOMAIN both = 1 .. n /\ Len(p) = n /\ Len(q) = n
    <3>1. both = [t \in 1 .. n |-> both[t]]
      OBVIOUS
    <3> HIDE DEF both
    <3>2. QED BY <2>1, <2>3, <3>1
  <2> HIDE DEF both
  <2>5. ASSUME NEW t \in 1 .. n, NEW j \in Tops(both[t])
        PROVE  TopOnItsChip(plane, decoded, apvs, t, j)
    <3>1. j \in 0 .. (m + m) - 1 /\ both[t][j + 1] > 0 /\ j \in Nat
      <4>1. j \in 0 .. Len(both[t]) - 1 /\ both[t][j + 1] > 0
        BY DEF Tops
      <4>2. QED BY <1>1, <2>3, <4>1
    <3>2. Len(<<a, b>>) = 2 /\ <<a, b>>[1] = a /\ <<a, b>>[2] = b
      OBVIOUS
    <3>3. CASE j < m
      <4>0. j \div m = 0 /\ j % m = j
        BY <1>1, <3>1, <3>3, ChipOf
      <4>1. j \div m = 0 /\ j % m = j /\ j + 1 \in 1 .. m
        BY <1>1, <3>1, <3>3, <4>0
      <4>2. both[t][j + 1] = p[t][j + 1]
        BY <2>3, <4>1
      <4>3. a \in DOMAIN decoded /\ p = decoded[a].data
        BY <2>2, <3>1, <4>1, <4>2
      <4>4. NamedApv(plane, j) = a
        BY <1>1, <2>1, <3>1, <3>2, <3>3 DEF NamedApv
      <4>5. apvs[(j \div m) + 1] = a
        BY <4>1
      <4> HIDE DEF a
      <4>6. QED BY <2>1, <2>4, <4>1, <4>2, <4>3, <4>4, <4>5 DEF TopOnItsChip
    <3>4. CASE m <= j
      <4>1. j < m + m
        BY <1>1, <3>1
      <4>2. j \div m = 1 /\ j % m = j - m
        BY <1>1, <3>1, <3>4, <4>1, ChipOf
      <4>3. (j - m) + 1 \in 1 .. m /\ m + ((j - m) + 1) = j + 1
        BY <1>1, <3>1, <3>4, <4>1
      <4>4. both[t][j + 1] = q[t][(j - m) + 1]
        BY <2>3, <4>3
      <4>5. b \in DOMAIN decoded /\ q = decoded[b].data
        BY <2>2, <3>1, <4>3, <4>4
      <4>6. NamedApv(plane, j) = b
        BY <1>1, <2>1, <3>1, <3>2, <3>4 DEF NamedApv
      <4>7. apvs[(j \div m) + 1] = b
        BY <4>2
      <4> HIDE DEF b
      <4>8. QED BY <2>1, <2>4, <4>2, <4>3, <4>4, <4>5, <4>6, <4>7 DEF TopOnItsChip
    <3>5. QED BY <1>1, <3>1, <3>3, <3>4
  <2>6. QED BY <2>1, <2>4, <2>5
<1>4. QED BY <1>2, <1>3 DEF Chips

(* The decoded chips: what a place has there is what the samples have, with *)
(* pedestal and common mode taken off.                                     *)
Height(items, pedestal, apv, t, c1) ==
    pedestal[apv][c1].offset - TimeBins(items, apv)[t][c1]
        + CommonMode(TimeBins(items, apv)[t], pedestal[apv])

HasOffsets(pedestal, raw) ==
    DOMAIN pedestal = DOMAIN raw /\ \A apv \in DOMAIN raw : OffsetsKnown(pedestal[apv])

LEMMA ApvsDecoded ==
    ASSUME NEW items \in Seq(EventItem), NEW pedestal, pedestal # None,
           HasOffsets(pedestal, RawData(items))
    PROVE  LET decoded == ApvDecodedData(RawData(items), pedestal)
           IN  /\ Decodes(decoded)
               /\ \A apv \in DOMAIN decoded : \A t \in 1 .. Len(decoded[apv].data) :
                     /\ t \in DOMAIN TimeBins(items, apv)
                     /\ \A c1 \in 1 .. ChannelsCount :
                           decoded[apv].data[t][c1] = Height(items, pedestal, apv, t, c1)
<1> DEFINE raw == RawData(items)
           decoded == ApvDecodedData(raw, pedestal)
           bins(apv) == TimeBins(items, apv)
           rows(apv) == DecodeApv(bins(apv), pedestal[apv])
<1>1. \A apv \in DOMAIN raw : raw[apv] = bins(apv)
  BY DEF RawData
<1>2. decoded = [apv \in {a \in DOMAIN raw : raw[a] # <<>>} |->
                   [ids |-> <<apv>>, data |-> DecodeApv(raw[apv], pedestal[apv]),
                    noise |-> [c1 \in 1 .. ChannelsCount |-> pedestal[apv][c1].noise]]]
  BY DEF ApvDecodedData
<1> HIDE DEF decoded, raw
<1>3. ASSUME NEW apv \in DOMAIN decoded
      PROVE  apv \in DOMAIN raw /\ decoded[apv].ids = <<apv>> /\ decoded[apv].data = rows(apv)
  BY <1>1, <1>2
<1>4. ASSUME NEW apv \in DOMAIN decoded
      PROVE  /\ decoded[apv].ids = <<apv>> /\ decoded[apv].data \in Seq(ChannelRow)
             /\ \A t \in 1 .. Len(decoded[apv].data) :
                   /\ t \in DOMAIN bins(apv)
                   /\ \A c1 \in 1 .. ChannelsCount :
                         decoded[apv].data[t][c1] = Height(items, pedestal, apv, t, c1)
  <2>1. OffsetsKnown(pedestal[apv])
    BY <1>3 DEF HasOffsets, raw
  <2>2. bins(apv) \in Seq(ChannelRow)
    BY TimeBinsAre
  <2>3. DOMAIN bins(apv) = 1 .. Len(bins(apv)) /\ Len(bins(apv)) \in Nat
    BY <2>2
  <2>4. /\ rows(apv) \in [1 .. Len(bins(apv)) -> ChannelRow]
        /\ \A t \in 1 .. Len(bins(apv)) : \A c1 \in 1 .. ChannelsCount :
              rows(apv)[t][c1] = Height(items, pedestal, apv, t, c1)
    BY <2>1, <2>2, ApvDecoded DEF Height
  <2> HIDE DEF rows, bins
  <2>5. rows(apv) \in Seq(ChannelRow) /\ Len(rows(apv)) = Len(bins(apv))
    BY <2>3, <2>4
  <2>6. QED BY <1>3, <2>3, <2>4, <2>5
<1>5. QED BY <1>4 DEF Decodes, decoded, raw

(* The property of one peak.                                               *)
IsOwn(items, pedestal, plane, peak) ==
    /\ mapping.apvsOf[plane][(peak.index \div ChannelsCount) + 1] = peak.apv
    /\ peak.time + 1 \in DOMAIN TimeBins(items, peak.apv)
    /\ peak.height = Height(items, pedestal, peak.apv, peak.time + 1,
                            (peak.index % ChannelsCount) + 1)

LEMMA PeaksAreOwn ==
    ASSUME NEW items \in Seq(EventItem), NEW pedestal, pedestal # None,
           HasOffsets(pedestal, RawData(items)), InPairs, NEW plane \in PlanesWithApvs
    PROVE  LET decoded == ApvDecodedData(RawData(items), pedestal)
               peaks == PlanePeaks(PlaneOf(decoded, mapping.apvsOf[plane]))
           IN  \A k \in DOMAIN peaks : IsOwn(items, pedestal, plane, peaks[k])
<1> DEFINE decoded == ApvDecodedData(RawData(items), pedestal)
           apvs == mapping.apvsOf[plane]
           data == PlaneOf(decoded, apvs)
           found == find_common_peaks(data.data, data.noise)
           peaks == PlanePeaks(data)
<1>1. /\ Decodes(decoded)
      /\ \A apv \in DOMAIN decoded : \A t \in 1 .. Len(decoded[apv].data) :
            /\ t \in DOMAIN TimeBins(items, apv)
            /\ \A c1 \in 1 .. ChannelsCount :
                  decoded[apv].data[t][c1] = Height(items, pedestal, apv, t, c1)
  BY ApvsDecoded
<1>2. apvs \in [1 .. 1 -> Nat] \cup [1 .. 2 -> Nat]
  BY DEF InPairs
<1> HIDE DEF decoded, apvs
<1>3. \/ data = NoPlane
      \/ \E n \in Nat : Chips(data, decoded, apvs, n)
  BY <1>1, <1>2, PlaneIs
<1>4. DOMAIN peaks = DOMAIN found
      /\ \A k \in DOMAIN found :
            /\ peaks[k].index = found[k].index /\ peaks[k].height = found[k].height
            /\ peaks[k].time = found[k].time /\ peaks[k].apv = NamedApv(data, found[k].index)
  BY DEF PlanePeaks
<1> HIDE DEF data, peaks
<1>5. /\ data.data \in Seq(Seq(Int))
      /\ \A t \in DOMAIN data.data : \A j \in Tops(data.data[t]) :
            TopOnItsChip(data, decoded, apvs, t, j)
  <2>1. CASE data = NoPlane
    <3>1. data.data = <<>>
      BY <2>1 DEF NoPlane
    <3>2. QED BY <3>1
  <2>2. CASE \E n \in Nat : Chips(data, decoded, apvs, n)
    BY <1>1, <2>2, TopsOnChips
  <2>3. QED BY <1>3, <2>1, <2>2
<1>6. found \in Seq(AllPeaks(data.data))
  BY <1>5, CommonPeaksFound
<1> HIDE DEF found
<1>7. ASSUME NEW k \in DOMAIN found PROVE IsOwn(items, pedestal, plane, peaks[k])
  <2>1. found[k] \in AllPeaks(data.data)
    BY <1>6
  <2>2. PICK t \in DOMAIN data.data : found[k] \in PeaksIn(data.data[t], t - 1)
    BY <2>1 DEF AllPeaks
  <2>3. PICK j \in Tops(data.data[t]) :
            found[k].index = j /\ found[k].height = data.data[t][j + 1] /\ found[k].time = t - 1
    BY <2>2 DEF PeaksIn
  <2>4. t \in Nat /\ (t - 1) + 1 = t
    BY <1>5
  <2> DEFINE apv == apvs[(j \div ChannelsCount) + 1]
             c1 == (j % ChannelsCount) + 1
  <2>5. /\ NamedApv(data, j) = apv /\ apv \in DOMAIN decoded /\ c1 \in 1 .. ChannelsCount
        /\ t \in 1 .. Len(decoded[apv].data) /\ data.data[t][j + 1] = decoded[apv].data[t][c1]
    BY <1>5 DEF TopOnItsChip
  <2>6. peaks[k].index = j /\ peaks[k].apv = apv /\ peaks[k].time + 1 = t
        /\ peaks[k].height = data.data[t][j + 1]
    BY <1>4, <2>3, <2>4, <2>5
  <2>7. apvs[(peaks[k].index \div ChannelsCount) + 1] = peaks[k].apv
    BY <2>6
  <2>8. (peaks[k].index % ChannelsCount) + 1 = c1
    BY <2>6
  <2> HIDE DEF apv, c1
  <2>9. t \in DOMAIN TimeBins(items, apv)
        /\ decoded[apv].data[t][c1] = Height(items, pedestal, apv, t, c1)
    BY <1>1, <2>5
  <2>10. QED BY <2>5, <2>6, <2>7, <2>8, <2>9 DEF IsOwn, apvs
<1>8. QED BY <1>4, <1>7 DEF peaks, data, apvs, decoded

-----------------------------------------------------------------------------
(* The pedestals.  All channels of a chip have as many samples, for a chip *)
(* has a sample of each channel in each of its time bins.                  *)
ChannelSum == [n : Nat, sum : Int, squares : Int]
SumRow == {row \in [1 .. ChannelsCount -> ChannelSum] : \A c1 \in 1 .. ChannelsCount : row[c1].n = row[1].n}

(* A sample is counted, whatever its value.                                *)
LEMMA SampleAdded ==
    ASSUME NEW s \in ChannelSum, NEW x \in Int
    PROVE  AddSample(s, x) \in ChannelSum /\ AddSample(s, x).n = s.n + 1
<1>1. s.n \in Nat /\ s.sum \in Int /\ s.squares \in Int /\ x * x \in Int
  BY DEF ChannelSum
<1> DEFINE y == x * x
<1> HIDE DEF y
<1>2. AddSample(s, x) = [n |-> s.n + 1, sum |-> s.sum + x, squares |-> s.squares + y]
  BY DEF AddSample, y
<1>3. y \in Int
  BY <1>1 DEF y
<1>4. QED BY <1>1, <1>2, <1>3 DEF ChannelSum

(* As many samples are counted as there are rows.                          *)
LEMMA SamplesAdded ==
    ASSUME NEW rows \in Seq(ChannelRow), NEW c1 \in 1 .. ChannelsCount, NEW s0 \in ChannelSum
    PROVE  LET sums == FoldLeft(LAMBDA s, row : AddSample(s, row[c1]), s0, rows)
           IN  sums \in ChannelSum /\ sums.n = s0.n + Len(rows)
<1> DEFINE n == Len(rows)
           T == ChannelSum
           step == [x \in (1 .. n) \X T |-> AddSample(x[2], rows[x[1]][c1])]
           Is(it) == it = [S \in SUBSET (1 .. n) |->
                             IF S = {} THEN s0 ELSE AddSample(it[S \ {Max(S)}], rows[Max(S)][c1])]
           iter == CHOOSE it : Is(it)
<1>1. n \in Nat /\ DOMAIN rows = 1 .. n /\ \A k \in 1 .. n : rows[k][c1] \in Int
  <2>1. n \in Nat /\ DOMAIN rows = 1 .. n /\ \A k \in 1 .. n : rows[k] \in ChannelRow
    OBVIOUS
  <2>2. \A row \in ChannelRow : row[c1] \in Int
    BY DEF ChannelRow
  <2> HIDE DEF n
  <2>3. QED BY <2>1, <2>2
<1>2. FoldLeft(LAMBDA s, row : AddSample(s, row[c1]), s0, rows) = iter[1 .. n]
  BY <1>1 DEF FoldLeft, MapThenFoldSet
<1> HIDE DEF n, T
<1>3. step \in [(1 .. n) \X T -> T] /\ s0 \in T
  BY <1>1, SampleAdded DEF T
<1>4. PICK g \in [SUBSET (1 .. n) -> T] : IsIteration(g, n, s0, step)
  <2> HIDE DEF step
  <2>1. QED BY <1>1, <1>3, IterationExists
<1>5. ASSUME NEW S \in SUBSET (1 .. n)
      PROVE  g[S] = IF S = {} THEN s0 ELSE AddSample(g[S \ {Max(S)}], rows[Max(S)][c1])
  <2>1. g[S] = IF S = {} THEN s0 ELSE step[<<Max(S), g[S \ {Max(S)}]>>]
    BY <1>4 DEF IsIteration
  <2>2. S # {} => Max(S) \in 1 .. n /\ g[S \ {Max(S)}] \in T
    BY <1>1, IterationStep
  <2>3. QED BY <2>1, <2>2
<1>6. Is(iter)
  <2>1. Is(g)
    BY <1>5
  <2> HIDE DEF Is
  <2>2. QED BY <2>1
<1>7. Iterated(iter, T, n, s0, step)
  <2> HIDE DEF iter
  <2>1. ASSUME NEW S \in SUBSET (1 .. n), S # {} PROVE Max(S) \in 1 .. n
    BY <1>1, <2>1, GreatestOf
  <2>2. iter[{}] = s0
    BY <1>6
  <2>3. ASSUME NEW S \in SUBSET (1 .. n), S # {}, iter[S \ {Max(S)}] \in T
        PROVE  iter[S] = step[<<Max(S), iter[S \ {Max(S)}]>>]
    <3>1. iter[S] = AddSample(iter[S \ {Max(S)}], rows[Max(S)][c1])
      BY <1>6, <2>3
    <3>2. QED BY <2>1, <2>3, <3>1
  <2> HIDE DEF step
  <2>4. QED BY <1>3, <2>2, <2>3 DEF Iterated
<1> DEFINE f == [k \in 0 .. n |-> iter[1 .. k]]
<1> HIDE DEF iter
<1>8. FollowsStep(f, T, n, s0, step)
  <2> HIDE DEF step
  <2>1. QED BY <1>1, <1>7, IterationFollows
<1>9. f[n] = iter[1 .. n] /\ n \in 0 .. n
  BY <1>1
<1>10. f[0] = s0 /\ \A k \in 0 .. n : f[k] \in T
  BY <1>8 DEF FollowsStep
<1>11. \A k \in 1 .. n : f[k] = step[<<k, f[k - 1]>>]
  BY <1>8 DEF FollowsStep
<1> HIDE DEF f
<1>12. ASSUME NEW k \in 1 .. n PROVE f[k].n = f[k - 1].n + 1
  <2>1. k - 1 \in 0 .. n /\ f[k - 1] \in T
    BY <1>1, <1>10
  <2>2. f[k] = AddSample(f[k - 1], rows[k][c1])
    BY <1>11, <2>1
  <2>3. QED BY <1>1, <2>1, <2>2, SampleAdded DEF T
<1> DEFINE U == {k \in 0 .. n : f[k].n = s0.n + k}
<1>13. s0.n \in Nat
  BY DEF ChannelSum
<1>14. 0 \in U
  BY <1>1, <1>10, <1>13
<1>15. ASSUME NEW k \in 0 .. n - 1, k \in U PROVE k + 1 \in U
  <2>1. k + 1 \in 1 .. n /\ k + 1 \in 0 .. n /\ (k + 1) - 1 = k
    BY <1>1
  <2>2. f[k + 1].n = f[k].n + 1
    BY <1>12, <2>1
  <2>3. f[k + 1].n = (s0.n + k) + 1
    BY <1>15, <2>2
  <2>4. (s0.n + k) + 1 = s0.n + (k + 1)
    BY <1>13
  <2>5. QED BY <2>1, <2>3, <2>4
<1>16. n \in U
  <2> HIDE DEF U
  <2>1. 0 .. n \subseteq U
    BY <1>1, <1>14, <1>15, IntervalByInduction
  <2>2. QED BY <1>9, <2>1
<1>17. f[n] \in T /\ f[n].n = s0.n + n
  BY <1>9, <1>10, <1>16
<1>18. QED BY <1>2, <1>9, <1>17 DEF T, n

IsRaw(raw) == DOMAIN raw \subseteq Mapped /\ \A apv \in DOMAIN raw : raw[apv] \in Seq(ChannelRow)

(* The raw data are rows of numbers of mapped chips.                       *)
LEMMA RawIs ==
    ASSUME NEW items \in Seq(EventItem)
    PROVE  IsRaw(RawData(items))
BY TimeBinsAre DEF IsRaw, RawData

IsPedestals(p) == p = [m_events_counter |-> p.m_events_counter, sums |-> p.sums]
                  /\ p.sums \in [Mapped -> SumRow]

(* What has been learned stays counted alike on all channels.              *)
LEMMA LearnedIs ==
    ASSUME NEW p, IsPedestals(p), NEW raw, IsRaw(raw)
    PROVE  Learn(p, raw) \in [Mapped -> SumRow]
<1> DEFINE n == ChannelsCount
           sum(apv, c1) == FoldLeft(LAMBDA s, row : AddSample(s, row[c1]), p.sums[apv][c1], raw[apv])
           learned(apv) == [c1 \in 1 .. n |-> sum(apv, c1)]
<1>1. Learn(p, raw) = IF ~Learning(p) THEN p.sums
                      ELSE [apv \in Mapped |-> IF apv \notin DOMAIN raw THEN p.sums[apv] ELSE learned(apv)]
  BY DEF Learn
<1>2. ASSUME NEW apv \in Mapped, apv \in DOMAIN raw PROVE learned(apv) \in SumRow
  <2>1. n \in Nat \ {0} /\ 1 \in 1 .. n
    BY GemReconAssumption
  <2>2. p.sums[apv] \in SumRow /\ raw[apv] \in Seq(ChannelRow)
    BY <1>2 DEF IsPedestals, IsRaw
  <2>3. /\ \A c1 \in 1 .. n : p.sums[apv][c1] \in ChannelSum
        /\ \A c1 \in 1 .. n : p.sums[apv][c1].n = p.sums[apv][1].n
    BY <2>2 DEF SumRow
  <2>4. ASSUME NEW c1 \in 1 .. n
        PROVE  sum(apv, c1) \in ChannelSum /\ sum(apv, c1).n = p.sums[apv][1].n + Len(raw[apv])
    <3>1. sum(apv, c1) \in ChannelSum /\ sum(apv, c1).n = p.sums[apv][c1].n + Len(raw[apv])
      BY <2>2, <2>3, SamplesAdded
    <3>2. QED BY <2>3, <3>1
  <2> HIDE DEF sum
  <2>5. learned(apv) \in [1 .. n -> ChannelSum]
    BY <2>4
  <2>6. \A c1 \in 1 .. n : learned(apv)[c1].n = learned(apv)[1].n
    BY <2>1, <2>4
  <2> HIDE DEF learned
  <2>7. QED BY <2>5, <2>6 DEF SumRow
<1> HIDE DEF learned
<1>3. p.sums \in [Mapped -> SumRow]
  BY DEF IsPedestals
<1>4. QED BY <1>1, <1>2, <1>3

(* A pedestal has an offset for each channel.                              *)
LEMMA PedestalHas ==
    ASSUME NEW p, IsPedestals(p), NEW raw, IsRaw(raw), Pedestal(p, raw) # None
    PROVE  HasOffsets(Pedestal(p, raw), raw)
<1> DEFINE sums == Learn(p, raw)
           n == ChannelsCount
           new(apv, c1) == IF Early(p) THEN [offset |-> ConstantOffset, noise |-> 0]
                           ELSE [offset |-> Mean(sums[apv][c1]), noise |-> Variance(sums[apv][c1])]
<1>1. sums \in [Mapped -> SumRow] /\ n \in Nat \ {0} /\ ConstantOffset \in Int /\ 1 \in 1 .. n
  BY LearnedIs, GemReconAssumption
<1> HIDE DEF sums
<1>2. ~MeanThrows(p, raw) /\ Pedestal(p, raw) = [apv \in DOMAIN raw |-> [c1 \in 1 .. n |-> new(apv, c1)]]
  BY DEF Pedestal, sums
<1>3. ASSUME NEW apv \in DOMAIN raw, NEW c1 \in 1 .. n PROVE new(apv, c1).offset \in Int
  <2>1. CASE Early(p)
    BY <1>1, <2>1
  <2>2. CASE ~Early(p)
    <3>1. sums[apv][1].n # 0
      BY <1>2, <2>2 DEF MeanThrows, Unlearned, sums
    <3>2. sums[apv] \in SumRow
      BY <1>1 DEF IsRaw
    <3>3. sums[apv][c1] \in ChannelSum /\ sums[apv][c1].n = sums[apv][1].n
      BY <3>2 DEF SumRow
    <3> DEFINE s == sums[apv][c1]
    <3>4. s.n \in Nat \ {0} /\ s.sum \in Int
      BY <3>1, <3>3 DEF ChannelSum
    <3>5. new(apv, c1).offset = s.sum \div s.n
      BY <2>2 DEF Mean
    <3> HIDE DEF s, new
    <3>6. QED BY <3>4, <3>5
  <2>3. QED BY <2>1, <2>2
<1> HIDE DEF new
<1>4. QED BY <1>2, <1>3 DEF HasOffsets, OffsetsKnown

(* The sums of a factory stay well formed behind an event,                 *)
LEMMA PedestalsKept ==
    ASSUME NEW p, IsPedestals(p), NEW raw, IsRaw(raw)
    PROVE  IsPedestals(AfterPedestal(p, raw))
<1>1. Learn(p, raw) \in [Mapped -> SumRow] /\ p.sums \in [Mapped -> SumRow]
  BY LearnedIs DEF IsPedestals
<1>2. CASE MeanThrows(p, raw)
  <2> DEFINE m == Min(Unlearned(p, raw))
             sums == [apv \in Mapped |-> IF apv < m THEN Learn(p, raw)[apv] ELSE p.sums[apv]]
  <2>1. AfterPedestal(p, raw) = [p EXCEPT !.sums = sums]
    BY <1>2 DEF AfterPedestal
  <2>2. sums \in [Mapped -> SumRow]
    <3> HIDE DEF m
    <3>1. QED BY <1>1
  <2> HIDE DEF sums
  <2>3. [p EXCEPT !.sums = sums] = [m_events_counter |-> p.m_events_counter, sums |-> sums]
    BY DEF IsPedestals
  <2>4. QED BY <2>1, <2>2, <2>3 DEF IsPedestals
<1>3. CASE ~MeanThrows(p, raw)
  BY <1>1, <1>3 DEF AfterPedestal, IsPedestals
<1>4. QED BY <1>2, <1>3

(* in a new factory,                                                       *)
LEMMA PedestalsNew == IsPedestals(NewPedestals)
<1>1. ChannelsCount \in Nat \ {0} /\ 1 \in 1 .. ChannelsCount
  BY GemReconAssumption
<1> DEFINE row == [c1 \in 1 .. ChannelsCount |-> NoSum]
<1>2. NoSum \in ChannelSum
  BY DEF NoSum, ChannelSum
<1>3. row \in SumRow
  BY <1>1, <1>2 DEF SumRow
<1> HIDE DEF row
<1>4. NewPedestals = [m_events_counter |-> 0, sums |-> [apv \in Mapped |-> row]]
  BY DEF NewPedestals, row
<1>5. QED BY <1>3, <1>4 DEF IsPedestals

(* and when a run begins.                                                  *)
LEMMA PedestalsCount ==
    ASSUME NEW s, IsPedestals(factories[s].pedestals)
    PROVE  IsPedestals(PedestalsFor(s))
BY DEF PedestalsFor, IsPedestals

-----------------------------------------------------------------------------
(* What a slot has made is made of what it made before.                    *)
GemMade(at, m, x) ==
    /\ at \in {"pedestals", "apvs", "planes", "gem plane", "peaks", "gem samples"} =>
          m.raw = RawData(x.items)
    /\ at \in {"apvs", "planes", "gem plane", "peaks", "gem samples"} =>
          m.pedestal = None \/ HasOffsets(m.pedestal, m.raw)
    /\ at \in {"planes", "gem plane", "peaks", "gem samples"} =>
          m.apvs = ApvDecodedData(m.raw, m.pedestal)
    /\ at \in {"gem plane", "peaks", "gem samples"} => m.planes = PlaneDecodedData(m.apvs)
    /\ at \in {"peaks", "gem samples"} => m.planes # None
    /\ at = "gem samples" => m.peaks = Peaks(m.planes) /\ m.sf_clusters = Clusters(m.planes)

PeakInv ==
    /\ SlotInv
    /\ \A s \in Slots : IsPedestals(factories[s].pedestals) /\ GemMade(pc[s], made[s], ev[s])

(* An event in a slot has the items of an event.                           *)
LEMMA ItemsOf ==
    ASSUME SlotInv, NEW s \in Slots, pc[s] # "idle"
    PROVE  ev[s].items \in Seq(EventItem)
<1>1. OfItsEvent(pc[s], factories[s].f125, made[s], ev[s])
  BY DEF SlotInv
<1>2. PICK e \in Events : ev[s].items = e.items
  BY <1>1 DEF OfItsEvent, FromEvents
<1>3. QED BY <1>2, EventsAssumption DEF EventItem

(* Nothing is made of the peaks yet.                                       *)
LEMMA PeakInit == Init => PeakInv
<1> SUFFICES ASSUME Init PROVE PeakInv
  OBVIOUS
<1>1. SlotInv
  BY SlotInit
<1>2. ASSUME NEW s \in Slots
      PROVE  IsPedestals(factories[s].pedestals) /\ GemMade(pc[s], made[s], ev[s])
  <2>1. pc[s] = "idle" /\ factories[s].pedestals = NewPedestals
    BY DEF Init
  <2>2. QED BY <2>1, PedestalsNew DEF GemMade
<1>3. QED BY <1>1, <1>2 DEF PeakInv

(* A step of one slot.                                                     *)
LEMMA PeakMoves ==
    ASSUME PeakInv, SlotInv', NEW s \in Slots, NEW here, NEW there \in Labels, GoTo(s, here, there),
           OthersStay(s), IsPedestals(factories'[s].pedestals), GemMade(there, made'[s], ev'[s])
    PROVE  PeakInv'
<1>1. pc \in [Slots -> Labels]
  BY DEF PeakInv, SlotInv, SlotTypes
<1>2. pc'[s] = there /\ \A r \in Slots \ {s} : pc'[r] = pc[r]
  BY <1>1, GoesTo
<1>3. ASSUME NEW r \in Slots
      PROVE  IsPedestals(factories'[r].pedestals) /\ GemMade(pc'[r], made'[r], ev'[r])
  <2>1. CASE r = s
    BY <1>2, <2>1
  <2>2. CASE r # s
    <3>1. pc'[r] = pc[r] /\ ev'[r] = ev[r] /\ factories'[r] = factories[r] /\ made'[r] = made[r]
      BY <1>2, <2>2 DEF OthersStay
    <3>2. IsPedestals(factories[r].pedestals) /\ GemMade(pc[r], made[r], ev[r])
      BY DEF PeakInv
    <3>3. QED BY <3>1, <3>2
  <2>3. QED BY <2>1, <2>2
<1>4. QED BY <1>3 DEF PeakInv

(* A step to a place where nothing is known of the peaks.                  *)
LEMMA PeakLeaves ==
    ASSUME PeakInv, SlotInv', NEW s \in Slots, NEW here, NEW there \in Labels, GoTo(s, here, there),
           there \notin {"pedestals", "apvs", "planes", "gem plane", "peaks", "gem samples"},
           OthersStay(s), factories'[s].pedestals = factories[s].pedestals
    PROVE  PeakInv'
<1>1. IsPedestals(factories'[s].pedestals)
  BY DEF PeakInv
<1>2. GemMade(there, made'[s], ev'[s])
  BY DEF GemMade
<1>3. QED BY <1>1, <1>2, PeakMoves

(* A step that makes nothing.                                              *)
LEMMA NothingMade ==
    ASSUME SlotTypes, NEW s \in Slots, ev' = ev, factories' = factories, made' = made
    PROVE  OthersStay(s) /\ factories'[s] = factories[s] /\ made'[s] = made[s]
BY DEF SlotTypes, OthersStay

(* The steps of the GEM processor,                                         *)
LEMMA GemKeepsPeaks ==
    ASSUME PeakInv, SlotInv', NEW s \in Slots, Gem(s)
    PROVE  PeakInv'
<1> USE DEF Labels, CountedOnce, CountedTwice, GemSteps
<1>0. /\ SlotTypes /\ DOMAIN made = Slots /\ DOMAIN factories = Slots /\ DOMAIN ev = Slots
      /\ IsMade(made[s]) /\ IsFactory(factories[s]) /\ SlotInv
      /\ IsPedestals(factories[s].pedestals) /\ GemMade(pc[s], made[s], ev[s])
  BY DEF PeakInv, SlotInv, SlotTypes
<1>1. CASE GemCount(s)
  BY <1>0, <1>1, NothingMade, PeakLeaves DEF GemCount, slotVars
<1>2. CASE GemCounted(s)
  BY <1>0, <1>2, NothingMade, PeakLeaves DEF GemCounted, slotVars
<1>3. CASE GemSelect(s)
  <2>1. ev' = ev /\ factories' = factories /\ made' = made
    BY <1>3 DEF GemSelect, slotVars
  <2>2. GoTo(s, "gem select", "gem raw") \/ GoTo(s, "gem select", "fpga count")
    BY <1>3 DEF GemSelect
  <2>3. QED BY <1>0, <2>1, <2>2, NothingMade, PeakLeaves
<1>4. CASE FillEventRawData(s)
  BY <1>0, <1>4, NothingMade, PeakLeaves DEF FillEventRawData, slotVars
<1>5. CASE MakeRawData(s)
  <2> DEFINE v == RawData(ev[s].items)
  <2>1. GoTo(s, "gem apv", "pedestals") /\ made' = [made EXCEPT ![s].raw = v]
        /\ ev' = ev /\ factories' = factories
    BY <1>5 DEF MakeRawData
  <2> HIDE DEF v
  <2>2. made'[s] = [made[s] EXCEPT !.raw = v] /\ OthersStay(s) /\ factories'[s] = factories[s]
    BY <1>0, <2>1 DEF OthersStay
  <2>3. made'[s].raw = v
    BY <1>0, <2>2 DEF IsMade
  <2>4. GemMade("pedestals", made'[s], ev'[s])
    BY <2>1, <2>3 DEF GemMade, v
  <2>5. QED BY <1>0, <2>1, <2>2, <2>4, PeakMoves
<1>6. CASE MakePedestal(s)
  <2> DEFINE p == PedestalsFor(s)
             v == Pedestal(p, made[s].raw)
             q == AfterPedestal(p, made[s].raw)
  <2>1. /\ GoTo(s, "pedestals", "apvs") /\ ev' = ev
        /\ made' = [made EXCEPT ![s].pedestal = v]
        /\ factories' = [[factories EXCEPT ![s].run = ev[s].run] EXCEPT ![s].pedestals = q]
    BY <1>6 DEF MakePedestal
  <2>2. pc[s] = "pedestals"
    BY <2>1 DEF GoTo
  <2>3. made[s].raw = RawData(ev[s].items) /\ IsRaw(made[s].raw)
    <3>1. made[s].raw = RawData(ev[s].items)
      BY <1>0, <2>2 DEF GemMade
    <3>2. QED BY <1>0, <2>2, <3>1, ItemsOf, RawIs
  <2>4. IsPedestals(p)
    BY <1>0, PedestalsCount
  <2>5. v = None \/ HasOffsets(v, made[s].raw)
    BY <2>3, <2>4, PedestalHas
  <2>6. IsPedestals(q)
    BY <2>3, <2>4, PedestalsKept
  <2> HIDE DEF p, q, v
  <2>7. made'[s] = [made[s] EXCEPT !.pedestal = v] /\ OthersStay(s)
        /\ factories'[s] = [[factories[s] EXCEPT !.run = ev[s].run] EXCEPT !.pedestals = q]
    BY <1>0, <2>1 DEF OthersStay
  <2>8. made'[s].pedestal = v /\ made'[s].raw = made[s].raw
    BY <1>0, <2>7 DEF IsMade
  <2>9. factories'[s].pedestals = q
    BY <1>0, <2>7 DEF IsFactory
  <2>10. GemMade("apvs", made'[s], ev'[s])
    BY <2>1, <2>3, <2>5, <2>8 DEF GemMade
  <2>11. QED BY <2>1, <2>6, <2>7, <2>9, <2>10, PeakMoves
<1>7. CASE FillApvDecodedData(s)
  <2> DEFINE v == ApvDecodedData(made[s].raw, made[s].pedestal)
  <2>1. GoTo(s, "apvs", "planes") /\ made' = [made EXCEPT ![s].apvs = v]
        /\ ev' = ev /\ factories' = factories
    BY <1>7 DEF FillApvDecodedData
  <2> HIDE DEF v
  <2>2. made'[s] = [made[s] EXCEPT !.apvs = v] /\ OthersStay(s) /\ factories'[s] = factories[s]
    BY <1>0, <2>1 DEF OthersStay
  <2>3. made'[s].apvs = v /\ made'[s].raw = made[s].raw /\ made'[s].pedestal = made[s].pedestal
    BY <1>0, <2>2 DEF IsMade
  <2>4. pc[s] = "apvs"
    BY <2>1 DEF GoTo
  <2>5. GemMade("planes", made'[s], ev'[s])
    BY <1>0, <2>1, <2>3, <2>4 DEF GemMade, v
  <2>6. QED BY <1>0, <2>1, <2>2, <2>5, PeakMoves
<1>8. CASE MakePlanes(s)
  <2> DEFINE v == PlaneDecodedData(made[s].apvs)
  <2>1. GoTo(s, "planes", "gem plane") /\ made' = [made EXCEPT ![s].planes = v]
        /\ ev' = ev /\ factories' = factories
    BY <1>8 DEF MakePlanes
  <2> HIDE DEF v
  <2>2. made'[s] = [made[s] EXCEPT !.planes = v] /\ OthersStay(s) /\ factories'[s] = factories[s]
    BY <1>0, <2>1 DEF OthersStay
  <2>3. made'[s].planes = v /\ made'[s].raw = made[s].raw /\ made'[s].pedestal = made[s].pedestal
        /\ made'[s].apvs = made[s].apvs
    BY <1>0, <2>2 DEF IsMade
  <2>4. pc[s] = "planes"
    BY <2>1 DEF GoTo
  <2>5. GemMade("gem plane", made'[s], ev'[s])
    BY <1>0, <2>1, <2>3, <2>4 DEF GemMade, v
  <2>6. QED BY <1>0, <2>1, <2>2, <2>5, PeakMoves
<1>9. CASE FillEventPlaneData(s)
  <2>1. ev' = ev /\ factories' = factories /\ made' = made
    BY <1>9 DEF FillEventPlaneData, slotVars
  <2>2. OthersStay(s) /\ factories'[s] = factories[s] /\ made'[s] = made[s]
    BY <1>0, <2>1, NothingMade
  <2>3. CASE GoTo(s, "gem plane", "peaks") /\ made[s].planes # None
    <3>1. pc[s] = "gem plane"
      BY <2>3 DEF GoTo
    <3>2. GemMade("peaks", made'[s], ev'[s])
      BY <1>0, <2>1, <2>2, <2>3, <3>1 DEF GemMade
    <3>3. QED BY <1>0, <2>2, <2>3, <3>2, PeakMoves
  <2>4. CASE GoTo(s, "gem plane", "crashed")
    BY <1>0, <2>2, <2>4, PeakLeaves
  <2>5. QED BY <1>9, <2>3, <2>4 DEF FillEventPlaneData
<1>10. CASE MakePeaks(s)
  <2> DEFINE v == Peaks(made[s].planes)
             w == Clusters(made[s].planes)
  <2>1. GoTo(s, "peaks", "gem samples")
        /\ made' = [[made EXCEPT ![s].peaks = v] EXCEPT ![s].sf_clusters = w]
        /\ ev' = ev /\ factories' = factories
    BY <1>10 DEF MakePeaks
  <2> HIDE DEF v, w
  <2>2. made'[s] = [[made[s] EXCEPT !.peaks = v] EXCEPT !.sf_clusters = w]
        /\ OthersStay(s) /\ factories'[s] = factories[s]
    BY <1>0, <2>1 DEF OthersStay
  <2>3. made'[s].peaks = v /\ made'[s].raw = made[s].raw /\ made'[s].pedestal = made[s].pedestal
        /\ made'[s].apvs = made[s].apvs /\ made'[s].planes = made[s].planes
        /\ made'[s].sf_clusters = w
    BY <1>0, <2>2 DEF IsMade
  <2>4. pc[s] = "peaks"
    BY <2>1 DEF GoTo
  <2>5. GemMade("gem samples", made'[s], ev'[s])
    BY <1>0, <2>1, <2>3, <2>4 DEF GemMade, v, w
  <2>6. QED BY <1>0, <2>1, <2>2, <2>5, PeakMoves
<1>11. CASE FillSampleData(s)
  <2>1. PICK out, stats : /\ made' = [made EXCEPT ![s].samples = out]
                          /\ factories' = [factories EXCEPT ![s].stats = stats]
    BY <1>11 DEF FillSampleData
  <2>2. GoTo(s, "gem samples", "fpga count") /\ ev' = ev
    BY <1>11 DEF FillSampleData
  <2>3. OthersStay(s) /\ factories'[s] = [factories[s] EXCEPT !.stats = stats]
    BY <1>0, <2>1, <2>2 DEF OthersStay
  <2>4. factories'[s].pedestals = factories[s].pedestals
    BY <1>0, <2>3 DEF IsFactory
  <2>5. QED BY <2>2, <2>3, <2>4, PeakLeaves
<1>12. QED BY <1>1, <1>2, <1>3, <1>4, <1>5, <1>6, <1>7, <1>8, <1>9, <1>10, <1>11 DEF Gem

(* of the FPGA processor,                                                  *)
LEMMA FpgaKeepsPeaks ==
    ASSUME PeakInv, SlotInv', NEW s \in Slots, Fpga(s)
    PROVE  PeakInv'
<1> USE DEF Labels, CountedOnce, CountedTwice, GemSteps
<1>0. SlotTypes /\ DOMAIN made = Slots /\ DOMAIN factories = Slots /\ DOMAIN ev = Slots
  BY DEF PeakInv, SlotInv, SlotTypes
<1>1. CASE FpgaCount(s)
  BY <1>0, <1>1, NothingMade, PeakLeaves DEF FpgaCount, slotVars
<1>2. CASE FpgaCounted(s)
  <2>1. ev' = ev /\ factories' = factories /\ made' = made
    BY <1>2 DEF FpgaCounted, slotVars
  <2>2. GoTo(s, "fpga counted", "fpga send") \/ GoTo(s, "fpga counted", "trd")
    BY <1>2 DEF FpgaCounted
  <2>3. QED BY <1>0, <2>1, <2>2, NothingMade, PeakLeaves
<1>3. CASE FillBuffer(s)
  <2>1. PICK v : made' = [made EXCEPT ![s].clusters = v]
    BY <1>3 DEF FillBuffer
  <2>2. GoTo(s, "fpga send", "fpga sent") /\ ev' = ev /\ factories' = factories
    BY <1>3 DEF FillBuffer
  <2>3. OthersStay(s)
    BY <1>0, <2>1, <2>2 DEF OthersStay
  <2>4. QED BY <2>2, <2>3, PeakLeaves
<1>4. CASE SendRaw(s)
  BY <1>0, <1>4, NothingMade, PeakLeaves DEF SendRaw, slotVars
<1>5. CASE RecvRaw(s)
  <2>1. PICK v : made' = [made EXCEPT ![s].reply = v]
    BY <1>5 DEF RecvRaw
  <2>2. GoTo(s, "fpga receive", "fpga plots") /\ ev' = ev /\ factories' = factories
    BY <1>5 DEF RecvRaw
  <2>3. OthersStay(s)
    BY <1>0, <2>1, <2>2 DEF OthersStay
  <2>4. QED BY <2>2, <2>3, PeakLeaves
<1>6. CASE FpgaPlots(s)
  <2>1. ev' = ev /\ factories' = factories /\ made' = made
    BY <1>6 DEF FpgaPlots, slotVars
  <2>2. GoTo(s, "fpga plots", "trd") \/ GoTo(s, "fpga plots", "crashed")
    BY <1>6 DEF FpgaPlots
  <2>3. QED BY <1>0, <2>1, <2>2, NothingMade, PeakLeaves
<1>7. QED BY <1>1, <1>2, <1>3, <1>4, <1>5, <1>6 DEF Fpga

(* and of all of them.                                                     *)
LEMMA PeaksKept == PeakInv /\ [Next]_vars => PeakInv'
<1> SUFFICES ASSUME PeakInv, [Next]_vars PROVE PeakInv'
  OBVIOUS
<1>0. SlotTypes /\ SlotInv /\ SlotInv'
  BY SlotsKept DEF PeakInv, SlotInv
<1>1. CASE NextFile
  BY <1>0, <1>1 DEF NextFile, eventVars, slotVars, PeakInv
<1>2. ASSUME NEW s \in Slots, Take(s) PROVE PeakInv'
  <2>0. DOMAIN made = Slots /\ DOMAIN factories = Slots /\ DOMAIN ev = Slots
        /\ IsFactory(factories[s])
    BY <1>0 DEF SlotTypes
  <2>1. GoTo(s, "idle", "gem count") /\ made' = [made EXCEPT ![s] = NewMade]
    BY <1>2 DEF Take
  <2>2. PICK e \in Events :
          /\ ev' = [ev EXCEPT ![s] = [id |-> source.taken + 1, run |-> source.file,
                                      number |-> source.number + 1,
                                      items |-> e.items, records |-> e.records]]
          /\ factories' = [factories EXCEPT ![s].srs = factories[s].srs \/ e.srs,
                                            ![s].f125 = factories[s].f125 \/ e.f125]
    BY <1>2 DEF Take
  <2> DEFINE v == factories[s].srs \/ e.srs
             w == factories[s].f125 \/ e.f125
  <2>3. OthersStay(s) /\ factories'[s] = [[factories[s] EXCEPT !.srs = v] EXCEPT !.f125 = w]
    <3>1. factories' = [[factories EXCEPT ![s].srs = v] EXCEPT ![s].f125 = w]
      BY <2>2
    <3> HIDE DEF v, w
    <3>2. QED BY <2>0, <2>1, <2>2, <3>1 DEF OthersStay
  <2> HIDE DEF v, w
  <2>4. factories'[s].pedestals = factories[s].pedestals
    BY <2>0, <2>3 DEF IsFactory
  <2>5. "gem count" \in Labels
    BY DEF Labels
  <2>6. QED BY <1>0, <2>1, <2>3, <2>4, <2>5, PeakLeaves
<1>3. ASSUME NEW s \in Slots, FillTrdHistogram(s) PROVE PeakInv'
  <2>1. GoTo(s, "trd", "idle") /\ ev' = ev /\ factories' = factories /\ made' = made
    BY <1>3 DEF FillTrdHistogram, slotVars
  <2>2. "idle" \in Labels
    BY DEF Labels, CountedTwice
  <2>3. QED BY <1>0, <2>1, <2>2, NothingMade, PeakLeaves
<1>4. CASE UNCHANGED vars
  BY <1>0, <1>4 DEF vars, eventVars, slotVars, PeakInv
<1>5. QED BY <1>0, <1>1, <1>2, <1>3, <1>4, GemKeepsPeaks, FpgaKeepsPeaks DEF Next

(* A peak of a plane of one chip or two names the APV whose place on the   *)
(* plane it is at, and has the height that this APV's samples have in the  *)
(* event behind pedestal and common mode: in every slot, whatever chips    *)
(* are silent or short, and however the peaks of the time bins are joined. *)
THEOREM PeaksOnTheirApv == ASSUME InPairs PROVE Spec => []PeakOnItsApv
<1>1. ASSUME PeakInv PROVE PeakOnItsApv
  <2>1. SUFFICES ASSUME NEW s \in Slots, pc[s] = "gem samples",
                        NEW plane \in DOMAIN made[s].planes
                 PROVE  \A k \in DOMAIN made[s].peaks[plane] :
                           IsOwn(ev[s].items, made[s].pedestal, plane, made[s].peaks[plane][k])
    BY DEF PeakOnItsApv, IsOwn, Height
  <2> DEFINE m == made[s]
             items == ev[s].items
  <2>2. /\ m.raw = RawData(items) /\ m.planes # None /\ m.peaks = Peaks(m.planes)
        /\ m.pedestal = None \/ HasOffsets(m.pedestal, m.raw)
        /\ m.apvs = ApvDecodedData(m.raw, m.pedestal) /\ m.planes = PlaneDecodedData(m.apvs)
    BY <1>1, <2>1 DEF PeakInv, GemMade
  <2>3. items \in Seq(EventItem)
    BY <1>1, <2>1, ItemsOf DEF PeakInv
  <2> HIDE DEF m, items
  <2>4. m.apvs # None
    BY <2>2 DEF PlaneDecodedData
  <2>5. m.pedestal # None
    BY <2>2, <2>4 DEF ApvDecodedData
  <2>6. m.planes = [p \in PlanesWithApvs |-> PlaneOf(m.apvs, mapping.apvsOf[p])]
    BY <2>2, <2>4 DEF PlaneDecodedData
  <2>7. plane \in PlanesWithApvs /\ m.planes[plane] = PlaneOf(m.apvs, mapping.apvsOf[plane])
        /\ plane \in DOMAIN m.planes
    BY <2>1, <2>6 DEF m
  <2>8. m.peaks[plane] = PlanePeaks(PlaneOf(m.apvs, mapping.apvsOf[plane]))
    BY <2>2, <2>7 DEF Peaks
  <2>9. \A k \in DOMAIN m.peaks[plane] : IsOwn(items, m.pedestal, plane, m.peaks[plane][k])
    BY <2>2, <2>3, <2>5, <2>7, <2>8, PeaksAreOwn
  <2>10. QED BY <2>9 DEF m, items
<1>2. QED BY <1>1, PeakInit, PeaksKept, PTL DEF Spec

-----------------------------------------------------------------------------
(* The channels of a chip that group_by_apv has met among the first k      *)
(* items, each with the samples of the last of its items.                  *)
ChannelMap == UNION {[D -> Seq(Nat)] : D \in SUBSET Chans}
HitsOf(items, apv, c, k) == {j \in 1 .. k : items[j].apv = apv /\ Correction[items[j].ch] = c}
HoldsHits(m, items, apv, k) ==
    \A c \in Chans :
        /\ c \in DOMAIN m <=> HitsOf(items, apv, c, k) # {}
        /\ c \in DOMAIN m => m[c] = items[Max(HitsOf(items, apv, c, k))].samples
AddHit(m, hit, apv) == IF hit.apv # apv THEN m ELSE Put(m, Correction[hit.ch], hit.samples)
ChannelsOf(items, apv) ==
    FoldLeft(LAMBDA m, hit : IF hit.apv # apv THEN m ELSE Put(m, Correction[hit.ch], hit.samples),
             Empty, items)

(* The strip of a channel,                                                 *)
LEMMA CorrectedIs == ASSUME NEW hit \in EventItem PROVE Correction[hit.ch] \in Chans
BY GemReconAssumption DEF EventItem

(* the strips with one more,                                               *)
LEMMA ChannelAdded ==
    ASSUME NEW m \in ChannelMap, NEW hit \in EventItem, NEW apv
    PROVE  AddHit(m, hit, apv) \in ChannelMap
<1>1. PICK D \in SUBSET Chans : m \in [D -> Seq(Nat)]
  BY DEF ChannelMap
<1> DEFINE c == Correction[hit.ch]
           E == D \cup {c}
<1>2. c \in Chans /\ hit.samples \in Seq(Nat)
  BY CorrectedIs DEF EventItem
<1> HIDE DEF c
<1>3. Put(m, c, hit.samples) \in [E -> Seq(Nat)] /\ E \in SUBSET Chans
  BY <1>1, <1>2 DEF Put
<1>4. Put(m, c, hit.samples) \in ChannelMap
  BY <1>3 DEF ChannelMap
<1>5. QED BY <1>4 DEF AddHit, c

(* which holds the samples of the item read last,                          *)
LEMMA HitHeld ==
    ASSUME NEW items \in Seq(EventItem), NEW apv, NEW k \in 0 .. Len(items) - 1,
           NEW m \in ChannelMap, HoldsHits(m, items, apv, k)
    PROVE  HoldsHits(AddHit(m, items[k + 1], apv), items, apv, k + 1)
<1> DEFINE n == Len(items)
           hit == items[k + 1]
           c0 == Correction[hit.ch]
           H(c) == HitsOf(items, apv, c, k)
           G(c) == HitsOf(items, apv, c, k + 1)
           new == AddHit(m, hit, apv)
<1>1. k + 1 \in 1 .. n /\ hit \in EventItem /\ k \in Nat /\ 1 .. k + 1 = (1 .. k) \cup {k + 1}
      /\ k + 1 \in Nat
  OBVIOUS
<1>2. \A c : G(c) = IF hit.apv = apv /\ c0 = c THEN H(c) \cup {k + 1} ELSE H(c)
  BY <1>1 DEF HitsOf
<1>3. \A c : H(c) \in SUBSET (1 .. k)
  BY DEF HitsOf
<1> HIDE DEF hit
<1>4. \A c \in Chans : /\ c \in DOMAIN m <=> H(c) # {}
                       /\ c \in DOMAIN m => m[c] = items[Max(H(c))].samples
  BY DEF HoldsHits
<1> HIDE DEF c0, H, G
<1>5. CASE hit.apv # apv
  <2>1. new = m /\ \A c : G(c) = H(c)
    BY <1>2, <1>5 DEF AddHit
  <2> HIDE DEF new
  <2>2. \A c \in Chans : /\ c \in DOMAIN new <=> G(c) # {}
                         /\ c \in DOMAIN new => new[c] = items[Max(G(c))].samples
    BY <1>4, <2>1
  <2>3. QED BY <2>2 DEF HoldsHits, G, hit, new
<1>6. CASE hit.apv = apv
  <2>1. DOMAIN new = DOMAIN m \cup {c0}
        /\ \A c \in DOMAIN new : new[c] = IF c = c0 THEN hit.samples ELSE m[c]
    BY <1>6 DEF AddHit, Put, c0
  <2> HIDE DEF new
  <2>2. Max(G(c0)) = k + 1 /\ G(c0) # {}
    <3> DEFINE S == G(c0)
    <3>1. S = H(c0) \cup {k + 1}
      BY <1>2, <1>6
    <3>2. S \in SUBSET (1 .. k + 1) /\ k + 1 \in S /\ S # {}
      BY <1>1, <1>3, <3>1
    <3> HIDE DEF S
    <3>3. Max(S) \in S /\ \A j \in S : j <= Max(S)
      BY <1>1, <3>2, GreatestOf
    <3>4. Max(S) \in 1 .. k + 1 /\ k + 1 <= Max(S)
      BY <3>2, <3>3
    <3>5. Max(S) = k + 1
      BY <1>1, <3>4
    <3>6. QED BY <3>2, <3>5 DEF S
  <2>3. ASSUME NEW c \in Chans
        PROVE  /\ c \in DOMAIN new <=> G(c) # {}
               /\ c \in DOMAIN new => new[c] = items[Max(G(c))].samples
    <3>1. CASE c = c0
      BY <2>1, <2>2, <3>1 DEF hit
    <3>2. CASE c # c0
      <4>1. G(c) = H(c)
        BY <1>2, <3>2
      <4>2. QED BY <1>4, <2>1, <3>2, <4>1
    <3>3. QED BY <3>1, <3>2
  <2>4. QED BY <2>3 DEF HoldsHits, G, hit, new
<1>7. QED BY <1>5, <1>6

(* and so for all items.                                                   *)
LEMMA ChannelsHeld ==
    ASSUME NEW items \in Seq(EventItem), NEW apv
    PROVE  LET m == ChannelsOf(items, apv)
           IN  m \in ChannelMap /\ HoldsHits(m, items, apv, Len(items))
<1> DEFINE n == Len(items)
           T == ChannelMap
           step == [x \in (1 .. n) \X T |-> AddHit(x[2], items[x[1]], apv)]
           Is(it) == it = [S \in SUBSET (1 .. n) |->
                             IF S = {} THEN Empty ELSE AddHit(it[S \ {Max(S)}], items[Max(S)], apv)]
           iter == CHOOSE it : Is(it)
<1>1. n \in Nat /\ DOMAIN items = 1 .. n /\ \A k \in 1 .. n : items[k] \in EventItem
  OBVIOUS
<1>2. ChannelsOf(items, apv) = iter[1 .. n]
  BY <1>1 DEF FoldLeft, MapThenFoldSet, ChannelsOf, AddHit
<1>3. Empty \in T /\ DOMAIN Empty = {}
  <2>1. Empty \in [{} -> Seq(Nat)] /\ {} \in SUBSET Chans
    BY DEF Empty
  <2>2. QED BY <2>1 DEF ChannelMap
<1> HIDE DEF n, T
<1>4. step \in [(1 .. n) \X T -> T]
  BY <1>1, ChannelAdded DEF T
<1>5. PICK g \in [SUBSET (1 .. n) -> T] : IsIteration(g, n, Empty, step)
  <2> HIDE DEF step
  <2>1. QED BY <1>1, <1>3, <1>4, IterationExists
<1>6. ASSUME NEW S \in SUBSET (1 .. n)
      PROVE  g[S] = IF S = {} THEN Empty ELSE AddHit(g[S \ {Max(S)}], items[Max(S)], apv)
  <2>1. g[S] = IF S = {} THEN Empty ELSE step[<<Max(S), g[S \ {Max(S)}]>>]
    BY <1>5 DEF IsIteration
  <2>2. S # {} => Max(S) \in 1 .. n /\ g[S \ {Max(S)}] \in T
    BY <1>1, IterationStep
  <2>3. QED BY <2>1, <2>2
<1>7. Is(iter)
  <2>1. Is(g)
    BY <1>6
  <2> HIDE DEF Is
  <2>2. QED BY <2>1
<1>8. Iterated(iter, T, n, Empty, step)
  <2> HIDE DEF iter
  <2>1. ASSUME NEW S \in SUBSET (1 .. n), S # {} PROVE Max(S) \in 1 .. n
    BY <1>1, <2>1, GreatestOf
  <2>2. iter[{}] = Empty
    BY <1>7
  <2>3. ASSUME NEW S \in SUBSET (1 .. n), S # {}, iter[S \ {Max(S)}] \in T
        PROVE  iter[S] = step[<<Max(S), iter[S \ {Max(S)}]>>]
    <3>1. iter[S] = AddHit(iter[S \ {Max(S)}], items[Max(S)], apv)
      BY <1>7, <2>3
    <3>2. QED BY <2>1, <2>3, <3>1
  <2> HIDE DEF step
  <2>4. QED BY <1>3, <1>4, <2>2, <2>3 DEF Iterated
<1> DEFINE f == [k \in 0 .. n |-> iter[1 .. k]]
<1> HIDE DEF iter
<1>9. FollowsStep(f, T, n, Empty, step)
  <2> HIDE DEF step
  <2>1. QED BY <1>1, <1>8, IterationFollows
<1>10. f[n] = iter[1 .. n] /\ n \in 0 .. n
  BY <1>1
<1>11. f[0] = Empty /\ \A k \in 0 .. n : f[k] \in T
  BY <1>9 DEF FollowsStep
<1>12. \A k \in 1 .. n : f[k] = step[<<k, f[k - 1]>>]
  BY <1>9 DEF FollowsStep
<1> HIDE DEF f
<1> DEFINE U == {k \in 0 .. n : HoldsHits(f[k], items, apv, k)}
<1>13. 0 \in U
  <2>1. \A c : HitsOf(items, apv, c, 0) = {}
    BY DEF HitsOf
  <2>2. 0 \in 0 .. n
    BY <1>1
  <2>3. QED BY <1>3, <1>11, <2>1, <2>2 DEF HoldsHits
<1>14. ASSUME NEW k \in 0 .. n - 1, k \in U PROVE k + 1 \in U
  <2>1. k + 1 \in 1 .. n /\ k + 1 \in 0 .. n /\ (k + 1) - 1 = k
    BY <1>1
  <2>2. f[k] \in T /\ k \in 0 .. n
    BY <1>11, <1>14
  <2>3. f[k + 1] = step[<<k + 1, f[k]>>]
    BY <1>12, <2>1
  <2>4. f[k + 1] = AddHit(f[k], items[k + 1], apv)
    BY <2>1, <2>2, <2>3
  <2>5. HoldsHits(f[k], items, apv, k)
    BY <1>14
  <2>6. HoldsHits(f[k + 1], items, apv, k + 1)
    BY <2>2, <2>4, <2>5, HitHeld DEF T, n
  <2>7. QED BY <2>1, <2>6
<1>15. n \in U
  <2> HIDE DEF U
  <2>1. 0 .. n \subseteq U
    BY <1>1, <1>13, <1>14, IntervalByInduction
  <2>2. QED BY <1>10, <2>1
<1>16. f[n] \in T /\ HoldsHits(f[n], items, apv, n)
  BY <1>10, <1>11, <1>15
<1>17. QED BY <1>2, <1>10, <1>16 DEF T, n

(* What group_by_apv reads of a channel are the samples of its last item.  *)
LEMMA ChannelsAre ==
    ASSUME NEW items \in Seq(EventItem), NEW apv
    PROVE  LET m == ChannelsOf(items, apv)
           IN  /\ DOMAIN m \subseteq Chans
               /\ \A c \in Chans : At(m, c, <<>>) = SamplesOf(items, apv, c)
               /\ \A k \in DOMAIN items : items[k].apv = apv => DOMAIN m # {}
<1> DEFINE m == ChannelsOf(items, apv)
           n == Len(items)
<1>1. m \in ChannelMap /\ HoldsHits(m, items, apv, n)
  BY ChannelsHeld
<1> HIDE DEF m
<1>2. DOMAIN m \subseteq Chans
  BY <1>1 DEF ChannelMap
<1>3. DOMAIN items = 1 .. n /\ \A k \in 1 .. n : items[k] \in EventItem
  OBVIOUS
<1>4. ASSUME NEW c \in Chans PROVE At(m, c, <<>>) = SamplesOf(items, apv, c)
  <2> DEFINE S == HitsOf(items, apv, c, n)
  <2>1. SamplesOf(items, apv, c) = IF S = {} THEN <<>> ELSE items[Max(S)].samples
    BY <1>3 DEF SamplesOf, HitsOf
  <2>2. /\ c \in DOMAIN m <=> S # {}
        /\ c \in DOMAIN m => m[c] = items[Max(S)].samples
    BY <1>1 DEF HoldsHits
  <2> HIDE DEF S
  <2>3. QED BY <2>1, <2>2 DEF At
<1>5. ASSUME NEW k \in DOMAIN items, items[k].apv = apv PROVE DOMAIN m # {}
  <2> DEFINE c == Correction[items[k].ch]
  <2>1. c \in Chans
    BY <1>3, CorrectedIs
  <2>2. k \in HitsOf(items, apv, c, n)
    BY <1>3, <1>5 DEF HitsOf
  <2> HIDE DEF c
  <2>3. c \in DOMAIN m
    BY <1>1, <2>1, <2>2 DEF HoldsHits
  <2>4. QED BY <2>3
<1>6. QED BY <1>2, <1>4, <1>5 DEF m

-----------------------------------------------------------------------------
(* The block of an APV in group_by_apv.                                    *)
BlockBins(channels) == Max({Len(channels[c]) : c \in DOMAIN channels})
BlockOf(channels) ==
    [i \in 1 .. BlockBins(channels) * ChannelsCount |->
        LET c == (i - 1) % ChannelsCount
            s == At(channels, c, <<>>)
            t == ((i - 1) \div ChannelsCount) + 1
        IN  IF t \in DOMAIN s THEN s[t] ELSE 0]

(* As many bins as the longest channel has samples.                        *)
LEMMA BinsAreLongest ==
    ASSUME NEW items \in Seq(EventItem), NEW apv, NEW k0 \in DOMAIN items, items[k0].apv = apv
    PROVE  BlockBins(ChannelsOf(items, apv)) = Max({Len(SamplesOf(items, apv, c)) : c \in Chans})
           /\ BlockBins(ChannelsOf(items, apv)) \in Nat
<1> DEFINE m == ChannelsOf(items, apv)
           s(c) == SamplesOf(items, apv, c)
           L == {Len(m[c]) : c \in DOMAIN m}
           A == {Len(s(c)) : c \in Chans}
<1>1. DOMAIN m \subseteq Chans /\ DOMAIN m # {} /\ \A c \in Chans : At(m, c, <<>>) = s(c)
  BY ChannelsAre
<1>2. \A c \in Chans : Len(s(c)) \in Nat
  BY SamplesAre
<1>3. \A c \in Chans : /\ c \in DOMAIN m => m[c] = s(c)
                       /\ c \notin DOMAIN m => Len(s(c)) = 0
  <2>1. Len(<<>>) = 0
    OBVIOUS
  <2> HIDE DEF m, s
  <2>2. QED BY <1>1, <2>1 DEF At
<1>4. TimeBins(items, apv) \in Seq(ChannelRow)
  BY TimeBinsAre
<1>5. PICK b \in Nat : \A c \in Chans : Len(s(c)) <= b
  BY SamplesBounded
<1>6. BlockBins(m) = Max(L)
  BY DEF BlockBins
<1> HIDE DEF s, m
<1>7. L \in SUBSET (0 .. b) /\ L # {} /\ A \in SUBSET (0 .. b) /\ A # {}
  <2>1. \A c \in Chans : Len(s(c)) \in 0 .. b
    BY <1>2, <1>5
  <2>2. A \subseteq 0 .. b
    BY <2>1
  <2>3. \A c \in DOMAIN m : Len(m[c]) \in 0 .. b
    BY <1>1, <1>3, <2>1
  <2>4. L \subseteq 0 .. b
    BY <2>3
  <2>5. PICK c \in DOMAIN m : TRUE
    BY <1>1
  <2>6. Len(m[c]) \in L /\ Len(s(c)) \in A
    BY <1>1, <2>5
  <2>7. QED BY <2>2, <2>4, <2>6
<1>8. Max(L) \in L /\ Max(A) \in A /\ (\A x \in L : x <= Max(L)) /\ \A x \in A : x <= Max(A)
  <2> HIDE DEF L, A
  <2>1. QED BY <1>7, GreatestBelow
<1>9. L \subseteq A
  BY <1>1, <1>3
<1>10. PICK c \in Chans : Max(A) = Len(s(c))
  BY <1>8
<1>11. Max(A) <= Max(L)
  <2>1. CASE c \in DOMAIN m
    <3>1. Len(s(c)) \in L
      BY <1>3, <2>1
    <3>2. QED BY <1>8, <1>10, <3>1
  <2>2. CASE c \notin DOMAIN m
    <3>1. Max(A) = 0 /\ Max(L) \in 0 .. b
      BY <1>3, <1>7, <1>8, <1>10, <2>2
    <3>2. QED BY <3>1
  <2>3. QED BY <2>1, <2>2
<1>12. Max(L) \in 0 .. b /\ Max(A) \in 0 .. b /\ Max(L) <= Max(A)
  BY <1>7, <1>8, <1>9
<1> HIDE DEF L, A
<1>13. Max(L) = Max(A) /\ Max(L) \in Nat
  BY <1>11, <1>12
<1>14. QED BY <1>6, <1>13 DEF m, A, s

(* The place of a channel in the block of its time bin.                    *)
LEMMA PlaceInBlock ==
    ASSUME NEW m \in Nat \ {0}, NEW t \in Nat, NEW c \in 0 .. m - 1
    PROVE  (t * m + c) \div m = t /\ (t * m + c) % m = c
<1> DEFINE j == t * m + c
           q == j \div m
           r == j % m
<1>0. t * m \in Nat
  OBVIOUS
<1> DEFINE tm == t * m
<1>1. q \in Int /\ r \in 0 .. m - 1 /\ j = m * q + r /\ j = tm + c /\ tm \in Nat
  BY <1>0
<1> HIDE DEF q, r, j
<1>2. m * q - tm = c - r /\ c - r < m /\ c - r > -m
  <2> DEFINE mq == m * q
  <2>1. mq \in Int
    BY <1>1
  <2> HIDE DEF mq, tm
  <2>2. QED BY <1>1, <2>1 DEF mq
<1>3. q = t
  <2> DEFINE d == q - t
  <2>1. d \in Int /\ m * d = m * q - tm
    BY <1>1
  <2> HIDE DEF d, tm
  <2>2. d < 1
    <3>1. SUFFICES ASSUME d >= 1 PROVE FALSE
      BY <2>1
    <3>2. m * d >= m
      BY <2>1, <3>1
    <3>3. QED BY <1>2, <2>1, <3>2
  <2>3. d > -1
    <3>1. SUFFICES ASSUME d <= -1 PROVE FALSE
      BY <2>1
    <3>2. m * d <= -m
      BY <2>1, <3>1
    <3>3. QED BY <1>2, <2>1, <3>2
  <2>4. d = 0
    BY <2>1, <2>2, <2>3
  <2>5. QED BY <1>1, <2>4 DEF d
<1>4. m * q = tm
  BY <1>3
<1>5. r = c
  BY <1>1, <1>2, <1>4
<1>6. QED BY <1>3, <1>5 DEF q, r, j

(* It is in the block, and its bin and channel can be read off it.         *)
LEMMA InBlock ==
    ASSUME NEW m \in Nat \ {0}, NEW n \in Nat, NEW t \in 1 .. n, NEW c1 \in 1 .. m
    PROVE  /\ (t - 1) * m + c1 \in 1 .. n * m
           /\ (((t - 1) * m + c1) - 1) \div m = t - 1
           /\ (((t - 1) * m + c1) - 1) % m = c1 - 1
<1> DEFINE u == t - 1
           v == n - t
           um == u * m
           vm == v * m
<1>1. u \in Nat /\ v \in Nat /\ c1 - 1 \in 0 .. m - 1
  OBVIOUS
<1>2. um \in Nat /\ vm \in Nat /\ n * m = um + m + vm
  <2>1. um \in Nat /\ vm \in Nat
    BY <1>1
  <2>2. n * m = (u + 1 + v) * m
    OBVIOUS
  <2> HIDE DEF u, v
  <2>3. (u + 1 + v) * m = u * m + m + v * m
    BY <1>1
  <2>4. QED BY <2>1, <2>2, <2>3
<1>3. (um + (c1 - 1)) \div m = u /\ (um + (c1 - 1)) % m = c1 - 1
  <2> HIDE DEF u
  <2>1. QED BY <1>1, PlaceInBlock
<1> DEFINE nm == n * m
<1>4. nm = um + m + vm
  BY <1>2
<1> HIDE DEF um, vm, nm
<1>5. (um + c1) - 1 = um + (c1 - 1) /\ um + c1 \in 1 .. nm
  BY <1>2, <1>4
<1>6. QED BY <1>3, <1>5 DEF um, nm

(* The block has the rows of the factory, one behind the other.            *)
LEMMA BlockIs ==
    ASSUME NEW items \in Seq(EventItem), NEW apv, NEW k0 \in DOMAIN items, items[k0].apv = apv
    PROVE  LET block == BlockOf(ChannelsOf(items, apv))
               bins == TimeBins(items, apv)
           IN  /\ Len(block) \div ChannelsCount = Len(bins)
               /\ \A t \in 1 .. Len(bins) : \A c1 \in 1 .. ChannelsCount :
                     block[(t - 1) * ChannelsCount + c1] = bins[t][c1]
<1> DEFINE m == ChannelsCount
           ch == ChannelsOf(items, apv)
           n == BlockBins(ch)
           s(c) == SamplesOf(items, apv, c)
           at(i) == IF ((i - 1) \div m) + 1 \in DOMAIN At(ch, (i - 1) % m, <<>>)
                    THEN At(ch, (i - 1) % m, <<>>)[((i - 1) \div m) + 1] ELSE 0
           block == [i \in 1 .. n * m |-> at(i)]
           row(t) == [c1 \in 1 .. m |-> IF t <= Len(s(c1 - 1)) THEN s(c1 - 1)[t] ELSE 0]
           bins == [t \in 1 .. n |-> row(t)]
<1>1. n \in Nat /\ n = Max({Len(s(c)) : c \in Chans})
  BY BinsAreLongest
<1>2. m \in Nat \ {0} /\ Chans = 0 .. m - 1
  BY GemReconAssumption DEF Chans
<1>3. BlockOf(ch) = block
  BY DEF BlockOf
<1>4. TimeBins(items, apv) = bins
  <2> HIDE DEF n
  <2>1. QED BY <1>1 DEF TimeBins
<1>5. \A c \in Chans : At(ch, c, <<>>) = s(c) /\ s(c) \in Seq(Nat)
  BY ChannelsAre, SamplesAre
<1> HIDE DEF n, ch, s
<1>6. ASSUME NEW t \in 1 .. n, NEW c1 \in 1 .. m
      PROVE  block[(t - 1) * m + c1] = bins[t][c1]
  <2> DEFINE i == (t - 1) * m + c1
             x == s(c1 - 1)
  <2>1. i \in 1 .. n * m /\ (i - 1) \div m = t - 1 /\ (i - 1) % m = c1 - 1
    <3> HIDE DEF m
    <3>1. m \in Nat \ {0} /\ n \in Nat /\ t \in 1 .. n /\ c1 \in 1 .. m
      BY <1>1, <1>2
    <3>2. QED BY <3>1, InBlock
  <2>2. c1 - 1 \in Chans /\ (t - 1) + 1 = t /\ t \in Nat \ {0}
    BY <1>1, <1>2
  <2>3. At(ch, c1 - 1, <<>>) = x /\ x \in Seq(Nat)
    BY <1>5, <2>2
  <2>4. DOMAIN x = 1 .. Len(x) /\ Len(x) \in Nat
    BY <2>3
  <2>5. t \in DOMAIN x <=> t <= Len(x)
    BY <2>2, <2>4
  <2>6. at(i) = IF t \in DOMAIN x THEN x[t] ELSE 0
    <3> HIDE DEF i, x
    <3>1. QED BY <2>1, <2>2, <2>3
  <2>7. bins[t][c1] = IF t <= Len(x) THEN x[t] ELSE 0
    OBVIOUS
  <2>8. block[i] = at(i)
    <3> HIDE DEF at, i
    <3>1. QED BY <2>1
  <2> HIDE DEF at, x, block, bins
  <2>9. QED BY <2>5, <2>6, <2>7, <2>8
<1>7. Len(bins) = n
  <2> HIDE DEF row
  <2>1. QED BY <1>1
<1>8. Len(block) = n * m
  <2>1. n * m \in Nat
    BY <1>1, <1>2
  <2> HIDE DEF at
  <2>2. QED BY <2>1
<1>9. (n * m) \div m = n
  <2>1. 0 \in 0 .. m - 1 /\ n * m + 0 = n * m
    BY <1>1, <1>2
  <2>2. (n * m + 0) \div m = n
    BY <1>1, <1>2, <2>1, PlaceInBlock
  <2>3. QED BY <2>1, <2>2
<1> HIDE DEF block, bins
<1>10. QED BY <1>3, <1>4, <1>6, <1>7, <1>8, <1>9 DEF ch

-----------------------------------------------------------------------------
Total(s) == FoldLeft(LAMBDA a, x : a + x, 0, s)
(* ped is the pedestal of a chip in the form gemreco has it.               *)
SamePedestal(ped, pedestal) ==
    /\ ped.offsets = [c \in 1 .. ChannelsCount |-> pedestal[c].offset]
    /\ ped.noises = [c \in 1 .. ChannelsCount |-> pedestal[c].noise]

(* decode_apv_adc takes off the same as the factory.                       *)
LEMMA DecodedAlike ==
    ASSUME NEW bins \in Seq(ChannelRow), NEW pedestal, OffsetsKnown(pedestal),
           NEW block, Len(block) \div ChannelsCount = Len(bins),
           \A t \in 1 .. Len(bins) : \A c1 \in 1 .. ChannelsCount :
               block[(t - 1) * ChannelsCount + c1] = bins[t][c1],
           NEW ped, SamePedestal(ped, pedestal)
    PROVE  decode_apv_adc(block, ped) = DecodeApv(bins, pedestal)
<1> DEFINE n == Len(bins)
           raw(t, c) == block[(t - 1) * ChannelsCount + c]
           values(t) == [c \in 1 .. ChannelsCount |-> raw(t, c) - ped.offsets[c]]
           index(t, v) == Max({c \in 1 .. ChannelsCount : values(t)[c] = v})
           place(t, c) == Cardinality({d \in 1 .. ChannelsCount :
                              \/ values(t)[d] < values(t)[c]
                              \/ values(t)[d] = values(t)[c] /\ d <= c})
           data_test(t) == [c \in 1 .. ChannelsCount |->
               IF place(t, c) <= ComModeCut THEN Baseline - ped.offsets[index(t, values(t)[c])]
               ELSE values(t)[c]]
           common_mode(t) == Total(data_test(t)) \div ChannelsCount
           offsets == [t \in 1 .. n |-> common_mode(t)]
           at(t, c) == -(raw(t, c) - ped.offsets[c] - offsets[t])
<1>1. ChannelsCount \in Nat \ {0} /\ Len(ped.offsets) = ChannelsCount /\ Len(ped.noises) = ChannelsCount
      /\ \A c \in 1 .. ChannelsCount : ped.offsets[c] = pedestal[c].offset
  <2>1. ChannelsCount \in Nat \ {0}
    BY GemReconAssumption
  <2>2. QED BY <2>1 DEF SamePedestal
<1>2. decode_apv_adc(block, ped) = [t \in 1 .. n |-> [c \in 1 .. ChannelsCount |-> at(t, c)]]
  BY <1>1 DEF decode_apv_adc, Total
<1>3. n \in Nat /\ DOMAIN bins = 1 .. n /\ \A t \in 1 .. n : bins[t] \in ChannelRow
  OBVIOUS
<1> HIDE DEF raw, n
<1>4. ASSUME NEW t \in 1 .. n PROVE common_mode(t) = CommonMode(bins[t], pedestal)
  <2> DEFINE row == bins[t]
             value == [c1 \in DOMAIN row |-> row[c1] - pedestal[c1].offset]
             last(v) == Max({c1 \in DOMAIN value : value[c1] = v})
             spot(c1) == Cardinality({d1 \in DOMAIN value :
                             value[d1] < value[c1] \/ (value[d1] = value[c1] /\ d1 <= c1)})
             test == [c1 \in DOMAIN value |->
                        IF spot(c1) <= ComModeCut THEN Baseline - pedestal[last(value[c1])].offset
                        ELSE value[c1]]
  <2>1. CommonMode(bins[t], pedestal) = Total(test) \div ChannelsCount
    BY DEF CommonMode, Total
  <2>2. DOMAIN row = 1 .. ChannelsCount /\ \A c \in 1 .. ChannelsCount : raw(t, c) = row[c]
    BY <1>3 DEF ChannelRow, raw, n
  <2>3. values(t) = value /\ DOMAIN value = 1 .. ChannelsCount
    BY <1>1, <2>2
  <2> HIDE DEF values, value
  <2>4. data_test(t) = test
    <3>1. ASSUME NEW c \in 1 .. ChannelsCount
          PROVE  place(t, c) = spot(c) /\ index(t, values(t)[c]) = last(value[c])
                 /\ last(value[c]) \in 1 .. ChannelsCount
      <4> DEFINE S == {c1 \in DOMAIN value : value[c1] = value[c]}
      <4>1. S \in SUBSET (1 .. ChannelsCount) /\ c \in S
        BY <2>3
      <4>2. Max(S) \in 1 .. ChannelsCount
        <5> HIDE DEF S
        <5>1. ChannelsCount \in Nat /\ S # {}
          BY <1>1, <4>1
        <5>2. QED BY <4>1, <5>1, GreatestOf
      <4>3. QED BY <2>3, <4>2
    <3>2. test = [c \in 1 .. ChannelsCount |-> test[c]]
      BY <2>3
    <3>3. data_test(t) = [c \in 1 .. ChannelsCount |-> data_test(t)[c]]
      OBVIOUS
    <3>4. ASSUME NEW c \in 1 .. ChannelsCount PROVE data_test(t)[c] = test[c]
      <4> DEFINE v == values(t)[c]
                 w == value[c]
      <4>1. data_test(t)[c] = IF place(t, c) <= ComModeCut THEN Baseline - ped.offsets[index(t, v)] ELSE v
        OBVIOUS
      <4>2. test[c] = IF spot(c) <= ComModeCut THEN Baseline - pedestal[last(w)].offset ELSE w
        BY <2>3
      <4>3. v = w /\ place(t, c) = spot(c) /\ index(t, v) = last(w) /\ last(w) \in 1 .. ChannelsCount
        BY <2>3, <3>1
      <4> HIDE DEF place, spot, index, last, v, w, data_test, test
      <4>4. ped.offsets[index(t, v)] = pedestal[last(w)].offset
        BY <1>1, <4>3
      <4>5. QED BY <4>1, <4>2, <4>3, <4>4
    <3> HIDE DEF data_test, test
    <3>5. QED BY <3>2, <3>3, <3>4
  <2> HIDE DEF data_test, test, Total
  <2>5. QED BY <2>1, <2>4
<1> HIDE DEF common_mode
<1>5. ASSUME NEW t \in 1 .. n, NEW c \in 1 .. ChannelsCount
      PROVE  at(t, c) = -(bins[t][c] - pedestal[c].offset - CommonMode(bins[t], pedestal))
  BY <1>1, <1>4, <1>5 DEF raw, n
<1> HIDE DEF at
<1>6. QED BY <1>2, <1>3, <1>5 DEF DecodeApv

(* The pedestals of a slot in the form gemreco has them.                   *)
ForGemreco(pedestal) ==
    [apv \in DOMAIN pedestal |->
        [offsets |-> [c \in 1 .. ChannelsCount |-> pedestal[apv][c].offset],
         noises  |-> [c \in 1 .. ChannelsCount |-> pedestal[apv][c].noise]]]

(* A row is decoded of each time bin.                                      *)
LEMMA DecodedRows ==
    ASSUME NEW bins \in Seq(ChannelRow), NEW pedestal, OffsetsKnown(pedestal)
    PROVE  /\ DecodeApv(bins, pedestal) \in Seq(ChannelRow)
           /\ DecodeApv(bins, pedestal) = <<>> <=> bins = <<>>
<1> DEFINE d == DecodeApv(bins, pedestal)
           n == Len(bins)
<1>1. d \in [1 .. n -> ChannelRow]
  BY ApvDecoded
<1>2. n \in Nat /\ (n = 0 <=> bins = <<>>)
  OBVIOUS
<1> HIDE DEF d, n
<1>3. d \in Seq(ChannelRow) /\ Len(d) = n
  BY <1>1, <1>2
<1>4. d = <<>> <=> n = 0
  BY <1>2, <1>3
<1>5. QED BY <1>2, <1>3, <1>4 DEF d

(* What the first four stages of gemreco have is what the factory made.    *)
DataOf(decoded) == [apv \in DOMAIN decoded |-> decoded[apv].data]

LEMMA DecodedByBoth ==
    ASSUME NEW items \in Seq(EventItem), NEW pedestal, pedestal # None,
           HasOffsets(pedestal, RawData(items)), NEW cfg, DOMAIN cfg.apvs = Mapped
    PROVE  reconstruct(items, cfg, ForGemreco(pedestal))
               = merge_planes(DataOf(ApvDecodedData(RawData(items), pedestal)),
                              ForGemreco(pedestal), cfg)
<1> DEFINE raw == RawData(items)
           peds == ForGemreco(pedestal)
           grouped == group_by_apv(items, cfg)
           all == [apv \in DOMAIN grouped \cap DOMAIN peds |->
                      decode_apv_adc(grouped[apv], peds[apv])]
           rows(apv) == DecodeApv(raw[apv], pedestal[apv])
           mine == [apv \in {a \in DOMAIN all : all[a] # <<>>} |-> all[apv]]
           decoded == ApvDecodedData(raw, pedestal)
<1>1. reconstruct(items, cfg, peds) = merge_planes(mine, peds, cfg)
  BY DEF reconstruct
<1>2. DOMAIN raw = {items[k].apv : k \in DOMAIN items} \cap Mapped
      /\ \A apv \in DOMAIN raw : raw[apv] = TimeBins(items, apv)
  BY DEF RawData
<1>3. grouped = [apv \in {items[k].apv : k \in DOMAIN items} \cap DOMAIN cfg.apvs |->
                    BlockOf(ChannelsOf(items, apv))]
  BY DEF group_by_apv, BlockOf, BlockBins, ChannelsOf
<1>4. DOMAIN peds = DOMAIN raw /\ DOMAIN pedestal = DOMAIN raw
      /\ \A apv \in DOMAIN raw : SamePedestal(peds[apv], pedestal[apv]) /\ OffsetsKnown(pedestal[apv])
  <2>1. DOMAIN pedestal = DOMAIN raw /\ \A apv \in DOMAIN raw : OffsetsKnown(pedestal[apv])
    BY DEF HasOffsets
  <2> HIDE DEF raw
  <2>2. QED BY <2>1 DEF ForGemreco, SamePedestal
<1>5. decoded = [apv \in {a \in DOMAIN raw : raw[a] # <<>>} |->
                   [ids |-> <<apv>>, data |-> rows(apv),
                    noise |-> [c1 \in 1 .. ChannelsCount |-> pedestal[apv][c1].noise]]]
  BY DEF ApvDecodedData
<1> HIDE DEF peds, grouped, raw, decoded
<1>6. DOMAIN grouped = DOMAIN raw
  BY <1>2, <1>3
<1>7. DOMAIN all = DOMAIN raw
  BY <1>4, <1>6
<1>8. ASSUME NEW apv \in DOMAIN raw
      PROVE  /\ all[apv] = rows(apv)
             /\ all[apv] = <<>> <=> raw[apv] = <<>>
  <2> DEFINE block == BlockOf(ChannelsOf(items, apv))
  <2>1. PICK k \in DOMAIN items : items[k].apv = apv
    BY <1>2
  <2>2. raw[apv] = TimeBins(items, apv) /\ raw[apv] \in Seq(ChannelRow)
    BY <1>2, TimeBinsAre
  <2>3. /\ Len(block) \div ChannelsCount = Len(raw[apv])
        /\ \A t \in 1 .. Len(raw[apv]) : \A c1 \in 1 .. ChannelsCount :
              block[(t - 1) * ChannelsCount + c1] = raw[apv][t][c1]
    BY <2>1, <2>2, BlockIs
  <2>4. grouped[apv] = block
    BY <1>3, <1>6
  <2> HIDE DEF block
  <2>5. decode_apv_adc(block, peds[apv]) = rows(apv)
    BY <1>4, <2>2, <2>3, DecodedAlike
  <2>6. all[apv] = rows(apv)
    BY <1>4, <1>6, <2>4, <2>5
  <2>7. rows(apv) = <<>> <=> raw[apv] = <<>>
    BY <1>4, <2>2, DecodedRows
  <2> HIDE DEF all, rows
  <2>8. QED BY <2>6, <2>7
<1> HIDE DEF all, rows
<1>9. mine = DataOf(decoded)
  <2>1. {a \in DOMAIN all : all[a] # <<>>} = DOMAIN decoded
    BY <1>5, <1>7, <1>8
  <2>2. ASSUME NEW apv \in DOMAIN decoded PROVE all[apv] = decoded[apv].data
    <3>1. apv \in DOMAIN raw
      BY <1>5
    <3>2. decoded[apv].data = rows(apv)
      BY <1>5
    <3>3. QED BY <1>8, <3>1, <3>2
  <2> HIDE DEF decoded
  <2>3. QED BY <2>1, <2>2 DEF DataOf
<1> HIDE DEF mine
<1>10. QED BY <1>1, <1>9 DEF decoded, raw, peds

-----------------------------------------------------------------------------
(* The columns of one chip,                                                *)
LEMMA FlattenedOne ==
    ASSUME NEW x
    PROVE  FlattenSeq(<<x>>) = x
<1> DEFINE Is(f) == f = [i \in 1 .. 1 |-> IF i = 1 THEN <<x>>[i] ELSE f[i - 1] \o <<x>>[i]]
           flatten == CHOOSE f : Is(f)
           g == [i \in 1 .. 1 |-> x]
<1>1. Len(<<x>>) = 1 /\ <<x>>[1] = x /\ \A i \in 1 .. 1 : i = 1
  OBVIOUS
<1>2. FlattenSeq(<<x>>) = flatten[1]
  BY <1>1 DEF FlattenSeq
<1>3. Is(g)
  BY <1>1
<1>4. Is(flatten)
  <2> HIDE DEF Is
  <2>1. QED BY <1>3
<1> HIDE DEF flatten
<1>5. flatten[1] = x
  BY <1>1, <1>4
<1>6. QED BY <1>2, <1>5

(* and those of two chips.                                                 *)
LEMMA FlattenedTwo ==
    ASSUME NEW x, NEW y
    PROVE  FlattenSeq(<<x, y>>) = x \o y
<1> DEFINE s == <<x, y>>
           Is(f) == f = [i \in 1 .. 2 |-> IF i = 1 THEN s[i] ELSE f[i - 1] \o s[i]]
           flatten == CHOOSE f : Is(f)
           xy == x \o y
           g == [i \in 1 .. 2 |-> IF i = 1 THEN x ELSE xy]
<1>1. Len(s) = 2 /\ s[1] = x /\ s[2] = y /\ \A i \in 1 .. 2 : i = 1 \/ i = 2
  OBVIOUS
<1>2. FlattenSeq(s) = flatten[2]
  BY <1>1 DEF FlattenSeq
<1> HIDE DEF s
<1>3. Is(g)
  <2>1. g[1] = x /\ g[2] = xy
    BY <1>1
  <2>2. g = [i \in 1 .. 2 |-> g[i]]
    OBVIOUS
  <2>3. g[1] \o s[2] = xy
    BY <1>1, <2>1
  <2> HIDE DEF g, xy
  <2>4. ASSUME NEW i \in 1 .. 2 PROVE g[i] = IF i = 1 THEN s[i] ELSE g[i - 1] \o s[i]
    <3>1. CASE i = 1
      BY <1>1, <2>1, <3>1
    <3>2. CASE i = 2
      <4>1. i - 1 = 1 /\ i # 1
        BY <3>2
      <4>2. QED BY <2>1, <2>3, <3>2, <4>1
    <3>3. QED BY <1>1, <3>1, <3>2
  <2>5. QED BY <2>2, <2>4
<1>4. Is(flatten)
  <2> HIDE DEF Is
  <2>1. QED BY <1>3
<1> HIDE DEF flatten
<1>5. flatten[2] = flatten[1] \o y /\ flatten[1] = x
  <2>1. 1 \in 1 .. 2 /\ 2 \in 1 .. 2 /\ 2 - 1 = 1 /\ 2 # 1
    OBVIOUS
  <2>2. flatten[1] = s[1]
    BY <1>4, <2>1
  <2>3. flatten[2] = flatten[2 - 1] \o s[2]
    BY <1>4, <2>1
  <2>4. QED BY <1>1, <2>1, <2>2, <2>3
<1>6. QED BY <1>2, <1>5 DEF s

(* The chips are decoded, each with the noise of its pedestal.             *)
DecodesWith(decoded, peds) ==
    /\ Decodes(decoded)
    /\ \A a \in DOMAIN decoded :
          a \in DOMAIN peds /\ decoded[a].noise = peds[a].noises /\ decoded[a].data # <<>>

(* What merge_planes puts in the place of a chip.                          *)
LEMMA PartsAlike ==
    ASSUME NEW decoded, NEW peds, DecodesWith(decoded, peds), NEW a, NEW bins \in Nat
    PROVE  LET dec == DataOf(decoded)
               ok == [b \in {d \in DOMAIN dec : Len(dec[d]) = bins} |-> dec[b]]
               part == GetApvDataOrZeros(decoded, a, bins)
           IN  /\ \A t \in 1 .. bins : Columns(ok, a, t) = part.data[t]
               /\ (IF a \in DOMAIN ok \cap DOMAIN peds THEN peds[a].noises ELSE ZeroRow) = part.noise
<1> DEFINE dec == DataOf(decoded)
           ok == [b \in {d \in DOMAIN dec : Len(dec[d]) = bins} |-> dec[b]]
           part == GetApvDataOrZeros(decoded, a, bins)
<1>1. DOMAIN dec = DOMAIN decoded /\ \A b \in DOMAIN decoded : dec[b] = decoded[b].data
  BY DEF DataOf
<1> HIDE DEF dec
<1>2. DOMAIN ok = {d \in DOMAIN decoded : Len(decoded[d].data) = bins}
      /\ \A b \in DOMAIN ok : ok[b] = decoded[b].data
  BY <1>1
<1> HIDE DEF ok
<1>3. CASE a \in DOMAIN ok
  <2>1. part = decoded[a] /\ a \in DOMAIN decoded
    BY <1>2, <1>3 DEF GetApvDataOrZeros
  <2>2. a \in DOMAIN peds /\ decoded[a].noise = peds[a].noises
    BY <2>1 DEF DecodesWith
  <2> HIDE DEF part
  <2>3. QED BY <1>2, <1>3, <2>1, <2>2 DEF Columns, ok, dec, part
<1>4. CASE a \notin DOMAIN ok
  <2>1. part = Zeros(a, bins)
    BY <1>2, <1>4 DEF GetApvDataOrZeros
  <2>2. part.noise = ZeroRow /\ \A t \in 1 .. bins : part.data[t] = ZeroRow
    BY <2>1 DEF Zeros, ZeroRow
  <2> HIDE DEF part
  <2>3. QED BY <1>4, <2>2 DEF Columns, ok, dec, part
<1>5. QED BY <1>3, <1>4

ForPlane(plane) == [data |-> plane.data, noises |-> plane.noise]

(* A plane is merged of the same parts.                                    *)
LEMMA MergedAlike ==
    ASSUME NEW decoded, NEW peds, DecodesWith(decoded, peds),
           NEW cfg, NEW p \in DOMAIN cfg.planes,
           cfg.planes[p].apv_ids \in [1 .. 1 -> Nat] \cup [1 .. 2 -> Nat]
    PROVE  merge_planes(DataOf(decoded), peds, cfg)[p]
               = ForPlane(PlaneOf(decoded, cfg.planes[p].apv_ids))
<1> DEFINE ids == cfg.planes[p].apv_ids
           dec == DataOf(decoded)
           present == {k \in DOMAIN ids : ids[k] \in DOMAIN dec}
           bins == IF present = {} THEN 0 ELSE Len(dec[ids[Min(present)]])
           ok == [a \in {b \in DOMAIN dec : Len(dec[b]) = bins} |-> dec[a]]
           noises(a) == IF a \in DOMAIN ok \cap DOMAIN peds THEN peds[a].noises ELSE ZeroRow
           columns(t) == [k \in DOMAIN ids |-> Columns(ok, ids[k], t)]
           every == [k \in DOMAIN ids |-> noises(ids[k])]
           plane == PlaneOf(decoded, ids)
           part(k) == GetApvDataOrZeros(decoded, ids[k], bins)
<1>1. merge_planes(dec, peds, cfg)[p]
          = [data |-> [t \in 1 .. bins |-> FlattenSeq(columns(t))],
             noises |-> IF bins = 0 THEN <<>> ELSE FlattenSeq(every)]
  BY DEF merge_planes
<1>2. present = Present(decoded, ids) /\ Decodes(decoded)
      /\ DOMAIN dec = DOMAIN decoded /\ \A b \in DOMAIN decoded : dec[b] = decoded[b].data
  BY DEF Present, DataOf, DecodesWith
<1>3. ids \in [1 .. 1 -> Nat] \cup [1 .. 2 -> Nat]
  OBVIOUS
<1> HIDE DEF ids
<1>4. SUFFICES /\ plane.data = [t \in 1 .. bins |-> FlattenSeq(columns(t))]
               /\ plane.noise = IF bins = 0 THEN <<>> ELSE FlattenSeq(every)
  <2> HIDE DEF plane, dec, columns, every, bins
  <2>1. QED BY <1>1, <1>4 DEF ForPlane, plane, ids, dec
<1>5. CASE present = {}
  <2>1. bins = 0 /\ 1 .. 0 = {}
    BY <1>5
  <2>2. plane = NoPlane
    BY <1>2, <1>5 DEF PlaneOf, Present
  <2> HIDE DEF plane, columns, every, bins
  <2>3. [t \in 1 .. bins |-> FlattenSeq(columns(t))] = <<>>
    BY <2>1
  <2>4. QED BY <2>1, <2>2, <2>3 DEF NoPlane
<1>6. CASE present # {}
  <2>1. Min(present) \in present
    <3>1. present \in SUBSET Nat
      BY <1>3
    <3> HIDE DEF present
    <3>2. QED BY <1>6, <3>1, LeastOf
  <2> DEFINE first == ids[Min(present)]
  <2>2. first \in DOMAIN decoded
    BY <1>2, <2>1
  <2>3. bins = Len(decoded[first].data) /\ bins = BinsOf(decoded, ids)
    BY <1>2, <1>6, <2>2 DEF BinsOf
  <2>4. decoded[first].data \in Seq(ChannelRow) /\ decoded[first].data # <<>>
    BY <2>2 DEF DecodesWith, Decodes
  <2> HIDE DEF first
  <2>5. bins \in Nat \ {0}
    <3> DEFINE d == decoded[first].data
    <3>1. d \in Seq(ChannelRow) /\ d # <<>>
      BY <2>4
    <3> HIDE DEF d
    <3>2. Len(d) \in Nat \ {0}
      BY <3>1
    <3> HIDE DEF bins
    <3>3. QED BY <2>3, <3>2 DEF d
  <2>6. /\ ids \in [1 .. 1 -> Nat] => plane = part(1)
        /\ ids \in [1 .. 2 -> Nat] =>
              /\ plane.noise = part(1).noise \o part(2).noise
              /\ plane.data = [t \in 1 .. bins |-> part(1).data[t] \o part(2).data[t]]
    <3> DEFINE Of(k, n) == GetApvDataOrZeros(decoded, ids[k], n)
               Parts(n) ==
                   /\ ids \in [1 .. 1 -> Nat] => plane = Of(1, n)
                   /\ ids \in [1 .. 2 -> Nat] =>
                         /\ plane.noise = Of(1, n).noise \o Of(2, n).noise
                         /\ plane.data = [t \in 1 .. n |-> Of(1, n).data[t] \o Of(2, n).data[t]]
    <3>1. Present(decoded, ids) # {}
      BY <1>2, <1>6
    <3> HIDE DEF bins, present
    <3>2. Parts(BinsOf(decoded, ids))
      <4> DEFINE n == BinsOf(decoded, ids)
      <4>1. Decodes(decoded) /\ Present(decoded, ids) # {}
        BY <1>2, <3>1
      <4>2. ids \in [1 .. 1 -> Nat] => plane = Of(1, n)
        BY ONLY <1>3, <4>1, PlaneOfParts
      <4>3. ids \in [1 .. 2 -> Nat] => plane.noise = Of(1, n).noise \o Of(2, n).noise
        BY ONLY <1>3, <4>1, PlaneOfParts
      <4>4. ids \in [1 .. 2 -> Nat] =>
                plane.data = [t \in 1 .. n |-> Of(1, n).data[t] \o Of(2, n).data[t]]
        BY ONLY <1>3, <4>1, PlaneOfParts
      <4> HIDE DEF Of, plane, n
      <4>5. QED BY <4>2, <4>3, <4>4 DEF n
    <3> HIDE DEF Parts
    <3>3. Parts(bins)
      BY <2>3, <3>2
    <3>4. QED BY <3>3 DEF Parts
  <2>7. \A k \in DOMAIN ids : part(k).data \in [1 .. bins -> ChannelRow]
    <3> HIDE DEF bins
    <3>1. QED BY <1>2, <2>5, PartIs
  <2>8. ASSUME NEW k \in DOMAIN ids
        PROVE  noises(ids[k]) = part(k).noise
               /\ \A t \in 1 .. bins : Columns(ok, ids[k], t) = part(k).data[t]
    <3> HIDE DEF bins
    <3>1. QED BY <2>5, PartsAlike
  <2> HIDE DEF ok, noises, part, plane, bins
  <2>9. every = [k \in DOMAIN ids |-> part(k).noise]
    BY <2>8
  <2>10. ASSUME NEW t \in 1 .. bins PROVE columns(t) = [k \in DOMAIN ids |-> part(k).data[t]]
    BY <2>8
  <2> HIDE DEF every, columns
  <2>11. CASE ids \in [1 .. 1 -> Nat]
    <3>0. DOMAIN ids = 1 .. 1
      BY <2>11
    <3>1. 1 \in DOMAIN ids /\ plane = part(1) /\ part(1).data \in [1 .. bins -> ChannelRow]
      BY <2>6, <2>7, <2>11, <3>0
    <3>2. FlattenSeq(every) = part(1).noise
      <4>1. every = <<part(1).noise>>
        BY <2>9, <3>0
      <4>2. QED BY <4>1, FlattenedOne
    <3>3. ASSUME NEW t \in 1 .. bins PROVE FlattenSeq(columns(t)) = part(1).data[t]
      <4>1. columns(t) = <<part(1).data[t]>>
        BY <2>10, <3>0
      <4>2. QED BY <4>1, FlattenedOne
    <3>4. part(1).data = [t \in 1 .. bins |-> FlattenSeq(columns(t))]
      BY <3>1, <3>3
    <3>5. QED BY <2>5, <3>1, <3>2, <3>4
  <2>12. CASE ids \in [1 .. 2 -> Nat]
    <3>0. DOMAIN ids = 1 .. 2
      BY <2>12
    <3>1. plane.noise = part(1).noise \o part(2).noise
          /\ plane.data = [t \in 1 .. bins |-> part(1).data[t] \o part(2).data[t]]
      BY ONLY <2>6, <2>12, Zenon
    <3>2. FlattenSeq(every) = part(1).noise \o part(2).noise
      <4>1. every = <<part(1).noise, part(2).noise>>
        BY <2>9, <3>0
      <4>2. QED BY <4>1, FlattenedTwo
    <3>3. ASSUME NEW t \in 1 .. bins
          PROVE  FlattenSeq(columns(t)) = part(1).data[t] \o part(2).data[t]
      <4>1. columns(t) = <<part(1).data[t], part(2).data[t]>>
        BY <2>10, <3>0
      <4>2. QED BY <4>1, FlattenedTwo
    <3>4. plane.data = [t \in 1 .. bins |-> FlattenSeq(columns(t))]
      BY <3>1, <3>3
    <3>5. QED BY <2>5, <3>1, <3>2, <3>4
  <2>13. QED BY <1>3, <2>11, <2>12
<1>7. QED BY <1>5, <1>6

-----------------------------------------------------------------------------
ForPlanes(planes) == [p \in DOMAIN planes |-> ForPlane(planes[p])]
SamePlanes(cfg) ==
    /\ DOMAIN cfg.planes = PlanesWithApvs
    /\ \A plane \in PlanesWithApvs : cfg.planes[plane].apv_ids = mapping.apvsOf[plane]

(* A plane without data has no peaks.                                      *)
LEMMA NoPlaneNoPeaks == find_common_peaks(NoPlane.data, NoPlane.noise) = <<>>
<1> DEFINE none == <<>>
           found == find_common_peaks(none, none)
<1>1. NoPlane.data = none /\ NoPlane.noise = none
  BY DEF NoPlane
<1>2. none \in Seq(Seq(Int)) /\ DOMAIN none = {}
  OBVIOUS
<1>3. AllPeaks(none) = {}
  BY <1>2 DEF AllPeaks
<1> HIDE DEF none
<1>4. found \in Seq({})
  BY <1>2, <1>3, CommonPeaksFound
<1> HIDE DEF found
<1>5. found = <<>>
  BY <1>4
<1>6. QED BY <1>1, <1>5 DEF found

(* The peaks of a plane name the same chips.                               *)
LEMMA NamedAlike ==
    ASSUME NEW decoded, Decodes(decoded), NEW apvs, apvs \in [1 .. 1 -> Nat] \cup [1 .. 2 -> Nat]
    PROVE  LET plane == PlaneOf(decoded, apvs)
               found == PeaksOf(ForPlane(plane))
           IN  \A k \in DOMAIN found :
                  NamedApv(plane, found[k].index)
                      = IF found[k].index >= ChannelsCount /\ Len(apvs) > 1 THEN apvs[2] ELSE apvs[1]
<1> DEFINE plane == PlaneOf(decoded, apvs)
           found == PeaksOf(ForPlane(plane))
<1>1. \/ plane = NoPlane
      \/ \E n \in Nat : Chips(plane, decoded, apvs, n)
  BY PlaneIs
<1>2. found = find_common_peaks(plane.data, plane.noise)
  BY DEF PeaksOf, ForPlane
<1> HIDE DEF plane, found
<1>3. CASE plane = NoPlane
  <2>1. DOMAIN found = {}
    BY <1>2, <1>3, NoPlaneNoPeaks
  <2>2. QED BY <2>1 DEF plane, found
<1>4. CASE \E n \in Nat : Chips(plane, decoded, apvs, n)
  <2>1. plane.ids = apvs
    BY <1>4 DEF Chips, OneChip, TwoChips
  <2>2. QED BY <2>1 DEF NamedApv, plane, found
<1>5. QED BY <1>1, <1>3, <1>4

LEMMA PeaksAlike ==
    ASSUME NEW decoded, Decodes(decoded), NEW cfg, SamePlanes(cfg), InPairs, NEW planes, planes # None,
           planes = [p \in PlanesWithApvs |-> PlaneOf(decoded, mapping.apvsOf[p])]
    PROVE  find_plane_peaks(ForPlanes(planes), cfg) = Peaks(planes)
<1> DEFINE all == ForPlanes(planes)
           found(p) == PeaksOf(ForPlane(planes[p]))
           ids(p) == cfg.planes[p].apv_ids
           mine(p) == [k \in DOMAIN found(p) |->
                [index |-> found(p)[k].index, height |-> found(p)[k].height,
                 width |-> found(p)[k].width, area |-> found(p)[k].area, time |-> found(p)[k].time,
                 apv |-> IF found(p)[k].index >= ChannelsCount /\ Len(ids(p)) > 1
                         THEN ids(p)[2] ELSE ids(p)[1]]]
<1>1. DOMAIN planes = PlanesWithApvs /\ DOMAIN cfg.planes = PlanesWithApvs
  BY DEF SamePlanes
<1>2. DOMAIN all = PlanesWithApvs /\ \A p \in PlanesWithApvs : all[p] = ForPlane(planes[p])
  BY <1>1 DEF ForPlanes
<1> HIDE DEF all
<1>3. find_plane_peaks(all, cfg) = [p \in PlanesWithApvs |-> mine(p)]
  <2> DEFINE of(x, i) ==
        LET peaks == PeaksOf(x)
        IN  [k \in DOMAIN peaks |->
                [index |-> peaks[k].index, height |-> peaks[k].height, width |-> peaks[k].width,
                 area |-> peaks[k].area, time |-> peaks[k].time,
                 apv |-> IF peaks[k].index >= ChannelsCount /\ Len(i) > 1 THEN i[2] ELSE i[1]]]
  <2>1. find_plane_peaks(all, cfg) = [p \in DOMAIN all \cap DOMAIN cfg.planes |-> of(all[p], ids(p))]
    BY DEF find_plane_peaks
  <2>2. \A p : of(ForPlane(planes[p]), ids(p)) = mine(p)
    OBVIOUS
  <2>3. DOMAIN all \cap DOMAIN cfg.planes = PlanesWithApvs
    BY <1>1, <1>2
  <2> HIDE DEF of, ids, mine
  <2>4. QED BY <1>2, <2>1, <2>2, <2>3
<1>4. Peaks(planes) = [p \in PlanesWithApvs |-> PlanePeaks(planes[p])]
  BY <1>1 DEF Peaks
<1>5. ASSUME NEW p \in PlanesWithApvs PROVE mine(p) = PlanePeaks(planes[p])
  <2> DEFINE apvs == mapping.apvsOf[p]
             plane == PlaneOf(decoded, apvs)
  <2>1. ids(p) = apvs /\ planes[p] = plane /\ apvs \in [1 .. 1 -> Nat] \cup [1 .. 2 -> Nat]
    BY DEF SamePlanes, InPairs
  <2>2. \A k \in DOMAIN found(p) :
            NamedApv(planes[p], found(p)[k].index)
                = IF found(p)[k].index >= ChannelsCount /\ Len(apvs) > 1 THEN apvs[2] ELSE apvs[1]
    <3> HIDE DEF apvs
    <3>1. QED BY <2>1, NamedAlike
  <2>3. found(p) = find_common_peaks(planes[p].data, planes[p].noise)
    BY DEF PeaksOf, ForPlane
  <2>4. PlanePeaks(planes[p]) = [k \in DOMAIN found(p) |->
            [index |-> found(p)[k].index, height |-> found(p)[k].height,
             width |-> found(p)[k].width, area |-> found(p)[k].area, time |-> found(p)[k].time,
             apv |-> NamedApv(planes[p], found(p)[k].index)]]
    BY <2>3 DEF PlanePeaks
  <2> HIDE DEF found, ids, plane, apvs
  <2>5. QED BY <2>1, <2>2, <2>4
<1> HIDE DEF mine
<1>6. QED BY <1>3, <1>4, <1>5 DEF all

(* The clusters are made of the same peaks.                                *)
LEMMA ClustersAlike ==
    ASSUME NEW cfg, SamePlanes(cfg), NEW planes, planes # None, DOMAIN planes = PlanesWithApvs
    PROVE  match_clusters(ForPlanes(planes), cfg) = Clusters(planes)
<1> DEFINE all == ForPlanes(planes)
           common(p) == find_common_peaks(planes[p].data, planes[p].noise)
           pairs == match_peaks(common(PlaneX), common(PlaneY))
           matched == match_peaks(PeaksOf(all[PlaneX]), PeaksOf(all[PlaneY]))
           result(ms) == [k \in DOMAIN ms |->
                [index_x |-> ms[k][1].index, index_y |-> ms[k][2].index,
                 amplitude |-> ms[k][2].height, energy |-> ms[k][2].width]]
<1>1. DOMAIN cfg.planes = PlanesWithApvs /\ DOMAIN all = PlanesWithApvs
  BY DEF SamePlanes, ForPlanes
<1>2. \A p \in PlanesWithApvs : PeaksOf(all[p]) = common(p)
  BY DEF ForPlanes, ForPlane, PeaksOf
<1>3. match_clusters(all, cfg) = IF ~({PlaneX, PlaneY} \subseteq DOMAIN all \cap DOMAIN cfg.planes)
                                 THEN <<>> ELSE result(matched)
  BY DEF match_clusters
<1>4. Clusters(planes) = IF ~({PlaneX, PlaneY} \subseteq DOMAIN planes) THEN <<>> ELSE result(pairs)
  BY DEF Clusters
<1> HIDE DEF result, all, common
<1>5. CASE PlaneX \in PlanesWithApvs /\ PlaneY \in PlanesWithApvs
  <2>1. matched = pairs
    BY <1>2, <1>5
  <2> HIDE DEF matched, pairs
  <2>2. QED BY <1>1, <1>3, <1>4, <1>5, <2>1 DEF all
<1>6. CASE ~(PlaneX \in PlanesWithApvs /\ PlaneY \in PlanesWithApvs)
  <2> HIDE DEF matched, pairs
  <2>1. QED BY <1>1, <1>3, <1>4, <1>6 DEF all
<1>7. QED BY <1>5, <1>6

(* The stages of gemreco, on an event.                                     *)
LEMMA StagesAlike ==
    ASSUME NEW items \in Seq(EventItem), NEW pedestal, pedestal # None,
           HasOffsets(pedestal, RawData(items)), InPairs,
           NEW cfg, DOMAIN cfg.apvs = Mapped, SamePlanes(cfg),
           PlaneDecodedData(ApvDecodedData(RawData(items), pedestal)) # None
    PROVE  LET planes == PlaneDecodedData(ApvDecodedData(RawData(items), pedestal))
           IN  /\ reconstruct(items, cfg, ForGemreco(pedestal)) = ForPlanes(planes)
               /\ find_plane_peaks(ForPlanes(planes), cfg) = Peaks(planes)
               /\ match_clusters(ForPlanes(planes), cfg) = Clusters(planes)
<1> DEFINE raw == RawData(items)
           decoded == ApvDecodedData(raw, pedestal)
           peds == ForGemreco(pedestal)
           planes == PlaneDecodedData(decoded)
           all == [p \in PlanesWithApvs |-> PlaneOf(decoded, mapping.apvsOf[p])]
<1>1. decoded = [apv \in {a \in DOMAIN raw : raw[a] # <<>>} |->
                   [ids |-> <<apv>>, data |-> DecodeApv(raw[apv], pedestal[apv]),
                    noise |-> [c1 \in 1 .. ChannelsCount |-> pedestal[apv][c1].noise]]]
  BY DEF ApvDecodedData
<1>2. IsRaw(raw)
  BY RawIs
<1>3. DOMAIN pedestal = DOMAIN raw /\ \A apv \in DOMAIN raw : OffsetsKnown(pedestal[apv])
  BY DEF HasOffsets
<1>4. reconstruct(items, cfg, peds) = merge_planes(DataOf(decoded), peds, cfg)
  BY DecodedByBoth
<1> HIDE DEF decoded, raw
<1>5. DecodesWith(decoded, peds)
  <2>1. ASSUME NEW a \in DOMAIN decoded
        PROVE  /\ decoded[a].ids = <<a>> /\ decoded[a].data \in Seq(ChannelRow)
               /\ a \in DOMAIN peds /\ decoded[a].noise = peds[a].noises /\ decoded[a].data # <<>>
    <3>1. a \in DOMAIN raw /\ raw[a] # <<>> /\ decoded[a].ids = <<a>>
          /\ decoded[a].data = DecodeApv(raw[a], pedestal[a])
          /\ decoded[a].noise = [c1 \in 1 .. ChannelsCount |-> pedestal[a][c1].noise]
      BY <1>1
    <3>2. decoded[a].data \in Seq(ChannelRow) /\ decoded[a].data # <<>>
      BY <1>2, <1>3, <3>1, DecodedRows DEF IsRaw
    <3>3. a \in DOMAIN peds /\ peds[a].noises = [c1 \in 1 .. ChannelsCount |-> pedestal[a][c1].noise]
      BY <1>3, <3>1 DEF ForGemreco
    <3>4. QED BY <3>1, <3>2, <3>3
  <2>2. QED BY <2>1 DEF DecodesWith, Decodes
<1>6. Decodes(decoded)
  BY <1>5 DEF DecodesWith
<1>7. planes # None /\ planes = all
  <2>1. planes # None
    BY DEF decoded, raw
  <2>2. QED BY <2>1 DEF PlaneDecodedData
<1>8. \A p \in PlanesWithApvs : mapping.apvsOf[p] \in [1 .. 1 -> Nat] \cup [1 .. 2 -> Nat]
  BY DEF InPairs
<1>9. DOMAIN cfg.planes = PlanesWithApvs
      /\ \A p \in PlanesWithApvs : cfg.planes[p].apv_ids = mapping.apvsOf[p]
  BY DEF SamePlanes
<1> HIDE DEF peds
<1>10. merge_planes(DataOf(decoded), peds, cfg) = ForPlanes(planes)
  <2> DEFINE merged == merge_planes(DataOf(decoded), peds, cfg)
  <2>1. merged = [p \in PlanesWithApvs |-> merged[p]]
    <3>1. merged = [p \in DOMAIN cfg.planes |-> merged[p]]
      BY DEF merge_planes
    <3> HIDE DEF merged
    <3>2. QED BY <1>9, <3>1
  <2>2. ASSUME NEW p \in PlanesWithApvs PROVE merged[p] = ForPlane(planes[p])
    <3>1. merged[p] = ForPlane(PlaneOf(decoded, cfg.planes[p].apv_ids))
      BY <1>5, <1>8, <1>9, MergedAlike
    <3> HIDE DEF merged
    <3>2. QED BY <1>7, <1>9, <3>1
  <2>3. DOMAIN planes = PlanesWithApvs
    BY <1>7
  <2> HIDE DEF merged, planes
  <2>4. merged = ForPlanes(planes)
    BY <2>1, <2>2, <2>3 DEF ForPlanes
  <2>5. QED BY <2>4 DEF merged
<1>11. find_plane_peaks(ForPlanes(planes), cfg) = Peaks(planes)
  <2> HIDE DEF planes
  <2>1. QED BY <1>6, <1>7, PeaksAlike
<1>12. match_clusters(ForPlanes(planes), cfg) = Clusters(planes)
  <2> HIDE DEF planes
  <2>1. DOMAIN planes = PlanesWithApvs
    BY <1>7
  <2>2. QED BY <1>7, <2>1, ClustersAlike
<1>13. QED BY <1>4, <1>10, <1>11, <1>12 DEF peds, decoded, raw

(* The stages of gemreco give what the factories made: in every slot, for  *)
(* every event, whatever chips are silent or short, on planes of one chip  *)
(* or two and with a mapping that both read alike.                         *)
THEOREM StagesArePorted == ASSUME SameTables, InPairs PROVE Spec => []ParityWithLegacy
<1>1. ASSUME PeakInv PROVE ParityWithLegacy
  <2> DEFINE channels(s, apv, of) == [c \in 1 .. ChannelsCount |-> made[s].pedestal[apv][c][of]]
             peds(s) == [apv \in DOMAIN made[s].pedestal |->
                 [offsets |-> channels(s, apv, "offset"), noises |-> channels(s, apv, "noise")]]
             planes(s) == [p \in DOMAIN made[s].planes |->
                 [data |-> made[s].planes[p].data, noises |-> made[s].planes[p].noise]]
  <2>1. SUFFICES ASSUME NEW s \in Slots, pc[s] = "gem samples"
                 PROVE  /\ reconstruct(ev[s].items, Ported, peds(s)) = planes(s)
                        /\ find_plane_peaks(planes(s), Ported) = made[s].peaks
                        /\ match_clusters(planes(s), Ported) = made[s].sf_clusters
    BY DEF ParityWithLegacy
  <2>2. peds(s) = ForGemreco(made[s].pedestal) /\ planes(s) = ForPlanes(made[s].planes)
    BY DEF ForGemreco, ForPlanes, ForPlane
  <2> DEFINE m == made[s]
             items == ev[s].items
  <2>3. /\ m.raw = RawData(items) /\ m.planes # None
        /\ m.peaks = Peaks(m.planes) /\ m.sf_clusters = Clusters(m.planes)
        /\ m.pedestal = None \/ HasOffsets(m.pedestal, m.raw)
        /\ m.apvs = ApvDecodedData(m.raw, m.pedestal) /\ m.planes = PlaneDecodedData(m.apvs)
    BY <1>1, <2>1 DEF PeakInv, GemMade
  <2>4. items \in Seq(EventItem)
    BY <1>1, <2>1, ItemsOf DEF PeakInv
  <2>5. DOMAIN Ported.apvs = Mapped /\ SamePlanes(Ported)
    BY DEF SameTables, SamePlanes
  <2> HIDE DEF m, items
  <2>6. m.apvs # None
    BY <2>3 DEF PlaneDecodedData
  <2>7. m.pedestal # None
    BY <2>3, <2>6 DEF ApvDecodedData
  <2>8. /\ reconstruct(items, Ported, ForGemreco(m.pedestal)) = ForPlanes(m.planes)
        /\ find_plane_peaks(ForPlanes(m.planes), Ported) = m.peaks
        /\ match_clusters(ForPlanes(m.planes), Ported) = m.sf_clusters
    BY <2>3, <2>4, <2>5, <2>7, StagesAlike
  <2> HIDE DEF peds, planes
  <2>9. QED BY <2>2, <2>8 DEF m, items
<1>2. QED BY <1>1, PeakInit, PeaksKept, PTL DEF Spec

=============================================================================
