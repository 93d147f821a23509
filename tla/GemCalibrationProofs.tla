------------------------ MODULE GemCalibrationProofs ------------------------
(***************************************************************************)
(* Proofs about GemCalibration, for every set of workers, mapping and      *)
(* value of the parameters.                                                *)
(***************************************************************************)
EXTENDS GemCalibration, FiniteSetTheorems, TLAPS

(* The values of the variables (GemCalibration's TypeOK, with the events   *)
(* in hand, without which an averaged event would not be known to be one). *)
TypedInHand == TypeOK /\ EventsInHand

(* The return of a worker keeps the types of what it writes.               *)
LEMMA FinishTyped ==
    ASSUME NEW w \in Workers, NEW kind \in {"learned", "applied", "lost"},
           TypeOK, Finish(w, kind)
    PROVE  /\ dispatched' \in 0..MaxEvents
           /\ pc' \in [Workers -> {"idle"} \cup LearnPcs \cup ApplyPcs]
           /\ event' \in [Workers -> 0..MaxEvents]
           /\ content' \in [Workers -> Contents \cup {AllAbsent}]
           /\ result' \in [Events -> {"none", "learned", "applied", "lost"}]
<1>1. pc' \in [Workers -> {"idle"} \cup LearnPcs \cup ApplyPcs]
  BY DEF TypeOK, Finish, Goto
<1>2. event' \in [Workers -> 0..MaxEvents]
  BY ParamsAssumption DEF TypeOK, Finish
<1>3. content' \in [Workers -> Contents \cup {AllAbsent}]
  BY DEF TypeOK, Finish
<1>4. result' \in [Events -> {"none", "learned", "applied", "lost"}]
  BY DEF TypeOK, Finish
<1>5. QED BY <1>1, <1>2, <1>3, <1>4 DEF TypeOK, Finish

(* What the pedestals are frozen to is a snapshot.                         *)
LEMMA SnapshotTyped ==
    ASSUME TypeOK
    PROVE  PedestalsNow \in PedestalSnapshots
BY DEF TypeOK, PedestalsNow, PedestalSnapshots

(* A rolling window stays a sequence of events.                            *)
LEMMA RolledTyped ==
    ASSUME NEW window \in Seq(Events), NEW e \in Events
    PROVE  Rolled(window, e) \in Seq(Events)
<1>1. CASE Len(window) = StatLen /\ StatLen # 0
  <2>1. Tail(window) \in Seq(Events)
    BY <1>1, ParamsAssumption
  <2>2. QED BY <1>1, <2>1 DEF Rolled
<1>2. QED BY <1>1, ParamsAssumption DEF Rolled

(* The types hold at the start.                                            *)
LEMMA InitTyped == Init => TypedInHand
<1> SUFFICES ASSUME Init PROVE TypedInHand
  OBVIOUS
<1>1. m_stats \in [Apvs -> Seq(Events)]
  BY DEF Init
<1>2. used \in [Events -> [pedestals : PedestalSnapshots \cup {NotSet},
                           sample_baselines : BaselineSnapshots \cup {NotSet}]]
  BY DEF Init, NoCalib
<1>3. m_calib \in [pedestals : PedestalSnapshots \cup {NotSet},
                   sample_baselines : BaselineSnapshots \cup {NotSet}]
  BY DEF Init, NoCalib
<1>4. TypeOK
  <2>1. m_events_counter \in Nat /\ m_averages \in [Apvs -> SUBSET Events]
    BY DEF Init
  <2>2. /\ dispatched \in 0..MaxEvents
        /\ event \in [Workers -> 0..MaxEvents]
    BY ParamsAssumption DEF Init
  <2>3. /\ pc \in [Workers -> {"idle"} \cup LearnPcs \cup ApplyPcs]
        /\ content \in [Workers -> Contents \cup {AllAbsent}]
        /\ result \in [Events -> {"none", "learned", "applied", "lost"}]
    BY DEF Init
  <2>4. m_frozen \in BOOLEAN /\ m_freeze_once \in {"ready", "running", "done"}
    BY DEF Init
  <2>5. QED BY <1>1, <1>2, <1>3, <2>1, <2>2, <2>3, <2>4 DEF TypeOK
<1>5. EventsInHand
  BY DEF Init, EventsInHand
<1>6. QED BY <1>4, <1>5 DEF TypedInHand

(* Every step keeps the types.                                             *)
LEMMA NextTyped == TypedInHand /\ [Next]_vars => TypeOK'
<1> SUFFICES ASSUME TypedInHand, [Next]_vars PROVE TypeOK'
  OBVIOUS
<1> USE DEF TypedInHand
<1>1. ASSUME NEW w \in Workers, Start(w) PROVE TypeOK'
  <2>1. dispatched' \in 0..MaxEvents /\ event' \in [Workers -> 0..MaxEvents]
    BY <1>1, ParamsAssumption DEF Start, TypeOK
  <2>2. content' \in [Workers -> Contents \cup {AllAbsent}]
    BY <1>1 DEF Start, TypeOK
  <2>3. pc' \in [Workers -> {"idle"} \cup LearnPcs \cup ApplyPcs]
    BY <1>1 DEF Start, TypeOK, Goto, LearnPcs, ApplyPcs
  <2>4. QED BY <1>1, <2>1, <2>2, <2>3 DEF Start, TypeOK, builders, shared, outcome
<1>2. ASSUME NEW w \in Workers, LearnPedestals(w) PROVE TypeOK'
  <2>1. event[w] \in Events
    BY <1>2, ParamsAssumption DEF LearnPedestals, EventsInHand, Events, TypeOK
  <2>2. Averaged(w) \in [Apvs -> SUBSET Events]
    BY <2>1 DEF Averaged, TypeOK
  <2>3. pc' \in [Workers -> {"idle"} \cup LearnPcs \cup ApplyPcs]
    BY <1>2 DEF LearnPedestals, TypeOK, Goto, LearnPcs
  <2>4. QED BY <1>2, <2>2, <2>3 DEF LearnPedestals, TypeOK, shared, outcome, input
<1>3. ASSUME NEW w \in Workers, LearnPedestalsThrows(w) PROVE TypeOK'
  <2>1. event[w] \in Events
    BY <1>3, ParamsAssumption DEF LearnPedestalsThrows, EventsInHand, Events, TypeOK
  <2>2. Averaged(w) \in [Apvs -> SUBSET Events]
    BY <2>1 DEF Averaged, TypeOK
  <2>3. m_averages' \in [Apvs -> SUBSET Events]
    BY <1>3, <2>2 DEF LearnPedestalsThrows, TypeOK
  <2>4. QED BY <1>3, <2>3, FinishTyped DEF LearnPedestalsThrows, TypeOK, shared
<1>4. ASSUME NEW w \in Workers, LearnSamples(w) PROVE TypeOK'
  <2>1. event[w] \in Events
    BY <1>4, ParamsAssumption DEF LearnSamples, EventsInHand, Events, TypeOK
  <2>2. m_stats' \in [Apvs -> Seq(Events)]
    BY <1>4, <2>1, RolledTyped DEF LearnSamples, TypeOK
  <2>3. pc' \in [Workers -> {"idle"} \cup LearnPcs \cup ApplyPcs]
    BY <1>4 DEF LearnSamples, TypeOK, Goto, LearnPcs
  <2>4. QED BY <1>4, <2>2, <2>3 DEF LearnSamples, TypeOK, shared, outcome, input
<1>5. ASSUME NEW w \in Workers, CheckFreeze(w) PROVE TypeOK'
  BY <1>5 DEF CheckFreeze, TypeOK, Goto, LearnPcs, builders, shared, outcome, input
<1>6. ASSUME NEW w \in Workers, CheckNoFreeze(w) \/ PassOnce(w) PROVE TypeOK'
  BY <1>6, FinishTyped DEF CheckNoFreeze, PassOnce, TypeOK, builders, shared
<1>7. ASSUME NEW w \in Workers, EnterOnce(w) PROVE TypeOK'
  BY <1>7 DEF EnterOnce, TypeOK, Goto, LearnPcs, builders, outcome, input
<1>8. ASSUME NEW w \in Workers, FreezePedestals(w) PROVE TypeOK'
  BY <1>8, SnapshotTyped DEF FreezePedestals, TypeOK, Goto, LearnPcs, builders, outcome, input
<1>9. ASSUME NEW w \in Workers, FreezePedestalsThrows(w) PROVE TypeOK'
  BY <1>9, FinishTyped DEF FreezePedestalsThrows, TypeOK, builders
<1>10. ASSUME NEW w \in Workers, FreezeBaselines(w) PROVE TypeOK'
  BY <1>10 DEF FreezeBaselines, TypeOK, Goto, LearnPcs, builders, outcome, input, BaselineSnapshots
<1>11. ASSUME NEW w \in Workers, PublishFrozen(w) PROVE TypeOK'
  BY <1>11 DEF PublishFrozen, TypeOK, Goto, LearnPcs, builders, outcome, input
<1>12. ASSUME NEW w \in Workers, ReturnOnce(w) PROVE TypeOK'
  BY <1>12, FinishTyped DEF ReturnOnce, TypeOK, builders
<1>13. ASSUME NEW w \in Workers, ApplyPedestals(w) PROVE TypeOK'
  <2>1. pc' \in [Workers -> {"idle"} \cup LearnPcs \cup ApplyPcs]
    BY <1>13 DEF ApplyPedestals, TypeOK, Goto, ApplyPcs
  <2>2. QED BY <1>13, <2>1 DEF ApplyPedestals, TypeOK, builders, shared, input
<1>14. ASSUME NEW w \in Workers, ApplyBaselines(w) PROVE TypeOK'
  BY <1>14, FinishTyped DEF ApplyBaselines, TypeOK, builders, shared
<1>15. CASE UNCHANGED vars
  BY <1>15 DEF vars, TypeOK, builders, shared, outcome, input
<1>16. QED
  BY <1>1, <1>2, <1>3, <1>4, <1>5, <1>6, <1>7, <1>8, <1>9, <1>10, <1>11, <1>12,
     <1>13, <1>14, <1>15
  DEF Next, Reconstruct, Learn, Freeze, Apply, Done

-----------------------------------------------------------------------------
(* The inductive invariant.                                                *)
IInv == TypedInHand /\ OnceProtocol

(* Nobody is in call_once at the start.                                    *)
LEMMA InitOnce == Init => OnceProtocol
BY DEF Init, OnceProtocol, InLambda, ApplyPcs

(* Every step keeps the protocol of call_once and the flag.                *)
LEMMA NextOnce == IInv /\ [Next]_vars => OnceProtocol'
<1> SUFFICES ASSUME IInv, [Next]_vars PROVE OnceProtocol'
  OBVIOUS
<1> USE DEF IInv, TypedInHand
<1>0. pc \in [Workers -> {"idle"} \cup LearnPcs \cup ApplyPcs]
  BY DEF TypeOK
<1>1. ASSUME NEW w \in Workers, Start(w) PROVE OnceProtocol'
  BY <1>0, <1>1 DEF Start, Goto, OnceProtocol, InLambda, ApplyPcs, shared
<1>2. ASSUME NEW w \in Workers,
             LearnPedestals(w) \/ LearnSamples(w) \/ CheckFreeze(w)
      PROVE OnceProtocol'
  BY <1>0, <1>2
  DEF LearnPedestals, LearnSamples, CheckFreeze, Goto, OnceProtocol, InLambda, ApplyPcs, shared
<1>3. ASSUME NEW w \in Workers,
             LearnPedestalsThrows(w) \/ CheckNoFreeze(w) \/ PassOnce(w)
      PROVE OnceProtocol'
  BY <1>0, <1>3
  DEF LearnPedestalsThrows, CheckNoFreeze, PassOnce, Finish, Goto, OnceProtocol,
      InLambda, ApplyPcs, shared
<1>4. ASSUME NEW w \in Workers, EnterOnce(w) PROVE OnceProtocol'
  BY <1>0, <1>4 DEF EnterOnce, Goto, OnceProtocol, InLambda, ApplyPcs
<1>5. ASSUME NEW w \in Workers, FreezePedestals(w) PROVE OnceProtocol'
  <2>1. m_calib'.pedestals # NotSet
    BY <1>5, SnapshotTyped, NotSetAssumption DEF FreezePedestals, TypeOK
  <2>2. ~m_frozen
    BY <1>5 DEF FreezePedestals, OnceProtocol
  <2>3. QED
    BY <1>0, <1>5, <2>1, <2>2 DEF FreezePedestals, Goto, OnceProtocol, InLambda, ApplyPcs
<1>6. ASSUME NEW w \in Workers, FreezePedestalsThrows(w) PROVE OnceProtocol'
  BY <1>0, <1>6 DEF FreezePedestalsThrows, Finish, Goto, OnceProtocol, InLambda, ApplyPcs
<1>7. ASSUME NEW w \in Workers, FreezeBaselines(w) PROVE OnceProtocol'
  <2>1. /\ m_calib'.pedestals = m_calib.pedestals
        /\ m_calib'.sample_baselines # NotSet
    BY <1>7, NotSetAssumption DEF FreezeBaselines, TypeOK, BaselineSnapshots
  <2>2. ~m_frozen
    BY <1>7 DEF FreezeBaselines, OnceProtocol
  <2>3. QED
    BY <1>0, <1>7, <2>1, <2>2 DEF FreezeBaselines, Goto, OnceProtocol, InLambda, ApplyPcs
<1>8. ASSUME NEW w \in Workers, PublishFrozen(w) PROVE OnceProtocol'
  <2>1. m_freeze_once = "running"
    BY <1>8 DEF PublishFrozen, OnceProtocol, InLambda
  <2>2. QED
    BY <1>0, <1>8, <2>1 DEF PublishFrozen, Goto, OnceProtocol, InLambda, ApplyPcs
<1>9. ASSUME NEW w \in Workers, ReturnOnce(w) PROVE OnceProtocol'
  BY <1>0, <1>9 DEF ReturnOnce, Finish, Goto, OnceProtocol, InLambda, ApplyPcs
<1>10. ASSUME NEW w \in Workers, ApplyPedestals(w) PROVE OnceProtocol'
  BY <1>0, <1>10 DEF ApplyPedestals, Goto, OnceProtocol, InLambda, ApplyPcs, shared
<1>11. ASSUME NEW w \in Workers, ApplyBaselines(w) PROVE OnceProtocol'
  BY <1>0, <1>11 DEF ApplyBaselines, Finish, Goto, OnceProtocol, InLambda, ApplyPcs, shared
<1>12. CASE UNCHANGED vars
  BY <1>12 DEF vars, shared, OnceProtocol, InLambda
<1>13. QED
  BY <1>1, <1>2, <1>3, <1>4, <1>5, <1>6, <1>7, <1>8, <1>9, <1>10, <1>11, <1>12
  DEF Next, Reconstruct, Learn, Freeze, Apply, Done

(* A worker that returns gives up the event it had in hand.                *)
LEMMA FinishInHand ==
    ASSUME NEW w \in Workers, NEW kind \in {"learned", "applied", "lost"},
           IInv, pc[w] # "idle", Finish(w, kind),
           m_calib' = m_calib,
           \A v \in Workers \ {w} : pc[v] = "applySamp" => used'[event[v]] = used[event[v]]
    PROVE  EventsInHand'
<1> USE DEF IInv, TypedInHand
<1>1. /\ pc' = [pc EXCEPT ![w] = "idle"]
      /\ event' = [event EXCEPT ![w] = 0]
      /\ result' = [result EXCEPT ![event[w]] = kind]
      /\ dispatched' = dispatched
  BY DEF Finish, Goto
<1>2. \A v \in Workers : pc'[v] # "idle" =>
        v # w /\ pc'[v] = pc[v] /\ event'[v] = event[v]
  BY <1>1 DEF TypeOK
<1>3. \A v \in Workers : pc'[v] # "idle" =>
        event'[v] \in 1..dispatched' /\ result'[event'[v]] = "none"
  <2> SUFFICES ASSUME NEW v \in Workers, pc'[v] # "idle"
               PROVE  event'[v] \in 1..dispatched' /\ result'[event'[v]] = "none"
    OBVIOUS
  <2>1. event[v] \in 1..dispatched /\ result[event[v]] = "none" /\ event[v] # event[w]
    BY <1>2 DEF EventsInHand
  <2>2. QED BY <1>1, <1>2, <2>1 DEF TypeOK
<1>4. \A u, v \in Workers : pc'[u] # "idle" /\ pc'[v] # "idle" /\ event'[u] = event'[v] => u = v
  <2> SUFFICES ASSUME NEW u \in Workers, NEW v \in Workers,
                      pc'[u] # "idle", pc'[v] # "idle", event'[u] = event'[v]
               PROVE  u = v
    OBVIOUS
  <2>1. event[u] \in 1..dispatched
    BY <1>2 DEF EventsInHand
  <2>2. CASE v = w
    BY <1>1, <1>2, <2>1, <2>2 DEF TypeOK
  <2>3. CASE v # w
    BY <1>1, <1>2, <2>3 DEF TypeOK, EventsInHand
  <2>4. QED BY <2>2, <2>3
<1>5. \A e \in Events : e > dispatched' => result'[e] = "none"
  <2> SUFFICES ASSUME NEW e \in Events, e > dispatched PROVE result'[e] = "none"
    BY <1>1
  <2>1. e # event[w] /\ result[e] = "none"
    BY DEF EventsInHand, TypeOK
  <2>2. QED BY <1>1, <2>1 DEF TypeOK
<1>6. \A v \in Workers : pc'[v] = "applySamp" =>
        used'[event'[v]].pedestals = m_calib'.pedestals
  BY <1>2 DEF EventsInHand
<1>7. QED BY <1>3, <1>4, <1>5, <1>6 DEF EventsInHand

(* A worker that goes on keeps its event in hand.                          *)
LEMMA MoveInHand ==
    ASSUME NEW w \in Workers, NEW l, l \notin {"idle", "applySamp"},
           IInv, pc[w] # "idle", Goto(w, l),
           UNCHANGED <<event, dispatched, result, used>>,
           m_calib'.pedestals = m_calib.pedestals \/ ~m_frozen
    PROVE  EventsInHand'
BY DEF IInv, TypedInHand, TypeOK, EventsInHand, OnceProtocol, ApplyPcs, Goto

(* Every step keeps one worker for each event.                             *)
LEMMA NextInHand == IInv /\ [Next]_vars => EventsInHand'
<1> SUFFICES ASSUME IInv, [Next]_vars PROVE EventsInHand'
  OBVIOUS
<1> USE DEF IInv, TypedInHand
<1>1. ASSUME NEW w \in Workers, Start(w) PROVE EventsInHand'
  <2>1. /\ dispatched' = dispatched + 1
        /\ event' = [event EXCEPT ![w] = dispatched + 1]
        /\ dispatched + 1 \in Events
        /\ dispatched \in Nat
        /\ \A v \in Workers \ {w} : pc'[v] = pc[v]
        /\ pc'[w] \in {"applyPed", "learnPed"}
    BY <1>1, ParamsAssumption DEF Start, Goto, TypeOK, Events
  <2>2. UNCHANGED <<result, used, m_calib>>
    BY <1>1 DEF Start, shared, outcome
  <2>3. \A v \in Workers : pc'[v] # "idle" =>
          event'[v] \in 1..dispatched' /\ result'[event'[v]] = "none"
    BY <2>1, <2>2 DEF EventsInHand, TypeOK
  <2>4. \A u, v \in Workers : pc'[u] # "idle" /\ pc'[v] # "idle" /\ event'[u] = event'[v] => u = v
    <3> SUFFICES ASSUME NEW u \in Workers, NEW v \in Workers,
                        pc'[u] # "idle", pc'[v] # "idle", event'[u] = event'[v]
                 PROVE  u = v
      OBVIOUS
    <3>1. \A x \in Workers : pc[x] # "idle" => event[x] # dispatched + 1
      BY <2>1 DEF EventsInHand
    <3>2. QED BY <2>1, <3>1 DEF EventsInHand, TypeOK
  <2>5. \A e \in Events : e > dispatched' => result'[e] = "none"
    BY <2>1, <2>2 DEF EventsInHand, Events
  <2>6. \A v \in Workers : pc'[v] = "applySamp" =>
          used'[event'[v]].pedestals = m_calib'.pedestals
    BY <2>1, <2>2 DEF EventsInHand, TypeOK
  <2>7. QED BY <2>3, <2>4, <2>5, <2>6 DEF EventsInHand
<1>2. ASSUME NEW w \in Workers,
             LearnPedestals(w) \/ LearnSamples(w) \/ CheckFreeze(w) \/ EnterOnce(w)
      PROVE EventsInHand'
  <2>1. /\ UNCHANGED <<event, dispatched, result, used, m_calib>>
        /\ pc[w] # "idle"
        /\ Goto(w, "learnSamp") \/ Goto(w, "check") \/ Goto(w, "once") \/ Goto(w, "freezePed")
    BY <1>2 DEF LearnPedestals, LearnSamples, CheckFreeze, EnterOnce, shared, outcome, input
  <2>2. QED BY <2>1, MoveInHand
<1>3. ASSUME NEW w \in Workers,
             FreezePedestals(w) \/ FreezeBaselines(w) \/ PublishFrozen(w)
      PROVE EventsInHand'
  <2>1. /\ UNCHANGED <<event, dispatched, result, used>>
        /\ pc[w] # "idle"
        /\ Goto(w, "freezeSamp") \/ Goto(w, "store") \/ Goto(w, "return")
    BY <1>3 DEF FreezePedestals, FreezeBaselines, PublishFrozen, outcome, input
  <2>2. ~m_frozen
    BY <1>3 DEF FreezePedestals, FreezeBaselines, PublishFrozen, OnceProtocol
  <2>3. QED BY <2>1, <2>2, MoveInHand
<1>4. ASSUME NEW w \in Workers,
             LearnPedestalsThrows(w) \/ FreezePedestalsThrows(w)
      PROVE EventsInHand'
  BY <1>4, FinishInHand DEF LearnPedestalsThrows, FreezePedestalsThrows, shared
<1>5. ASSUME NEW w \in Workers,
             CheckNoFreeze(w) \/ PassOnce(w) \/ ReturnOnce(w)
      PROVE EventsInHand'
  BY <1>5, FinishInHand DEF CheckNoFreeze, PassOnce, ReturnOnce, shared
<1>6. ASSUME NEW w \in Workers, ApplyPedestals(w) PROVE EventsInHand'
  <2>1. /\ UNCHANGED <<event, dispatched, result, m_calib>>
        /\ pc' = [pc EXCEPT ![w] = "applySamp"]
        /\ used' = [used EXCEPT ![event[w]].pedestals = m_calib.pedestals]
        /\ pc[w] # "idle"
    BY <1>6 DEF ApplyPedestals, Goto, shared, input
  <2>2. event[w] \in Events
    BY <2>1, ParamsAssumption DEF EventsInHand, TypeOK, Events
  <2>3. \A v \in Workers : pc'[v] = "applySamp" =>
          used'[event'[v]].pedestals = m_calib'.pedestals
    BY <2>1, <2>2 DEF EventsInHand, TypeOK
  <2>4. QED BY <2>1, <2>3 DEF EventsInHand, TypeOK
<1>7. ASSUME NEW w \in Workers, ApplyBaselines(w) PROVE EventsInHand'
  <2>1. \A v \in Workers \ {w} : pc[v] = "applySamp" => used'[event[v]] = used[event[v]]
    <3> SUFFICES ASSUME NEW v \in Workers \ {w}, pc[v] = "applySamp"
                 PROVE  used'[event[v]] = used[event[v]]
      OBVIOUS
    <3>1. event[v] # event[w] /\ event[v] \in Events
      BY <1>7, ParamsAssumption DEF ApplyBaselines, EventsInHand, TypeOK, Events
    <3>2. QED BY <1>7, <3>1 DEF ApplyBaselines, TypeOK
  <2>2. /\ Finish(w, "applied")
        /\ m_calib' = m_calib
        /\ pc[w] # "idle"
    BY <1>7 DEF ApplyBaselines, shared
  <2>3. QED BY <2>1, <2>2, FinishInHand
<1>8. CASE UNCHANGED vars
  BY <1>8 DEF vars, shared, outcome, input, EventsInHand
<1>9. QED
  BY <1>1, <1>2, <1>3, <1>4, <1>5, <1>6, <1>7, <1>8
  DEF Next, Reconstruct, Learn, Freeze, Apply, Done

-----------------------------------------------------------------------------
(* The inductive invariant: types, events in hand, and the freeze.         *)
LEMMA Invariant == Spec => []IInv
<1>1. Init => IInv
  BY InitTyped, InitOnce DEF IInv
<1>2. IInv /\ [Next]_vars => IInv'
  BY NextTyped, NextOnce, NextInHand DEF IInv, TypedInHand
<1>3. QED BY <1>1, <1>2, PTL DEF Spec

(* The variables keep their types: what the builders averaged, what the    *)
(* snapshots hold and where each worker is.                                *)
THEOREM TypeCorrect == Spec => []TypeOK
<1>1. IInv => TypeOK
  BY DEF IInv, TypedInHand
<1>2. QED BY <1>1, Invariant, PTL

(* The freeze is run by one worker at a time, m_frozen is stored after     *)
(* both parts of m_calib, and the once_flag is done only after that.       *)
THEOREM FreezeRunsOnce == Spec => []OnceProtocol
<1>1. IInv => OnceProtocol
  BY DEF IInv
<1>2. QED BY <1>1, Invariant, PTL

(* An event belongs to one worker, and the calibration that worker started *)
(* to read is the one it goes on reading.                                  *)
THEOREM OneEventOneWorker == Spec => []EventsInHand
<1>1. IInv => EventsInHand
  BY DEF IInv, TypedInHand
<1>2. QED BY <1>1, Invariant, PTL

(* A worker on the lock-free path finds both parts of the calibration.     *)
THEOREM LockFreeReadsAreWhole == Spec => []ApplySeesWholeCalibration
<1>1. IInv => ApplySeesWholeCalibration
  BY DEF IInv, OnceProtocol, ApplySeesWholeCalibration
<1>2. QED BY <1>1, Invariant, PTL

(* Behind the flag nothing writes the calibration.                         *)
LEMMA CalibWritten ==
    ASSUME IInv, [Next]_vars
    PROVE  m_frozen => m_frozen' /\ UNCHANGED m_calib
<1> SUFFICES ASSUME m_frozen PROVE m_frozen' /\ UNCHANGED m_calib
  OBVIOUS
<1>1. ASSUME NEW w \in Workers,
             FreezePedestals(w) \/ FreezeBaselines(w) \/ PublishFrozen(w)
      PROVE  FALSE
  BY <1>1 DEF IInv, OnceProtocol, FreezePedestals, FreezeBaselines, PublishFrozen
<1>2. QED
  BY <1>1 DEF Next, Reconstruct, Learn, Freeze, Apply, Done, Start, LearnPedestals,
     LearnPedestalsThrows, LearnSamples, CheckFreeze, CheckNoFreeze, EnterOnce,
     PassOnce, FreezePedestalsThrows, ReturnOnce, ApplyPedestals, ApplyBaselines,
     vars, shared

(* A published calibration is never written again.                         *)
THEOREM FrozenStaysFrozen == Spec => FrozenIsImmutable
<1>1. IInv /\ [Next]_vars => [m_frozen => m_frozen' /\ UNCHANGED m_calib]_vars
  BY CalibWritten
<1>2. QED BY <1>1, Invariant, PTL DEF Spec, FrozenIsImmutable

-----------------------------------------------------------------------------
(* The refinement: PublishFrozen publishes, ApplyBaselines applies, every  *)
(* other step of a worker leaves the abstract state alone.                 *)
LEMMA AppliedKept ==
    ASSUME IInv, NEW w \in Workers, pc[w] # "idle",
           \/ UNCHANGED result
           \/ \E kind \in {"learned", "lost"} : result' = [result EXCEPT ![event[w]] = kind],
           \/ UNCHANGED used
           \/ used' = [used EXCEPT ![event[w]].pedestals = m_calib.pedestals]
    PROVE  UNCHANGED AppliedWith
<1> USE DEF IInv, TypedInHand
<1>1. result[event[w]] = "none"
  BY DEF EventsInHand
<1>2. ASSUME NEW e \in Events PROVE AppliedWith'[e] = AppliedWith[e]
  <2>1. CASE e = event[w]
    BY <1>1, <2>1 DEF AppliedWith, TypeOK
  <2>2. CASE e # event[w]
    BY <2>2 DEF AppliedWith, TypeOK
  <2>3. QED BY <2>1, <2>2
<1>3. QED BY <1>2 DEF AppliedWith

(* The service starts as the abstract calibration does.                    *)
LEMMA InitLifecycle == Init => Lifecycle!Init
BY DEF Init, Lifecycle!Init, Published, AppliedWith

(* Every step is one of the abstract calibration, or none.                 *)
LEMMA StepLifecycle ==
    ASSUME IInv, IInv', [Next]_vars
    PROVE  [Lifecycle!Next]_(Lifecycle!lifecycleVars)
<1> USE DEF Lifecycle!lifecycleVars
<1>1. ASSUME NEW w \in Workers, PublishFrozen(w) PROVE Lifecycle!Publish
  <2>1. ~m_frozen /\ m_frozen' /\ UNCHANGED <<m_calib, result, used>>
    BY <1>1 DEF IInv, OnceProtocol, PublishFrozen, outcome
  <2>2. m_calib \in [pedestals : PedestalSnapshots, sample_baselines : BaselineSnapshots]
    BY <1>1 DEF IInv, TypedInHand, TypeOK, OnceProtocol, PublishFrozen
  <2>3. Published = NoCalib /\ Published' = m_calib
    BY <2>1 DEF Published
  <2>4. UNCHANGED AppliedWith
    BY <2>1 DEF AppliedWith
  <2>5. QED BY <2>2, <2>3, <2>4 DEF Lifecycle!Publish
<1>2. ASSUME NEW w \in Workers, ApplyBaselines(w) PROVE Lifecycle!ApplyTo(event[w]) /\ event[w] \in Events
  <2>1. event[w] \in Events /\ result[event[w]] = "none"
    BY <1>2, ParamsAssumption
    DEF IInv, TypedInHand, EventsInHand, ApplyBaselines, TypeOK, Events
  <2>2. m_frozen /\ UNCHANGED <<m_frozen, m_calib>>
    BY <1>2 DEF IInv, OnceProtocol, ApplyBaselines, ApplyPcs, shared
  <2>3. used'[event[w]] = m_calib
    <3>1. used[event[w]].pedestals = m_calib.pedestals
      BY <1>2 DEF IInv, TypedInHand, EventsInHand, ApplyBaselines
    <3>2. used' = [used EXCEPT ![event[w]].sample_baselines = m_calib.sample_baselines]
      BY <1>2 DEF ApplyBaselines
    <3>3. /\ used[event[w]] \in [pedestals : PedestalSnapshots \cup {NotSet},
                                 sample_baselines : BaselineSnapshots \cup {NotSet}]
          /\ m_calib \in [pedestals : PedestalSnapshots \cup {NotSet},
                          sample_baselines : BaselineSnapshots \cup {NotSet}]
      BY <2>1 DEF IInv, TypedInHand, TypeOK
    <3>4. used'[event[w]] = [used[event[w]] EXCEPT !.sample_baselines = m_calib.sample_baselines]
      BY <2>1, <3>2 DEF IInv, TypedInHand, TypeOK
    <3>5. QED BY <3>1, <3>3, <3>4
  <2>4. result' = [result EXCEPT ![event[w]] = "applied"]
    BY <1>2 DEF ApplyBaselines, Finish
  <2>5. AppliedWith' = [AppliedWith EXCEPT ![event[w]] = m_calib]
    <3>1. \A e \in Events \ {event[w]} : used'[e] = used[e] /\ result'[e] = result[e]
      BY <1>2, <2>4 DEF ApplyBaselines, IInv, TypedInHand, TypeOK
    <3>2. result'[event[w]] = "applied"
      BY <2>1, <2>4 DEF IInv, TypedInHand, TypeOK
    <3>3. QED BY <2>1, <2>3, <3>1, <3>2 DEF AppliedWith
  <2>6. Published = m_calib /\ Published' = m_calib /\ m_calib # NoCalib
    BY <2>2 DEF Published, IInv, OnceProtocol, NoCalib
  <2>7. AppliedWith[event[w]] = NoCalib
    BY <2>1 DEF AppliedWith
  <2>8. QED BY <2>1, <2>5, <2>6, <2>7 DEF Lifecycle!ApplyTo
<1>3. ASSUME UNCHANGED m_frozen PROVE UNCHANGED Published
  BY <1>3, CalibWritten DEF Published
<1>4. ASSUME NEW w \in Workers,
             \/ Start(w) \/ LearnPedestals(w) \/ LearnSamples(w) \/ CheckFreeze(w)
             \/ EnterOnce(w) \/ FreezePedestals(w) \/ FreezeBaselines(w)
      PROVE UNCHANGED <<Published, AppliedWith>>
  <2>1. UNCHANGED <<m_frozen, result, used>>
    BY <1>4 DEF Start, LearnPedestals, LearnSamples, CheckFreeze, EnterOnce,
       FreezePedestals, FreezeBaselines, shared, outcome
  <2>2. QED BY <1>3, <2>1 DEF AppliedWith
<1>5. ASSUME NEW w \in Workers,
             \/ LearnPedestalsThrows(w) \/ CheckNoFreeze(w) \/ PassOnce(w)
             \/ FreezePedestalsThrows(w) \/ ReturnOnce(w) \/ ApplyPedestals(w)
      PROVE UNCHANGED <<Published, AppliedWith>>
  <2>1. UNCHANGED m_frozen /\ pc[w] # "idle"
    BY <1>5 DEF LearnPedestalsThrows, CheckNoFreeze, PassOnce, FreezePedestalsThrows,
       ReturnOnce, ApplyPedestals, shared
  <2>2. /\ \/ UNCHANGED result
           \/ \E kind \in {"learned", "lost"} : result' = [result EXCEPT ![event[w]] = kind]
        /\ \/ UNCHANGED used
           \/ used' = [used EXCEPT ![event[w]].pedestals = m_calib.pedestals]
    BY <1>5 DEF LearnPedestalsThrows, CheckNoFreeze, PassOnce, FreezePedestalsThrows,
       ReturnOnce, ApplyPedestals, Finish
  <2>3. UNCHANGED AppliedWith
    BY <2>1, <2>2, AppliedKept
  <2>4. QED BY <1>3, <2>1, <2>3
<1>6. CASE UNCHANGED vars
  BY <1>6 DEF vars, shared, outcome, Published, AppliedWith
<1>7. QED
  BY <1>1, <1>2, <1>4, <1>5, <1>6
  DEF Next, Reconstruct, Learn, Freeze, Apply, Done, Lifecycle!Next

(* GemRecoService implements the life cycle of a calibration: one          *)
(* published snapshot, and every later event reconstructed with it.        *)
THEOREM Refinement == Spec => ImplementsLifecycle
<1>1. IInv /\ IInv' /\ [Next]_vars => [Lifecycle!Next]_(Lifecycle!lifecycleVars)
  BY StepLifecycle
<1>2. QED BY <1>1, InitLifecycle, Invariant, PTL DEF Spec, ImplementsLifecycle, Lifecycle!Spec

-----------------------------------------------------------------------------
(***************************************************************************)
(* What was learned.  A worker that counts an event past the threshold     *)
(* cannot count another before the calibration is frozen, and none         *)
(* afterwards: each event past the threshold is charged to one of the      *)
(* workers that cannot count (again), or to an event that was lost.        *)
(*                                                                         *)
(* The events that were lost before they were counted are some set of lost *)
(* ones (U below).  But for these, what is in the averages of an APV was   *)
(* counted, and is known to its rolling window too, or in the hands of a   *)
(* worker between the two builders, or older than the window.              *)
(***************************************************************************)
Charged ==
    {w \in Workers : IF m_frozen THEN pc[w] # "learnPed"
                     ELSE pc[w] \in {"learnSamp", "check", "once",
                                     "freezePed", "freezeSamp", "store"}}

(* The workers between the two builders; how many events went past both.   *)
Samplers == {w \in Workers : pc[w] = "learnSamp"}
Sampled == m_events_counter - Cardinality(Samplers)

(* The events in the rolling window of an APV, those that workers bring    *)
(* there, and those in the averages of any APV.                            *)
EventsOf(window) == {window[i] : i \in DOMAIN window}
Seen(a) == EventsOf(m_stats[a])
Brought(a) == {event[w] : w \in {v \in Samplers : content[v][a] = "data"}}
Known(a) == Seen(a) \cup Brought(a)
AveragedEvents == UNION {m_averages[a] : a \in Apvs}

LearnedBut(U) ==
    FreezeAfter > 0 =>
        m_events_counter + Cardinality(U)
            <= FreezeAfter - 1 + Cardinality(Charged) + Cardinality(Lost)
CountedBut(U) ==
    /\ Cardinality(AveragedEvents \ U) <= m_events_counter
    /\ Cardinality(AveragedEvents \ U) <= EventsToAverage
DroppedBut(U) ==
    \A a \in Apvs :
        Cardinality(m_averages[a] \ (Known(a) \cup U)) <= Beyond(Sampled, StatLen)
Uncounted(U) == U \subseteq Lost /\ LearnedBut(U) /\ CountedBut(U) /\ DroppedBut(U)

WindowsFill ==
    \A a \in Apvs : Len(m_stats[a]) <= Sampled
LateBound ==
    \A a \in Apvs :
        Cardinality(Known(a) \ m_averages[a]) <= Beyond(m_events_counter, EventsToAverage)

LearnedInv == WindowsFill /\ LateBound /\ \E U \in SUBSET Events : Uncounted(U)

(* A subset of a finite set, and one with an element more.                 *)
LEMMA FewerElements ==
    ASSUME NEW T, IsFiniteSet(T), NEW S, S \subseteq T
    PROVE  /\ IsFiniteSet(S) /\ Cardinality(S) \in Nat /\ Cardinality(T) \in Nat
           /\ Cardinality(S) <= Cardinality(T)
BY FS_Subset, FS_CardinalityType

(* An element more counts one more at most.                                *)
LEMMA OneElementMore ==
    ASSUME NEW T, IsFiniteSet(T), NEW x, NEW S, S \subseteq T \cup {x}
    PROVE  /\ IsFiniteSet(S) /\ Cardinality(S) \in Nat /\ Cardinality(T) \in Nat
           /\ Cardinality(S) <= Cardinality(T) + 1
<1>1. /\ IsFiniteSet(T \cup {x}) /\ Cardinality(T) \in Nat
      /\ Cardinality(T \cup {x}) \in {Cardinality(T), Cardinality(T) + 1}
  BY FS_AddElement, FS_CardinalityType
<1>2. /\ IsFiniteSet(S) /\ Cardinality(S) \in Nat
      /\ Cardinality(S) <= Cardinality(T \cup {x})
  BY <1>1, FewerElements
<1>3. QED BY <1>1, <1>2

(* There are no more workers charged with an event than workers.           *)
LEMMA ChargedFinite ==
    /\ IsFiniteSet(Charged) /\ Cardinality(Charged) \in Nat
    /\ Cardinality(Charged) <= Cardinality(Workers)
    /\ Cardinality(Workers) \in Nat
BY WorkersAssumption, FS_Subset, FS_CardinalityType DEF Charged

(* The sets of events are finite.                                          *)
LEMMA EventsFinite == IsFiniteSet(Events)
BY ParamsAssumption, FS_Interval DEF Events

(* Few events are lost: the numbers of the bounds are numbers.             *)
LEMMA LostFinite == IsFiniteSet(Lost) /\ Cardinality(Lost) \in Nat
BY EventsFinite, FewerElements DEF Lost

(* There are no more workers at the second builder than workers.           *)
LEMMA SamplersFinite == IsFiniteSet(Samplers) /\ Cardinality(Samplers) \in Nat
BY WorkersAssumption, FewerElements DEF Samplers

(* The event a worker has in hand is not lost.                             *)
LEMMA HeldEvent ==
    ASSUME IInv, NEW w \in Workers, pc[w] # "idle"
    PROVE  event[w] \in Events /\ event[w] \notin Lost
BY ParamsAssumption DEF IInv, TypedInHand, EventsInHand, TypeOK, Events, Lost

(* What the two windows of an APV know are finite sets of events.          *)
LEMMA KnownFinite ==
    ASSUME IInv, NEW a \in Apvs
    PROVE  /\ Seen(a) \subseteq Events /\ Brought(a) \subseteq Events
           /\ IsFiniteSet(Known(a)) /\ IsFiniteSet(Brought(a)) /\ IsFiniteSet(Seen(a))
           /\ IsFiniteSet(m_averages[a]) /\ m_averages[a] \subseteq Events
           /\ IsFiniteSet(AveragedEvents) /\ Cardinality(Brought(a)) <= Cardinality(Samplers)
           /\ Cardinality(Brought(a)) \in Nat
<1>1. m_stats[a] \in Seq(Events) /\ \A b \in Apvs : m_averages[b] \subseteq Events
  BY DEF IInv, TypedInHand, TypeOK
<1>2. Seen(a) \subseteq Events
  BY <1>1 DEF Seen, EventsOf
<1>3. Brought(a) \subseteq Events
  BY HeldEvent DEF Brought, Samplers
<1>4. AveragedEvents \subseteq Events
  BY <1>1 DEF AveragedEvents
<1>5. Cardinality(Brought(a)) <= Cardinality(Samplers)
  <2> DEFINE Ours == {v \in Samplers : content[v][a] = "data"}
             held == [v \in Ours |-> event[v]]
             Held == {held[v] : v \in Ours}
  <2>1. held \in Surjection(Ours, Held) /\ Brought(a) = Held
    BY DEF Surjection, Brought
  <2>2. IsFiniteSet(Ours) /\ Cardinality(Ours) \in Nat /\ Cardinality(Ours) <= Cardinality(Samplers)
    BY SamplersFinite, FewerElements
  <2> HIDE DEF held, Held, Ours
  <2>3. IsFiniteSet(Held) /\ Cardinality(Held) <= Cardinality(Ours)
    BY <2>1, <2>2, FS_Surjection
  <2>4. Cardinality(Held) \in Nat
    BY <2>3, FS_CardinalityType
  <2>5. QED BY <2>1, <2>2, <2>3, <2>4, SamplersFinite
<1>6. IsFiniteSet(Known(a))
  BY <1>2, <1>3, EventsFinite, FS_Subset DEF Known
<1>7. QED BY <1>1, <1>2, <1>3, <1>4, <1>5, <1>6, EventsFinite, FS_Subset, FewerElements

(* An event that is lost stays lost.                                       *)
LEMMA LostGrows ==
    ASSUME IInv, [Next]_vars
    PROVE  Lost \subseteq Lost'
<1> USE DEF IInv, TypedInHand
<1>1. ASSUME NEW w \in Workers, NEW kind \in {"learned", "applied", "lost"},
             pc[w] # "idle", Finish(w, kind)
      PROVE  Lost \subseteq Lost'
  BY <1>1 DEF Finish, Lost, EventsInHand, TypeOK
<1>2. ASSUME UNCHANGED result PROVE Lost \subseteq Lost'
  BY <1>2 DEF Lost
<1>3. QED
  BY <1>1, <1>2 DEF Next, Reconstruct, Learn, Freeze, Apply, Done, Start, LearnPedestals,
     LearnPedestalsThrows, LearnSamples, CheckFreeze, CheckNoFreeze, EnterOnce,
     PassOnce, FreezePedestals, FreezePedestalsThrows, FreezeBaselines, PublishFrozen,
     ReturnOnce, ApplyPedestals, ApplyBaselines, vars, outcome

(* The builders are only taught in the two calls for it, and only these    *)
(* move a worker to the second builder or away from it.                    *)
LEMMA BuildersKept ==
    ASSUME [Next]_vars
    PROVE  /\ UNCHANGED <<m_events_counter, m_averages>>
              \/ \E w \in Workers : LearnPedestals(w) \/ LearnPedestalsThrows(w)
           /\ m_events_counter' = m_events_counter \/ \E w \in Workers : LearnPedestals(w)
           /\ m_stats' = m_stats \/ \E w \in Workers : LearnSamples(w)
BY DEF Next, Reconstruct, Learn, Freeze, Apply, Done, Start, LearnPedestals,
   LearnPedestalsThrows, LearnSamples, CheckFreeze, CheckNoFreeze, EnterOnce,
   PassOnce, FreezePedestals, FreezePedestalsThrows, FreezeBaselines, PublishFrozen,
   ReturnOnce, ApplyPedestals, ApplyBaselines, vars, builders

(* Who is not at the second builder before or after a step is not charged. *)
LEMMA SamplersKept ==
    ASSUME IInv, [Next]_vars,
           \A w \in Workers : ~LearnPedestals(w) /\ ~LearnSamples(w)
    PROVE  /\ Samplers' = Samplers
           /\ \A v \in Samplers : event'[v] = event[v] /\ content'[v] = content[v]
<1> USE DEF IInv, TypedInHand
<1>1. SUFFICES ASSUME NEW v \in Workers
               PROVE  /\ pc'[v] = "learnSamp" <=> pc[v] = "learnSamp"
                      /\ pc[v] = "learnSamp" => event'[v] = event[v] /\ content'[v] = content[v]
  BY DEF Samplers
<1>2. ASSUME NEW w \in Workers, NEW kind, Finish(w, kind), pc[w] # "learnSamp"
      PROVE  /\ pc'[v] = "learnSamp" <=> pc[v] = "learnSamp"
             /\ pc[v] = "learnSamp" => event'[v] = event[v] /\ content'[v] = content[v]
  BY <1>2 DEF Finish, Goto, TypeOK
<1>3. ASSUME NEW w \in Workers,
             \/ LearnPedestalsThrows(w) \/ CheckNoFreeze(w) \/ PassOnce(w)
             \/ FreezePedestalsThrows(w) \/ ReturnOnce(w) \/ ApplyBaselines(w)
      PROVE  /\ pc'[v] = "learnSamp" <=> pc[v] = "learnSamp"
             /\ pc[v] = "learnSamp" => event'[v] = event[v] /\ content'[v] = content[v]
  <2>1. pc[w] # "learnSamp" /\ \E kind : Finish(w, kind)
    BY <1>3 DEF LearnPedestalsThrows, CheckNoFreeze, PassOnce, FreezePedestalsThrows,
       ReturnOnce, ApplyBaselines
  <2>2. QED BY <1>2, <2>1
<1>4. ASSUME NEW w \in Workers,
             \/ Start(w) \/ CheckFreeze(w) \/ EnterOnce(w) \/ FreezePedestals(w)
             \/ FreezeBaselines(w) \/ PublishFrozen(w) \/ ApplyPedestals(w)
      PROVE  /\ pc'[v] = "learnSamp" <=> pc[v] = "learnSamp"
             /\ pc[v] = "learnSamp" => event'[v] = event[v] /\ content'[v] = content[v]
  BY <1>4 DEF Start, CheckFreeze, EnterOnce, FreezePedestals, FreezeBaselines, PublishFrozen,
     ApplyPedestals, Goto, TypeOK, input
<1>5. CASE UNCHANGED vars
  BY <1>5 DEF vars, input
<1>6. QED
  BY <1>3, <1>4, <1>5 DEF Next, Reconstruct, Learn, Freeze, Apply, Done

(* In a step away from the builders everything about them stays.           *)
LEMMA KnownKept ==
    ASSUME IInv, [Next]_vars,
           \A w \in Workers : ~LearnPedestals(w) /\ ~LearnSamples(w)
    PROVE  /\ m_events_counter' = m_events_counter /\ m_stats' = m_stats
           /\ Samplers' = Samplers /\ Sampled' = Sampled
           /\ \A a \in Apvs : Seen(a)' = Seen(a) /\ Known(a)' = Known(a)
<1>1. m_events_counter' = m_events_counter /\ m_stats' = m_stats
  BY BuildersKept
<1>2. \A a \in Apvs : Seen(a)' = Seen(a)
  BY <1>1 DEF Seen, EventsOf
<1>3. \A a \in Apvs : Brought(a)' = Brought(a)
  BY SamplersKept DEF Brought
<1>4. QED BY <1>1, <1>2, <1>3, SamplersKept DEF Known, Sampled

(* The first builder counts an event, averages it unless the window is     *)
(* full, and leaves it with the worker.                                    *)
LEMMA FirstBuilder ==
    ASSUME IInv, NEW w \in Workers, LearnPedestals(w)
    PROVE  /\ m_events_counter' = m_events_counter + 1 /\ Sampled' = Sampled
           /\ m_stats' = m_stats /\ Lost' = Lost
           /\ Cardinality(Charged') = Cardinality(Charged) + 1
           /\ \A a \in Apvs :
                IF content[w][a] = "data"
                THEN /\ Known(a)' = Known(a) \cup {event[w]}
                     /\ m_averages'[a] = IF m_events_counter < EventsToAverage
                                         THEN m_averages[a] \cup {event[w]} ELSE m_averages[a]
                ELSE Known(a)' = Known(a) /\ m_averages'[a] = m_averages[a]
<1> USE DEF IInv, TypedInHand
<1>1. /\ pc[w] = "learnPed" /\ pc'[w] = "learnSamp"
      /\ \A v \in Workers : v # w => pc'[v] = pc[v]
      /\ UNCHANGED <<m_stats, event, content, result, m_frozen>>
      /\ m_averages' = Averaged(w) /\ m_events_counter' = m_events_counter + 1
  BY DEF LearnPedestals, Goto, TypeOK, input, outcome, shared
<1>2. Samplers' = Samplers \cup {w} /\ w \notin Samplers
  BY <1>1 DEF Samplers
<1>3. Cardinality(Samplers') = Cardinality(Samplers) + 1
  BY <1>2, SamplersFinite, FS_AddElement
<1>4. Sampled' = Sampled
  BY <1>1, <1>3, SamplersFinite DEF Sampled, TypeOK
<1>5. Charged' = Charged \cup {w} /\ w \notin Charged
  BY <1>1 DEF Charged
<1>6. Cardinality(Charged') = Cardinality(Charged) + 1
  BY <1>5, ChargedFinite, FS_AddElement
<1>7. ASSUME NEW a \in Apvs
      PROVE  /\ Seen(a)' = Seen(a)
             /\ Brought(a)' = IF content[w][a] = "data" THEN Brought(a) \cup {event[w]} ELSE Brought(a)
  BY <1>1, <1>2 DEF Seen, Brought
<1>8. \A a \in Apvs : m_averages'[a] = Averaged(w)[a]
  BY <1>1
<1>9. Lost' = Lost
  BY <1>1 DEF Lost
<1>10. QED BY <1>1, <1>4, <1>6, <1>7, <1>8, <1>9 DEF Known, Averaged

(* When it throws, the event is in some of the averages, and is lost.      *)
LEMMA FirstBuilderThrows ==
    ASSUME IInv, [Next]_vars, NEW w \in Workers, LearnPedestalsThrows(w)
    PROVE  /\ m_events_counter' = m_events_counter /\ Sampled' = Sampled
           /\ \A a \in Apvs : /\ Known(a)' = Known(a)
                              /\ m_averages[a] \subseteq m_averages'[a]
                              /\ m_averages'[a] \subseteq m_averages[a] \cup {event[w]}
           /\ Charged \subseteq Charged'
           /\ event[w] \in Events /\ Lost' = Lost \cup {event[w]}
           /\ Cardinality(Lost') = Cardinality(Lost) + 1
<1> USE DEF IInv, TypedInHand
<1>1. /\ pc[w] = "learnPed" /\ pc'[w] = "idle" /\ UNCHANGED <<m_frozen, m_events_counter>>
      /\ \A v \in Workers : v # w => pc'[v] = pc[v]
      /\ result' = [result EXCEPT ![event[w]] = "lost"]
  BY DEF LearnPedestalsThrows, Finish, Goto, TypeOK, shared
<1>2. event[w] \in Events /\ event[w] \notin Lost
  BY <1>1, HeldEvent
<1>3. Lost' = Lost \cup {event[w]}
  BY <1>1, <1>2 DEF Lost, TypeOK
<1>4. Cardinality(Lost') = Cardinality(Lost) + 1
  BY <1>2, <1>3, LostFinite, FS_AddElement
<1>5. Charged \subseteq Charged'
  BY <1>1 DEF Charged
<1>6. \A v \in Workers : ~LearnPedestals(v) /\ ~LearnSamples(v)
  <2>1. ASSUME NEW v \in Workers, LearnPedestals(v) \/ LearnSamples(v) PROVE pc'[w] # "idle"
    BY <1>1, <2>1 DEF LearnPedestals, LearnSamples, Goto, TypeOK
  <2>2. QED BY <1>1, <2>1
<1>7. \A a \in Apvs : /\ m_averages[a] \subseteq m_averages'[a]
                      /\ m_averages'[a] \subseteq m_averages[a] \cup {event[w]}
  BY DEF LearnPedestalsThrows, Averaged
<1>8. QED BY <1>2, <1>3, <1>4, <1>5, <1>6, <1>7, KnownKept

(* A rolling window takes the event, and drops one at most, if it is full. *)
LEMMA RolledSees ==
    ASSUME NEW window \in Seq(Events), NEW e \in Events
    PROVE  /\ Len(Rolled(window, e)) <= Len(window) + 1
           /\ EventsOf(Rolled(window, e)) \subseteq EventsOf(window) \cup {e}
           /\ \E x \in Events :
                EventsOf(window) \cup {e} \subseteq EventsOf(Rolled(window, e)) \cup {x}
           /\ Len(window) < StatLen =>
                EventsOf(window) \cup {e} \subseteq EventsOf(Rolled(window, e))
<1>1. DOMAIN window = 1..Len(window) /\ Len(window) \in Nat
  OBVIOUS
<1>2. CASE StatLen = 0
  <2>1. Rolled(window, e) = window
    BY <1>2 DEF Rolled
  <2>2. QED BY <1>1, <1>2, <2>1
<1>3. ASSUME NEW rest \in Seq(Events)
      PROVE  /\ Len(Append(rest, e)) = Len(rest) + 1
             /\ EventsOf(Append(rest, e)) = EventsOf(rest) \cup {e}
  <2>1. /\ DOMAIN rest = 1..Len(rest) /\ DOMAIN Append(rest, e) = 1..Len(rest) + 1
        /\ Len(rest) \in Nat /\ Len(Append(rest, e)) = Len(rest) + 1
        /\ Append(rest, e)[Len(rest) + 1] = e
        /\ \A i \in 1..Len(rest) : Append(rest, e)[i] = rest[i]
    OBVIOUS
  <2>2. 1..Len(rest) + 1 = 1..Len(rest) \cup {Len(rest) + 1}
    BY <2>1
  <2>3. QED BY <2>1, <2>2 DEF EventsOf
<1>4. CASE StatLen # 0 /\ Len(window) # StatLen
  <2>1. Rolled(window, e) = Append(window, e)
    BY <1>4 DEF Rolled
  <2>2. QED BY <1>1, <1>3, <2>1
<1>5. CASE StatLen # 0 /\ Len(window) = StatLen
  <2>1. Rolled(window, e) = Append(Tail(window), e)
    BY <1>5 DEF Rolled
  <2>2. /\ Tail(window) \in Seq(Events) /\ Len(Tail(window)) = Len(window) - 1
        /\ window[1] \in Events /\ DOMAIN Tail(window) = 1..Len(window) - 1
        /\ \A i \in 1..Len(window) - 1 : Tail(window)[i] = window[i + 1] /\ i + 1 \in 1..Len(window)
    BY <1>1, <1>5, ParamsAssumption
  <2>3. EventsOf(window) \subseteq EventsOf(Tail(window)) \cup {window[1]}
    <3>1. SUFFICES ASSUME NEW i \in 1..Len(window), i # 1
                   PROVE  window[i] \in EventsOf(Tail(window))
      BY <1>1 DEF EventsOf
    <3>2. i - 1 \in 1..Len(window) - 1 /\ (i - 1) + 1 = i
      BY <1>1, <3>1
    <3>3. window[i] = Tail(window)[i - 1]
      BY <2>2, <3>2
    <3>4. QED BY <2>2, <3>2, <3>3 DEF EventsOf
  <2>4. EventsOf(Tail(window)) \subseteq EventsOf(window)
    BY <1>1, <2>2 DEF EventsOf
  <2>5. /\ Len(Rolled(window, e)) = Len(window) - 1 + 1
        /\ EventsOf(Rolled(window, e)) = EventsOf(Tail(window)) \cup {e}
    BY <1>3, <2>1, <2>2
  <2>6. /\ Len(Rolled(window, e)) <= Len(window) + 1 /\ ~(Len(window) < StatLen)
    BY <1>1, <1>5, <2>5, ParamsAssumption
  <2>7. QED BY <2>2, <2>3, <2>4, <2>5, <2>6, Zenon
<1>6. QED BY <1>2, <1>4, <1>5

(* The second builder loses one event of each APV, if its window is full.  *)
LEMMA SecondBuilder ==
    ASSUME IInv, WindowsFill, NEW w \in Workers, LearnSamples(w)
    PROVE  /\ UNCHANGED <<m_events_counter, m_averages>> /\ Lost' = Lost
           /\ Sampled' = Sampled + 1 /\ Charged' = Charged
           /\ \A a \in Apvs :
                /\ Len(m_stats'[a]) <= Len(m_stats[a]) + 1
                /\ Known(a)' \subseteq Known(a)
                /\ \E x \in Events : Known(a) \subseteq Known(a)' \cup {x}
                /\ Sampled < StatLen => Known(a) \subseteq Known(a)'
<1> USE DEF IInv, TypedInHand
<1>1. /\ pc[w] = "learnSamp" /\ pc'[w] = "check"
      /\ \A v \in Workers : v # w => pc'[v] = pc[v]
      /\ UNCHANGED <<m_averages, m_events_counter, event, content, result, m_frozen>>
  BY DEF LearnSamples, Goto, TypeOK, input, outcome, shared
<1>2. Samplers' = Samplers \ {w} /\ w \in Samplers
  BY <1>1 DEF Samplers
<1>3. Cardinality(Samplers') = Cardinality(Samplers) - 1
  BY <1>2, SamplersFinite, FS_RemoveElement
<1>4. Sampled' = Sampled + 1
  BY <1>1, <1>3, SamplersFinite DEF Sampled, TypeOK
<1>5. Charged' = Charged
  BY <1>1 DEF Charged
<1>6. event[w] \in Events
  BY <1>1, HeldEvent
<1>7. ASSUME NEW a \in Apvs
      PROVE  /\ Len(m_stats'[a]) <= Len(m_stats[a]) + 1
             /\ Known(a)' \subseteq Known(a)
             /\ \E x \in Events : Known(a) \subseteq Known(a)' \cup {x}
             /\ Sampled < StatLen => Known(a) \subseteq Known(a)'
  <2>1. m_stats[a] \in Seq(Events) /\ Len(m_stats[a]) \in Nat
    BY DEF TypeOK
  <2>2. CASE content[w][a] # "data"
    <3>1. m_stats'[a] = m_stats[a]
      BY <2>2 DEF LearnSamples
    <3>2. Seen(a)' = Seen(a)
      BY <3>1 DEF Seen
    <3>3. Brought(a)' = Brought(a)
      BY <1>1, <1>2, <2>2 DEF Brought
    <3>4. QED BY <1>6, <2>1, <3>1, <3>2, <3>3 DEF Known
  <2>3. CASE content[w][a] = "data"
    <3>1. m_stats'[a] = Rolled(m_stats[a], event[w])
      BY <2>3 DEF LearnSamples
    <3>2. /\ Brought(a) \subseteq Brought(a)' \cup {event[w]} /\ Brought(a)' \subseteq Brought(a)
          /\ event[w] \in Brought(a)
      BY <1>1, <1>2, <2>3 DEF Brought
    <3>3. /\ Len(m_stats'[a]) <= Len(m_stats[a]) + 1
          /\ Seen(a)' \subseteq Seen(a) \cup {event[w]}
          /\ \E x \in Events : Seen(a) \cup {event[w]} \subseteq Seen(a)' \cup {x}
          /\ Len(m_stats[a]) < StatLen => Seen(a) \cup {event[w]} \subseteq Seen(a)'
      BY <1>6, <2>1, <3>1, RolledSees DEF Seen
    <3>4. Sampled < StatLen => Len(m_stats[a]) < StatLen
      BY <2>1, SamplersFinite, ParamsAssumption DEF WindowsFill, Sampled, TypeOK
    <3>5. QED BY <3>2, <3>3, <3>4 DEF Known
  <2>4. QED BY <2>2, <2>3
<1>8. Lost' = Lost
  BY <1>1 DEF Lost
<1>9. QED BY <1>1, <1>4, <1>5, <1>7, <1>8

(* A set that two others cover has no more elements than they.             *)
LEMMA UnionCard ==
    ASSUME NEW S, NEW T, NEW R, IsFiniteSet(S), IsFiniteSet(T), R \subseteq S \cup T
    PROVE  /\ IsFiniteSet(R) /\ Cardinality(R) <= Cardinality(S) + Cardinality(T)
           /\ Cardinality(R) \in Nat /\ Cardinality(S) \in Nat /\ Cardinality(T) \in Nat
<1>1. /\ IsFiniteSet(S \cup T) /\ IsFiniteSet(S \cap T)
      /\ Cardinality(S) \in Nat /\ Cardinality(T) \in Nat /\ Cardinality(S \cap T) \in Nat
      /\ Cardinality(S \cup T) =
            Cardinality(S) + Cardinality(T) - Cardinality(S \cap T)
  BY FS_Union, FS_Intersection, FS_CardinalityType
<1>2. /\ IsFiniteSet(R) /\ Cardinality(R) \in Nat
      /\ Cardinality(R) <= Cardinality(S \cup T)
  BY <1>1, FewerElements
<1>3. QED BY <1>1, <1>2

(* At the start nothing was learned.                                       *)
LEMMA InitLearned == IInv /\ Init => LearnedInv
<1> SUFFICES ASSUME IInv, Init PROVE LearnedInv
  OBVIOUS
<1>1. Samplers = {} /\ Lost = {} /\ m_events_counter = 0
  BY DEF Init, Samplers, Lost
<1>2. \A a \in Apvs : m_stats[a] = <<>> /\ m_averages[a] = {}
  BY DEF Init
<1>3. Sampled = 0 /\ Cardinality({}) = 0
  BY <1>1, FS_EmptySet DEF Sampled
<1>4. \A a \in Apvs : Known(a) = {}
  BY <1>1, <1>2 DEF Known, Seen, EventsOf, Brought
<1>5. WindowsFill
  BY <1>2, <1>3 DEF WindowsFill
<1>6. LateBound
  BY <1>1, <1>3, <1>4, ParamsAssumption DEF LateBound, Beyond
<1>7. Uncounted({})
  <2>1. AveragedEvents = {}
    BY <1>2 DEF AveragedEvents
  <2>2. LearnedBut({})
    BY <1>1, <1>3, ChargedFinite, ParamsAssumption DEF LearnedBut
  <2>3. CountedBut({})
    BY <1>1, <1>3, <2>1, ParamsAssumption DEF CountedBut
  <2>4. DroppedBut({})
    <3>1. \A a \in Apvs : m_averages[a] \ (Known(a) \cup {}) = {}
      BY <1>2
    <3>2. Beyond(Sampled, StatLen) = 0
      BY <1>3, ParamsAssumption DEF Beyond
    <3>3. QED BY <1>3, <3>1, <3>2 DEF DroppedBut
  <2>5. QED BY <2>2, <2>3, <2>4 DEF Uncounted
<1>8. QED BY <1>5, <1>6, <1>7 DEF LearnedInv

(* The windows are never longer than what came to them.                    *)
LEMMA NextFill ==
    ASSUME IInv, IInv', WindowsFill, [Next]_vars
    PROVE  WindowsFill'
<1>1. \A a \in Apvs : Len(m_stats[a]) \in Nat /\ Len(m_stats'[a]) \in Nat
  BY DEF IInv, TypedInHand, TypeOK
<1>2. Sampled \in Int
  BY SamplersFinite DEF Sampled, IInv, TypedInHand, TypeOK
<1>3. ASSUME NEW w \in Workers, LearnPedestals(w) PROVE WindowsFill'
  BY <1>3, FirstBuilder DEF WindowsFill
<1>4. ASSUME NEW w \in Workers, LearnSamples(w) PROVE WindowsFill'
  BY <1>1, <1>2, <1>4, SecondBuilder DEF WindowsFill
<1>5. CASE \A w \in Workers : ~LearnPedestals(w) /\ ~LearnSamples(w)
  BY <1>5, KnownKept DEF WindowsFill
<1>6. QED BY <1>3, <1>4, <1>5

(* What is known of an event that was not averaged came too late for it.   *)
LEMMA NextLate ==
    ASSUME IInv, IInv', WindowsFill, LateBound, [Next]_vars
    PROVE  LateBound'
<1>1. SUFFICES ASSUME NEW a \in Apvs
               PROVE  Cardinality(Known(a)' \ m_averages'[a])
                        <= Beyond(m_events_counter', EventsToAverage)
  BY DEF LateBound
<1> DEFINE late == Known(a) \ m_averages[a]
<1>2. /\ IsFiniteSet(late) /\ m_events_counter \in Nat /\ EventsToAverage \in Nat
      /\ Cardinality(late) <= Beyond(m_events_counter, EventsToAverage)
  BY KnownFinite, FS_Subset, ParamsAssumption DEF LateBound, IInv, TypedInHand, TypeOK
<1>3. ASSUME NEW w \in Workers, LearnPedestals(w)
      PROVE  Cardinality(Known(a)' \ m_averages'[a])
                <= Beyond(m_events_counter', EventsToAverage)
  <2>1. m_events_counter' = m_events_counter + 1
    BY <1>3, FirstBuilder
  <2>2. CASE m_events_counter < EventsToAverage \/ content[w][a] # "data"
    <3>1. Known(a)' \ m_averages'[a] \subseteq late
      BY <1>3, <2>2, FirstBuilder, Zenon
    <3>2. Cardinality(Known(a)' \ m_averages'[a]) <= Cardinality(late)
          /\ Cardinality(late) \in Nat /\ Cardinality(Known(a)' \ m_averages'[a]) \in Nat
      BY <1>2, <3>1, FewerElements
    <3>3. QED BY <1>2, <2>1, <3>2 DEF Beyond
  <2>3. CASE ~(m_events_counter < EventsToAverage)
    <3>1. Known(a)' \ m_averages'[a] \subseteq late \cup {event[w]}
      BY <1>3, <2>3, FirstBuilder, Zenon
    <3>2. Cardinality(Known(a)' \ m_averages'[a]) <= Cardinality(late) + 1
          /\ Cardinality(late) \in Nat /\ Cardinality(Known(a)' \ m_averages'[a]) \in Nat
      BY <1>2, <3>1, OneElementMore
    <3>3. QED BY <1>2, <2>1, <2>3, <3>2 DEF Beyond
  <2>4. QED BY <2>2, <2>3
<1>4. ASSUME Known(a)' \subseteq Known(a), m_averages[a] \subseteq m_averages'[a],
             m_events_counter' = m_events_counter
      PROVE  Cardinality(Known(a)' \ m_averages'[a])
                <= Beyond(m_events_counter', EventsToAverage)
  <2>1. Known(a)' \ m_averages'[a] \subseteq late
    BY <1>4
  <2>2. Cardinality(Known(a)' \ m_averages'[a]) <= Cardinality(late)
        /\ Cardinality(late) \in Nat /\ Cardinality(Known(a)' \ m_averages'[a]) \in Nat
    BY <1>2, <2>1, FewerElements
  <2>3. QED BY <1>2, <1>4, <2>2 DEF Beyond
<1>5. ASSUME NEW w \in Workers, LearnSamples(w)
      PROVE  Cardinality(Known(a)' \ m_averages'[a])
                <= Beyond(m_events_counter', EventsToAverage)
  BY <1>4, <1>5, SecondBuilder
<1>6. ASSUME NEW w \in Workers, LearnPedestalsThrows(w)
      PROVE  Cardinality(Known(a)' \ m_averages'[a])
                <= Beyond(m_events_counter', EventsToAverage)
  BY <1>4, <1>6, FirstBuilderThrows
<1>7. CASE \A w \in Workers : ~LearnPedestals(w) /\ ~LearnSamples(w) /\ ~LearnPedestalsThrows(w)
  <2>1. m_averages' = m_averages
    BY <1>7, BuildersKept
  <2>2. QED BY <1>4, <1>7, <2>1, KnownKept
<1>8. QED BY <1>3, <1>5, <1>6, <1>7

(* A loss that was not counted is charged to itself, and so is a freeze    *)
(* that threw; every other event past the threshold to its worker.         *)
LEMMA NextLearnedBut ==
    ASSUME IInv, [Next]_vars, NEW U \in SUBSET Events, U \subseteq Lost, LearnedBut(U),
           \A w \in Workers : ~LearnPedestalsThrows(w)
    PROVE  LearnedBut(U)'
<1> USE DEF IInv, TypedInHand
<1>0. /\ Lost \subseteq Lost' /\ Cardinality(Lost) \in Nat /\ Cardinality(Lost') \in Nat
      /\ Cardinality(Lost) <= Cardinality(Lost') /\ IsFiniteSet(Lost)
      /\ Cardinality(U) \in Nat /\ Cardinality(U) <= Cardinality(Lost)
      /\ m_events_counter \in Nat /\ FreezeAfter \in Nat
  <2>1. IsFiniteSet(Lost) /\ IsFiniteSet(Lost')
    BY EventsFinite, FewerElements DEF Lost
  <2>2. QED BY <2>1, LostGrows, FewerElements, ParamsAssumption DEF TypeOK
<1>1. ASSUME NEW w \in Workers, LearnPedestals(w) PROVE LearnedBut(U)'
  BY <1>0, <1>1, FirstBuilder, ChargedFinite DEF LearnedBut
<1>2. ASSUME NEW w \in Workers, FreezePedestalsThrows(w) PROVE LearnedBut(U)'
  <2>1. /\ pc[w] = "freezePed" /\ pc'[w] = "idle" /\ ~m_frozen /\ ~m_frozen'
        /\ \A v \in Workers : v # w => pc'[v] = pc[v]
        /\ result' = [result EXCEPT ![event[w]] = "lost"]
        /\ m_events_counter' = m_events_counter
    BY <1>2 DEF FreezePedestalsThrows, Finish, Goto, TypeOK, OnceProtocol, builders
  <2>2. event[w] \in Events /\ event[w] \notin Lost
    BY <2>1, HeldEvent
  <2>3. Lost' = Lost \cup {event[w]}
    BY <2>1, <2>2 DEF Lost, TypeOK
  <2>4. Cardinality(Lost') = Cardinality(Lost) + 1
    BY <1>0, <2>2, <2>3, FS_AddElement
  <2>5. Charged' = Charged \ {w} /\ w \in Charged
    BY <2>1 DEF Charged
  <2>6. Cardinality(Charged') = Cardinality(Charged) - 1
    BY <2>5, ChargedFinite, FS_RemoveElement
  <2>7. QED BY <1>0, <2>1, <2>4, <2>6, ChargedFinite DEF LearnedBut
<1>3. ASSUME NEW w \in Workers, CheckNoFreeze(w) PROVE LearnedBut(U)'
  <2>1. FreezeAfter > 0 => m_events_counter <= FreezeAfter - 1
    BY <1>3, ParamsAssumption DEF CheckNoFreeze, FreezeDue, TypeOK
  <2>2. Cardinality(Charged') \in Nat
    BY WorkersAssumption, FS_Subset, FS_CardinalityType DEF Charged
  <2>3. m_events_counter' = m_events_counter
    BY <1>3 DEF CheckNoFreeze, builders
  <2>4. QED BY <1>0, <2>1, <2>2, <2>3 DEF LearnedBut
<1>4. ASSUME Charged \subseteq Charged', m_events_counter' = m_events_counter
      PROVE  LearnedBut(U)'
  <2>1. IsFiniteSet(Charged') /\ Cardinality(Charged') \in Nat
    BY WorkersAssumption, FS_Subset, FS_CardinalityType DEF Charged
  <2>2. Cardinality(Charged) <= Cardinality(Charged')
    BY <1>4, <2>1, FS_Subset
  <2>3. QED BY <1>0, <1>4, <2>1, <2>2, ChargedFinite DEF LearnedBut
<1>5. ASSUME NEW w \in Workers,
             \/ Start(w) \/ LearnSamples(w) \/ CheckFreeze(w) \/ EnterOnce(w)
             \/ FreezePedestals(w) \/ FreezeBaselines(w) \/ PublishFrozen(w)
      PROVE  LearnedBut(U)'
  <2>1. Charged \subseteq Charged' /\ m_events_counter' = m_events_counter
    BY <1>5 DEF Start, LearnSamples, CheckFreeze, EnterOnce, FreezePedestals, FreezeBaselines,
       PublishFrozen, Charged, Goto, TypeOK, builders, shared
  <2>2. QED BY <1>4, <2>1
<1>6. ASSUME NEW w \in Workers, PassOnce(w) \/ ReturnOnce(w) \/ ApplyPedestals(w) \/ ApplyBaselines(w)
      PROVE  LearnedBut(U)'
  <2>1. m_frozen /\ m_frozen' /\ m_events_counter' = m_events_counter
    BY <1>6 DEF PassOnce, ReturnOnce, ApplyPedestals, ApplyBaselines, OnceProtocol,
       ApplyPcs, builders, shared
  <2>2. Charged \subseteq Charged'
    BY <1>6, <2>1 DEF PassOnce, ReturnOnce, ApplyPedestals, ApplyBaselines, Finish, Goto,
       Charged, TypeOK
  <2>3. QED BY <1>4, <2>1, <2>2
<1>7. CASE UNCHANGED vars
  <2>1. Charged \subseteq Charged' /\ m_events_counter' = m_events_counter
    BY <1>7 DEF vars, builders, shared, Charged
  <2>2. QED BY <1>4, <2>1
<1>8. QED
  BY <1>1, <1>2, <1>3, <1>5, <1>6, <1>7
  DEF Next, Reconstruct, Learn, Freeze, Apply, Done

(* Only what is counted is averaged, and while the window is open.         *)
LEMMA NextCountedBut ==
    ASSUME IInv, [Next]_vars, NEW U \in SUBSET Events, CountedBut(U),
           \A w \in Workers : ~LearnPedestalsThrows(w)
    PROVE  CountedBut(U)'
<1> DEFINE counted == AveragedEvents \ U
<1>1. /\ IsFiniteSet(counted) /\ m_events_counter \in Nat /\ EventsToAverage \in Nat
      /\ Cardinality(counted) <= m_events_counter /\ Cardinality(counted) <= EventsToAverage
  <2>1. AveragedEvents \subseteq Events
    BY DEF AveragedEvents, IInv, TypedInHand, TypeOK
  <2>2. IsFiniteSet(counted)
    BY <2>1, EventsFinite, FS_Subset
  <2>3. QED BY <2>2, ParamsAssumption DEF CountedBut, IInv, TypedInHand, TypeOK
<1>2. ASSUME NEW w \in Workers, LearnPedestals(w) PROVE CountedBut(U)'
  <2>1. m_events_counter' = m_events_counter + 1
    BY <1>2, FirstBuilder
  <2>2. CASE m_events_counter < EventsToAverage
    <3>1. AveragedEvents' \ U \subseteq counted \cup {event[w]}
      <4>1. \A a \in Apvs : m_averages'[a] \subseteq m_averages[a] \cup {event[w]}
        BY <1>2, FirstBuilder
      <4>2. QED BY <4>1 DEF AveragedEvents
    <3>2. /\ Cardinality(AveragedEvents' \ U) <= Cardinality(counted) + 1
          /\ Cardinality(counted) \in Nat /\ Cardinality(AveragedEvents' \ U) \in Nat
      BY <1>1, <3>1, OneElementMore
    <3>3. QED BY <1>1, <2>1, <2>2, <3>2 DEF CountedBut
  <2>3. CASE ~(m_events_counter < EventsToAverage)
    <3>1. AveragedEvents' \ U = counted
      <4>1. \A a \in Apvs : m_averages'[a] = m_averages[a]
        BY <1>2, <2>3, FirstBuilder
      <4>2. QED BY <4>1 DEF AveragedEvents
    <3>2. Cardinality(AveragedEvents' \ U) = Cardinality(counted) /\ Cardinality(counted) \in Nat
      BY <1>1, <3>1, FS_CardinalityType
    <3>3. QED BY <1>1, <2>1, <3>2 DEF CountedBut
  <2>4. QED BY <2>2, <2>3
<1>3. CASE \A w \in Workers : ~LearnPedestals(w)
  <2>1. m_averages' = m_averages /\ m_events_counter' = m_events_counter
    BY <1>3, BuildersKept
  <2>2. QED BY <2>1 DEF CountedBut, AveragedEvents
<1>4. QED BY <1>2, <1>3

(* What is averaged is only unknown to the window if it is older.          *)
LEMMA NextDroppedBut ==
    ASSUME IInv, [Next]_vars, WindowsFill, NEW U \in SUBSET Events, DroppedBut(U),
           \A w \in Workers : ~LearnPedestalsThrows(w)
    PROVE  DroppedBut(U)'
<1>1. SUFFICES ASSUME NEW a \in Apvs
               PROVE  Cardinality(m_averages'[a] \ (Known(a)' \cup U)) <= Beyond(Sampled', StatLen)
  BY DEF DroppedBut
<1> DEFINE dropped == m_averages[a] \ (Known(a) \cup U)
<1>2. /\ IsFiniteSet(dropped) /\ Cardinality(dropped) <= Beyond(Sampled, StatLen)
      /\ Sampled \in Int /\ StatLen \in Nat
  <2>1. Sampled \in Int
    BY SamplersFinite DEF Sampled, IInv, TypedInHand, TypeOK
  <2>2. QED BY <2>1, KnownFinite, FS_Subset, ParamsAssumption DEF DroppedBut
<1>3. ASSUME NEW w \in Workers, LearnPedestals(w)
      PROVE  Cardinality(m_averages'[a] \ (Known(a)' \cup U)) <= Beyond(Sampled', StatLen)
  <2>1. m_averages'[a] \ (Known(a)' \cup U) \subseteq dropped
    BY <1>3, FirstBuilder, Zenon
  <2>2. /\ Cardinality(m_averages'[a] \ (Known(a)' \cup U)) <= Cardinality(dropped)
        /\ Cardinality(dropped) \in Nat /\ Cardinality(m_averages'[a] \ (Known(a)' \cup U)) \in Nat
    BY <1>2, <2>1, FewerElements
  <2>3. Sampled' = Sampled
    BY <1>3, FirstBuilder
  <2>4. QED BY <1>2, <2>2, <2>3 DEF Beyond
<1>4. ASSUME NEW w \in Workers, LearnSamples(w)
      PROVE  Cardinality(m_averages'[a] \ (Known(a)' \cup U)) <= Beyond(Sampled', StatLen)
  <2>1. m_averages' = m_averages /\ Sampled' = Sampled + 1
    BY <1>4, SecondBuilder
  <2>2. CASE Sampled < StatLen
    <3>1. Known(a) \subseteq Known(a)'
      BY <1>4, <2>2, SecondBuilder
    <3>2. m_averages'[a] \ (Known(a)' \cup U) \subseteq dropped
      BY <2>1, <3>1, Zenon
    <3>3. /\ Cardinality(m_averages'[a] \ (Known(a)' \cup U)) <= Cardinality(dropped)
          /\ Cardinality(dropped) \in Nat /\ Cardinality(m_averages'[a] \ (Known(a)' \cup U)) \in Nat
      BY <1>2, <3>2, FewerElements
    <3>4. QED BY <1>2, <2>1, <2>2, <3>3 DEF Beyond
  <2>3. CASE ~(Sampled < StatLen)
    <3>1. PICK x \in Events : Known(a) \subseteq Known(a)' \cup {x}
      BY <1>4, SecondBuilder
    <3>2. m_averages'[a] \ (Known(a)' \cup U) \subseteq dropped \cup {x}
      BY <2>1, <3>1, Zenon
    <3>3. /\ Cardinality(m_averages'[a] \ (Known(a)' \cup U)) <= Cardinality(dropped) + 1
          /\ Cardinality(dropped) \in Nat /\ Cardinality(m_averages'[a] \ (Known(a)' \cup U)) \in Nat
      BY <1>2, <3>2, OneElementMore
    <3>4. QED BY <1>2, <2>1, <2>3, <3>3 DEF Beyond
  <2>4. QED BY <2>2, <2>3
<1>5. CASE \A w \in Workers : ~LearnPedestals(w) /\ ~LearnSamples(w)
  <2>1. m_averages' = m_averages
    BY <1>5, BuildersKept
  <2>2. QED BY <1>2, <1>5, <2>1, KnownKept
<1>6. QED BY <1>3, <1>4, <1>5

(* An event whose averaging throws is one more that was not counted.       *)
LEMMA NextThrows ==
    ASSUME IInv, [Next]_vars, NEW U \in SUBSET Events, Uncounted(U),
           NEW w \in Workers, LearnPedestalsThrows(w), NEW V, V = U \cup {event[w]}
    PROVE  Uncounted(V)'
<1>1. /\ m_events_counter' = m_events_counter /\ Sampled' = Sampled
      /\ \A a \in Apvs : /\ Known(a)' = Known(a)
                         /\ m_averages'[a] \subseteq m_averages[a] \cup {event[w]}
      /\ Charged \subseteq Charged' /\ Lost' = Lost \cup {event[w]}
      /\ Cardinality(Lost') = Cardinality(Lost) + 1
  BY FirstBuilderThrows
<1>2. IsFiniteSet(U) /\ U \subseteq Lost
  BY EventsFinite, FS_Subset DEF Uncounted
<1>3. Cardinality(V) <= Cardinality(U) + 1 /\ Cardinality(U) \in Nat /\ Cardinality(V) \in Nat
  BY <1>2, OneElementMore
<1>4. LearnedBut(V)'
  <2>1. IsFiniteSet(Charged') /\ Cardinality(Charged') \in Nat
    BY WorkersAssumption, FS_Subset, FS_CardinalityType DEF Charged
  <2>2. Cardinality(Charged) <= Cardinality(Charged')
    BY <1>1, <2>1, FS_Subset
  <2>3. m_events_counter \in Nat
    BY DEF IInv, TypedInHand, TypeOK
  <2>4. QED
    BY <1>1, <1>3, <2>1, <2>2, <2>3, ChargedFinite, LostFinite, ParamsAssumption
    DEF LearnedBut, Uncounted
<1>5. CountedBut(V)'
  <2>1. AveragedEvents' \ V \subseteq AveragedEvents \ U
    BY <1>1 DEF AveragedEvents
  <2>2. AveragedEvents \subseteq Events
    BY DEF AveragedEvents, IInv, TypedInHand, TypeOK
  <2>3. IsFiniteSet(AveragedEvents \ U)
    BY <2>2, EventsFinite, FS_Subset
  <2>4. /\ Cardinality(AveragedEvents' \ V) <= Cardinality(AveragedEvents \ U)
        /\ Cardinality(AveragedEvents' \ V) \in Nat /\ Cardinality(AveragedEvents \ U) \in Nat
    BY <2>1, <2>3, FewerElements
  <2>5. m_events_counter \in Nat
    BY DEF IInv, TypedInHand, TypeOK
  <2>6. QED BY <1>1, <2>4, <2>5, ParamsAssumption DEF CountedBut, Uncounted
<1>6. DroppedBut(V)'
  <2>1. SUFFICES ASSUME NEW a \in Apvs
                 PROVE  Cardinality(m_averages'[a] \ (Known(a)' \cup V)) <= Beyond(Sampled', StatLen)
    BY DEF DroppedBut
  <2>2. m_averages'[a] \ (Known(a)' \cup V) \subseteq m_averages[a] \ (Known(a) \cup U)
    BY <1>1
  <2>3. IsFiniteSet(m_averages[a] \ (Known(a) \cup U))
    BY KnownFinite, FS_Subset
  <2>4. /\ Cardinality(m_averages'[a] \ (Known(a)' \cup V))
                <= Cardinality(m_averages[a] \ (Known(a) \cup U))
        /\ Cardinality(m_averages'[a] \ (Known(a)' \cup V)) \in Nat
        /\ Cardinality(m_averages[a] \ (Known(a) \cup U)) \in Nat
    BY <2>2, <2>3, FewerElements
  <2>5. Cardinality(m_averages[a] \ (Known(a) \cup U)) <= Beyond(Sampled, StatLen)
    BY DEF Uncounted, DroppedBut
  <2>6. Beyond(Sampled, StatLen) \in Int
    BY SamplersFinite, ParamsAssumption DEF Beyond, Sampled, IInv, TypedInHand, TypeOK
  <2>7. QED BY <1>1, <2>4, <2>5, <2>6
<1>7. V \subseteq Lost'
  BY <1>1, <1>2
<1>8. QED BY <1>4, <1>5, <1>6, <1>7 DEF Uncounted

(* Every step keeps what is said of the learning.                          *)
LEMMA NextLearned == IInv /\ IInv' /\ LearnedInv /\ [Next]_vars => LearnedInv'
<1> SUFFICES ASSUME IInv, IInv', LearnedInv, [Next]_vars PROVE LearnedInv'
  OBVIOUS
<1>1. WindowsFill' /\ LateBound'
  BY NextFill, NextLate DEF LearnedInv
<1>2. PICK U \in SUBSET Events : Uncounted(U)
  BY DEF LearnedInv
<1>3. ASSUME NEW w \in Workers, LearnPedestalsThrows(w)
      PROVE  \E V \in SUBSET Events : Uncounted(V)'
  <2>1. PICK V : V = U \cup {event[w]}
    OBVIOUS
  <2>2. Uncounted(V)'
    BY <1>2, <1>3, <2>1, NextThrows
  <2>3. event[w] \in Events
    BY <1>3, FirstBuilderThrows
  <2>4. QED BY <2>1, <2>2, <2>3
<1>4. CASE \A w \in Workers : ~LearnPedestalsThrows(w)
  <2>1. LearnedBut(U)' /\ CountedBut(U)' /\ DroppedBut(U)'
    BY <1>2, <1>4, NextLearnedBut, NextCountedBut, NextDroppedBut DEF Uncounted, LearnedInv
  <2>2. U \subseteq Lost'
    BY <1>2, LostGrows DEF Uncounted
  <2>3. Uncounted(U)'
    BY <2>1, <2>2 DEF Uncounted
  <2>4. QED BY <1>1, <2>3 DEF LearnedInv
<1>5. QED BY <1>1, <1>3, <1>4 DEF LearnedInv

(* What is said of the learning holds throughout.                          *)
LEMMA LearnedInvariant == Spec => []LearnedInv
BY InitLearned, NextLearned, Invariant, PTL DEF Spec

(* The builders learn from at most one event per other worker after the    *)
(* freeze is due, and one per event that an exception took.                *)
THEOREM LearningBound == Spec => []LearningIsBounded
<1>1. IInv /\ LearnedInv => LearningIsBounded
  <2> SUFFICES ASSUME IInv, FreezeAfter > 0, NEW U \in SUBSET Events, Uncounted(U)
               PROVE  m_events_counter
                        <= FreezeAfter - 1 + Cardinality(Workers) + Cardinality(Lost)
    BY DEF LearnedInv, LearningIsBounded
  <2>1. Cardinality(U) \in Nat
    BY EventsFinite, FewerElements
  <2>2. m_events_counter + Cardinality(U)
            <= FreezeAfter - 1 + Cardinality(Charged) + Cardinality(Lost)
    BY DEF Uncounted, LearnedBut
  <2>3. QED
    BY <2>1, <2>2, ChargedFinite, LostFinite, ParamsAssumption DEF IInv, TypedInHand, TypeOK
<1>2. QED BY <1>1, LearnedInvariant, Invariant, PTL

(* The averages know no events that were not counted, but for those whose  *)
(* averaging threw, and none after the window.                             *)
THEOREM AveragesAreCounted == Spec => []AveragedAreCounted
<1>1. IInv /\ LearnedInv => AveragedAreCounted
  <2> SUFFICES ASSUME IInv, NEW U \in SUBSET Events, Uncounted(U)
               PROVE  AveragedAreCounted
    BY DEF LearnedInv
  <2>1. IsFiniteSet(AveragedEvents)
    <3>1. AveragedEvents \subseteq Events
      BY DEF AveragedEvents, IInv, TypedInHand, TypeOK
    <3>2. QED BY <3>1, EventsFinite, FS_Subset
  <2>2. IsFiniteSet(U) /\ Cardinality(U) \in Nat /\ Cardinality(U) <= Cardinality(Lost)
    BY LostFinite, FewerElements DEF Uncounted
  <2>3. Cardinality(AveragedEvents) <= Cardinality(AveragedEvents \ U) + Cardinality(U)
    <3>1. AveragedEvents \subseteq (AveragedEvents \ U) \cup U /\ IsFiniteSet(AveragedEvents \ U)
      BY <2>1, FS_Subset
    <3>2. QED BY <2>2, <3>1, UnionCard
  <2>4. /\ Cardinality(AveragedEvents \ U) <= m_events_counter
        /\ Cardinality(AveragedEvents \ U) <= EventsToAverage
    BY DEF Uncounted, CountedBut
  <2>5. Cardinality(AveragedEvents) \in Nat /\ Cardinality(AveragedEvents \ U) \in Nat
    BY <2>1, FewerElements
  <2>6. \A n \in {m_events_counter, EventsToAverage} :
            Cardinality(AveragedEvents) <= n + Cardinality(Lost)
    BY <2>2, <2>3, <2>4, <2>5, LostFinite, ParamsAssumption DEF IInv, TypedInHand, TypeOK
  <2>7. QED BY <2>6 DEF AveragedAreCounted, AveragedEvents
<1>2. QED BY <1>1, LearnedInvariant, Invariant, PTL

-----------------------------------------------------------------------------
(* Once the window is closed over a silent APV, a step only loses events.  *)
LEMMA StepClosed ==
    ASSUME IInv, [Next]_vars, WindowClosedOverSilentApv
    PROVE  /\ WindowClosedOverSilentApv'
           /\ \A e \in Events : result'[e] \in {result[e], "lost"}
<1> USE DEF IInv, TypedInHand
<1>1. /\ FreezeDue /\ FreezeThrows /\ ~m_frozen
      /\ m_events_counter >= EventsToAverage
      /\ m_calib.pedestals = NotSet
  BY DEF WindowClosedOverSilentApv, FreezeDue, FreezeThrows, OnceProtocol
<1>2. \A w \in Workers : Averaged(w) = m_averages
  BY <1>1, ParamsAssumption DEF Averaged, TypeOK
<1>3. m_averages' = m_averages
  <2>1. ASSUME NEW w \in Workers, LearnPedestals(w) \/ LearnPedestalsThrows(w)
        PROVE  m_averages' = m_averages
    BY <1>2, <2>1 DEF LearnPedestals, LearnPedestalsThrows, TypeOK
  <2>2. QED
    BY <2>1 DEF Next, Reconstruct, Learn, Freeze, Apply, Done, Start, LearnSamples,
       CheckFreeze, CheckNoFreeze, EnterOnce, PassOnce, FreezePedestals,
       FreezePedestalsThrows, FreezeBaselines, PublishFrozen, ReturnOnce,
       ApplyPedestals, ApplyBaselines, vars, builders
<1>4. m_events_counter' \in {m_events_counter, m_events_counter + 1}
  BY DEF Next, Reconstruct, Learn, Freeze, Apply, Done, Start, LearnPedestals,
     LearnPedestalsThrows, LearnSamples, CheckFreeze, CheckNoFreeze, EnterOnce,
     PassOnce, FreezePedestals, FreezePedestalsThrows, FreezeBaselines,
     PublishFrozen, ReturnOnce, ApplyPedestals, ApplyBaselines, vars, builders
<1>5. m_calib' = m_calib
  <2>1. ASSUME NEW w \in Workers, FreezePedestals(w) \/ FreezeBaselines(w) PROVE FALSE
    BY <1>1, <2>1 DEF FreezePedestals, FreezeBaselines, OnceProtocol
  <2>2. QED
    BY <2>1 DEF Next, Reconstruct, Learn, Freeze, Apply, Done, Start, LearnPedestals,
       LearnPedestalsThrows, LearnSamples, CheckFreeze, CheckNoFreeze, EnterOnce,
       PassOnce, FreezePedestalsThrows, PublishFrozen, ReturnOnce, ApplyPedestals,
       ApplyBaselines, vars, shared
<1>6. WindowClosedOverSilentApv'
  <2>1. \A n \in {FreezeAfter, EventsToAverage, MinEvents} : m_events_counter' >= n
    BY <1>4, ParamsAssumption DEF WindowClosedOverSilentApv, TypeOK
  <2>2. QED BY <1>3, <1>5, <2>1 DEF WindowClosedOverSilentApv
<1>7. \A e \in Events : result'[e] \in {result[e], "lost"}
  <2>1. ASSUME NEW w \in Workers,
               \/ CheckNoFreeze(w) \/ PassOnce(w) \/ ReturnOnce(w) \/ ApplyBaselines(w)
        PROVE  FALSE
    BY <1>1, <2>1 DEF CheckNoFreeze, PassOnce, ReturnOnce, ApplyBaselines, OnceProtocol, ApplyPcs
  <2>2. ASSUME NEW w \in Workers, Finish(w, "lost")
        PROVE  \A e \in Events : result'[e] \in {result[e], "lost"}
    BY <2>2 DEF Finish, TypeOK
  <2>3. QED
    BY <2>1, <2>2 DEF Next, Reconstruct, Learn, Freeze, Apply, Done, Start, LearnPedestals,
       LearnPedestalsThrows, LearnSamples, CheckFreeze, EnterOnce, FreezePedestals,
       FreezePedestalsThrows, FreezeBaselines, PublishFrozen, ApplyPedestals, vars, outcome
<1>8. QED BY <1>6, <1>7

(* A mapped APV that stays silent through the averaging window costs every *)
(* later event its GEM data: no later event can repair the calibration.    *)
THEOREM SilentApvIsFatal == Spec => ClosedWindowIsForever
<1>1. IInv /\ [Next]_vars =>
        [WindowClosedOverSilentApv =>
            /\ WindowClosedOverSilentApv'
            /\ \A e \in Events : result'[e] \in {result[e], "lost"}]_vars
  BY StepClosed
<1>2. QED BY <1>1, Invariant, PTL DEF Spec, ClosedWindowIsForever

-----------------------------------------------------------------------------
(***************************************************************************)
(* The two snapshots.  While one worker is between them no other returns   *)
(* from the freeze.  So the rolling windows move away from the averages    *)
(* that were taken by the events of the others that are past the first     *)
(* builder, one each, if not by those that came too late for the averages. *)
(***************************************************************************)
LaterPcs == {"learnSamp", "check", "once"}
Later(w) == {v \in Workers \ {w} : pc[v] \in LaterPcs}

DueInside ==
    \A w \in Workers : pc[w] = "once" \/ InLambda(w) => FreezeDue

MovedAway(w, a) == Cardinality(Known(a) \ m_calib.pedestals.of[a])
BetweenSnapshots ==
    \A w \in Workers : pc[w] = "freezeSamp" /\ ~m_calib.pedestals.warmup => \A a \in Apvs :
        /\ m_calib.pedestals.of[a] \subseteq m_averages[a]
        /\ \/ MovedAway(w, a) <= Beyond(m_events_counter, EventsToAverage)
           \/ MovedAway(w, a) <= Cardinality(Later(w))

HalvesAgree ==
    \A a \in Apvs :
        /\ Cardinality(m_calib.pedestals.of[a] \ BaselineEvents(a))
                <= InFlight + Beyond(FreezeAfter, StatLen)
        /\ Cardinality(BaselineEvents(a) \ m_calib.pedestals.of[a])
                <= InFlight + Beyond(FreezeAfter, EventsToAverage)
FewTorn ==
    (m_frozen \/ \E w \in Workers : pc[w] = "store") /\ ~m_calib.pedestals.warmup => HalvesAgree

SnapshotsInv == DueInside /\ BetweenSnapshots /\ FewTorn

(* A freeze that is due stays due.                                         *)
LEMMA DueStays ==
    ASSUME IInv, [Next]_vars, FreezeDue
    PROVE  FreezeDue'
<1>1. ASSUME NEW w \in Workers, LearnPedestals(w) PROVE m_events_counter' = m_events_counter + 1
  BY <1>1 DEF LearnPedestals
<1>2. m_events_counter' \in {m_events_counter, m_events_counter + 1}
  BY <1>1, BuildersKept
<1>3. QED BY <1>2, ParamsAssumption DEF FreezeDue, IInv, TypedInHand, TypeOK

(* Whoever is at call_once, or inside it, found the freeze due.            *)
LEMMA NextDue ==
    ASSUME IInv, DueInside, [Next]_vars
    PROVE  DueInside'
<1> USE DEF IInv, TypedInHand
<1>1. SUFFICES ASSUME NEW v \in Workers, pc'[v] \in {"once", "freezePed", "freezeSamp", "store", "return"}
               PROVE  FreezeDue'
  BY DEF DueInside, InLambda
<1>2. ASSUME pc[v] \in {"once", "freezePed", "freezeSamp", "store", "return"} PROVE FreezeDue'
  BY <1>2, DueStays DEF DueInside, InLambda
<1>3. ASSUME NEW w \in Workers, CheckFreeze(w) PROVE FreezeDue'
  BY <1>3, DueStays DEF CheckFreeze
<1>4. ASSUME NEW w \in Workers, NEW kind, Finish(w, kind) PROVE pc'[v] = pc[v]
  BY <1>1, <1>4 DEF Finish, Goto, TypeOK
<1>5. ASSUME NEW w \in Workers,
             \/ Start(w) \/ LearnPedestals(w) \/ LearnSamples(w) \/ ApplyPedestals(w)
      PROVE  pc'[v] = pc[v]
  BY <1>1, <1>5 DEF Start, LearnPedestals, LearnSamples, ApplyPedestals, Goto, TypeOK
<1>6. ASSUME NEW w \in Workers,
             EnterOnce(w) \/ FreezePedestals(w) \/ FreezeBaselines(w) \/ PublishFrozen(w)
      PROVE  pc[v] \in {"once", "freezePed", "freezeSamp", "store", "return"}
  BY <1>1, <1>6 DEF EnterOnce, FreezePedestals, FreezeBaselines, PublishFrozen, Goto, TypeOK
<1>7. CASE UNCHANGED vars
  BY <1>1, <1>2, <1>7 DEF vars
<1>8. ASSUME NEW w \in Workers,
             \/ LearnPedestalsThrows(w) \/ CheckNoFreeze(w) \/ PassOnce(w)
             \/ FreezePedestalsThrows(w) \/ ReturnOnce(w) \/ ApplyBaselines(w)
      PROVE  pc'[v] = pc[v]
  BY <1>4, <1>8 DEF LearnPedestalsThrows, CheckNoFreeze, PassOnce, FreezePedestalsThrows,
     ReturnOnce, ApplyBaselines
<1>9. QED
  BY <1>1, <1>2, <1>3, <1>5, <1>6, <1>7, <1>8 DEF Next, Reconstruct, Learn, Freeze, Apply, Done

(* While a worker is inside call_once another that is past the first       *)
(* builder keeps its event, and goes no further than the door.             *)
LEMMA OthersWait ==
    ASSUME IInv, DueInside, [Next]_vars, ~m_frozen,
           NEW w \in Workers, InLambda(w), NEW v \in Workers, v # w, pc[v] \in LaterPcs
    PROVE  pc'[v] \in LaterPcs /\ event'[v] = event[v]
<1> USE DEF IInv, TypedInHand
<1>1. FreezeDue /\ m_freeze_once = "running"
  BY DEF DueInside, OnceProtocol
<1>2. ~CheckNoFreeze(v) /\ ~PassOnce(v) /\ ~EnterOnce(v)
  BY <1>1 DEF CheckNoFreeze, PassOnce, EnterOnce
<1>3. CASE LearnSamples(v) \/ CheckFreeze(v)
  BY <1>3 DEF LearnSamples, CheckFreeze, Goto, TypeOK, input, LaterPcs
<1>4. ASSUME NEW u \in Workers, u # v,
             \/ LearnPedestals(u) \/ LearnSamples(u) \/ CheckFreeze(u) \/ EnterOnce(u)
             \/ FreezePedestals(u) \/ FreezeBaselines(u) \/ PublishFrozen(u) \/ ApplyPedestals(u)
      PROVE  pc'[v] = pc[v] /\ event'[v] = event[v]
  BY <1>4 DEF LearnPedestals, LearnSamples, CheckFreeze, EnterOnce, FreezePedestals,
     FreezeBaselines, PublishFrozen, ApplyPedestals, Goto, TypeOK, input
<1>5. ASSUME NEW u \in Workers, u # v, NEW kind, Finish(u, kind)
      PROVE  pc'[v] = pc[v] /\ event'[v] = event[v]
  BY <1>5 DEF Finish, Goto, TypeOK
<1>6. ASSUME NEW u \in Workers, u # v,
             \/ LearnPedestalsThrows(u) \/ CheckNoFreeze(u) \/ PassOnce(u)
             \/ FreezePedestalsThrows(u) \/ ReturnOnce(u) \/ ApplyBaselines(u)
      PROVE  pc'[v] = pc[v] /\ event'[v] = event[v]
  BY <1>5, <1>6 DEF LearnPedestalsThrows, CheckNoFreeze, PassOnce, FreezePedestalsThrows,
     ReturnOnce, ApplyBaselines
<1>7. ASSUME NEW u \in Workers, u # v, Start(u)
      PROVE  pc'[v] = pc[v] /\ event'[v] = event[v]
  BY <1>7 DEF Start, Goto, TypeOK
<1>8. ~Start(v) /\ ~LearnPedestals(v) /\ ~LearnPedestalsThrows(v) /\ ~FreezePedestals(v)
      /\ ~FreezePedestalsThrows(v) /\ ~FreezeBaselines(v) /\ ~PublishFrozen(v)
      /\ ~ReturnOnce(v) /\ ~ApplyPedestals(v) /\ ~ApplyBaselines(v)
  BY DEF LaterPcs, Start, LearnPedestals, LearnPedestalsThrows, FreezePedestals,
     FreezePedestalsThrows, FreezeBaselines, PublishFrozen, ReturnOnce, ApplyPedestals,
     ApplyBaselines
<1>9. CASE UNCHANGED vars
  BY <1>9 DEF vars, input
<1>10. QED
  BY <1>2, <1>3, <1>4, <1>6, <1>7, <1>8, <1>9 DEF Next, Reconstruct, Learn, Freeze, Apply, Done

(* A worker between the snapshots took the first there, or was there.      *)
LEMMA ComesFromFirst ==
    ASSUME IInv, [Next]_vars, NEW w \in Workers, pc'[w] = "freezeSamp"
    PROVE  FreezePedestals(w) \/ (pc[w] = "freezeSamp" /\ m_calib' = m_calib)
<1> USE DEF IInv, TypedInHand
<1>1. ASSUME NEW u \in Workers, u # w, FreezePedestals(u) \/ FreezeBaselines(u),
             pc[w] = "freezeSamp"
      PROVE  FALSE
  BY <1>1 DEF OnceProtocol, InLambda, FreezePedestals, FreezeBaselines
<1>2. ASSUME pc[w] = "freezeSamp"
      PROVE  m_calib' = m_calib
  <2>1. ~FreezePedestals(w) /\ ~FreezeBaselines(w)
    BY <1>2 DEF FreezePedestals, FreezeBaselines, Goto, TypeOK
  <2>2. QED
    BY <1>1, <1>2, <2>1 DEF Next, Reconstruct, Learn, Freeze, Apply, Done, Start, LearnPedestals,
       LearnPedestalsThrows, LearnSamples, CheckFreeze, CheckNoFreeze, EnterOnce, PassOnce,
       FreezePedestalsThrows, PublishFrozen, ReturnOnce, ApplyPedestals,
       ApplyBaselines, vars, shared
<1>3. ASSUME pc[w] # "freezeSamp" PROVE FreezePedestals(w)
  <2>1. ASSUME NEW u \in Workers, NEW kind, Finish(u, kind) PROVE FALSE
    BY <1>3, <2>1 DEF Finish, Goto, TypeOK
  <2>2. ASSUME NEW u \in Workers,
               \/ LearnPedestalsThrows(u) \/ CheckNoFreeze(u) \/ PassOnce(u)
               \/ FreezePedestalsThrows(u) \/ ReturnOnce(u) \/ ApplyBaselines(u)
        PROVE  FALSE
    BY <2>1, <2>2 DEF LearnPedestalsThrows, CheckNoFreeze, PassOnce, FreezePedestalsThrows,
       ReturnOnce, ApplyBaselines
  <2>3. ASSUME NEW u \in Workers,
               \/ Start(u) \/ LearnPedestals(u) \/ LearnSamples(u) \/ CheckFreeze(u) \/ EnterOnce(u)
               \/ FreezeBaselines(u) \/ PublishFrozen(u) \/ ApplyPedestals(u)
        PROVE  FALSE
    BY <1>3, <2>3 DEF Start, LearnPedestals, LearnSamples, CheckFreeze, EnterOnce,
       FreezeBaselines, PublishFrozen, ApplyPedestals, Goto, TypeOK
  <2>4. ASSUME NEW u \in Workers, u # w, FreezePedestals(u) PROVE FALSE
    BY <1>3, <2>4 DEF FreezePedestals, Goto, TypeOK
  <2>5. ~UNCHANGED vars
    BY <1>3 DEF vars
  <2>6. QED
    BY <2>2, <2>3, <2>4, <2>5 DEF Next, Reconstruct, Learn, Freeze, Apply, Done
<1>4. QED BY <1>2, <1>3

(* The others past the first builder are fewer than the workers.           *)
LEMMA LaterFinite ==
    ASSUME NEW w \in Workers
    PROVE  /\ IsFiniteSet(Later(w)) /\ Cardinality(Later(w)) \in Nat
           /\ Cardinality(Later(w)) <= Cardinality(Workers) - 1
           /\ Cardinality(Workers) \in Nat
<1>1. /\ IsFiniteSet(Workers \ {w}) /\ Cardinality(Workers \ {w}) = Cardinality(Workers) - 1
      /\ Cardinality(Workers) \in Nat
  BY WorkersAssumption, FS_RemoveElement, FS_CardinalityType
<1>2. Later(w) \subseteq Workers \ {w}
  BY DEF Later
<1>3. QED BY <1>1, <1>2, FewerElements

(* Between the snapshots the windows move away from the first one by what  *)
(* the other workers have in hand.                                         *)
LEMMA NextBetween ==
    ASSUME IInv, IInv', LearnedInv, DueInside, BetweenSnapshots, [Next]_vars
    PROVE  BetweenSnapshots'
<1> USE DEF IInv, TypedInHand
<1>1. SUFFICES ASSUME NEW w \in Workers, pc'[w] = "freezeSamp", ~m_calib'.pedestals.warmup,
                      NEW a \in Apvs
               PROVE  /\ m_calib'.pedestals.of[a] \subseteq m_averages'[a]
                      /\ \/ MovedAway(w, a)' <= Beyond(m_events_counter', EventsToAverage)
                         \/ MovedAway(w, a)' <= Cardinality(Later(w)')
  BY DEF BetweenSnapshots
<1>2. m_events_counter \in Nat /\ EventsToAverage \in Nat
  BY ParamsAssumption DEF TypeOK
<1>3. CASE FreezePedestals(w)
  <2>1. /\ UNCHANGED <<m_events_counter, m_averages, m_stats, event, content>>
        /\ m_calib' = [m_calib EXCEPT !.pedestals = PedestalsNow]
        /\ pc[w] = "freezePed" /\ \A v \in Workers : v # w => pc'[v] = pc[v]
    BY <1>3 DEF FreezePedestals, Goto, TypeOK, builders, outcome, input
  <2>2. m_calib'.pedestals = PedestalsNow
    BY <2>1 DEF TypeOK
  <2>3. m_calib'.pedestals.of = m_averages
    BY <1>1, <2>2 DEF PedestalsNow
  <2>4. Samplers' = Samplers
    BY <1>1, <2>1 DEF Samplers
  <2>5. Known(a)' = Known(a)
    BY <2>1, <2>4 DEF Known, Seen, Brought
  <2>6. MovedAway(w, a)' = Cardinality(Known(a) \ m_averages[a])
    BY <2>3, <2>5 DEF MovedAway
  <2>7. Cardinality(Known(a) \ m_averages[a]) <= Beyond(m_events_counter, EventsToAverage)
    BY DEF LearnedInv, LateBound
  <2>8. QED BY <2>1, <2>3, <2>6, <2>7
<1>4. CASE pc[w] = "freezeSamp" /\ m_calib' = m_calib
  <2> DEFINE of == m_calib.pedestals.of[a]
  <2>1. ~m_frozen /\ InLambda(w)
    BY <1>4 DEF OnceProtocol, InLambda
  <2>2. Later(w) \subseteq Later(w)'
    BY <2>1, OthersWait DEF Later
  <2>3. /\ of \subseteq m_averages[a]
        /\ MovedAway(w, a) <= Beyond(m_events_counter, EventsToAverage)
           \/ MovedAway(w, a) <= Cardinality(Later(w))
    BY <1>1, <1>4 DEF BetweenSnapshots
  <2>4. MovedAway(w, a) = Cardinality(Known(a) \ of)
        /\ MovedAway(w, a)' = Cardinality(Known(a)' \ of)
    BY <1>4 DEF MovedAway
  <2>5. IsFiniteSet(Known(a) \ of)
    BY KnownFinite, FS_Subset
  <2>6. m_calib'.pedestals.of[a] = of
    BY <1>4
  <2>7. IsFiniteSet(Later(w)') /\ Cardinality(Later(w)') \in Nat
    <3>1. Later(w)' \subseteq Workers
      BY DEF Later
    <3>2. QED BY <3>1, WorkersAssumption, FewerElements
  <2> HIDE DEF of
  <2>8. /\ Cardinality(Later(w)) <= Cardinality(Later(w)') /\ Cardinality(Later(w)) \in Nat
    BY <2>2, <2>7, FewerElements
  <2>9. ASSUME NEW u \in Workers, LearnPedestals(u)
        PROVE  /\ of \subseteq m_averages'[a]
               /\ \/ Cardinality(Known(a)' \ of) <= Beyond(m_events_counter', EventsToAverage)
                  \/ Cardinality(Known(a)' \ of) <= Cardinality(Later(w)')
    <3>1. /\ m_averages[a] \subseteq m_averages'[a] /\ m_events_counter' = m_events_counter + 1
          /\ Known(a)' \subseteq Known(a) \cup {event[u]}
      BY <2>9, FirstBuilder
    <3>2. Known(a)' \ of \subseteq (Known(a) \ of) \cup {event[u]}
      BY <3>1
    <3>3. /\ Cardinality(Known(a)' \ of) <= Cardinality(Known(a) \ of) + 1
          /\ Cardinality(Known(a)' \ of) \in Nat /\ Cardinality(Known(a) \ of) \in Nat
      BY <2>5, <3>2, OneElementMore
    <3>4. u # w /\ u \notin Later(w) /\ u \in Later(w)'
      BY <1>4, <2>9 DEF LearnPedestals, Later, LaterPcs, Goto, TypeOK
    <3>5. Later(w) \cup {u} \subseteq Later(w)'
      BY <2>2, <3>4
    <3>6. Cardinality(Later(w)) + 1 <= Cardinality(Later(w)')
      <4>1. Cardinality(Later(w) \cup {u}) = Cardinality(Later(w)) + 1
        BY <3>4, LaterFinite, FS_AddElement
      <4>2. Cardinality(Later(w) \cup {u}) <= Cardinality(Later(w)')
        BY <2>7, <3>5, FewerElements
      <4>3. QED BY <4>1, <4>2
    <3>7. QED
      BY <1>2, <2>3, <2>4, <2>7, <2>8, <3>1, <3>3, <3>6 DEF Beyond
  <2>10. ASSUME Known(a)' \subseteq Known(a), m_averages[a] \subseteq m_averages'[a],
                m_events_counter' = m_events_counter
         PROVE  /\ of \subseteq m_averages'[a]
                /\ \/ Cardinality(Known(a)' \ of) <= Beyond(m_events_counter', EventsToAverage)
                   \/ Cardinality(Known(a)' \ of) <= Cardinality(Later(w)')
    <3>1. Known(a)' \ of \subseteq Known(a) \ of
      BY <2>10
    <3>2. /\ Cardinality(Known(a)' \ of) <= Cardinality(Known(a) \ of)
          /\ Cardinality(Known(a)' \ of) \in Nat /\ Cardinality(Known(a) \ of) \in Nat
      BY <2>5, <3>1, FewerElements
    <3>3. QED
      BY <1>2, <2>3, <2>4, <2>7, <2>8, <2>10, <3>2 DEF Beyond
  <2>11. /\ of \subseteq m_averages'[a]
         /\ \/ Cardinality(Known(a)' \ of) <= Beyond(m_events_counter', EventsToAverage)
            \/ Cardinality(Known(a)' \ of) <= Cardinality(Later(w)')
    <3>1. ASSUME NEW u \in Workers, LearnSamples(u)
          PROVE  /\ Known(a)' \subseteq Known(a) /\ m_averages[a] \subseteq m_averages'[a]
                 /\ m_events_counter' = m_events_counter
      BY <3>1, SecondBuilder DEF LearnedInv
    <3>2. ASSUME NEW u \in Workers, LearnPedestalsThrows(u)
          PROVE  /\ Known(a)' \subseteq Known(a) /\ m_averages[a] \subseteq m_averages'[a]
                 /\ m_events_counter' = m_events_counter
      BY <3>2, FirstBuilderThrows
    <3>3. CASE \A u \in Workers : ~LearnPedestals(u) /\ ~LearnSamples(u) /\ ~LearnPedestalsThrows(u)
      <4>1. m_averages' = m_averages
        BY <3>3, BuildersKept
      <4>2. Known(a)' = Known(a) /\ m_events_counter' = m_events_counter
        BY <3>3, KnownKept
      <4>3. QED BY <2>10, <4>1, <4>2
    <3>4. QED BY <2>9, <2>10, <3>1, <3>2, <3>3
  <2>12. QED BY <2>4, <2>6, <2>11
<1>5. QED BY <1>1, <1>3, <1>4, ComesFromFirst

(* When the second snapshot is taken, what the first has and it has not is *)
(* in the hands of the other workers, or was dropped, or was lost; what it *)
(* has and the first has not came too late or was in other hands.          *)
LEMMA TornInHand ==
    ASSUME IInv, LearnedInv, DueInside, BetweenSnapshots, NEW w \in Workers, FreezeBaselines(w),
           ~m_calib.pedestals.warmup
    PROVE  HalvesAgree'
<1> USE DEF IInv, TypedInHand
<1>1. /\ pc[w] = "freezeSamp" /\ Lost' = Lost
      /\ m_calib' = [m_calib EXCEPT !.sample_baselines = m_stats]
  BY DEF FreezeBaselines, outcome, Lost
<1>2. m_calib'.pedestals = m_calib.pedestals /\ m_calib'.sample_baselines = m_stats
  BY <1>1 DEF TypeOK
<1>3. SUFFICES ASSUME NEW a \in Apvs
               PROVE  /\ Cardinality(m_calib.pedestals.of[a] \ Seen(a))
                            <= InFlight + Beyond(FreezeAfter, StatLen)
                      /\ Cardinality(Seen(a) \ m_calib.pedestals.of[a])
                            <= InFlight + Beyond(FreezeAfter, EventsToAverage)
  BY <1>1, <1>2 DEF HalvesAgree, BaselineEvents, Seen, EventsOf, InFlight
<1> DEFINE of == m_calib.pedestals.of[a]
<1>4. /\ of \subseteq m_averages[a]
      /\ \/ Cardinality(Known(a) \ of) <= Beyond(m_events_counter, EventsToAverage)
         \/ Cardinality(Known(a) \ of) <= Cardinality(Later(w))
  BY <1>1 DEF BetweenSnapshots, MovedAway
<1> HIDE DEF of
<1>5. PICK U \in SUBSET Events : Uncounted(U)
  BY DEF LearnedInv
<1>6. IsFiniteSet(U) /\ Cardinality(U) \in Nat /\ Cardinality(U) <= Cardinality(Lost)
  BY <1>5, LostFinite, FewerElements DEF Uncounted
<1>7. /\ m_events_counter \in Nat /\ FreezeAfter \in Nat /\ StatLen \in Nat
      /\ EventsToAverage \in Nat /\ Cardinality(Lost) \in Nat
      /\ Cardinality(Samplers) \in Nat /\ Cardinality(Workers) \in Nat
  BY ParamsAssumption, LostFinite, SamplersFinite, ChargedFinite DEF TypeOK
<1>8. m_events_counter + Cardinality(U)
        <= FreezeAfter - 1 + Cardinality(Workers) + Cardinality(Lost)
  <2>1. FreezeAfter > 0
    BY <1>1 DEF DueInside, InLambda, FreezeDue
  <2>2. m_events_counter + Cardinality(U)
            <= FreezeAfter - 1 + Cardinality(Charged) + Cardinality(Lost)
    BY <1>5, <2>1 DEF Uncounted, LearnedBut
  <2>3. QED BY <1>6, <1>7, <2>2, ChargedFinite
<1>9. InFlight = Cardinality(Workers) - 1 + Cardinality(Lost)
  BY DEF InFlight
<1>10. Cardinality(Seen(a) \ of) <= InFlight + Beyond(FreezeAfter, EventsToAverage)
  <2>1. Seen(a) \ of \subseteq Known(a) \ of /\ IsFiniteSet(Known(a) \ of)
    BY KnownFinite, FS_Subset DEF Known
  <2>2. /\ Cardinality(Seen(a) \ of) <= Cardinality(Known(a) \ of)
        /\ Cardinality(Seen(a) \ of) \in Nat /\ Cardinality(Known(a) \ of) \in Nat
    BY <2>1, FewerElements
  <2>3. Cardinality(Later(w)) \in Nat /\ Cardinality(Later(w)) <= Cardinality(Workers) - 1
    BY LaterFinite
  <2>4. CASE Cardinality(Known(a) \ of) <= Cardinality(Later(w))
    BY <1>7, <1>9, <2>2, <2>3, <2>4 DEF Beyond
  <2>5. CASE Cardinality(Known(a) \ of) <= Beyond(m_events_counter, EventsToAverage)
    BY <1>6, <1>7, <1>8, <1>9, <2>2, <2>3, <2>5 DEF Beyond
  <2>6. QED BY <1>4, <2>4, <2>5
<1>11. Cardinality(of \ Seen(a)) <= InFlight + Beyond(FreezeAfter, StatLen)
  <2> DEFINE dropped == m_averages[a] \ (Known(a) \cup U)
             held == Brought(a) \cup U
  <2>1. of \ Seen(a) \subseteq dropped \cup held
    BY <1>4 DEF Known
  <2>2. IsFiniteSet(dropped) /\ IsFiniteSet(Brought(a))
    BY KnownFinite, FS_Subset
  <2>3. Cardinality(dropped) <= Beyond(Sampled, StatLen)
    BY <1>5 DEF Uncounted, DroppedBut
  <2>4. /\ IsFiniteSet(held) /\ Cardinality(held) <= Cardinality(Brought(a)) + Cardinality(U)
        /\ Cardinality(held) \in Nat /\ Cardinality(Brought(a)) \in Nat
    BY <1>6, <2>2, UnionCard
  <2> HIDE DEF dropped, held
  <2>5. /\ Cardinality(of \ Seen(a)) <= Cardinality(dropped) + Cardinality(held)
        /\ Cardinality(of \ Seen(a)) \in Nat /\ Cardinality(dropped) \in Nat
    BY <2>1, <2>2, <2>4, UnionCard
  <2>6. Cardinality(Brought(a)) <= Cardinality(Samplers)
    BY KnownFinite
  <2>7. Cardinality(Samplers) <= Cardinality(Workers) - 1
    <3>1. Samplers \subseteq Later(w)
      BY <1>1 DEF Samplers, Later, LaterPcs
    <3>2. QED BY <1>7, <3>1, LaterFinite, FewerElements
  <2>8. CASE Sampled <= StatLen
    BY <1>6, <1>7, <1>9, <2>3, <2>4, <2>5, <2>6, <2>7, <2>8 DEF Beyond, Sampled
  <2>9. CASE ~(Sampled <= StatLen)
    BY <1>6, <1>7, <1>8, <1>9, <2>3, <2>4, <2>5, <2>6, <2>7, <2>9 DEF Beyond, Sampled
  <2>10. QED BY <2>8, <2>9
<1>12. QED BY <1>10, <1>11 DEF of

(* After the second snapshot the calibration stays as it is.               *)
LEMMA NextTorn ==
    ASSUME IInv, LearnedInv, DueInside, BetweenSnapshots, FewTorn, [Next]_vars
    PROVE  FewTorn'
<1> USE DEF IInv, TypedInHand
<1>1. SUFFICES ASSUME m_frozen' \/ \E w \in Workers : pc'[w] = "store", ~m_calib'.pedestals.warmup
               PROVE  HalvesAgree'
  BY DEF FewTorn
<1>2. ASSUME NEW w \in Workers, FreezeBaselines(w) PROVE HalvesAgree'
  <2>1. m_calib'.pedestals = m_calib.pedestals
    BY <1>2 DEF FreezeBaselines, TypeOK
  <2>2. QED BY <1>1, <1>2, <2>1, TornInHand
<1>4. ASSUME NEW w \in Workers, FreezePedestals(w) PROVE FALSE
  <2>1. ~m_frozen' /\ \A v \in Workers : v # w => ~InLambda(v)
    BY <1>4 DEF FreezePedestals, OnceProtocol, InLambda
  <2>2. \A v \in Workers : pc'[v] # "store"
    BY <1>4, <2>1 DEF FreezePedestals, Goto, TypeOK, InLambda
  <2>3. QED BY <1>1, <2>1, <2>2
<1>5. ASSUME m_calib' = m_calib, m_frozen \/ \E w \in Workers : pc[w] = "store"
      PROVE  HalvesAgree'
  <2>1. HalvesAgree
    BY <1>1, <1>5 DEF FewTorn
  <2>2. InFlight \in Int /\ InFlight' \in Int /\ InFlight <= InFlight'
    <3>1. /\ IsFiniteSet(Lost') /\ Cardinality(Lost) \in Nat /\ Cardinality(Lost') \in Nat
          /\ Cardinality(Lost) <= Cardinality(Lost')
      <4>1. IsFiniteSet(Lost')
        BY EventsFinite, FewerElements DEF Lost
      <4>2. QED BY <4>1, LostGrows, FewerElements
    <3>2. QED BY <3>1, ChargedFinite DEF InFlight
  <2>3. SUFFICES ASSUME NEW a \in Apvs
                 PROVE  /\ Cardinality(m_calib.pedestals.of[a] \ BaselineEvents(a))
                              <= InFlight' + Beyond(FreezeAfter, StatLen)
                        /\ Cardinality(BaselineEvents(a) \ m_calib.pedestals.of[a])
                              <= InFlight' + Beyond(FreezeAfter, EventsToAverage)
    BY <1>5 DEF HalvesAgree, BaselineEvents
  <2>4. IsFiniteSet(m_calib.pedestals.of[a]) /\ IsFiniteSet(BaselineEvents(a))
    <3>1. m_calib.pedestals # NotSet /\ m_calib.sample_baselines # NotSet
      BY <1>5 DEF OnceProtocol
    <3>2. m_calib.pedestals \in PedestalSnapshots /\ m_calib.sample_baselines \in BaselineSnapshots
      BY <3>1 DEF TypeOK
    <3>3. m_calib.pedestals.of[a] \subseteq Events /\ m_calib.sample_baselines[a] \in Seq(Events)
      BY <3>2 DEF PedestalSnapshots, BaselineSnapshots
    <3>4. BaselineEvents(a) \subseteq Events
      BY <3>3 DEF BaselineEvents
    <3>5. QED BY <3>3, <3>4, EventsFinite, FS_Subset
  <2>5. /\ Cardinality(m_calib.pedestals.of[a] \ BaselineEvents(a)) \in Nat
        /\ Cardinality(BaselineEvents(a) \ m_calib.pedestals.of[a]) \in Nat
    BY <2>4, FewerElements
  <2>6. /\ Cardinality(m_calib.pedestals.of[a] \ BaselineEvents(a))
              <= InFlight + Beyond(FreezeAfter, StatLen)
        /\ Cardinality(BaselineEvents(a) \ m_calib.pedestals.of[a])
              <= InFlight + Beyond(FreezeAfter, EventsToAverage)
    BY <2>1 DEF HalvesAgree
  <2>7. Beyond(FreezeAfter, StatLen) \in Nat /\ Beyond(FreezeAfter, EventsToAverage) \in Nat
    BY ParamsAssumption DEF Beyond
  <2>8. QED BY <2>2, <2>5, <2>6, <2>7
<1>6. ASSUME NEW w \in Workers, PublishFrozen(w)
      PROVE  m_calib' = m_calib /\ pc[w] = "store"
  BY <1>6 DEF PublishFrozen
<1>7. ASSUME NEW w \in Workers, NEW kind, Finish(w, kind)
      PROVE  \A v \in Workers : pc'[v] = "store" => pc[v] = "store"
  BY <1>7 DEF Finish, Goto, TypeOK
<1>8. ASSUME NEW w \in Workers,
             \/ LearnPedestalsThrows(w) \/ CheckNoFreeze(w) \/ PassOnce(w)
             \/ FreezePedestalsThrows(w) \/ ReturnOnce(w) \/ ApplyBaselines(w)
      PROVE  m_calib' = m_calib /\ (m_frozen \/ \E v \in Workers : pc[v] = "store")
  <2>1. m_calib' = m_calib /\ m_frozen' = m_frozen
        /\ \A v \in Workers : pc'[v] = "store" => pc[v] = "store"
    BY <1>7, <1>8 DEF LearnPedestalsThrows, CheckNoFreeze, PassOnce, FreezePedestalsThrows,
       ReturnOnce, ApplyBaselines, shared
  <2>2. QED BY <1>1, <2>1
<1>9. ASSUME NEW w \in Workers,
             \/ Start(w) \/ LearnPedestals(w) \/ LearnSamples(w) \/ CheckFreeze(w) \/ EnterOnce(w)
             \/ ApplyPedestals(w)
      PROVE  m_calib' = m_calib /\ (m_frozen \/ \E v \in Workers : pc[v] = "store")
  <2>1. m_calib' = m_calib /\ m_frozen' = m_frozen
        /\ \A v \in Workers : pc'[v] = "store" => pc[v] = "store"
    BY <1>9 DEF Start, LearnPedestals, LearnSamples, CheckFreeze, EnterOnce, ApplyPedestals,
       shared, Goto, TypeOK
  <2>2. QED BY <1>1, <2>1
<1>10. CASE UNCHANGED vars
  <2>1. m_calib' = m_calib /\ (m_frozen \/ \E v \in Workers : pc[v] = "store")
    BY <1>1, <1>10 DEF vars, shared
  <2>2. QED BY <1>5, <2>1
<1>11. QED
  BY <1>2, <1>4, <1>5, <1>6, <1>8, <1>9, <1>10 DEF Next, Reconstruct, Learn, Freeze, Apply, Done

(* At the start nothing was frozen.                                        *)
LEMMA InitSnapshots == Init => SnapshotsInv
BY DEF Init, SnapshotsInv, DueInside, BetweenSnapshots, FewTorn, InLambda

(* For each APV the two halves of the calibration differ, either way, by   *)
(* one event for each other worker, by those lost to an exception, and by  *)
(* what freeze_after asks for beyond the window: however many workers      *)
(* there are, however they interleave, and for all windows.                *)
THEOREM SnapshotsAgree == Spec => []SnapshotsAgreeUpToInFlight
<1>1. IInv /\ IInv' /\ LearnedInv /\ SnapshotsInv /\ [Next]_vars => SnapshotsInv'
  BY NextDue, NextBetween, NextTorn DEF SnapshotsInv
<1>2. SnapshotsInv => SnapshotsAgreeUpToInFlight
  BY DEF SnapshotsInv, FewTorn, HalvesAgree, SnapshotsAgreeUpToInFlight
<1>3. QED BY <1>1, <1>2, InitSnapshots, LearnedInvariant, Invariant, PTL DEF Spec

=============================================================================
