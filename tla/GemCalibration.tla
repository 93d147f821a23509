--------------------------- MODULE GemCalibration ---------------------------
(***************************************************************************)
(* The learn -> freeze -> apply life of the GEM calibration: the JANA      *)
(* worker threads that call GemRecoService::Reconstruct, the               *)
(* PedestalBuilder and the SampleAnalyzer they teach (each behind its own  *)
(* mutex, so one call of either is one step), and the pair of snapshots    *)
(* that one of them freezes inside std::call_once.                         *)
(*                                                                         *)
(* An event is a number; what it holds for an APV is "absent" (no hit),    *)
(* "empty" (hits of a truncated APV frame, which carry no samples) or      *)
(* "data".  A statistic is the set (mean, stddev) or the sequence (rolling *)
(* window) of the events whose samples it was computed from.               *)
(***************************************************************************)
EXTENDS Integers, Sequences, FiniteSets

CONSTANTS
    Workers,          (* JANA worker threads                               *)
    Apvs,             (* ids of the APVs of the mapping file               *)
    Contents,         (* what an event may hold, per APV                   *)
    MinEvents,        (* pedestal_minimal_events                           *)
    EventsToAverage,  (* pedestal_events_to_average                        *)
    FreezeAfter,      (* gemrecon2:freeze_after, 0 = never                 *)
    StatLen,          (* SampleParams::stat_len                            *)
    MaxEvents,        (* bound: number of events of the run                *)
    NotSet            (* a part of m_calib that was never assigned         *)

Events == 1..MaxEvents

ASSUME WorkersAssumption == Workers # {} /\ IsFiniteSet(Workers)
ASSUME ApvsAssumption == Apvs \subseteq Nat
ASSUME ContentsAssumption == Contents \subseteq [Apvs -> {"absent", "empty", "data"}]
ASSUME ParamsAssumption ==
    /\ MinEvents \in Nat
    /\ EventsToAverage \in Nat
    /\ FreezeAfter \in Nat
    /\ StatLen \in Nat
    /\ MaxEvents \in Nat

(* Pedestals: the warm-up constants, or a mean over a set of events.       *)
PedestalSnapshots == [warmup : BOOLEAN, of : [Apvs -> SUBSET Events]]
(* SampleBaselines: the rolling window of each APV's samples.              *)
BaselineSnapshots == [Apvs -> Seq(Events)]

ASSUME NotSetAssumption == NotSet \notin PedestalSnapshots \cup BaselineSnapshots

VARIABLES
    m_events_counter, (* PedestalBuilder: events counted                   *)
    m_averages,       (* PedestalBuilder: events averaged, per APV         *)
    m_stats,          (* SampleAnalyzer: rolling window, per APV           *)
    m_calib,          (* FrozenCalibration                                 *)
    m_frozen,         (* std::atomic<bool>                                 *)
    m_freeze_once,    (* std::once_flag                                    *)
    dispatched,       (* events JANA handed out so far                     *)
    pc,               (* where each worker is in Reconstruct               *)
    event,            (* the event each worker reconstructs, 0 = none      *)
    content,          (* what that event holds                             *)
    result,           (* what became of each event                         *)
    used              (* the calibration an event was reconstructed with   *)

builders == <<m_events_counter, m_averages, m_stats>>
shared == <<m_calib, m_frozen, m_freeze_once>>
outcome == <<result, used>>
input == <<dispatched, event, content>>
vars == <<builders, shared, outcome, input, pc>>

NoCalib == [pedestals |-> NotSet, sample_baselines |-> NotSet]
AllAbsent == [a \in Apvs |-> "absent"]

LearnPcs == {"learnPed", "learnSamp", "check", "once",
             "freezePed", "freezeSamp", "store", "return"}
ApplyPcs == {"applyPed", "applySamp"}

Goto(w, l) == pc' = [pc EXCEPT ![w] = l]

(* Reconstruct returns to the factory, or an exception passes it by        *)
(* ("lost": none of the outputs of the event are set).                     *)
Finish(w, outcomeKind) ==
    /\ Goto(w, "idle")
    /\ event' = [event EXCEPT ![w] = 0]
    /\ content' = [content EXCEPT ![w] = AllAbsent]
    /\ result' = [result EXCEPT ![event[w]] = outcomeKind]
    /\ UNCHANGED dispatched

-----------------------------------------------------------------------------
Init ==
    /\ m_events_counter = 0
    /\ m_averages = [a \in Apvs |-> {}]
    /\ m_stats = [a \in Apvs |-> <<>>]
    /\ m_calib = NoCalib
    /\ m_frozen = FALSE
    /\ m_freeze_once = "ready"
    /\ dispatched = 0
    /\ pc = [w \in Workers |-> "idle"]
    /\ event = [w \in Workers |-> 0]
    /\ content = [w \in Workers |-> AllAbsent]
    /\ result = [e \in Events |-> "none"]
    /\ used = [e \in Events |-> NoCalib]

(* JANA runs the factory of the next event on w; m_frozen is read once.    *)
Start(w) ==
    /\ pc[w] = "idle"
    /\ dispatched < MaxEvents
    /\ dispatched' = dispatched + 1
    /\ event' = [event EXCEPT ![w] = dispatched + 1]
    /\ \E c \in Contents : content' = [content EXCEPT ![w] = c]
    /\ Goto(w, IF m_frozen THEN "applyPed" ELSE "learnPed")
    /\ UNCHANGED <<builders, shared, outcome>>

(* Mutant: <= for <, the window takes one event more than it should.       *)
AveragedOneMore(w) ==
    [a \in Apvs |->
        IF content[w][a] = "data" /\ m_events_counter <= EventsToAverage
        THEN m_averages[a] \cup {event[w]} ELSE m_averages[a]]

(* The averages after w's event was added to them.                         *)
Averaged(w) ==
    [a \in Apvs |->
        IF content[w][a] = "data" /\ m_events_counter < EventsToAverage
        THEN m_averages[a] \cup {event[w]} ELSE m_averages[a]]

(* Average::mean() throws while nothing was added; past the warm-up it is  *)
(* read for every APV of the event.                                        *)
Unaveraged(w) ==
    {a \in Apvs : /\ m_events_counter >= MinEvents
                  /\ content[w][a] # "absent"
                  /\ Averaged(w)[a] = {}}

(* PedestalBuilder::process_event.                                         *)
LearnPedestals(w) ==
    /\ pc[w] = "learnPed"
    /\ Unaveraged(w) = {}
    /\ m_averages' = Averaged(w)
    /\ m_events_counter' = m_events_counter + 1
    /\ Goto(w, "learnSamp")
    /\ UNCHANGED <<m_stats, shared, outcome, input>>

(* The exception leaves the loop over the APVs, in the order of their ids, *)
(* at the first of them: those before it stay averaged, the event is not   *)
(* counted.                                                                *)
LearnPedestalsThrows(w) ==
    /\ pc[w] = "learnPed"
    /\ \E first \in Unaveraged(w) :
        /\ \A a \in Unaveraged(w) : first <= a
        /\ m_averages' = [a \in Apvs |-> IF a < first THEN Averaged(w)[a]
                                                      ELSE m_averages[a]]
    /\ Finish(w, "lost")
    /\ UNCHANGED <<m_events_counter, m_stats, shared, used>>

(* A rolling window of StatLen values, the oldest dropped first.           *)
Rolled(window, e) ==
    IF StatLen = 0 THEN window
    ELSE Append(IF Len(window) = StatLen THEN Tail(window) ELSE window, e)

(* SampleAnalyzer::process_event.                                          *)
LearnSamples(w) ==
    /\ pc[w] = "learnSamp"
    /\ m_stats' = [a \in Apvs |-> IF content[w][a] = "data"
                                  THEN Rolled(m_stats[a], event[w])
                                  ELSE m_stats[a]]
    /\ Goto(w, "check")
    /\ UNCHANGED <<m_events_counter, m_averages, shared, outcome, input>>

(* Mutant: == for >=, missed when two workers count before either checks.  *)
FreezeDueExactly == FreezeAfter > 0 /\ m_events_counter = FreezeAfter

(* freeze_after > 0 && events_seen() >= freeze_after.                      *)
FreezeDue == FreezeAfter > 0 /\ m_events_counter >= FreezeAfter

CheckFreeze(w) ==
    /\ pc[w] = "check"
    /\ FreezeDue
    /\ Goto(w, "once")
    /\ UNCHANGED <<builders, shared, outcome, input>>

CheckNoFreeze(w) ==
    /\ pc[w] = "check"
    /\ ~FreezeDue
    /\ Finish(w, "learned")
    /\ UNCHANGED <<builders, shared, used>>

(* Mutant: a mutex for the once_flag, every caller freezes again.          *)
EnterMutex(w) ==
    /\ pc[w] = "once"
    /\ m_freeze_once # "running"
    /\ m_freeze_once' = "running"
    /\ Goto(w, "freezePed")
    /\ UNCHANGED <<builders, m_calib, m_frozen, outcome, input>>

(* Mutant: a try-lock, whoever finds the freeze taken goes on learning.    *)
PassWithoutWaiting(w) ==
    /\ pc[w] = "once"
    /\ m_freeze_once # "ready"
    /\ Finish(w, "learned")
    /\ UNCHANGED <<builders, shared, used>>

(* std::call_once: one caller runs the lambda, the others block until it   *)
(* returned, or take over when it threw.                                   *)
EnterOnce(w) ==
    /\ pc[w] = "once"
    /\ m_freeze_once = "ready"
    /\ m_freeze_once' = "running"
    /\ Goto(w, "freezePed")
    /\ UNCHANGED <<builders, m_calib, m_frozen, outcome, input>>

PassOnce(w) ==
    /\ pc[w] = "once"
    /\ m_freeze_once = "done"
    /\ Finish(w, "learned")
    /\ UNCHANGED <<builders, shared, used>>

(* PedestalBuilder::freeze reads mean() of every mapped APV.               *)
FreezeThrows ==
    m_events_counter >= MinEvents /\ \E a \in Apvs : m_averages[a] = {}

PedestalsNow ==
    IF m_events_counter < MinEvents
    THEN [warmup |-> TRUE, of |-> [a \in Apvs |-> {}]]
    ELSE [warmup |-> FALSE, of |-> m_averages]

FreezePedestals(w) ==
    /\ pc[w] = "freezePed"
    /\ ~FreezeThrows
    /\ m_calib' = [m_calib EXCEPT !.pedestals = PedestalsNow]
    /\ Goto(w, "freezeSamp")
    /\ UNCHANGED <<builders, m_frozen, m_freeze_once, outcome, input>>

(* Mutant: a flag set before the work, which a failure leaves set.         *)
FreezePedestalsGivesUp(w) ==
    /\ pc[w] = "freezePed"
    /\ FreezeThrows
    /\ m_freeze_once' = "done"
    /\ Finish(w, "lost")
    /\ UNCHANGED <<builders, m_calib, m_frozen, used>>

(* The exception leaves the lambda: call_once stays armed and Reconstruct  *)
(* loses the event it had already learned from.                            *)
FreezePedestalsThrows(w) ==
    /\ pc[w] = "freezePed"
    /\ FreezeThrows
    /\ m_freeze_once' = "ready"
    /\ Finish(w, "lost")
    /\ UNCHANGED <<builders, m_calib, m_frozen, used>>

(* SampleAnalyzer::freeze.                                                 *)
FreezeBaselines(w) ==
    /\ pc[w] = "freezeSamp"
    /\ m_calib' = [m_calib EXCEPT !.sample_baselines = m_stats]
    /\ Goto(w, "store")
    /\ UNCHANGED <<builders, m_frozen, m_freeze_once, outcome, input>>

PublishFrozen(w) ==
    /\ pc[w] = "store"
    /\ m_frozen' = TRUE
    /\ Goto(w, "return")
    /\ UNCHANGED <<builders, m_calib, m_freeze_once, outcome, input>>

ReturnOnce(w) ==
    /\ pc[w] = "return"
    /\ m_freeze_once' = "done"
    /\ Finish(w, "learned")
    /\ UNCHANGED <<builders, m_calib, m_frozen, used>>

(* gemreco::reconstruct reads the pedestals to decode, and the baselines   *)
(* at its end.                                                             *)
ApplyPedestals(w) ==
    /\ pc[w] = "applyPed"
    /\ used' = [used EXCEPT ![event[w]].pedestals = m_calib.pedestals]
    /\ Goto(w, "applySamp")
    /\ UNCHANGED <<builders, shared, result, input>>

ApplyBaselines(w) ==
    /\ pc[w] = "applySamp"
    /\ used' = [used EXCEPT ![event[w]].sample_baselines = m_calib.sample_baselines]
    /\ Finish(w, "applied")
    /\ UNCHANGED <<builders, shared>>

Learn(w) == LearnPedestals(w) \/ LearnPedestalsThrows(w) \/ LearnSamples(w)
Freeze(w) ==
    \/ CheckFreeze(w) \/ CheckNoFreeze(w) \/ EnterOnce(w) \/ PassOnce(w)
    \/ FreezePedestals(w) \/ FreezePedestalsThrows(w)
    \/ FreezeBaselines(w) \/ PublishFrozen(w) \/ ReturnOnce(w)
Apply(w) == ApplyPedestals(w) \/ ApplyBaselines(w)

Reconstruct(w) == Learn(w) \/ Freeze(w) \/ Apply(w)

(* Every event was handed out and every worker returned.                   *)
Done ==
    /\ dispatched = MaxEvents
    /\ \A w \in Workers : pc[w] = "idle"
    /\ UNCHANGED vars

Next == (\E w \in Workers : Start(w) \/ Reconstruct(w)) \/ Done

(* A worker inside Reconstruct is a running thread: it keeps going, unless *)
(* call_once blocks it.  JANA need not have another event.                 *)
Fairness == \A w \in Workers : WF_vars(Reconstruct(w))

Spec == Init /\ [][Next]_vars /\ Fairness

-----------------------------------------------------------------------------
(***************************************************************************)
(* Properties.                                                             *)
(***************************************************************************)

(* The values each variable takes (calibration.hpp, GemRecoService.h).     *)
TypeOK ==
    /\ m_events_counter \in Nat
    /\ m_averages \in [Apvs -> SUBSET Events]
    /\ m_stats \in [Apvs -> Seq(Events)]
    /\ m_calib \in [pedestals : PedestalSnapshots \cup {NotSet},
                    sample_baselines : BaselineSnapshots \cup {NotSet}]
    /\ m_frozen \in BOOLEAN
    /\ m_freeze_once \in {"ready", "running", "done"}
    /\ dispatched \in 0..MaxEvents
    /\ pc \in [Workers -> {"idle"} \cup LearnPcs \cup ApplyPcs]
    /\ event \in [Workers -> 0..MaxEvents]
    /\ content \in [Workers -> Contents \cup {AllAbsent}]
    /\ result \in [Events -> {"none", "learned", "applied", "lost"}]
    /\ used \in [Events -> [pedestals : PedestalSnapshots \cup {NotSet},
                            sample_baselines : BaselineSnapshots \cup {NotSet}]]

Lost == {e \in Events : result[e] = "lost"}

(* The lambda of call_once is run by one worker at a time, and what it has *)
(* done so far shows in m_calib, m_frozen and m_freeze_once.               *)
InLambda(w) == pc[w] \in {"freezePed", "freezeSamp", "store", "return"}

OnceProtocol ==
    /\ \A v, w \in Workers : InLambda(v) /\ InLambda(w) => v = w
    /\ m_freeze_once = "running" <=> \E w \in Workers : InLambda(w)
    /\ m_freeze_once = "done" => m_frozen
    /\ m_frozen =>
        /\ m_freeze_once # "ready"
        /\ m_calib.pedestals # NotSet
        /\ m_calib.sample_baselines # NotSet
        /\ \A w \in Workers : pc[w] \notin {"freezePed", "freezeSamp", "store"}
    /\ \A w \in Workers :
        /\ pc[w] \in {"freezeSamp", "store"} => m_calib.pedestals # NotSet
        /\ pc[w] = "store" => m_calib.sample_baselines # NotSet
        /\ pc[w] = "return" => m_frozen
        /\ pc[w] \in ApplyPcs => m_frozen

(* JANA gives an event to one worker, which finishes it once; what a       *)
(* worker on the lock-free path has read of the calibration is what the    *)
(* rest of the reconstruction of its event will read.                      *)
EventsInHand ==
    /\ \A w \in Workers : pc[w] # "idle" =>
        event[w] \in 1..dispatched /\ result[event[w]] = "none"
    /\ \A v, w \in Workers :
        pc[v] # "idle" /\ pc[w] # "idle" /\ event[v] = event[w] => v = w
    /\ \A e \in Events : e > dispatched => result[e] = "none"
    /\ \A w \in Workers : pc[w] = "applySamp" =>
        used[event[w]].pedestals = m_calib.pedestals

(* A worker on the lock-free path reads a calibration whose two parts are  *)
(* both there, although it takes no lock to read it.                       *)
ApplySeesWholeCalibration ==
    \A w \in Workers : pc[w] \in ApplyPcs =>
        m_calib.pedestals # NotSet /\ m_calib.sample_baselines # NotSet

(* Once m_frozen is set nobody writes m_calib again (the readers take no   *)
(* lock), however many learners still reach the freeze.                    *)
FrozenIsImmutable == [][m_frozen => m_frozen' /\ UNCHANGED m_calib]_vars

(* The events learned from overshoot freeze_after by at most one per other *)
(* worker and one per event that a throwing freeze took: a worker that     *)
(* finds the freeze due does not return before the calibration is frozen.  *)
LearningIsBounded ==
    FreezeAfter > 0 =>
        m_events_counter <= FreezeAfter - 1 + Cardinality(Workers) + Cardinality(Lost)

(* The two halves of the frozen calibration are taken one after the other, *)
(* without a lock around both.  For each APV, the mean pedestals know the  *)
(* events of the rolling baseline and the other way round, up to one event *)
(* per other worker, the events lost to an exception, and those that       *)
(* freeze_after asks for beyond the window of either: windows of           *)
(* freeze_after events, the defaults, add none.                            *)
BaselineEvents(a) ==
    {m_calib.sample_baselines[a][i] : i \in DOMAIN m_calib.sample_baselines[a]}
Beyond(n, window) == IF n > window THEN n - window ELSE 0
InFlight == Cardinality(Workers) - 1 + Cardinality(Lost)
SnapshotsAgreeUpToInFlight ==
    m_frozen /\ ~m_calib.pedestals.warmup => \A a \in Apvs :
        /\ Cardinality(m_calib.pedestals.of[a] \ BaselineEvents(a))
                <= InFlight + Beyond(FreezeAfter, StatLen)
        /\ Cardinality(BaselineEvents(a) \ m_calib.pedestals.of[a])
                <= InFlight + Beyond(FreezeAfter, EventsToAverage)

(* An exception leaves its event in the averages of the APVs before the    *)
(* silent one and does not count it: the averages know no more events than *)
(* were counted, and than the window has, but for one per lost event.      *)
AveragedAreCounted ==
    \A n \in {m_events_counter, EventsToAverage} :
        Cardinality(UNION {m_averages[a] : a \in Apvs}) <= n + Cardinality(Lost)

(* Once the averaging window closed over an APV that never had data and    *)
(* the freeze is due but not taken, no further event is reconstructed: all *)
(* of them throw, those with the APV while learning and the others when    *)
(* they retry the freeze.                                                  *)
WindowClosedOverSilentApv ==
    /\ FreezeAfter > 0
    /\ \A n \in {FreezeAfter, EventsToAverage, MinEvents} : m_events_counter >= n
    /\ \E a \in Apvs : m_averages[a] = {}
    /\ m_calib.pedestals = NotSet
ClosedWindowIsForever ==
    [][WindowClosedOverSilentApv =>
        /\ WindowClosedOverSilentApv'
        /\ \A e \in Events : result'[e] \in {result[e], "lost"}]_vars

(* If no event can be lost and enough events come, the calibration is      *)
(* frozen.                                                                 *)
EventuallyFrozen == (dispatched = MaxEvents) ~> (m_frozen \/ Lost # {})

-----------------------------------------------------------------------------
(* The promise this component implements: its snapshot is m_calib from the *)
(* moment m_frozen is set.                                                 *)
Published == IF m_frozen THEN m_calib ELSE NoCalib
AppliedWith == [e \in Events |-> IF result[e] = "applied" THEN used[e] ELSE NoCalib]

Lifecycle == INSTANCE CalibrationLifecycle WITH
    Snapshots <- [pedestals : PedestalSnapshots, sample_baselines : BaselineSnapshots],
    Unfrozen <- NoCalib,
    snapshot <- Published,
    appliedWith <- AppliedWith

(* Every event that is reconstructed after the freeze is reconstructed     *)
(* with the one published calibration (determinism_tests.cpp relies on it).*)
ImplementsLifecycle == Lifecycle!Spec

=============================================================================
