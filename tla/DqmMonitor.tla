----------------------------- MODULE DqmMonitor -----------------------------
(***************************************************************************)
(* The data quality monitor: three processors, GemReconDqmProcessor,       *)
(* FpgaDqmProcessor and AllInOneDqmProcessor, which JANA calls one after   *)
(* the other for each event, and which draw the events the monitor selects *)
(* into directories of the output file, dqm/events/evt_<n>/<sub>.          *)
(*                                                                         *)
(* A slot is a worker with an event of JANA's pool and the factories that  *)
(* go with it; their objects are made when a processor asks for them.      *)
(***************************************************************************)
EXTENDS GemReco

CONSTANTS
    Slots,
    Events,                 (* [srs, items, f125, records]: srs and f125   *)
                            (* say whether the bank is in the event        *)
    Replies,                (* what the FPGA may answer: [nodes, fits]     *)
    MaxEvents, MaxFiles,    (* bounds: events in all, and input files      *)
    Configured              (* the parameters of the user, of min_event,   *)
                            (* max_event and every                         *)

(* Of the clustering of the GEM-TRD and of the exchange with the FPGA.     *)
CONSTANTS
    NX, NY,            (* bins of the display: time and strips, 100 and 528*)
    StepX, StepY,      (* the size of a bin                                *)
    ModuleChannels,    (* 72                                               *)
    GemYCh0,           (* the channel the strips begin with, 48            *)
    TimeWindowStart,   (* fpgacon:time_window_start                        *)
    DedxThreshold,     (* fpgacon:dedx_threshold                           *)
    ClusterThreshold,  (* THR2                                             *)
    Distance2,         (* the square of CL_DIST                            *)
    MaxClust,          (* MAX_CLUST                                        *)
    MaxHits            (* m_cfg_fpga_max_hits                              *)

ASSUME DqmMonitorAssumption == MaxEvents \in Nat /\ MaxFiles \in Nat /\ Slots # {}
ASSUME TrdAssumption ==
    /\ NX \in Nat /\ NY \in Nat \ {0} /\ StepX \in Nat /\ StepY \in Nat
    /\ TimeWindowStart \in Int /\ ClusterThreshold \in Nat \ {0}
    /\ MaxClust \in Nat /\ MaxHits \in Nat
ASSUME EventsAssumption ==
    Events \subseteq [srs : BOOLEAN, f125 : BOOLEAN,
                     items   : Seq([apv : Nat, ch : Chans, samples : Seq(Nat)]),
                     records : Seq([slot : Nat, ch : Nat, samples : Seq(Nat)])]
ASSUME RepliesAssumption ==
    \A reply \in Replies : reply.nodes \in Seq(Int) /\ reply.fits \in Seq(Int)

VARIABLES
    source,        (* [file, number, taken]: the file, the number of its   *)
                   (* last event, the events taken in all                  *)
    pc, ev,        (* of a slot: where its processors are, and its event   *)
    factories,     (* of a slot: what its factories remember               *)
    made,          (* of a slot: the objects made for its event            *)
    m_total_event_num,  (* the counters of the GEM and FPGA processors     *)
    seen,          (* of a slot: the counter it has read to increment      *)
    exchange,      (* static BUFFER, and what was sent on a slot's socket  *)
    plots          (* [dir, sub, event]: an event drew in evt_<dir>/<sub>  *)

eventVars == <<pc, ev>>
slotVars  == <<factories, made>>
vars == <<source, eventVars, slotVars, m_total_event_num, seen, exchange, plots>>

(***************************************************************************)
(* plugins/fpgacon: F125ClusterFactory makes clusters of the samples of    *)
(* the fADC125 modules that read the GEM-TRD, and FpgaExchangeFactory      *)
(* sends them to an FPGA, which answers with the track of each cluster and *)
(* with the fitted tracks.  A record (Df125WindowRawData) is [slot, ch,    *)
(* samples].  Lengths are in units in which the two steps of the display   *)
(* are integers; the constant shifts of its axes are left out, for only    *)
(* differences matter.                                                     *)
(***************************************************************************)
(* The strips of the Y view begin in the second module; the two slots      *)
(* between the eighth module and the ninth hold no module.                 *)
GetGEMYChan(ch, slot) ==
    LET s0 == slot - 3
        s  == IF s0 > 7 THEN s0 - 2 ELSE s0
    IN  IF s \in 2 .. 7 \/ (s = 1 /\ ch >= GemYCh0) \/ (s = 8 /\ ch < ModuleChannels)
        THEN (s - 1) * ModuleChannels + ch - GemYCh0 ELSE -1

(***************************************************************************)
(* F125ClusterFactory                                                      *)
(***************************************************************************)

(* The samples that are drawn, as <<record, bin>>: those above the         *)
(* threshold, on a strip, and neither early nor late.                      *)
Drawn(records) ==
    UNION {{<<k, t>> : t \in {u \in DOMAIN records[k].samples :
                                 /\ records[k].samples[u] > DedxThreshold
                                 /\ u - 1 - TimeWindowStart \in 0 .. NX}} :
           k \in {j \in DOMAIN records : GetGEMYChan(records[j].ch, records[j].slot) >= 0}}

(* Time runs backwards on the display.  Bins count from 1 there, and       *)
(* strips from 0.                                                          *)
PlaceOf(records, d) == <<NX - (d[2] - 1 - TimeWindowStart),
                         GetGEMYChan(records[d[1]].ch, records[d[1]].slot)>>

(* Of samples drawn in one place that of the last record counts.           *)
Display(records) ==
    [place \in {PlaceOf(records, d) : d \in Drawn(records)} |->
        LET k == Max({d[1] : d \in {e \in Drawn(records) : PlaceOf(records, e) = place}})
        IN  records[k].samples[NX - place[1] + 1 + TimeWindowStart]]

NewCluster(x, y, e) == [pos_x |-> y, pos_z |-> x, dedx |-> e, size |-> 1,
                        width |-> <<y, y>>, length |-> <<x, x>>]

Weighted(new, e, old, sum) == (new * e + old * sum) \div (e + sum)

Grow(c, x, y, e) ==
    [pos_x  |-> Weighted(y, e, c.pos_x, c.dedx), pos_z |-> Weighted(x, e, c.pos_z, c.dedx),
     dedx   |-> c.dedx + e, size |-> c.size + 1,
     width  |-> <<Min({c.width[1], y}), Max({c.width[2], y})>>,
     length |-> <<Min({c.length[1], x}), Max({c.length[2], x})>>]

IsNear(c, x, y) == (y - c.pos_x) * (y - c.pos_x) + (x - c.pos_z) * (x - c.pos_z) < Distance2

(* Mutant: the search goes on behind the first cluster that is near. *)
AddPlaceEverywhere(clusters, x, y, e) ==
    LET near == {k \in DOMAIN clusters : IsNear(clusters[k], x, y)} IN
    IF near # {} THEN [k \in DOMAIN clusters |-> IF k \in near THEN Grow(clusters[k], x, y, e)
                                                 ELSE clusters[k]]
    ELSE IF clusters # <<>> /\ Len(clusters) + 1 >= MaxClust THEN clusters
    ELSE Append(clusters, NewCluster(x, y, e))

(* A place joins the first cluster near it, and otherwise begins one; the  *)
(* last entry of the table is never used.                                  *)
AddPlace(clusters, x, y, e) ==
    LET near == {k \in DOMAIN clusters : IsNear(clusters[k], x, y)} IN
    IF near # {} THEN [clusters EXCEPT ![Min(near)] = Grow(@, x, y, e)]
    ELSE IF clusters # <<>> /\ Len(clusters) + 1 >= MaxClust THEN clusters
    ELSE Append(clusters, NewCluster(x, y, e))

(* The k-th of the bins of the display, strip after strip of each time bin.*)
(* The last time bin is drawn and not visited.                             *)
Bin(k) == <<(k - 1) \div NY, (k - 1) % NY>>
IsCharged(display, k) == Bin(k) \in DOMAIN display /\ display[Bin(k)] >= ClusterThreshold

F125ClustersOf(records) ==
    LET display == Display(records)
        after[k \in 0 .. NX * NY] ==
            IF k = 0 THEN <<>>
            ELSE IF ~IsCharged(display, k) THEN after[k - 1]
            ELSE AddPlace(after[k - 1], Bin(k)[1] * StepX, Bin(k)[2] * StepY, display[Bin(k)])
    IN  after[NX * NY]

(***************************************************************************)
(* FpgaExchangeFactory                                                     *)
(***************************************************************************)

(* Mutant: of too many clusters the last are sent. *)
HitsToSendLast(clusters) ==
    LET n == Min({Len(clusters), MaxHits}) IN
    [k \in 1 .. n |-> LET c == clusters[Len(clusters) - n + k] IN <<c.pos_x, c.pos_z>>]

(* The words behind the header: two for each of the first MaxHits clusters,*)
(* which makes their number even, so that there is never a word of padding.*)
HitsToSend(clusters) ==
    [k \in 1 .. Min({Len(clusters), MaxHits}) |-> <<clusters[k].pos_x, clusters[k].pos_z>>]

(* What is made of the answer [nodes, fits]: a track number for each       *)
(* cluster, and three words for each track.  Without words of fits nothing *)
(* is made, and a number of words that is no multiple of three gives no    *)
(* tracks.                                                                 *)
Associations(clusters, reply) ==
    IF reply.fits = <<>> THEN <<>>
    ELSE [k \in 1 .. Min({Len(reply.nodes), Len(clusters)}) |->
             [hit_index |-> k - 1, track_index |-> reply.nodes[k]]]

TrackFits(reply) ==
    IF Len(reply.fits) % 3 # 0 THEN <<>>
    ELSE [k \in 1 .. Len(reply.fits) \div 3 |->
             [track_id |-> reply.fits[3 * k - 2], slope |-> reply.fits[3 * k - 1],
              intersect |-> reply.fits[3 * k]]]

(***************************************************************************)
(* DataQualityMonitorService                                               *)
(***************************************************************************)

(* "dqm:every" is stored where the smallest event index is; the step is    *)
(* always 1.                                                               *)
m_min_event_index == At(Configured, "every", At(Configured, "min_event", 100))
m_max_event_index == At(Configured, "max_event", 5000)
m_step == 1

ShouldProcessEvent(index) ==
    /\ index > 1 /\ index % m_step = 0
    /\ index >= m_min_event_index
    /\ m_max_event_index = 0 \/ index <= m_max_event_index

GetPerEventSubDir(n, sub, s) == [dir |-> n, sub |-> sub, event |-> ev[s].id]

(***************************************************************************)
(* Slots                                                                   *)
(***************************************************************************)
NoEvent == [id |-> 0]
NoBuffer == [id |-> 0, hits |-> <<>>]
NewMade == [raw |-> Empty, pedestal |-> None, apvs |-> None, planes |-> None,
            peaks |-> None, sf_clusters |-> <<>>, samples |-> Empty,
            clusters |-> <<>>, reply |-> None]

Init ==
    /\ source = [file |-> 1, number |-> 0, taken |-> 0]
    /\ pc = [s \in Slots |-> "idle"]
    /\ ev = [s \in Slots |-> NoEvent]
    /\ factories = [s \in Slots |-> [srs |-> FALSE, f125 |-> FALSE, run |-> 0,
                                     pedestals |-> NewPedestals, stats |-> Empty]]
    /\ made = [s \in Slots |-> NewMade]
    /\ m_total_event_num = [gem |-> 0, fpga |-> 0]
    /\ seen = [s \in Slots |-> 0]
    /\ exchange = [BUFFER |-> NoBuffer, sent |-> [s \in Slots |-> NoBuffer]]
    /\ plots = {}

(* A reference through a null pointer ends the program. *)
Running == \A s \in Slots : pc[s] # "crashed"

GoTo(s, here, there) == Running /\ pc[s] = here /\ pc' = [pc EXCEPT ![s] = there]

(* The next file numbers its events from 1 again; it may be of the same run. *)
NextFile ==
    /\ Running /\ source.file < MaxFiles
    /\ source' = [source EXCEPT !.file = @ + 1, !.number = 0]
    /\ UNCHANGED <<eventVars, slotVars, m_total_event_num, seen, exchange, plots>>

(* An event brings the factories of the banks it has to the slot; they     *)
(* stay when the event goes.                                               *)
Take(s) ==
    /\ GoTo(s, "idle", "gem count")
    /\ source.taken < MaxEvents
    /\ source' = [source EXCEPT !.number = @ + 1, !.taken = @ + 1]
    /\ \E e \in Events :
         /\ ev' = [ev EXCEPT ![s] = [id |-> source.taken + 1, run |-> source.file,
                                     number |-> source.number + 1,
                                     items |-> e.items, records |-> e.records]]
         /\ factories' = [factories EXCEPT ![s].srs = @ \/ e.srs, ![s].f125 = @ \/ e.f125]
    /\ made' = [made EXCEPT ![s] = NewMade]
    /\ UNCHANGED <<m_total_event_num, seen, exchange, plots>>

(* m_total_event_num++ is a read and a write. *)
ReadCounter(s, which) == seen' = [seen EXCEPT ![s] = m_total_event_num[which]]
WriteCounter(s, which) ==
    m_total_event_num' = [m_total_event_num EXCEPT ![which] = seen[s] + 1]

(***************************************************************************)
(* GemReconDqmProcessor                                                    *)
(***************************************************************************)
GemCount(s) ==
    /\ GoTo(s, "gem count", "gem counted")
    /\ ReadCounter(s, "gem")
    /\ UNCHANGED <<source, ev, slotVars, m_total_event_num, exchange, plots>>

GemCounted(s) ==
    /\ GoTo(s, "gem counted", "gem select")
    /\ WriteCounter(s, "gem")
    /\ UNCHANGED <<source, ev, slotVars, seen, exchange, plots>>

(* Mutant: the number the event has in its file. *)
GemNumberOfEvent(s) == ev[s].number

(* The number of the directories: not that of the event, which begins      *)
(* again with each file.                                                   *)
GemNumber(s) == m_total_event_num.gem

(* Asking a slot for samples when it never had any throws, which ends the  *)
(* event for this processor.                                               *)
GemSelect(s) ==
    /\ \/ /\ GoTo(s, "gem select", "gem raw")
          /\ ShouldProcessEvent(GemNumber(s)) /\ factories[s].srs
       \/ /\ GoTo(s, "gem select", "fpga count")
          /\ ~(ShouldProcessEvent(GemNumber(s)) /\ factories[s].srs)
    /\ UNCHANGED <<source, ev, slotVars, m_total_event_num, seen, exchange, plots>>

(* Nothing is drawn when the numbers of samples differ. *)
Coherent(items) == \A k \in DOMAIN items : /\ items[1].samples # <<>>
                                           /\ Len(items[k].samples) = Len(items[1].samples)

FillEventRawData(s) ==
    /\ GoTo(s, "gem raw", "gem apv")
    /\ plots' = IF ev[s].items # <<>> /\ Coherent(ev[s].items)
                THEN plots \cup {GetPerEventSubDir(GemNumber(s), "gem_raw", s)} ELSE plots
    /\ UNCHANGED <<source, ev, slotVars, m_total_event_num, seen, exchange>>

(* The factories of the slot run up to the planes: the pedestals see the   *)
(* event once.  BeginRun only starts the count of the events again.        *)
PedestalsFor(s) ==
    IF factories[s].run = ev[s].run THEN factories[s].pedestals
    ELSE [factories[s].pedestals EXCEPT !.m_events_counter = 0]

(* The factories run one after the other, each on what those before it     *)
(* made.                                                                   *)
MakeRawData(s) ==
    /\ GoTo(s, "gem apv", "pedestals")
    /\ made' = [made EXCEPT ![s].raw = RawData(ev[s].items)]
    /\ UNCHANGED <<source, ev, factories, m_total_event_num, seen, exchange, plots>>

MakePedestal(s) ==
    /\ GoTo(s, "pedestals", "apvs")
    /\ factories' = [factories EXCEPT
            ![s].run = ev[s].run,
            ![s].pedestals = AfterPedestal(PedestalsFor(s), made[s].raw)]
    /\ made' = [made EXCEPT ![s].pedestal = Pedestal(PedestalsFor(s), made[s].raw)]
    /\ UNCHANGED <<source, ev, m_total_event_num, seen, exchange, plots>>

FillApvDecodedData(s) ==
    /\ GoTo(s, "apvs", "planes")
    /\ made' = [made EXCEPT ![s].apvs = ApvDecodedData(made[s].raw, made[s].pedestal)]
    /\ plots' = IF made'[s].apvs = None THEN plots
                ELSE plots \cup {GetPerEventSubDir(GemNumber(s), "gem_apv", s)}
    /\ UNCHANGED <<source, ev, factories, m_total_event_num, seen, exchange>>

MakePlanes(s) ==
    /\ GoTo(s, "planes", "gem plane")
    /\ made' = [made EXCEPT ![s].planes = PlaneDecodedData(made[s].apvs)]
    /\ UNCHANGED <<source, ev, factories, m_total_event_num, seen, exchange, plots>>

(* The planes are used without asking whether there are any. *)
FillEventPlaneData(s) ==
    \/ /\ GoTo(s, "gem plane", "peaks")
       /\ made[s].planes # None
       /\ plots' = plots \cup {GetPerEventSubDir(GemNumber(s), "gem_plane", s)}
       /\ UNCHANGED <<source, ev, slotVars, m_total_event_num, seen, exchange>>
    \/ /\ GoTo(s, "gem plane", "crashed")
       /\ made[s].planes = None
       /\ UNCHANGED <<source, ev, slotVars, m_total_event_num, seen, exchange, plots>>

(* The clusters and the peaks are asked for behind the plots of the planes.*)
MakePeaks(s) ==
    /\ GoTo(s, "peaks", "gem samples")
    /\ made' = [made EXCEPT ![s].peaks = Peaks(made[s].planes),
                            ![s].sf_clusters = Clusters(made[s].planes)]
    /\ UNCHANGED <<source, ev, factories, m_total_event_num, seen, exchange, plots>>

FillSampleData(s) ==
    /\ GoTo(s, "gem samples", "fpga count")
    /\ LET analysed == AnalyseSamples(ev[s].items, factories[s].stats) IN
         /\ made' = [made EXCEPT ![s].samples = analysed.out]
         /\ factories' = [factories EXCEPT ![s].stats = analysed.stats]
    /\ UNCHANGED <<source, ev, m_total_event_num, seen, exchange, plots>>

(***************************************************************************)
(* FpgaDqmProcessor                                                        *)
(***************************************************************************)
FpgaCount(s) ==
    /\ GoTo(s, "fpga count", "fpga counted")
    /\ ReadCounter(s, "fpga")
    /\ UNCHANGED <<source, ev, slotVars, m_total_event_num, exchange, plots>>

FpgaCounted(s) ==
    /\ \/ /\ GoTo(s, "fpga counted", "fpga send")
          /\ ev[s].number >= 3 /\ ShouldProcessEvent(ev[s].number)
       \/ /\ GoTo(s, "fpga counted", "trd")
          /\ ~(ev[s].number >= 3 /\ ShouldProcessEvent(ev[s].number))
    /\ WriteCounter(s, "fpga")
    /\ UNCHANGED <<source, ev, slotVars, seen, exchange, plots>>

(* A slot that never had samples of an fADC125 has no clusters. *)
ClustersFor(s) == IF factories[s].f125 THEN F125ClustersOf(ev[s].records) ELSE <<>>

(* The exchange.  The buffer is shared by the factories of all slots, the  *)
(* socket is the factory's own.                                            *)
FillBuffer(s) ==
    /\ GoTo(s, "fpga send", "fpga sent")
    /\ made' = [made EXCEPT ![s].clusters = ClustersFor(s)]
    /\ exchange' = [exchange EXCEPT !.BUFFER = [id   |-> ev[s].id,
                                                hits |-> HitsToSend(ClustersFor(s))]]
    /\ UNCHANGED <<source, ev, factories, m_total_event_num, seen, plots>>

SendRaw(s) ==
    /\ GoTo(s, "fpga sent", "fpga receive")
    /\ exchange' = [exchange EXCEPT !.sent[s] = exchange.BUFFER]
    /\ UNCHANGED <<source, ev, slotVars, m_total_event_num, seen, plots>>

(* The FPGA numbers the tracks of the hits it was sent. *)
RecvRaw(s) ==
    /\ GoTo(s, "fpga receive", "fpga plots")
    /\ \E reply \in Replies :
         /\ Len(reply.nodes) = Len(exchange.sent[s].hits)
         /\ made' = [made EXCEPT ![s].reply =
               [of |-> exchange.sent[s].id,
                associations |-> Associations(made[s].clusters, reply),
                tracks |-> TrackFits(reply)]]
    /\ UNCHANGED <<source, ev, factories, m_total_event_num, seen, exchange, plots>>

(* The markers of the picture of the tracks, with the numbers in range. *)
Markers(s) == LET r == made[s].reply IN
    {k \in DOMAIN r.associations :
        r.associations[k].track_index \in 1 .. Len(r.tracks)}

(* Without a display, which only a slot that had samples of an fADC125     *)
(* makes, the program ends here.                                           *)
FpgaPlots(s) ==
    \/ /\ factories[s].f125
       /\ GoTo(s, "fpga plots", "trd")
       /\ plots' = plots \cup {GetPerEventSubDir(m_total_event_num.fpga, "fpgacon", s)}
       /\ UNCHANGED <<source, ev, slotVars, m_total_event_num, seen, exchange>>
    \/ /\ ~factories[s].f125
       /\ GoTo(s, "fpga plots", "crashed")
       /\ UNCHANGED <<source, ev, slotVars, m_total_event_num, seen, exchange, plots>>

(***************************************************************************)
(* AllInOneDqmProcessor: selects and draws by the number of the event.     *)
(***************************************************************************)
FillTrdHistogram(s) ==
    /\ GoTo(s, "trd", "idle")
    /\ plots' = IF ShouldProcessEvent(ev[s].number) /\ factories[s].f125
                THEN plots \cup {GetPerEventSubDir(ev[s].number, "trd", s)} ELSE plots
    /\ UNCHANGED <<source, ev, slotVars, m_total_event_num, seen, exchange>>

Gem(s) == \/ GemCount(s) \/ GemCounted(s) \/ GemSelect(s) \/ FillEventRawData(s)
          \/ MakeRawData(s) \/ MakePedestal(s) \/ FillApvDecodedData(s) \/ MakePlanes(s)
          \/ FillEventPlaneData(s) \/ MakePeaks(s) \/ FillSampleData(s)
Fpga(s) == \/ FpgaCount(s) \/ FpgaCounted(s) \/ FillBuffer(s) \/ SendRaw(s)
           \/ RecvRaw(s) \/ FpgaPlots(s)

Next == NextFile \/ \E s \in Slots : Take(s) \/ Gem(s) \/ Fpga(s) \/ FillTrdHistogram(s)

Spec == Init /\ [][Next]_vars

(***************************************************************************)
(* Properties                                                              *)
(***************************************************************************)

(* The plots of the GEM and of the FPGA in one event directory are of one  *)
(* event, also when the next file repeats the numbers of the last one      *)
(* (the total numbers of the two processors keep step).                    *)
EventPlotsTogether ==
    \A p, q \in plots : p.dir = q.dir /\ "trd" \notin {p.sub, q.sub} => p.event = q.event

(* Each plane is read by one chip or by two, all that a peak is told apart *)
(* by.                                                                     *)
InPairs == \A plane \in PlanesWithApvs :
              mapping.apvsOf[plane] \in [1 .. 1 -> Nat] \cup [1 .. 2 -> Nat]

(* A peak has the height that the samples of the APV it names have in this *)
(* event, on the strip and in the time bin of the peak, with that APV's    *)
(* pedestal and common mode taken off, and the APV has its own place on    *)
(* the plane: a silent or shortened APV moves no strip of another.         *)
PeakOnItsApv ==
    \A s \in Slots : pc[s] = "gem samples" =>
        \A plane \in DOMAIN made[s].planes :
            \A k \in DOMAIN made[s].peaks[plane] :
                LET peak == made[s].peaks[plane][k]
                    c1   == (peak.index % ChannelsCount) + 1
                    rows == TimeBins(ev[s].items, peak.apv)
                    pedestal == made[s].pedestal[peak.apv]
                IN  /\ mapping.apvsOf[plane][(peak.index \div ChannelsCount) + 1] = peak.apv
                    /\ peak.time + 1 \in DOMAIN rows
                    /\ peak.height = pedestal[c1].offset - rows[peak.time + 1][c1]
                                     + CommonMode(rows[peak.time + 1], pedestal)

(* The mapping that gemreco reads.  A chip that is switched off by the     *)
(* plane NULL is refused there: those lines are left out for both.         *)
Ported == load_config_mapping_cfg(
              SelectSeq(MappingFile, LAMBDA l : ~(l.kind = "APV" /\ l.plane = "NULL")))

(* Both read the same chips and planes from it.                            *)
SameTables == /\ DOMAIN Ported.apvs = Mapped /\ DOMAIN Ported.planes = PlanesWithApvs
              /\ \A plane \in PlanesWithApvs :
                    Ported.planes[plane].apv_ids = mapping.apvsOf[plane]

(* The stages of gemreco give, for the same samples and pedestals, the     *)
(* planes, peaks and clusters of the factories they replace.               *)
ParityWithLegacy ==
    \A s \in Slots : pc[s] = "gem samples" =>
        LET channels(apv, of) == [c \in 1 .. ChannelsCount |-> made[s].pedestal[apv][c][of]]
            pedestals == [apv \in DOMAIN made[s].pedestal |->
                [offsets |-> channels(apv, "offset"), noises |-> channels(apv, "noise")]]
            planes == [p \in DOMAIN made[s].planes |->
                [data |-> made[s].planes[p].data, noises |-> made[s].planes[p].noise]]
        IN  /\ reconstruct(ev[s].items, Ported, pedestals) = planes
            /\ find_plane_peaks(planes, Ported) = made[s].peaks
            /\ match_clusters(planes, Ported) = made[s].sf_clusters

(* The ids of samples have room for so many chips, places on a plane and   *)
(* channels; the times are multiplied in 32 bits, which brings the ids of  *)
(* two that are 30 bins apart close together.                              *)
IdsFit ==
    /\ ChannelsCount <= 1000
    /\ \A apv \in DOMAIN mapping.index : mapping.index[apv] \in 0 .. 99
    /\ \A e \in Events : \A k \in DOMAIN e.items :
          e.items[k].apv <= 255 /\ Len(e.items[k].samples) <= 30

(* Every sample of a mapped APV is among the samples written: the ids of   *)
(* no two of them are equal, although planes of different detectors share  *)
(* their numbers.  (Of two items of one channel the later counts.)         *)
NoSampleLost ==
    \A s \in Slots : pc[s] = "fpga count" /\ made[s].samples # Empty =>
        \A k \in DOMAIN SampleSeq(ev[s].items) :
            LET sample == SampleSeq(ev[s].items)[k] IN
            \E id \in DOMAIN made[s].samples :
                LET kept == made[s].samples[id] IN
                /\ kept.apv = sample.apv /\ kept.time_bin = sample.time_bin
                /\ kept.raw_channel = sample.raw_channel

(* The sum of the energies of the clusters, and of the places that are     *)
(* clustered.                                                              *)
SumTo(f, n) ==
    LET sum[k \in 0 .. n] == IF k = 0 THEN 0 ELSE sum[k - 1] + f[k]
    IN  sum[n]

Energy(clusters) == SumTo([k \in DOMAIN clusters |-> clusters[k].dedx], Len(clusters))
Charge(display)  == SumTo([k \in 1 .. NX * NY |->
                              IF IsCharged(display, k) THEN display[Bin(k)] ELSE 0], NX * NY)

(* Unless their table is full, the clusters hold the energy of the display *)
(* once: all places but those of the first tick of the time window, which  *)
(* are drawn in the time bin the clustering does not reach.                *)
EnergyIsKept ==
    \A s \in Slots :
        pc[s] = "fpga sent" /\ factories[s].f125 /\ Len(made[s].clusters) + 1 < MaxClust =>
            Energy(made[s].clusters) = Charge(Display(ev[s].records))

(* The number of a track is given to the cluster that was sent in its      *)
(* place, for the same event.                                              *)
MarkersAreOwn ==
    \A s \in Slots : pc[s] = "fpga plots" =>
        /\ made[s].reply.of = ev[s].id
        /\ \A k \in Markers(s) :
              LET c == made[s].clusters[made[s].reply.associations[k].hit_index + 1]
              IN  exchange.sent[s].hits[k] = <<c.pos_x, c.pos_z>>

=============================================================================
