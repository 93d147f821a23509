------------------------------ MODULE GemRecon ------------------------------
(***************************************************************************)
(* extmath/PeakFinder.h: runs of neighbouring channels above the noise in  *)
(* one time slice, the peaks that every time slice has, and the pairing of *)
(* the peaks of two planes.                                                *)
(*                                                                         *)
(* Heights are integers, and the noise of a channel is given by its        *)
(* variance, so that no root is taken.  A peak's index counts from 0.      *)
(*                                                                         *)
(* The factories of plugins/gemrecon.  They make, of the GEM samples of an *)
(* event: the samples of each mapped APV (RawData), pedestals learned over *)
(* the first events, the APVs and the planes with pedestal and common mode *)
(* taken off, the peaks of the planes, the clusters of the X and Y planes, *)
(* and the list of single samples.                                         *)
(*                                                                         *)
(* An item (DGEMSRSWindowRawData) is [apv, ch, samples].  Means and other  *)
(* quotients are rounded down; the noise of a channel is its variance.     *)
(*                                                                         *)
(* The tables of the GEM readout (plugins/gemrecon/GemMapping): which      *)
(* detector, plane and place on the plane an APV chip belongs to, read     *)
(* once from a mapping file, and the orders in which the chips and the     *)
(* readout boards number their channels.                                   *)
(*                                                                         *)
(* A line of the file is a record; scanning its text is left out.  The     *)
(* tables are one record of functions.  A read of a key that is not there  *)
(* yields the value std::map's operator[] inserts: "" or 0.                *)
(***************************************************************************)
EXTENDS Integers, Sequences, FiniteSets, SequencesExt, Folds, FiniteSetsExt, TLC

CONSTANTS NSigmas, MinWidth, MinDistance, MaxShift

ASSUME PeakFinderAssumption == MinWidth \in Nat /\ MinDistance \in Nat

Abs(x) == IF x < 0 THEN -x ELSE x

(* data > n_sigmas * noise *)
Above(data, variance) == data > 0 /\ data * data > NSigmas * NSigmas * variance

(***************************************************************************)
(* One slice                                                               *)
(***************************************************************************)
Sum(data, i, width) == FoldLeft(LAMBDA a, x : a + x, 0, SubSeq(data, i + 1, i + width))

(* The run of width channels from channel i on: the highest, the earliest  *)
(* of equals.                                                              *)
PeakOf(data, i, width, slice) ==
    LET run == i .. i + width - 1
        top == CHOOSE j \in run :
                 /\ \A k \in run : data[k + 1] <= data[j + 1]
                 /\ \A k \in run : data[k + 1] = data[j + 1] => j <= k
    IN  [index |-> top, height |-> data[top + 1], width |-> width,
         area |-> Sum(data, i, width), time |-> slice]

(* The search stops MinWidth channels before the end, and resumes          *)
(* MinDistance channels after a run.                                       *)
find_peaks(data, noise, slice) ==
    LET n == Len(data)
        above(i) == Above(data[i + 1], noise[i + 1])
        width(i) == CHOOSE w \in 1 .. n - i :
                      /\ \A k \in i .. i + w - 1 : above(k)
                      /\ i + w = n \/ ~above(i + w)
        from[i \in 0 .. n + MinDistance] ==
            CASE i >= n - MinWidth -> <<>>
              [] i < n - MinWidth /\ ~above(i) -> from[i + 1]
              [] OTHER ->
                   (IF width(i) >= MinWidth
                      THEN <<PeakOf(data, i, width(i), slice)>> ELSE <<>>)
                   \o from[i + width(i) + MinDistance]
    IN  IF n = 0 THEN <<>> ELSE from[0]

(***************************************************************************)
(* All slices                                                              *)
(***************************************************************************)

(* The peaks of a later slice that join the one of the first slice, and    *)
(* those left for the next.  Erasing an element moves its successor to its *)
(* place, and the loop goes on behind it: a successor that is near too is  *)
(* not looked at, and stays.                                               *)
Joining(index, peaks) ==
    LET step(acc, p) ==
            IF acc.skip THEN [acc EXCEPT !.skip = FALSE, !.left = Append(@, p)]
            ELSE IF Abs(index - p.index) <= MaxShift
                 THEN [acc EXCEPT !.skip = TRUE, !.joined = Append(@, p)]
                 ELSE [acc EXCEPT !.left = Append(@, p)]
    IN  FoldLeft(step, [joined |-> <<>>, left |-> <<>>, skip |-> FALSE], peaks)

(* [bins, later]: one bin for each peak of the first slice, and what is    *)
(* left of the later slices.                                               *)
combine_common_peaks(slices) ==
    LET step(acc, p) ==
            LET found == [t \in DOMAIN acc.later |-> Joining(p.index, acc.later[t])]
            IN  [bins  |-> Append(acc.bins,
                              <<p>> \o FlattenSeq([t \in DOMAIN found |-> found[t].joined])),
                 later |-> [t \in DOMAIN found |-> found[t].left]]
    IN  IF slices = <<>> THEN <<>>
        ELSE FoldLeft(step, [bins |-> <<>>, later |-> Tail(slices)], Head(slices)).bins

(* The highest of a bin, the earliest of equals. *)
Highest(bin) == FoldLeft(LAMBDA a, p : IF a.height < p.height THEN p ELSE a, bin[1], bin)

(* A bin without a peak of each slice is dropped. *)
find_common_peaks(slices, noise) ==
    LET peaks == [t \in DOMAIN slices |-> find_peaks(slices[t], noise, t - 1)]
        bins  == combine_common_peaks(peaks)
    IN  FlattenSeq([k \in DOMAIN bins |->
            IF Len(bins[k]) = Len(slices) THEN <<Highest(bins[k])>> ELSE <<>>])

(***************************************************************************)
(* Pairs of two planes                                                     *)
(***************************************************************************)
Least(a, b) == IF a < b THEN a ELSE b

match_peaks_sorting(xs, ys) ==
    LET byArea(s) == SortSeq(s, LAMBDA a, b : a.area > b.area)
        n == Least(Len(xs), Len(ys))
    IN  [k \in 1 .. n |-> <<byArea(xs)[k], byArea(ys)[k]>>]

(* The closest pair of those left, until one side has none.  Which of      *)
(* several equally close pairs comes first is up to the queue.             *)
match_peaks_area_comparison(xs, ys) ==
    LET Difference(p) == Abs(xs[p[1]].area - ys[p[2]].area)
        pairs[X \in SUBSET DOMAIN xs, Y \in SUBSET DOMAIN ys] ==
            IF X = {} \/ Y = {} THEN <<>>
            ELSE LET p == CHOOSE p \in X \X Y :
                            \A q \in X \X Y : Difference(p) <= Difference(q)
                 IN  <<<<xs[p[1]], ys[p[2]]>>>> \o pairs[X \ {p[1]}, Y \ {p[2]}]
    IN  pairs[DOMAIN xs, DOMAIN ys]

match_peaks(xs, ys) == IF Len(xs) = Len(ys) THEN match_peaks_sorting(xs, ys)
                       ELSE match_peaks_area_comparison(xs, ys)

-----------------------------------------------------------------------------
(* What operator[] yields for key k of table f. *)
At(f, k, none) == IF k \in DOMAIN f THEN f[k] ELSE none

(* f[k] = x *)
Put(f, k, x) == [j \in DOMAIN f \cup {k} |-> IF j = k THEN x ELSE f[j]]

(* f[k].push_back(x) *)
Push(f, k, x) == Put(f, k, Append(At(f, k, <<>>), x))

(* The tables of a new GemMapping. *)
Empty == <<>>
NoMapping == [board       |-> Empty, type       |-> Empty, detectorID |-> Empty,
              planesOf    |-> Empty, planeID    |-> Empty, planeOfID  |-> Empty,
              detectorOf  |-> Empty, geometry   |-> Empty,
              apvNo       |-> Empty, apvOfNo    |-> Empty, apvName    |-> Empty,
              orientation |-> Empty, index      |-> Empty, planeOfApv |-> Empty,
              apvsOfFec   |-> Empty, fecsOf     |-> Empty, apvsOf     |-> Empty,
              apvsOfDet   |-> Empty, detOfApv   |-> Empty, active     |-> Empty,
              fecIP       |-> Empty, detID      |-> 0,     nextApv    |-> 0]

(***************************************************************************)
(* Detectors                                                               *)
(***************************************************************************)

(* What the five Set...ReadoutMap handlers do alike. *)
Detector(m, line) ==
    [m EXCEPT !.board      = Put(@, line.det, line.board),
              !.type       = Put(@, line.det, line.type),
              !.detectorID = Put(@, line.det, m.detID)]

(* A plane of the detector, with its side (0 or 1) and its description. *)
Plane(m, det, plane, side, description) ==
    [m EXCEPT !.planeID    = Put(@, plane, side),
              !.planeOfID  = Put(@, side, plane),
              !.detectorOf = Put(@, plane, det),
              !.planesOf   = Push(@, det, plane),
              !.geometry   = Put(@, plane, At(@, plane, <<>>) \o description)]

(* A plane without a side: CMSGEM sectors are not entered among the ids. *)
Sector(m, det, plane, description) ==
    [m EXCEPT !.detectorOf = Put(@, plane, det),
              !.planesOf   = Push(@, det, plane),
              !.geometry   = Put(@, plane, At(@, plane, <<>>) \o description)]

(* A description is <<side, size, connectors, orientation>>. *)
SetCartesianStripsReadoutMap(m, l) ==
    Plane(Plane(Detector(m, l), l.det, l.plane, 0, <<0, l.size, l.apvs, l.orient>>),
          l.det, l.plane2, 1, <<1, l.size2, l.apvs2, l.orient2>>)

Set1DStripsReadoutMap(m, l) ==
    Plane(Detector(m, l), l.det, l.plane, 0, <<0, l.size, l.apvs, l.orient>>)

(* In this board the size is the last of the four.  The length is that of  *)
(* the top plane, the outer radius that of the bottom plane.               *)
SetUVStripsReadoutMap(m, l) ==
    Plane(Plane(Detector(m, l), l.det, l.plane, 0, <<0, l.apvs, l.orient, l.size>>),
          l.det, l.plane2, 1, <<1, l.apvs2, l.orient2, l.size2>>)

SetCMSGEMReadoutMap(m, l) ==
    Sector(Detector(m, l), l.det, l.plane, <<l.side, l.size, l.apvs, l.orient>>)

(* The sizes of pads are kept under the detector and used nowhere. *)
SetPadsReadoutMap(m, l) == Plane(Detector(m, l), l.det, l.plane, 0, <<>>)

(***************************************************************************)
(* Chips                                                                   *)
(***************************************************************************)
ApvId(fec, adc) == 16 * fec + adc          \* (fecId << 4) | adcCh
FecOf(apv) == (apv \div 16) % 16
AdcOf(apv) == apv % 16

GetDetectorFromPlane(m, plane) == At(m.detectorOf, plane, "")
GetPlaneFromAPVID(m, apv) == At(m.planeOfApv, apv, "")

(* A plane named NULL switches the chip off. *)
SetAPVMap(m, l) ==
    LET id == ApvId(l.fec, l.adc) IN
    IF l.plane = "NULL" THEN m
    ELSE [m EXCEPT !.apvNo       = Put(@, id, m.nextApv),
                   !.apvOfNo     = Put(@, m.nextApv, id),
                   !.apvName     = Put(@, id, <<m.nextApv, l.adc, l.fec, l.plane>>),
                   !.orientation = Put(@, id, l.orient),
                   !.index       = Put(@, id, l.index),
                   !.planeOfApv  = Put(@, id, l.plane),
                   !.apvsOfFec   = Push(@, l.fec, id),
                   !.fecsOf      = Push(@, l.plane, l.fec),
                   !.apvsOf      = Push(@, l.plane, id),
                   !.apvsOfDet   = Push(@, GetDetectorFromPlane(m, l.plane), id),
                   !.nextApv     = @ + 1]

(* The chips of each FEC, by the low four bits of their id. *)
ComputeActiveADCchannelsMap(m) ==
    [m EXCEPT !.active =
        [f \in {FecOf(a) : a \in DOMAIN m.apvNo} |->
            {AdcOf(a) : a \in {b \in DOMAIN m.apvNo : FecOf(b) = f}}]]

(***************************************************************************)
(* The file                                                                *)
(***************************************************************************)
Boards == {"CARTESIAN", "1DSTRIPS", "UV_ANGLE", "PADPLANE", "CMSGEM"}

(* An unknown board is skipped, and takes no detector number. *)
DetLine(m, l) ==
    IF l.board \notin Boards THEN m
    ELSE LET n == CASE l.board = "CARTESIAN" -> SetCartesianStripsReadoutMap(m, l)
                    [] l.board = "1DSTRIPS"  -> Set1DStripsReadoutMap(m, l)
                    [] l.board = "UV_ANGLE"  -> SetUVStripsReadoutMap(m, l)
                    [] l.board = "PADPLANE"  -> SetPadsReadoutMap(m, l)
                    [] l.board = "CMSGEM"    -> SetCMSGEMReadoutMap(m, l)
         IN  [n EXCEPT !.detID = @ + 1]

Line(m, l) == CASE l.kind = "DET" -> DetLine(m, l)
                [] l.kind = "APV" -> SetAPVMap(m, l)
                [] l.kind = "FEC" -> [m EXCEPT !.fecIP = Put(@, l.fec, l.ip)]

Lines(m, file) == FoldLeft(Line, m, file)

(* The tables Clear() empties; the lists of the FECs, of the detectors and *)
(* the descriptions of the planes survive it.                              *)
Clear(m) == [NoMapping EXCEPT !.planesOf = m.planesOf, !.geometry = m.geometry,
                              !.apvsOfFec = m.apvsOfFec, !.fecsOf = m.fecsOf,
                              !.type = m.type, !.fecIP = m.fecIP,
                              !.planeOfID = m.planeOfID, !.active = m.active]

LoadMapping(m, file) == ComputeActiveADCchannelsMap(Lines(Clear(m), file))

(***************************************************************************)
(* Questions                                                               *)
(***************************************************************************)
BoardOf(m, plane) == At(m.board, GetDetectorFromPlane(m, plane), "")

Strips == {"CARTESIAN", "1DSTRIPS", "CMSGEM", "UV_ANGLE"}
GetPlaneID(m, plane) ==
    IF BoardOf(m, plane) \in Strips THEN m.geometry[plane][1] ELSE -1
GetPlaneSize(m, plane) ==
    CASE BoardOf(m, plane) \in Strips \ {"UV_ANGLE"} -> m.geometry[plane][2]
      [] BoardOf(m, plane) = "UV_ANGLE" -> m.geometry[plane][4]
      [] OTHER -> 0

(* No handler fills detOfApv, so every chip is of the detector named "". *)
DetectorIdOfApv(m, apv) == At(m.detectorID, At(m.detOfApv, apv, ""), 0)

(* list::unique(): equal neighbours become one. *)
Unique(s) == FoldLeft(LAMBDA u, x : IF u # <<>> /\ Last(u) = x THEN u ELSE Append(u, x), <<>>, s)
GetAPVIDListFromPlane(m, plane) == Unique(At(m.apvsOf, plane, <<>>))

(***************************************************************************)
(* Orders of the 128 channels of a chip                                    *)
(***************************************************************************)
Channels == 0 .. 127
APVchannelCorrection(c) == 32 * (c % 4) + 8 * (c \div 4) - 31 * (c \div 16)

(* No two channels of a chip get one number. *)
ASSUME CorrectionIsPermutation == {APVchannelCorrection(c) : c \in Channels} = Channels

CMSStripMapping(c) == IF c % 2 = 1 THEN 127 - (c - 1) \div 2 ELSE c \div 2
EICStripMapping(c) == IF c % 2 = 0 THEN c \div 2 ELSE 64 + (c - 1) \div 2
HMSStripMapping(c) == CASE c % 4 = 0 -> c + 2 [] c % 4 = 1 -> c - 1
                        [] c % 4 = 2 -> c + 1 [] c % 4 = 3 -> c - 2

(* The chip at index 11 of an X plane of the PRad chamber has its fold at  *)
(* channel 96, the others have it at 64.  The correction of the chip is    *)
(* applied here a second time: GetStripMapping has applied it already.     *)
PRadStripMapping(c0, special) ==
    LET c == APVchannelCorrection(c0)
        fold == IF special THEN 96 ELSE 64
    IN  IF c % 2 = 0 THEN c \div 2 + fold \div 2
        ELSE IF c < fold THEN (fold - 1 - c) \div 2
        ELSE 127 - (c - fold - 1) \div 2

GetStripMapping(type, special, c0) ==
    LET c == APVchannelCorrection(c0) IN
    CASE type = "CMSGEM"    -> CMSStripMapping(c)
      [] type = "EICPROTO1" -> EICStripMapping(c)
      [] type = "HMSGEM"    -> HMSStripMapping(c)
      [] type = "PRADGEM"   -> PRadStripMapping(c, special)
      [] OTHER              -> c

-----------------------------------------------------------------------------
CONSTANTS
    MappingFile,       (* the lines of the mapping                         *)
    ChannelsCount,     (* channels of a chip, 128                          *)
    Correction,        (* ApvChannelCorrection, a permutation of them      *)
    EventsToAverage,   (* m_events_to_average, 500                         *)
    MinimalEvents,     (* m_minimal_events, 15                             *)
    ConstantOffset,    (* 3000                                             *)
    ComModeCut,        (* fComModeCut, 20                                  *)
    Baseline,          (* fAPVBaseline, 2500                               *)
    PlaneX, PlaneY,    (* gemrecon:plane_name_x and plane_name_y           *)
    StatLen            (* gemrecon:sample:stat_len, 500                    *)

Chans == 0 .. ChannelsCount - 1

ASSUME GemReconAssumption ==
    /\ ChannelsCount \in Nat \ {0} /\ ComModeCut \in 0 .. ChannelsCount
    /\ Correction \in [Chans -> Chans]
    /\ {Correction[c] : c \in Chans} = Chans
    /\ EventsToAverage \in Nat /\ MinimalEvents \in Nat
    /\ ConstantOffset \in Int /\ Baseline \in Int

(* GemMapping's tables, loaded once, before the first event.               *)
mapping == LoadMapping(NoMapping, MappingFile)

Mapped  == DOMAIN mapping.apvName          \* GetAPVFromIDMap
PlanesWithApvs == DOMAIN mapping.apvsOf    \* GetAPVIDListFromPlaneMap

None == [none |-> TRUE]                    \* GetSingle found nothing

(***************************************************************************)
(* RawDataFactory                                                          *)
(***************************************************************************)

(* The last item of a channel wins. *)
SamplesOf(items, apv, c) ==
    LET same == {k \in DOMAIN items : items[k].apv = apv /\ Correction[items[k].ch] = c}
    IN  IF same = {} THEN <<>> ELSE items[Max(same)].samples

(* The time bins of an APV are those of its longest channel; where a       *)
(* channel has no sample there is a 0.  A row has channel c at c + 1.      *)
TimeBins(items, apv) ==
    LET longest == Max({Len(SamplesOf(items, apv, c)) : c \in Chans})
    IN  [t \in 1 .. longest |-> [c1 \in 1 .. ChannelsCount |->
            LET s == SamplesOf(items, apv, c1 - 1) IN IF t <= Len(s) THEN s[t] ELSE 0]]

RawData(items) ==
    [apv \in {items[k].apv : k \in DOMAIN items} \cap Mapped |-> TimeBins(items, apv)]

(***************************************************************************)
(* PedestalFactory: the sums of a slot's factory.                          *)
(***************************************************************************)
NoSum == [n |-> 0, sum |-> 0, squares |-> 0]
NewPedestals == [m_events_counter |-> 0,
                 sums |-> [apv \in Mapped |-> [c1 \in 1 .. ChannelsCount |-> NoSum]]]

Mean(s)     == s.sum \div s.n
Variance(s) == IF s.n < 2 THEN 0 ELSE (s.squares - (s.sum * s.sum) \div s.n) \div s.n

AddSample(s, x) == [n |-> s.n + 1, sum |-> s.sum + x, squares |-> s.squares + x * x]

Learning(p) == p.m_events_counter < EventsToAverage
Early(p)    == p.m_events_counter < MinimalEvents

Learn(p, raw) ==
    IF ~Learning(p) THEN p.sums
    ELSE [apv \in Mapped |-> IF apv \notin DOMAIN raw THEN p.sums[apv] ELSE
             [c1 \in 1 .. ChannelsCount |->
                 FoldLeft(LAMBDA s, row : AddSample(s, row[c1]), p.sums[apv][c1], raw[apv])]]

(* Average::mean throws when nothing has been added: the first such APV    *)
(* ends the event, and those behind it are not learned either.             *)
Unlearned(p, raw) == IF Early(p) THEN {}
                     ELSE {apv \in DOMAIN raw : Learn(p, raw)[apv][1].n = 0}
MeanThrows(p, raw) == Unlearned(p, raw) # {}

Pedestal(p, raw) ==
    LET sums == Learn(p, raw) IN
    IF MeanThrows(p, raw) THEN None
    ELSE [apv \in DOMAIN raw |-> [c1 \in 1 .. ChannelsCount |->
             IF Early(p) THEN [offset |-> ConstantOffset, noise |-> 0]
             ELSE [offset |-> Mean(sums[apv][c1]), noise |-> Variance(sums[apv][c1])]]]

(* An event is counted when the factory gets to its end, whether or not    *)
(* there were samples in it.                                               *)
AfterPedestal(p, raw) ==
    IF MeanThrows(p, raw)
    THEN [p EXCEPT !.sums = [apv \in Mapped |-> IF apv < Min(Unlearned(p, raw))
                                                THEN Learn(p, raw)[apv] ELSE @[apv]]]
    ELSE [sums |-> Learn(p, raw), m_events_counter |-> p.m_events_counter + 1]

(***************************************************************************)
(* ApvDecodedDataFactory                                                   *)
(***************************************************************************)

(* The ComModeCut lowest values are replaced; a value stands for the last  *)
(* channel that has it.  The place of a channel is that of its value among *)
(* the sorted ones.                                                        *)
CommonMode(row, pedestal) ==
    LET value == [c1 \in DOMAIN row |-> row[c1] - pedestal[c1].offset]
        last(v) == Max({c1 \in DOMAIN value : value[c1] = v})
        place(c1) == Cardinality({d1 \in DOMAIN value :
                         value[d1] < value[c1] \/ (value[d1] = value[c1] /\ d1 <= c1)})
        test  == [c1 \in DOMAIN value |->
                     IF place(c1) <= ComModeCut THEN Baseline - pedestal[last(value[c1])].offset
                     ELSE value[c1]]
    IN  FoldLeft(LAMBDA a, x : a + x, 0, test) \div ChannelsCount

DecodeApv(bins, pedestal) ==
    [t \in DOMAIN bins |-> [c1 \in 1 .. ChannelsCount |->
        -(bins[t][c1] - pedestal[c1].offset - CommonMode(bins[t], pedestal))]]

(* An APV without time bins is left out. *)
ApvDecodedData(raw, pedestal) ==
    IF pedestal = None THEN None
    ELSE [apv \in {a \in DOMAIN raw : raw[a] # <<>>} |->
             [ids |-> <<apv>>, data |-> DecodeApv(raw[apv], pedestal[apv]),
              noise |-> [c1 \in 1 .. ChannelsCount |-> pedestal[apv][c1].noise]]]

(***************************************************************************)
(* PlaneDecodedDataFactory                                                 *)
(***************************************************************************)
Zeros(apv, bins) ==
    [ids |-> <<apv>>, noise |-> [c1 \in 1 .. ChannelsCount |-> 0],
     data |-> [t \in 1 .. bins |-> [c1 \in 1 .. ChannelsCount |-> 0]]]

GetApvDataOrZeros(decoded, apv, bins) ==
    IF apv \in DOMAIN decoded /\ Len(decoded[apv].data) = bins THEN decoded[apv]
    ELSE Zeros(apv, bins)

(* Side by side: the channels of b follow those of a in each time bin. *)
mergeAdcDecodedData(a, b) ==
    [ids |-> a.ids \o b.ids, noise |-> a.noise \o b.noise,
     data |-> [t \in 1 .. Max({Len(a.data), Len(b.data)}) |->
                 (IF t \in DOMAIN a.data THEN a.data[t] ELSE <<>>) \o
                 (IF t \in DOMAIN b.data THEN b.data[t] ELSE <<>>)]]

NoPlane == [ids |-> <<>>, noise |-> <<>>, data |-> <<>>]

(* Mutant: an APV without data takes no place on its plane. *)
PlaneOfPresent(decoded, apvs) ==
    LET present == SelectSeq(apvs, LAMBDA a : a \in DOMAIN decoded)
    IN  IF present = <<>> THEN NoPlane
        ELSE FoldLeft(LAMBDA acc, a : mergeAdcDecodedData(acc, decoded[a]),
                      decoded[present[1]], Tail(present))

(* The number of time bins is that of the first APV that has data. *)
PlaneOf(decoded, apvs) ==
    LET present == {k \in DOMAIN apvs : apvs[k] \in DOMAIN decoded}
        bins == Len(decoded[apvs[Min(present)]].data)
        part == [k \in DOMAIN apvs |-> GetApvDataOrZeros(decoded, apvs[k], bins)]
    IN  IF present = {} THEN NoPlane
        ELSE FoldLeft(mergeAdcDecodedData, part[1], Tail(part))

PlaneDecodedData(decoded) ==
    IF decoded = None THEN None
    ELSE [plane \in PlanesWithApvs |-> PlaneOf(decoded, mapping.apvsOf[plane])]

(***************************************************************************)
(* PeakFactory and ClusterFactory                                          *)
(***************************************************************************)

(* The factory tells apart the first two APVs of a plane. *)
NamedApv(data, index) == IF index >= ChannelsCount /\ Len(data.ids) > 1
                         THEN data.ids[2] ELSE data.ids[1]

PlanePeaks(data) ==
    LET found == find_common_peaks(data.data, data.noise)
    IN  [k \in DOMAIN found |->
            [index |-> found[k].index, height |-> found[k].height, width |-> found[k].width,
             area |-> found[k].area, time |-> found[k].time,
             apv |-> NamedApv(data, found[k].index)]]

Peaks(planes) == IF planes = None THEN None
                 ELSE [plane \in DOMAIN planes |-> PlanePeaks(planes[plane])]

(* at() throws when a configured plane is not mapped. *)
Clusters(planes) ==
    IF planes = None \/ ~({PlaneX, PlaneY} \subseteq DOMAIN planes) THEN <<>>
    ELSE LET common(p) == find_common_peaks(planes[p].data, planes[p].noise)
             pairs == match_peaks(common(PlaneX), common(PlaneY))
         IN  [k \in DOMAIN pairs |-> [index_x |-> pairs[k][1].index, index_y |-> pairs[k][2].index,
                 amplitude |-> pairs[k][2].height, energy |-> pairs[k][2].width]]

(***************************************************************************)
(* SampleAnalysisFactory                                                   *)
(***************************************************************************)

(* time_bin * 1000000000 in 32 bits, as <<millions, rest>>: 2^32 is        *)
(* 4295 * 10^6 - 32704.                                                    *)
TimeWord(t) == LET q == (t * 1953125) \div 8388608 IN <<1000 * t - 4295 * q, 32704 * q>>

(* The orientation is asked of the chip in the result, which is set only   *)
(* afterwards: it is that of APV 0.                                        *)
SampleChannel(ch) ==
    IF At(mapping.orientation, 0, 0) # 0 THEN ChannelsCount - 1 - Correction[ch]
    ELSE Correction[ch]

(* The id as <<detector, plane, millions, rest>>, so that ids compare as   *)
(* tuples.                                                                 *)
SampleId(apv, ch, t) ==
    LET rest == SampleChannel(ch) + apv * 1000 + TimeWord(t)[2]
    IN  <<DetectorIdOfApv(mapping, apv), GetPlaneID(mapping, GetPlaneFromAPVID(mapping, apv)),
          At(mapping.index, apv, 0) + TimeWord(t)[1] + rest \div 1000000, rest % 1000000>>

(* RollingStatistics of capacity StatLen: the values it holds. *)
RollingAdd(values, x) ==
    IF StatLen = 0 THEN values
    ELSE Append(IF Len(values) = StatLen THEN Tail(values) ELSE values, x)
getAverage(values) ==
    IF values = <<>> THEN 0
    ELSE FoldLeft(LAMBDA a, x : a + x, 0, values) \div Len(values)

(* The samples of mapped APVs in the order the factory meets them. *)
SampleSeq(items) ==
    FlattenSeq([k \in DOMAIN items |->
        IF items[k].apv \notin Mapped THEN <<>>
        ELSE [t \in DOMAIN items[k].samples |->
                [apv |-> items[k].apv, raw_channel |-> items[k].ch, time_bin |-> t - 1,
                 raw_value |-> items[k].samples[t]]]])

IdOf(s) == SampleId(s.apv, s.raw_channel, s.time_bin)

(* [out, stats]: m_sorted_results, by id, and the rolling statistics, which*)
(* live on in the slot's factory.  Of samples with one id the last is kept.*)
AnalyseSamples(items, stats0) ==
    LET all == SampleSeq(items)
        ids == [k \in DOMAIN all |-> IdOf(all[k])]
        With(id) == {k \in DOMAIN all : ids[k] = id}
        values(id) == FoldLeft(LAMBDA vs, k : RollingAdd(vs, all[k].raw_value),
                               At(stats0, id, <<>>), SetToSortSeq(With(id), <))
        stats == [id \in Range(ids) |-> values(id)]
        sample(k) == [apv |-> all[k].apv, raw_channel |-> all[k].raw_channel,
                      time_bin |-> all[k].time_bin, raw_value |-> all[k].raw_value,
                      value |-> getAverage(stats[ids[k]]) - all[k].raw_value]
    IN  [out |-> [id \in Range(ids) |-> sample(Max(With(id)))], stats |-> stats @@ stats0]
=============================================================================
