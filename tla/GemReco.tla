------------------------------ MODULE GemReco ------------------------------
(***************************************************************************)
(* libraries/gemreco: the stages of the reconstruction as functions of an  *)
(* event, a configuration and a calibration.  They are a port of the       *)
(* factories of GemRecon, whose parameters they share, without the shared  *)
(* state: each stage here is translated from its own source.               *)
(***************************************************************************)
EXTENDS GemRecon

-----------------------------------------------------------------------------
(* Configuration.  A mapping file is refused when it has a board other     *)
(* than CARTESIAN, or an APV of a plane no DET line before it names.       *)
Rejected == [rejected |-> TRUE]
NoConfig == [apvs |-> Empty, planes |-> Empty, axis |-> Empty]

PlaneInfo(size) == [size |-> size, apv_ids |-> <<>>]

DetRow(cfg, l) ==
    IF l.board # "CARTESIAN" THEN Rejected
    ELSE [cfg EXCEPT !.planes = (l.plane2 :> PlaneInfo(l.size2) @@ l.plane :> PlaneInfo(l.size)) @@ @,
                     !.axis   = (l.plane2 :> 1 @@ l.plane :> 0) @@ @]

(* The plane and detector numbers of the samples are kept apart, as the    *)
(* factory computes them.                                                  *)
ApvRow(cfg, l) ==
    LET id == ApvId(l.fec, l.adc) IN
    IF l.plane \notin DOMAIN cfg.axis THEN Rejected
    ELSE [cfg EXCEPT
            !.apvs = Put(@, id, [plane_name |-> l.plane, plane_id |-> cfg.axis[l.plane],
                                 orientation |-> l.orient, index_on_plane |-> l.index,
                                 sample_plane_id |-> cfg.axis[l.plane], sample_detector_id |-> 0]),
            !.planes[l.plane].apv_ids = Append(@, id)]

Row(cfg, l) == IF cfg = Rejected THEN Rejected
               ELSE CASE l.kind = "DET" -> DetRow(cfg, l)
                      [] l.kind = "APV" -> ApvRow(cfg, l)
                      [] OTHER -> cfg

(* Planes without an APV are dropped; a file without any is refused.       *)
load_config_mapping_cfg(lines) ==
    LET cfg == FoldLeft(Row, NoConfig, lines)
        used == {p \in DOMAIN cfg.planes : cfg.planes[p].apv_ids # <<>>}
    IN  IF cfg = Rejected \/ cfg.apvs = Empty THEN Rejected
        ELSE [cfg EXCEPT !.planes = [p \in used |-> cfg.planes[p]]]

-----------------------------------------------------------------------------
(* Stage 1.  Samples of an APV, bin after bin, ChannelsCount to a bin.     *)
group_by_apv(event, cfg) ==
    LET ChannelsOf(apv) ==
            FoldLeft(LAMBDA m, hit : IF hit.apv # apv THEN m
                                     ELSE Put(m, Correction[hit.ch], hit.samples),
                     Empty, event)
        Block(channels) ==
            LET bins == Max({Len(channels[c]) : c \in DOMAIN channels})
            IN  [i \in 1 .. bins * ChannelsCount |->
                    LET c == (i - 1) % ChannelsCount
                        s == At(channels, c, <<>>)
                        t == ((i - 1) \div ChannelsCount) + 1
                    IN  IF t \in DOMAIN s THEN s[t] ELSE 0]
    IN  [apv \in {event[k].apv : k \in DOMAIN event} \cap DOMAIN cfg.apvs |->
            Block(ChannelsOf(apv))]

-----------------------------------------------------------------------------
(* Stage 3.  The calibration of an APV is [offsets, noises].               *)
decode_apv_adc(block, ped) ==
    LET bins == Len(block) \div ChannelsCount
        raw(t, c) == block[(t - 1) * ChannelsCount + c]
        values(t) == [c \in 1 .. ChannelsCount |-> raw(t, c) - ped.offsets[c]]
        (* value_to_index: the last channel of a value wins. *)
        index(t, v) == Max({c \in 1 .. ChannelsCount : values(t)[c] = v})
        (* Where the value of a channel is in the sorted data_test. *)
        place(t, c) == Cardinality({d \in 1 .. ChannelsCount :
                           \/ values(t)[d] < values(t)[c]
                           \/ values(t)[d] = values(t)[c] /\ d <= c})
        data_test(t) == [c \in 1 .. ChannelsCount |->
            IF place(t, c) <= ComModeCut THEN Baseline - ped.offsets[index(t, values(t)[c])]
            ELSE values(t)[c]]
        common_mode(t) == FoldLeft(LAMBDA a, x : a + x, 0, data_test(t)) \div ChannelsCount
        offsets == [t \in 1 .. bins |-> common_mode(t)]
    IN  IF Len(ped.offsets) # ChannelsCount \/ Len(ped.noises) # ChannelsCount THEN <<>>
        ELSE [t \in 1 .. bins |-> [c \in 1 .. ChannelsCount |->
                -(raw(t, c) - ped.offsets[c] - offsets[t])]]

-----------------------------------------------------------------------------
(* Stage 4.                                                                *)
ZeroRow == [c \in 1 .. ChannelsCount |-> 0]

(* Mutant: an APV without data adds no columns. *)
ColumnsOrNone(decoded, apv, t) == IF apv \in DOMAIN decoded THEN decoded[apv][t] ELSE <<>>

(* The columns of an APV in one time bin: zeros, if it has no data or not  *)
(* as many bins as the plane.                                              *)
Columns(decoded, apv, t) == IF apv \in DOMAIN decoded THEN decoded[apv][t] ELSE ZeroRow

merge_planes(decoded, pedestals, cfg) ==
    LET Plane_(ids) ==
            LET present == {k \in DOMAIN ids : ids[k] \in DOMAIN decoded}
                bins == IF present = {} THEN 0 ELSE Len(decoded[ids[Min(present)]])
                ok == [a \in {b \in DOMAIN decoded : Len(decoded[b]) = bins} |-> decoded[a]]
                noises(a) == IF a \in DOMAIN ok \cap DOMAIN pedestals
                             THEN pedestals[a].noises ELSE ZeroRow
            IN  [data   |-> [t \in 1 .. bins |->
                                FlattenSeq([k \in DOMAIN ids |-> Columns(ok, ids[k], t)])],
                 noises |-> IF bins = 0 THEN <<>>
                            ELSE FlattenSeq([k \in DOMAIN ids |-> noises(ids[k])])]
    IN  [p \in DOMAIN cfg.planes |-> Plane_(cfg.planes[p].apv_ids)]

-----------------------------------------------------------------------------
(* Stages 5 to 7.                                                          *)
PeaksOf(plane) == find_common_peaks(plane.data, plane.noises)

find_plane_peaks(planes, cfg) ==
    [p \in DOMAIN planes \cap DOMAIN cfg.planes |->
        LET ids == cfg.planes[p].apv_ids
            peaks == PeaksOf(planes[p])
        IN  [k \in DOMAIN peaks |->
                [index |-> peaks[k].index, height |-> peaks[k].height, width |-> peaks[k].width,
                 area |-> peaks[k].area, time |-> peaks[k].time,
                 apv |-> IF peaks[k].index >= ChannelsCount /\ Len(ids) > 1 THEN ids[2]
                         ELSE ids[1]]]]

match_clusters(planes, cfg) ==
    IF ~({PlaneX, PlaneY} \subseteq DOMAIN planes \cap DOMAIN cfg.planes) THEN <<>>
    ELSE LET matched == match_peaks(PeaksOf(planes[PlaneX]), PeaksOf(planes[PlaneY]))
         IN  [k \in DOMAIN matched |->
                [index_x |-> matched[k][1].index, index_y |-> matched[k][2].index,
                 amplitude |-> matched[k][2].height, energy |-> matched[k][2].width]]

(* reconstruct() up to the planes, from which stages 5 to 7 make the rest  *)
(* of its result.  APVs without a calibration, and malformed ones, are     *)
(* passed over.                                                            *)
reconstruct(event, cfg, pedestals) ==
    LET grouped == group_by_apv(event, cfg)
        all     == [apv \in DOMAIN grouped \cap DOMAIN pedestals |->
                        decode_apv_adc(grouped[apv], pedestals[apv])]
    IN  merge_planes([apv \in {a \in DOMAIN all : all[a] # <<>>} |-> all[apv]],
                     pedestals, cfg)
=============================================================================
