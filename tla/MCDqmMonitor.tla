--------------------------- MODULE MCDqmMonitor ---------------------------
(* Runs of the monitor for TLC: chips of four channels, three of them on   *)
(* one detector, in the order of the files in db/, one on a second         *)
(* detector whose X plane has the number of the first one's, one unmapped. *)
EXTENDS DqmMonitor

CONSTANTS s1, s2

Det(det, x, y) == [kind |-> "DET", board |-> "CARTESIAN", type |-> "STANDARD", det |-> det,
                   plane  |-> x, size  |-> 100, apvs  |-> 2, orient  |-> 1,
                   plane2 |-> y, size2 |-> 100, apvs2 |-> 1, orient2 |-> 1]
Apv(adc, plane, index) == [kind |-> "APV", fec |-> 0, adc |-> adc, plane |-> plane,
                           orient |-> 0, index |-> index]

MCMappingFile ==
    <<Det("GEM1", "X1", "Y1"), Det("GEM2", "X2", "Y2"),
      [kind |-> "FEC", fec |-> 0, ip |-> "10.0.7.2"],
      Apv(2, "X1", 0), Apv(1, "X1", 1), Apv(3, "Y1", 0), Apv(4, "X2", 0), Apv(5, "NULL", 0)>>

MCCorrection == 0 :> 0 @@ 1 :> 2 @@ 2 :> 1 @@ 3 :> 3

(* The samples of the channel that is strip c of a chip, in two time bins. *)
Quiet == <<30, 30>>
Shape(shape, c) ==
    CASE shape = "quiet" -> Quiet
      [] shape = "low"   -> IF c \in {0, 1} THEN <<10, 12>> ELSE Quiet
      [] shape = "high"  -> IF c \in {1, 2} THEN <<20, 9>> ELSE Quiet
      [] shape = "short" -> <<30>>

RECURSIVE Items(_)
Items(chips) ==
    IF chips = <<>> THEN <<>>
    ELSE [k \in 1 .. 4 |-> [apv |-> chips[1][1], ch |-> k - 1,
                            samples |-> Shape(chips[1][2], MCCorrection[k - 1])]]
         \o Items(Tail(chips))

Record(slot, ch, samples) == [slot |-> slot, ch |-> ch, samples |-> samples]
(* Three clusters, and a place for which the table has no room. *)
Track == <<Record(4, 2, <<0, 90, 80, 0>>), Record(4, 3, <<0, 60, 0, 0>>),
           Record(5, 2, <<0, 0, 70, 90>>), Record(3, 0, <<0, 90, 90, 0>>),
           Record(6, 0, <<0, 0, 70, 0>>), Record(7, 0, <<0, 0, 70, 0>>)>>
(* Two clusters, and a place that is near both. *)
Spread == <<Record(4, 3, <<0, 0, 60, 0>>), Record(5, 1, <<0, 0, 60, 0>>),
            Record(5, 0, <<0, 80, 0, 0>>)>>

Event(items, records) == [srs |-> items # <<>>, items |-> items,
                          f125 |-> records # <<>>, records |-> records]

Full     == Event(Items(<<<<1, "low">>, <<2, "low">>, <<3, "low">>, <<4, "quiet">>>>), Track)
NoFirst  == Event(Items(<<<<1, "low">>, <<3, "high">>, <<9, "low">>, <<4, "low">>>>), Spread)
Cut      == Event(Items(<<<<1, "short">>, <<2, "low">>, <<3, "quiet">>>>), Track)
NoSecond == Event(Items(<<<<3, "quiet">>, <<2, "high">>>>), Spread)
Nothing  == Event(<<>>, <<>>)

MCEvents == {Full, NoFirst, Cut, NoSecond, Nothing}

MCReplies == [nodes : {<<>>, <<1>>, <<1, 2>>, <<2, 0>>}, fits : {<<>>, <<1, 5, 6>>, <<1, 5>>}]
MCConfigured == [min_event |-> 2, max_event |-> 0]

(* The ids of samples have room for these chips, channels and times.       *)
ASSUME MCIdsFit == IdsFit
(* The planes are read by two chips and by one.                            *)
ASSUME MCInPairs == InPairs
(* gemreco reads the same chips and planes from this mapping.              *)
ASSUME MCSameTables == SameTables
============================================================================
