----------------------------- MODULE MCFlatTree -----------------------------
(* Runs of the writer for TLC.                                             *)
EXTENDS FlatTreeWriter

CONSTANTS w1, w2, w3

Default == {"f125_raw", "f250_raw", "f125_pulse", "f250_pulse",
            "gem_clusters", "gem_peaks", "gem_samples"}
All     == RawGroups \cup GemGroups \cup {"fpga"}

Of(banks, windows, throws) == [banks |-> banks, windows |-> windows, throws |-> throws]
Full    == Of({"srs_raw", "f125_raw"}, <<1, 2>>, "none")
Long    == Of({"srs_raw", "f125_raw"}, <<2, 1, 1>>, "none")
NoSrs   == Of({"f125_raw", "f250_pulse"}, <<1>>, "fpga_hits_to_track")
Failing(g) == Of({"srs_raw", "f125_pulse"}, <<>>, g)

MCInputs ==
    [threads : {{w1, w2, w3}}, mt_output : {FALSE}, config : {Default},
     events : {<<Full, Full, Full, Full, Full>>,
               <<Full, Failing("gem_peaks"), Full, NoSrs, Full>>,
               <<Failing("gem_samples"), Failing("gem_prerecon"), Full, Full>>}]
    \cup
    [threads : {{w1}}, mt_output : BOOLEAN, config : {All, {"gem_samples", "f125_pulse"}},
     events : {<<Long, Failing("gem_prerecon"), NoSrs, Full>>,
               <<Full, NoSrs, Failing("gem_clusters"), Long>>}]
=============================================================================
