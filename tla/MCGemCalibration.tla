-------------------------- MODULE MCGemCalibration --------------------------
(* A small instance of GemCalibration.                                     *)
EXTENDS GemCalibration

CONSTANTS w1, w2

MCWorkers == {w1, w2}
MCApvs == {0, 1}

(* APV 0 always has samples; APV 1 may be missing or truncated.            *)
MCFaultyEvents == {c \in [Apvs -> {"absent", "empty", "data"}] : c[0] = "data"}
=============================================================================
