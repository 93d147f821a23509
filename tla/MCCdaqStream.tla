---------------------------- MODULE MCCdaqStream ----------------------------
(* Scripts of the cDAQ client for TLC.                                     *)
EXTENDS CdaqStream, SequencesExt

(* The messages of tcp_sender for one module and two triggers, with one of *)
(* every other kind among them; the client goes on after the end of the    *)
(* run, and a source that missed its beginning reads on.                   *)
MCEveryKind ==
    <<"probe">> \o InsertAt(InsertAt(TcpSenderScript(1, 2), 3, "bad"), 5, "other")
    \o <<"huge">>

(* What the theorem about RunIsComplete supposes of the client.            *)
ASSUME MCScriptIsOneRun == OneRun
=============================================================================
