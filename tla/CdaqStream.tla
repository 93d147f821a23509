----------------------------- MODULE CdaqStream -----------------------------
(***************************************************************************)
(* A cDAQ client and the CDaqEventSource at the two ends of one TCP link:  *)
(* they start in either order, the network or the client may die at any    *)
(* unit, and the client reconnects to a source that accepts only once.     *)
(***************************************************************************)
EXTENDS TcpEventSender, CDaqEventSource

vars == <<linkVars, senderVars, sourceVars>>

Init == LinkInit /\ SenderInit /\ SourceInit

ClientStep == (TcpEventSnd \/ SenderExits \/ SenderDies) /\ UNCHANGED sourceVars
SourceStep == (Listen \/ Accept \/ GetEvent \/ SourceExits) /\ UNCHANGED senderVars

(* The client is gone; the source ended, or never had a client.            *)
Done ==
    /\ sender = "gone"
    /\ (status # "running" /\ ~listening) \/ (listening /\ link = "none")
    /\ UNCHANGED vars

Next ==
    \/ ClientStep
    \/ SourceStep
    \/ NetworkCut /\ UNCHANGED <<senderVars, sourceVars>>
    \/ Done

(* JANA calls GetEvent until the run ends, and the listener is a thread of *)
(* its own.  The client may stop where it likes.                           *)
Fairness ==
    /\ WF_vars(GetEvent /\ UNCHANGED senderVars)
    /\ WF_vars((Listen \/ Accept) /\ UNCHANGED senderVars)

Spec == Init /\ [][Next]_vars /\ Fairness

-----------------------------------------------------------------------------
(* The values the variables of the link and of its two ends take.          *)
TypeOK == LinkTypeOK /\ SenderTypeOK /\ SourceTypeOK

(* GetEvent keeps its place in the stream: what it reads as a header is    *)
(* the header of a message, and the words and the payload it reads are     *)
(* those of the message whose header it read, wherever a read or the link  *)
(* failed before.                                                          *)
FramesInStep ==
    status = "running" /\ wire # <<>> =>
        IF reading = "header"
        THEN Head(wire).part = "header"
        ELSE Head(wire) = [msg |-> hdr, part |-> reading]

(* JANA gets events once and in the order in which they were sent, and     *)
(* only the last of all may hold less than was sent.                       *)
DeliveredInOrder ==
    \A i, j \in DOMAIN delivered : i < j =>
        delivered[i].msg < delivered[j].msg /\ delivered[i].whole

(* GetEvent and the client keep step, and what JANA gets shows it.         *)
StreamInStep == FramesInStep /\ DeliveredInOrder

(* The client has the messages of one run, as tcp_sender with one module   *)
(* has them: an end of run, the events, and an end of run.                 *)
OneRun ==
    \E first, last \in Messages :
        /\ {m \in Messages : Script[m] = "eore"} = {first, last}
        /\ \A m \in Messages : Script[m] = "data" => first < m /\ m < last

(* A run that ends with kNO_MORE_EVENTS delivered every data message the   *)
(* client had, whole, although end of run is only counted: an end of run   *)
(* lost by a client that came too early ends the run in an error instead.  *)
RunIsComplete ==
    status = "kNO_MORE_EVENTS" =>
        \A m \in Messages : Script[m] = "data" =>
            \E i \in DOMAIN delivered : delivered[i] = [msg |-> m, whole |-> TRUE]

(* Once the connection is lost the source ends: whatever GetEvent is       *)
(* reading, kTRY_AGAIN leads to a header read that fails.                  *)
ClosedLinkEndsSource == link = "closed" ~> status # "running"

=============================================================================
