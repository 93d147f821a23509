-------------------------- MODULE CDaqEventSource --------------------------
(***************************************************************************)
(* The JANA source that receives events from a cDAQ client: the detached   *)
(* thread that waits for the one client, and GetEvent, which JANA calls    *)
(* again and again (never twice at a time) until it says that there are no *)
(* more events or fails.  GetEvent blocks in TcpReadData three times, so   *)
(* it is three steps: the header, the cDAQ words, the payload.  While no   *)
(* client is there it returns kTRY_AGAIN and changes nothing.              *)
(*                                                                         *)
(* The event number GetEvent counts is not modelled: for an event that is  *)
(* delivered the parser replaces it by the one of the data.                *)
(***************************************************************************)
EXTENDS CdaqLink

VARIABLES
    listener,            (* WaitForClient: "start", "accept" or "done"     *)
    m_receive_fd,        (* -1, or 1 for the accepted connection           *)
    reading,             (* what GetEvent reads next                       *)
    hdr,                 (* the message whose header was read last, or 0   *)
    m_end_of_runs_count,
    status,              (* "running", or how the run ended                *)
    delivered            (* events given to JANA                           *)

sourceVars ==
    <<listener, m_receive_fd, reading, hdr, m_end_of_runs_count, status, delivered>>

Deliver(m, isWhole) == delivered' = Append(delivered, [msg |-> m, whole |-> isWhole])

(* State after Open: bound, not yet listening.                             *)
SourceInit ==
    /\ listener = "start"
    /\ m_receive_fd = -1
    /\ reading = "header"
    /\ hdr = 0
    /\ m_end_of_runs_count = 0
    /\ status = "running"
    /\ delivered = <<>>

-----------------------------------------------------------------------------
(* WaitForClient.                                                          *)
Listen ==
    /\ status = "running"
    /\ listener = "start"
    /\ listener' = "accept"
    /\ listening' = TRUE
    /\ UNCHANGED <<m_receive_fd, reading, hdr, m_end_of_runs_count, status,
                   delivered, link, wire, cuts>>

(* accept() takes the first connection made, even one that is closed again.*)
Accept ==
    /\ status = "running"
    /\ listener = "accept"
    /\ link # "none"
    /\ listener' = "done"
    /\ m_receive_fd' = 1
    /\ UNCHANGED <<reading, hdr, m_end_of_runs_count, status, delivered, linkVars>>

-----------------------------------------------------------------------------
(* GetEvent.                                                               *)
InGetEvent(part) == status = "running" /\ m_receive_fd # -1 /\ reading = part

(* recv() finds the connection closed before n units came.                 *)
ReadFails(n) == link = "closed" /\ Len(wire) < n

(* Mutant: an error is worth another try.                                  *)
HeaderReadTriesAgain ==
    /\ InGetEvent("header")
    /\ ReadFails(1)
    /\ UNCHANGED <<linkVars, sourceVars>>

HeaderReadFails ==
    /\ InGetEvent("header")
    /\ ReadFails(1)
    /\ status' = "kERROR"
    /\ UNCHANGED <<listener, m_receive_fd, reading, hdr, m_end_of_runs_count,
                   delivered, linkVars>>

(* A header and nothing else: a connection test is answered and tried      *)
(* again; any other request than 5 makes an event without data.            *)
ReadHeaderOnly ==
    /\ InGetEvent("header")
    /\ wire # <<>>
    /\ ~HasWords(Head(wire).msg)
    /\ hdr' = Head(wire).msg
    /\ wire' = Tail(wire)
    /\ IF Script[Head(wire).msg] = "other"
       THEN Deliver(Head(wire).msg, TRUE)
       ELSE UNCHANGED delivered
    /\ UNCHANGED <<listener, m_receive_fd, reading, m_end_of_runs_count, status,
                   listening, link, cuts>>

(* Mutant: end of run is told from the header, the words stay unread.      *)
ReadHeaderEndsRun ==
    /\ InGetEvent("header")
    /\ wire # <<>>
    /\ HasWords(Head(wire).msg)
    /\ Script[Head(wire).msg] # "huge"
    /\ hdr' = Head(wire).msg
    /\ wire' = Tail(wire)
    /\ reading' = IF Script[Head(wire).msg] = "eore" THEN "header" ELSE "words"
    /\ UNCHANGED <<listener, m_receive_fd, m_end_of_runs_count, status, delivered,
                   listening, link, cuts>>

ReadHeader ==
    /\ InGetEvent("header")
    /\ wire # <<>>
    /\ HasWords(Head(wire).msg)
    /\ Script[Head(wire).msg] # "huge"
    /\ hdr' = Head(wire).msg
    /\ wire' = Tail(wire)
    /\ reading' = "words"
    /\ UNCHANGED <<listener, m_receive_fd, m_end_of_runs_count, status, delivered,
                   listening, link, cuts>>

(* header_event_len > MAXDATA: the connection is closed.                   *)
ReadHeaderTooLong ==
    /\ InGetEvent("header")
    /\ wire # <<>>
    /\ Script[Head(wire).msg] = "huge"
    /\ hdr' = Head(wire).msg
    /\ wire' = <<>>
    /\ link' = "closed"
    /\ status' = "kERROR"
    /\ UNCHANGED <<listener, m_receive_fd, reading, m_end_of_runs_count, delivered,
                   listening, cuts>>

(* The JException of ThrowOnErrno is caught: kTRY_AGAIN.                   *)
WordsReadFails ==
    /\ InGetEvent("words")
    /\ ReadFails(1)
    /\ reading' = "header"
    /\ UNCHANGED <<listener, m_receive_fd, hdr, m_end_of_runs_count, status,
                   delivered, linkVars>>

(* Mutant: the run ends at the first end of run.                           *)
EndsRunAtOnce ==
    /\ InGetEvent("words")
    /\ wire # <<>>
    /\ Script[hdr] = "eore"
    /\ wire' = Tail(wire)
    /\ reading' = "header"
    /\ status' = "kNO_MORE_EVENTS"
    /\ UNCHANGED <<listener, m_receive_fd, hdr, m_end_of_runs_count, delivered,
                   listening, link, cuts>>

(* An end of run ends the source, unless it is the first one, which only   *)
(* books memory.                                                           *)
ReadEndOfRun ==
    /\ InGetEvent("words")
    /\ wire # <<>>
    /\ Script[hdr] = "eore"
    /\ wire' = Tail(wire)
    /\ reading' = "header"
    /\ IF m_end_of_runs_count = 0
       THEN m_end_of_runs_count' = 1 /\ UNCHANGED status
       ELSE status' = "kNO_MORE_EVENTS" /\ UNCHANGED m_end_of_runs_count
    /\ UNCHANGED <<listener, m_receive_fd, hdr, delivered, listening, link, cuts>>

(* A message without payload is tried again.                               *)
ReadWords ==
    /\ InGetEvent("words")
    /\ wire # <<>>
    /\ Script[hdr] # "eore"
    /\ wire' = Tail(wire)
    /\ reading' = IF HasPayload(hdr) THEN "payload" ELSE "header"
    /\ UNCHANGED <<listener, m_receive_fd, hdr, m_end_of_runs_count, status,
                   delivered, listening, link, cuts>>

(* Mutant: one recv() for the whole payload, whatever it returns.          *)
ReadPayloadOnce ==
    /\ InGetEvent("payload")
    /\ wire # <<>>
    /\ LET n == IF Len(wire) < PayloadUnits THEN Len(wire) ELSE PayloadUnits
       IN  wire' = SubSeq(wire, n + 1, Len(wire)) /\ Deliver(hdr, n = PayloadUnits)
    /\ reading' = "header"
    /\ UNCHANGED <<listener, m_receive_fd, hdr, m_end_of_runs_count, status,
                   listening, link, cuts>>

(* The payload is swapped and parsed; when the parser throws the event is  *)
(* dropped and GetEvent is tried again.                                    *)
ReadPayload ==
    /\ InGetEvent("payload")
    /\ Len(wire) >= PayloadUnits
    /\ wire' = SubSeq(wire, PayloadUnits + 1, Len(wire))
    /\ reading' = "header"
    /\ IF Script[hdr] = "data" THEN Deliver(hdr, TRUE) ELSE UNCHANGED delivered
    /\ UNCHANGED <<listener, m_receive_fd, hdr, m_end_of_runs_count, status,
                   listening, link, cuts>>

(* The return code of this read is ignored: the buffer, uninitialised past *)
(* what came, is parsed, and the parser may accept it or throw.            *)
PayloadReadFails ==
    /\ InGetEvent("payload")
    /\ ReadFails(PayloadUnits)
    /\ wire' = <<>>
    /\ reading' = "header"
    /\ Deliver(hdr, FALSE) \/ UNCHANGED delivered
    /\ UNCHANGED <<listener, m_receive_fd, hdr, m_end_of_runs_count, status,
                   listening, link, cuts>>

GetEvent ==
    \/ HeaderReadFails \/ ReadHeaderOnly \/ ReadHeader \/ ReadHeaderTooLong
    \/ WordsReadFails \/ ReadEndOfRun \/ ReadWords
    \/ ReadPayload \/ PayloadReadFails

(* The run ended and the process exits: the kernel closes its sockets.     *)
SourceExits ==
    /\ status # "running"
    /\ listening \/ link = "open"
    /\ listening' = FALSE
    /\ link' = IF link = "open" THEN "closed" ELSE link
    /\ wire' = <<>>
    /\ UNCHANGED <<cuts, sourceVars>>

SourceTypeOK ==
    /\ listener \in {"start", "accept", "done"}
    /\ m_receive_fd \in {-1, 1}
    /\ reading \in {"header", "words", "payload"}
    /\ hdr \in Messages \cup {0}
    /\ m_end_of_runs_count \in {0, 1}
    /\ status \in {"running", "kERROR", "kNO_MORE_EVENTS"}
    /\ delivered \in Seq([msg : Messages, whole : BOOLEAN])
=============================================================================
