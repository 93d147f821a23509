--------------------------- MODULE TcpEventSender ---------------------------
(***************************************************************************)
(* A cDAQ client: tcp_sender's loop over its messages, each handed to      *)
(* tcp_event_snd, whose static TCP_FLAG carries the state of the           *)
(* connection from one call to the next: 0 to connect, 1 connected, -2     *)
(* send error, -1 waiting for the retry.  A call that fails loses its      *)
(* message: tcp_sender prints an error and goes on with the next one.      *)
(***************************************************************************)
EXTENDS CdaqLink

VARIABLES
    TCP_FLAG,  (* static of tcp_event_snd                                  *)
    sd,        (* its socket: "none", the "first" connection or a "later"  *)
    next,      (* the message tcp_sender is at                             *)
    todo,      (* its units that are not sent yet                          *)
    sender     (* "up" or "gone"                                           *)

senderVars == <<TCP_FLAG, sd, next, todo, sender>>

(* tcp_sender for nmod modules and n triggers.                             *)
TcpSenderScript(nmod, n) ==
    [i \in 1..nmod |-> "eore"] \o [i \in 1..nmod |-> "bore"]
    \o [i \in 1..(n * nmod) |-> "data"] \o [i \in 1..nmod |-> "eore"]

SenderInit ==
    /\ TCP_FLAG = 0
    /\ sd = "none"
    /\ next = 1
    /\ todo = <<>>
    /\ sender = "up"

Calling == sender = "up" /\ todo = <<>> /\ next \in Messages

(* The call returns -1: this message is lost.                              *)
LoseMessage ==
    /\ next' = next + 1
    /\ todo' = <<>>

(* TCP_FLAG = 0 and connect() succeeds.  Only the first connection is ever *)
(* accepted; a later one stays in the backlog.                             *)
Connect ==
    /\ Calling
    /\ TCP_FLAG = 0
    /\ listening
    /\ TCP_FLAG' = 1
    /\ sd' = IF link = "none" THEN "first" ELSE "later"
    /\ link' = IF link = "none" THEN "open" ELSE link
    /\ todo' = UnitsOf(next)
    /\ UNCHANGED <<next, sender, listening, wire, cuts>>

(* TCP_FLAG = 0 and connect() is refused: TCP_FLAG is set to 1 all the     *)
(* same, the send on sd = -1 fails and sets it to -2.                      *)
ConnectRefused ==
    /\ Calling
    /\ TCP_FLAG = 0
    /\ ~listening
    /\ TCP_FLAG' = -2
    /\ sd' = "none"
    /\ LoseMessage
    /\ UNCHANGED <<sender, linkVars>>

StartMessage ==
    /\ Calling
    /\ TCP_FLAG = 1
    /\ todo' = UnitsOf(next)
    /\ UNCHANGED <<TCP_FLAG, sd, next, sender, linkVars>>

(* TCP_FLAG = -2: close the socket and start the timer of the retry.       *)
CloseAfterError ==
    /\ Calling
    /\ TCP_FLAG = -2
    /\ TCP_FLAG' = -1
    /\ sd' = "none"
    /\ link' = IF sd = "first" THEN "closed" ELSE link
    /\ LoseMessage
    /\ UNCHANGED <<sender, listening, wire, cuts>>

(* TCP_FLAG = -1: connect at the call after the first one past T_WAIT.     *)
WaitForRetry ==
    /\ Calling
    /\ TCP_FLAG = -1
    /\ TCP_FLAG' \in {-1, 0}
    /\ LoseMessage
    /\ UNCHANGED <<sd, sender, linkVars>>

(* send() of the next unit; after the peer is gone the kernel may still    *)
(* take it, and nobody reads what a later connection carries.              *)
SendUnit ==
    /\ sender = "up"
    /\ todo # <<>>
    /\ todo' = Tail(todo)
    /\ next' = IF Len(todo) = 1 THEN next + 1 ELSE next
    /\ wire' = IF sd = "first" /\ link = "open" THEN Append(wire, Head(todo)) ELSE wire
    /\ UNCHANGED <<TCP_FLAG, sd, sender, listening, link, cuts>>

(* send() fails: the rest of the message is not sent.  (A later connection *)
(* fails at the source's end, or on the way there.)                        *)
SendFails ==
    /\ sender = "up"
    /\ todo # <<>>
    /\ link = "closed"
    /\ TCP_FLAG' = -2
    /\ LoseMessage
    /\ UNCHANGED <<sd, sender, linkVars>>

(* A send() on a connection that is known to be broken raises SIGPIPE,     *)
(* which neither tcp_event_snd nor tcp_sender handles.                     *)
SendKills ==
    /\ sender = "up"
    /\ todo # <<>>
    /\ link = "closed"
    /\ sender' = "gone"
    /\ UNCHANGED <<TCP_FLAG, sd, next, todo, linkVars>>

(* The sender is done, and its sockets are closed.                         *)
SenderExits ==
    /\ sender = "up"
    /\ next \notin Messages
    /\ sender' = "gone"
    /\ link' = IF sd = "first" THEN "closed" ELSE link
    /\ UNCHANGED <<TCP_FLAG, sd, next, todo, listening, wire, cuts>>

(* The sender dies, possibly in the middle of a message.                   *)
SenderDies ==
    /\ sender = "up"
    /\ next \in Messages
    /\ cuts < MaxCuts
    /\ cuts' = cuts + 1
    /\ sender' = "gone"
    /\ link' = IF sd = "first" THEN "closed" ELSE link
    /\ UNCHANGED <<TCP_FLAG, sd, next, todo, listening, wire>>

TcpEventSnd ==
    \/ Connect \/ ConnectRefused \/ StartMessage \/ CloseAfterError
    \/ WaitForRetry \/ SendUnit \/ SendFails \/ SendKills

SenderTypeOK ==
    /\ TCP_FLAG \in {-2, -1, 0, 1}
    /\ sd \in {"none", "first", "later"}
    /\ next \in 1..(Len(Script) + 1)
    /\ todo \in Seq(Units)
    /\ sender \in {"up", "gone"}
=============================================================================
