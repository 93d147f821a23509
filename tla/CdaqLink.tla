------------------------------ MODULE CdaqLink ------------------------------
(***************************************************************************)
(* The TCP connection between a cDAQ sender (tcp_event_snd) and the        *)
(* CDaqEventSource, as both ends see it.  A message is a position of       *)
(* Script.  Its bytes are units: the ten-word header, the three cDAQ words *)
(* and the payload, cut into PayloadUnits pieces because a connection can  *)
(* break inside it.  TCP and the kernel are external: units arrive in      *)
(* order, and an established connection waits in the backlog for accept(). *)
(***************************************************************************)
EXTENDS Integers, Sequences

CONSTANTS
    Script,        (* kinds of the messages the client wants to send       *)
    PayloadUnits,  (* pieces of a payload                                  *)
    MaxCuts        (* bound: how often the network or the client dies      *)

Kinds == {"eore", "bore",   (* end and begin of run: three words, no payload *)
          "data",           (* an event the parser accepts                   *)
          "bad",            (* an event the parser throws on                 *)
          "huge",           (* longer than MAXDATA                           *)
          "probe",          (* connection test, a header only                *)
          "other"}          (* another request, a header only                *)

ASSUME ScriptAssumption == Script \in Seq(Kinds)
ASSUME LinkParamsAssumption == PayloadUnits \in Nat \ {0} /\ MaxCuts \in Nat

Messages == DOMAIN Script
Units == [msg : Messages, part : {"header", "words", "payload"}]

HasWords(m) == Script[m] \notin {"probe", "other"}
HasPayload(m) == Script[m] \in {"data", "bad", "huge"}

(* What tcp_event_snd puts on the socket for message m.                    *)
UnitsOf(m) ==
    <<[msg |-> m, part |-> "header"]>>
    \o (IF HasWords(m) THEN <<[msg |-> m, part |-> "words"]>> ELSE <<>>)
    \o (IF HasPayload(m)
        THEN [i \in 1..PayloadUnits |-> [msg |-> m, part |-> "payload"]]
        ELSE <<>>)

VARIABLES
    listening,  (* the kernel accepts connections on the port              *)
    link,       (* the first connection made: "none", "open" or "closed"   *)
    wire,       (* units of that connection sent and not yet read          *)
    cuts        (* connections cut so far                                  *)

linkVars == <<listening, link, wire, cuts>>

LinkInit ==
    /\ listening = FALSE
    /\ link = "none"
    /\ wire = <<>>
    /\ cuts = 0

(* The network fails: what was in flight may be lost, from the end.        *)
NetworkCut ==
    /\ link = "open"
    /\ cuts < MaxCuts
    /\ cuts' = cuts + 1
    /\ link' = "closed"
    /\ \E n \in 0..Len(wire) : wire' = SubSeq(wire, 1, n)
    /\ UNCHANGED listening

LinkTypeOK ==
    /\ listening \in BOOLEAN
    /\ link \in {"none", "open", "closed"}
    /\ wire \in Seq(Units)
    /\ cuts \in 0..MaxCuts
=============================================================================
