---------------------------- MODULE OrderedRead ----------------------------
(***************************************************************************)
(* What a reader of an event file promises: events of the file, in order   *)
(* and none twice.  Of a file that was closed properly it gives all, and   *)
(* then the end of the file; of another one it may leave out events and    *)
(* end with an error.                                                      *)
(***************************************************************************)
EXTENDS Naturals, Sequences

CONSTANT Before(_, _)    (* the order in which events are stored           *)

VARIABLES
    all,     (* the whole events of the file                               *)
    closed,  (* the file is complete                                       *)
    out,     (* the events read so far                                     *)
    ending   (* "reading", then "eof", "error" or "wild"                   *)

vars == <<all, closed, out, ending>>

Init == out = <<>> /\ ending = "reading"

WasRead(e) == \E i \in DOMAIN out : out[i] = e

ReadNext ==
    /\ ending = "reading"
    /\ \E e \in all :
          /\ \A i \in DOMAIN out : Before(out[i], e)
          /\ closed => \A d \in all : Before(d, e) => WasRead(d)
          /\ out' = Append(out, e)
    /\ UNCHANGED <<all, closed, ending>>

ReachEnd ==
    /\ ending = "reading"
    /\ closed => \A e \in all : WasRead(e)
    /\ ending' = "eof" \/ (~closed /\ ending' \in {"error", "wild"})
    /\ UNCHANGED <<all, closed, out>>

Next == ReadNext \/ ReachEnd

Spec == Init /\ [][Next]_vars /\ WF_vars(Next)
=============================================================================
