---------------------------- MODULE RowsWritten ----------------------------
(***************************************************************************)
(* What a parallel table writer promises (SroRNTupleWriter.h): the rows    *)
(* come to the file in clusters, in any order; the file is closed when     *)
(* every row is in it, and none is in it twice.                            *)
(***************************************************************************)
EXTENDS Naturals

VARIABLES
    rows,     (* the rows to be written                                    *)
    file,     (* how often each row is in the file                         *)
    closed

vars == <<rows, file, closed>>

InFile == {r \in DOMAIN file : file[r] > 0}

Init == InFile = {} /\ closed = FALSE

Grows ==
    /\ \A r \in DOMAIN file : file[r] <= file'[r] /\ file'[r] <= 1
    /\ InFile' \subseteq rows
    /\ UNCHANGED rows

Commit == ~closed /\ Grows /\ UNCHANGED closed
Close  == ~closed /\ Grows /\ InFile' = rows /\ closed'

Spec == Init /\ [][Commit \/ Close]_vars
=============================================================================
