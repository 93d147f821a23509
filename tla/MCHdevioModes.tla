--------------------------- MODULE MCHdevioModes ---------------------------
(* Files for TLC: closed properly or cut at any word, with empty blocks,   *)
(* events shorter than their header, and blocks of which the header lies   *)
(* across the edge of a chunk.                                             *)
EXTENDS HdevioModes

UpTo(S, n) == UNION {[1 .. k -> S] : k \in 0 .. n}

Closed(blocks) == [blocks |-> Append(blocks, <<>>), size |-> FullSize(blocks) + HeaderLen]

MCFiles ==
    {Closed(bs) : bs \in UpTo(UpTo({3, 9}, 2), 3)}
    \cup UNION {{[blocks |-> bs, size |-> s] : s \in 1 .. FullSize(bs)} :
                   bs \in UpTo(UpTo({2, 10}, 2), 2) \cup UpTo(UpTo({7}, 1), 3) \cup {<<<<16>>, <<3>>>>}}

Tags == <<"FFD1", "FFD2", "0070", "0060", "FF33", "FF50", "FFD0", "FF32", "FFD3", "FFD4", "none">>
MCTagOf(e) == Tags[((4 * e[1] + 3 * e[2]) % Len(Tags)) + 1]

MCRequests == {{"PHYSICS"}, {"BOR", "EPICS"}, {"EPICS", "PHYSICS"}}
=============================================================================
