--------------------------- MODULE MCSroLazyParse ---------------------------
(* Blocks, and damaged words, for TLC.                                     *)
EXTENDS SroLazyParse

Fadc(id, n) == [id |-> id, data |-> [k \in 1..n |-> "fadc"]]
Dcrb(id, n) == [id |-> id, data |-> [k \in 1..(2 * n) |-> IF k % 2 = 1 THEN "pair" ELSE "rest"]]

Ecal  == [tag |-> "ecal1", map |-> <<<<"p1", "fadc">>, <<"p2", "fadc">>>>,
          payloads |-> <<Fadc("p1", 1), Fadc("p2", 2), Fadc("p2", 0)>>]
Drift == [tag |-> "dc1", map |-> <<<<"p1", "dcrb">>>>,
          payloads |-> <<Dcrb("p1", 2)>>]
Pcal  == [tag |-> "pcal1", map |-> <<<<"p1", "fadc">>>>,
          payloads |-> <<Fadc("p1", 1)>>]
Gap   == [tag |-> "ecal1", map |-> <<>>, payloads |-> <<>>]

(* An ECAL crate with a DCRB in it; a drift chamber crate with a payload   *)
(* of no known module, one with no entry in the map, and a bad pair.       *)
Mixed == [tag |-> "ecal1", map |-> <<<<"p1", "fadc">>, <<"p2", "dcrb">>>>,
          payloads |-> <<Fadc("p1", 1), Dcrb("p2", 1)>>]
Odd   == [tag |-> "dc1", map |-> <<<<"p0", "dcrb">>, <<"p1", "other">>>>,
          payloads |-> <<[id |-> "p1", data |-> <<"other">>],
                         [id |-> "p2", data |-> <<"other">>]>>]
BadPair == [tag |-> "dc1", map |-> <<<<"p1", "dcrb">>>>,
          payloads |-> <<[id |-> "p1", data |-> <<"badgroup", "rest", "pair", "rest", "other">>]>>]

MCBlocks == {<<<<Ecal, Drift>>, <<Pcal>>>>, <<<<Drift, Gap, Ecal>>>>,
             <<<<Mixed>>, <<Odd, BadPair>>>>}

(* A length that is too short, too long, a number that fits nowhere, or one*)
(* that wraps around: to the word it is in, or to the one before it; a     *)
(* header or a segment of another kind.                                    *)
MCDamages(w) ==
    {[w EXCEPT !.len = n, !.slen = n] :
        n \in (0..12) \cup {w.len - 1, w.len + 1, w.len + 5, 200} \cup {Modulus - k : k \in {1, 2, 12, 26}}}
    \cup {[w EXCEPT !.tag = t] : t \in {"none", "set", "info", "p2", "dc1", "ecal1"}}
    \cup {[w EXCEPT !.seg = "none"], [w EXCEPT !.seg = "map"]}
=============================================================================
