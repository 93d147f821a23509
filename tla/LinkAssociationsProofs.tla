----------------------- MODULE LinkAssociationsProofs -----------------------
(***************************************************************************)
(* Proofs about LinkAssociations, for vectors of every length and addresses*)
(* of every value.                                                         *)
(***************************************************************************)
EXTENDS LinkAssociations, WellFoundedInduction, TLAPS

(* A nonempty set of numbers has a least one. *)
LEMMA LeastNumber ==
    ASSUME NEW T \in SUBSET Nat, T # {}
    PROVE  \E k \in T : \A l \in T : k <= l
<1>1. PICK k \in T : \A l \in T : ~(<<l, k>> \in OpToRel(<, Nat))
  BY NatLessThanWellFounded, WFMin
<1>2. ASSUME NEW l \in T, l < k PROVE FALSE
  <2>1. <<l, k>> \in OpToRel(<, Nat)
    BY <1>2, Zenon DEF OpToRel
  <2>2. QED BY <1>1, <2>1, Zenon
<1>3. \A l \in T : k <= l
  BY <1>2
<1>4. QED BY <1>3

-----------------------------------------------------------------------------
(* The order the vectors are sorted by.                                    *)

(* Of two addresses at most one sorts before the other.                    *)
LEMMA SortsAsymmetric ==
    ASSUME NEW l \in Levels, NEW x \in AnyAddress, NEW y \in AnyAddress, Sorts(l, x, y)
    PROVE  ~Sorts(l, y, x)
BY DEF Levels, AnyAddress, Sorts

(* No address sorts before itself.                                         *)
LEMMA SortsIrreflexive ==
    ASSUME NEW l, NEW x \in AnyAddress
    PROVE  ~Sorts(l, x, x)
BY DEF AnyAddress, Sorts

(* A third address is behind the first or before the second.               *)
LEMMA SortsAround ==
    ASSUME NEW l \in Levels, NEW x \in AnyAddress, NEW y \in AnyAddress, NEW z \in AnyAddress,
           Sorts(l, x, y)
    PROVE  Sorts(l, x, z) \/ Sorts(l, z, y)
BY DEF Levels, AnyAddress, Sorts

(* Objects match when the walk takes them for the same, but for the mask.  *)
LEMMA MatchesSame ==
    ASSUME NEW x \in AnyAddress, NEW y \in AnyAddress, level \in Levels
    PROVE  Matches(x, y) <=> /\ Same(level, x, y)
                             /\ level = "config" => y.slot \in x.slot_mask
BY DEF Levels, AnyAddress, Sorts, Same, Matches

(* A sorted vector, by its elements.                                       *)
LEMMA ObjectsHave ==
    ASSUME NEW v, Objects(v)
    PROVE  /\ Len(v) \in Nat /\ DOMAIN v = 1 .. Len(v)
           /\ \A k \in 1 .. Len(v) : v[k] \in AnyAddress
           /\ \A k, l \in 1 .. Len(v) : k < l => ~Sorts(level, v[l], v[k])
<1>1. v \in Seq(Address) /\ Sorted(level, v)
  BY DEF Objects
<1>2. Len(v) \in Nat /\ DOMAIN v = 1 .. Len(v) /\ \A k \in 1 .. Len(v) : v[k] \in Address
  BY <1>1
<1>3. QED BY <1>1, <1>2, AddressAssumption DEF Sorted

-----------------------------------------------------------------------------
(* What the inner loops find.                                              *)

(* RangeEnd is the end of the range of addresses equal to that at k.       *)
LEMMA RangeEndFound ==
    ASSUME NEW v, Objects(v), NEW k \in 1 .. Len(v)
    PROVE  /\ RangeEnd(v, k) \in k + 1 .. Len(v) + 1
           /\ \A m \in k .. RangeEnd(v, k) - 1 : Same(level, v[m], v[k])
           /\ RangeEnd(v, k) <= Len(v) => ~Same(level, v[RangeEnd(v, k)], v[k])
<1> DEFINE T == {l \in k + 1 .. Len(v) + 1 : l <= Len(v) => ~Same(level, v[l], v[k])}
<1>1. Len(v) \in Nat
  BY ObjectsHave
<1>2. T \in SUBSET Nat /\ Len(v) + 1 \in T
  BY <1>1
<1>3. PICK l \in T : \A n \in T : l <= n
  <2> HIDE DEF T
  <2> QED BY <1>2, LeastNumber
<1>4. ASSUME NEW m \in k .. l - 1 PROVE Same(level, v[m], v[k])
  <2>1. CASE m = k
    BY <2>1, ObjectsHave, SortsIrreflexive DEF Same
  <2>2. CASE m # k
    <3>1. m \in k + 1 .. Len(v) + 1 /\ m <= Len(v) /\ ~(l <= m)
      BY <1>1, <1>3, <2>2
    <3>2. m \notin T
      BY <1>3, <3>1
    <3>3. QED BY <3>1, <3>2
  <2>3. QED BY <2>1, <2>2
<1>5. l \in k + 1 .. Len(v) + 1 /\ (l <= Len(v) => ~Same(level, v[l], v[k]))
  BY <1>3
<1> HIDE DEF T
<1>6. QED BY <1>4, <1>5 DEF RangeEnd

(* Start is the first place of a that does not sort before b[i].           *)
LEMMA StartFound ==
    ASSUME LoopInv, pc = "loop"
    PROVE  /\ Start \in j .. Len(a) + 1
           /\ \A m \in j .. Start - 1 : Sorts(level, a[m], b[i])
           /\ Start <= Len(a) => ~Sorts(level, a[Start], b[i])
<1> DEFINE T == {l \in j .. Len(a) + 1 : l <= Len(a) => ~Sorts(level, a[l], b[i])}
<1>1. Len(a) \in Nat /\ j \in 1 .. Len(a) + 1
  BY ObjectsHave DEF LoopInv
<1>2. T \in SUBSET Nat /\ Len(a) + 1 \in T
  BY <1>1
<1>3. PICK l \in T : \A n \in T : l <= n
  <2> HIDE DEF T
  <2> QED BY <1>2, LeastNumber
<1>4. ASSUME NEW m \in j .. l - 1 PROVE Sorts(level, a[m], b[i])
  <2>1. m \in j .. Len(a) + 1 /\ ~(l <= m)
    BY <1>1, <1>3
  <2>2. m \notin T
    BY <1>3, <2>1
  <2>3. QED BY <2>1, <2>2
<1>5. l \in j .. Len(a) + 1 /\ (l <= Len(a) => ~Sorts(level, a[l], b[i]))
  BY <1>3
<1> HIDE DEF T
<1>6. QED BY <1>4, <1>5 DEF Start

-----------------------------------------------------------------------------
(* Where the ranges leave the vectors.                                     *)

(* Equal addresses sort alike, and equal what the other equals.            *)
LEMMA SameGoesAlong ==
    ASSUME NEW l \in Levels, NEW x \in AnyAddress, NEW y \in AnyAddress, NEW z \in AnyAddress,
           Same(l, x, y)
    PROVE  /\ Sorts(l, y, z) => Sorts(l, x, z)
           /\ Sorts(l, z, y) => Sorts(l, z, x)
           /\ Same(l, y, z) => Same(l, x, z)
<1>1. ~Sorts(l, x, y) /\ ~Sorts(l, y, x)
  BY DEF Same
<1>2. Sorts(l, y, z) => Sorts(l, x, z)
  BY <1>1, SortsAround
<1>3. Sorts(l, z, y) => Sorts(l, z, x)
  BY <1>1, SortsAround
<1>4. Same(l, y, z) => Same(l, x, z)
  <2>1. Sorts(l, x, z) => Sorts(l, y, z)
    BY <1>1, SortsAround
  <2>2. Sorts(l, z, x) => Sorts(l, z, y)
    BY <1>1, SortsAround
  <2>3. QED BY <2>1, <2>2 DEF Same
<1>5. QED BY <1>2, <1>3, <1>4

(* All from the end of a range on comes after it. *)
LEMMA AfterRange ==
    ASSUME NEW v, Objects(v), level \in Levels, NEW k \in 1 .. Len(v),
           NEW n \in RangeEnd(v, k) .. Len(v)
    PROVE  Sorts(level, v[k], v[n])
<1> DEFINE e == RangeEnd(v, k)
<1>1. /\ Len(v) \in Nat
      /\ \A m \in 1 .. Len(v) : v[m] \in AnyAddress
      /\ \A m, o \in 1 .. Len(v) : m < o => ~Sorts(level, v[o], v[m])
  BY ObjectsHave
<1>2. e \in k + 1 .. Len(v) + 1 /\ (e <= Len(v) => ~Same(level, v[e], v[k]))
  BY RangeEndFound
<1> HIDE DEF e
<1>3. n \in e .. Len(v) /\ e \in 1 .. Len(v) /\ n \in 1 .. Len(v) /\ k < e
  BY <1>1, <1>2 DEF e
<1>4. Sorts(level, v[k], v[e])
  <2>1. ~Sorts(level, v[e], v[k])
    BY <1>1, <1>3
  <2>2. QED BY <1>2, <1>3, <2>1 DEF Same
<1>5. ~Sorts(level, v[n], v[e])
  <2>1. CASE n = e
    BY <1>1, <1>3, <2>1, SortsIrreflexive
  <2>2. CASE n # e
    BY <1>1, <1>3, <2>2
  <2>3. QED BY <2>1, <2>2
<1>6. QED BY <1>1, <1>3, <1>4, <1>5, SortsAround

(* What a turn of the loop knows of either vector. *)
LEMMA Turn ==
    ASSUME LoopInv, pc = "loop"
    PROVE  /\ Len(a) \in Nat /\ Len(b) \in Nat
           /\ i \in 1 .. Len(b) /\ RangeEnd(b, i) \in i + 1 .. Len(b) + 1
           /\ j \in 1 .. Len(a) /\ Start \in j .. Len(a) + 1
           /\ \A m \in 1 .. Len(a) : a[m] \in AnyAddress
           /\ \A n \in 1 .. Len(b) : b[n] \in AnyAddress
           /\ \A n \in i .. RangeEnd(b, i) - 1 : Same(level, b[n], b[i])
           /\ \A n \in RangeEnd(b, i) .. Len(b) : Sorts(level, b[i], b[n])
           /\ \A m \in 1 .. Start - 1, n \in i .. Len(b) : Sorts(level, a[m], b[n])
<1>1. /\ Objects(a) /\ Objects(b) /\ level \in Levels
      /\ i \in 1 .. Len(b) /\ j \in 1 .. Len(a)
      /\ \A m \in 1 .. j - 1, n \in i .. Len(b) : Sorts(level, a[m], b[n])
  BY ObjectsHave DEF LoopInv
<1>2. /\ Len(a) \in Nat /\ Len(b) \in Nat
      /\ \A m \in 1 .. Len(a) : a[m] \in AnyAddress
      /\ \A n \in 1 .. Len(b) : b[n] \in AnyAddress
      /\ \A n, o \in 1 .. Len(b) : n < o => ~Sorts(level, b[o], b[n])
  BY <1>1, ObjectsHave
<1>3. /\ RangeEnd(b, i) \in i + 1 .. Len(b) + 1
      /\ \A n \in i .. RangeEnd(b, i) - 1 : Same(level, b[n], b[i])
      /\ \A n \in RangeEnd(b, i) .. Len(b) : Sorts(level, b[i], b[n])
  BY <1>1, RangeEndFound, AfterRange
<1>4. /\ Start \in j .. Len(a) + 1
      /\ \A m \in j .. Start - 1 : Sorts(level, a[m], b[i])
  BY StartFound
<1>5. ASSUME NEW m \in 1 .. Start - 1, NEW n \in i .. Len(b)
      PROVE  Sorts(level, a[m], b[n])
  <2>1. CASE m < j
    <3>1. m \in 1 .. j - 1
      BY <1>1, <1>4, <2>1
    <3>2. QED BY <1>1, <3>1
  <2>2. CASE ~(m < j)
    <3>1. m \in 1 .. Len(a) /\ n \in 1 .. Len(b) /\ m \in j .. Start - 1
      BY <1>1, <1>2, <1>4, <2>2
    <3>2. Sorts(level, a[m], b[i])
      BY <1>4, <3>1
    <3>3. ~Sorts(level, b[n], b[i])
      <4>1. CASE n = i
        BY <1>1, <1>2, <4>1, SortsIrreflexive
      <4>2. CASE n # i
        BY <1>1, <1>2, <3>1, <4>2
      <4>3. QED BY <4>1, <4>2
    <3>4. QED BY <1>1, <1>2, <3>1, <3>2, <3>3, SortsAround
  <2>3. QED BY <2>1, <2>2
<1>6. QED BY <1>1, <1>2, <1>3, <1>4, <1>5

(* The pairs up to the end of a range are those before it and its own.     *)
LEMMA RangeAdds ==
    ASSUME LoopInv, pc = "loop", NEW own,
           own = {p \in (1 .. Len(a)) \X (i .. RangeEnd(b, i) - 1) : Matches(a[p[1]], b[p[2]])}
    PROVE  PairwiseUpTo(RangeEnd(b, i) - 1) = links \cup own
<1>1. i \in 1 .. Len(b) /\ RangeEnd(b, i) \in i + 1 .. Len(b) + 1 /\ Len(b) \in Nat
  BY Turn
<1>2. (1 .. RangeEnd(b, i) - 1) = (1 .. i - 1) \cup (i .. RangeEnd(b, i) - 1)
  BY <1>1
<1>3. links = PairwiseUpTo(i - 1)
  BY DEF LoopInv
<1>4. QED BY <1>2, <1>3 DEF PairwiseUpTo

-----------------------------------------------------------------------------
(* The turns of the loop keep what is known of the vectors passed.         *)

(* Nothing is passed and nothing linked at the start.                      *)
LEMMA InitInv == Init => LoopInv
<1> SUFFICES ASSUME Init PROVE LoopInv
  OBVIOUS
<1>1. PICK in \in Inputs : level = in.level /\ a = in.a /\ b = in.b
  BY DEF Init
<1>2. level \in Levels /\ Objects(a) /\ Objects(b)
  BY <1>1, InputsAssumption DEF Objects
<1>3. Len(a) \in Nat /\ Len(b) \in Nat /\ (a = <<>> <=> Len(a) = 0) /\ (b = <<>> <=> Len(b) = 0)
  BY <1>2 DEF Objects
<1>4. links = PairwiseUpTo(i - 1)
  BY DEF Init, PairwiseUpTo
<1>5. QED BY <1>2, <1>3, <1>4 DEF Init, LoopInv

(* The walk ends with a used up: no later b has a match.                   *)
LEMMA ExhaustedInv ==
    ASSUME LoopInv, Exhausted
    PROVE  LoopInv'
<1> DEFINE e == RangeEnd(b, i)
<1>1. pc = "loop" /\ Start > Len(a) /\ i' = e /\ j' = Start /\ pc' = "done"
  BY DEF Exhausted
<1>2. level' = level /\ a' = a /\ b' = b /\ links' = links
  BY DEF Exhausted
<1>3. /\ Len(a) \in Nat /\ Len(b) \in Nat /\ Start \in 1 .. Len(a) + 1
      /\ i \in 1 .. Len(b) /\ e \in i + 1 .. Len(b) + 1
      /\ \A m \in 1 .. Len(a), n \in i .. Len(b) : Sorts(level, a[m], b[n])
  BY <1>1, Turn
<1> HIDE DEF e
<1>4. \A m \in 1 .. j' - 1, n \in e .. Len(b) : Sorts(level, a[m], b[n])
  BY <1>1, <1>3
<1>5. links = PairwiseUpTo(e - 1)
  <2>1. ASSUME NEW m \in 1 .. Len(a), NEW n \in i .. e - 1 PROVE ~Matches(a[m], b[n])
    <3>1. n \in 1 .. Len(b) /\ n \in i .. Len(b)
      BY <1>3
    <3>2. a[m] \in AnyAddress /\ b[n] \in AnyAddress /\ level \in Levels
      BY <1>1, <3>1, Turn DEF LoopInv
    <3>3. QED BY <1>3, <3>1, <3>2, MatchesSame DEF Same
  <2>2. {p \in (1 .. Len(a)) \X (i .. e - 1) : Matches(a[p[1]], b[p[2]])} = {}
    BY <2>1
  <2>3. QED BY <1>1, <2>2, RangeAdds DEF e
<1>6. Objects(a)' /\ Objects(b)' /\ level' \in Levels
  BY <1>2 DEF LoopInv, Objects
<1>7. links' = PairwiseUpTo(i - 1)'
  BY <1>1, <1>2, <1>5 DEF PairwiseUpTo, Matches
<1>8. QED BY <1>1, <1>2, <1>3, <1>4, <1>6, <1>7 DEF LoopInv

(* A range of b without an equal one in a has no match.                    *)
LEMMA NotFoundInv ==
    ASSUME LoopInv, NotFound
    PROVE  LoopInv'
<1> DEFINE e == RangeEnd(b, i)
           s == Start
<1>1. /\ pc = "loop" /\ s <= Len(a) /\ ~Same(level, a[s], b[i])
      /\ i' = e /\ j' = s /\ pc' = IF e > Len(b) THEN "done" ELSE "loop"
  BY DEF NotFound
<1>2. level' = level /\ a' = a /\ b' = b /\ links' = links
  BY DEF NotFound
<1>3. /\ Len(a) \in Nat /\ Len(b) \in Nat /\ s \in 1 .. Len(a)
      /\ i \in 1 .. Len(b) /\ e \in i + 1 .. Len(b) + 1
      /\ \A m \in 1 .. Len(a) : a[m] \in AnyAddress
      /\ \A n \in 1 .. Len(b) : b[n] \in AnyAddress
      /\ \A n \in i .. e - 1 : Same(level, b[n], b[i])
      /\ \A m \in 1 .. s - 1, n \in i .. Len(b) : Sorts(level, a[m], b[n])
  BY <1>1, Turn
<1>4. ~Sorts(level, a[s], b[i])
  BY <1>1, StartFound
<1> HIDE DEF e, s
<1>5. /\ level \in Levels
      /\ \A m, o \in 1 .. Len(a) : m < o => ~Sorts(level, a[o], a[m])
  BY ObjectsHave DEF LoopInv
<1>6. \A m \in 1 .. j' - 1, n \in e .. Len(b) : Sorts(level, a[m], b[n])
  BY <1>1, <1>3
<1>7. ASSUME NEW m \in 1 .. Len(a), NEW n \in i .. e - 1 PROVE ~Matches(a[m], b[n])
  <2>1. n \in 1 .. Len(b) /\ n \in i .. Len(b)
    BY <1>3
  <2>2. CASE m < s
    <3>1. Sorts(level, a[m], b[n])
      BY <1>3, <2>1, <2>2
    <3>2. QED BY <1>3, <1>5, <2>1, <3>1, MatchesSame DEF Same
  <2>3. CASE ~(m < s)
    <3>1. Sorts(level, b[i], a[s])
      BY <1>1, <1>4 DEF Same
    <3>2. ~Sorts(level, a[m], a[s])
      <4>1. CASE m = s
        BY <1>3, <4>1, SortsIrreflexive
      <4>2. CASE m # s
        BY <1>3, <1>5, <2>3, <4>2
      <4>3. QED BY <4>1, <4>2
    <3>3. Sorts(level, b[i], a[m])
      BY <1>3, <1>5, <3>1, <3>2, SortsAround
    <3>4. Sorts(level, b[n], a[m])
      BY <1>3, <1>5, <2>1, <3>3, SameGoesAlong
    <3>5. QED BY <1>3, <1>5, <2>1, <3>4, MatchesSame DEF Same
  <2>4. QED BY <2>2, <2>3
<1>8. links = PairwiseUpTo(e - 1)
  <2>1. {p \in (1 .. Len(a)) \X (i .. e - 1) : Matches(a[p[1]], b[p[2]])} = {}
    BY <1>7
  <2>2. QED BY <1>1, <2>1, RangeAdds DEF e
<1>9. Objects(a)' /\ Objects(b)' /\ level' \in Levels
  BY <1>2 DEF LoopInv, Objects
<1>10. links' = PairwiseUpTo(i - 1)'
  BY <1>1, <1>2, <1>8 DEF PairwiseUpTo, Matches
<1>11. QED BY <1>1, <1>2, <1>3, <1>6, <1>9, <1>10 DEF LoopInv

(* Two equal ranges are linked, and both are passed.                       *)
LEMMA FoundInv ==
    ASSUME LoopInv, Found
    PROVE  LoopInv'
<1> DEFINE e == RangeEnd(b, i)
           s == Start
           f == NextA
           own == {p \in (s .. f - 1) \X (i .. e - 1) :
                      level = "config" => b[p[2]].slot \in a[p[1]].slot_mask}
<1>1. /\ pc = "loop" /\ s <= Len(a) /\ Same(level, a[s], b[i])
      /\ i' = e /\ j' = f /\ links' = links \cup own
      /\ pc' = IF e > Len(b) \/ f > Len(a) THEN "done" ELSE "loop"
  BY DEF Found
<1>2. level' = level /\ a' = a /\ b' = b
  BY DEF Found
<1>3. /\ Len(a) \in Nat /\ Len(b) \in Nat /\ s \in 1 .. Len(a)
      /\ i \in 1 .. Len(b) /\ e \in i + 1 .. Len(b) + 1
      /\ \A m \in 1 .. Len(a) : a[m] \in AnyAddress
      /\ \A n \in 1 .. Len(b) : b[n] \in AnyAddress
      /\ \A n \in i .. e - 1 : Same(level, b[n], b[i])
      /\ \A n \in e .. Len(b) : Sorts(level, b[i], b[n])
      /\ \A m \in 1 .. s - 1, n \in i .. Len(b) : Sorts(level, a[m], b[n])
  BY <1>1, Turn
<1>4. level \in Levels /\ Objects(a) /\ Objects(b)
  BY DEF LoopInv
<1>5. /\ f \in s + 1 .. Len(a) + 1
      /\ \A m \in s .. f - 1 : Same(level, a[m], a[s])
      /\ \A m \in f .. Len(a) : Sorts(level, a[s], a[m])
  BY <1>3, <1>4, RangeEndFound, AfterRange DEF NextA
<1> HIDE DEF e, s, f, own
<1>6. ASSUME NEW m \in s .. f - 1 PROVE m \in 1 .. Len(a) /\ Same(level, a[m], b[i])
  <2>1. m \in 1 .. Len(a)
    BY <1>3, <1>5
  <2>2. QED BY <1>1, <1>3, <1>4, <1>5, <2>1, SameGoesAlong
<1>7. ASSUME NEW m \in 1 .. j' - 1, NEW n \in e .. Len(b)
      PROVE  Sorts(level, a[m], b[n])
  <2>1. n \in 1 .. Len(b) /\ n \in i .. Len(b)
    BY <1>3
  <2>2. CASE m < s
    <3>1. m \in 1 .. s - 1
      BY <1>1, <1>3, <1>5, <2>2
    <3>2. QED BY <1>3, <2>1, <3>1
  <2>3. CASE ~(m < s)
    <3>1. m \in s .. f - 1
      BY <1>1, <1>3, <1>5, <2>3
    <3>2. QED BY <1>3, <1>4, <1>6, <2>1, <3>1, SameGoesAlong
  <2>4. QED BY <2>2, <2>3
<1>8. ASSUME NEW m \in 1 .. Len(a), NEW n \in i .. e - 1
      PROVE  Matches(a[m], b[n]) <=>
                /\ m \in s .. f - 1
                /\ level = "config" => b[n].slot \in a[m].slot_mask
  <2>1. n \in 1 .. Len(b) /\ n \in i .. Len(b) /\ Same(level, b[n], b[i])
    BY <1>3
  <2>2. CASE m < s
    <3>1. Sorts(level, a[m], b[n]) /\ m \notin s .. f - 1
      BY <1>3, <2>1, <2>2
    <3>2. QED BY <1>3, <1>4, <2>1, <3>1, MatchesSame DEF Same
  <2>3. CASE m \in s .. f - 1
    <3>1. Same(level, b[i], b[n])
      BY <2>1 DEF Same
    <3>2. Same(level, a[m], b[n])
      BY <1>3, <1>4, <1>6, <2>1, <2>3, <3>1, SameGoesAlong
    <3>3. QED BY <1>3, <1>4, <2>1, <2>3, <3>2, MatchesSame
  <2>4. CASE m > f - 1
    <3>1. Sorts(level, a[s], a[m]) /\ m \notin s .. f - 1
      <4>1. m \in f .. Len(a) /\ m \notin s .. f - 1
        BY <1>3, <1>5, <2>4
      <4>2. QED BY <1>5, <4>1
    <3>2. Same(level, b[i], a[s])
      BY <1>1 DEF Same
    <3>3. Sorts(level, b[i], a[m])
      BY <1>3, <1>4, <3>1, <3>2, SameGoesAlong
    <3>4. Sorts(level, b[n], a[m])
      BY <1>3, <1>4, <2>1, <3>3, SameGoesAlong
    <3>5. QED BY <1>3, <1>4, <2>1, <3>1, <3>4, MatchesSame DEF Same
  <2>5. QED BY <1>3, <1>5, <2>2, <2>3, <2>4
<1>9. links' = PairwiseUpTo(e - 1)
  <2>1. own = {p \in (1 .. Len(a)) \X (i .. e - 1) : Matches(a[p[1]], b[p[2]])}
    <3>1. s .. f - 1 \subseteq 1 .. Len(a)
      BY <1>6
    <3>2. QED BY <1>8, <3>1 DEF own
  <2>2. QED BY <1>1, <2>1, RangeAdds DEF e
<1>10. Objects(a)' /\ Objects(b)' /\ level' \in Levels
  BY <1>2, <1>4 DEF Objects
<1>11. links' = PairwiseUpTo(i - 1)'
  BY <1>1, <1>2, <1>9 DEF PairwiseUpTo, Matches
<1>12. QED BY <1>1, <1>2, <1>3, <1>5, <1>7, <1>10, <1>11 DEF LoopInv

(* The loop invariant: what has been linked is what comparing each with    *)
(* each finds among the objects passed.                                    *)
THEOREM LoopInvariant == Spec => []LoopInv
<1>1. LoopInv /\ [Next \/ Returned]_vars => LoopInv'
  <2> SUFFICES ASSUME LoopInv, [Next \/ Returned]_vars PROVE LoopInv'
    OBVIOUS
  <2>1. CASE UNCHANGED vars
    BY <2>1 DEF vars, LoopInv, Objects, PairwiseUpTo, Matches
  <2>2. CASE Returned
    BY <2>2, <2>1 DEF Returned
  <2>3. QED BY <2>1, <2>2, ExhaustedInv, NotFoundInv, FoundInv DEF Next
<1>2. QED BY <1>1, InitInv, PTL DEF Spec

(* Of sorted vectors the routines link just the pairs that their           *)
(* counterparts find (LinkAssociations.h:198).                             *)
THEOREM LinksComplete == Spec => []LinksAsPairwise
<1>1. LoopInv => LinksAsPairwise
  <2> SUFFICES ASSUME LoopInv, pc = "done" PROVE links = PairwiseUpTo(Len(b))
    BY DEF LinksAsPairwise
  <2>1. /\ Len(a) \in Nat /\ Len(b) \in Nat /\ level \in Levels
        /\ \A m \in 1 .. Len(a) : a[m] \in AnyAddress
        /\ \A n \in 1 .. Len(b) : b[n] \in AnyAddress
    BY ObjectsHave DEF LoopInv
  <2>2. /\ i \in 1 .. Len(b) + 1 /\ j \in 1 .. Len(a) + 1 /\ (i > Len(b) \/ j > Len(a))
        /\ \A m \in 1 .. j - 1, n \in i .. Len(b) : Sorts(level, a[m], b[n])
        /\ links = PairwiseUpTo(i - 1)
    BY DEF LoopInv
  <2>3. CASE i > Len(b)
    BY <2>1, <2>2, <2>3
  <2>4. CASE j > Len(a)
    <3>1. ASSUME NEW m \in 1 .. Len(a), NEW n \in i .. Len(b) PROVE ~Matches(a[m], b[n])
      <4>1. m \in 1 .. j - 1 /\ n \in 1 .. Len(b)
        BY <2>1, <2>2, <2>4
      <4>2. QED BY <2>1, <2>2, <4>1, MatchesSame DEF Same
    <3>2. \A p \in (1 .. Len(a)) \X (1 .. Len(b)) : Matches(a[p[1]], b[p[2]]) => p[2] \in 1 .. i - 1
      BY <2>1, <2>2, <3>1
    <3>3. 1 .. i - 1 \subseteq 1 .. Len(b)
      BY <2>1, <2>2
    <3>4. QED BY <2>2, <3>2, <3>3 DEF PairwiseUpTo
  <2>5. QED BY <2>2, <2>3, <2>4
<1>2. QED BY <1>1, LoopInvariant, PTL
=============================================================================
