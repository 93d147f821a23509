----------------------------- MODULE ProofFacts -----------------------------
(***************************************************************************)
(* Facts about numbers, functions on them and sequences that the proofs of *)
(* several modules need: induction, for a set of numbers; functions that   *)
(* are defined by recursion, for a step that is given as a function; the   *)
(* elements of longer sequences.                                           *)
(***************************************************************************)
EXTENDS Integers, Sequences, WellFoundedInduction, TLAPS

(* The numbers before a are before every larger number. *)
LEMMA IntervalsNest ==
    ASSUME NEW a \in Nat, NEW b \in Nat, a <= b
    PROVE  1 .. a - 1 \subseteq 1 .. b - 1
OBVIOUS

(* A nonempty set of numbers has a least one. *)
LEMMA LeastNumber ==
    ASSUME NEW T \in SUBSET Nat, T # {}
    PROVE  \E k \in T : \A l \in T : k <= l
<1>1. PICK k \in T : \A l \in T : ~(<<l, k>> \in OpToRel(<, Nat))
  BY NatLessThanWellFounded, WFMin
<1>2. ASSUME NEW l \in T, l < k PROVE FALSE
  <2>1. <<l, k>> \in OpToRel(<, Nat)
    BY <1>2, Zenon DEF OpToRel
  <2>2. QED BY <1>1, <2>1, Zenon
<1>3. \A l \in T : k <= l
  BY <1>2
<1>4. QED BY <1>3

(* A set with 0, and with n + 1 for every n in it, has all the numbers.    *)
LEMMA NatsByInduction ==
    ASSUME NEW T, 0 \in T, \A n \in Nat : n \in T => n + 1 \in T
    PROVE  Nat \subseteq T
<1> SUFFICES ASSUME Nat \ T # {} PROVE FALSE
  OBVIOUS
<1>1. PICK k \in Nat \ T : \A l \in Nat \ T : k <= l
  BY LeastNumber
<1>2. k # 0 /\ k - 1 \in Nat /\ k - 1 \in T
  BY <1>1
<1>3. QED BY <1>1, <1>2

(* Up to a number n.                                                       *)
LEMMA IntervalByInduction ==
    ASSUME NEW n \in Nat, NEW T, 0 \in T, \A k \in 0 .. n - 1 : k \in T => k + 1 \in T
    PROVE  0 .. n \subseteq T
<1> DEFINE U == {k \in Nat : k <= n => k \in T}
<1>1. 0 \in U /\ \A k \in Nat : k \in U => k + 1 \in U
  OBVIOUS
<1> HIDE DEF U
<1>2. Nat \subseteq U
  BY <1>1, NatsByInduction
<1>3. QED BY <1>2 DEF U

(* f has base at 0, and at k + 1 what step makes of f at k.                *)
FollowsStep(f, T, n, base, step) ==
    f \in [0 .. n -> T] /\ f[0] = base /\ \A k \in 1 .. n : f[k] = step[<<k, f[k - 1]>>]

(* A function on 0 .. n is given by its first value and a step.            *)
LEMMA RecursionExists ==
    ASSUME NEW T, NEW n \in Nat, NEW base \in T, NEW step \in [(1 .. n) \X T -> T]
    PROVE  \E f : FollowsStep(f, T, n, base, step)
<1> DEFINE Ok(f, m) == /\ f \in [0 .. m -> T] /\ f[0] = base
                       /\ \A k \in 1 .. m : f[k] = step[<<k, f[k - 1]>>]
           U == {m \in Nat : m <= n => \E f : Ok(f, m)}
<1>1. 0 \in U
  <2>1. Ok([k \in 0 .. 0 |-> base], 0)
    OBVIOUS
  <2>2. QED BY <2>1
<1>2. ASSUME NEW m \in Nat, m \in U PROVE m + 1 \in U
  <2>1. SUFFICES ASSUME m + 1 <= n PROVE \E f : Ok(f, m + 1)
    OBVIOUS
  <2>2. PICK f : Ok(f, m)
    BY <1>2, <2>1
  <2> DEFINE g == [k \in 0 .. m + 1 |-> IF k = m + 1 THEN step[<<m + 1, f[m]>>] ELSE f[k]]
  <2>3. step[<<m + 1, f[m]>>] \in T
    BY <2>1, <2>2
  <2>4. g \in [0 .. m + 1 -> T] /\ g[0] = base
    BY <2>2, <2>3
  <2>5. ASSUME NEW k \in 1 .. m + 1 PROVE g[k] = step[<<k, g[k - 1]>>]
    <3>1. k - 1 \in 0 .. m + 1 /\ k - 1 # m + 1 /\ g[k - 1] = f[k - 1]
      OBVIOUS
    <3>2. CASE k = m + 1
      BY <3>1, <3>2
    <3>3. CASE k # m + 1
      BY <2>2, <3>1, <3>3
    <3>4. QED BY <3>2, <3>3
  <2> HIDE DEF g
  <2>6. QED BY <2>4, <2>5
<1> HIDE DEF U
<1>3. n \in U
  BY <1>1, <1>2, NatsByInduction
<1>4. PICK f : Ok(f, n)
  BY <1>3 DEF U
<1>5. QED BY <1>4 DEF FollowsStep

(* The elements of a concatenation, by their place in the two parts.        *)
LEMMA ConcatIndex ==
    ASSUME NEW T, NEW s \in Seq(T), NEW t \in Seq(T)
    PROVE  /\ \A k \in DOMAIN s : k \in DOMAIN (s \o t) /\ (s \o t)[k] = s[k]
           /\ \A k \in DOMAIN t : Len(s) + k \in DOMAIN (s \o t) /\ (s \o t)[Len(s) + k] = t[k]
           /\ \A k \in DOMAIN (s \o t) : k \in DOMAIN s \/ \E j \in DOMAIN t : k = Len(s) + j
<1>1. /\ DOMAIN s = 1..Len(s) /\ DOMAIN t = 1..Len(t) /\ DOMAIN (s \o t) = 1..Len(s) + Len(t)
      /\ Len(s) \in Nat /\ Len(t) \in Nat
  OBVIOUS
<1>2. \A k \in 1..Len(s) : k \in 1..Len(s) + Len(t) /\ (s \o t)[k] = s[k]
  BY <1>1
<1>3. ASSUME NEW k \in 1..Len(t)
      PROVE  Len(s) + k \in 1..Len(s) + Len(t) /\ (s \o t)[Len(s) + k] = t[k]
  <2>1. Len(s) + k \in 1..Len(s) + Len(t) /\ ~(Len(s) + k <= Len(s)) /\ (Len(s) + k) - Len(s) = k
    BY <1>1
  <2>2. (s \o t)[Len(s) + k] = t[(Len(s) + k) - Len(s)]
    BY <1>1, <2>1
  <2>3. QED BY <2>1, <2>2
<1>4. \A k \in 1..Len(s) + Len(t) : k \in 1..Len(s) \/ \E j \in 1..Len(t) : k = Len(s) + j
  <2>1. SUFFICES ASSUME NEW k \in 1..Len(s) + Len(t), k \notin 1..Len(s)
                 PROVE  \E j \in 1..Len(t) : k = Len(s) + j
    OBVIOUS
  <2>2. k - Len(s) \in 1..Len(t) /\ k = Len(s) + (k - Len(s))
    BY <1>1, <2>1
  <2>3. QED BY <2>2
<1>5. QED BY <1>1, <1>2, <1>3, <1>4, Zenon

(* The elements of a sequence with one more, by their place.                *)
LEMMA AppendIndex ==
    ASSUME NEW T, NEW s \in Seq(T), NEW x \in T
    PROVE  /\ \A k \in DOMAIN s : k \in DOMAIN Append(s, x) /\ Append(s, x)[k] = s[k]
           /\ Len(s) + 1 \in DOMAIN Append(s, x) /\ Append(s, x)[Len(s) + 1] = x
           /\ \A k \in DOMAIN Append(s, x) : k \in DOMAIN s \/ k = Len(s) + 1
<1>1. DOMAIN s = 1..Len(s) /\ DOMAIN Append(s, x) = 1..Len(s) + 1 /\ Len(s) \in Nat
  OBVIOUS
<1>2. /\ \A k \in 1..Len(s) : Append(s, x)[k] = s[k]
      /\ Append(s, x)[Len(s) + 1] = x
  OBVIOUS
<1>3. QED BY <1>1, <1>2
=============================================================================
