-------------------------- MODULE CdaqStreamProofs --------------------------
(***************************************************************************)
(* Proof that CDaqEventSource keeps its place in the stream of a client,   *)
(* for every list of messages, every size of a payload and any number of   *)
(* cuts: StreamInStep of CdaqStream; and that a run which ends well is     *)
(* complete: RunIsComplete.                                                *)
(*                                                                         *)
(* The invariant is about the stream: what is on the wire and, while the   *)
(* link is open, what the client has still to send of its message.  The    *)
(* reader has taken hdr's header and waits for the rest of hdr; behind it  *)
(* come whole messages, each later than the one before.  For RunIsComplete *)
(* it is also the one right after it, and what was given to JANA since an  *)
(* end of run was counted leaves no event out.                             *)
(***************************************************************************)
EXTENDS CdaqStream, SequenceTheorems, TLAPS

(* The units of a message by their place in it. *)
Size(m) == 1 + (IF HasWords(m) THEN 1 ELSE 0) + (IF HasPayload(m) THEN PayloadUnits ELSE 0)
PartAt(i) == IF i = 1 THEN "header" ELSE IF i = 2 THEN "words" ELSE "payload"
UnitAt(m, i) == [msg |-> m, part |-> PartAt(i)]

IsHeader(u) == u.part = "header"

(* Behind each header in w comes its message, and then a header. *)
Framed(w) ==
    \A i, j \in DOMAIN w : IsHeader(w[i]) /\ i <= j =>
        /\ j < i + Size(w[i].msg) => w[j] = UnitAt(w[i].msg, j - i + 1)
        /\ j = i + Size(w[i].msg) => IsHeader(w[j])

(* w begins with the last r units of message m, and then a header. *)
BeginsWithRest(w, m, r) ==
    \A j \in DOMAIN w : /\ j <= r => w[j] = UnitAt(m, j + Size(m) - r)
                        /\ j = r + 1 => IsHeader(w[j])

(* The messages of w follow one another, and all of them follow m, of      *)
(* which the units before the first header may be left.                    *)
Ordered(w) == \A i, j \in DOMAIN w : i < j =>
    w[i].msg <= w[j].msg /\ (IsHeader(w[j]) => w[i].msg < w[j].msg)
Follows(w, m) == \A j \in DOMAIN w : m <= w[j].msg /\ (IsHeader(w[j]) => m < w[j].msg)

Fits(w, m, r) == Framed(w) /\ BeginsWithRest(w, m, r) /\ Ordered(w) /\ Follows(w, m)

(* Nothing of the last message is missing. *)
Whole(w, r) ==
    r <= Len(w) /\ \A i \in DOMAIN w : IsHeader(w[i]) => i + Size(w[i].msg) - 1 <= Len(w)

(* All messages of w are older than n. *)
OlderThan(w, n) == \A j \in DOMAIN w : w[j].msg < n

-----------------------------------------------------------------------------
(* Lemmas about sequences of units.                                        *)

(* The messages are numbered as the script has them. *)
LEMMA ScriptFacts == Len(Script) \in Nat /\ Messages = 1 .. Len(Script)
BY ScriptAssumption DEF Messages

(* The units of a message: a header, the words behind it, the payload. *)
LEMMA SizeFacts ==
    ASSUME NEW m \in Messages
    PROVE  /\ Size(m) \in Nat \ {0}
           /\ HasWords(m) => Size(m) >= 2
           /\ HasPayload(m) => HasWords(m) /\ Size(m) = 2 + PayloadUnits
           /\ ~HasWords(m) => Size(m) = 1
           /\ HasWords(m) /\ ~HasPayload(m) => Size(m) = 2
BY LinkParamsAssumption DEF Size, HasWords, HasPayload

(* Two stretches of units, one behind the other. *)
LEMMA ConcatUnits ==
    ASSUME NEW s \in Seq(Units), NEW t \in Seq(Units)
    PROVE  /\ s \o t \in Seq(Units) /\ Len(s \o t) = Len(s) + Len(t)
           /\ Len(s) \in Nat /\ Len(t) \in Nat
           /\ \A i \in 1 .. Len(s) + Len(t) :
                 (s \o t)[i] = IF i <= Len(s) THEN s[i] ELSE t[i - Len(s)]
BY SMT

(* UnitsOf(m) has the Size(m) units of m, each in its place. *)
LEMMA UnitsOfFacts ==
    ASSUME NEW m \in Messages
    PROVE  /\ UnitsOf(m) \in Seq(Units) /\ Len(UnitsOf(m)) = Size(m)
           /\ \A i \in 1 .. Size(m) : UnitsOf(m)[i] = UnitAt(m, i)
<1> DEFINE h == <<[msg |-> m, part |-> "header"]>>
           w == IF HasWords(m) THEN <<[msg |-> m, part |-> "words"]>> ELSE <<>>
           p == IF HasPayload(m)
                THEN [i \in 1 .. PayloadUnits |-> [msg |-> m, part |-> "payload"]] ELSE <<>>
<1>1. h \in Seq(Units) /\ Len(h) = 1 /\ h[1] = [msg |-> m, part |-> "header"]
  BY DEF Units
<1>2. /\ w \in Seq(Units) /\ Len(w) = (IF HasWords(m) THEN 1 ELSE 0)
      /\ HasWords(m) => w[1] = [msg |-> m, part |-> "words"]
  <2>1. CASE HasWords(m)
    <3>1. w = <<[msg |-> m, part |-> "words"]>>
      BY <2>1
    <3>2. [msg |-> m, part |-> "words"] \in Units
      BY DEF Units
    <3>3. QED BY <2>1, <3>1, <3>2
  <2>2. CASE ~HasWords(m)
    BY <2>2
  <2>3. QED BY <2>1, <2>2
<1>3. /\ p \in Seq(Units) /\ Len(p) = (IF HasPayload(m) THEN PayloadUnits ELSE 0)
      /\ \A i \in 1 .. Len(p) : p[i] = [msg |-> m, part |-> "payload"]
  <2>1. CASE HasPayload(m)
    <3>1. \A i \in 1 .. PayloadUnits : [msg |-> m, part |-> "payload"] \in Units
      BY DEF Units
    <3>2. p \in Seq(Units)
      BY <2>1, <3>1, LinkParamsAssumption, IsASeq
    <3>3. Len(p) = PayloadUnits
      BY <2>1, LinkParamsAssumption
    <3>4. QED BY <2>1, <3>2, <3>3
  <2>2. CASE ~HasPayload(m)
    BY <2>2, EmptySeq
  <2>3. QED BY <2>1, <2>2
<1> HIDE DEF h, w, p
<1>4. UnitsOf(m) = (h \o w) \o p
  BY DEF UnitsOf, h, w, p
<1>5. /\ h \o w \in Seq(Units) /\ Len(h \o w) = 1 + Len(w)
      /\ \A i \in 1 .. 1 + Len(w) : (h \o w)[i] = IF i = 1 THEN h[1] ELSE w[i - 1]
  <2>1. /\ h \o w \in Seq(Units) /\ Len(h \o w) = Len(h) + Len(w) /\ Len(w) \in Nat
        /\ \A i \in 1 .. Len(h) + Len(w) :
              (h \o w)[i] = IF i <= Len(h) THEN h[i] ELSE w[i - Len(h)]
    BY <1>1, <1>2, ConcatUnits, Zenon
  <2>2. QED BY <1>1, <2>1
<1>6. /\ UnitsOf(m) \in Seq(Units) /\ Len(UnitsOf(m)) = 1 + Len(w) + Len(p)
      /\ \A i \in 1 .. 1 + Len(w) + Len(p) :
            UnitsOf(m)[i] = IF i <= 1 + Len(w) THEN (h \o w)[i] ELSE p[i - 1 - Len(w)]
  BY <1>2, <1>3, <1>4, <1>5, ConcatUnits, SMTT(30)
<1>7. Size(m) = 1 + Len(w) + Len(p)
  BY <1>2, <1>3 DEF Size
<1>8. ASSUME NEW i \in 1 .. Size(m) PROVE UnitsOf(m)[i] = UnitAt(m, i)
  <2>1. CASE i = 1
    BY <2>1, <1>1, <1>2, <1>3, <1>5, <1>6, <1>7 DEF UnitAt, PartAt
  <2>2. CASE i = 2 /\ HasWords(m)
    BY <2>2, <1>1, <1>2, <1>3, <1>5, <1>6, <1>7 DEF UnitAt, PartAt
  <2>3. CASE i >= 2 /\ ~(i = 2 /\ HasWords(m))
    <3>1. HasPayload(m) /\ HasWords(m) /\ Len(w) = 1
      BY <2>3, <1>2, <1>3, <1>7, SizeFacts, LinkParamsAssumption
    <3>2. UnitsOf(m)[i] = p[i - 2] /\ i - 2 \in 1 .. Len(p)
      BY <2>3, <3>1, <1>3, <1>6, <1>7, LinkParamsAssumption
    <3>3. QED BY <2>3, <3>1, <3>2, <1>3 DEF UnitAt, PartAt
  <2>4. QED BY <2>1, <2>2, <2>3, <1>7, SizeFacts
<1>9. QED BY <1>6, <1>7, <1>8

(* Every unit of a stream belongs to a message of the script. *)
LEMMA MessageOf ==
    ASSUME NEW w \in Seq(Units), NEW j \in 1 .. Len(w)
    PROVE  w[j].msg \in Messages
<1>1. w[j] \in Units
  BY ElementOfSeq
<1>2. QED BY <1>1 DEF Units

(* A stretch of a stream is like the stream. *)
LEMMA Stretch ==
    ASSUME NEW w \in Seq(Units), NEW n \in 0 .. Len(w), NEW k \in n .. Len(w)
    PROVE  /\ Framed(w) => Framed(SubSeq(w, n + 1, k))
           /\ Ordered(w) => Ordered(SubSeq(w, n + 1, k))
<1> DEFINE v == SubSeq(w, n + 1, k)
<1>0. n \in Nat /\ k \in Nat /\ k - n \in Nat
  OBVIOUS
<1>1. /\ v \in Seq(Units) /\ Len(v) = k - n /\ DOMAIN v = 1 .. k - n
      /\ DOMAIN w = 1 .. Len(w) /\ Len(w) \in Nat
      /\ \A j \in 1 .. k - n : v[j] = w[j + n]
  BY <1>0
<1> HIDE DEF v
<1>2. \A j \in 1 .. k - n : j + n \in 1 .. Len(w)
  BY <1>1
<1>3. ASSUME Framed(w) PROVE Framed(v)
  <2>1. SUFFICES ASSUME NEW i \in 1 .. k - n, NEW j \in 1 .. k - n, IsHeader(v[i]), i <= j
                 PROVE  /\ j < i + Size(v[i].msg) => v[j] = UnitAt(v[i].msg, j - i + 1)
                        /\ j = i + Size(v[i].msg) => IsHeader(v[j])
    BY <1>1 DEF Framed
  <2>2. i + n \in DOMAIN w /\ j + n \in DOMAIN w
    BY <1>1, <1>2
  <2>3. v[i] = w[i + n] /\ v[j] = w[j + n]
    BY <1>1
  <2>4. IsHeader(w[i + n]) /\ i + n <= j + n
    BY <2>1, <2>3
  <2>5. /\ j + n < i + n + Size(w[i + n].msg) =>
              w[j + n] = UnitAt(w[i + n].msg, (j + n) - (i + n) + 1)
        /\ j + n = i + n + Size(w[i + n].msg) => IsHeader(w[j + n])
    BY <1>3, <2>2, <2>4, Zenon DEF Framed
  <2>6. w[i + n].msg \in Messages
    BY <1>1, <2>2, MessageOf
  <2>7. Size(w[i + n].msg) \in Nat
    BY <2>6, SizeFacts
  <2>8. (j + n) - (i + n) + 1 = j - i + 1
    BY <1>0
  <2>9. /\ j < i + Size(w[i + n].msg) => w[j + n] = UnitAt(w[i + n].msg, j - i + 1)
        /\ j = i + Size(w[i + n].msg) => IsHeader(w[j + n])
    BY <1>0, <2>5, <2>7, <2>8
  <2>10. QED BY <2>3, <2>9, Zenon
<1>4. ASSUME Ordered(w) PROVE Ordered(v)
  <2>1. SUFFICES ASSUME NEW i \in 1 .. k - n, NEW j \in 1 .. k - n, i < j
                 PROVE  v[i].msg <= v[j].msg /\ (IsHeader(v[j]) => v[i].msg < v[j].msg)
    BY <1>1 DEF Ordered
  <2>2. i + n \in DOMAIN w /\ j + n \in DOMAIN w /\ i + n < j + n
    BY <1>1, <1>2, <2>1
  <2>3. QED BY <1>1, <1>4, <2>2 DEF Ordered
<1>5. QED BY <1>3, <1>4 DEF v

(* The first n units, whatever the reader waits for. *)
LEMMA FitsPrefix ==
    ASSUME NEW w \in Seq(Units), NEW n \in 0 .. Len(w), NEW m, NEW r \in Nat, Fits(w, m, r)
    PROVE  Fits(SubSeq(w, 1, n), m, r)
<1> DEFINE v == SubSeq(w, 1, n)
<1>1. /\ DOMAIN v = 1 .. n /\ DOMAIN w = 1 .. Len(w) /\ Len(w) \in Nat
      /\ \A j \in 1 .. n : j \in 1 .. Len(w) /\ v[j] = w[j]
  OBVIOUS
<1>2. SubSeq(w, 0 + 1, n) = v /\ 0 \in 0 .. Len(w) /\ n \in 0 .. Len(w)
  BY <1>1
<1> HIDE DEF v
<1>3. Framed(v) /\ Ordered(v)
  BY <1>2, Stretch, Zenon DEF Fits
<1>4. BeginsWithRest(v, m, r)
  BY <1>1 DEF Fits, BeginsWithRest
<1>5. Follows(v, m)
  BY <1>1 DEF Fits, Follows
<1>6. QED BY <1>3, <1>4, <1>5 DEF Fits, v

(* Nothing is missing of what is left when some units of m are read. *)
LEMMA WholeDrop ==
    ASSUME NEW w \in Seq(Units), NEW n \in 0 .. Len(w), NEW r \in Nat, n <= r, Whole(w, r)
    PROVE  Whole(SubSeq(w, n + 1, Len(w)), r - n)
<1> DEFINE v == SubSeq(w, n + 1, Len(w))
<1>1. /\ Len(v) = Len(w) - n /\ DOMAIN v = 1 .. Len(w) - n
      /\ DOMAIN w = 1 .. Len(w) /\ Len(w) \in Nat
      /\ \A j \in 1 .. Len(w) - n : v[j] = w[j + n]
  OBVIOUS
<1> HIDE DEF v
<1>2. ASSUME NEW i \in 1 .. Len(w) - n, IsHeader(v[i])
      PROVE  i + Size(v[i].msg) - 1 <= Len(v)
  <2>1. i + n \in 1 .. Len(w) /\ IsHeader(w[i + n])
    BY <1>1, <1>2
  <2>2. i + n + Size(w[i + n].msg) - 1 <= Len(w)
    BY <1>1, <2>1 DEF Whole
  <2>3. Size(w[i + n].msg) \in Nat
    BY <2>1, MessageOf, SizeFacts
  <2>4. QED BY <1>1, <2>2, <2>3
<1>3. r - n <= Len(v)
  BY <1>1 DEF Whole
<1>4. QED BY <1>1, <1>2, <1>3 DEF Whole, v

(* What is left when n units of the rest of m are read. *)
LEMMA FitsDrop ==
    ASSUME NEW w \in Seq(Units), NEW n \in 0 .. Len(w), NEW m \in Messages,
           NEW r \in Nat, n <= r, Fits(w, m, r)
    PROVE  Fits(SubSeq(w, n + 1, Len(w)), m, r - n)
<1> DEFINE v == SubSeq(w, n + 1, Len(w))
<1>1. /\ DOMAIN v = 1 .. Len(w) - n /\ DOMAIN w = 1 .. Len(w) /\ Len(w) \in Nat
      /\ \A j \in 1 .. Len(w) - n : v[j] = w[j + n]
  OBVIOUS
<1>2. \A j \in 1 .. Len(w) - n : j + n \in DOMAIN w
  BY <1>1
<1>3. Framed(v) /\ Ordered(v)
  <2>1. Len(w) \in n .. Len(w)
    BY <1>1
  <2>2. QED BY <2>1, Stretch, Zenon DEF Fits
<1> HIDE DEF v
<1>4. BeginsWithRest(v, m, r - n)
  <2>1. SUFFICES ASSUME NEW j \in 1 .. Len(w) - n
                 PROVE  /\ j <= r - n => v[j] = UnitAt(m, j + Size(m) - (r - n))
                        /\ j = r - n + 1 => IsHeader(v[j])
    BY <1>1 DEF BeginsWithRest
  <2>2. /\ j + n <= r => w[j + n] = UnitAt(m, (j + n) + Size(m) - r)
        /\ j + n = r + 1 => IsHeader(w[j + n])
    BY <1>2, Zenon DEF Fits, BeginsWithRest
  <2>3. (j + n) + Size(m) - r = j + Size(m) - (r - n)
    BY SizeFacts
  <2>4. QED BY <1>1, <2>2, <2>3
<1>5. Follows(v, m)
  BY <1>1, <1>2 DEF Fits, Follows
<1>6. QED BY <1>3, <1>4, <1>5 DEF Fits, v

(* The reader takes a header, when nothing of the last message is left. *)
LEMMA FitsHeader ==
    ASSUME NEW w \in Seq(Units), w # <<>>, NEW m, Fits(w, m, 0)
    PROVE  LET q == w[1].msg IN
           /\ q \in Messages /\ IsHeader(w[1]) /\ m < q
           /\ Fits(SubSeq(w, 2, Len(w)), q, Size(q) - 1)
           /\ Whole(w, 0) => Whole(SubSeq(w, 2, Len(w)), Size(q) - 1)
<1> DEFINE q == w[1].msg
           v == SubSeq(w, 2, Len(w))
<1>1. DOMAIN w = 1 .. Len(w) /\ Len(w) \in Nat \ {0} /\ 1 \in DOMAIN w /\ 1 \in 0 .. Len(w)
  OBVIOUS
<1>2. q \in Messages
  BY <1>1, MessageOf
<1>3. IsHeader(w[1]) /\ m < q
  BY <1>1 DEF Fits, BeginsWithRest, Follows
<1>4. Size(q) \in Nat \ {0}
  BY <1>2, SizeFacts
<1>5. v = SubSeq(w, 1 + 1, Len(w))
  OBVIOUS
<1>6. /\ DOMAIN v = 1 .. Len(w) - 1
      /\ \A j \in 1 .. Len(w) - 1 : v[j] = w[j + 1] /\ j + 1 \in DOMAIN w
  BY <1>1
<1> HIDE DEF v, q
<1>7. Framed(v) /\ Ordered(v)
  <2>1. Len(w) \in 1 .. Len(w)
    BY <1>1
  <2>2. QED BY <1>1, <1>5, <2>1, Stretch, Zenon DEF Fits
<1>8. BeginsWithRest(v, q, Size(q) - 1)
  <2>1. SUFFICES ASSUME NEW j \in 1 .. Len(w) - 1
                 PROVE  /\ j <= Size(q) - 1 => v[j] = UnitAt(q, j + Size(q) - (Size(q) - 1))
                        /\ j = Size(q) - 1 + 1 => IsHeader(v[j])
    BY <1>6 DEF BeginsWithRest
  <2>2. 1 <= j + 1
    BY <1>1
  <2>3. /\ j + 1 < 1 + Size(q) => w[j + 1] = UnitAt(q, (j + 1) - 1 + 1)
        /\ j + 1 = 1 + Size(q) => IsHeader(w[j + 1])
    BY <1>1, <1>3, <1>6, <2>2, Zenon DEF Fits, Framed, q
  <2>4. (j + 1) - 1 + 1 = j + Size(q) - (Size(q) - 1)
    BY <1>4
  <2>5. /\ j <= Size(q) - 1 => w[j + 1] = UnitAt(q, j + Size(q) - (Size(q) - 1))
        /\ j = Size(q) - 1 + 1 => IsHeader(w[j + 1])
    BY <1>1, <1>4, <2>3, <2>4
  <2>6. QED BY <1>6, <2>5, Zenon
<1>9. Follows(v, q)
  BY <1>1, <1>6 DEF Fits, Ordered, Follows, q
<1>10. ASSUME Whole(w, 0) PROVE Whole(v, Size(q) - 1)
  <2>1. Whole(w, Size(q))
    BY <1>1, <1>3, <1>4, <1>10 DEF Whole, q
  <2>2. QED BY <1>1, <1>4, <1>5, <2>1, WholeDrop
<1>11. QED BY <1>2, <1>3, <1>7, <1>8, <1>9, <1>10 DEF Fits, v, q

(* A new message is behind a stream from which nothing is missing. *)
LEMMA FitsAppend ==
    ASSUME NEW w \in Seq(Units), NEW m \in Nat, NEW r \in Nat, NEW q \in Messages,
           Fits(w, m, r), Whole(w, r), OlderThan(w, q), m < q
    PROVE  /\ Fits(w \o UnitsOf(q), m, r)
           /\ Whole(w \o UnitsOf(q), r)
<1> DEFINE v == w \o UnitsOf(q)
           l == Len(w)
           s == Size(q)
<1>1. /\ l \in Nat /\ DOMAIN w = 1 .. l /\ s \in Nat \ {0} /\ q \in Nat
      /\ UnitsOf(q) \in Seq(Units) /\ Len(UnitsOf(q)) = s
      /\ \A i \in 1 .. s : UnitsOf(q)[i] = UnitAt(q, i)
  BY SizeFacts, UnitsOfFacts, ScriptFacts
<1>2. /\ v \in Seq(Units) /\ Len(v) = l + s
      /\ \A i \in 1 .. l + s : v[i] = IF i <= l THEN w[i] ELSE UnitsOf(q)[i - l]
  BY <1>1, ConcatUnits, Zenon
<1>3. DOMAIN v = 1 .. l + s
  BY <1>2
<1> HIDE DEF v, l, s
<1>4. \A i \in 1 .. l : i \in 1 .. l + s /\ v[i] = w[i]
  BY <1>1, <1>2
<1>5. \A i \in 1 .. s : l + i \in 1 .. l + s /\ v[l + i] = UnitAt(q, i)
  BY <1>1, <1>2
<1>6. \A i \in l + 1 .. l + s : i - l \in 1 .. s /\ v[i] = UnitAt(q, i - l)
  <2>1. SUFFICES ASSUME NEW i \in l + 1 .. l + s
                 PROVE  i - l \in 1 .. s /\ v[i] = UnitAt(q, i - l)
    OBVIOUS
  <2>2. i - l \in 1 .. s /\ l + (i - l) = i
    BY <1>1
  <2>3. QED BY <1>5, <2>2
<1>7. \A i \in l + 1 .. l + s : v[i].msg = q /\ (IsHeader(v[i]) <=> i = l + 1)
  <2>1. SUFFICES ASSUME NEW i \in l + 1 .. l + s
                 PROVE  v[i].msg = q /\ (IsHeader(v[i]) <=> i = l + 1)
    OBVIOUS
  <2>2. i - l \in 1 .. s /\ v[i] = UnitAt(q, i - l) /\ (i - l = 1 <=> i = l + 1)
    BY <1>1, <1>6
  <2>3. v[i].msg = q /\ v[i].part = PartAt(i - l)
    BY <2>2 DEF UnitAt
  <2>4. PartAt(i - l) = "header" <=> i - l = 1
    BY DEF PartAt
  <2>5. QED BY <2>2, <2>3, <2>4 DEF IsHeader
<1>8. \A i \in 1 .. l : w[i].msg \in Messages /\ w[i].msg \in Nat /\ w[i].msg < q
  BY <1>1, MessageOf, ScriptFacts DEF OlderThan, l
<1>9. \A i \in 1 .. l : IsHeader(w[i]) =>
          Size(w[i].msg) \in Nat \ {0} /\ i + Size(w[i].msg) - 1 <= l
  BY <1>1, <1>8, SizeFacts DEF Whole, l
<1>10. Framed(v)
  <2>1. SUFFICES ASSUME NEW i \in 1 .. l + s, NEW j \in 1 .. l + s, IsHeader(v[i]), i <= j
                 PROVE  /\ j < i + Size(v[i].msg) => v[j] = UnitAt(v[i].msg, j - i + 1)
                        /\ j = i + Size(v[i].msg) => IsHeader(v[j])
    BY <1>3 DEF Framed
  <2>2. CASE i <= l /\ j <= l
    <3>1. i \in DOMAIN w /\ j \in DOMAIN w /\ v[i] = w[i] /\ v[j] = w[j]
      BY <1>1, <1>4, <2>2
    <3>2. QED BY <2>1, <3>1, Zenon DEF Fits, Framed
  <2>3. CASE i <= l /\ l < j
    <3>1. i \in 1 .. l /\ v[i] = w[i] /\ IsHeader(w[i])
      BY <1>1, <1>4, <2>1, <2>3
    <3>2. Size(w[i].msg) \in Nat /\ i + Size(w[i].msg) - 1 <= l
      BY <1>9, <3>1
    <3>3. ~(j < i + Size(w[i].msg))
      BY <1>1, <2>3, <3>2
    <3>4. ASSUME j = i + Size(w[i].msg) PROVE IsHeader(v[j])
      <4>1. j <= l + 1
        BY <1>1, <3>1, <3>2, <3>4
      <4>2. j = l + 1
        BY <1>1, <2>3, <4>1
      <4>3. QED BY <1>1, <1>7, <4>2
    <3>5. QED BY <3>1, <3>3, <3>4, Zenon
  <2>4. CASE l < i
    <3>1. i \in l + 1 .. l + s /\ j \in l + 1 .. l + s
      BY <1>1, <2>1, <2>4
    <3>2. i = l + 1 /\ v[i].msg = q
      BY <1>7, <2>1, <3>1
    <3>3. v[j] = UnitAt(q, j - l) /\ j - l = j - i + 1 /\ j < i + Size(q)
      BY <1>1, <1>6, <3>1, <3>2 DEF s
    <3>4. QED BY <1>1, <3>2, <3>3 DEF s
  <2>5. QED BY <1>1, <2>2, <2>3, <2>4
<1>11. BeginsWithRest(v, m, r)
  <2>1. SUFFICES ASSUME NEW j \in 1 .. l + s
                 PROVE  /\ j <= r => v[j] = UnitAt(m, j + Size(m) - r)
                        /\ j = r + 1 => IsHeader(v[j])
    BY <1>3 DEF BeginsWithRest
  <2>2. r <= l
    BY DEF Whole, l
  <2>3. CASE j <= l
    <3>1. j \in DOMAIN w /\ v[j] = w[j]
      BY <1>1, <1>4, <2>3
    <3>2. QED BY <3>1, Zenon DEF Fits, BeginsWithRest
  <2>4. CASE l < j
    <3>1. ~(j <= r) /\ (j = r + 1 => j = l + 1)
      BY <1>1, <2>2, <2>4
    <3>2. j \in l + 1 .. l + s
      BY <1>1, <2>4
    <3>3. QED BY <1>7, <3>1, <3>2
  <2>5. QED BY <1>1, <2>3, <2>4
<1>12. Ordered(v)
  <2>1. SUFFICES ASSUME NEW i \in 1 .. l + s, NEW j \in 1 .. l + s, i < j
                 PROVE  v[i].msg <= v[j].msg /\ (IsHeader(v[j]) => v[i].msg < v[j].msg)
    BY <1>3 DEF Ordered
  <2>2. CASE j <= l
    <3>1. i \in DOMAIN w /\ j \in DOMAIN w /\ v[i] = w[i] /\ v[j] = w[j]
      BY <1>1, <1>4, <2>1, <2>2
    <3>2. QED BY <2>1, <3>1, Zenon DEF Fits, Ordered
  <2>3. CASE i <= l /\ l < j
    <3>1. v[i].msg \in Nat /\ v[i].msg < q /\ v[j].msg = q
      BY <1>1, <1>4, <1>7, <1>8, <2>3
    <3>2. QED BY <1>1, <3>1
  <2>4. CASE l < i
    <3>1. j \in l + 1 .. l + s /\ i \in l + 1 .. l + s /\ j # l + 1
      BY <1>1, <2>1, <2>4
    <3>2. v[i].msg = q /\ v[j].msg = q /\ ~IsHeader(v[j])
      BY <1>7, <3>1
    <3>3. QED BY <1>1, <3>2
  <2>5. QED BY <1>1, <2>2, <2>3, <2>4
<1>13. Follows(v, m)
  <2>1. SUFFICES ASSUME NEW j \in 1 .. l + s
                 PROVE  m <= v[j].msg /\ (IsHeader(v[j]) => m < v[j].msg)
    BY <1>3 DEF Follows
  <2>2. CASE j <= l
    <3>1. j \in DOMAIN w /\ v[j] = w[j]
      BY <1>1, <1>4, <2>2
    <3>2. QED BY <3>1, Zenon DEF Fits, Follows
  <2>3. CASE l < j
    <3>1. v[j].msg = q
      BY <1>1, <1>7, <2>3
    <3>2. QED BY <1>1, <3>1
  <2>4. QED BY <1>1, <2>2, <2>3
<1>14. Whole(v, r)
  <2>1. r <= l + s
    BY <1>1 DEF Whole, l
  <2>2. ASSUME NEW i \in 1 .. l + s, IsHeader(v[i]) PROVE i + Size(v[i].msg) - 1 <= l + s
    <3>1. CASE i <= l
      <4>1. i \in 1 .. l /\ v[i] = w[i] /\ IsHeader(w[i])
        BY <1>1, <1>4, <2>2, <3>1
      <4>2. QED BY <1>1, <1>9, <4>1
    <3>2. CASE l < i
      <4>1. i = l + 1 /\ v[i].msg = q
        BY <1>1, <1>7, <2>2, <3>2
      <4>2. QED BY <1>1, <4>1 DEF s
    <3>3. QED BY <1>1, <3>1, <3>2
  <2>3. QED BY <1>2, <1>3, <2>1, <2>2 DEF Whole
<1>15. QED BY <1>10, <1>11, <1>12, <1>13, <1>14 DEF Fits, v

-----------------------------------------------------------------------------
(* The invariant.                                                          *)

(* What the source will read, if nothing goes wrong. *)
Stream == IF link = "open" THEN wire \o todo ELSE wire

(* Units of hdr not read yet. *)
Rest == IF reading = "header" THEN 0
        ELSE IF reading = "words" THEN Size(hdr) - 1 ELSE Size(hdr) - 2

(* The client's end: while the first connection is open it is the one the  *)
(* client sends on, and nothing of the message it is at is missing.        *)
SenderInv ==
    /\ todo # <<>> => next \in Messages
    /\ link = "none" => wire = <<>> /\ m_receive_fd = -1
    /\ link = "open" =>
         /\ TCP_FLAG = 1 /\ sd = "first" /\ sender = "up"
         /\ Whole(Stream, Rest)
         /\ OlderThan(Stream, next + 1) /\ hdr < next + 1
         /\ todo = <<>> => OlderThan(Stream, next) /\ hdr < next

(* The source's end. *)
SourceInv ==
    /\ m_receive_fd = -1 => reading = "header" /\ hdr = 0 /\ delivered = <<>>
    /\ reading = "words" => hdr \in Messages /\ HasWords(hdr)
    /\ reading = "payload" => hdr \in Messages /\ HasPayload(hdr)
    /\ Fits(Stream, hdr, Rest)

(* What JANA was given: nothing after an event that was cut. *)
DeliveredInv ==
    /\ DeliveredInOrder
    /\ \A d \in DOMAIN delivered :
         /\ delivered[d].msg <= hdr
         /\ reading # "header" => delivered[d].msg < hdr
         /\ ~delivered[d].whole => Stream = <<>> /\ link = "closed" /\ reading = "header"

IndInv == TypeOK /\ SenderInv /\ SourceInv /\ DeliveredInv

(* The values of the variables. *)
LEMMA InitType == Init => TypeOK
<1>1. SUFFICES ASSUME Init PROVE TypeOK
  OBVIOUS
<1>2. LinkTypeOK
  <2>1. wire \in Seq(Units)
    BY <1>1, EmptySeq, Zenon DEF Init, LinkInit
  <2>2. listening \in BOOLEAN /\ link \in {"none", "open", "closed"} /\ cuts \in 0 .. MaxCuts
    <3>1. 0 \in 0 .. MaxCuts
      BY LinkParamsAssumption
    <3>2. QED BY <1>1, <3>1, Zenon DEF Init, LinkInit
  <2>3. QED BY <2>1, <2>2 DEF LinkTypeOK
<1>3. SenderTypeOK
  BY <1>1, EmptySeq, ScriptFacts DEF Init, SenderInit, SenderTypeOK
<1>4. SourceTypeOK
  <2>1. delivered \in Seq([msg : Messages, whole : BOOLEAN])
    BY <1>1, EmptySeq, Zenon DEF Init, SourceInit
  <2>2. QED BY <1>1, <2>1 DEF Init, SourceInit, SourceTypeOK
<1>5. QED BY <1>2, <1>3, <1>4 DEF TypeOK

(* Stretches of a stream, its first unit and one more unit are units. *)
LEMMA UnitsMove ==
    ASSUME NEW w \in Seq(Units)
    PROVE  /\ \A n \in 0 .. Len(w) : SubSeq(w, 1, n) \in Seq(Units)
           /\ \A n \in Nat : n <= Len(w) => SubSeq(w, n + 1, Len(w)) \in Seq(Units)
           /\ w # <<>> => /\ Head(w) \in Units /\ Tail(w) \in Seq(Units)
                          /\ Head(w).msg \in Messages
           /\ \A u \in Units : Append(w, u) \in Seq(Units)
<1>1. \A n \in 0 .. Len(w) : SubSeq(w, 1, n) \in Seq(Units)
  OBVIOUS
<1>2. \A n \in Nat : n <= Len(w) => SubSeq(w, n + 1, Len(w)) \in Seq(Units)
  OBVIOUS
<1>3. w # <<>> => Head(w) \in Units /\ Tail(w) \in Seq(Units)
  OBVIOUS
<1>4. w # <<>> => Head(w).msg \in Messages
  BY <1>3 DEF Units
<1>5. QED BY <1>1, <1>2, <1>3, <1>4

(* The steps of the client keep its variables and the link in their types. *)
LEMMA SenderType ==
    ASSUME IndInv, ClientStep
    PROVE  LinkTypeOK' /\ SenderTypeOK' /\ (todo' # <<>> => next' \in Messages)
<1>1. /\ next \in Nat /\ todo \in Seq(Units) /\ wire \in Seq(Units) /\ cuts \in 0 .. MaxCuts
      /\ LinkTypeOK /\ SenderTypeOK /\ (todo # <<>> => next \in Messages) /\ MaxCuts \in Nat
  BY ScriptFacts, LinkParamsAssumption
     DEF IndInv, SenderInv, TypeOK, LinkTypeOK, SenderTypeOK
<1>2. next \in Messages => next + 1 \in 1 .. Len(Script) + 1 /\ UnitsOf(next) \in Seq(Units)
  BY ScriptFacts, UnitsOfFacts
<1>3. <<>> \in Seq(Units)
  BY EmptySeq
<1>4. ASSUME SendUnit
      PROVE  LinkTypeOK' /\ SenderTypeOK' /\ (todo' # <<>> => next' \in Messages)
  <2>1. /\ Head(todo) \in Units /\ Tail(todo) \in Seq(Units)
        /\ Append(wire, Head(todo)) \in Seq(Units)
    BY <1>1, <1>4, UnitsMove DEF SendUnit
  <2>2. wire' \in Seq(Units) /\ todo' \in Seq(Units)
    BY <1>1, <1>4, <2>1, Zenon DEF SendUnit
  <2>3. next' \in 1 .. Len(Script) + 1
    BY <1>1, <1>2, <1>4 DEF SendUnit, SenderTypeOK
  <2>4. Len(todo) = 1 => todo' = <<>>
    BY <1>1, <1>4 DEF SendUnit
  <2>5. todo' # <<>> => next' \in Messages
    BY <1>1, <1>4, <2>4 DEF SendUnit
  <2>6. LinkTypeOK'
    BY <1>1, <1>4, <2>2 DEF SendUnit, LinkTypeOK
  <2>7. SenderTypeOK'
    BY <1>1, <1>4, <2>2, <2>3 DEF SendUnit, SenderTypeOK
  <2>8. QED BY <2>5, <2>6, <2>7
<1>5. ASSUME Connect \/ StartMessage
      PROVE  LinkTypeOK' /\ SenderTypeOK' /\ (todo' # <<>> => next' \in Messages)
  BY <1>1, <1>2, <1>5
     DEF Connect, StartMessage, Calling, linkVars, LinkTypeOK, SenderTypeOK
<1>6. ASSUME ConnectRefused \/ CloseAfterError \/ WaitForRetry
      PROVE  LinkTypeOK' /\ SenderTypeOK' /\ (todo' # <<>> => next' \in Messages)
  BY <1>1, <1>2, <1>3, <1>6
     DEF ConnectRefused, CloseAfterError, WaitForRetry, LoseMessage, Calling, linkVars,
         LinkTypeOK, SenderTypeOK
<1>7. ASSUME SendFails \/ SendKills
      PROVE  LinkTypeOK' /\ SenderTypeOK' /\ (todo' # <<>> => next' \in Messages)
  BY <1>1, <1>2, <1>3, <1>7
     DEF SendFails, SendKills, LoseMessage, linkVars, LinkTypeOK, SenderTypeOK
<1>8. ASSUME SenderExits \/ SenderDies
      PROVE  LinkTypeOK' /\ SenderTypeOK' /\ (todo' # <<>> => next' \in Messages)
  BY <1>1, <1>8 DEF SenderExits, SenderDies, linkVars, LinkTypeOK, SenderTypeOK
<1>9. QED BY <1>4, <1>5, <1>6, <1>7, <1>8 DEF ClientStep, TcpEventSnd

(* The steps of the source keep its variables and the link in their types. *)
LEMMA SourceType ==
    ASSUME IndInv, SourceStep
    PROVE  LinkTypeOK' /\ SourceTypeOK'
<1>1. /\ wire \in Seq(Units) /\ LinkTypeOK /\ SourceTypeOK
      /\ hdr \in Messages \cup {0} /\ (reading # "header" => hdr \in Messages)
      /\ delivered \in Seq([msg : Messages, whole : BOOLEAN])
  BY DEF IndInv, TypeOK, SourceInv, LinkTypeOK, SourceTypeOK
<1>2. <<>> \in Seq(Units)
  BY EmptySeq
<1>3. \A m \in Messages, b \in BOOLEAN :
          Append(delivered, [msg |-> m, whole |-> b]) \in Seq([msg : Messages, whole : BOOLEAN])
  BY <1>1
<1>4. /\ wire # <<>> => Head(wire).msg \in Messages /\ Tail(wire) \in Seq(Units)
      /\ Len(wire) >= PayloadUnits => SubSeq(wire, PayloadUnits + 1, Len(wire)) \in Seq(Units)
  BY <1>1, UnitsMove, LinkParamsAssumption
<1>5. ASSUME Listen \/ Accept \/ SourceExits
      PROVE  LinkTypeOK' /\ SourceTypeOK'
  BY <1>1, <1>2, <1>5
     DEF Listen, Accept, SourceExits, linkVars, sourceVars, LinkTypeOK, SourceTypeOK
<1>6. ASSUME HeaderReadFails \/ WordsReadFails
      PROVE  LinkTypeOK' /\ SourceTypeOK'
  BY <1>1, <1>6 DEF HeaderReadFails, WordsReadFails, linkVars, LinkTypeOK, SourceTypeOK
<1>7. ASSUME ReadHeader \/ ReadHeaderTooLong
      PROVE  LinkTypeOK' /\ SourceTypeOK'
  BY <1>1, <1>2, <1>4, <1>7 DEF ReadHeader, ReadHeaderTooLong, LinkTypeOK, SourceTypeOK
<1>8. ASSUME ReadEndOfRun \/ ReadWords
      PROVE  LinkTypeOK' /\ SourceTypeOK'
  BY <1>1, <1>4, <1>8 DEF ReadEndOfRun, ReadWords, LinkTypeOK, SourceTypeOK
<1>9. ASSUME ReadHeaderOnly \/ ReadPayload \/ PayloadReadFails
      PROVE  LinkTypeOK' /\ SourceTypeOK'
  BY <1>1, <1>2, <1>3, <1>4, <1>9
     DEF ReadHeaderOnly, ReadPayload, PayloadReadFails, Deliver, InGetEvent, LinkTypeOK, SourceTypeOK
<1>10. QED BY <1>5, <1>6, <1>7, <1>8, <1>9 DEF SourceStep, GetEvent

(* Every step keeps the types. *)
LEMMA TypeStep ==
    ASSUME IndInv, [Next]_vars
    PROVE  TypeOK' /\ (todo' # <<>> => next' \in Messages)
<1>1. CASE ClientStep
  BY <1>1, SenderType DEF IndInv, TypeOK, SourceTypeOK, ClientStep, sourceVars
<1>2. CASE SourceStep
  BY <1>2, SourceType DEF IndInv, TypeOK, SenderInv, SenderTypeOK, SourceStep, senderVars
<1>3. CASE NetworkCut /\ UNCHANGED <<senderVars, sourceVars>>
  <2>1. wire' \in Seq(Units)
    BY <1>3, UnitsMove DEF IndInv, TypeOK, LinkTypeOK, NetworkCut
  <2>2. LinkTypeOK'
    BY <1>3, <2>1, LinkParamsAssumption DEF IndInv, TypeOK, LinkTypeOK, NetworkCut
  <2>3. QED
    BY <1>3, <2>2 DEF IndInv, TypeOK, SenderInv, SenderTypeOK, SourceTypeOK, senderVars, sourceVars
<1>4. CASE UNCHANGED vars
  BY <1>4 DEF IndInv, TypeOK, SenderInv, LinkTypeOK, SenderTypeOK, SourceTypeOK,
              vars, linkVars, senderVars, sourceVars
<1>5. QED BY <1>1, <1>2, <1>3, <1>4 DEF Next, Done

-----------------------------------------------------------------------------
(* Steps that do not read.                                                 *)

(* The stream, and what is left of the message being read, have a type. *)
LEMMA StreamType ==
    ASSUME IndInv
    PROVE  /\ Stream \in Seq(Units) /\ Rest \in Nat /\ hdr \in Nat
           /\ wire \in Seq(Units) /\ todo \in Seq(Units) /\ next \in Nat
<1>1. /\ wire \in Seq(Units) /\ todo \in Seq(Units) /\ next \in Nat /\ hdr \in Nat
      /\ reading \in {"header", "words", "payload"}
  BY ScriptFacts DEF IndInv, TypeOK, LinkTypeOK, SenderTypeOK, SourceTypeOK
<1>2. wire \o todo \in Seq(Units)
  BY <1>1, ConcatUnits
<1>3. Stream \in Seq(Units)
  BY <1>1, <1>2, Zenon DEF Stream
<1>4. Rest \in Nat
  BY <1>1, SizeFacts, LinkParamsAssumption DEF IndInv, SourceInv, Rest
<1>5. QED BY <1>1, <1>3, <1>4

(* The link is not open behind the step: what is left of the stream is a   *)
(* part of it from its beginning.                                          *)
LEMMA LinkLost ==
    ASSUME IndInv, TypeOK', todo' # <<>> => next' \in Messages,
           UNCHANGED <<reading, hdr, delivered>>, link' # "open",
           m_receive_fd' = -1 => m_receive_fd = -1,
           link' = "none" => link = "none" /\ m_receive_fd' = -1,
           link = "closed" => link' = "closed",
           NEW n \in 0 .. Len(Stream), wire' = SubSeq(Stream, 1, n)
    PROVE  IndInv'
<1>1. Stream \in Seq(Units) /\ Rest \in Nat
  BY StreamType
<1>2. Stream' = wire' /\ Rest' = Rest
  BY DEF Stream, Rest
<1>3. Fits(Stream', hdr', Rest')
  BY <1>1, <1>2, FitsPrefix DEF IndInv, SourceInv
<1>4. SourceInv'
  BY <1>3 DEF IndInv, SourceInv
<1>5. link' = "none" => wire' = <<>>
  <2>1. ASSUME link' = "none" PROVE wire' = <<>>
    <3>1. Stream = <<>>
      BY <2>1 DEF IndInv, SenderInv, Stream
    <3>2. QED BY <3>1
  <2>2. QED BY <2>1
<1>6. SenderInv'
  BY <1>5 DEF IndInv, SenderInv
<1>7. DeliveredInv'
  <2>1. Stream = <<>> => Stream' = <<>>
    BY <1>1, <1>2
  <2>2. QED BY <2>1 DEF IndInv, DeliveredInv, DeliveredInOrder
<1>8. QED BY <1>4, <1>6, <1>7 DEF IndInv

(* A link that is not open, with the wire as it was. *)
LEMMA LinkAbsent ==
    ASSUME IndInv, TypeOK', todo' # <<>> => next' \in Messages,
           UNCHANGED <<reading, hdr, delivered, wire>>, link # "open",
           link' = link \/ link' = "closed",
           m_receive_fd' = -1 => m_receive_fd = -1,
           link' = "none" => m_receive_fd' = -1
    PROVE  IndInv'
<1>1. wire \in Seq(Units) /\ Stream = wire
  BY StreamType DEF Stream
<1>2. Len(wire) \in 0 .. Len(wire) /\ SubSeq(wire, 1, Len(wire)) = wire
  BY <1>1
<1>3. \E n \in 0 .. Len(Stream) : wire' = SubSeq(Stream, 1, n)
  BY <1>1, <1>2
<1>4. QED BY <1>3, LinkLost

(* The link stays open, and nothing leaves the stream or enters it. *)
LEMMA StreamStays ==
    ASSUME IndInv, TypeOK', todo' # <<>> => next' \in Messages,
           UNCHANGED <<reading, hdr, delivered, link, TCP_FLAG, sd, sender>>, link = "open",
           m_receive_fd' = -1 => m_receive_fd = -1,
           wire' \o todo' = wire \o todo,
           \/ UNCHANGED <<todo, next>>
           \/ todo # <<>> /\ todo' # <<>> /\ next' = next
           \/ todo # <<>> /\ todo' = <<>> /\ next' = next + 1
    PROVE  IndInv'
<1>1. Stream' = Stream /\ Rest' = Rest
  BY DEF Stream, Rest
<1>2. next \in Nat /\ hdr \in Nat /\ Stream \in Seq(Units)
  BY StreamType
<1>3. SourceInv'
  BY <1>1 DEF IndInv, SourceInv
<1>4. Whole(Stream', Rest')
  BY <1>1 DEF IndInv, SenderInv
<1>5. \A k \in DOMAIN Stream : Stream[k].msg \in Nat
  BY <1>2, MessageOf, ScriptFacts
<1>6. OlderThan(Stream', next' + 1) /\ hdr' < next' + 1
  BY <1>1, <1>2, <1>5 DEF IndInv, SenderInv, OlderThan
<1>7. todo' = <<>> => OlderThan(Stream', next') /\ hdr' < next'
  BY <1>1, <1>2 DEF IndInv, SenderInv
<1>8. SenderInv'
  BY <1>4, <1>6, <1>7 DEF IndInv, SenderInv
<1>9. DeliveredInv'
  BY <1>1 DEF IndInv, DeliveredInv, DeliveredInOrder
<1>10. QED BY <1>3, <1>8, <1>9 DEF IndInv

(* The client begins its next message. *)
LEMMA MessageBegins ==
    ASSUME IndInv, TypeOK', next \in Messages, todo = <<>>,
           UNCHANGED <<reading, hdr, delivered, m_receive_fd, wire, next, sender>>,
           link # "closed", link' = "open", TCP_FLAG' = 1, sd' = "first", sender = "up",
           todo' = UnitsOf(next)
    PROVE  IndInv'
<1>1. /\ Stream \in Seq(Units) /\ Rest \in Nat /\ hdr \in Nat /\ next \in Nat
      /\ wire \in Seq(Units) /\ link \in {"none", "open"}
  BY StreamType DEF IndInv, TypeOK, LinkTypeOK
<1>2. Stream = wire
  <2>1. wire \o <<>> = wire
    BY <1>1
  <2>2. QED BY <2>1, Zenon DEF Stream
<1>3. Stream' = Stream \o UnitsOf(next) /\ Rest' = Rest
  BY <1>2 DEF Stream, Rest
<1>4. /\ Whole(Stream, Rest) /\ OlderThan(Stream, next) /\ hdr < next
      /\ Fits(Stream, hdr, Rest)
  <2>1. CASE link = "open"
    BY <2>1 DEF IndInv, SenderInv, SourceInv
  <2>2. CASE link = "none"
    <3>1. Stream = <<>> /\ reading = "header" /\ hdr = 0
      BY <2>2, <1>2 DEF IndInv, SenderInv, SourceInv
    <3>2. Rest = 0 /\ DOMAIN Stream = {} /\ Len(Stream) = 0
      BY <3>1 DEF Rest
    <3>3. Whole(Stream, Rest)
      BY <3>2 DEF Whole
    <3>4. OlderThan(Stream, next)
      BY <3>2 DEF OlderThan
    <3>5. hdr < next
      BY <3>1, ScriptFacts
    <3>6. QED BY <3>3, <3>4, <3>5 DEF IndInv, SourceInv
  <2>3. QED BY <1>1, <2>1, <2>2
<1>5. Fits(Stream', hdr', Rest') /\ Whole(Stream', Rest')
  BY <1>1, <1>3, <1>4, FitsAppend
<1>6. OlderThan(Stream', next + 1)
  <2>1. /\ UnitsOf(next) \in Seq(Units)
        /\ \A i \in 1 .. Len(UnitsOf(next)) : UnitsOf(next)[i].msg = next
    <3>1. /\ UnitsOf(next) \in Seq(Units)
          /\ \A i \in 1 .. Len(UnitsOf(next)) : UnitsOf(next)[i] = UnitAt(next, i)
      BY UnitsOfFacts, Zenon
    <3>2. \A i : UnitAt(next, i).msg = next
      BY DEF UnitAt
    <3>3. QED BY <3>1, <3>2, Zenon
  <2>2. \A i \in 1 .. Len(Stream) : Stream[i].msg \in Nat /\ Stream[i].msg < next
    BY <1>1, <1>4, MessageOf, ScriptFacts DEF OlderThan
  <2>3. /\ Stream' \in Seq(Units) /\ Len(Stream') = Len(Stream) + Len(UnitsOf(next))
        /\ Len(Stream) \in Nat /\ Len(UnitsOf(next)) \in Nat
        /\ \A i \in 1 .. Len(Stream) + Len(UnitsOf(next)) :
              Stream'[i] = IF i <= Len(Stream) THEN Stream[i]
                           ELSE UnitsOf(next)[i - Len(Stream)]
    BY <1>1, <1>3, <2>1, ConcatUnits, Zenon
  <2>4. SUFFICES ASSUME NEW i \in 1 .. Len(Stream) + Len(UnitsOf(next))
                 PROVE  Stream'[i].msg < next + 1
    BY <2>3 DEF OlderThan
  <2>5. CASE i <= Len(Stream)
    BY <1>1, <2>2, <2>3, <2>5
  <2>6. CASE i > Len(Stream)
    <3>1. i - Len(Stream) \in 1 .. Len(UnitsOf(next))
      BY <2>3, <2>6
    <3>2. Stream'[i] = UnitsOf(next)[i - Len(Stream)]
      BY <2>3, <2>6
    <3>3. Stream'[i].msg = next
      BY <2>1, <3>1, <3>2
    <3>4. QED BY <1>1, <1>4, <3>3, ScriptFacts
  <2>7. QED BY <2>3, <2>5, <2>6
<1>7. todo' # <<>>
  BY UnitsOfFacts, SizeFacts
<1>8. SenderInv'
  BY <1>1, <1>4, <1>5, <1>6, <1>7 DEF SenderInv
<1>9. SourceInv'
  BY <1>5 DEF IndInv, SourceInv
<1>10. DeliveredInv'
  <2>1. \A d \in DOMAIN delivered : delivered[d].whole
    <3>1. CASE link = "open"
      BY <3>1 DEF IndInv, DeliveredInv
    <3>2. CASE link = "none"
      BY <3>2 DEF IndInv, DeliveredInv
    <3>3. QED BY <1>1, <3>1, <3>2
  <2>2. QED BY <2>1 DEF IndInv, DeliveredInv, DeliveredInOrder
<1>11. QED BY <1>8, <1>9, <1>10 DEF IndInv

-----------------------------------------------------------------------------
(* Steps that read.                                                        *)

(* What is read from the wire is read from the stream. *)
LEMMA DropConcat ==
    ASSUME NEW s \in Seq(Units), NEW t \in Seq(Units), NEW n \in Nat, n <= Len(s)
    PROVE  SubSeq(s, n + 1, Len(s)) \o t = SubSeq(s \o t, n + 1, Len(s \o t))
<1> DEFINE a == SubSeq(s, n + 1, Len(s))
           st == s \o t
           b == SubSeq(st, n + 1, Len(st))
<1>1. /\ a \in Seq(Units) /\ Len(a) = Len(s) - n
      /\ \A i \in 1 .. Len(s) - n : a[i] = s[i + n]
  OBVIOUS
<1>2. /\ st \in Seq(Units) /\ Len(st) = Len(s) + Len(t) /\ Len(s) \in Nat /\ Len(t) \in Nat
      /\ \A i \in 1 .. Len(s) + Len(t) : st[i] = IF i <= Len(s) THEN s[i] ELSE t[i - Len(s)]
  BY ConcatUnits, Zenon
<1> HIDE DEF a, st
<1>3. /\ b \in Seq(Units) /\ Len(b) = Len(s) + Len(t) - n
      /\ \A i \in 1 .. Len(s) + Len(t) - n : b[i] = st[i + n]
  BY <1>2
<1>4. /\ a \o t \in Seq(Units) /\ Len(a \o t) = Len(a) + Len(t)
      /\ \A i \in 1 .. Len(a) + Len(t) : (a \o t)[i] = IF i <= Len(a) THEN a[i] ELSE t[i - Len(a)]
  BY <1>1, ConcatUnits, Zenon
<1> DEFINE c == a \o t
<1>5. /\ c \in Seq(Units) /\ Len(c) = Len(s) + Len(t) - n
      /\ \A i \in 1 .. Len(s) + Len(t) - n :
            c[i] = IF i <= Len(s) - n THEN a[i] ELSE t[i - (Len(s) - n)]
  BY <1>1, <1>2, <1>4
<1> HIDE DEF b, c
<1>6. ASSUME NEW i \in 1 .. Len(s) + Len(t) - n PROVE c[i] = b[i]
  <2>1. b[i] = IF i + n <= Len(s) THEN s[i + n] ELSE t[i + n - Len(s)]
    BY <1>2, <1>3
  <2>2. i - (Len(s) - n) = i + n - Len(s) /\ (i <= Len(s) - n <=> i + n <= Len(s))
    BY <1>2
  <2>3. CASE i + n <= Len(s)
    <3>1. i \in 1 .. Len(s) - n
      BY <1>2, <2>3
    <3>2. QED BY <1>1, <1>5, <2>1, <2>2, <2>3, <3>1
  <2>4. CASE ~(i + n <= Len(s))
    BY <1>5, <2>1, <2>2, <2>4
  <2>5. QED BY <2>3, <2>4
<1>7. c = b
  <2>1. Len(c) = Len(b) /\ \A i \in 1 .. Len(c) : c[i] = b[i]
    BY <1>3, <1>5, <1>6
  <2>2. QED BY <1>3, <1>5, <2>1, SeqEqual, Zenon
<1>8. QED BY <1>7 DEF a, b, c, st

(* Reading from the wire is reading from the stream. *)
LEMMA StreamRead ==
    ASSUME IndInv, UNCHANGED <<link, todo>>, NEW n \in Nat, n <= Len(wire),
           wire' = SubSeq(wire, n + 1, Len(wire))
    PROVE  /\ n \in 0 .. Len(Stream)
           /\ Stream' = SubSeq(Stream, n + 1, Len(Stream))
           /\ \A k \in 1 .. Len(wire) : Stream[k] = wire[k]
           /\ wire # <<>> => Stream # <<>>
<1>1. wire \in Seq(Units) /\ todo \in Seq(Units)
  BY StreamType
<1>2. CASE link = "open"
  <2>1. Stream = wire \o todo /\ Stream' = SubSeq(wire, n + 1, Len(wire)) \o todo
    BY <1>2 DEF Stream
  <2>2. SubSeq(wire, n + 1, Len(wire)) \o todo = SubSeq(wire \o todo, n + 1, Len(wire \o todo))
    BY <1>1, DropConcat
  <2>3. /\ Len(wire \o todo) = Len(wire) + Len(todo) /\ Len(wire) \in Nat /\ Len(todo) \in Nat
        /\ \A k \in 1 .. Len(wire) : (wire \o todo)[k] = wire[k]
    BY <1>1
  <2>4. wire # <<>> => wire \o todo # <<>>
    BY <1>1
  <2>5. n \in 0 .. Len(Stream)
    BY <2>1, <2>3
  <2>6. QED BY <2>1, <2>2, <2>3, <2>4, <2>5, Zenon
<1>3. CASE link # "open"
  <2>1. Stream = wire /\ Stream' = wire'
    BY <1>3 DEF Stream
  <2>2. n \in 0 .. Len(wire)
    BY <1>1
  <2>3. QED BY <2>1, <2>2, Zenon
<1>4. QED BY <1>2, <1>3

(* The messages of what is left are older still. *)
LEMMA OlderDrop ==
    ASSUME NEW w \in Seq(Units), NEW n \in 0 .. Len(w), NEW q, OlderThan(w, q)
    PROVE  OlderThan(SubSeq(w, n + 1, Len(w)), q)
<1> DEFINE v == SubSeq(w, n + 1, Len(w))
<1>1. /\ DOMAIN v = 1 .. Len(w) - n /\ DOMAIN w = 1 .. Len(w) /\ Len(w) \in Nat
      /\ \A j \in 1 .. Len(w) - n : v[j] = w[j + n] /\ j + n \in DOMAIN w
  OBVIOUS
<1> HIDE DEF v
<1>2. OlderThan(v, q)
  BY <1>1 DEF OlderThan
<1>3. QED BY <1>2 DEF v

(* Events as JANA was given them. *)
Delivery == [msg : Messages, whole : BOOLEAN]
InOrder(s) == \A i, j \in DOMAIN s : i < j => s[i].msg < s[j].msg /\ s[i].whole

(* One more event, behind whole ones of older messages. *)
LEMMA DeliverOne ==
    ASSUME NEW s \in Seq(Delivery), NEW e \in Delivery, InOrder(s),
           \A d \in DOMAIN s : s[d].msg < e.msg, \A d \in DOMAIN s : s[d].whole
    PROVE  /\ InOrder(Append(s, e))
           /\ \A d \in DOMAIN Append(s, e) : /\ Append(s, e)[d].msg <= e.msg
                                             /\ e.whole => Append(s, e)[d].whole
<1> DEFINE t == Append(s, e)
           l == Len(s)
<1>1. /\ l \in Nat /\ DOMAIN s = 1 .. l /\ DOMAIN t = 1 .. l + 1
      /\ \A d \in 1 .. l : t[d] = s[d]
      /\ t[l + 1] = e
  OBVIOUS
<1> HIDE DEF t, l
<1>2. \A d \in 1 .. l + 1 : d \in 1 .. l \/ d = l + 1
  BY <1>1
<1>3. \A d \in 1 .. l : s[d].msg \in Nat
  <2>1. \A d \in 1 .. l : s[d] \in Delivery
    BY <1>1, ElementOfSeq DEF l
  <2>2. QED BY <2>1, ScriptFacts DEF Delivery
<1>4. e.msg \in Nat
  BY ScriptFacts DEF Delivery
<1>5. ASSUME NEW d \in 1 .. l + 1 PROVE t[d].msg <= e.msg
  <2>1. CASE d \in 1 .. l
    <3>1. t[d] = s[d] /\ s[d].msg < e.msg /\ s[d].msg \in Nat
      BY <1>1, <1>3, <2>1, Zenon
    <3>2. s[d].msg <= e.msg
      BY <1>4, <3>1
    <3>3. QED BY <3>1, <3>2, Zenon
  <2>2. CASE d = l + 1
    BY <1>1, <1>4, <2>2
  <2>3. QED BY <1>2, <2>1, <2>2
<1>6. ASSUME NEW d \in 1 .. l + 1, e.whole PROVE t[d].whole
  BY <1>1, <1>2, <1>6, Zenon
<1>7. ASSUME NEW i \in 1 .. l + 1, NEW j \in 1 .. l + 1, i < j
      PROVE  t[i].msg < t[j].msg /\ t[i].whole
  <2>1. i \in 1 .. l
    BY <1>1, <1>7
  <2>2. t[i].whole
    BY <1>1, <2>1, Zenon
  <2>3. CASE j \in 1 .. l
    BY <1>1, <1>7, <2>1, <2>2, <2>3, Zenon DEF InOrder
  <2>4. CASE j = l + 1
    BY <1>1, <2>1, <2>2, <2>4, Zenon
  <2>5. QED BY <1>2, <2>3, <2>4, Zenon
<1>8. InOrder(t)
  BY <1>1, <1>7, Zenon DEF InOrder
<1>9. QED BY <1>1, <1>5, <1>6, <1>8, Zenon DEF t

(* Nothing is missing of the events before the one that is read.           *)
LEMMA DeliveredBefore ==
    ASSUME IndInv, Stream # <<>> \/ reading # "header"
    PROVE  /\ delivered \in Seq(Delivery) /\ InOrder(delivered)
           /\ \A d \in DOMAIN delivered : delivered[d].whole
           /\ \A d \in DOMAIN delivered : delivered[d].msg \in Nat /\ delivered[d].msg <= hdr
           /\ reading # "header" => \A d \in DOMAIN delivered : delivered[d].msg < hdr
<1>1. delivered \in Seq(Delivery)
  BY Zenon DEF IndInv, TypeOK, SourceTypeOK, Delivery
<1>2. \A d \in DOMAIN delivered : delivered[d].msg \in Nat
  <2>1. \A d \in DOMAIN delivered : delivered[d] \in Delivery
    BY <1>1
  <2>2. QED BY <2>1, ScriptFacts DEF Delivery
<1>3. QED BY <1>1, <1>2, Zenon DEF IndInv, DeliveredInv, DeliveredInOrder, InOrder

(* More of the message whose header was read is read. *)
LEMMA RestRead ==
    ASSUME IndInv, TypeOK', UNCHANGED <<senderVars, link, hdr, m_receive_fd>>,
           m_receive_fd # -1, reading # "header", NEW n \in Nat \ {0}, n <= Rest, n <= Len(wire),
           wire' = SubSeq(wire, n + 1, Len(wire)), Rest' = Rest - n,
           reading' = "words" => HasWords(hdr), reading' = "payload" => HasPayload(hdr),
           \/ delivered' = delivered
           \/ delivered' = Append(delivered, [msg |-> hdr, whole |-> TRUE]) /\ reading' = "header"
    PROVE  IndInv'
<1>1. /\ Stream \in Seq(Units) /\ Rest \in Nat /\ hdr \in Messages /\ hdr \in Nat
      /\ wire \in Seq(Units)
  BY StreamType, ScriptFacts DEF IndInv, TypeOK, SourceTypeOK, SourceInv
<1>2. /\ n \in 0 .. Len(Stream) /\ Stream' = SubSeq(Stream, n + 1, Len(Stream))
      /\ Stream # <<>>
  <2>1. wire # <<>>
    BY <1>1
  <2>2. QED BY <2>1, StreamRead DEF senderVars
<1>3. Fits(Stream', hdr', Rest')
  BY <1>1, <1>2, FitsDrop DEF IndInv, SourceInv
<1>4. SourceInv'
  BY <1>1, <1>3 DEF IndInv, SourceInv
<1>5. link = "open" => Whole(Stream', Rest')
  BY <1>1, <1>2, WholeDrop DEF IndInv, SenderInv
<1>6. \A q : OlderThan(Stream, q) => OlderThan(Stream', q)
  BY <1>1, <1>2, OlderDrop
<1>7. SenderInv'
  <2>1. next' = next /\ todo' = todo /\ TCP_FLAG' = TCP_FLAG /\ sd' = sd /\ sender' = sender
    BY DEF senderVars
  <2>2. link # "none"
    BY DEF IndInv, SenderInv
  <2>3. QED BY <1>5, <1>6, <2>1, <2>2 DEF IndInv, SenderInv
<1>8. DeliveredInv'
  <2>1. /\ delivered \in Seq(Delivery) /\ InOrder(delivered)
        /\ \A d \in DOMAIN delivered : delivered[d].whole
        /\ \A d \in DOMAIN delivered : delivered[d].msg \in Nat /\ delivered[d].msg <= hdr
        /\ \A d \in DOMAIN delivered : delivered[d].msg < hdr
    BY DeliveredBefore, Zenon
  <2>2. CASE delivered' = delivered
    BY <2>1, <2>2, Zenon DEF DeliveredInv, DeliveredInOrder, InOrder
  <2>3. CASE delivered' = Append(delivered, [msg |-> hdr, whole |-> TRUE]) /\ reading' = "header"
    <3>1. DEFINE e == [msg |-> hdr, whole |-> TRUE]
    <3>2. e \in Delivery /\ e.msg = hdr /\ e.whole
      BY <1>1 DEF Delivery
    <3> HIDE DEF e
    <3>3. /\ InOrder(delivered')
          /\ \A d \in DOMAIN delivered' : delivered'[d].msg <= hdr /\ delivered'[d].whole
      BY <2>1, <2>3, <3>2, DeliverOne, Zenon DEF e
    <3>4. QED BY <2>3, <3>3, Zenon DEF DeliveredInv, DeliveredInOrder, InOrder
  <2>4. QED BY <2>2, <2>3
<1>9. QED BY <1>4, <1>7, <1>8 DEF IndInv

(* A header is read. *)
LEMMA HeaderTaken ==
    ASSUME IndInv, TypeOK', UNCHANGED <<senderVars, link, m_receive_fd>>, m_receive_fd # -1,
           reading = "header", wire # <<>>, wire' = Tail(wire), hdr' = Head(wire).msg,
           \/ HasWords(hdr') /\ reading' = "words"
           \/ ~HasWords(hdr') /\ reading' = "header",
           \/ delivered' = delivered
           \/ delivered' = Append(delivered, [msg |-> hdr', whole |-> TRUE]) /\ reading' = "header"
    PROVE  IndInv'
<1>1. Stream \in Seq(Units) /\ Rest = 0 /\ wire \in Seq(Units) /\ hdr \in Nat /\ next \in Nat
  BY StreamType DEF Rest
<1>2. /\ 1 \in Nat /\ 1 <= Len(wire) /\ wire' = SubSeq(wire, 1 + 1, Len(wire))
      /\ Head(wire) = wire[1] /\ 1 \in 1 .. Len(wire) /\ 1 + 1 = 2
  BY <1>1
<1>3. /\ 1 \in 0 .. Len(Stream) /\ Stream' = SubSeq(Stream, 2, Len(Stream))
      /\ Stream[1] = wire[1] /\ Stream # <<>>
  <2>1. UNCHANGED <<link, todo>>
    BY DEF senderVars
  <2>2. /\ 1 \in 0 .. Len(Stream) /\ Stream' = SubSeq(Stream, 1 + 1, Len(Stream))
        /\ Stream[1] = wire[1] /\ Stream # <<>>
    BY <1>2, <2>1, StreamRead, Zenon
  <2>3. QED BY <1>2, <2>2
<1>4. hdr' = Stream[1].msg
  BY <1>2, <1>3
<1>5. Fits(Stream, hdr, 0)
  BY <1>1 DEF IndInv, SourceInv
<1>6. /\ hdr' \in Messages /\ hdr < hdr' /\ Fits(Stream', hdr', Size(hdr') - 1)
      /\ Whole(Stream, 0) => Whole(Stream', Size(hdr') - 1)
  BY <1>1, <1>3, <1>4, <1>5, FitsHeader, Zenon
<1>7. Rest' = Size(hdr') - 1
  BY <1>6, SizeFacts DEF Rest
<1>8. SourceInv'
  BY <1>6, <1>7 DEF SourceInv
<1>9. \A q : OlderThan(Stream, q) => OlderThan(Stream', q) /\ hdr' < q
  <2>1. \A q : OlderThan(Stream, q) => OlderThan(SubSeq(Stream, 1 + 1, Len(Stream)), q)
    BY <1>1, <1>3, OlderDrop, Zenon
  <2>2. \A q : OlderThan(Stream, q) => hdr' < q
    BY <1>1, <1>3, <1>4 DEF OlderThan
  <2>3. QED BY <1>2, <1>3, <2>1, <2>2
<1>10. SenderInv'
  <2>1. next' = next /\ todo' = todo /\ TCP_FLAG' = TCP_FLAG /\ sd' = sd /\ sender' = sender
    BY DEF senderVars
  <2>2. link # "none"
    BY DEF IndInv, SenderInv
  <2>3. link = "open" => Whole(Stream', Rest')
    BY <1>1, <1>6, <1>7 DEF IndInv, SenderInv
  <2>4. QED BY <1>9, <2>1, <2>2, <2>3 DEF IndInv, SenderInv
<1>11. DeliveredInv'
  <2>1. /\ delivered \in Seq(Delivery) /\ InOrder(delivered)
        /\ \A d \in DOMAIN delivered : delivered[d].whole
        /\ \A d \in DOMAIN delivered : delivered[d].msg \in Nat /\ delivered[d].msg <= hdr
    BY <1>3, DeliveredBefore, Zenon
  <2>2. hdr' \in Nat
    BY <1>6, ScriptFacts
  <2>3. \A d \in DOMAIN delivered : delivered[d].msg < hdr' /\ delivered[d].msg <= hdr'
    BY <1>1, <1>6, <2>1, <2>2
  <2>4. CASE delivered' = delivered
    BY <2>1, <2>3, <2>4, Zenon DEF DeliveredInv, DeliveredInOrder, InOrder
  <2>5. CASE delivered' = Append(delivered, [msg |-> hdr', whole |-> TRUE]) /\ reading' = "header"
    <3> DEFINE e == [msg |-> hdr', whole |-> TRUE]
    <3>1. e \in Delivery /\ e.msg = hdr' /\ e.whole
      BY <1>6 DEF Delivery
    <3> HIDE DEF e
    <3>2. /\ InOrder(delivered')
          /\ \A d \in DOMAIN delivered' : delivered'[d].msg <= hdr' /\ delivered'[d].whole
      BY <2>1, <2>3, <2>5, <3>1, DeliverOne, Zenon DEF e
    <3>3. QED BY <2>5, <3>2, Zenon DEF DeliveredInv, DeliveredInOrder, InOrder
  <2>6. QED BY <2>4, <2>5
<1>12. QED BY <1>8, <1>10, <1>11 DEF IndInv

(* Nothing is left to read, and nothing will be sent. *)
LEMMA EmptyFits ==
    ASSUME Stream' = <<>>, reading' = "header"
    PROVE  Fits(Stream', hdr', Rest')
<1>1. DOMAIN Stream' = {}
  OBVIOUS
<1>2. QED BY <1>1 DEF Fits, Framed, BeginsWithRest, Ordered, Follows

(* An error closes the socket, and nothing of the stream is left. *)
LEMMA StreamGone ==
    ASSUME IndInv, TypeOK', UNCHANGED <<senderVars, m_receive_fd>>, m_receive_fd # -1,
           link' = "closed", wire' = <<>>, reading' = "header",
           \/ reading # "header" /\ hdr' = hdr
           \/ reading = "header" /\ wire # <<>> /\ hdr' = Head(wire).msg /\ delivered' = delivered,
           \/ delivered' = delivered
           \/ delivered' = Append(delivered, [msg |-> hdr, whole |-> FALSE])
    PROVE  IndInv'
<1>1. Stream' = <<>>
  BY DEF Stream
<1>2. SourceInv'
  BY <1>1, EmptyFits DEF SourceInv
<1>3. SenderInv'
  BY DEF IndInv, SenderInv, senderVars
<1>4. hdr \in Nat /\ Stream \in Seq(Units) /\ wire \in Seq(Units) /\ todo \in Seq(Units)
  BY StreamType
<1>5. ASSUME InOrder(delivered'), \A d \in DOMAIN delivered' : delivered'[d].msg <= hdr'
      PROVE  DeliveredInv'
  <2>1. DeliveredInOrder'
    BY <1>5, Zenon DEF DeliveredInOrder, InOrder
  <2>2. Stream' = <<>> /\ link' = "closed" /\ reading' = "header"
    BY <1>1
  <2>3. QED BY <1>5, <2>1, <2>2 DEF DeliveredInv
<1>6. CASE reading # "header" /\ hdr' = hdr
  <2>1. /\ delivered \in Seq(Delivery) /\ InOrder(delivered) /\ hdr \in Messages
        /\ \A d \in DOMAIN delivered : delivered[d].whole
        /\ \A d \in DOMAIN delivered : delivered[d].msg \in Nat /\ delivered[d].msg <= hdr
        /\ \A d \in DOMAIN delivered : delivered[d].msg < hdr
    <3>1. hdr \in Messages
      BY <1>6 DEF IndInv, SourceInv, TypeOK, SourceTypeOK
    <3>2. QED BY <1>6, <3>1, DeliveredBefore, Zenon
  <2>2. CASE delivered' = delivered
    <3>1. InOrder(delivered') /\ \A d \in DOMAIN delivered' : delivered'[d].msg <= hdr'
      BY <1>6, <2>1, <2>2
    <3>2. QED BY <1>2, <1>3, <1>5, <3>1 DEF IndInv
  <2>3. CASE delivered' = Append(delivered, [msg |-> hdr, whole |-> FALSE])
    <3> DEFINE e == [msg |-> hdr, whole |-> FALSE]
    <3>1. e \in Delivery /\ e.msg = hdr
      BY <2>1 DEF Delivery
    <3> HIDE DEF e
    <3>2. InOrder(delivered') /\ \A d \in DOMAIN delivered' : delivered'[d].msg <= hdr
      BY <2>1, <2>3, <3>1, DeliverOne, Zenon DEF e
    <3>3. \A d \in DOMAIN delivered' : delivered'[d].msg <= hdr'
      BY <1>6, <3>2
    <3>4. QED BY <1>2, <1>3, <1>5, <3>2, <3>3 DEF IndInv
  <2>4. QED BY <2>2, <2>3
<1>7. CASE reading = "header" /\ wire # <<>> /\ hdr' = Head(wire).msg /\ delivered' = delivered
  <2>1. Stream # <<>> /\ Stream[1] = Head(wire) /\ Rest = 0
    <3>1. wire \o todo # <<>> /\ (wire \o todo)[1] = Head(wire) /\ wire[1] = Head(wire)
      BY <1>4, <1>7
    <3>2. QED BY <1>7, <3>1 DEF Stream, Rest
  <2>2. Fits(Stream, hdr, 0)
    BY <2>1 DEF IndInv, SourceInv
  <2>3. hdr' \in Messages /\ hdr < hdr'
    BY <1>4, <1>7, <2>1, <2>2, FitsHeader, Zenon
  <2>4. /\ InOrder(delivered) /\ \A d \in DOMAIN delivered : delivered[d].whole
        /\ \A d \in DOMAIN delivered : delivered[d].msg \in Nat /\ delivered[d].msg <= hdr
    BY <2>1, DeliveredBefore, Zenon
  <2>5. \A d \in DOMAIN delivered : delivered[d].msg <= hdr'
    BY <1>4, <2>3, <2>4, ScriptFacts
  <2>6. DeliveredInv'
    BY <1>7, <2>4, <2>5, Zenon DEF DeliveredInv, DeliveredInOrder, InOrder
  <2>7. QED BY <1>2, <1>3, <2>6 DEF IndInv
<1>8. QED BY <1>6, <1>7

-----------------------------------------------------------------------------
(* Every step keeps the invariant.                                         *)

(* The wire has the first units of the stream. *)
LEMMA WireIsPrefix ==
    ASSUME IndInv, link = "open"
    PROVE  \A k \in 0 .. Len(wire) :
               k \in 0 .. Len(Stream) /\ SubSeq(wire, 1, k) = SubSeq(Stream, 1, k)
<1>1. wire \in Seq(Units) /\ todo \in Seq(Units) /\ Stream = wire \o todo
  BY StreamType DEF Stream
<1>2. SUFFICES ASSUME NEW k \in 0 .. Len(wire)
               PROVE  k \in 0 .. Len(wire \o todo) /\ SubSeq(wire, 1, k) = SubSeq(wire \o todo, 1, k)
  BY <1>1
<1>3. k \in 0 .. Len(wire \o todo)
  BY <1>1
<1>4. SubSeq(wire, 1, k) = SubSeq(wire \o todo, 1, k)
  BY <1>1, <1>3
<1>5. QED BY <1>3, <1>4

(* The link is lost, and with it the end of what was on the wire. *)
LEMMA LinkBreaks ==
    ASSUME IndInv, TypeOK', todo' # <<>> => next' \in Messages, link = "open",
           UNCHANGED <<reading, hdr, delivered, m_receive_fd>>, link' = "closed",
           NEW k \in 0 .. Len(wire), wire' = SubSeq(wire, 1, k)
    PROVE  IndInv'
<1>1. k \in 0 .. Len(Stream) /\ wire' = SubSeq(Stream, 1, k)
  BY WireIsPrefix
<1>2. QED BY <1>1, LinkLost

(* The same, when the wire stays as it is. *)
LEMMA LinkCloses ==
    ASSUME IndInv, TypeOK', todo' # <<>> => next' \in Messages, link = "open",
           UNCHANGED <<reading, hdr, delivered, m_receive_fd, wire>>, link' = "closed"
    PROVE  IndInv'
<1>1. wire \in Seq(Units)
  BY StreamType
<1>2. Len(wire) \in 0 .. Len(wire) /\ SubSeq(wire, 1, Len(wire)) = wire
  BY <1>1
<1>3. QED BY <1>2, LinkBreaks

(* A unit that is sent moves from the client to the wire. *)
LEMMA HeadTailMoves ==
    ASSUME NEW s \in Seq(Units), NEW t \in Seq(Units), t # <<>>
    PROVE  Append(s, Head(t)) \o Tail(t) = s \o t
<1>1. t = <<Head(t)>> \o Tail(t) /\ Append(s, Head(t)) = s \o <<Head(t)>>
  OBVIOUS
<1>2. <<Head(t)>> \in Seq(Units) /\ Tail(t) \in Seq(Units)
  OBVIOUS
<1>3. (s \o <<Head(t)>>) \o Tail(t) = s \o (<<Head(t)>> \o Tail(t))
  BY <1>2, ConcatAssociative
<1>4. QED BY <1>1, <1>3, Zenon

(***************************************************************************)
(* The unit that leaves nothing behind is the last one: the client moves   *)
(* on to its next message exactly when there is nothing left to send.      *)
(***************************************************************************)
LEMMA LastUnit ==
    ASSUME NEW t \in Seq(Units), t # <<>>
    PROVE  Len(t) = 1 <=> Tail(t) = <<>>
<1>1. /\ Tail(t) \in Seq(Units) /\ Len(Tail(t)) = Len(t) - 1
      /\ Len(t) \in Nat
  BY HeadTailProperties, LenProperties
<1>2. Tail(t) = <<>> => Len(Tail(t)) = 0
  BY EmptySeq
<1>3. Tail(t) # <<>> => Len(Tail(t)) \in Nat \ {0}
  BY <1>1, EmptySeq
<1>4. QED BY <1>1, <1>2, <1>3

(* Every step of the client keeps the invariant. *)
LEMMA ClientKeeps ==
    ASSUME IndInv, ClientStep
    PROVE  IndInv'
<1>1. TypeOK' /\ (todo' # <<>> => next' \in Messages)
  BY TypeStep DEF Next
<1>2. /\ UNCHANGED <<reading, hdr, delivered, m_receive_fd>>
      /\ link = "none" => m_receive_fd = -1
      /\ link = "open" => TCP_FLAG = 1 /\ sd = "first" /\ sender = "up"
      /\ wire \in Seq(Units) /\ todo \in Seq(Units) /\ link \in {"none", "open", "closed"}
  BY DEF ClientStep, sourceVars, IndInv, SenderInv, TypeOK, LinkTypeOK, SenderTypeOK
<1>3. CASE Connect
  <2>1. /\ link # "open" /\ TCP_FLAG' = 1 /\ todo' = UnitsOf(next) /\ next \in Messages
        /\ todo = <<>> /\ sender = "up" /\ UNCHANGED <<wire, next, sender>>
        /\ link = "none" => link' = "open" /\ sd' = "first"
        /\ link = "closed" => link' = link
    BY <1>2, <1>3 DEF Connect, Calling
  <2>2. CASE link = "none"
    BY <1>1, <1>2, <2>1, <2>2, MessageBegins
  <2>3. CASE link = "closed"
    BY <1>1, <1>2, <2>1, <2>3, LinkAbsent
  <2>4. QED BY <1>2, <2>1, <2>2, <2>3
<1>4. CASE ConnectRefused \/ WaitForRetry
  <2>1. link # "open" /\ UNCHANGED <<wire, link>>
    BY <1>2, <1>4 DEF ConnectRefused, WaitForRetry, linkVars
  <2>2. QED BY <1>1, <1>2, <2>1, LinkAbsent
<1>5. CASE StartMessage
  <2>1. /\ TCP_FLAG = 1 /\ todo' = UnitsOf(next) /\ next \in Messages /\ todo = <<>>
        /\ sender = "up" /\ UNCHANGED <<wire, link, TCP_FLAG, sd, next, sender>>
    BY <1>5 DEF StartMessage, Calling, linkVars
  <2>2. CASE link = "open"
    BY <1>1, <1>2, <2>1, <2>2, MessageBegins
  <2>3. CASE link # "open"
    BY <1>1, <1>2, <2>1, <2>3, LinkAbsent
  <2>4. QED BY <2>2, <2>3
<1>6. CASE CloseAfterError
  <2>1. link # "open" /\ UNCHANGED wire /\ (link' = link \/ link' = "closed")
    BY <1>2, <1>6 DEF CloseAfterError
  <2>2. QED BY <1>1, <1>2, <2>1, LinkAbsent
<1>7. CASE SendUnit
  <2>1. CASE link = "open"
    <3>1. /\ wire' = Append(wire, Head(todo)) /\ todo' = Tail(todo) /\ todo # <<>>
          /\ next' = IF Len(todo) = 1 THEN next + 1 ELSE next
          /\ UNCHANGED <<TCP_FLAG, sd, sender, link>>
      BY <1>2, <1>7, <2>1 DEF SendUnit
    <3>2. Append(wire, Head(todo)) \o Tail(todo) = wire \o todo
      BY <1>2, <3>1, HeadTailMoves
    <3>3. Len(todo) = 1 <=> Tail(todo) = <<>>
      BY <1>2, <3>1, LastUnit
    <3>4. QED BY <1>1, <1>2, <2>1, <3>1, <3>2, <3>3, StreamStays
  <2>2. CASE link # "open"
    <3>1. UNCHANGED <<wire, link>>
      BY <1>7, <2>2 DEF SendUnit
    <3>2. QED BY <1>1, <1>2, <2>2, <3>1, LinkAbsent
  <2>3. QED BY <2>1, <2>2
<1>8. CASE SendFails \/ SendKills
  <2>1. link = "closed" /\ UNCHANGED <<wire, link>>
    BY <1>8 DEF SendFails, SendKills, linkVars
  <2>2. QED BY <1>1, <1>2, <2>1, LinkAbsent
<1>9. CASE SenderExits \/ SenderDies
  <2>1. /\ UNCHANGED wire
        /\ link' = IF sd = "first" THEN "closed" ELSE link
    BY <1>9 DEF SenderExits, SenderDies
  <2>2. CASE link = "open"
    BY <1>1, <1>2, <2>1, <2>2, LinkCloses
  <2>3. CASE link # "open"
    BY <1>1, <1>2, <2>1, <2>3, LinkAbsent
  <2>4. QED BY <2>2, <2>3
<1>10. QED BY <1>3, <1>4, <1>5, <1>6, <1>7, <1>8, <1>9 DEF ClientStep, TcpEventSnd

(* Every step of the source keeps the invariant. *)
LEMMA SourceKeeps ==
    ASSUME IndInv, SourceStep
    PROVE  IndInv'
<1>1. TypeOK' /\ (todo' # <<>> => next' \in Messages) /\ UNCHANGED senderVars
  BY TypeStep DEF Next, SourceStep
<1>2. /\ UNCHANGED <<todo, next, TCP_FLAG, sd, sender>>
      /\ link = "none" => m_receive_fd = -1
      /\ wire \in Seq(Units) /\ link \in {"none", "open", "closed"}
      /\ m_receive_fd \in {-1, 1} /\ hdr \in Messages \cup {0}
  BY <1>1 DEF senderVars, IndInv, SenderInv, TypeOK, LinkTypeOK, SourceTypeOK
<1>3. CASE Listen \/ Accept
  <2>1. /\ UNCHANGED <<reading, hdr, delivered, link, wire>>
        /\ m_receive_fd' = -1 => m_receive_fd = -1
        /\ link = "none" => m_receive_fd' = -1
    BY <1>2, <1>3 DEF Listen, Accept, linkVars
  <2>2. CASE link = "open"
    BY <1>1, <1>2, <2>1, <2>2, StreamStays
  <2>3. CASE link # "open"
    BY <1>1, <1>2, <2>1, <2>3, LinkAbsent
  <2>4. QED BY <2>2, <2>3
<1>4. CASE HeaderReadFails
  <2>1. link = "closed" /\ UNCHANGED <<reading, hdr, delivered, m_receive_fd, link, wire>>
    BY <1>4 DEF HeaderReadFails, ReadFails, linkVars
  <2>2. QED BY <1>1, <2>1, LinkAbsent
<1>5. CASE ReadHeaderOnly
  BY <1>1, <1>5, HeaderTaken DEF ReadHeaderOnly, InGetEvent, Deliver
<1>6. CASE ReadHeader
  BY <1>1, <1>6, HeaderTaken DEF ReadHeader, InGetEvent
<1>7. CASE ReadHeaderTooLong
  BY <1>1, <1>7, StreamGone DEF ReadHeaderTooLong, InGetEvent
<1>8. CASE WordsReadFails
  <2>1. /\ link' = "closed" /\ Len(wire) < 1 /\ wire' = wire /\ reading' = "header"
        /\ reading # "header" /\ m_receive_fd # -1 /\ UNCHANGED <<hdr, delivered, m_receive_fd>>
    BY <1>8 DEF WordsReadFails, InGetEvent, ReadFails, linkVars
  <2>2. wire' = <<>>
    BY <1>2, <2>1
  <2>3. QED BY <1>1, <2>1, <2>2, StreamGone
<1>9. CASE PayloadReadFails
  BY <1>1, <1>9, StreamGone DEF PayloadReadFails, InGetEvent, ReadFails, Deliver
<1>10. CASE ReadEndOfRun \/ ReadWords
  <2>1. /\ m_receive_fd # -1 /\ reading = "words" /\ wire # <<>> /\ wire' = Tail(wire)
        /\ UNCHANGED <<link, hdr, m_receive_fd, delivered>>
        /\ reading' = IF HasPayload(hdr) THEN "payload" ELSE "header"
    BY <1>10 DEF ReadEndOfRun, ReadWords, InGetEvent, HasPayload
  <2>2. hdr \in Messages /\ HasWords(hdr)
    BY <2>1 DEF IndInv, SourceInv
  <2>3. 1 <= Rest /\ Rest' = Rest - 1
    BY <2>1, <2>2, SizeFacts DEF Rest
  <2>4. 1 <= Len(wire) /\ wire' = SubSeq(wire, 1 + 1, Len(wire)) /\ 1 \in Nat \ {0}
    BY <1>2, <2>1
  <2>5. QED BY <1>1, <2>1, <2>2, <2>3, <2>4, RestRead
<1>11. CASE ReadPayload
  <2>1. /\ m_receive_fd # -1 /\ reading = "payload" /\ Len(wire) >= PayloadUnits
        /\ wire' = SubSeq(wire, PayloadUnits + 1, Len(wire))
        /\ UNCHANGED <<link, hdr, m_receive_fd>> /\ reading' = "header"
        /\ \/ delivered' = delivered
           \/ delivered' = Append(delivered, [msg |-> hdr, whole |-> TRUE])
    BY <1>11 DEF ReadPayload, InGetEvent, Deliver
  <2>2. hdr \in Messages /\ HasPayload(hdr)
    BY <2>1 DEF IndInv, SourceInv
  <2>3. Rest = PayloadUnits /\ Rest' = 0 /\ PayloadUnits \in Nat \ {0}
    BY <2>1, <2>2, SizeFacts, LinkParamsAssumption DEF Rest
  <2>4. PayloadUnits <= Rest /\ PayloadUnits <= Len(wire) /\ Rest' = Rest - PayloadUnits
    BY <1>2, <2>1, <2>3
  <2>5. QED BY <1>1, <2>1, <2>2, <2>3, <2>4, RestRead
<1>12. CASE SourceExits
  <2>1. /\ UNCHANGED <<reading, hdr, delivered, m_receive_fd>> /\ wire' = <<>>
        /\ link' = IF link = "open" THEN "closed" ELSE link
    BY <1>12 DEF SourceExits, sourceVars
  <2>2. Stream \in Seq(Units)
    BY StreamType
  <2>3. 0 \in 0 .. Len(Stream) /\ wire' = SubSeq(Stream, 1, 0)
    BY <2>1, <2>2
  <2>4. QED BY <1>1, <1>2, <2>1, <2>3, LinkLost
<1>13. QED
  BY <1>3, <1>4, <1>5, <1>6, <1>7, <1>8, <1>9, <1>10, <1>11, <1>12 DEF SourceStep, GetEvent

(* The invariant holds at the start, and every step keeps it.              *)
THEOREM StreamInvariant == Spec => []IndInv
<1>1. Init => IndInv
  <2>1. SUFFICES ASSUME Init PROVE IndInv
    OBVIOUS
  <2>2. /\ link = "none" /\ wire = <<>> /\ todo = <<>> /\ m_receive_fd = -1
        /\ reading = "header" /\ hdr = 0 /\ delivered = <<>>
    BY <2>1 DEF Init, LinkInit, SenderInit, SourceInit
  <2>3. SenderInv
    BY <2>2 DEF SenderInv
  <2>4. Stream = <<>> /\ DOMAIN Stream = {}
    BY <2>2 DEF Stream
  <2>5. Fits(Stream, hdr, Rest)
    BY <2>4 DEF Fits, Framed, BeginsWithRest, Ordered, Follows
  <2>6. SourceInv
    BY <2>2, <2>5 DEF SourceInv
  <2>7. DeliveredInv
    BY <2>2 DEF DeliveredInv, DeliveredInOrder
  <2>8. QED BY <2>1, <2>3, <2>6, <2>7, InitType DEF IndInv
<1>2. IndInv /\ [Next]_vars => IndInv'
  <2>1. SUFFICES ASSUME IndInv, [Next]_vars PROVE IndInv'
    OBVIOUS
  <2>2. CASE ClientStep
    BY <2>1, <2>2, ClientKeeps
  <2>3. CASE SourceStep
    BY <2>1, <2>3, SourceKeeps
  <2>4. CASE NetworkCut /\ UNCHANGED <<senderVars, sourceVars>>
    <3>1. TypeOK' /\ (todo' # <<>> => next' \in Messages)
      BY <2>1, TypeStep
    <3>2. /\ link = "open" /\ link' = "closed" /\ \E k \in 0 .. Len(wire) : wire' = SubSeq(wire, 1, k)
          /\ UNCHANGED <<reading, hdr, delivered, m_receive_fd>>
      BY <2>4 DEF NetworkCut, sourceVars
    <3>3. QED BY <2>1, <3>1, <3>2, LinkBreaks
  <2>5. CASE UNCHANGED vars
    <3>1. /\ UNCHANGED <<listening, link, wire, cuts, TCP_FLAG, sd, next, todo, sender>>
          /\ UNCHANGED <<listener, m_receive_fd, reading, hdr, m_end_of_runs_count, status, delivered>>
      BY <2>5 DEF vars, linkVars, senderVars, sourceVars
    <3>2. Stream' = Stream /\ Rest' = Rest
      BY <3>1 DEF Stream, Rest
    <3>3. TypeOK'
      BY <2>1, TypeStep
    <3>4. QED BY <2>1, <3>1, <3>2, <3>3
              DEF IndInv, SenderInv, SourceInv, DeliveredInv, DeliveredInOrder
  <2>6. QED BY <2>1, <2>2, <2>3, <2>4, <2>5 DEF Next, Done
<1>3. QED BY <1>1, <1>2, PTL DEF Spec

(* GetEvent keeps its place in the stream, and JANA is given whole events, *)
(* once and in order, but for the last.                                    *)
THEOREM KeepsItsPlace == Spec => []StreamInStep
<1>1. IndInv => StreamInStep
  <2>1. SUFFICES ASSUME IndInv PROVE FramesInStep /\ DeliveredInOrder
    BY DEF StreamInStep
  <2>2. SUFFICES ASSUME wire # <<>>
                 PROVE  IF reading = "header" THEN Head(wire).part = "header"
                        ELSE Head(wire) = [msg |-> hdr, part |-> reading]
    BY <2>1 DEF FramesInStep, IndInv, DeliveredInv
  <2>3. /\ wire \in Seq(Units) /\ todo \in Seq(Units) /\ Stream \in Seq(Units) /\ Rest \in Nat
        /\ reading \in {"header", "words", "payload"}
    BY <2>1, StreamType DEF IndInv, TypeOK, SourceTypeOK
  <2>4. Stream[1] = Head(wire) /\ 1 \in DOMAIN Stream
    <3>1. (wire \o todo)[1] = Head(wire) /\ 1 \in DOMAIN (wire \o todo)
      BY <2>2, <2>3
    <3>2. wire[1] = Head(wire) /\ 1 \in DOMAIN wire
      BY <2>2, <2>3
    <3>3. QED BY <3>1, <3>2, Zenon DEF Stream
  <2>5. /\ 1 <= Rest => Stream[1] = UnitAt(hdr, 1 + Size(hdr) - Rest)
        /\ 1 = Rest + 1 => IsHeader(Stream[1])
    BY <2>1, <2>4, Zenon DEF IndInv, SourceInv, Fits, BeginsWithRest
  <2>6. CASE reading = "header"
    BY <2>4, <2>5, <2>6 DEF Rest, IsHeader
  <2>7. CASE reading = "words"
    <3>1. hdr \in Messages /\ HasWords(hdr)
      BY <2>1, <2>7 DEF IndInv, SourceInv
    <3>2. 1 <= Rest /\ 1 + Size(hdr) - Rest = 2
      BY <2>7, <3>1, SizeFacts DEF Rest
    <3>3. QED BY <2>4, <2>5, <2>7, <3>2 DEF UnitAt, PartAt
  <2>8. CASE reading = "payload"
    <3>1. hdr \in Messages /\ HasPayload(hdr)
      BY <2>1, <2>8 DEF IndInv, SourceInv
    <3>2. 1 <= Rest /\ 1 + Size(hdr) - Rest = 3
      BY <2>8, <3>1, SizeFacts, LinkParamsAssumption DEF Rest
    <3>3. QED BY <2>4, <2>5, <2>8, <3>2 DEF UnitAt, PartAt
  <2>9. QED BY <2>3, <2>6, <2>7, <2>8
<1>2. QED BY <1>1, StreamInvariant, PTL

-----------------------------------------------------------------------------
(***************************************************************************)
(* A run that ends with kNO_MORE_EVENTS is complete.                       *)
(*                                                                         *)
(* The client has the messages of one run: an end of run, the events, and  *)
(* an end of run.  The source does not tell the two apart, it counts them; *)
(* what makes the second it counts the end of this run is that nothing is  *)
(* lost in the middle: once a connection is made, each message on it       *)
(* follows the one before it in the client's list.                         *)
(***************************************************************************)

(* The units of w skip no message, and none behind message h. *)
Unbroken(w, h) ==
    /\ \A i \in DOMAIN w : i > 1 => w[i].msg <= w[i - 1].msg + 1
    /\ h # 0 /\ w # <<>> => w[1].msg <= h + 1

(* The newest message of w, or the one taken before. *)
Newest(w, h) == IF w = <<>> THEN h ELSE w[Len(w)].msg

(* On an open connection the client goes on where it is. *)
NothingSkipped ==
    /\ Unbroken(Stream, hdr)
    /\ link = "open" => Newest(Stream, hdr) = IF todo = <<>> THEN next - 1 ELSE next

(* Nothing more can be read. *)
Dead == link = "closed" /\ wire = <<>>

Got(m) == \E i \in DOMAIN delivered : delivered[i] = [msg |-> m, whole |-> TRUE]

(* GetEvent is done with message m. *)
Taken(m) == m < hdr \/ (m = hdr /\ reading = "header")

(* e is an end of run that was counted, and every event since was given.   *)
GotSince(e) ==
    /\ Script[e] = "eore" /\ Taken(e)
    /\ \A m \in Messages : Script[m] = "data" /\ e < m /\ Taken(m) => Got(m)

RunInv ==
    /\ NothingSkipped
    /\ m_end_of_runs_count = 1 => Dead \/ \E e \in Messages : GotSince(e)
    /\ RunIsComplete

-----------------------------------------------------------------------------
(* Nothing is skipped: the parts of a stream.                              *)

LEMMA UnbrokenPrefix ==
    ASSUME NEW w \in Seq(Units), NEW h, Unbroken(w, h), NEW n \in 0 .. Len(w)
    PROVE  Unbroken(SubSeq(w, 1, n), h)
<1> DEFINE v == SubSeq(w, 1, n)
<1>1. /\ v \in Seq(Units) /\ Len(v) = n /\ DOMAIN v = 1 .. n /\ DOMAIN w = 1 .. Len(w)
      /\ Len(w) \in Nat /\ \A j \in 1 .. n : v[j] = w[j]
  OBVIOUS
<1> HIDE DEF v
<1>2. ASSUME NEW i \in DOMAIN v, i > 1 PROVE v[i].msg <= v[i - 1].msg + 1
  <2>1. i \in 1 .. n /\ i - 1 \in 1 .. n /\ i \in DOMAIN w
    BY <1>1, <1>2
  <2>2. QED BY <1>1, <1>2, <2>1 DEF Unbroken
<1>3. ASSUME h # 0, v # <<>> PROVE v[1].msg <= h + 1
  <2>1. 1 \in 1 .. n
    BY <1>1, <1>3
  <2>2. w # <<>> /\ v[1] = w[1]
    BY <1>1, <2>1
  <2>3. QED BY <1>3, <2>2 DEF Unbroken
<1>4. QED BY <1>2, <1>3 DEF Unbroken, v

(* The rest of a stream, and its newest message. *)
LEMMA RestOfStream ==
    ASSUME NEW w \in Seq(Units), NEW h, NEW m \in Messages, Unbroken(w, h), NEW n \in Nat,
           n <= Len(w), n >= 1 => w[n].msg = m, n = 0 => h = m
    PROVE  /\ Unbroken(SubSeq(w, n + 1, Len(w)), m)
           /\ Newest(SubSeq(w, n + 1, Len(w)), m) = Newest(w, h)
<1> DEFINE v == SubSeq(w, n + 1, Len(w))
<1>1. /\ v \in Seq(Units) /\ Len(v) = Len(w) - n /\ DOMAIN v = 1 .. Len(w) - n
      /\ DOMAIN w = 1 .. Len(w) /\ Len(w) \in Nat /\ \A j \in 1 .. Len(w) - n : v[j] = w[j + n]
  OBVIOUS
<1> HIDE DEF v
<1>2. ASSUME NEW i \in DOMAIN v, i > 1 PROVE v[i].msg <= v[i - 1].msg + 1
  <2>1. i \in 1 .. Len(w) - n /\ i - 1 \in 1 .. Len(w) - n /\ i + n \in DOMAIN w /\ i + n > 1
    BY <1>1, <1>2
  <2>2. v[i] = w[i + n] /\ v[i - 1] = w[(i + n) - 1]
    <3>1. (i - 1) + n = (i + n) - 1
      BY <1>1, <2>1
    <3>2. v[i - 1] = w[(i - 1) + n]
      BY <1>1, <2>1, Zenon
    <3>3. QED BY <1>1, <2>1, <3>1, <3>2, Zenon
  <2>3. QED BY <2>1, <2>2 DEF Unbroken
<1>3. ASSUME v # <<>> PROVE v[1].msg <= m + 1
  <2>1. 1 \in 1 .. Len(w) - n /\ n + 1 \in DOMAIN w /\ w # <<>>
    BY <1>1, <1>3
  <2>2. v[1] = w[n + 1]
    BY <1>1, <2>1
  <2>3. CASE n = 0
    <3>1. h # 0 /\ h = m
      BY <2>3, ScriptFacts
    <3>2. QED BY <2>1, <2>2, <2>3, <3>1 DEF Unbroken
  <2>4. CASE n >= 1
    <3>1. n + 1 > 1 /\ (n + 1) - 1 = n /\ w[n].msg = m
      BY <2>4
    <3>2. QED BY <2>1, <2>2, <3>1 DEF Unbroken
  <2>5. QED BY <2>3, <2>4
<1>4. Unbroken(v, m)
  BY <1>2, <1>3 DEF Unbroken
<1>5. Newest(v, m) = Newest(w, h)
  <2>1. CASE n = Len(w)
    <3>1. v = <<>>
      BY <1>1, <2>1
    <3>2. CASE n = 0
      <4>1. w = <<>>
        BY <1>1, <2>1, <3>2
      <4>2. QED BY <3>1, <3>2, <4>1 DEF Newest
    <3>3. CASE n >= 1
      <4>1. w # <<>>
        BY <1>1, <2>1, <3>3
      <4>2. QED BY <2>1, <3>1, <3>3, <4>1 DEF Newest
    <3>4. QED BY <3>2, <3>3
  <2>2. CASE n < Len(w)
    <3>1. v # <<>> /\ w # <<>> /\ Len(w) - n \in 1 .. Len(w) - n /\ (Len(w) - n) + n = Len(w)
      BY <1>1, <2>2
    <3>2. v[Len(v)] = w[Len(w)]
      BY <1>1, <3>1
    <3>3. QED BY <3>1, <3>2 DEF Newest
  <2>3. QED BY <1>1, <2>1, <2>2
<1>6. QED BY <1>4, <1>5 DEF v

(* The next message behind the newest one. *)
LEMMA UnbrokenAppend ==
    ASSUME NEW w \in Seq(Units), NEW h \in Nat, NEW q \in Messages, Unbroken(w, h),
           w # <<>> \/ h # 0 => Newest(w, h) = q - 1
    PROVE  Unbroken(w \o UnitsOf(q), h) /\ Newest(w \o UnitsOf(q), h) = q
<1> DEFINE v == w \o UnitsOf(q)
           l == Len(w)
           s == Size(q)
<1>1. l \in Nat /\ s \in Nat \ {0} /\ DOMAIN w = 1 .. l /\ q \in Nat
  BY SizeFacts, ScriptFacts
<1>2. /\ UnitsOf(q) \in Seq(Units) /\ Len(UnitsOf(q)) = s
      /\ \A i \in 1 .. s : UnitsOf(q)[i] = UnitAt(q, i)
  BY UnitsOfFacts
<1>3. /\ v \in Seq(Units) /\ Len(v) = l + s /\ DOMAIN v = 1 .. l + s
      /\ \A i \in 1 .. l + s : v[i] = IF i <= l THEN w[i] ELSE UnitsOf(q)[i - l]
  <2>1. /\ v \in Seq(Units) /\ Len(v) = l + s
        /\ \A i \in 1 .. l + s : v[i] = IF i <= l THEN w[i] ELSE UnitsOf(q)[i - l]
    BY <1>2, ConcatUnits, Zenon
  <2>2. QED BY <2>1
<1> HIDE DEF v, l, s
<1>4. \A i \in 1 .. l + s : i > l => v[i].msg = q
  <2>1. SUFFICES ASSUME NEW i \in 1 .. l + s, i > l PROVE v[i].msg = q
    OBVIOUS
  <2>2. v[i] = UnitAt(q, i - l)
    <3>1. i - l \in 1 .. s /\ ~(i <= l)
      BY <1>1, <2>1
    <3>2. QED BY <1>2, <1>3, <3>1
  <2>3. QED BY <2>2 DEF UnitAt
<1>5. w # <<>> => l >= 1 /\ w[l].msg = q - 1
  <2>1. w # <<>> => l >= 1
    BY <1>1 DEF l
  <2>2. QED BY <2>1 DEF Newest, l
<1>6. ASSUME NEW i \in 1 .. l + s, i > 1 PROVE v[i].msg <= v[i - 1].msg + 1
  <2>1. CASE i <= l
    <3>1. v[i] = w[i] /\ v[i - 1] = w[i - 1] /\ i \in DOMAIN w
      <4>1. i - 1 \in 1 .. l + s /\ i - 1 <= l /\ i \in 1 .. l
        BY <1>1, <1>6, <2>1
      <4>2. QED BY <1>1, <1>3, <2>1, <4>1
    <3>2. w[i].msg <= w[i - 1].msg + 1
      BY <1>6, <3>1, Zenon DEF Unbroken
    <3>3. QED BY <3>1, <3>2, Zenon
  <2>2. CASE i = l + 1
    <3>1. v[i].msg = q /\ v[i - 1] = w[l] /\ w # <<>>
      <4>1. i - 1 = l /\ l \in 1 .. l + s /\ l <= l /\ i > l
        BY <1>1, <1>6, <2>2
      <4>2. w # <<>>
        BY <1>6, <2>2 DEF l
      <4>3. QED BY <1>3, <1>4, <4>1, <4>2
    <3>2. QED BY <1>1, <1>5, <3>1
  <2>3. CASE i > l + 1
    <3>1. i - 1 \in 1 .. l + s /\ i - 1 > l /\ i > l
      BY <1>1, <1>6, <2>3
    <3>2. v[i].msg = q /\ v[i - 1].msg = q
      BY <1>4, <3>1
    <3>3. QED BY <1>1, <3>2
  <2>4. QED BY <1>1, <2>1, <2>2, <2>3
<1>7. ASSUME h # 0 PROVE v[1].msg <= h + 1
  <2>1. CASE w = <<>>
    <3>1. l = 0 /\ h = q - 1
      BY <1>7, <2>1 DEF l, Newest
    <3>2. 1 \in 1 .. l + s /\ 1 > l
      BY <1>1, <3>1
    <3>3. v[1].msg = q
      BY <1>4, <3>2
    <3>4. QED BY <1>1, <3>1, <3>3
  <2>2. CASE w # <<>>
    <3>1. 1 \in 1 .. l + s /\ 1 <= l
      BY <1>1, <1>5, <2>2
    <3>2. v[1] = w[1]
      BY <1>3, <3>1
    <3>3. QED BY <1>7, <2>2, <3>2 DEF Unbroken
  <2>3. QED BY <2>1, <2>2
<1>8. Newest(v, h) = q
  <2>1. l + s \in 1 .. l + s /\ l + s > l
    BY <1>1
  <2>2. v # <<>> /\ v[Len(v)].msg = q
    BY <1>3, <1>4, <2>1
  <2>3. QED BY <2>2 DEF Newest
<1>9. Unbroken(v, h)
  BY <1>3, <1>6, <1>7 DEF Unbroken
<1>10. QED BY <1>8, <1>9 DEF v

-----------------------------------------------------------------------------
(* No step skips a message.                                                *)

(* The end of the stream is lost, or all of it. *)
LEMMA LossSkipsNothing ==
    ASSUME IndInv, NothingSkipped, link' # "open", hdr' = hdr,
           NEW n \in 0 .. Len(Stream), wire' = SubSeq(Stream, 1, n)
    PROVE  NothingSkipped'
<1>1. Stream \in Seq(Units) /\ Stream' = SubSeq(Stream, 1, n)
  BY StreamType DEF Stream
<1>2. Unbroken(Stream', hdr')
  BY <1>1, UnbrokenPrefix DEF NothingSkipped
<1>3. QED BY <1>2 DEF NothingSkipped

LEMMA AbsentSkipsNothing ==
    ASSUME NothingSkipped, link # "open", link' # "open", UNCHANGED <<wire, hdr>>
    PROVE  NothingSkipped'
<1>1. Stream' = Stream
  BY DEF Stream
<1>2. QED BY <1>1 DEF NothingSkipped

LEMMA GoneSkipsNothing ==
    ASSUME link' = "closed", wire' = <<>>
    PROVE  NothingSkipped'
<1>1. Stream' = <<>> /\ DOMAIN Stream' = {}
  BY DEF Stream
<1>2. Unbroken(Stream', hdr')
  BY <1>1 DEF Unbroken
<1>3. QED BY <1>2 DEF NothingSkipped

(* Nothing leaves the stream or enters it. *)
LEMMA StaySkipsNothing ==
    ASSUME IndInv, NothingSkipped, UNCHANGED <<link, hdr>>, link = "open",
           wire' \o todo' = wire \o todo,
           \/ UNCHANGED <<todo, next>>
           \/ todo # <<>> /\ todo' # <<>> /\ next' = next
           \/ todo # <<>> /\ todo' = <<>> /\ next' = next + 1
    PROVE  NothingSkipped'
<1>1. Stream' = Stream /\ next \in Nat
  BY StreamType DEF Stream
<1>2. Newest(Stream, hdr) = IF todo = <<>> THEN next - 1 ELSE next
  BY DEF NothingSkipped
<1>3. (IF todo = <<>> THEN next - 1 ELSE next) = IF todo' = <<>> THEN next' - 1 ELSE next'
  BY <1>1
<1>4. QED BY <1>1, <1>2, <1>3, Zenon DEF NothingSkipped

(* The client begins its next message. *)
LEMMA BeginSkipsNothing ==
    ASSUME IndInv, NothingSkipped, next \in Messages, todo = <<>>, UNCHANGED <<hdr, wire, next>>,
           link # "closed", link' = "open", todo' = UnitsOf(next)
    PROVE  NothingSkipped'
<1>1. Stream \in Seq(Units) /\ hdr \in Nat /\ wire \in Seq(Units) /\ link \in {"none", "open"}
  BY StreamType DEF IndInv, TypeOK, LinkTypeOK
<1>2. Stream = wire
  <2>1. wire \o <<>> = wire
    BY <1>1
  <2>2. QED BY <2>1, Zenon DEF Stream
<1>3. Stream' = Stream \o UnitsOf(next)
  BY <1>2 DEF Stream
<1>4. Stream # <<>> \/ hdr # 0 => Newest(Stream, hdr) = next - 1
  <2>1. CASE link = "open"
    BY <2>1 DEF NothingSkipped
  <2>2. CASE link = "none"
    BY <2>2, <1>2 DEF IndInv, SenderInv, SourceInv
  <2>3. QED BY <1>1, <2>1, <2>2
<1>5. Unbroken(Stream', hdr') /\ Newest(Stream', hdr') = next
  BY <1>1, <1>3, <1>4, UnbrokenAppend DEF NothingSkipped
<1>6. todo' # <<>>
  BY UnitsOfFacts, SizeFacts
<1>7. QED BY <1>5, <1>6 DEF NothingSkipped

(* More of the message whose header was read is read. *)
LEMMA ReadSkipsNothing ==
    ASSUME IndInv, NothingSkipped, UNCHANGED <<senderVars, link, hdr>>,
           reading # "header", NEW n \in Nat \ {0}, n <= Rest, n <= Len(wire),
           wire' = SubSeq(wire, n + 1, Len(wire))
    PROVE  NothingSkipped'
<1>1. /\ Stream \in Seq(Units) /\ Rest \in Nat /\ hdr \in Messages /\ wire \in Seq(Units)
      /\ UNCHANGED <<todo, next>>
  BY StreamType DEF IndInv, TypeOK, SourceTypeOK, SourceInv, senderVars
<1>2. n \in 0 .. Len(Stream) /\ Stream' = SubSeq(Stream, n + 1, Len(Stream))
  BY <1>1, StreamRead
<1>3. Stream[n].msg = hdr
  <2>1. n \in DOMAIN Stream /\ n <= Rest
    BY <1>1, <1>2
  <2>2. Stream[n] = UnitAt(hdr, n + Size(hdr) - Rest)
    BY <2>1, Zenon DEF IndInv, SourceInv, Fits, BeginsWithRest
  <2>3. QED BY <2>2 DEF UnitAt
<1>4. Unbroken(Stream, hdr) /\ n <= Len(Stream) /\ n >= 1
  BY <1>2 DEF NothingSkipped
<1>5. Unbroken(Stream', hdr) /\ Newest(Stream', hdr) = Newest(Stream, hdr)
  BY <1>1, <1>2, <1>3, <1>4, RestOfStream
<1>6. QED BY <1>1, <1>5 DEF NothingSkipped

(* A header is read: it is the one of the next message. *)
LEMMA HeaderSkipsNothing ==
    ASSUME IndInv, NothingSkipped, UNCHANGED <<senderVars, link>>,
           reading = "header", wire # <<>>, wire' = Tail(wire), hdr' = Head(wire).msg
    PROVE  NothingSkipped'
<1>1. Stream \in Seq(Units) /\ wire \in Seq(Units) /\ UNCHANGED <<todo, next>>
  BY StreamType DEF senderVars
<1>2. /\ 1 \in Nat /\ 1 <= Len(wire) /\ wire' = SubSeq(wire, 1 + 1, Len(wire))
      /\ Head(wire) = wire[1] /\ 1 \in 1 .. Len(wire)
  BY <1>1
<1>3. /\ 1 \in 0 .. Len(Stream) /\ Stream' = SubSeq(Stream, 1 + 1, Len(Stream))
      /\ Stream[1] = wire[1]
  BY <1>1, <1>2, StreamRead
<1>4. hdr' = Stream[1].msg /\ hdr' \in Messages /\ 1 <= Len(Stream)
  <2>1. 1 \in 1 .. Len(Stream)
    BY <1>1, <1>3
  <2>2. QED BY <1>1, <1>2, <1>3, <2>1, MessageOf
<1>5. Unbroken(Stream', hdr') /\ Newest(Stream', hdr') = Newest(Stream, hdr)
  <2>1. Unbroken(Stream, hdr)
    BY DEF NothingSkipped
  <2>2. QED BY <1>1, <1>3, <1>4, <2>1, RestOfStream
<1>6. QED BY <1>1, <1>5 DEF NothingSkipped

LEMMA ClientSkipsNothing ==
    ASSUME IndInv, NothingSkipped, ClientStep
    PROVE  NothingSkipped'
<1>1. /\ UNCHANGED hdr
      /\ link = "open" => TCP_FLAG = 1 /\ sd = "first" /\ sender = "up"
      /\ wire \in Seq(Units) /\ todo \in Seq(Units) /\ link \in {"none", "open", "closed"}
  BY DEF ClientStep, sourceVars, IndInv, SenderInv, TypeOK, LinkTypeOK, SenderTypeOK
<1>2. CASE Connect
  <2>1. /\ link # "open" /\ todo' = UnitsOf(next) /\ next \in Messages
        /\ todo = <<>> /\ UNCHANGED <<wire, next>>
        /\ link = "none" => link' = "open"
        /\ link = "closed" => link' = link
    BY <1>1, <1>2 DEF Connect, Calling
  <2>2. CASE link = "none"
    BY <1>1, <2>1, <2>2, BeginSkipsNothing
  <2>3. CASE link = "closed"
    BY <1>1, <2>1, <2>3, AbsentSkipsNothing
  <2>4. QED BY <1>1, <2>1, <2>2, <2>3
<1>3. CASE ConnectRefused \/ WaitForRetry \/ CloseAfterError
  <2>1. link # "open" /\ UNCHANGED wire /\ (link' = link \/ link' = "closed")
    BY <1>1, <1>3 DEF ConnectRefused, WaitForRetry, CloseAfterError, linkVars
  <2>2. QED BY <1>1, <2>1, AbsentSkipsNothing
<1>4. CASE StartMessage
  <2>1. /\ todo' = UnitsOf(next) /\ next \in Messages /\ todo = <<>> /\ UNCHANGED <<wire, link, next>>
    BY <1>4 DEF StartMessage, Calling, linkVars
  <2>2. CASE link = "open"
    BY <1>1, <2>1, <2>2, BeginSkipsNothing
  <2>3. CASE link # "open"
    BY <1>1, <2>1, <2>3, AbsentSkipsNothing
  <2>4. QED BY <2>2, <2>3
<1>5. CASE SendUnit
  <2>1. CASE link = "open"
    <3>1. /\ wire' = Append(wire, Head(todo)) /\ todo' = Tail(todo) /\ todo # <<>>
          /\ next' = IF Len(todo) = 1 THEN next + 1 ELSE next
          /\ UNCHANGED link
      BY <1>1, <1>5, <2>1 DEF SendUnit
    <3>2. Append(wire, Head(todo)) \o Tail(todo) = wire \o todo
      BY <1>1, <3>1, HeadTailMoves
    <3>3. Len(todo) = 1 <=> Tail(todo) = <<>>
      BY <1>1, <3>1, LastUnit
    <3>4. QED BY <1>1, <2>1, <3>1, <3>2, <3>3, StaySkipsNothing
  <2>2. CASE link # "open"
    BY <1>1, <1>5, <2>2, AbsentSkipsNothing DEF SendUnit
  <2>3. QED BY <2>1, <2>2
<1>6. CASE SendFails \/ SendKills
  <2>1. link = "closed" /\ UNCHANGED <<wire, link>>
    BY <1>6 DEF SendFails, SendKills, linkVars
  <2>2. QED BY <1>1, <2>1, AbsentSkipsNothing
<1>7. CASE SenderExits \/ SenderDies
  <2>1. UNCHANGED wire /\ link' = IF sd = "first" THEN "closed" ELSE link
    BY <1>7 DEF SenderExits, SenderDies
  <2>2. CASE link = "open"
    <3>1. link' = "closed" /\ Len(wire) \in 0 .. Len(wire) /\ SubSeq(wire, 1, Len(wire)) = wire
      BY <1>1, <2>1, <2>2
    <3>2. Len(wire) \in 0 .. Len(Stream) /\ wire' = SubSeq(Stream, 1, Len(wire))
      BY <2>1, <2>2, <3>1, WireIsPrefix
    <3>3. QED BY <1>1, <3>1, <3>2, LossSkipsNothing
  <2>3. CASE link # "open"
    BY <1>1, <2>1, <2>3, AbsentSkipsNothing
  <2>4. QED BY <2>2, <2>3
<1>8. QED BY <1>2, <1>3, <1>4, <1>5, <1>6, <1>7 DEF ClientStep, TcpEventSnd

LEMMA SourceSkipsNothing ==
    ASSUME IndInv, NothingSkipped, SourceStep
    PROVE  NothingSkipped'
<1>1. /\ UNCHANGED <<senderVars, todo, next>>
      /\ wire \in Seq(Units) /\ link \in {"none", "open", "closed"}
  BY DEF SourceStep, senderVars, IndInv, TypeOK, LinkTypeOK
<1>2. CASE Listen \/ Accept \/ HeaderReadFails
  <2>1. UNCHANGED <<hdr, link, wire>>
    BY <1>2 DEF Listen, Accept, HeaderReadFails, linkVars
  <2>2. Stream' = Stream
    BY <1>1, <2>1 DEF Stream
  <2>3. QED BY <1>1, <2>1, <2>2 DEF NothingSkipped
<1>3. CASE ReadHeaderOnly \/ ReadHeader
  BY <1>1, <1>3, HeaderSkipsNothing DEF ReadHeaderOnly, ReadHeader, InGetEvent
<1>4. CASE ReadHeaderTooLong
  BY <1>4, GoneSkipsNothing DEF ReadHeaderTooLong
<1>5. CASE WordsReadFails
  <2>1. link' = "closed" /\ Len(wire) < 1 /\ wire' = wire
    BY <1>5 DEF WordsReadFails, InGetEvent, ReadFails, linkVars
  <2>2. wire' = <<>>
    BY <1>1, <2>1
  <2>3. QED BY <2>1, <2>2, GoneSkipsNothing
<1>6. CASE PayloadReadFails
  BY <1>6, GoneSkipsNothing DEF PayloadReadFails, ReadFails
<1>7. CASE ReadEndOfRun \/ ReadWords
  <2>1. reading = "words" /\ wire # <<>> /\ wire' = Tail(wire) /\ UNCHANGED <<link, hdr>>
    BY <1>7 DEF ReadEndOfRun, ReadWords, InGetEvent
  <2>2. hdr \in Messages /\ HasWords(hdr)
    BY <2>1 DEF IndInv, SourceInv
  <2>3. 1 <= Rest
    BY <2>1, <2>2, SizeFacts DEF Rest
  <2>4. 1 <= Len(wire) /\ wire' = SubSeq(wire, 1 + 1, Len(wire)) /\ 1 \in Nat \ {0}
    BY <1>1, <2>1
  <2>5. QED BY <1>1, <2>1, <2>3, <2>4, ReadSkipsNothing
<1>8. CASE ReadPayload
  <2>1. /\ reading = "payload" /\ Len(wire) >= PayloadUnits
        /\ wire' = SubSeq(wire, PayloadUnits + 1, Len(wire)) /\ UNCHANGED <<link, hdr>>
    BY <1>8 DEF ReadPayload, InGetEvent
  <2>2. hdr \in Messages /\ HasPayload(hdr)
    BY <2>1 DEF IndInv, SourceInv
  <2>3. PayloadUnits <= Rest /\ PayloadUnits \in Nat \ {0} /\ PayloadUnits <= Len(wire)
    BY <1>1, <2>1, <2>2, SizeFacts, LinkParamsAssumption DEF Rest
  <2>4. QED BY <1>1, <2>1, <2>3, ReadSkipsNothing
<1>9. CASE SourceExits
  <2>1. wire' = <<>> /\ link' # "open" /\ UNCHANGED hdr
    BY <1>9 DEF SourceExits, sourceVars
  <2>2. Stream \in Seq(Units)
    BY StreamType
  <2>3. 0 \in 0 .. Len(Stream) /\ wire' = SubSeq(Stream, 1, 0)
    BY <2>1, <2>2
  <2>4. QED BY <2>1, <2>3, LossSkipsNothing
<1>10. QED
  BY <1>2, <1>3, <1>4, <1>5, <1>6, <1>7, <1>8, <1>9 DEF SourceStep, GetEvent

(* No step skips a message. *)
LEMMA StepSkipsNothing ==
    ASSUME IndInv, NothingSkipped, [Next]_vars
    PROVE  NothingSkipped'
<1>1. CASE NetworkCut /\ UNCHANGED <<senderVars, sourceVars>>
  <2>1. /\ link = "open" /\ link' = "closed" /\ UNCHANGED hdr
        /\ \E k \in 0 .. Len(wire) : wire' = SubSeq(wire, 1, k)
    BY <1>1 DEF NetworkCut, sourceVars
  <2>2. \E k \in 0 .. Len(Stream) : wire' = SubSeq(Stream, 1, k)
    BY <2>1, WireIsPrefix
  <2>3. QED BY <2>1, <2>2, LossSkipsNothing
<1>2. CASE UNCHANGED vars
  <2>1. UNCHANGED <<link, wire, next, todo, hdr>>
    BY <1>2 DEF vars, linkVars, senderVars, sourceVars
  <2>2. Stream' = Stream
    BY <2>1 DEF Stream
  <2>3. QED BY <2>1, <2>2 DEF NothingSkipped
<1>3. QED BY <1>1, <1>2, ClientSkipsNothing, SourceSkipsNothing DEF Next, Done

-----------------------------------------------------------------------------
(* What is counted, taken and given.                                       *)

(* What is given stays given. *)
LEMMA GotStays ==
    ASSUME IndInv, \/ delivered' = delivered
                   \/ \E d : delivered' = Append(delivered, d)
    PROVE  \A m : Got(m) => Got(m)'
<1>1. CASE delivered' = delivered
  BY <1>1 DEF Got
<1>2. ASSUME NEW d, delivered' = Append(delivered, d)
      PROVE  \A m : Got(m) => Got(m)'
  <2>1. delivered \in Seq(Delivery)
    BY Zenon DEF IndInv, TypeOK, SourceTypeOK, Delivery
  <2>2. \A i \in DOMAIN delivered : i \in DOMAIN delivered' /\ delivered'[i] = delivered[i]
    BY <1>2, <2>1
  <2>3. QED BY <2>2, Zenon DEF Got
<1>3. QED BY <1>1, <1>2

(* The last event given. *)
LEMMA GotNow ==
    ASSUME IndInv, NEW m, delivered' = Append(delivered, [msg |-> m, whole |-> TRUE])
    PROVE  Got(m)'
<1>1. delivered \in Seq(Delivery)
  BY Zenon DEF IndInv, TypeOK, SourceTypeOK, Delivery
<1>2. Len(delivered) + 1 \in DOMAIN delivered'
      /\ delivered'[Len(delivered) + 1] = [msg |-> m, whole |-> TRUE]
  BY <1>1
<1>3. QED BY <1>2, Zenon DEF Got

(* Steps that read nothing. *)
LEMMA RunStays ==
    ASSUME RunInv, NothingSkipped', Dead => Dead',
           UNCHANGED <<reading, hdr, delivered, m_end_of_runs_count, status>>
    PROVE  RunInv'
<1>1. \A m : (Got(m)' <=> Got(m)) /\ (Taken(m)' <=> Taken(m))
  BY DEF Got, Taken
<1>2. \A e : GotSince(e) => GotSince(e)'
  BY <1>1, Zenon DEF GotSince
<1>3. RunIsComplete'
  BY DEF RunInv, RunIsComplete
<1>4. m_end_of_runs_count' = 1 => Dead' \/ \E e \in Messages : GotSince(e)'
  BY <1>2 DEF RunInv
<1>5. QED BY <1>3, <1>4, Zenon DEF RunInv

(* Reads that fail: nothing more will be read. *)
LEMMA RunDies ==
    ASSUME NothingSkipped', Dead', status' # "kNO_MORE_EVENTS"
    PROVE  RunInv'
BY DEF RunInv, RunIsComplete

(* Reads that take more of the stream. *)
LEMMA RunGoesOn ==
    ASSUME IndInv, RunInv, NothingSkipped', UNCHANGED m_end_of_runs_count,
           status' # "kNO_MORE_EVENTS", wire # <<>>,
           \/ delivered' = delivered
           \/ \E d : delivered' = Append(delivered, d),
           \A m \in Messages : Taken(m) => Taken(m)',
           hdr # 0 => \A m \in Messages : Script[m] = "data" /\ Taken(m)' => Taken(m) \/ Got(m)'
    PROVE  RunInv'
<1>1. RunIsComplete'
  BY DEF RunIsComplete
<1>2. SUFFICES ASSUME m_end_of_runs_count' = 1
               PROVE  \E e \in Messages : GotSince(e)'
  BY <1>1 DEF RunInv
<1>3. PICK e \in Messages : GotSince(e)
  BY <1>2 DEF RunInv, Dead
<1>4. hdr # 0
  BY <1>3, StreamType, ScriptFacts DEF GotSince, Taken
<1>5. Script[e] = "eore" /\ Taken(e)'
  BY <1>3 DEF GotSince
<1>6. \A m : Got(m) => Got(m)'
  BY GotStays
<1>7. ASSUME NEW m \in Messages, Script[m] = "data", e < m, Taken(m)' PROVE Got(m)'
  BY <1>3, <1>4, <1>6, <1>7 DEF GotSince
<1>8. GotSince(e)'
  BY <1>5, <1>7, Zenon DEF GotSince
<1>9. QED BY <1>8

(* A header is read: it is the next one, and the message before is done. *)
LEMMA HeaderGoesOn ==
    ASSUME IndInv, RunInv, NothingSkipped', UNCHANGED <<m_end_of_runs_count, status>>,
           InGetEvent("header"), wire # <<>>, hdr' = Head(wire).msg,
           Script[hdr'] = "data" => reading' # "header",
           \/ delivered' = delivered
           \/ \E d : delivered' = Append(delivered, d)
    PROVE  RunInv'
<1>1. /\ Stream \in Seq(Units) /\ wire \in Seq(Units) /\ todo \in Seq(Units) /\ hdr \in Nat
      /\ reading = "header" /\ status = "running" /\ Rest = 0
  BY StreamType DEF InGetEvent, Rest
<1>2. Stream # <<>> /\ Stream[1] = Head(wire)
  <2>1. wire \o todo # <<>> /\ (wire \o todo)[1] = Head(wire) /\ wire[1] = Head(wire)
    BY <1>1
  <2>2. QED BY <2>1, Zenon DEF Stream
<1>3. hdr' \in Messages /\ hdr < hdr'
  BY <1>1, <1>2, FitsHeader, Zenon DEF IndInv, SourceInv
<1>4. hdr # 0 => hdr' = hdr + 1
  <2>1. hdr # 0 => hdr' <= hdr + 1
    BY <1>2 DEF RunInv, NothingSkipped, Unbroken
  <2>2. QED BY <1>1, <1>3, <2>1, ScriptFacts
<1>5. ASSUME NEW m \in Messages, Taken(m) PROVE Taken(m)'
  <2>1. m < hdr \/ m = hdr
    BY <1>5 DEF Taken
  <2>2. CASE m = hdr
    BY <1>3, <2>2 DEF Taken
  <2>3. CASE m < hdr /\ m # hdr
    BY <1>1, <1>3, <2>3, ScriptFacts DEF Taken
  <2>4. QED BY <2>1, <2>2, <2>3
<1>6. ASSUME hdr # 0, NEW m \in Messages, Script[m] = "data", Taken(m)'
      PROVE  Taken(m)
  <2>1. m < hdr'
    BY <1>6 DEF Taken
  <2>2. m < hdr \/ m = hdr
    BY <1>1, <1>4, <1>6, <2>1, ScriptFacts
  <2>3. QED BY <1>1, <2>2 DEF Taken
<1>7. QED BY <1>1, <1>5, <1>6, RunGoesOn

LEMMA ClientGoesOn ==
    ASSUME IndInv, RunInv, NothingSkipped', ClientStep
    PROVE  RunInv'
<1>1. UNCHANGED <<reading, hdr, delivered, m_end_of_runs_count, status>>
  BY DEF ClientStep, sourceVars
<1>2. Dead => Dead'
  BY DEF Dead, ClientStep, TcpEventSnd, Connect, ConnectRefused, StartMessage, CloseAfterError,
         WaitForRetry, SendUnit, SendFails, SendKills, SenderExits, SenderDies, linkVars
<1>3. QED BY <1>1, <1>2, RunStays

LEMMA SourceGoesOn ==
    ASSUME OneRun, IndInv, RunInv, NothingSkipped', SourceStep
    PROVE  RunInv'
<1>1. /\ wire \in Seq(Units) /\ hdr \in Nat /\ status \in {"running", "kERROR", "kNO_MORE_EVENTS"}
      /\ Len(wire) < 1 => wire = <<>>
      /\ m_end_of_runs_count \in {0, 1}
  BY StreamType DEF IndInv, TypeOK, SourceTypeOK
<1>2. CASE Listen \/ Accept \/ SourceExits
  <2>1. /\ UNCHANGED <<reading, hdr, delivered, m_end_of_runs_count, status>>
        /\ Dead => Dead'
    BY <1>2 DEF Listen, Accept, SourceExits, linkVars, sourceVars, Dead
  <2>2. QED BY <2>1, RunStays
<1>3. CASE HeaderReadFails \/ WordsReadFails
  <2>1. Dead' /\ status' # "kNO_MORE_EVENTS"
    BY <1>1, <1>3 DEF HeaderReadFails, WordsReadFails, ReadFails, InGetEvent, linkVars, Dead
  <2>2. QED BY <2>1, RunDies
<1>4. CASE ReadHeaderTooLong \/ PayloadReadFails
  <2>1. Dead' /\ status' # "kNO_MORE_EVENTS"
    BY <1>1, <1>4 DEF ReadHeaderTooLong, PayloadReadFails, ReadFails, InGetEvent, Dead
  <2>2. QED BY <2>1, RunDies
<1>5. CASE ReadHeaderOnly
  <2>1. /\ UNCHANGED <<m_end_of_runs_count, status>> /\ InGetEvent("header") /\ wire # <<>>
        /\ hdr' = Head(wire).msg /\ ~HasWords(hdr')
        /\ \/ delivered' = delivered
           \/ \E d : delivered' = Append(delivered, d)
    BY <1>5 DEF ReadHeaderOnly, Deliver
  <2>2. Script[hdr'] # "data"
    BY <2>1 DEF HasWords
  <2>3. QED BY <2>1, <2>2, HeaderGoesOn
<1>6. CASE ReadHeader
  BY <1>6, HeaderGoesOn DEF ReadHeader
<1>7. CASE ReadWords
  <2>1. /\ UNCHANGED <<hdr, delivered, m_end_of_runs_count, status>> /\ wire # <<>>
        /\ status = "running" /\ reading = "words"
        /\ reading' = IF HasPayload(hdr) THEN "payload" ELSE "header"
    BY <1>7 DEF ReadWords, InGetEvent
  <2>2. \A m : Taken(m) => Taken(m)'
    BY <2>1 DEF Taken
  <2>3. \A m \in Messages : Script[m] = "data" /\ Taken(m)' => Taken(m)
    BY <2>1 DEF Taken, HasPayload
  <2>4. QED BY <2>1, <2>2, <2>3, RunGoesOn
<1>8. CASE ReadPayload
  <2>1. /\ UNCHANGED <<hdr, m_end_of_runs_count, status>> /\ wire # <<>>
        /\ status = "running" /\ reading = "payload" /\ reading' = "header"
        /\ IF Script[hdr] = "data" THEN delivered' = Append(delivered, [msg |-> hdr, whole |-> TRUE])
                                   ELSE UNCHANGED delivered
    BY <1>1, <1>8, LinkParamsAssumption DEF ReadPayload, InGetEvent, Deliver
  <2>2. \A m : Taken(m) => Taken(m)'
    BY <2>1 DEF Taken
  <2>3. Script[hdr] = "data" => Got(hdr)'
    BY <2>1, GotNow
  <2>4. \A m \in Messages : Script[m] = "data" /\ Taken(m)' => Taken(m) \/ Got(m)'
    BY <2>1, <2>3 DEF Taken
  <2>5. \/ delivered' = delivered
        \/ \E d : delivered' = Append(delivered, d)
    BY <2>1
  <2>6. QED BY <2>1, <2>2, <2>4, <2>5, RunGoesOn
<1>9. CASE ReadEndOfRun
  <2>1. /\ UNCHANGED <<hdr, delivered>> /\ wire # <<>> /\ status = "running"
        /\ reading = "words" /\ reading' = "header" /\ Script[hdr] = "eore" /\ hdr \in Messages
        /\ IF m_end_of_runs_count = 0
           THEN m_end_of_runs_count' = 1 /\ UNCHANGED status
           ELSE status' = "kNO_MORE_EVENTS" /\ UNCHANGED m_end_of_runs_count
    BY <1>9 DEF ReadEndOfRun, InGetEvent, IndInv, SourceInv
  <2>2. \A m : Got(m)' <=> Got(m)
    BY <2>1 DEF Got
  <2>3. \A m : Taken(m)' <=> Taken(m) \/ m = hdr
    BY <2>1 DEF Taken
  <2>4. CASE m_end_of_runs_count = 0
    <3>1. ASSUME NEW m \in Messages, Script[m] = "data", hdr < m, Taken(m)' PROVE FALSE
      BY <1>1, <2>1, <3>1, ScriptFacts DEF Taken
    <3>2. GotSince(hdr)'
      BY <2>1, <2>3, <3>1, Zenon DEF GotSince
    <3>3. RunIsComplete'
      BY <2>1, <2>4 DEF RunIsComplete
    <3>4. QED BY <2>1, <3>2, <3>3, Zenon DEF RunInv
  <2>5. CASE m_end_of_runs_count = 1
    <3>1. PICK e \in Messages : GotSince(e)
      BY <2>1, <2>5 DEF RunInv, Dead
    <3>2. Script[e] = "eore" /\ e < hdr
      BY <2>1, <3>1 DEF GotSince, Taken
    <3>3. ASSUME NEW m \in Messages, Script[m] = "data" PROVE Got(m) /\ m # hdr
      <4>1. PICK first \in Messages, last \in Messages :
                /\ {k \in Messages : Script[k] = "eore"} = {first, last}
                /\ first < m /\ m < last
        BY <3>3 DEF OneRun
      <4>2. e \in {first, last} /\ hdr \in {first, last}
        BY <2>1, <3>2, <4>1
      <4>3. e < m /\ m < hdr
        BY <3>2, <4>1, <4>2, ScriptFacts
      <4>4. Got(m)
        BY <3>1, <3>3, <4>3, Zenon DEF GotSince, Taken
      <4>5. m # hdr
        BY <2>1, <3>3
      <4>6. QED BY <4>4, <4>5
    <3>4. RunIsComplete'
      <4>1. \A m \in Messages : Script[m] = "data" => Got(m)'
        BY <2>2, <3>3
      <4>2. QED BY <4>1, Zenon DEF RunIsComplete, Got
    <3>5. GotSince(e)'
      <4>1. Taken(e)'
        BY <2>3, <3>1 DEF GotSince
      <4>2. \A m \in Messages : Script[m] = "data" /\ e < m /\ Taken(m)' => Got(m)'
        BY <2>2, <3>3
      <4>3. QED BY <3>2, <4>1, <4>2, Zenon DEF GotSince
    <3>6. QED BY <3>4, <3>5, Zenon DEF RunInv
  <2>6. QED BY <1>1, <2>4, <2>5
<1>10. QED
  BY <1>2, <1>3, <1>4, <1>5, <1>6, <1>7, <1>8, <1>9 DEF SourceStep, GetEvent

(* The messages of a run that ends well were all given to JANA.            *)
THEOREM RunCompletes == OneRun /\ Spec => []RunIsComplete
<1>1. Init => RunInv
  <2>1. SUFFICES ASSUME Init PROVE RunInv
    OBVIOUS
  <2>2. /\ link = "none" /\ wire = <<>> /\ hdr = 0 /\ m_end_of_runs_count = 0
        /\ status = "running"
    BY <2>1 DEF Init, LinkInit, SourceInit
  <2>3. Stream = <<>> /\ DOMAIN Stream = {}
    BY <2>2 DEF Stream
  <2>4. NothingSkipped
    BY <2>2, <2>3 DEF NothingSkipped, Unbroken
  <2>5. QED BY <2>2, <2>4 DEF RunInv, RunIsComplete
<1>2. OneRun /\ IndInv /\ RunInv /\ [Next]_vars => RunInv'
  <2>1. SUFFICES ASSUME OneRun, IndInv, RunInv, [Next]_vars PROVE RunInv'
    OBVIOUS
  <2>2. NothingSkipped'
    BY <2>1, StepSkipsNothing DEF RunInv
  <2>3. CASE NetworkCut /\ UNCHANGED <<senderVars, sourceVars>>
    <3>1. Dead => Dead'
      BY <2>3 DEF NetworkCut, Dead
    <3>2. QED BY <2>1, <2>2, <2>3, <3>1, RunStays DEF sourceVars
  <2>4. CASE UNCHANGED vars
    BY <2>1, <2>2, <2>4, RunStays DEF vars, linkVars, sourceVars, Dead
  <2>5. QED BY <2>1, <2>2, <2>3, <2>4, ClientGoesOn, SourceGoesOn DEF Next, Done
<1>3. RunInv => RunIsComplete
  BY DEF RunInv
<1>4. ASSUME OneRun PROVE Spec => []RunIsComplete
  <2>1. IndInv /\ RunInv /\ [Next]_vars => RunInv'
    BY <1>2, <1>4
  <2>2. QED BY <1>1, <1>3, <2>1, StreamInvariant, PTL DEF Spec
<1>5. QED BY <1>4
=============================================================================
