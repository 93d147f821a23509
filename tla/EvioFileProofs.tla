-------------------------- MODULE EvioFileProofs --------------------------
(***************************************************************************)
(* Proofs about the readers of EVIO files: that HDEVIO gives no event twice*)
(* however its map and its modes are used (HdevioModes), and what a cut    *)
(* costs, and that events are given in order and completely, by HDEVIO and *)
(* by the mmap reader (EvioReaders).  Both rest on where the blocks and    *)
(* events of a file begin (EvioFile).                                      *)
(***************************************************************************)
EXTENDS HdevioModes, EvioReaders, ProofFacts

-----------------------------------------------------------------------------
(* Sums of lengths.                                                        *)
Sums(f, n, len) == f = [i \in 0..n |-> IF i = 0 THEN 0 ELSE f[i - 1] + len[i]]

LEMMA SumsExist ==
    ASSUME NEW n \in Nat, NEW len \in [1..n -> Nat]
    PROVE  \E f : Sums(f, n, len)
<1> DEFINE step == [x \in (1..n) \X Nat |-> x[2] + len[x[1]]]
<1>1. step \in [(1..n) \X Nat -> Nat]
  OBVIOUS
<1>2. PICK f : FollowsStep(f, Nat, n, 0, step)
  <2> HIDE DEF step
  <2>1. QED BY <1>1, RecursionExists
<1>3. f \in [0..n -> Nat] /\ f[0] = 0 /\ \A k \in 1..n : f[k] = step[<<k, f[k - 1]>>]
  BY <1>2 DEF FollowsStep
<1>4. ASSUME NEW k \in 1..n PROVE f[k] = f[k - 1] + len[k]
  <2>1. f[k - 1] \in Nat
    BY <1>3
  <2>2. QED BY <1>3, <2>1
<1>5. f = [i \in 0..n |-> f[i]]
  BY <1>3
<1>6. ASSUME NEW i \in 0..n PROVE f[i] = IF i = 0 THEN 0 ELSE f[i - 1] + len[i]
  <2>1. i = 0 \/ i \in 1..n
    OBVIOUS
  <2>2. QED BY <1>3, <1>4, <2>1
<1>7. Sums(f, n, len)
  BY <1>5, <1>6 DEF Sums
<1>8. QED BY <1>7

LEMMA SumsGrow ==
    ASSUME NEW n \in Nat, NEW len \in [1..n -> Nat], NEW f, Sums(f, n, len)
    PROVE  /\ \A i \in 0..n : f[i] \in Nat
           /\ f[0] = 0
           /\ \A i \in 1..n : f[i] = f[i - 1] + len[i]
           /\ \A i \in 0..n : \A j \in i..n : f[i] <= f[j]
<1>1. f[0] = 0 /\ \A i \in 1..n : f[i] = f[i - 1] + len[i]
  BY DEF Sums
<1>2. \A i \in 0..n : f[i] \in Nat
  <2> DEFINE T == {i \in 0..n : f[i] \in Nat}
  <2>1. 0 \in T
    BY <1>1
  <2>2. ASSUME NEW k \in 0..n - 1, k \in T PROVE k + 1 \in T
    <3>1. k + 1 \in 1..n /\ (k + 1) - 1 = k /\ f[k] \in Nat /\ k + 1 \in 0..n
      BY <2>2
    <3>2. f[k + 1] = f[k] + len[k + 1] /\ len[k + 1] \in Nat
      BY <1>1, <3>1
    <3>3. QED BY <3>1, <3>2
  <2> HIDE DEF T
  <2>3. 0..n \subseteq T
    BY <2>1, <2>2, IntervalByInduction
  <2>4. QED BY <2>3 DEF T
<1>3. ASSUME NEW i \in 0..n PROVE \A j \in i..n : f[i] <= f[j]
  <2> DEFINE T == {j \in 0..n : i <= j => f[i] <= f[j]}
  <2>1. 0 \in T
    <3>1. i <= 0 => i = 0
      OBVIOUS
    <3>2. f[0] <= f[0] /\ 0 \in 0..n
      BY <1>1
    <3>3. QED BY <3>1, <3>2
  <2>2. ASSUME NEW k \in 0..n - 1, k \in T PROVE k + 1 \in T
    <3>1. k + 1 \in 1..n /\ (k + 1) - 1 = k /\ k + 1 \in 0..n /\ k \in 0..n
      BY <2>2
    <3>2. f[k + 1] = f[k] + len[k + 1] /\ len[k + 1] \in Nat /\ f[k] \in Nat /\ f[i] \in Nat
      BY <1>1, <1>2, <3>1
    <3>3. i <= k + 1 => f[i] <= f[k + 1]
      <4>1. CASE i = k + 1
        BY <4>1, <1>2, <3>1
      <4>2. CASE i # k + 1
        <5>1. i <= k + 1 => i <= k
          BY <4>2, <3>1
        <5>2. i <= k => f[i] <= f[k]
          BY <2>2
        <5>3. QED BY <5>1, <5>2, <3>2
      <4>3. QED BY <4>1, <4>2
    <3>4. QED BY <3>1, <3>3
  <2> HIDE DEF T
  <2>3. 0..n \subseteq T
    BY <2>1, <2>2, IntervalByInduction
  <2>4. \A j \in i..n : j \in 0..n /\ i <= j
    OBVIOUS
  <2>5. QED BY <2>3, <2>4 DEF T
<1>4. QED BY <1>1, <1>2, <1>3

(* The words of the events of a block.                                     *)
LEMMA EventWordsSums ==
    ASSUME NEW events \in Seq(Nat \ {0})
    PROVE  \E f : Sums(f, Len(events), events) /\ \A i : EventWords(events, i) = f[i]
<1> DEFINE n == Len(events)
           words == CHOOSE f : Sums(f, n, events)
<1>1. n \in Nat /\ events \in [1..n -> Nat]
  OBVIOUS
<1>2. \E f : Sums(f, n, events)
  BY <1>1, SumsExist
<1>3. Sums(words, n, events)
  BY <1>2
<1>4. \A i : EventWords(events, i) = words[i]
  BY DEF EventWords, words, n, Sums
<1> HIDE DEF words
<1>5. QED BY <1>3, <1>4

LEMMA EventWordsGrow ==
    ASSUME NEW events \in Seq(Nat \ {0})
    PROVE  /\ \A i \in 0..Len(events) : EventWords(events, i) \in Nat
           /\ EventWords(events, 0) = 0
           /\ \A i \in 1..Len(events) : EventWords(events, i) = EventWords(events, i - 1) + events[i]
           /\ \A i \in 0..Len(events) : \A j \in i..Len(events) :
                 EventWords(events, i) <= EventWords(events, j)
<1>1. PICK f : Sums(f, Len(events), events) /\ \A i : EventWords(events, i) = f[i]
  BY EventWordsSums
<1>2. Len(events) \in Nat /\ events \in [1..Len(events) -> Nat]
  OBVIOUS
<1>3. /\ \A i \in 0..Len(events) : f[i] \in Nat
      /\ f[0] = 0
      /\ \A i \in 1..Len(events) : f[i] = f[i - 1] + events[i]
      /\ \A i \in 0..Len(events) : \A j \in i..Len(events) : f[i] <= f[j]
  BY <1>1, <1>2, SumsGrow
<1>4. QED BY <1>1, <1>3

LEMMA BlockLenIs ==
    ASSUME NEW events \in Seq(Nat \ {0})
    PROVE  /\ BlockLen(events) \in Nat /\ BlockLen(events) >= HeaderLen
           /\ (BlockLen(events) = HeaderLen) <=> (events = <<>>)
<1>1. Len(events) \in Nat /\ \A i \in 1..Len(events) : events[i] \in Nat \ {0}
  OBVIOUS
<1>2. EventWords(events, Len(events)) \in Nat
  BY <1>1, EventWordsGrow
<1>3. CASE events = <<>>
  <2>1. Len(events) = 0
    BY <1>3
  <2>2. EventWords(events, 0) = 0
    BY EventWordsGrow
  <2>3. BlockLen(events) = HeaderLen + 0
    BY <2>1, <2>2 DEF BlockLen
  <2>4. QED BY <1>3, <2>3 DEF HeaderLen
<1>4. CASE events # <<>>
  <2>1. Len(events) \in 1..Len(events)
    BY <1>1, <1>4
  <2>2. /\ EventWords(events, Len(events)) = EventWords(events, Len(events) - 1) + events[Len(events)]
        /\ EventWords(events, Len(events) - 1) \in Nat /\ events[Len(events)] \in Nat \ {0}
    <3>1. Len(events) - 1 \in 0..Len(events)
      BY <2>1
    <3>2. QED BY <1>1, <2>1, <3>1, EventWordsGrow
  <2>3. EventWords(events, Len(events)) > 0
    BY <2>2
  <2>4. QED BY <1>2, <1>4, <2>3 DEF BlockLen, HeaderLen
<1>5. QED BY <1>3, <1>4

(* The words of the blocks.                                                *)
LEMMA BlockWordsGrow ==
    ASSUME NEW blocks \in Seq(Seq(Nat \ {0}))
    PROVE  /\ \A i \in 0..Len(blocks) : BlockWords(blocks, i) \in Nat
           /\ BlockWords(blocks, 0) = 0
           /\ \A i \in 1..Len(blocks) :
                 BlockWords(blocks, i) = BlockWords(blocks, i - 1) + BlockLen(blocks[i])
           /\ \A i \in 0..Len(blocks) : \A j \in i..Len(blocks) :
                 BlockWords(blocks, i) <= BlockWords(blocks, j)
<1> DEFINE n == Len(blocks)
           len == [i \in 1..n |-> BlockLen(blocks[i])]
           Is(f) == f = [i \in 0..n |-> IF i = 0 THEN 0 ELSE f[i - 1] + BlockLen(blocks[i])]
           words == CHOOSE f : Is(f)
<1>1. n \in Nat /\ \A i \in 1..n : blocks[i] \in Seq(Nat \ {0})
  OBVIOUS
<1>2. len \in [1..n -> Nat]
  BY <1>1, BlockLenIs
<1>3. ASSUME NEW f PROVE Is(f) <=> Sums(f, n, len)
  <2>1. \A i \in 0..n : i # 0 => i \in 1..n
    OBVIOUS
  <2>2. \A i \in 0..n : (IF i = 0 THEN 0 ELSE f[i - 1] + len[i])
                        = (IF i = 0 THEN 0 ELSE f[i - 1] + BlockLen(blocks[i]))
    BY <2>1
  <2> HIDE DEF len, n
  <2>3. QED BY <2>2 DEF Sums
<1> HIDE DEF len
<1>4. \E f : Sums(f, n, len)
  BY <1>1, <1>2, SumsExist
<1>5. \E f : Is(f)
  BY <1>3, <1>4
<1>6. Is(words)
  <2> HIDE DEF Is
  <2>1. QED BY <1>5
<1>7. Sums(words, n, len)
  BY <1>3, <1>6
<1>8. \A i : BlockWords(blocks, i) = words[i]
  BY DEF BlockWords, words, n
<1> HIDE DEF words
<1>9. /\ \A i \in 0..n : words[i] \in Nat
      /\ words[0] = 0
      /\ \A i \in 1..n : words[i] = words[i - 1] + len[i]
      /\ \A i \in 0..n : \A j \in i..n : words[i] <= words[j]
  BY <1>1, <1>2, <1>7, SumsGrow
<1>10. \A i \in 1..n : len[i] = BlockLen(blocks[i])
  BY DEF len
<1>11. QED BY <1>8, <1>9, <1>10

-----------------------------------------------------------------------------
(* The words of the file that the buffer holds.                            *)
Buffered(s) ==
    /\ s \in [ifs : [pos : Nat, failed : BOOLEAN], got : Nat, joined : BOOLEAN,
              fbuff : [from : Nat, next : Nat, end : Nat]]
    /\ s.ifs.pos = s.fbuff.end
    /\ s.fbuff.from <= s.fbuff.next /\ s.fbuff.next <= s.fbuff.end
    /\ s.fbuff.end <= file.size
    /\ s.ifs.failed => s.ifs.pos = file.size

(* It begins with a chunk of the file, and the stream is behind one.       *)
Multiple(pos) == \E q \in Nat : pos = q * fbuff_size
Chunked(s) ==
    /\ Multiple(s.fbuff.from)
    /\ s.fbuff.end <= s.fbuff.from + fbuff_size
    /\ ~s.ifs.failed => Multiple(s.ifs.pos)

(* What was given is in order, and whole.                                  *)
InOrder == \A i, j \in DOMAIN out : i < j => Before(out[i], out[j])
BlocksGiven ==
    /\ out \in Seq(EventIds(file))
    /\ InOrder
    /\ \A i \in DOMAIN out : WholeEvent(file, out[i])

(* The block buffer holds the block behind which the file buffer is, and   *)
(* what was given is what is before the event that is next.                *)
BlockPlace ==
    /\ buff \in [size : Nat, block : 0..Len(file.blocks), event : Nat]
    /\ buff.block # 0 => buff.event \in 1..Len(file.blocks[buff.block]) + 1
    /\ fbuff.next = BlockPos(file, buff.block + 1)
    /\ \A e \in EventIds(file) : e \in Range(out) <=> Before(e, Event(buff))
    /\ \A b \in 1..buff.block : WholeBlock(file, b) /\ ~EndsReading(b)

(* It is as large as the largest block so far.                             *)
GrownTo(size, last) ==
    /\ size \in Nat /\ FirstBuff <= size /\ size <= fbuff_size
    /\ \A b \in 1..last : BlockLen(file.blocks[b]) <= size
    /\ \/ size = FirstBuff
       \/ \E b \in 1..last : BlockLen(file.blocks[b]) = size

AtBlock ==
    /\ Buffered(Stream) /\ Chunked(Stream)
    /\ BlockPlace
    /\ GrownTo(buff.size, buff.block)
BlocksInv ==
    event_type_mask = All /\ rewinds = 0 =>
        /\ BlocksGiven
        /\ ending = "reading" => AtBlock
        /\ ReadLossIsKnown

(* Sparse reading: the events of the map before the place were given.      *)
MapInv ==
    /\ map.is_mapped \in BOOLEAN
    /\ map.is_mapped => map = MapBlocks
    /\ ~map.is_mapped => out = <<>>
    /\ sparse.block \in Nat /\ sparse.event \in Nat
SparseGiven ==
    /\ out \in Seq(EventIds(file))
    /\ InOrder
    /\ \A i \in DOMAIN out : /\ Wanted(out[i])
                             /\ out[i] \in MapBlocks.evio_events
                             /\ Before(out[i], Event(sparse))
    /\ \A e \in MapBlocks.evio_events : Wanted(e) /\ Before(e, Event(sparse)) => e \in Range(out)
SparseInv ==
    event_type_mask # All =>
        /\ MapInv /\ SparseGiven
        /\ ending = "eof" => \A e \in MapBlocks.evio_events : Wanted(e) => e \in Range(out)

HdevioInv == file \in Files /\ rewinds \in Nat /\ BlocksInv /\ SparseInv

-----------------------------------------------------------------------------
(* Places in a file.                                                       *)
LEMMA FileIs ==
    ASSUME NEW f, IsFile(f)
    PROVE  /\ f.blocks \in Seq(Seq(Nat \ {0})) /\ Len(f.blocks) \in Nat
           /\ \A b \in 1..Len(f.blocks) : /\ f.blocks[b] \in Seq(Nat \ {0})
                                          /\ Len(f.blocks[b]) \in Nat
                                          /\ \A i \in 1..Len(f.blocks[b]) : f.blocks[b][i] \in Nat \ {0}
           /\ f.size \in Nat /\ f.size <= FullSize(f.blocks)
<1>1. f.blocks \in Seq(Seq(Nat \ {0})) /\ f.size \in 1..FullSize(f.blocks)
  BY DEF IsFile
<1>2. f.size \in Nat /\ f.size <= FullSize(f.blocks)
  <2>1. FullSize(f.blocks) \in Nat
    BY <1>1, BlockWordsGrow DEF FullSize
  <2> HIDE DEF FullSize
  <2>2. QED BY <1>1, <2>1
<1>3. ASSUME NEW b \in 1..Len(f.blocks)
      PROVE  f.blocks[b] \in Seq(Nat \ {0})
  BY <1>1
<1>4. ASSUME NEW b \in 1..Len(f.blocks), NEW i \in 1..Len(f.blocks[b])
      PROVE  f.blocks[b][i] \in Nat \ {0}
  BY <1>3
<1>5. \A b \in 1..Len(f.blocks) : Len(f.blocks[b]) \in Nat
  BY <1>3
<1>6. Len(f.blocks) \in Nat
  BY <1>1
<1>7. QED BY <1>1, <1>2, <1>3, <1>4, <1>5, <1>6

LEMMA EventIdsAre ==
    ASSUME NEW f, IsFile(f)
    PROVE  \A e : e \in EventIds(f) <=>
                    /\ e = <<e[1], e[2]>>
                    /\ e[1] \in 1..Len(f.blocks) /\ e[2] \in 1..Len(f.blocks[e[1]])
<1>1. DOMAIN f.blocks = 1..Len(f.blocks)
  BY FileIs
<1>2. \A b \in 1..Len(f.blocks) : DOMAIN f.blocks[b] = 1..Len(f.blocks[b])
  BY FileIs
<1>3. QED BY <1>1, <1>2 DEF EventIds

LEMMA EventIdTypes ==
    ASSUME NEW f, IsFile(f), NEW e \in EventIds(f)
    PROVE  /\ e = <<e[1], e[2]>> /\ e[1] \in Nat /\ e[2] \in Nat /\ e[1] >= 1 /\ e[2] >= 1
           /\ e[1] \in 1..Len(f.blocks) /\ e[2] \in 1..Len(f.blocks[e[1]])
           /\ Len(f.blocks[e[1]]) \in Nat
<1>1. e = <<e[1], e[2]>> /\ e[1] \in 1..Len(f.blocks) /\ e[2] \in 1..Len(f.blocks[e[1]])
  BY EventIdsAre
<1>2. Len(f.blocks) \in Nat /\ Len(f.blocks[e[1]]) \in Nat
  BY <1>1, FileIs
<1>3. QED BY <1>1, <1>2

LEMMA BlockPositions ==
    ASSUME NEW f, IsFile(f)
    PROVE  /\ \A b \in 1..Len(f.blocks) + 1 : BlockPos(f, b) \in Nat
           /\ BlockPos(f, 1) = 0
           /\ \A b \in 1..Len(f.blocks) :
                 /\ BlockPos(f, b + 1) = BlockPos(f, b) + BlockLen(f.blocks[b])
                 /\ BlockLen(f.blocks[b]) \in Nat /\ BlockLen(f.blocks[b]) >= HeaderLen
           /\ BlockPos(f, Len(f.blocks) + 1) = FullSize(f.blocks)
<1>1. Len(f.blocks) \in Nat /\ f.blocks \in Seq(Seq(Nat \ {0}))
  BY FileIs
<1>2. /\ \A i \in 0..Len(f.blocks) : BlockWords(f.blocks, i) \in Nat
      /\ BlockWords(f.blocks, 0) = 0
      /\ \A i \in 1..Len(f.blocks) :
            BlockWords(f.blocks, i) = BlockWords(f.blocks, i - 1) + BlockLen(f.blocks[i])
  BY <1>1, BlockWordsGrow
<1>3. \A b \in 1..Len(f.blocks) : BlockLen(f.blocks[b]) \in Nat /\ BlockLen(f.blocks[b]) >= HeaderLen
  BY FileIs, BlockLenIs
<1>4. ASSUME NEW b \in 1..Len(f.blocks) + 1 PROVE BlockPos(f, b) \in Nat
  <2>1. b - 1 \in 0..Len(f.blocks)
    BY <1>1
  <2>2. QED BY <1>2, <2>1 DEF BlockPos
<1>5. BlockPos(f, 1) = 0
  BY <1>2 DEF BlockPos
<1>6. ASSUME NEW b \in 1..Len(f.blocks) PROVE BlockPos(f, b + 1) = BlockPos(f, b) + BlockLen(f.blocks[b])
  <2>1. (b + 1) - 1 = b
    OBVIOUS
  <2>2. QED BY <1>2, <2>1 DEF BlockPos
<1>7. BlockPos(f, Len(f.blocks) + 1) = FullSize(f.blocks)
  <2>1. (Len(f.blocks) + 1) - 1 = Len(f.blocks)
    BY <1>1
  <2>2. QED BY <2>1 DEF BlockPos, FullSize
<1>8. QED BY <1>3, <1>4, <1>5, <1>6, <1>7

LEMMA BlocksApart ==
    ASSUME NEW f, IsFile(f), NEW b \in 1..Len(f.blocks) + 1, NEW c \in 1..Len(f.blocks) + 1, b < c
    PROVE  BlockPos(f, b + 1) <= BlockPos(f, c) /\ BlockPos(f, b) + HeaderLen <= BlockPos(f, c)
<1>1. Len(f.blocks) \in Nat /\ f.blocks \in Seq(Seq(Nat \ {0}))
  BY FileIs
<1>2. b \in 0..Len(f.blocks) /\ c - 1 \in b..Len(f.blocks) /\ b \in 1..Len(f.blocks) /\ (b + 1) - 1 = b
  BY <1>1
<1>3. BlockWords(f.blocks, b) <= BlockWords(f.blocks, c - 1)
  BY <1>1, <1>2, BlockWordsGrow
<1>4. BlockPos(f, b + 1) <= BlockPos(f, c)
  BY <1>2, <1>3 DEF BlockPos
<1>5. /\ BlockPos(f, b + 1) = BlockPos(f, b) + BlockLen(f.blocks[b])
      /\ BlockLen(f.blocks[b]) \in Nat /\ BlockLen(f.blocks[b]) >= HeaderLen
      /\ BlockPos(f, b) \in Nat /\ BlockPos(f, c) \in Nat
  BY <1>2, BlockPositions
<1>6. QED BY <1>4, <1>5 DEF HeaderLen

LEMMA EventPositions ==
    ASSUME NEW f, IsFile(f), NEW e \in EventIds(f)
    PROVE  /\ EventPos(f, e) \in Nat /\ EventLen(f, e) \in Nat /\ EventLen(f, e) >= 1
           /\ BlockPos(f, e[1]) + HeaderLen <= EventPos(f, e)
           /\ EventPos(f, e) + EventLen(f, e) <= BlockPos(f, e[1] + 1)
<1>1. /\ e[1] \in 1..Len(f.blocks) /\ e[2] \in 1..Len(f.blocks[e[1]])
      /\ Len(f.blocks[e[1]]) \in Nat
  BY EventIdTypes
<1> DEFINE events == f.blocks[e[1]]
<1>2. events \in Seq(Nat \ {0}) /\ events[e[2]] \in Nat \ {0}
  BY <1>1, FileIs
<1>3. e[1] \in 1..Len(f.blocks) + 1
  BY <1>1, FileIs
<1>4. /\ BlockPos(f, e[1] + 1) = BlockPos(f, e[1]) + BlockLen(events)
      /\ BlockPos(f, e[1]) \in Nat
  BY <1>1, <1>3, BlockPositions
<1>5. e[2] - 1 \in 0..Len(events) /\ e[2] \in 0..Len(events) /\ Len(events) \in e[2]..Len(events)
      /\ Len(events) \in 0..Len(events)
  BY <1>1
<1> HIDE DEF events
<1>6. /\ EventWords(events, e[2] - 1) \in Nat
      /\ EventWords(events, e[2]) = EventWords(events, e[2] - 1) + events[e[2]]
      /\ EventWords(events, e[2]) <= EventWords(events, Len(events))
      /\ EventWords(events, Len(events)) \in Nat
  <2>1. e[2] \in 1..Len(events)
    BY <1>1 DEF events
  <2>2. QED BY <1>2, <1>5, <2>1, EventWordsGrow
<1>7. EventPos(f, e) = BlockPos(f, e[1]) + HeaderLen + EventWords(events, e[2] - 1)
  BY DEF EventPos, events
<1>8. EventLen(f, e) = events[e[2]]
  BY DEF EventLen, events
<1>9. BlockLen(events) = HeaderLen + EventWords(events, Len(events))
  BY DEF BlockLen
<1>10. HeaderLen \in Nat
  BY DEF HeaderLen
<1>11. EventPos(f, e) \in Nat /\ BlockPos(f, e[1]) + HeaderLen <= EventPos(f, e)
  BY <1>4, <1>6, <1>7, <1>10
<1>12. EventLen(f, e) \in Nat /\ EventLen(f, e) >= 1
  BY <1>2, <1>8
<1>13. EventPos(f, e) + EventLen(f, e) <= BlockPos(f, e[1] + 1)
  <2>1. EventPos(f, e) + EventLen(f, e) = BlockPos(f, e[1]) + HeaderLen + EventWords(events, e[2])
    BY <1>4, <1>6, <1>7, <1>8, <1>10, <1>12
  <2>2. BlockPos(f, e[1] + 1) = BlockPos(f, e[1]) + (HeaderLen + EventWords(events, Len(events)))
    BY <1>4, <1>9
  <2>3. EventWords(events, e[2]) \in Nat
    BY <1>2, <1>5, EventWordsGrow
  <2>4. QED BY <1>4, <1>6, <1>10, <2>1, <2>2, <2>3
<1>14. QED BY <1>11, <1>12, <1>13

LEMMA EventsApart ==
    ASSUME NEW f, IsFile(f), NEW d \in EventIds(f), NEW e \in EventIds(f), Before(d, e)
    PROVE  EventPos(f, d) + EventLen(f, d) <= EventPos(f, e)
<1>1. /\ EventPos(f, d) \in Nat /\ EventLen(f, d) \in Nat /\ EventPos(f, e) \in Nat
      /\ EventPos(f, d) + EventLen(f, d) <= BlockPos(f, d[1] + 1)
      /\ BlockPos(f, e[1]) + HeaderLen <= EventPos(f, e)
  BY EventPositions
<1>2. /\ d[1] \in 1..Len(f.blocks) /\ d[2] \in 1..Len(f.blocks[d[1]])
      /\ e[1] \in 1..Len(f.blocks) /\ e[2] \in 1..Len(f.blocks[e[1]])
      /\ Len(f.blocks[d[1]]) \in Nat /\ Len(f.blocks[e[1]]) \in Nat /\ Len(f.blocks) \in Nat
  BY EventIdTypes, FileIs
<1>3. d[1] + 1 \in 1..Len(f.blocks) + 1 /\ e[1] \in 1..Len(f.blocks) + 1 /\ d[1] \in 1..Len(f.blocks) + 1
  BY <1>2, SMTT(30)
<1>4. BlockPos(f, d[1] + 1) \in Nat /\ BlockPos(f, e[1]) \in Nat
  BY <1>3, BlockPositions
<1>5. CASE d[1] < e[1]
  <2>1. BlockPos(f, d[1] + 1) <= BlockPos(f, e[1])
    BY <1>3, <1>5, BlocksApart
  <2>2. QED BY <1>1, <1>4, <2>1 DEF HeaderLen
<1>6. CASE d[1] = e[1] /\ d[2] < e[2]
  <2> DEFINE events == f.blocks[d[1]]
  <2>1. events \in Seq(Nat \ {0}) /\ events[d[2]] \in Nat \ {0}
    BY <1>2, FileIs
  <2>2. /\ d[2] - 1 \in 0..Len(events) /\ d[2] \in 0..Len(events)
        /\ d[2] \in 1..Len(events) /\ e[2] - 1 \in d[2]..Len(events) /\ e[2] - 1 \in 0..Len(events)
    <3>1. Len(events) = Len(f.blocks[d[1]]) /\ e[2] \in 1..Len(events) /\ Len(events) \in Nat
      BY <1>2, <1>6
    <3> HIDE DEF events
    <3>2. d[2] \in 1..Len(events)
      BY <1>2, <3>1
    <3>3. QED BY <1>6, <3>1, <3>2, SMTT(30)
  <2> HIDE DEF events
  <2>3. /\ EventWords(events, d[2]) = EventWords(events, d[2] - 1) + events[d[2]]
        /\ EventWords(events, d[2]) <= EventWords(events, e[2] - 1)
        /\ EventWords(events, d[2] - 1) \in Nat /\ EventWords(events, d[2]) \in Nat
        /\ EventWords(events, e[2] - 1) \in Nat
    BY <2>1, <2>2, EventWordsGrow
  <2>4. /\ EventPos(f, d) = BlockPos(f, e[1]) + HeaderLen + EventWords(events, d[2] - 1)
        /\ EventPos(f, e) = BlockPos(f, e[1]) + HeaderLen + EventWords(events, e[2] - 1)
    BY <1>6 DEF EventPos, events
  <2>5. EventLen(f, d) = events[d[2]]
    BY DEF EventLen, events
  <2>6. HeaderLen \in Nat
    BY DEF HeaderLen
  <2>7. EventPos(f, d) + EventLen(f, d) = BlockPos(f, e[1]) + HeaderLen + EventWords(events, d[2])
    BY <1>4, <2>1, <2>3, <2>4, <2>5, <2>6, SMTT(30)
  <2>8. QED BY <1>4, <2>3, <2>4, <2>6, <2>7
<1>7. QED BY <1>5, <1>6 DEF Before

(* The order of the events.                                                *)
LEMMA BeforeIsOrder ==
    ASSUME NEW c, NEW d, NEW e,
           c[1] \in Nat, c[2] \in Nat, d[1] \in Nat, d[2] \in Nat, e[1] \in Nat, e[2] \in Nat
    PROVE  /\ Before(c, d) /\ Before(d, e) => Before(c, e)
           /\ Before(c, d) /\ ~Before(e, d) => Before(c, e)
           /\ ~Before(d, c) /\ ~Before(c, d) => c[1] = d[1] /\ c[2] = d[2]
           /\ ~Before(c, c)
BY DEF Before

LEMMA FirstOfEvents ==
    ASSUME NEW f, IsFile(f), NEW T \in SUBSET EventIds(f), T # {}
    PROVE  \E e \in T : \A d \in T : ~Before(d, e)
<1>1. \A e \in T : e[1] \in Nat /\ e[2] \in Nat
  BY EventIdTypes
<1> DEFINE blocks == {e[1] : e \in T}
<1>2. blocks \in SUBSET Nat /\ blocks # {}
  BY <1>1
<1>3. PICK b \in blocks : \A c \in blocks : b <= c
  <2> HIDE DEF blocks
  <2>1. QED BY <1>2, LeastNumber
<1> DEFINE places == {e[2] : e \in {d \in T : d[1] = b}}
<1>4. places \in SUBSET Nat /\ places # {}
  BY <1>1
<1>5. PICK i \in places : \A j \in places : i <= j
  <2> HIDE DEF places
  <2>1. QED BY <1>4, LeastNumber
<1>6. PICK e \in T : e[1] = b /\ e[2] = i
  OBVIOUS
<1>7. ASSUME NEW d \in T PROVE ~Before(d, e)
  <2>1. d[1] \in Nat /\ d[2] \in Nat /\ e[1] \in Nat /\ e[2] \in Nat
    BY <1>1
  <2>2. e[1] <= d[1]
    BY <1>3, <1>6
  <2>3. d[1] = e[1] => e[2] <= d[2]
    BY <1>5, <1>6
  <2>4. QED BY <2>1, <2>2, <2>3 DEF Before
<1>8. QED BY <1>7

-----------------------------------------------------------------------------
(* The map.                                                                *)
LEMMA MappedAre ==
    ASSUME file \in Files
    PROVE  /\ IsFile(file)
           /\ MapBlocks.evio_events \in SUBSET EventIds(file)
           /\ MapBlocks.is_mapped = TRUE
<1>1. QED BY FilesAssumption DEF MapBlocks

(* An event of the map with one behind it is whole.                        *)
LEMMA MappedBeforeIsWhole ==
    ASSUME file \in Files, NEW d \in MapBlocks.evio_events, NEW e \in MapBlocks.evio_events,
           Before(d, e)
    PROVE  WholeEvent(file, d)
<1>1. IsFile(file) /\ d \in EventIds(file) /\ e \in EventIds(file)
  BY MappedAre
<1>2. /\ e[1] \in 1..Len(file.blocks) /\ e[2] \in 1..Len(file.blocks[e[1]]) /\ e = <<e[1], e[2]>>
      /\ d[1] \in 1..Len(file.blocks) /\ d[2] \in 1..Len(file.blocks[d[1]]) /\ d = <<d[1], d[2]>>
      /\ d[1] \in Nat /\ e[1] \in Nat /\ d[2] \in Nat /\ e[2] \in Nat /\ d[2] >= 1
  BY <1>1, EventIdTypes
<1>3. /\ EventPos(file, d) \in Nat /\ EventLen(file, d) \in Nat
      /\ EventPos(file, d) + EventLen(file, d) <= BlockPos(file, d[1] + 1)
      /\ EventPos(file, e) \in Nat
  BY <1>1, EventPositions
<1>4. file.size \in Nat /\ Len(file.blocks) \in Nat
  BY <1>1, FileIs
<1>5. CASE d[1] < e[1]
  <2>1. BlockPos(file, e[1]) + BlockHeaderWords <= file.size
    BY DEF MapBlocks
  <2>2. d[1] \in 1..Len(file.blocks) + 1 /\ e[1] \in 1..Len(file.blocks) + 1
        /\ d[1] + 1 \in 1..Len(file.blocks) + 1
    BY <1>2, <1>4
  <2>3. BlockPos(file, d[1] + 1) <= BlockPos(file, e[1])
    BY <1>1, <1>5, <2>2, BlocksApart
  <2>4. BlockPos(file, d[1] + 1) \in Nat /\ BlockPos(file, e[1]) \in Nat
    BY <1>1, <2>2, BlockPositions
  <2>5. BlockPos(file, e[1]) <= file.size
    BY <2>1, <2>4, <1>4 DEF BlockHeaderWords
  <2>6. QED BY <1>3, <1>4, <2>3, <2>4, <2>5 DEF WholeEvent
<1>6. CASE d[1] = e[1] /\ d[2] < e[2]
  <2>1. EventPos(file, d) + EventLen(file, d) <= EventPos(file, e)
    BY <1>1, EventsApart
  <2>2. e[2] \in 1..e[2] /\ e[2] > 1
    BY <1>2, <1>6
  <2>3. ~(EventPos(file, <<e[1], e[2]>>) + EventHeaderWords > file.size)
    <3>1. IsMapped(file, e)
      BY DEF MapBlocks
    <3>2. QED BY <2>2, <3>1 DEF IsMapped
  <2>4. EventPos(file, e) <= file.size
    <3>1. <<e[1], e[2]>> = e
      BY <1>2
    <3>2. ~(EventPos(file, e) + EventHeaderWords > file.size)
      BY ONLY <2>3, <3>1
    <3>3. QED BY <1>3, <1>4, <3>2 DEF EventHeaderWords
  <2>5. QED BY <1>3, <1>4, <2>1, <2>4 DEF WholeEvent
<1>7. QED BY <1>5, <1>6 DEF Before

(* A whole event with the words of an event header is in the map.          *)
LEMMA WholeAreMapped ==
    ASSUME file \in Files, NEW e \in EventIds(file),
           WholeEvent(file, e), EventLen(file, e) >= EventHeaderWords
    PROVE  e \in MapBlocks.evio_events
<1>1. IsFile(file)
  BY MappedAre
<1>2. /\ e[1] \in 1..Len(file.blocks) /\ e[2] \in 1..Len(file.blocks[e[1]]) /\ e = <<e[1], e[2]>>
      /\ e[1] \in Nat /\ e[2] \in Nat /\ Len(file.blocks[e[1]]) \in Nat
  BY <1>1, EventIdTypes
<1>3. /\ EventPos(file, e) \in Nat /\ EventLen(file, e) \in Nat
      /\ BlockPos(file, e[1]) + HeaderLen <= EventPos(file, e)
  BY <1>1, EventPositions
<1>4. file.size \in Nat /\ Len(file.blocks) \in Nat
  BY <1>1, FileIs
<1>5. EventPos(file, e) + EventHeaderWords <= file.size
  BY <1>3, <1>4 DEF WholeEvent, EventHeaderWords
<1>6. BlockPos(file, e[1]) + BlockHeaderWords <= file.size
  <2>1. e[1] \in 1..Len(file.blocks) + 1
    BY <1>2, <1>4
  <2>2. BlockPos(file, e[1]) \in Nat
    BY <1>1, <2>1, BlockPositions
  <2>3. QED BY <1>3, <1>4, <1>5, <2>2 DEF HeaderLen, EventHeaderWords, BlockHeaderWords
<1>7. ASSUME NEW i \in 1..e[2]
      PROVE  ~(EventPos(file, <<e[1], i>>) + EventHeaderWords > file.size)
  <2> DEFINE d == <<e[1], i>>
  <2>1. d \in EventIds(file)
    <3>1. i \in 1..Len(file.blocks[e[1]])
      BY <1>2
    <3>2. QED BY <1>1, <1>2, <3>1, EventIdsAre
  <2>2. EventPos(file, d) \in Nat /\ EventLen(file, d) \in Nat
    BY <1>1, <2>1, EventPositions
  <2>3. CASE i = e[2]
    <3>1. d = e
      BY <1>2, <2>3
    <3>2. QED BY <1>3, <1>4, <1>5, <3>1 DEF EventHeaderWords
  <2>4. CASE i < e[2]
    <3>1. Before(d, e)
      BY <2>4 DEF Before
    <3> HIDE DEF d
    <3>2. EventPos(file, d) + EventLen(file, d) <= EventPos(file, e)
      BY <1>1, <2>1, <3>1, EventsApart
    <3>3. EventPos(file, d) <= EventPos(file, e)
      BY <2>2, <1>3, <3>2
    <3>4. ~(EventPos(file, d) + EventHeaderWords > file.size)
      BY <1>3, <1>4, <1>5, <2>2, <3>3 DEF EventHeaderWords
    <3>5. QED BY <3>4 DEF d
  <2>5. i = e[2] \/ i < e[2]
    BY <1>2
  <2>6. QED BY <2>3, <2>4, <2>5
<1>8. EventLen(file, e) >= 3
  BY <1>3 DEF EventHeaderWords
<1>9. IsMapped(file, e)
  BY <1>7, <1>8 DEF IsMapped
<1>10. QED BY <1>6, <1>9 DEF MapBlocks

-----------------------------------------------------------------------------
(* Sparse reading.                                                         *)
InOrderOf(seq) == \A i, j \in DOMAIN seq : i < j => Before(seq[i], seq[j])

(* An event behind all that were given is given in order.                  *)
LEMMA AppendInOrder ==
    ASSUME NEW T, NEW seq \in Seq(T), NEW e \in T, InOrderOf(seq),
           \A i \in DOMAIN seq : Before(seq[i], e)
    PROVE  /\ Append(seq, e) \in Seq(T)
           /\ InOrderOf(Append(seq, e))
           /\ \A d : d \in Range(Append(seq, e)) <=> d \in Range(seq) \/ d = e
<1> DEFINE more == Append(seq, e)
<1>1. /\ \A k \in DOMAIN seq : k \in DOMAIN more /\ more[k] = seq[k]
      /\ Len(seq) + 1 \in DOMAIN more /\ more[Len(seq) + 1] = e
      /\ \A k \in DOMAIN more : k \in DOMAIN seq \/ k = Len(seq) + 1
  BY AppendIndex
<1>2. DOMAIN seq = 1..Len(seq) /\ Len(seq) \in Nat
  OBVIOUS
<1>3. more \in Seq(T)
  OBVIOUS
<1> HIDE DEF more
<1>4. InOrderOf(more)
  <2>1. ASSUME NEW i \in DOMAIN more, NEW j \in DOMAIN more, i < j
        PROVE  Before(more[i], more[j])
    <3>1. CASE j \in DOMAIN seq
      <4>1. i \in DOMAIN seq
        <5>1. i # Len(seq) + 1
          BY <1>2, <2>1, <3>1
        <5>2. QED BY <1>1, <5>1
      <4>2. more[i] = seq[i] /\ more[j] = seq[j]
        BY <1>1, <3>1, <4>1
      <4>3. QED BY <2>1, <3>1, <4>1, <4>2 DEF InOrderOf
    <3>2. CASE j = Len(seq) + 1
      <4>1. i \in DOMAIN seq
        <5>1. i # Len(seq) + 1
          BY <1>2, <2>1, <3>2
        <5>2. QED BY <1>1, <5>1
      <4>2. more[i] = seq[i] /\ more[j] = e
        BY <1>1, <3>2, <4>1
      <4>3. QED BY <4>1, <4>2
    <3>3. QED BY <1>1, <3>1, <3>2
  <2>2. QED BY <2>1 DEF InOrderOf
<1>5. \A d : d \in Range(more) <=> d \in Range(seq) \/ d = e
  BY <1>1 DEF Range
<1>6. QED BY <1>3, <1>4, <1>5 DEF more

(* The place to read from, in a map that may have to be made.              *)
LEMMA PlaceOfReading ==
    ASSUME file \in Files, MapInv, SparseGiven
    PROVE  /\ Mapped = MapBlocks
           /\ Place.block \in Nat /\ Place.event \in Nat
           /\ \A i \in DOMAIN out : Before(out[i], Event(Place))
           /\ \A e \in MapBlocks.evio_events : Wanted(e) /\ Before(e, Event(Place)) => e \in Range(out)
<1>1. CASE map.is_mapped
  <2>1. Place = sparse
    BY <1>1 DEF Place
  <2>2. Mapped = MapBlocks
    BY <1>1 DEF Mapped, MapInv
  <2>3. sparse.block \in Nat /\ sparse.event \in Nat
    BY DEF MapInv
  <2> HIDE DEF Place
  <2>4. QED BY <2>1, <2>2, <2>3 DEF SparseGiven
<1>2. CASE ~map.is_mapped
  <2>1. Place = [set |-> TRUE, block |-> 1, event |-> 1]
    BY <1>2 DEF Place, Beginning
  <2>2. Place.block = 1 /\ Place.event = 1 /\ Event(Place) = <<1, 1>>
    BY <2>1 DEF Event
  <2>3. Mapped = MapBlocks
    BY <1>2 DEF Mapped
  <2>4. out = <<>>
    BY <1>2 DEF MapInv
  <2>5. ASSUME NEW e \in MapBlocks.evio_events PROVE ~Before(e, <<1, 1>>)
    <3>1. IsFile(file) /\ e \in EventIds(file)
      BY MappedAre
    <3>2. e[1] \in Nat /\ e[2] \in Nat /\ e[1] >= 1 /\ e[2] >= 1
      BY <3>1, EventIdTypes
    <3>3. QED BY <3>2 DEF Before
  <2> HIDE DEF Place
  <2>6. QED BY <2>2, <2>3, <2>4, <2>5
<1>3. QED BY <1>1, <1>2

LEMMA AheadIs ==
    ASSUME file \in Files, MapInv, SparseGiven
    PROVE  \A e : e \in Ahead <=> /\ e \in MapBlocks.evio_events /\ Wanted(e)
                                  /\ ~Before(e, Event(Place))
<1>1. Mapped = MapBlocks
  BY PlaceOfReading
<1>2. QED BY <1>1 DEF Ahead, Event

LEMMA NextAheadIs ==
    ASSUME file \in Files, MapInv, SparseGiven, Ahead # {}
    PROVE  /\ NextAhead \in MapBlocks.evio_events /\ Wanted(NextAhead)
           /\ NextAhead \in EventIds(file)
           /\ ~Before(NextAhead, Event(Place))
           /\ \A d \in Ahead : ~Before(d, NextAhead)
           /\ \A i \in DOMAIN out : Before(out[i], NextAhead)
           /\ \A e \in MapBlocks.evio_events : Wanted(e) /\ Before(e, NextAhead) => e \in Range(out)
<1>1. \A e : e \in Ahead <=> /\ e \in MapBlocks.evio_events /\ Wanted(e)
                             /\ ~Before(e, Event(Place))
  BY AheadIs
<1>2. IsFile(file) /\ MapBlocks.evio_events \in SUBSET EventIds(file)
  BY MappedAre
<1>3. Ahead \in SUBSET EventIds(file)
  BY <1>1, <1>2
<1>4. \E e \in Ahead : \A d \in Ahead : ~Before(d, e)
  <2> HIDE DEF Ahead
  <2>1. QED BY <1>2, <1>3, FirstOfEvents
<1>5. NextAhead \in Ahead /\ \A d \in Ahead : ~Before(d, NextAhead)
  <2> HIDE DEF Ahead
  <2>1. QED BY <1>4 DEF NextAhead
<1> HIDE DEF NextAhead, Ahead
<1>6. /\ Place.block \in Nat /\ Place.event \in Nat
      /\ \A i \in DOMAIN out : Before(out[i], Event(Place))
      /\ \A e \in MapBlocks.evio_events : Wanted(e) /\ Before(e, Event(Place)) => e \in Range(out)
  BY PlaceOfReading
<1>7. \A e \in EventIds(file) : e[1] \in Nat /\ e[2] \in Nat
  BY <1>2, EventIdTypes
<1>8. NextAhead \in EventIds(file) /\ ~Before(NextAhead, Event(Place))
  BY <1>1, <1>3, <1>5
<1>9. ASSUME NEW i \in DOMAIN out PROVE Before(out[i], NextAhead)
  <2>1. out[i] \in EventIds(file)
    BY DEF SparseGiven
  <2>2. Event(Place)[1] \in Nat /\ Event(Place)[2] \in Nat
    BY <1>6 DEF Event
  <2>3. Before(out[i], Event(Place))
    BY <1>6
  <2>4. QED BY <1>7, <1>8, <2>1, <2>2, <2>3, BeforeIsOrder
<1>10. ASSUME NEW e \in MapBlocks.evio_events, Wanted(e), Before(e, NextAhead) PROVE e \in Range(out)
  <2>1. e \notin Ahead
    BY <1>5, <1>10
  <2>2. Before(e, Event(Place))
    BY <1>1, <1>10, <2>1
  <2>3. QED BY <1>6, <1>10, <2>2
<1>11. QED BY <1>1, <1>5, <1>8, <1>9, <1>10

-----------------------------------------------------------------------------
(* The steps of the sparse reading.                                        *)
LEMMA SameFile ==
    ASSUME UNCHANGED fileVars
    PROVE  /\ file' = file /\ event_type_mask' = event_type_mask
           /\ MapBlocks' = MapBlocks
           /\ \A e : Wanted(e)' <=> Wanted(e)
<1>1. file' = file /\ event_type_mask' = event_type_mask
  BY DEF fileVars
<1>2. MapBlocks' = MapBlocks
  BY <1>1 DEF MapBlocks
<1>3. \A e : Wanted(e)' <=> Wanted(e)
  BY <1>1 DEF Wanted
<1>4. QED BY <1>1, <1>2, <1>3

(* Nothing was given and the map stays, or nothing changed.                *)
LEMMA SparseUnmoved ==
    ASSUME file \in Files, SparseInv, UNCHANGED <<fileVars, map, sparse, out>>,
           ending' = "eof" => ending = "eof"
    PROVE  SparseInv'
<1>1. /\ file' = file /\ event_type_mask' = event_type_mask /\ MapBlocks' = MapBlocks
      /\ \A e : Wanted(e)' <=> Wanted(e)
  BY SameFile
<1>2. map' = map /\ sparse' = sparse /\ out' = out /\ Event(sparse)' = Event(sparse)
  BY DEF Event
<1>3. ASSUME event_type_mask # All PROVE MapInv' /\ SparseGiven'
  <2>1. MapInv /\ SparseGiven
    BY <1>3 DEF SparseInv
  <2>2. MapInv'
    BY <1>1, <1>2, <2>1 DEF MapInv
  <2>3. InOrder'
    BY <1>2, <2>1 DEF SparseGiven, InOrder
  <2>4. SparseGiven'
    BY <1>1, <1>2, <2>1, <2>3 DEF SparseGiven
  <2>5. QED BY <2>2, <2>4
<1>4. ASSUME event_type_mask # All, ending' = "eof", NEW e \in MapBlocks.evio_events, Wanted(e)
      PROVE  e \in Range(out)
  BY <1>4 DEF SparseInv
<1>5. QED BY <1>1, <1>2, <1>3, <1>4 DEF SparseInv

LEMMA SparseEofKeeps ==
    ASSUME file \in Files, SparseInv, SparseEof
    PROVE  SparseInv'
<1>1. /\ event_type_mask # All /\ Ahead = {} /\ out' = out /\ map' = Mapped
      /\ sparse' = PlaceAt(<<Len(file.blocks) + 1, 1>>)
      /\ UNCHANGED fileVars
  BY DEF SparseEof, CanReadSparse
<1>2. MapInv /\ SparseGiven
  BY <1>1 DEF SparseInv
<1>3. /\ file' = file /\ event_type_mask' = event_type_mask /\ MapBlocks' = MapBlocks
      /\ \A e : Wanted(e)' <=> Wanted(e)
  BY <1>1, SameFile
<1>4. /\ IsFile(file) /\ MapBlocks.evio_events \in SUBSET EventIds(file)
      /\ MapBlocks.is_mapped = TRUE /\ Len(file.blocks) \in Nat
  BY MappedAre, FileIs
<1>5. /\ Mapped = MapBlocks
      /\ \A e \in MapBlocks.evio_events : Wanted(e) /\ Before(e, Event(Place)) => e \in Range(out)
  BY <1>2, PlaceOfReading
<1>6. \A e : e \in Ahead <=> /\ e \in MapBlocks.evio_events /\ Wanted(e)
                             /\ ~Before(e, Event(Place))
  BY <1>2, AheadIs
<1> HIDE DEF Ahead, Mapped, Place
<1>7. \A e \in MapBlocks.evio_events : Wanted(e) => e \in Range(out)
  BY <1>1, <1>5, <1>6
<1>8. sparse'.block \in Nat /\ sparse'.event \in Nat
      /\ Event(sparse)' = <<Len(file.blocks) + 1, 1>>
  <2>1. sparse' = [set |-> TRUE, block |-> Len(file.blocks) + 1, event |-> 1]
    BY <1>1 DEF PlaceAt
  <2>2. QED BY <1>4, <2>1 DEF Event
<1>9. ASSUME NEW i \in DOMAIN out PROVE Before(out[i], <<Len(file.blocks) + 1, 1>>)
  <2>1. out[i] \in EventIds(file)
    BY <1>2 DEF SparseGiven
  <2>2. out[i][1] \in 1..Len(file.blocks)
    BY <1>4, <2>1, EventIdTypes
  <2>3. out[i][1] < Len(file.blocks) + 1
    BY <1>4, <2>2
  <2>4. QED BY <2>3 DEF Before
<1>10. MapInv'
  BY <1>1, <1>3, <1>4, <1>5, <1>8 DEF MapInv
<1>11. InOrder'
  BY <1>1, <1>2 DEF SparseGiven, InOrder
<1>12. SparseGiven'
  BY <1>1, <1>2, <1>3, <1>7, <1>8, <1>9, <1>11 DEF SparseGiven
<1>13. QED BY <1>1, <1>3, <1>7, <1>10, <1>12 DEF SparseInv

LEMMA SparseTooSmallKeeps ==
    ASSUME file \in Files, SparseInv, SparseTooSmall
    PROVE  SparseInv'
<1>1. /\ event_type_mask # All /\ Ahead # {} /\ out' = out /\ map' = Mapped
      /\ sparse' = PlaceAt(NextAhead) /\ ending = "reading" /\ ending' = ending
      /\ UNCHANGED fileVars
  BY DEF SparseTooSmall, CanReadSparse
<1>2. MapInv /\ SparseGiven
  BY <1>1 DEF SparseInv
<1>3. /\ file' = file /\ event_type_mask' = event_type_mask /\ MapBlocks' = MapBlocks
      /\ \A e : Wanted(e)' <=> Wanted(e)
  BY <1>1, SameFile
<1>4. IsFile(file) /\ MapBlocks.is_mapped = TRUE
  BY MappedAre
<1>5. Mapped = MapBlocks
  BY <1>2, PlaceOfReading
<1>6. /\ NextAhead \in EventIds(file)
      /\ \A i \in DOMAIN out : Before(out[i], NextAhead)
      /\ \A e \in MapBlocks.evio_events : Wanted(e) /\ Before(e, NextAhead) => e \in Range(out)
  BY <1>1, <1>2, NextAheadIs
<1> HIDE DEF Ahead, NextAhead, Mapped
<1>7. NextAhead = <<NextAhead[1], NextAhead[2]>> /\ NextAhead[1] \in Nat /\ NextAhead[2] \in Nat
  BY <1>4, <1>6, EventIdTypes
<1>8. sparse'.block \in Nat /\ sparse'.event \in Nat /\ Event(sparse)' = NextAhead
  <2>1. sparse' = [set |-> TRUE, block |-> NextAhead[1], event |-> NextAhead[2]]
    BY <1>1 DEF PlaceAt
  <2>2. QED BY <1>7, <2>1 DEF Event
<1>9. MapInv'
  BY <1>1, <1>3, <1>4, <1>5, <1>8 DEF MapInv
<1>10. InOrder'
  BY <1>1, <1>2 DEF SparseGiven, InOrder
<1>11. SparseGiven'
  BY <1>1, <1>2, <1>3, <1>6, <1>8, <1>10 DEF SparseGiven
<1>12. QED BY <1>1, <1>3, <1>9, <1>11 DEF SparseInv

LEMMA SparseEventKeeps ==
    ASSUME file \in Files, SparseInv, SparseEvent
    PROVE  SparseInv'
<1>1. /\ event_type_mask # All /\ Ahead # {} /\ out' = Append(out, NextAhead) /\ map' = Mapped
      /\ sparse' = PlaceBehind(NextAhead) /\ ending = "reading" /\ ending' = ending
      /\ UNCHANGED fileVars
  BY DEF SparseEvent, CanReadSparse
<1>2. MapInv /\ SparseGiven
  BY <1>1 DEF SparseInv
<1>3. /\ file' = file /\ event_type_mask' = event_type_mask /\ MapBlocks' = MapBlocks
      /\ \A e : Wanted(e)' <=> Wanted(e)
  BY <1>1, SameFile
<1>4. IsFile(file) /\ MapBlocks.evio_events \in SUBSET EventIds(file) /\ MapBlocks.is_mapped = TRUE
  BY MappedAre
<1>5. Mapped = MapBlocks
  BY <1>2, PlaceOfReading
<1>6. /\ NextAhead \in EventIds(file) /\ NextAhead \in MapBlocks.evio_events /\ Wanted(NextAhead)
      /\ \A i \in DOMAIN out : Before(out[i], NextAhead)
      /\ \A e \in MapBlocks.evio_events : Wanted(e) /\ Before(e, NextAhead) => e \in Range(out)
  BY <1>1, <1>2, NextAheadIs
<1> HIDE DEF Ahead, NextAhead, Mapped
<1>7. NextAhead = <<NextAhead[1], NextAhead[2]>> /\ NextAhead[1] \in Nat /\ NextAhead[2] \in Nat
  BY <1>4, <1>6, EventIdTypes
<1> DEFINE behind == <<NextAhead[1], NextAhead[2] + 1>>
<1>8. sparse'.block \in Nat /\ sparse'.event \in Nat /\ Event(sparse)' = behind
  <2>1. sparse' = [set |-> TRUE, block |-> NextAhead[1], event |-> NextAhead[2] + 1]
    BY <1>1 DEF PlaceBehind
  <2>2. QED BY <1>7, <2>1 DEF Event
<1>9. MapInv'
  BY <1>1, <1>3, <1>4, <1>5, <1>8 DEF MapInv
<1>10. out \in Seq(EventIds(file)) /\ InOrderOf(out)
  BY <1>2 DEF SparseGiven, InOrder, InOrderOf
<1>11. /\ out' \in Seq(EventIds(file)) /\ InOrderOf(out')
       /\ \A d : d \in Range(out') <=> d \in Range(out) \/ d = NextAhead
  BY <1>1, <1>6, <1>10, AppendInOrder
<1>12. Before(NextAhead, behind)
  BY <1>7 DEF Before
<1>13. \A e \in EventIds(file) : Before(e, behind) => Before(e, NextAhead) \/ e = NextAhead
  <2>1. ASSUME NEW e \in EventIds(file), Before(e, behind) PROVE Before(e, NextAhead) \/ e = NextAhead
    <3>1. e = <<e[1], e[2]>> /\ e[1] \in Nat /\ e[2] \in Nat
      BY <1>4, EventIdTypes
    <3>2. e[1] < NextAhead[1] \/ (e[1] = NextAhead[1] /\ e[2] < NextAhead[2] + 1)
      BY <2>1 DEF Before
    <3>3. e[1] < NextAhead[1] \/ (e[1] = NextAhead[1] /\ e[2] < NextAhead[2])
          \/ (e[1] = NextAhead[1] /\ e[2] = NextAhead[2])
      BY <1>7, <3>1, <3>2
    <3>4. e[1] = NextAhead[1] /\ e[2] = NextAhead[2] => e = NextAhead
      BY <1>7, <3>1
    <3>5. QED BY <3>3, <3>4 DEF Before
  <2>2. QED BY <2>1
<1>14. behind[1] \in Nat /\ behind[2] \in Nat
  BY <1>7
<1> HIDE DEF behind
<1>15. ASSUME NEW d \in Range(out')
       PROVE  Wanted(d)' /\ d \in MapBlocks.evio_events /\ Before(d, behind)
  <2>1. CASE d = NextAhead
    BY <1>3, <1>6, <1>12, <2>1
  <2>2. CASE d \in Range(out)
    <3>1. PICK i \in DOMAIN out : out[i] = d
      BY <2>2 DEF Range
    <3>2. Wanted(d) /\ d \in MapBlocks.evio_events /\ Before(d, NextAhead) /\ d \in EventIds(file)
      BY <1>2, <1>6, <3>1 DEF SparseGiven
    <3>3. d[1] \in Nat /\ d[2] \in Nat
      BY <1>4, <3>2, EventIdTypes
    <3>4. Before(d, behind)
      BY <1>7, <1>12, <1>14, <3>2, <3>3, BeforeIsOrder
    <3>5. QED BY <1>3, <3>2, <3>4
  <2>3. QED BY <1>11, <2>1, <2>2
<1>16. (\A i \in DOMAIN out : /\ Wanted(out[i])
                               /\ out[i] \in MapBlocks.evio_events
                               /\ Before(out[i], Event(sparse)))'
  <2>1. ASSUME NEW i \in DOMAIN out'
        PROVE  /\ event_type(TagOf(out'[i])) \in event_type_mask'
               /\ out'[i] \in MapBlocks'.evio_events
               /\ Before(out'[i], Event(sparse)')
    <3>1. PICK d : d = out'[i] /\ d \in Range(out')
      BY DEF Range
    <3>2. Wanted(d)' /\ d \in MapBlocks.evio_events /\ Before(d, behind)
      BY <1>15, <3>1
    <3>3. event_type(TagOf(d)) \in event_type_mask'
      BY <3>2 DEF Wanted
    <3>4. QED BY <1>3, <1>8, <3>1, <3>2, <3>3
  <2>2. QED BY <2>1 DEF Wanted
<1>17. ASSUME NEW e \in MapBlocks'.evio_events, Wanted(e)', Before(e, Event(sparse)')
       PROVE  e \in Range(out')
  <2>1. e \in MapBlocks.evio_events /\ Wanted(e) /\ Before(e, behind) /\ e \in EventIds(file)
    BY <1>3, <1>4, <1>8, <1>17
  <2>2. Before(e, NextAhead) \/ e = NextAhead
    BY <1>13, <2>1
  <2>3. QED BY <1>6, <1>11, <2>1, <2>2
<1>18. InOrder'
  BY <1>11 DEF InOrder, InOrderOf
<1>19. SparseGiven'
  BY <1>3, <1>11, <1>16, <1>17, <1>18 DEF SparseGiven
<1>20. QED BY <1>1, <1>3, <1>9, <1>19 DEF SparseInv

LEMMA RewindKeepsSparse ==
    ASSUME file \in Files, SparseInv, rewind
    PROVE  SparseInv'
<1>1. /\ sparse' = Beginning /\ out' = <<>> /\ ending' = "reading" /\ map' = map
      /\ UNCHANGED fileVars
  BY DEF rewind
<1>2. /\ file' = file /\ event_type_mask' = event_type_mask /\ MapBlocks' = MapBlocks
      /\ \A e : Wanted(e)' <=> Wanted(e)
  BY <1>1, SameFile
<1>3. /\ sparse'.block \in Nat /\ sparse'.event \in Nat /\ Event(sparse)' = <<1, 1>>
  BY <1>1 DEF Beginning, Event
<1>4. ASSUME NEW e \in MapBlocks.evio_events PROVE ~Before(e, <<1, 1>>)
  <2>1. IsFile(file) /\ e \in EventIds(file)
    BY MappedAre
  <2>2. e[1] \in Nat /\ e[2] \in Nat /\ e[1] >= 1 /\ e[2] >= 1
    BY <2>1, EventIdTypes
  <2>3. QED BY <2>2 DEF Before
<1>5. ASSUME event_type_mask # All PROVE MapInv' /\ SparseGiven'
  <2>1. MapInv
    BY <1>5 DEF SparseInv
  <2>2. MapInv'
    BY <1>1, <1>2, <1>3, <2>1 DEF MapInv
  <2>3. out' \in Seq(EventIds(file)) /\ DOMAIN out' = {}
    BY <1>1
  <2>4. InOrder'
    BY <2>3 DEF InOrder
  <2>5. SparseGiven'
    BY <1>2, <1>3, <1>4, <2>3, <2>4 DEF SparseGiven
  <2>6. QED BY <2>2, <2>5
<1>6. QED BY <1>1, <1>2, <1>5 DEF SparseInv

-----------------------------------------------------------------------------
(* The buffer of the file.                                                 *)
LEMMA SmallerOfTwo ==
    ASSUME NEW a \in Int, NEW b \in Int
    PROVE  Min({a, b}) = IF a <= b THEN a ELSE b
<1> DEFINE m == IF a <= b THEN a ELSE b
<1>1. m \in {a, b} /\ \A y \in {a, b} : m <= y
  OBVIOUS
<1>2. \A x \in {a, b} : (\A y \in {a, b} : x <= y) => x = m
  OBVIOUS
<1> HIDE DEF m
<1>3. Min({a, b}) = m
  BY <1>1, <1>2 DEF Min
<1>4. QED BY <1>3 DEF m

LEMMA LargerOfTwo ==
    ASSUME NEW a \in Int, NEW b \in Int
    PROVE  Max({a, b}) = IF a <= b THEN b ELSE a
<1> DEFINE m == IF a <= b THEN b ELSE a
<1>1. m \in {a, b} /\ \A y \in {a, b} : m >= y
  OBVIOUS
<1>2. \A x \in {a, b} : (\A y \in {a, b} : x >= y) => x = m
  OBVIOUS
<1> HIDE DEF m
<1>3. Max({a, b}) = m
  BY <1>1, <1>2 DEF Max
<1>4. QED BY <1>3 DEF m

(* Words that are in the buffer are taken from it.                         *)
LEMMA ReadFromBuffer ==
    ASSUME NEW s, Buffered(s), NEW n \in Nat, n <= s.fbuff.end - s.fbuff.next
    PROVE  /\ buff_read(s, n) = [ifs |-> s.ifs, got |-> n, joined |-> s.joined,
                                 fbuff |-> [from |-> s.fbuff.from, next |-> s.fbuff.next + n,
                                            end |-> s.fbuff.end]]
<1>1. s \in [ifs : [pos : Nat, failed : BOOLEAN], got : Nat, joined : BOOLEAN,
             fbuff : [from : Nat, next : Nat, end : Nat]]
  BY DEF Buffered
<1>2. buff_read(s, n) = [s EXCEPT !.fbuff.next = @ + n, !.got = n]
  BY DEF buff_read
<1>3. QED BY <1>1, <1>2

(* Otherwise the rest of the buffer and of the next chunk of the file.     *)
LEMMA ReadNextChunk ==
    ASSUME file \in Files, NEW s, Buffered(s), NEW n \in Nat, ~(n <= s.fbuff.end - s.fbuff.next)
    PROVE  \E chunk \in Nat, more \in Nat :
              /\ buff_read(s, n) = [ifs |-> [pos |-> s.ifs.pos + chunk, failed |-> chunk < fbuff_size],
                                    fbuff |-> [from |-> s.ifs.pos, next |-> s.ifs.pos + more,
                                               end |-> s.ifs.pos + chunk],
                                    got |-> (s.fbuff.end - s.fbuff.next) + more,
                                    joined |-> s.joined]
              /\ chunk <= fbuff_size /\ s.ifs.pos + chunk <= file.size
              /\ chunk < fbuff_size => s.ifs.pos + chunk = file.size
              /\ s.ifs.failed => chunk = 0
              /\ more <= chunk /\ more <= n - (s.fbuff.end - s.fbuff.next)
              /\ more < n - (s.fbuff.end - s.fbuff.next) => more = chunk
<1> DEFINE left  == s.fbuff.end - s.fbuff.next
           pos   == s.ifs.pos
           chunk == IF s.ifs.failed THEN 0 ELSE Min({fbuff_size, file.size - pos})
           more  == Min({n - left, chunk})
<1>1. /\ s.ifs.pos \in Nat /\ s.ifs.failed \in BOOLEAN /\ s.fbuff.next \in Nat /\ s.fbuff.end \in Nat
      /\ s.joined \in BOOLEAN /\ s.fbuff.next <= s.fbuff.end
      /\ s.ifs.pos = s.fbuff.end /\ s.fbuff.end <= file.size
      /\ s.ifs.failed => s.ifs.pos = file.size
  BY DEF Buffered
<1>2. file.size \in Nat /\ fbuff_size \in Nat /\ fbuff_size > 0
  BY HdevioModesAssumption, FilesAssumption, FileIs DEF HeaderLen
<1>3. buff_read(s, n) = [ifs    |-> [pos |-> pos + chunk, failed |-> chunk < fbuff_size],
                         fbuff  |-> [from |-> pos, next |-> pos + more, end |-> pos + chunk],
                         got    |-> left + more,
                         joined |-> s.joined \/ (left > 0 /\ pos # s.fbuff.end)]
  BY DEF buff_read
<1>4. (s.joined \/ (left > 0 /\ pos # s.fbuff.end)) = s.joined
  BY <1>1
<1>5. /\ chunk \in Nat /\ chunk <= fbuff_size /\ pos + chunk <= file.size
      /\ chunk < fbuff_size => pos + chunk = file.size
      /\ s.ifs.failed => chunk = 0
  <2>1. CASE s.ifs.failed
    BY <1>1, <1>2, <2>1
  <2>2. CASE ~s.ifs.failed
    <3>1. chunk = Min({fbuff_size, file.size - pos})
      BY <2>2
    <3>2. file.size - pos \in Nat
      BY <1>1, <1>2
    <3>3. Min({fbuff_size, file.size - pos})
          = IF fbuff_size <= file.size - pos THEN fbuff_size ELSE file.size - pos
      BY <1>2, <3>2, SmallerOfTwo
    <3> HIDE DEF chunk
    <3>4. chunk = IF fbuff_size <= file.size - pos THEN fbuff_size ELSE file.size - pos
      BY <3>1, <3>3
    <3>5. QED BY <1>1, <1>2, <2>2, <3>2, <3>4
  <2>3. QED BY <1>1, <2>1, <2>2
<1> HIDE DEF chunk
<1>6. n - left \in Nat /\ left \in Nat
  BY <1>1
<1> HIDE DEF left
<1>7. /\ more \in Nat /\ more <= chunk /\ more <= n - left
      /\ more < n - left => more = chunk
  <2>1. more = IF n - left <= chunk THEN n - left ELSE chunk
    BY <1>5, <1>6, SmallerOfTwo
  <2> HIDE DEF more
  <2>2. QED BY <1>5, <1>6, <2>1
<1> HIDE DEF more
<1>8. buff_read(s, n) = [ifs    |-> [pos |-> pos + chunk, failed |-> chunk < fbuff_size],
                         fbuff  |-> [from |-> pos, next |-> pos + more, end |-> pos + chunk],
                         got    |-> left + more,
                         joined |-> s.joined]
  BY <1>3, <1>4 DEF left
<1>9. QED BY <1>5, <1>7, <1>8 DEF left

LEMMA MultipleGrows ==
    ASSUME NEW pos \in Nat, Multiple(pos)
    PROVE  Multiple(pos + fbuff_size)
<1>1. fbuff_size \in Nat
  BY HdevioModesAssumption
<1>2. PICK q \in Nat : pos = q * fbuff_size
  BY DEF Multiple
<1>3. q + 1 \in Nat /\ pos + fbuff_size = (q + 1) * fbuff_size
  BY <1>1, <1>2
<1>4. QED BY <1>3 DEF Multiple

(* A read goes on by what it got, and gets less than was asked for only at *)
(* the end of the file.                                                    *)
LEMMA ReadGoesOn ==
    ASSUME file \in Files, NEW s, Buffered(s), NEW n \in Nat, n <= fbuff_size,
           NEW r, r = buff_read(s, n)
    PROVE  /\ Buffered(r)
           /\ r.got <= n /\ r.fbuff.next = s.fbuff.next + r.got
           /\ r.joined = s.joined
           /\ r.got < n => s.fbuff.next + n > file.size
           /\ r.got = n /\ Chunked(s) => Chunked(r)
           /\ r.got = n /\ n > 0 => r.fbuff.from < r.fbuff.next
<1>1. /\ s.ifs.pos \in Nat /\ s.ifs.failed \in BOOLEAN /\ s.fbuff.from \in Nat
      /\ s.fbuff.next \in Nat /\ s.fbuff.end \in Nat /\ s.ifs \in [pos : Nat, failed : BOOLEAN]
      /\ s.joined \in BOOLEAN /\ s.fbuff.next <= s.fbuff.end /\ s.fbuff.from <= s.fbuff.next
      /\ s.ifs.pos = s.fbuff.end /\ s.fbuff.end <= file.size
      /\ s.ifs.failed => s.ifs.pos = file.size
  BY DEF Buffered
<1>2. file.size \in Nat /\ fbuff_size \in Nat
  BY HdevioModesAssumption, FilesAssumption, FileIs
<1>3. CASE n <= s.fbuff.end - s.fbuff.next
  <2>1. r = [ifs |-> s.ifs, got |-> n, joined |-> s.joined,
             fbuff |-> [from |-> s.fbuff.from, next |-> s.fbuff.next + n, end |-> s.fbuff.end]]
    BY <1>3, ReadFromBuffer
  <2>2. /\ r.ifs = s.ifs /\ r.got = n /\ r.joined = s.joined
        /\ r.fbuff.from = s.fbuff.from /\ r.fbuff.next = s.fbuff.next + n /\ r.fbuff.end = s.fbuff.end
    BY <2>1
  <2>3. r \in [ifs : [pos : Nat, failed : BOOLEAN], got : Nat, joined : BOOLEAN,
               fbuff : [from : Nat, next : Nat, end : Nat]]
    BY <1>1, <2>1
  <2>4. s.fbuff.from <= s.fbuff.next + n /\ s.fbuff.next + n <= s.fbuff.end
        /\ (n > 0 => s.fbuff.from < s.fbuff.next + n)
    BY <1>1, <1>3
  <2>5. Buffered(r)
    BY <1>1, <2>2, <2>3, <2>4 DEF Buffered
  <2>6. Chunked(s) => Chunked(r)
    BY <2>2 DEF Chunked
  <2>7. QED BY <2>2, <2>4, <2>5, <2>6
<1>4. CASE ~(n <= s.fbuff.end - s.fbuff.next)
  <2> DEFINE left == s.fbuff.end - s.fbuff.next
  <2>1. PICK chunk \in Nat, more \in Nat :
              /\ buff_read(s, n) = [ifs |-> [pos |-> s.ifs.pos + chunk, failed |-> chunk < fbuff_size],
                                    fbuff |-> [from |-> s.ifs.pos, next |-> s.ifs.pos + more,
                                               end |-> s.ifs.pos + chunk],
                                    got |-> left + more,
                                    joined |-> s.joined]
              /\ chunk <= fbuff_size /\ s.ifs.pos + chunk <= file.size
              /\ chunk < fbuff_size => s.ifs.pos + chunk = file.size
              /\ s.ifs.failed => chunk = 0
              /\ more <= chunk /\ more <= n - left
              /\ more < n - left => more = chunk
    BY <1>4, ReadNextChunk
  <2>2. /\ r.ifs.pos = s.ifs.pos + chunk /\ r.ifs.failed = (chunk < fbuff_size)
        /\ r.got = left + more /\ r.joined = s.joined
        /\ r.fbuff.from = s.ifs.pos /\ r.fbuff.next = s.ifs.pos + more
        /\ r.fbuff.end = s.ifs.pos + chunk
    BY <2>1
  <2>3. left \in Nat /\ left < n /\ s.ifs.pos = s.fbuff.next + left
    BY <1>1, <1>4
  <2> HIDE DEF left
  <2>4. s.ifs.pos + chunk \in Nat /\ s.ifs.pos + more \in Nat /\ left + more \in Nat
    BY <1>1, <2>3
  <2>5. r \in [ifs : [pos : Nat, failed : BOOLEAN], got : Nat, joined : BOOLEAN,
               fbuff : [from : Nat, next : Nat, end : Nat]]
    BY <1>1, <2>1, <2>4
  <2>6. s.ifs.pos <= s.ifs.pos + more /\ s.ifs.pos + more <= s.ifs.pos + chunk
    BY <1>1, <2>1
  <2>7. r.ifs.failed => r.ifs.pos = file.size
    BY <2>1, <2>2
  <2>8. Buffered(r)
    BY <2>1, <2>2, <2>5, <2>6, <2>7 DEF Buffered
  <2>9. left + more <= n /\ s.ifs.pos + more = s.fbuff.next + (left + more)
    BY <1>1, <2>1, <2>3
  <2>10. left + more < n => s.fbuff.next + n > file.size
    <3>1. HAVE left + more < n
    <3>2. more < n - left
      BY <2>3, <3>1
    <3>3. more = chunk
      BY <2>1, <3>2
    <3>4. chunk < fbuff_size
      BY <1>2, <2>3, <3>2, <3>3
    <3>5. s.ifs.pos + more = file.size
      BY <2>1, <3>3, <3>4
    <3>6. QED BY <1>1, <1>2, <2>3, <2>9, <3>1, <3>5
  <2>11. left + more = n => more > 0
    BY <2>3
  <2>12. ASSUME left + more = n, Chunked(s) PROVE Chunked(r)
    <3>1. ~s.ifs.failed
      BY <2>1, <2>11, <2>12
    <3>2. Multiple(s.ifs.pos)
      BY <2>12, <3>1 DEF Chunked
    <3>3. Multiple(s.ifs.pos + fbuff_size)
      BY <1>1, <3>2, MultipleGrows
    <3>4. ~r.ifs.failed => r.ifs.pos = s.ifs.pos + fbuff_size
      <4>1. ~r.ifs.failed => ~(chunk < fbuff_size)
        BY <2>2
      <4>2. ~(chunk < fbuff_size) => chunk = fbuff_size
        BY <1>2, <2>1
      <4>3. QED BY <2>2, <4>1, <4>2
    <3>5. r.fbuff.end <= r.fbuff.from + fbuff_size
      BY <1>1, <1>2, <2>1, <2>2
    <3>6. QED BY <2>2, <3>2, <3>3, <3>4, <3>5 DEF Chunked
  <2>13. left + more = n => s.ifs.pos < s.ifs.pos + more
    BY <1>1, <2>11
  <2>14. QED BY <2>2, <2>8, <2>9, <2>10, <2>12, <2>13
<1>5. QED BY <1>3, <1>4

(* The block whose header was read.                                        *)
LEMMA BlockBeforeIs ==
    ASSUME file \in Files, NEW b \in 1..Len(file.blocks) + 1
    PROVE  /\ b <= Len(file.blocks) => BlockBefore(BlockPos(file, b) + HeaderLen) = b
           /\ b = Len(file.blocks) + 1 => BlockBefore(BlockPos(file, b) + HeaderLen) = 0
<1>1. IsFile(file)
  BY FilesAssumption
<1>2. DOMAIN file.blocks = 1..Len(file.blocks) /\ Len(file.blocks) \in Nat
  BY <1>1, FileIs
<1> DEFINE at == {c \in DOMAIN file.blocks : BlockPos(file, c) + HeaderLen = BlockPos(file, b) + HeaderLen}
<1>3. ASSUME NEW c \in 1..Len(file.blocks), BlockPos(file, c) + HeaderLen = BlockPos(file, b) + HeaderLen
      PROVE  c = b
  <2>1. c \in 1..Len(file.blocks) + 1
    BY <1>2
  <2>2. BlockPos(file, c) \in Nat /\ BlockPos(file, b) \in Nat
    BY <1>1, <2>1, BlockPositions
  <2>3. BlockPos(file, c) = BlockPos(file, b)
    BY <1>3, <2>2 DEF HeaderLen
  <2>4. ~(c < b)
    <3>1. c < b => BlockPos(file, c) + HeaderLen <= BlockPos(file, b)
      BY <1>1, <2>1, BlocksApart
    <3>2. QED BY <2>2, <2>3, <3>1 DEF HeaderLen
  <2>5. ~(b < c)
    <3>1. b < c => BlockPos(file, b) + HeaderLen <= BlockPos(file, c)
      BY <1>1, <2>1, BlocksApart
    <3>2. QED BY <2>2, <2>3, <3>1 DEF HeaderLen
  <2>6. QED BY <2>1, <2>4, <2>5
<1>4. BlockBefore(BlockPos(file, b) + HeaderLen) = IF at = {} THEN 0 ELSE Max(at)
  BY DEF BlockBefore
<1>5. ASSUME b <= Len(file.blocks) PROVE BlockBefore(BlockPos(file, b) + HeaderLen) = b
  <2>1. b \in DOMAIN file.blocks /\ b \in Nat
    BY <1>2, <1>5
  <2>2. at = {b, b}
    BY <1>2, <1>3, <2>1
  <2> HIDE DEF at
  <2>3. Max(at) = b
    BY <2>1, <2>2, LargerOfTwo
  <2>4. QED BY <1>4, <2>2, <2>3
<1>6. ASSUME b = Len(file.blocks) + 1 PROVE BlockBefore(BlockPos(file, b) + HeaderLen) = 0
  <2>1. \A c \in 1..Len(file.blocks) : c # b
    BY <1>2, <1>6
  <2>2. at = {}
    BY <1>2, <1>3, <2>1
  <2> HIDE DEF at
  <2>3. QED BY <1>4, <2>2
<1>7. QED BY <1>5, <1>6

(* A header that is still in the buffer is read again as it was; one that  *)
(* is not, not at all.                                                     *)
LEMMA HeaderReadAgain ==
    ASSUME file \in Files, NEW h, Buffered(h), h.got = HeaderLen, ~h.joined,
           HeaderLen <= h.fbuff.next, h.fbuff.next - HeaderLen >= h.fbuff.from
    PROVE  buff_read(buff_seekg(h, HeaderLen), HeaderLen) = h
<1> DEFINE s == buff_seekg(h, HeaderLen)
<1>1. /\ h \in [ifs : [pos : Nat, failed : BOOLEAN], got : Nat, joined : BOOLEAN,
                fbuff : [from : Nat, next : Nat, end : Nat]]
      /\ h.fbuff.from <= h.fbuff.next /\ h.fbuff.next <= h.fbuff.end /\ h.fbuff.end <= file.size
      /\ h.ifs.pos = h.fbuff.end /\ h.ifs.failed => h.ifs.pos = file.size
  BY DEF Buffered
<1>2. h.fbuff.next \in Nat /\ h.fbuff.from \in Nat /\ h.fbuff.end \in Nat
  BY <1>1
<1>3. h.fbuff.next - HeaderLen \in Nat /\ HeaderLen \in Nat
  BY <1>2 DEF HeaderLen
<1>4. s = [h EXCEPT !.fbuff.next = @ - HeaderLen, !.got = 0]
  BY DEF buff_seekg
<1>5. s = [ifs |-> h.ifs, got |-> 0, joined |-> h.joined,
           fbuff |-> [from |-> h.fbuff.from, next |-> h.fbuff.next - HeaderLen, end |-> h.fbuff.end]]
  BY <1>1, <1>4
<1> HIDE DEF s
<1>6. s \in [ifs : [pos : Nat, failed : BOOLEAN], got : Nat, joined : BOOLEAN,
             fbuff : [from : Nat, next : Nat, end : Nat]]
  BY <1>1, <1>3, <1>5
<1>7. /\ s.ifs = h.ifs /\ s.fbuff.from = h.fbuff.from /\ s.fbuff.next = h.fbuff.next - HeaderLen
      /\ s.fbuff.end = h.fbuff.end /\ s.joined = h.joined
  BY <1>5
<1>8. h.fbuff.next - HeaderLen <= h.fbuff.end /\ HeaderLen <= h.fbuff.end - (h.fbuff.next - HeaderLen)
      /\ (h.fbuff.next - HeaderLen) + HeaderLen = h.fbuff.next
  BY <1>1, <1>2 DEF HeaderLen
<1>9. Buffered(s)
  BY <1>1, <1>6, <1>7, <1>8 DEF Buffered
<1>10. buff_read(s, HeaderLen)
       = [ifs |-> h.ifs, got |-> HeaderLen, joined |-> h.joined,
          fbuff |-> [from |-> h.fbuff.from, next |-> h.fbuff.next, end |-> h.fbuff.end]]
  <2>1. HeaderLen <= s.fbuff.end - s.fbuff.next
    BY <1>7, <1>8
  <2>2. buff_read(s, HeaderLen)
        = [ifs |-> s.ifs, got |-> HeaderLen, joined |-> s.joined,
           fbuff |-> [from |-> s.fbuff.from, next |-> s.fbuff.next + HeaderLen, end |-> s.fbuff.end]]
    BY <1>3, <1>9, <2>1, ReadFromBuffer
  <2>3. QED BY <1>7, <1>8, <2>2
<1>11. buff_read(s, HeaderLen) = h
  BY <1>1, <1>10
<1>12. QED BY <1>11 DEF s

LEMMA HeaderNotReadAgain ==
    ASSUME file \in Files, NEW h, Buffered(h), ~(h.fbuff.next - HeaderLen >= h.fbuff.from),
           NEW n \in Nat, n > 0
    PROVE  buff_read(buff_read(buff_seekg(h, HeaderLen), HeaderLen), n).got = 0
<1> DEFINE s == buff_seekg(h, HeaderLen)
           a == buff_read(s, HeaderLen)
<1>1. h \in [ifs : [pos : Nat, failed : BOOLEAN], got : Nat, joined : BOOLEAN,
             fbuff : [from : Nat, next : Nat, end : Nat]]
  BY DEF Buffered
<1>2. fbuff_size \in Nat /\ fbuff_size > 0
  BY HdevioModesAssumption DEF HeaderLen
<1>3. s = [ifs |-> [pos |-> h.ifs.pos, failed |-> TRUE], got |-> 0, joined |-> h.joined,
           fbuff |-> [from |-> h.fbuff.from, next |-> h.fbuff.from, end |-> h.fbuff.from]]
  BY <1>1 DEF buff_seekg
<1>4. h.fbuff.from \in Nat /\ h.ifs.pos \in Nat
  BY <1>1
<1> HIDE DEF s
<1>5. s.fbuff.end - s.fbuff.next = 0 /\ s.ifs.failed = TRUE /\ s.ifs.pos = h.ifs.pos
  BY <1>3, <1>4
<1>6. Min({HeaderLen - 0, 0}) = 0 /\ Min({n - 0, 0}) = 0
  BY SmallerOfTwo DEF HeaderLen
<1>7. a.ifs.failed = TRUE /\ a.fbuff.end - a.fbuff.next = 0
  <2>1. ~(HeaderLen <= 0)
    BY DEF HeaderLen
  <2>2. a.ifs.failed = (0 < fbuff_size) /\ a.fbuff.end = s.ifs.pos + 0 /\ a.fbuff.next = s.ifs.pos + 0
    BY <1>5, <1>6, <2>1, SMTT(30) DEF buff_read
  <2> HIDE DEF a
  <2>3. s.ifs.pos + 0 \in Nat /\ (s.ifs.pos + 0) - (s.ifs.pos + 0) = 0
    BY <1>4, <1>5
  <2>4. a.fbuff.end - a.fbuff.next = 0
    BY <2>2, <2>3
  <2>5. a.ifs.failed = TRUE
    BY <1>2, <2>2
  <2>6. QED BY <2>4, <2>5
<1> HIDE DEF a
<1>8. buff_read(a, n).got = 0 + 0
  <2>1. ~(n <= 0)
    OBVIOUS
  <2>2. QED BY <1>6, <1>7, <2>1, ZenonT(40) DEF buff_read
<1>9. QED BY <1>8 DEF a, s

(* A header lies across the edge of a chunk when the chunk in the buffer   *)
(* begins behind its first word.                                           *)
LEMMA DivIs ==
    ASSUME NEW F \in Nat, F > 0, NEW x \in Nat
    PROVE  x \div F \in Nat /\ (x \div F) * F <= x /\ x < (x \div F) * F + F
OBVIOUS

LEMMA ProductsGrow ==
    ASSUME NEW F \in Nat, NEW p \in Nat, NEW q \in Nat, p < q
    PROVE  p * F + F <= q * F
<1>1. PICK k \in Nat : q = p + 1 + k
  <2>1. q - p - 1 \in Nat /\ q = p + 1 + (q - p - 1)
    OBVIOUS
  <2>2. QED BY <2>1
<1>2. q * F = p * F + F + k * F
  BY <1>1
<1>3. k * F \in Nat /\ p * F \in Nat
  OBVIOUS
<1>4. QED BY <1>2, <1>3

LEMMA EdgeIs ==
    ASSUME file \in Files, NEW b \in 1..Len(file.blocks), NEW from \in Nat, Multiple(from),
           from < BlockPos(file, b) + HeaderLen, BlockPos(file, b) + HeaderLen <= from + fbuff_size
    PROVE  EdgeInHeader(b) <=> BlockPos(file, b) < from
<1>1. IsFile(file) /\ fbuff_size \in Nat /\ fbuff_size > 0
  BY HdevioModesAssumption, FilesAssumption DEF HeaderLen
<1>2. BlockPos(file, b) \in Nat
  <2>1. b \in 1..Len(file.blocks) + 1
    BY <1>1, FileIs
  <2>2. QED BY <1>1, <2>1, BlockPositions
<1>3. PICK q \in Nat : from = q * fbuff_size
  BY DEF Multiple
<1> DEFINE first == BlockPos(file, b)
           last  == first + 7
           d     == first \div fbuff_size
           e     == last \div fbuff_size
<1>4. EdgeInHeader(b) <=> d # e
  <2>1. BlockPos(file, b) + HeaderLen - 1 = last
    BY <1>2 DEF HeaderLen
  <2>2. QED BY <2>1 DEF EdgeInHeader
<1>5. first \in Nat /\ last \in Nat /\ from < first + 8 /\ first + 8 <= from + fbuff_size /\ last = first + 7
  BY <1>2 DEF HeaderLen
<1> HIDE DEF first, last
<1>6. /\ d \in Nat /\ d * fbuff_size <= first /\ first < d * fbuff_size + fbuff_size
      /\ e \in Nat /\ e * fbuff_size <= last /\ last < e * fbuff_size + fbuff_size
  BY <1>1, <1>5, DivIs
<1> HIDE DEF d, e
<1>7. d * fbuff_size \in Nat /\ e * fbuff_size \in Nat
  BY <1>1, <1>6
<1>8. CASE first < from
  <2>1. d < q
    <3>1. SUFFICES ASSUME ~(d < q) PROVE FALSE
      OBVIOUS
    <3>2. q * fbuff_size <= d * fbuff_size
      <4>1. q < d => q * fbuff_size + fbuff_size <= d * fbuff_size
        BY <1>1, <1>6, ProductsGrow
      <4>2. q = d \/ q < d
        BY <1>6, <3>1
      <4>3. q = d => q * fbuff_size = d * fbuff_size
        OBVIOUS
      <4>4. QED BY <1>1, <1>3, <1>7, <4>1, <4>2, <4>3
    <3>3. QED BY <1>3, <1>5, <1>6, <1>7, <1>8, <3>2
  <2>2. d * fbuff_size + fbuff_size <= q * fbuff_size
    BY <1>1, <1>6, <2>1, ProductsGrow
  <2>3. d # e
    <3>1. SUFFICES ASSUME d = e PROVE FALSE
      OBVIOUS
    <3>2. last < d * fbuff_size + fbuff_size
      BY <1>6, <3>1
    <3>3. from <= last
      BY <1>5
    <3>4. QED BY <1>1, <1>3, <1>5, <1>7, <2>2, <3>2, <3>3
  <2>4. QED BY <1>4, <1>8, <2>3 DEF first
<1>9. CASE ~(first < from)
  <2>1. ASSUME NEW x \in Nat, NEW g \in Nat, from <= x, x < from + fbuff_size,
               g * fbuff_size <= x, x < g * fbuff_size + fbuff_size
        PROVE  g = q
    <3>1. g * fbuff_size \in Nat
      BY <1>1
    <3>2. ~(g < q)
      <4>1. g < q => g * fbuff_size + fbuff_size <= q * fbuff_size
        BY <1>1, ProductsGrow
      <4>2. QED BY <1>1, <1>3, <2>1, <3>1, <4>1
    <3>3. ~(q < g)
      <4>1. q < g => q * fbuff_size + fbuff_size <= g * fbuff_size
        BY <1>1, ProductsGrow
      <4>2. QED BY <1>1, <1>3, <2>1, <3>1, <4>1
    <3>4. QED BY <3>2, <3>3
  <2>2. d = q
    <3>1. from <= first /\ first < from + fbuff_size
      BY <1>1, <1>5, <1>9
    <3>2. QED BY <1>5, <1>6, <2>1, <3>1
  <2>3. e = q
    <3>1. from <= last /\ last < from + fbuff_size
      BY <1>1, <1>5, <1>9
    <3>2. QED BY <1>5, <1>6, <2>1, <3>1
  <2>4. QED BY <1>4, <1>9, <2>2, <2>3 DEF first
<1>10. QED BY <1>8, <1>9

-----------------------------------------------------------------------------
(* The next block.                                                         *)
LEMMA GrownIs ==
    ASSUME file \in Files, NEW size, NEW k \in 0..Len(file.blocks) - 1, GrownTo(size, k),
           NEW length, length = BlockLen(file.blocks[k + 1]), length \in Nat
    PROVE  /\ Grown(size, length) \in Nat
           /\ Larger(k + 1) <=> length > size
           /\ length > Grown(size, length) => length > size /\ length > buff_limit
           /\ Grown(size, length) > size => /\ length > size /\ length <= buff_limit
                                            /\ Grown(size, length) = length
           /\ ~(Grown(size, length) > size) => Grown(size, length) = size
           /\ length <= Grown(size, length) => GrownTo(Grown(size, length), k + 1)
<1> DEFINE b == k + 1
<1>1. /\ FirstBuff \in Nat /\ FirstBuff <= fbuff_size /\ buff_limit \in Nat /\ buff_limit <= fbuff_size
      /\ fbuff_size \in Nat /\ IsFile(file)
  BY HdevioModesAssumption, FilesAssumption
<1>2. /\ size \in Nat /\ FirstBuff <= size /\ size <= fbuff_size
      /\ \A c \in 1..k : BlockLen(file.blocks[c]) <= size
      /\ size = FirstBuff \/ \E c \in 1..k : BlockLen(file.blocks[c]) = size
  BY DEF GrownTo
<1>3. k \in Nat /\ 1..b - 1 = 1..k /\ \A c \in 1..b : c \in 1..k \/ c = b
  BY <1>1, FileIs, SMTT(30)
<1>4. \A c \in 1..k : BlockLen(file.blocks[c]) \in Nat
  <2>1. \A c \in 1..k : c \in 1..Len(file.blocks)
    BY <1>1, FileIs
  <2>2. QED BY <1>1, <2>1, BlockPositions
<1>5. Larger(b) <=> length > size
  <2>1. Larger(b) <=> /\ length > FirstBuff
                      /\ \A c \in 1..k : BlockLen(file.blocks[c]) < length
    BY <1>3 DEF Larger
  <2>2. length > size => length > FirstBuff /\ \A c \in 1..k : BlockLen(file.blocks[c]) < length
    BY <1>1, <1>2, <1>4
  <2>3. ASSUME length > FirstBuff, \A c \in 1..k : BlockLen(file.blocks[c]) < length
        PROVE  length > size
    BY <1>1, <1>2, <1>4, <2>3
  <2>4. QED BY <2>1, <2>2, <2>3
<1>6. Grown(size, length) = IF length <= buff_limit THEN (IF size <= length THEN length ELSE size) ELSE size
  <2>1. Max({size, length}) = IF size <= length THEN length ELSE size
    BY <1>2, LargerOfTwo
  <2>2. QED BY <2>1 DEF Grown
<1> DEFINE grown == Grown(size, length)
<1> HIDE DEF grown, b
<1>7. /\ grown \in Nat /\ size <= grown
      /\ length > grown => length > size /\ length > buff_limit
      /\ grown > size => length > size /\ length <= buff_limit /\ grown = length
      /\ ~(grown > size) => grown = size
  BY <1>1, <1>2, <1>6 DEF grown
<1>8. ASSUME length <= grown PROVE GrownTo(grown, b)
  <2>1. FirstBuff <= grown /\ grown <= fbuff_size
    BY <1>1, <1>2, <1>7
  <2>2. BlockLen(file.blocks[b]) = length
    BY DEF b
  <2>3. ASSUME NEW c \in 1..b PROVE BlockLen(file.blocks[c]) <= grown
    <3>1. CASE c = b
      BY <1>8, <2>2, <3>1
    <3>2. CASE c \in 1..k
      BY <1>2, <1>4, <1>7, <3>2
    <3>3. QED BY <1>3, <3>1, <3>2
  <2>4. grown = FirstBuff \/ \E c \in 1..b : BlockLen(file.blocks[c]) = grown
    <3>1. b \in 1..b /\ \A c \in 1..k : c \in 1..b
      BY <1>3 DEF b
    <3>2. CASE grown > size
      BY <1>7, <2>2, <3>1, <3>2
    <3>3. CASE ~(grown > size)
      BY <1>2, <1>7, <3>1, <3>3
    <3>4. QED BY <3>2, <3>3
  <2>5. QED BY <1>7, <2>1, <2>3, <2>4 DEF GrownTo
<1>9. QED BY <1>5, <1>7, <1>8 DEF grown, b

LEMMA ReadBlockIs ==
    ASSUME file \in Files, Buffered(Stream), Chunked(Stream), buff.block \in 0..Len(file.blocks),
           GrownTo(buff.size, buff.block), fbuff.next = BlockPos(file, buff.block + 1),
           NEW b, b = buff.block + 1
    PROVE  \/ /\ ~ReadBlock.ok /\ ReadBlock.ending # "reading"
              /\ b <= Len(file.blocks) => ~WholeBlock(file, b) \/ EndsReading(b)
           \/ /\ ReadBlock.ok /\ ReadBlock.ending = "reading"
              /\ b <= Len(file.blocks) /\ WholeBlock(file, b) /\ ~EndsReading(b)
              /\ ReadBlock.buff = [size |-> ReadBlock.buff.size, block |-> b, event |-> 1]
              /\ GrownTo(ReadBlock.buff.size, b)
              /\ Buffered(ReadBlock.s) /\ Chunked(ReadBlock.s)
              /\ ReadBlock.s.fbuff.next = BlockPos(file, b + 1)
<1> DEFINE header == buff_read(Stream, HeaderLen)
           found  == BlockBefore(header.fbuff.next)
           length == BlockLen(file.blocks[found])
           size   == Grown(buff.size, length)
           again  == IF size > buff.size THEN buff_read(buff_seekg(header, HeaderLen), HeaderLen)
                     ELSE header
           body   == buff_read(again, length - HeaderLen)
           Fails(s, n, why) == [ok |-> FALSE, s |-> s, ending |-> why,
                                buff |-> [size |-> n, block |-> 0, event |-> 0]]
<1>1. ReadBlock = IF header.joined THEN Fails(header, buff.size, "wild")
        ELSE IF header.got # HeaderLen THEN Fails(header, buff.size, "error")
        ELSE IF found = 0 \/ length > size THEN Fails(header, buff.size, "error")
        ELSE IF length = HeaderLen THEN Fails(again, size, "eof")
        ELSE IF body.joined THEN Fails(body, size, "wild")
        ELSE IF body.got # length - HeaderLen THEN Fails(body, size, "error")
        ELSE [ok |-> TRUE, s |-> body, ending |-> "reading",
              buff |-> [size |-> size, block |-> found, event |-> 1]]
  BY DEF ReadBlock
<1>2. /\ IsFile(file) /\ file.size \in Nat /\ Len(file.blocks) \in Nat /\ HeaderLen \in Nat
      /\ HeaderLen <= fbuff_size /\ fbuff_size \in Nat
  BY HdevioModesAssumption, FilesAssumption, FileIs DEF HeaderLen
<1>3. b \in 1..Len(file.blocks) + 1 /\ b - 1 = buff.block
  BY <1>2
<1>4. BlockPos(file, b) \in Nat /\ Stream.fbuff.next = BlockPos(file, b) /\ Stream.joined = FALSE
  BY <1>2, <1>3, BlockPositions DEF Stream
<1> DEFINE pos == BlockPos(file, b)
<1> HIDE DEF header
<1>5. /\ Buffered(header)
      /\ header.got <= HeaderLen /\ header.fbuff.next = pos + header.got
      /\ header.joined = FALSE
      /\ header.got < HeaderLen => pos + HeaderLen > file.size
      /\ header.got = HeaderLen => Chunked(header) /\ header.fbuff.from < header.fbuff.next
  <2>1. header = buff_read(Stream, HeaderLen)
    BY DEF header
  <2>2. HeaderLen > 0
    BY DEF HeaderLen
  <2>3. /\ Buffered(header)
        /\ header.got <= HeaderLen /\ header.fbuff.next = Stream.fbuff.next + header.got
        /\ header.joined = Stream.joined
        /\ header.got < HeaderLen => Stream.fbuff.next + HeaderLen > file.size
        /\ header.got = HeaderLen => Chunked(header)
        /\ header.got = HeaderLen => header.fbuff.from < header.fbuff.next
    BY <1>2, <2>1, <2>2, ReadGoesOn
  <2>4. QED BY <1>4, <2>3
<1>6. /\ header.got \in Nat /\ header.fbuff.from \in Nat /\ header.fbuff.next \in Nat
      /\ header.fbuff.end \in Nat /\ header.fbuff.next <= header.fbuff.end
  BY <1>5 DEF Buffered
<1> HIDE DEF found, length, size, again, body
<1>7. ASSUME b <= Len(file.blocks)
      PROVE  /\ b \in 1..Len(file.blocks)
             /\ BlockLen(file.blocks[b]) \in Nat /\ BlockLen(file.blocks[b]) >= HeaderLen
             /\ BlockPos(file, b + 1) = pos + BlockLen(file.blocks[b])
             /\ (BlockLen(file.blocks[b]) = HeaderLen) <=> (file.blocks[b] = <<>>)
  <2>1. b \in 1..Len(file.blocks)
    BY <1>2, <1>3, <1>7
  <2>2. (BlockLen(file.blocks[b]) = HeaderLen) <=> (file.blocks[b] = <<>>)
    BY <1>2, <2>1, FileIs, BlockLenIs
  <2>3. QED BY <1>2, <2>1, <2>2, BlockPositions
<1>8. CASE header.got # HeaderLen
  <2>1. ~ReadBlock.ok /\ ReadBlock.ending # "reading"
    BY <1>1, <1>5, <1>8
  <2>2. pos + HeaderLen > file.size
    BY <1>2, <1>5, <1>6, <1>8
  <2>3. ASSUME b <= Len(file.blocks) PROVE ~WholeBlock(file, b)
    BY <1>2, <1>4, <1>7, <2>2, <2>3 DEF WholeBlock
  <2>4. QED BY <2>1, <2>3
<1>9. CASE header.got = HeaderLen /\ b = Len(file.blocks) + 1
  <2>1. found = 0
    BY <1>3, <1>5, <1>9, BlockBeforeIs DEF found
  <2>2. ~ReadBlock.ok /\ ReadBlock.ending # "reading"
    BY <1>1, <1>5, <1>9, <2>1
  <2>3. ~(b <= Len(file.blocks))
    BY <1>2, <1>9
  <2>4. QED BY <2>2, <2>3
<1>10. CASE header.got = HeaderLen /\ b <= Len(file.blocks)
  <2>1. found = b /\ b # 0
    BY <1>2, <1>3, <1>5, <1>10, BlockBeforeIs DEF found
  <2>2. /\ length = BlockLen(file.blocks[b]) /\ length \in Nat /\ length >= HeaderLen
        /\ BlockPos(file, b + 1) = pos + length
        /\ (length = HeaderLen) <=> (file.blocks[b] = <<>>)
    BY <1>7, <1>10, <2>1 DEF length
  <2>3. /\ size \in Nat
        /\ Larger(b) <=> length > buff.size
        /\ length > size => length > buff.size /\ length > buff_limit
        /\ size > buff.size => length > buff.size /\ length <= buff_limit /\ size = length
        /\ ~(size > buff.size) => size = buff.size
        /\ length <= size => GrownTo(size, b)
    <3>1. buff.block \in 0..Len(file.blocks) - 1
      BY <1>2, <1>3, <1>10
    <3>2. QED BY <2>2, <3>1, GrownIs, SMTT(30) DEF size
  <2>4. buff.size \in Nat
    BY DEF GrownTo
  <2>5. CASE length > size
    <3>1. ~ReadBlock.ok /\ ReadBlock.ending # "reading"
      BY <1>1, <1>5, <1>10, <2>5
    <3>2. EndsReading(b)
      BY <2>2, <2>3, <2>5 DEF EndsReading
    <3>3. QED BY <3>1, <3>2
  <2>6. CASE ~(length > size) /\ length = HeaderLen
    <3>1. ~ReadBlock.ok /\ ReadBlock.ending # "reading"
      BY <1>1, <1>5, <1>10, <2>1, <2>6
    <3>2. EndsReading(b)
      BY <2>2, <2>6 DEF EndsReading
    <3>3. QED BY <3>1, <3>2
  <2>7. CASE ~(length > size) /\ length # HeaderLen
    <3>1. ReadBlock = IF body.joined THEN Fails(body, size, "wild")
            ELSE IF body.got # length - HeaderLen THEN Fails(body, size, "error")
            ELSE [ok |-> TRUE, s |-> body, ending |-> "reading",
                  buff |-> [size |-> size, block |-> found, event |-> 1]]
      BY <1>1, <1>5, <1>10, <2>1, <2>7
    <3>2. length - HeaderLen \in Nat /\ length - HeaderLen > 0 /\ length <= size
      BY <1>2, <2>2, <2>3, <2>7
    <3>3. length - HeaderLen <= fbuff_size
      <4>1. size <= fbuff_size
        BY <2>3, <3>2 DEF GrownTo
      <4>2. QED BY <1>2, <2>2, <2>3, <3>2, <4>1
    <3>4. header.fbuff.next = pos + HeaderLen /\ Chunked(header) /\ header.fbuff.from < pos + HeaderLen
      BY <1>5, <1>10
    <3>5. EdgeInHeader(b) <=> pos < header.fbuff.from
      <4>1. Multiple(header.fbuff.from) /\ header.fbuff.end <= header.fbuff.from + fbuff_size
        BY <3>4 DEF Chunked
      <4>2. pos + HeaderLen <= header.fbuff.from + fbuff_size
        BY <1>2, <1>4, <1>6, <3>4, <4>1
      <4>3. b \in 1..Len(file.blocks)
        BY <1>7, <1>10
      <4>4. QED BY <1>6, <3>4, <4>1, <4>2, <4>3, EdgeIs
    <3>6. (header.fbuff.next - HeaderLen >= header.fbuff.from) <=> ~(pos < header.fbuff.from)
      BY <1>2, <1>4, <1>6, <3>4
    <3>7. CASE size > buff.size /\ pos < header.fbuff.from
      <4>1. again = buff_read(buff_seekg(header, HeaderLen), HeaderLen)
        BY <3>7 DEF again
      <4>2. body.got = 0
        BY <1>5, <3>2, <3>6, <3>7, <4>1, HeaderNotReadAgain DEF body
      <4>3. ~ReadBlock.ok /\ ReadBlock.ending # "reading"
        BY <3>1, <3>2, <4>2
      <4>4. EndsReading(b)
        BY <2>3, <3>5, <3>7 DEF EndsReading
      <4>5. QED BY <4>3, <4>4
    <3>8. CASE ~(size > buff.size /\ pos < header.fbuff.from)
      <4>1. again = header
        <5>1. CASE size > buff.size
          <6>1. header.fbuff.next - HeaderLen >= header.fbuff.from
            BY <3>6, <3>8, <5>1
          <6>2. HeaderLen <= header.fbuff.next
            BY <1>2, <1>4, <3>4
          <6>3. again = buff_read(buff_seekg(header, HeaderLen), HeaderLen)
            BY <5>1 DEF again
          <6>4. QED BY <1>5, <1>10, <6>1, <6>2, <6>3, HeaderReadAgain
        <5>2. CASE ~(size > buff.size)
          BY <5>2 DEF again
        <5>3. QED BY <5>1, <5>2
      <4>2. ~(Larger(b) /\ (EdgeInHeader(b) \/ BlockLen(file.blocks[b]) > buff_limit))
        <5>1. CASE size > buff.size
          <6>1. ~EdgeInHeader(b)
            BY <3>5, <3>8, <5>1
          <6>2. ~(BlockLen(file.blocks[b]) > buff_limit)
            <7>1. buff_limit \in Nat
              BY HdevioModesAssumption
            <7>2. QED BY <2>2, <2>3, <5>1, <7>1
          <6>3. QED BY <6>1, <6>2
        <5>2. CASE ~(size > buff.size)
          BY <2>2, <2>3, <2>4, <3>2, <5>2
        <5>3. QED BY <5>1, <5>2
      <4>3. ~EndsReading(b)
        BY <2>2, <2>7, <4>2 DEF EndsReading
      <4>4. body = buff_read(header, length - HeaderLen)
        BY <4>1 DEF body
      <4>5. /\ Buffered(body) /\ body.joined = FALSE
            /\ body.got <= length - HeaderLen /\ body.fbuff.next = (pos + HeaderLen) + body.got
            /\ body.got < length - HeaderLen => (pos + HeaderLen) + (length - HeaderLen) > file.size
            /\ body.got = length - HeaderLen => Chunked(body)
        BY <1>5, <3>2, <3>3, <3>4, <4>4, ReadGoesOn
      <4>6. body.got \in Nat /\ body.fbuff.next <= body.fbuff.end /\ body.fbuff.end <= file.size
            /\ body.fbuff.next \in Nat /\ body.fbuff.end \in Nat
        BY <4>5 DEF Buffered
      <4>7. (pos + HeaderLen) + (length - HeaderLen) = BlockPos(file, b + 1)
        BY <1>2, <1>4, <2>2
      <4>8. CASE body.got = length - HeaderLen
        <5>1. ReadBlock = [ok |-> TRUE, s |-> body, ending |-> "reading",
                           buff |-> [size |-> size, block |-> b, event |-> 1]]
          BY <2>1, <3>1, <4>5, <4>8
        <5>2. body.fbuff.next = BlockPos(file, b + 1)
          BY <4>5, <4>7, <4>8
        <5>3. WholeBlock(file, b)
          BY <1>2, <4>6, <5>2 DEF WholeBlock
        <5>4. GrownTo(size, b)
          BY <2>3, <3>2
        <5>5. /\ ReadBlock.ok /\ ReadBlock.ending = "reading" /\ ReadBlock.s = body
              /\ ReadBlock.buff.size = size
              /\ ReadBlock.buff = [size |-> ReadBlock.buff.size, block |-> b, event |-> 1]
          BY <5>1
        <5>6. QED BY <1>10, <4>3, <4>5, <4>8, <5>2, <5>3, <5>4, <5>5
      <4>9. CASE body.got # length - HeaderLen
        <5>1. ~ReadBlock.ok /\ ReadBlock.ending # "reading"
          BY <3>1, <4>5, <4>9
        <5>2. body.got < length - HeaderLen
          BY <3>2, <4>5, <4>6, <4>9
        <5>3. ~WholeBlock(file, b)
          <6>1. BlockPos(file, b + 1) > file.size
            BY <4>5, <4>7, <5>2
          <6>2. BlockPos(file, b + 1) \in Nat
            BY <1>4, <2>2
          <6>3. QED BY <1>2, <6>1, <6>2 DEF WholeBlock
        <5>4. QED BY <5>1, <5>3
      <4>10. QED BY <4>8, <4>9
    <3>9. QED BY <3>7, <3>8
  <2>8. QED BY <2>5, <2>6, <2>7
<1>11. b <= Len(file.blocks) \/ b = Len(file.blocks) + 1
  BY <1>2, <1>3
<1>12. QED BY <1>8, <1>9, <1>10, <1>11

-----------------------------------------------------------------------------
(* The steps of the reading by blocks.                                     *)
LEMMA LoadedIs ==
    ASSUME file \in Files, AtBlock, Loaded.ok
    PROVE  /\ Buffered(Loaded.s) /\ Chunked(Loaded.s)
           /\ Loaded.buff \in [size : Nat, block : Nat, event : Nat]
           /\ Loaded.buff.block \in 1..Len(file.blocks)
           /\ Loaded.buff.event \in 1..Len(file.blocks[Loaded.buff.block])
           /\ Loaded.s.fbuff.next = BlockPos(file, Loaded.buff.block + 1)
           /\ \A e \in EventIds(file) : e \in Range(out) <=> Before(e, Event(Loaded.buff))
           /\ \A b \in 1..Loaded.buff.block : WholeBlock(file, b) /\ ~EndsReading(b)
           /\ GrownTo(Loaded.buff.size, Loaded.buff.block)
<1>1. /\ Buffered(Stream) /\ Chunked(Stream) /\ GrownTo(buff.size, buff.block)
      /\ buff \in [size : Nat, block : 0..Len(file.blocks), event : Nat]
      /\ buff.block \in 0..Len(file.blocks) /\ buff.event \in Nat
      /\ buff.block # 0 => buff.event \in 1..Len(file.blocks[buff.block]) + 1
      /\ fbuff.next = BlockPos(file, buff.block + 1)
      /\ \A e \in EventIds(file) : e \in Range(out) <=> Before(e, Event(buff))
      /\ \A b \in 1..buff.block : WholeBlock(file, b) /\ ~EndsReading(b)
  BY DEF AtBlock, BlockPlace
<1>2. IsFile(file) /\ Len(file.blocks) \in Nat
  BY FilesAssumption, FileIs
<1>3. CASE buff.block # 0 /\ buff.event <= Len(file.blocks[buff.block])
  <2>1. Loaded = [ok |-> TRUE, s |-> Stream, ending |-> "reading", buff |-> buff]
    BY <1>3 DEF Loaded
  <2>2. Loaded.s = Stream /\ Loaded.buff = buff
    BY <2>1
  <2>3. buff.block \in 1..Len(file.blocks)
    BY <1>1, <1>2, <1>3
  <2>4. buff.event \in 1..Len(file.blocks[buff.block])
    BY <1>1, <1>2, <1>3, <2>3, FileIs
  <2>5. Stream.fbuff.next = BlockPos(file, buff.block + 1)
    BY <1>1 DEF Stream
  <2> HIDE DEF Loaded
  <2>6. buff \in [size : Nat, block : Nat, event : Nat]
    <3>1. \A n \in 0..Len(file.blocks) : n \in Nat
      BY <1>2
    <3>2. QED BY <1>1, <3>1
  <2>7. QED BY <1>1, <2>2, <2>3, <2>4, <2>5, <2>6
<1>4. CASE ~(buff.block # 0 /\ buff.event <= Len(file.blocks[buff.block]))
  <2> DEFINE b == buff.block + 1
  <2>1. Loaded = ReadBlock
    BY <1>4 DEF Loaded
  <2>2. /\ b <= Len(file.blocks) /\ WholeBlock(file, b) /\ ~EndsReading(b)
        /\ Loaded.buff = [size |-> Loaded.buff.size, block |-> b, event |-> 1]
        /\ GrownTo(Loaded.buff.size, b)
        /\ Buffered(Loaded.s) /\ Chunked(Loaded.s)
        /\ Loaded.s.fbuff.next = BlockPos(file, b + 1)
    BY <1>1, <2>1, ReadBlockIs
  <2> HIDE DEF Loaded
  <2>3. Loaded.buff.block = b /\ Loaded.buff.event = 1
    BY <2>2
  <2>4. b \in 1..Len(file.blocks)
    BY <1>1, <1>2, <2>2
  <2>5. 1 \in 1..Len(file.blocks[b])
    <3>1. file.blocks[b] # <<>>
      BY <2>2 DEF EndsReading
    <3>2. file.blocks[b] \in Seq(Nat \ {0})
      BY <1>2, <2>4, FileIs
    <3>3. QED BY <3>1, <3>2
  <2>6. ASSUME NEW e \in EventIds(file)
        PROVE  e \in Range(out) <=> Before(e, <<b, 1>>)
    <3>1. /\ e[1] \in Nat /\ e[2] \in Nat /\ e[1] >= 1 /\ e[2] >= 1
          /\ e[1] \in 1..Len(file.blocks) /\ e[2] \in 1..Len(file.blocks[e[1]])
          /\ Len(file.blocks[e[1]]) \in Nat
      BY <1>2, EventIdTypes
    <3>2. Before(e, Event(buff)) <=> e[1] < buff.block \/ (e[1] = buff.block /\ e[2] < buff.event)
      BY DEF Before, Event
    <3>3. Before(e, <<b, 1>>) <=> e[1] < b \/ (e[1] = b /\ e[2] < 1)
      BY DEF Before
    <3>4. e[1] = buff.block => e[2] < buff.event
      BY <1>1, <1>4, <3>1
    <3>5. e[1] < buff.block \/ e[1] = buff.block <=> e[1] < b
      BY <1>1, <3>1
    <3>6. QED BY <1>1, <3>1, <3>2, <3>3, <3>4, <3>5
  <2>7. ASSUME NEW c \in 1..b PROVE WholeBlock(file, c) /\ ~EndsReading(c)
    <3>1. c = b \/ c \in 1..buff.block
      BY <1>1, <1>2
    <3>2. QED BY <1>1, <2>2, <3>1
  <2>8. Event(Loaded.buff) = <<b, 1>>
    BY <2>3 DEF Event
  <2>9. Loaded.buff \in [size : Nat, block : Nat, event : Nat]
    <3>1. Loaded.buff.size \in Nat /\ b \in Nat
      BY <1>1, <2>2 DEF GrownTo
    <3> HIDE DEF b
    <3>2. QED BY <2>2, <3>1
  <2> HIDE DEF b
  <2>10. QED BY <2>2, <2>3, <2>4, <2>5, <2>6, <2>7, <2>8, <2>9
<1>5. QED BY <1>3, <1>4

LEMMA NotLoadedIs ==
    ASSUME file \in Files, AtBlock, ~Loaded.ok
    PROVE  /\ Loaded.ending # "reading"
           /\ \A e \in EventIds(file) :
                 e \in Range(out) <=> WholeBlock(file, e[1]) /\ \A b \in 1..e[1] : ~EndsReading(b)
<1>1. /\ Buffered(Stream) /\ Chunked(Stream) /\ GrownTo(buff.size, buff.block)
      /\ buff \in [size : Nat, block : 0..Len(file.blocks), event : Nat]
      /\ buff.block \in 0..Len(file.blocks) /\ buff.event \in Nat
      /\ buff.block # 0 => buff.event \in 1..Len(file.blocks[buff.block]) + 1
      /\ fbuff.next = BlockPos(file, buff.block + 1)
      /\ \A e \in EventIds(file) : e \in Range(out) <=> Before(e, Event(buff))
      /\ \A b \in 1..buff.block : WholeBlock(file, b) /\ ~EndsReading(b)
  BY DEF AtBlock, BlockPlace
<1>2. IsFile(file) /\ Len(file.blocks) \in Nat
  BY FilesAssumption, FileIs
<1>3. ~(buff.block # 0 /\ buff.event <= Len(file.blocks[buff.block])) /\ Loaded = ReadBlock
  BY DEF Loaded
<1> DEFINE next == buff.block + 1
<1>4. Loaded.ending # "reading" /\ (next <= Len(file.blocks) => ~WholeBlock(file, next) \/ EndsReading(next))
  BY <1>1, <1>3, ReadBlockIs
<1>5. ASSUME NEW e \in EventIds(file)
      PROVE  e \in Range(out) <=> WholeBlock(file, e[1]) /\ \A b \in 1..e[1] : ~EndsReading(b)
  <2>1. /\ e[1] \in Nat /\ e[2] \in Nat /\ e[1] >= 1 /\ e[2] >= 1
        /\ e[1] \in 1..Len(file.blocks) /\ e[2] \in 1..Len(file.blocks[e[1]])
        /\ Len(file.blocks[e[1]]) \in Nat
    BY <1>2, EventIdTypes
  <2>2. Before(e, Event(buff)) <=> e[1] < buff.block \/ (e[1] = buff.block /\ e[2] < buff.event)
    BY DEF Before, Event
  <2>3. e[1] = buff.block => e[2] < buff.event
    BY <1>1, <1>3, <2>1
  <2>4. e \in Range(out) <=> e[1] <= buff.block
    BY <1>1, <2>1, <2>2, <2>3
  <2>5. ASSUME e[1] <= buff.block
        PROVE  WholeBlock(file, e[1]) /\ \A b \in 1..e[1] : ~EndsReading(b)
    BY <1>1, <2>1, <2>5
  <2>6. ASSUME ~(e[1] <= buff.block), WholeBlock(file, e[1]), \A b \in 1..e[1] : ~EndsReading(b)
        PROVE  FALSE
    <3>1. next \in 1..e[1] /\ next <= Len(file.blocks) /\ next \in 1..Len(file.blocks) + 1
          /\ next + 1 \in 1..Len(file.blocks) + 1 /\ e[1] + 1 \in 1..Len(file.blocks) + 1
      BY <1>1, <1>2, <2>1, <2>6, SMTT(30)
    <3>2. ~WholeBlock(file, next)
      BY <1>4, <2>6, <3>1
    <3>3. BlockPos(file, next + 1) <= BlockPos(file, e[1] + 1)
      <4>1. next < e[1] + 1
        BY <2>1, <3>1
      <4>2. QED BY <1>2, <3>1, <4>1, BlocksApart
    <3>4. BlockPos(file, next + 1) \in Nat /\ BlockPos(file, e[1] + 1) \in Nat /\ file.size \in Nat
      BY <1>2, <3>1, BlockPositions, FileIs
    <3>5. BlockPos(file, e[1] + 1) <= file.size
      BY <2>6 DEF WholeBlock
    <3>6. BlockPos(file, next + 1) <= file.size
      BY <3>3, <3>4, <3>5
    <3>7. QED BY <3>2, <3>6 DEF WholeBlock
  <2>7. QED BY <2>4, <2>5, <2>6
<1>6. QED BY <1>4, <1>5

LEMMA ReadFailsKeeps ==
    ASSUME file \in Files, BlocksInv, ReadFails
    PROVE  BlocksInv'
<1>1. /\ ending = "reading" /\ event_type_mask = All /\ ~Loaded.ok /\ ending' = Loaded.ending
      /\ file' = file /\ event_type_mask' = event_type_mask /\ out' = out /\ rewinds' = rewinds
  BY DEF ReadFails, CanRead, fileVars
<1>2. SUFFICES ASSUME rewinds = 0 PROVE BlocksInv'
  BY <1>1 DEF BlocksInv
<1>3. BlocksGiven /\ AtBlock
  BY <1>1, <1>2 DEF BlocksInv
<1>4. /\ Loaded.ending # "reading"
      /\ \A e \in EventIds(file) :
            e \in Range(out) <=> WholeBlock(file, e[1]) /\ \A b \in 1..e[1] : ~EndsReading(b)
  BY <1>1, <1>3, NotLoadedIs
<1>5. BlocksGiven'
  BY <1>1, <1>3 DEF BlocksGiven, InOrder
<1>6. \A b : EndsReading(b)' <=> EndsReading(b)
  BY <1>1 DEF EndsReading, Larger, EdgeInHeader
<1>7. ReadLossIsKnown'
  BY <1>1, <1>4, <1>6 DEF ReadLossIsKnown
<1>8. ~(ending' = "reading")
  BY <1>1, <1>4
<1>9. QED BY <1>5, <1>7, <1>8 DEF BlocksInv

(* The buffers are those of a loaded block.                                *)
LEMMA StreamKept ==
    ASSUME file \in Files, NEW s, Buffered(s), Chunked(s), KeepStream(s), file' = file
    PROVE  Buffered(Stream)' /\ Chunked(Stream)' /\ fbuff'.next = s.fbuff.next
<1>1. ifs' = s.ifs /\ fbuff' = s.fbuff
  BY DEF KeepStream
<1>2. Stream' = [ifs |-> s.ifs, fbuff |-> s.fbuff, got |-> 0, joined |-> FALSE]
  BY <1>1 DEF Stream
<1>3. Stream' \in [ifs : [pos : Nat, failed : BOOLEAN], got : Nat, joined : BOOLEAN,
                   fbuff : [from : Nat, next : Nat, end : Nat]]
  BY <1>2 DEF Buffered
<1>4. Stream'.ifs = s.ifs /\ Stream'.fbuff = s.fbuff
  BY <1>2
<1>5. Buffered(Stream)'
  BY <1>3, <1>4, file' = file DEF Buffered
<1>6. Chunked(Stream)'
  BY <1>4 DEF Chunked
<1>7. QED BY <1>1, <1>5, <1>6

LEMMA ReadTooSmallKeeps ==
    ASSUME file \in Files, BlocksInv, ReadTooSmall
    PROVE  BlocksInv'
<1>1. /\ ending = "reading" /\ event_type_mask = All /\ Loaded.ok /\ ending' = ending
      /\ KeepStream(Loaded.s) /\ buff' = Loaded.buff
      /\ file' = file /\ event_type_mask' = event_type_mask /\ out' = out /\ rewinds' = rewinds
  BY DEF ReadTooSmall, CanRead, fileVars
<1>2. SUFFICES ASSUME rewinds = 0 PROVE BlocksInv'
  BY <1>1 DEF BlocksInv
<1>3. BlocksGiven /\ AtBlock
  BY <1>1, <1>2 DEF BlocksInv
<1>4. /\ Buffered(Loaded.s) /\ Chunked(Loaded.s)
      /\ Loaded.buff \in [size : Nat, block : Nat, event : Nat]
      /\ Loaded.buff.block \in 1..Len(file.blocks)
      /\ Loaded.buff.event \in 1..Len(file.blocks[Loaded.buff.block])
      /\ Loaded.s.fbuff.next = BlockPos(file, Loaded.buff.block + 1)
      /\ \A e \in EventIds(file) : e \in Range(out) <=> Before(e, Event(Loaded.buff))
      /\ \A b \in 1..Loaded.buff.block : WholeBlock(file, b) /\ ~EndsReading(b)
      /\ GrownTo(Loaded.buff.size, Loaded.buff.block)
  BY <1>1, <1>3, LoadedIs
<1>5. Buffered(Stream)' /\ Chunked(Stream)' /\ fbuff'.next = Loaded.s.fbuff.next
  BY <1>1, <1>4, StreamKept
<1> HIDE DEF Loaded
<1>6. BlocksGiven'
  BY <1>1, <1>3 DEF BlocksGiven, InOrder
<1>7. \A b : EndsReading(b)' <=> EndsReading(b)
  BY <1>1 DEF EndsReading, Larger, EdgeInHeader
<1>8. IsFile(file) /\ Len(file.blocks) \in Nat /\ Len(file.blocks[Loaded.buff.block]) \in Nat
  BY <1>4, FilesAssumption, FileIs
<1>9. /\ buff' \in [size : Nat, block : 0..Len(file.blocks), event : Nat]
      /\ buff'.event \in 1..Len(file.blocks[buff'.block]) + 1
  BY <1>1, <1>4, <1>8
<1>10. BlockPlace'
  BY <1>1, <1>4, <1>5, <1>7, <1>9 DEF BlockPlace, Event
<1>11. GrownTo(buff.size, buff.block)'
  BY <1>1, <1>4 DEF GrownTo
<1>12. AtBlock'
  BY <1>5, <1>10, <1>11 DEF AtBlock
<1>13. ReadLossIsKnown'
  BY <1>1 DEF ReadLossIsKnown
<1>14. QED BY <1>6, <1>12, <1>13 DEF BlocksInv

LEMMA ReadEventKeeps ==
    ASSUME file \in Files, BlocksInv, ReadEvent
    PROVE  BlocksInv'
<1> DEFINE e == Event(Loaded.buff)
<1>1. /\ ending = "reading" /\ event_type_mask = All /\ Loaded.ok /\ ending' = ending
      /\ KeepStream(Loaded.s) /\ buff' = [Loaded.buff EXCEPT !.event = @ + 1]
      /\ out' = Append(out, e)
      /\ file' = file /\ event_type_mask' = event_type_mask /\ rewinds' = rewinds
  BY DEF ReadEvent, CanRead, fileVars
<1>2. SUFFICES ASSUME rewinds = 0 PROVE BlocksInv'
  BY <1>1 DEF BlocksInv
<1>3. BlocksGiven /\ AtBlock
  BY <1>1, <1>2 DEF BlocksInv
<1>4. /\ Buffered(Loaded.s) /\ Chunked(Loaded.s)
      /\ Loaded.buff \in [size : Nat, block : Nat, event : Nat]
      /\ Loaded.buff.block \in 1..Len(file.blocks)
      /\ Loaded.buff.event \in 1..Len(file.blocks[Loaded.buff.block])
      /\ Loaded.s.fbuff.next = BlockPos(file, Loaded.buff.block + 1)
      /\ \A d \in EventIds(file) : d \in Range(out) <=> Before(d, Event(Loaded.buff))
      /\ \A b \in 1..Loaded.buff.block : WholeBlock(file, b) /\ ~EndsReading(b)
      /\ GrownTo(Loaded.buff.size, Loaded.buff.block)
  BY <1>1, <1>3, LoadedIs
<1>5. Buffered(Stream)' /\ Chunked(Stream)' /\ fbuff'.next = Loaded.s.fbuff.next
  BY <1>1, <1>4, StreamKept
<1> HIDE DEF Loaded
<1>6. buff' = [size |-> Loaded.buff.size, block |-> Loaded.buff.block, event |-> Loaded.buff.event + 1]
  BY <1>1, <1>4
<1>7. /\ buff'.block = Loaded.buff.block /\ buff'.event = Loaded.buff.event + 1
      /\ buff'.size = Loaded.buff.size
  BY <1>6
<1> DEFINE b == Loaded.buff.block
           i == Loaded.buff.event
<1>8. e = <<b, i>> /\ e[1] = b /\ e[2] = i
  BY DEF Event
<1>9. IsFile(file) /\ Len(file.blocks) \in Nat /\ Len(file.blocks[b]) \in Nat /\ file.size \in Nat
  BY <1>4, FilesAssumption, FileIs
<1>10. b \in Nat /\ i \in Nat /\ e \in EventIds(file)
  <2>1. b \in Nat /\ i \in Nat
    BY <1>4, <1>9
  <2>2. QED BY <1>4, <1>8, <1>9, <2>1, EventIdsAre
<1>11. out \in Seq(EventIds(file)) /\ InOrderOf(out) /\ \A k \in DOMAIN out : WholeEvent(file, out[k])
  BY <1>3 DEF BlocksGiven, InOrder, InOrderOf
<1>12. \A k \in DOMAIN out : Before(out[k], e)
  <2>1. \A k \in DOMAIN out : out[k] \in Range(out) /\ out[k] \in EventIds(file)
    BY <1>11 DEF Range
  <2>2. QED BY <1>4, <2>1
<1>13. /\ out' \in Seq(EventIds(file)) /\ InOrderOf(out')
       /\ \A d : d \in Range(out') <=> d \in Range(out) \/ d = e
  <2> HIDE DEF e
  <2>1. QED BY <1>1, <1>10, <1>11, <1>12, AppendInOrder
<1>14. WholeEvent(file, e)
  <2>1. b \in 1..b
    BY <1>4, <1>9
  <2>2. WholeBlock(file, b)
    BY <1>4, <2>1
  <2>3. /\ EventPos(file, e) \in Nat /\ EventLen(file, e) \in Nat
        /\ EventPos(file, e) + EventLen(file, e) <= BlockPos(file, b + 1)
    BY <1>8, <1>9, <1>10, EventPositions
  <2>4. BlockPos(file, b + 1) \in Nat
    <3>1. b + 1 \in 1..Len(file.blocks) + 1
      BY <1>4, <1>9
    <3>2. QED BY <1>9, <3>1, BlockPositions
  <2> HIDE DEF e, b
  <2>5. QED BY <1>9, <2>2, <2>3, <2>4 DEF WholeEvent, WholeBlock
<1>15. \A d \in Range(out') : WholeEvent(file, d)
  <2>1. \A d \in Range(out) : WholeEvent(file, d)
    BY <1>11 DEF Range
  <2>2. QED BY <1>13, <1>14, <2>1
<1>16. BlocksGiven'
  <2>1. \A k \in DOMAIN out' : WholeEvent(file, out'[k])
    BY <1>15 DEF Range
  <2>2. InOrder'
    BY <1>13 DEF InOrder, InOrderOf
  <2>3. QED BY <1>1, <1>13, <2>1, <2>2 DEF BlocksGiven
<1>17. ASSUME NEW d \in EventIds(file)
       PROVE  d \in Range(out') <=> Before(d, <<b, i + 1>>)
  <2>1. d[1] \in Nat /\ d[2] \in Nat /\ d = <<d[1], d[2]>>
    BY <1>9, EventIdTypes
  <2>2. d \in Range(out') <=> Before(d, <<b, i>>) \/ d = <<b, i>>
    BY <1>4, <1>8, <1>13
  <2>3. d = <<b, i>> <=> d[1] = b /\ d[2] = i
    BY <2>1
  <2> HIDE DEF b, i
  <2>4. Before(d, <<b, i>>) <=> d[1] < b \/ (d[1] = b /\ d[2] < i)
    BY DEF Before
  <2>5. Before(d, <<b, i + 1>>) <=> d[1] < b \/ (d[1] = b /\ d[2] < i + 1)
    BY DEF Before
  <2>6. d[2] < i + 1 <=> d[2] < i \/ d[2] = i
    BY <1>10, <2>1
  <2>7. QED BY <2>2, <2>3, <2>4, <2>5, <2>6
<1>18. \A c : EndsReading(c)' <=> EndsReading(c)
  BY <1>1 DEF EndsReading, Larger, EdgeInHeader
<1>19. /\ buff' \in [size : Nat, block : 0..Len(file.blocks), event : Nat]
       /\ buff'.event \in 1..Len(file.blocks[buff'.block]) + 1
  <2>1. b \in 0..Len(file.blocks) /\ i + 1 \in Nat /\ Loaded.buff.size \in Nat
    BY <1>4, <1>9, <1>10
  <2>2. i + 1 \in 1..Len(file.blocks[b]) + 1
    <3> DEFINE n == Len(file.blocks[b])
    <3>1. i \in 1..n /\ n \in Nat
      BY <1>4, <1>9
    <3> HIDE DEF n, i
    <3>2. i + 1 \in 1..n + 1
      BY <3>1
    <3>3. QED BY <3>2 DEF n
  <2>3. QED BY <1>6, <1>7, <2>1, <2>2
<1>20. Event(buff)' = <<b, i + 1>>
  BY <1>7 DEF Event
<1>21. BlockPlace'
  BY <1>1, <1>4, <1>5, <1>7, <1>17, <1>18, <1>19, <1>20 DEF BlockPlace
<1>22. GrownTo(buff.size, buff.block)'
  BY <1>1, <1>4, <1>7 DEF GrownTo
<1>23. AtBlock'
  BY <1>5, <1>21, <1>22 DEF AtBlock
<1>24. ReadLossIsKnown'
  BY <1>1 DEF ReadLossIsKnown
<1>25. QED BY <1>16, <1>23, <1>24 DEF BlocksInv

-----------------------------------------------------------------------------
(* Nothing changed.                                                        *)
LEMMA StutterKeeps ==
    ASSUME HdevioInv, UNCHANGED vars
    PROVE  HdevioInv'
<1>1. /\ UNCHANGED fileVars
      /\ file' = file /\ event_type_mask' = event_type_mask /\ ifs' = ifs /\ fbuff' = fbuff
      /\ buff' = buff /\ map' = map /\ sparse' = sparse /\ out' = out /\ ending' = ending
      /\ rewinds' = rewinds
  BY DEF vars, fileVars, readVars, sparseVars, callVars
<1>2. SparseInv'
  BY <1>1, SparseUnmoved DEF HdevioInv
<1>3. BlocksInv'
  <2>1. SUFFICES ASSUME event_type_mask = All, rewinds = 0
                 PROVE  /\ BlocksGiven'
                        /\ ending = "reading" => AtBlock'
                        /\ ReadLossIsKnown'
    BY <1>1 DEF BlocksInv
  <2>2. BlocksGiven /\ (ending = "reading" => AtBlock) /\ ReadLossIsKnown
    BY <2>1 DEF HdevioInv, BlocksInv
  <2>3. \A b : EndsReading(b)' <=> EndsReading(b)
    BY <1>1 DEF EndsReading, Larger, EdgeInHeader
  <2>4. BlocksGiven'
    BY <1>1, <2>2 DEF BlocksGiven, InOrder
  <2>5. ReadLossIsKnown'
    BY <1>1, <2>2, <2>3 DEF ReadLossIsKnown
  <2>6. ASSUME ending = "reading" PROVE AtBlock'
    <3>1. Stream' = Stream
      BY <1>1 DEF Stream
    <3>2. Buffered(Stream)'
      BY <1>1, <2>2, <2>6, <3>1 DEF AtBlock, Buffered
    <3>3. Chunked(Stream)'
      BY <2>2, <2>6, <3>1 DEF AtBlock, Chunked
    <3>4. BlockPlace'
      BY <1>1, <2>2, <2>3, <2>6 DEF AtBlock, BlockPlace, Event
    <3>5. GrownTo(buff.size, buff.block)'
      BY <1>1, <2>2, <2>6 DEF AtBlock, GrownTo
    <3>6. QED BY <3>2, <3>3, <3>4, <3>5 DEF AtBlock
  <2>7. QED BY <2>4, <2>5, <2>6
<1>4. QED BY <1>1, <1>2, <1>3 DEF HdevioInv

LEMMA HdevioInitially == Init => HdevioInv
<1>1. SUFFICES ASSUME Init PROVE HdevioInv
  OBVIOUS
<1>2. /\ file \in Files /\ rewinds = 0 /\ out = <<>> /\ ending = "reading"
      /\ ifs = [pos |-> 0, failed |-> FALSE] /\ fbuff = [from |-> 0, next |-> 0, end |-> 0]
      /\ buff = [size |-> FirstBuff, block |-> 0, event |-> 0]
      /\ map = ReadFileMap(mapFile) /\ sparse = [set |-> FALSE, block |-> 1, event |-> 1]
  BY <1>1 DEF Init
<1>3. IsFile(file) /\ Len(file.blocks) \in Nat /\ file.size \in Nat
  BY <1>2, FilesAssumption, FileIs
<1>4. ASSUME NEW e \in EventIds(file)
      PROVE  ~Before(e, <<0, 0>>) /\ ~Before(e, <<1, 1>>)
  <2>1. e[1] \in Nat /\ e[2] \in Nat /\ e[1] >= 1 /\ e[2] >= 1
    BY <1>3, EventIdTypes
  <2>2. QED BY <2>1 DEF Before
<1>5. out \in Seq(EventIds(file)) /\ DOMAIN out = {} /\ Range(out) = {} /\ InOrder
  <2>1. out \in Seq(EventIds(file)) /\ DOMAIN out = {}
    BY <1>2
  <2>2. QED BY <2>1 DEF Range, InOrder
<1>6. BlocksInv
  <2>1. BlocksGiven
    BY <1>5 DEF BlocksGiven
  <2>2. FirstBuff \in Nat /\ FirstBuff <= fbuff_size /\ fbuff_size \in Nat
    BY HdevioModesAssumption
  <2>3. Multiple(0)
    <3>1. 0 = 0 * fbuff_size
      BY <2>2
    <3>2. QED BY <3>1 DEF Multiple
  <2>4. Stream = [ifs |-> [pos |-> 0, failed |-> FALSE], got |-> 0, joined |-> FALSE,
                  fbuff |-> [from |-> 0, next |-> 0, end |-> 0]]
    BY <1>2 DEF Stream
  <2>5. Buffered(Stream)
    BY <1>3, <2>4 DEF Buffered
  <2>6. Chunked(Stream)
    BY <2>2, <2>3, <2>4 DEF Chunked
  <2>7. fbuff.next = BlockPos(file, buff.block + 1)
    <3>1. buff.block + 1 = 1 /\ fbuff.next = 0
      BY <1>2
    <3>2. QED BY <1>3, <3>1, BlockPositions
  <2>8. buff \in [size : Nat, block : 0..Len(file.blocks), event : Nat] /\ 1..buff.block = {}
    BY <1>2, <1>3, <2>2
  <2>9. Event(buff) = <<0, 0>> /\ buff.block = 0
    BY <1>2 DEF Event
  <2>10. BlockPlace
    BY <1>4, <1>5, <2>7, <2>8, <2>9 DEF BlockPlace
  <2>11. GrownTo(buff.size, buff.block)
    <3>1. buff.size = FirstBuff
      BY <1>2
    <3>2. QED BY <2>2, <2>8, <3>1 DEF GrownTo
  <2>12. ReadLossIsKnown
    BY <1>2 DEF ReadLossIsKnown
  <2>13. QED BY <2>1, <2>5, <2>6, <2>10, <2>11, <2>12 DEF BlocksInv, AtBlock
<1>7. SparseInv
  <2>1. map = MapBlocks \/ map = NoMap
    BY <1>2 DEF ReadFileMap
  <2>2. MapInv
    <3>1. map.is_mapped \in BOOLEAN /\ (map.is_mapped => map = MapBlocks)
      <4>1. MapBlocks.is_mapped = TRUE
        BY <1>2, MappedAre
      <4>2. NoMap.is_mapped = FALSE
        BY DEF NoMap
      <4>3. CASE map = MapBlocks
        BY <4>1, <4>3
      <4>4. CASE map = NoMap
        BY <4>2, <4>4
      <4>5. QED BY <2>1, <4>3, <4>4
    <3>2. QED BY <1>2, <3>1 DEF MapInv
  <2>3. Event(sparse) = <<1, 1>>
    BY <1>2 DEF Event
  <2>4. MapBlocks.evio_events \in SUBSET EventIds(file)
    BY <1>2, MappedAre
  <2>5. SparseGiven
    BY <1>4, <1>5, <2>3, <2>4 DEF SparseGiven
  <2>6. QED BY <1>2, <2>2, <2>5 DEF SparseInv
<1>8. QED BY <1>2, <1>6, <1>7 DEF HdevioInv

LEMMA HdevioStep == HdevioInv /\ [Next]_vars => HdevioInv'
<1>1. SUFFICES ASSUME HdevioInv, [Next]_vars PROVE HdevioInv'
  OBVIOUS
<1>2. file \in Files /\ rewinds \in Nat /\ BlocksInv /\ SparseInv
  BY <1>1 DEF HdevioInv
<1>3. ASSUME UNCHANGED fileVars, event_type_mask # All, rewinds' = rewinds PROVE BlocksInv'
  BY <1>3, SameFile DEF BlocksInv
<1>4. ASSUME UNCHANGED fileVars, event_type_mask = All, rewinds' = rewinds PROVE SparseInv'
  BY <1>4, SameFile DEF SparseInv
<1>5. ASSUME UNCHANGED fileVars PROVE file' \in Files
  BY <1>2, <1>5, SameFile
<1>6. CASE ReadFails
  <2>1. UNCHANGED fileVars /\ event_type_mask = All /\ rewinds' = rewinds
    BY <1>6 DEF ReadFails, CanRead
  <2>2. BlocksInv'
    BY <1>2, <1>6, ReadFailsKeeps
  <2>3. QED BY <1>2, <1>4, <1>5, <2>1, <2>2 DEF HdevioInv
<1>7. CASE ReadTooSmall
  <2>1. UNCHANGED fileVars /\ event_type_mask = All /\ rewinds' = rewinds
    BY <1>7 DEF ReadTooSmall, CanRead
  <2>2. BlocksInv'
    BY <1>2, <1>7, ReadTooSmallKeeps
  <2>3. QED BY <1>2, <1>4, <1>5, <2>1, <2>2 DEF HdevioInv
<1>8. CASE ReadEvent
  <2>1. UNCHANGED fileVars /\ event_type_mask = All /\ rewinds' = rewinds
    BY <1>8 DEF ReadEvent, CanRead
  <2>2. BlocksInv'
    BY <1>2, <1>8, ReadEventKeeps
  <2>3. QED BY <1>2, <1>4, <1>5, <2>1, <2>2 DEF HdevioInv
<1>9. CASE SparseUnset
  <2>1. UNCHANGED fileVars /\ event_type_mask # All /\ rewinds' = rewinds
    BY <1>9 DEF SparseUnset, CanReadSparse
  <2>2. UNCHANGED <<fileVars, map, sparse, out>> /\ ending' = "wild"
    BY <1>9 DEF SparseUnset, sparseVars
  <2>3. SparseInv'
    BY <1>2, <2>2, SparseUnmoved
  <2>4. QED BY <1>2, <1>3, <1>5, <2>1, <2>3 DEF HdevioInv
<1>10. CASE SparseEof
  <2>1. UNCHANGED fileVars /\ event_type_mask # All /\ rewinds' = rewinds
    BY <1>10 DEF SparseEof, CanReadSparse
  <2>2. SparseInv'
    BY <1>2, <1>10, SparseEofKeeps
  <2>3. QED BY <1>2, <1>3, <1>5, <2>1, <2>2 DEF HdevioInv
<1>11. CASE SparseTooSmall
  <2>1. UNCHANGED fileVars /\ event_type_mask # All /\ rewinds' = rewinds
    BY <1>11 DEF SparseTooSmall, CanReadSparse
  <2>2. SparseInv'
    BY <1>2, <1>11, SparseTooSmallKeeps
  <2>3. QED BY <1>2, <1>3, <1>5, <2>1, <2>2 DEF HdevioInv
<1>12. CASE SparseEvent
  <2>1. UNCHANGED fileVars /\ event_type_mask # All /\ rewinds' = rewinds
    BY <1>12 DEF SparseEvent, CanReadSparse
  <2>2. SparseInv'
    BY <1>2, <1>12, SparseEventKeeps
  <2>3. QED BY <1>2, <1>3, <1>5, <2>1, <2>2 DEF HdevioInv
<1>13. CASE rewind
  <2>1. UNCHANGED fileVars /\ rewinds' = rewinds + 1
    BY <1>13 DEF rewind
  <2>2. SparseInv'
    BY <1>2, <1>13, RewindKeepsSparse
  <2>3. rewinds' \in Nat /\ rewinds' # 0
    BY <1>2, <2>1
  <2>4. BlocksInv'
    BY <2>3 DEF BlocksInv
  <2>5. QED BY <1>5, <2>1, <2>2, <2>3, <2>4 DEF HdevioInv
<1>14. CASE UNCHANGED vars
  BY <1>1, <1>14, StutterKeeps
<1>15. QED
  BY <1>1, <1>6, <1>7, <1>8, <1>9, <1>10, <1>11, <1>12, <1>13, <1>14 DEF Next, read, readSparse

(* A reader that goes on as it should, in either way, in every state.      *)
THEOREM HdevioInvariant == Spec => []HdevioInv
<1>1. Init => HdevioInv
  BY HdevioInitially
<1>2. HdevioInv /\ [Next]_vars => HdevioInv'
  BY HdevioStep
<1>3. QED BY <1>1, <1>2, PTL DEF Spec

(* GivenOnce: neither way of reading gives an event twice, out of order or *)
(* of another type, and what is given is whole, but for the last event of  *)
(* a sparse reading.                                                       *)
THEOREM EventsGivenOnce == Spec => []GivenOnce
<1>1. HdevioInv => GivenOnce
  <2>1. SUFFICES ASSUME HdevioInv, event_type_mask # All \/ rewinds = 0
                 PROVE  /\ InOrder
                        /\ \A i \in DOMAIN out :
                              /\ event_type_mask # All => Wanted(out[i])
                              /\ WholeEvent(file, out[i]) \/ (event_type_mask # All /\ i = Len(out))
    BY DEF GivenOnce, InOrder
  <2>2. CASE event_type_mask = All
    <3>1. BlocksGiven
      BY <2>1, <2>2 DEF HdevioInv, BlocksInv
    <3>2. QED BY <2>2, <3>1 DEF BlocksGiven
  <2>3. CASE event_type_mask # All
    <3>1. SparseGiven /\ file \in Files
      BY <2>1, <2>3 DEF HdevioInv, SparseInv
    <3>2. out \in Seq(EventIds(file)) /\ DOMAIN out = 1..Len(out) /\ Len(out) \in Nat
      BY <3>1 DEF SparseGiven
    <3>3. ASSUME NEW i \in DOMAIN out, i # Len(out) PROVE WholeEvent(file, out[i])
      <4>1. i + 1 \in DOMAIN out /\ i < i + 1
        BY <3>2, <3>3
      <4>2. Before(out[i], out[i + 1])
        BY <3>1, <4>1 DEF SparseGiven, InOrder
      <4>3. out[i] \in MapBlocks.evio_events /\ out[i + 1] \in MapBlocks.evio_events
        BY <3>1, <4>1 DEF SparseGiven
      <4>4. QED BY <3>1, <4>2, <4>3, MappedBeforeIsWhole
    <3>4. QED BY <2>3, <3>1, <3>3 DEF SparseGiven
  <2>4. QED BY <2>2, <2>3
<1>2. QED BY <1>1, HdevioInvariant, PTL

(* ReadLossIsKnown: the reading by blocks gives all whole blocks up to the *)
(* first of those that it cannot read.                                     *)
THEOREM LossIsKnown == Spec => []ReadLossIsKnown
<1>1. HdevioInv => ReadLossIsKnown
  BY DEF HdevioInv, BlocksInv, ReadLossIsKnown
<1>2. QED BY <1>1, HdevioInvariant, PTL

(* SparseFindsAll: sparse reading, at the end of the file, has given every *)
(* whole event of a type asked for that has the words of an event header.  *)
THEOREM SparseComplete == Spec => []SparseFindsAll
<1>1. HdevioInv => SparseFindsAll
  <2>1. SUFFICES ASSUME HdevioInv, event_type_mask # All, ending = "eof", NEW e \in EventIds(file),
                        WholeEvent(file, e), EventLen(file, e) >= EventHeaderWords, Wanted(e)
                 PROVE  e \in Range(out)
    BY DEF SparseFindsAll
  <2>2. file \in Files /\ \A d \in MapBlocks.evio_events : Wanted(d) => d \in Range(out)
    BY <2>1 DEF HdevioInv, SparseInv
  <2>3. e \in MapBlocks.evio_events
    BY <2>1, <2>2, WholeAreMapped
  <2>4. QED BY <2>1, <2>2, <2>3
<1>2. QED BY <1>1, HdevioInvariant, PTL
-----------------------------------------------------------------------------
(* EvioReaders: both readers on one file.                                  *)

(* An event of a whole block is whole.                                     *)
LEMMA WholeInWholeBlock ==
    ASSUME NEW f, IsFile(f), NEW e \in EventIds(f), WholeBlock(f, e[1])
    PROVE  WholeEvent(f, e)
<1>1. /\ EventPos(f, e) \in Nat /\ EventLen(f, e) \in Nat
      /\ EventPos(f, e) + EventLen(f, e) <= BlockPos(f, e[1] + 1)
  BY EventPositions
<1>2. f.size \in Nat /\ Len(f.blocks) \in Nat
  BY FileIs
<1>3. e[1] + 1 \in 1..Len(f.blocks) + 1
  BY <1>2, EventIdTypes
<1>4. BlockPos(f, e[1] + 1) \in Nat /\ BlockPos(f, e[1] + 1) <= f.size
  BY <1>3, BlockPositions DEF WholeBlock
<1>5. QED BY <1>1, <1>2, <1>4 DEF WholeEvent

(* No event is whole where a header is the last thing in the file, or is   *)
(* not whole, or behind it.                                                *)
LEMMA NoneBehindEnd ==
    ASSUME NEW f, IsFile(f), NEW b \in 1..Len(f.blocks) + 1, NEW e \in EventIds(f), b <= e[1],
           WholeEvent(f, e)
    PROVE  BlockPos(f, b) + HeaderLen < f.size
<1>1. /\ EventPos(f, e) \in Nat /\ EventLen(f, e) \in Nat /\ EventLen(f, e) >= 1
      /\ BlockPos(f, e[1]) + HeaderLen <= EventPos(f, e)
  BY EventPositions
<1>2. f.size \in Nat /\ Len(f.blocks) \in Nat
  BY FileIs
<1>3. e[1] \in 1..Len(f.blocks) + 1 /\ e[1] \in Nat /\ b \in Nat
  BY <1>2, EventIdTypes
<1>4. BlockPos(f, b) \in Nat /\ BlockPos(f, e[1]) \in Nat
  BY <1>3, BlockPositions
<1>5. BlockPos(f, b) <= BlockPos(f, e[1])
  <2>1. CASE b = e[1]
    BY <1>4, <2>1
  <2>2. CASE b < e[1]
    <3>1. BlockPos(f, b) + HeaderLen <= BlockPos(f, e[1])
      BY <1>3, <2>2, BlocksApart
    <3>2. QED BY <1>4, <3>1 DEF HeaderLen
  <2>3. QED BY <1>3, <2>1, <2>2
<1>6. QED BY <1>1, <1>2, <1>4, <1>5 DEF WholeEvent, HeaderLen

(* An event behind one that is cut is cut.                                 *)
LEMMA CutBehindCut ==
    ASSUME NEW f, IsFile(f), NEW d \in EventIds(f), NEW e \in EventIds(f), Before(d, e),
           WholeEvent(f, e)
    PROVE  WholeEvent(f, d)
<1>1. /\ EventPos(f, d) \in Nat /\ EventLen(f, d) \in Nat
      /\ EventPos(f, e) \in Nat /\ EventLen(f, e) \in Nat
  BY EventPositions
<1>2. EventPos(f, d) + EventLen(f, d) <= EventPos(f, e)
  BY EventsApart
<1>3. f.size \in Nat
  BY FileIs
<1>4. QED BY <1>1, <1>2, <1>3 DEF WholeEvent

(* An event of three words is mapped when the file goes on for as many     *)
(* words as an event header has.                                           *)
LEMMA HeaderIsMapped ==
    ASSUME NEW f, IsFile(f), NEW e \in EventIds(f),
           EventPos(f, e) + EventHeaderWords <= f.size, EventLen(f, e) >= 3
    PROVE  IsMapped(f, e)
<1>1. /\ e[1] \in 1..Len(f.blocks) /\ e[2] \in 1..Len(f.blocks[e[1]]) /\ e = <<e[1], e[2]>>
      /\ e[1] \in Nat /\ e[2] \in Nat /\ Len(f.blocks[e[1]]) \in Nat
  BY EventIdTypes
<1>2. EventPos(f, e) \in Nat /\ EventLen(f, e) \in Nat
  BY EventPositions
<1>3. f.size \in Nat
  BY FileIs
<1>4. ASSUME NEW i \in 1..e[2]
      PROVE  ~(EventPos(f, <<e[1], i>>) + EventHeaderWords > f.size)
  <2> DEFINE d == <<e[1], i>>
  <2>1. d \in EventIds(f)
    <3>1. i \in 1..Len(f.blocks[e[1]])
      BY <1>1
    <3>2. QED BY <1>1, <3>1, EventIdsAre
  <2>2. EventPos(f, d) \in Nat /\ EventLen(f, d) \in Nat
    BY <2>1, EventPositions
  <2>3. CASE i = e[2]
    <3>1. d = e
      BY <1>1, <2>3
    <3> HIDE DEF d
    <3>2. ~(EventPos(f, d) + EventHeaderWords > f.size)
      BY <1>2, <1>3, <3>1 DEF EventHeaderWords
    <3>3. QED BY <3>2 DEF d
  <2>4. CASE i < e[2]
    <3>1. Before(d, e)
      BY <2>4 DEF Before
    <3> HIDE DEF d
    <3>2. EventPos(f, d) + EventLen(f, d) <= EventPos(f, e)
      BY <2>1, <3>1, EventsApart
    <3>3. EventPos(f, d) <= EventPos(f, e)
      BY <1>2, <2>2, <3>2
    <3>4. ~(EventPos(f, d) + EventHeaderWords > f.size)
      BY <1>2, <1>3, <2>2, <3>3 DEF EventHeaderWords
    <3>5. QED BY <3>4 DEF d
  <2>5. i = e[2] \/ i < e[2]
    BY <1>1
  <2>6. QED BY <2>3, <2>4, <2>5
<1>5. QED BY <1>4 DEF IsMapped

(* A file that was closed properly: its events are in the blocks before    *)
(* the trailer, whole and mapped.                                          *)
LEMMA ClosedIs ==
    ASSUME file \in Files, ClosedProperly
    PROVE  LET n == Len(file.blocks) IN
           /\ n \in Nat /\ n >= 1
           /\ \A e \in EventIds(file) : e[1] < n /\ WholeEvent(file, e) /\ IsMapped(file, e)
           /\ WordsLeft(n) = HeaderLen
           /\ \A b \in 1..n : /\ WholeBlock(file, b)
                              /\ b < n => /\ WordsLeft(b) >= BlockHeaderWords /\ ~SeemsToPassEnd(b)
                                          /\ <<b, 1>> \in EventIds(file)
<1> DEFINE n == Len(file.blocks)
<1>1. IsFile(file)
  BY FilesAssumption
<1>2. n \in Nat /\ file.size \in Nat /\ file.blocks \in Seq(Seq(Nat \ {0})) /\ DOMAIN file.blocks = 1..n
  BY <1>1, FileIs
<1>3. /\ file.size = FullSize(file.blocks)
      /\ \A b \in 1..n : file.blocks[b] = <<>> <=> b = n
      /\ \A e \in EventIds(file) : EventLen(file, e) >= 3
  BY <1>2 DEF ClosedProperly
<1>4. /\ \A b \in 1..n + 1 : BlockPos(file, b) \in Nat
      /\ BlockPos(file, 1) = 0
      /\ \A b \in 1..n : /\ BlockPos(file, b + 1) = BlockPos(file, b) + BlockLen(file.blocks[b])
                         /\ BlockLen(file.blocks[b]) \in Nat /\ BlockLen(file.blocks[b]) >= HeaderLen
      /\ BlockPos(file, n + 1) = file.size
  BY <1>1, <1>3, BlockPositions
<1>5. n >= 1
  <2>1. n = 0 => file.size = 0
    BY <1>4
  <2>2. file.size # 0
    BY <1>1, <1>2 DEF IsFile
  <2>3. QED BY <1>2, <2>1, <2>2
<1>6. n \in 1..n /\ n \in 1..n + 1
  BY <1>2, <1>5
<1>7. BlockPos(file, n) + HeaderLen = file.size
  <2>1. file.blocks[n] = <<>>
    BY <1>3, <1>6
  <2>2. <<>> \in Seq(Nat \ {0})
    OBVIOUS
  <2>3. BlockLen(file.blocks[n]) = HeaderLen
    BY <2>1, <2>2, BlockLenIs
  <2> HIDE DEF n
  <2>4. QED BY <1>4, <1>6, <2>3
<1>8. WordsLeft(n) = HeaderLen
  <2> HIDE DEF n
  <2>1. BlockPos(file, n) \in Nat /\ HeaderLen \in Nat
    BY <1>4, <1>6 DEF HeaderLen
  <2>2. QED BY <1>2, <1>7, <2>1 DEF WordsLeft
<1>9. ASSUME NEW e \in EventIds(file) PROVE e[1] < n /\ WholeEvent(file, e) /\ IsMapped(file, e)
  <2>1. /\ e[1] \in 1..n /\ e[2] \in 1..Len(file.blocks[e[1]]) /\ e[1] \in Nat
    BY <1>1, EventIdTypes
  <2>2. e[1] < n
    <3>1. e[1] = n => file.blocks[e[1]] = <<>>
      BY <1>3, <2>1
    <3>2. Len(<<>>) = 0
      OBVIOUS
    <3>3. file.blocks[e[1]] = <<>> => FALSE
      BY <2>1, <3>2
    <3>4. QED BY <1>2, <2>1, <3>1, <3>3
  <2> HIDE DEF n
  <2>3. e[1] \in 1..n + 1 /\ e[1] + 1 \in 1..n + 1
    BY <1>2, <2>1
  <2>4. BlockPos(file, e[1] + 1) <= BlockPos(file, n)
    BY <1>1, <1>6, <2>2, <2>3, BlocksApart DEF n
  <2>5. /\ EventPos(file, e) \in Nat /\ EventLen(file, e) \in Nat
        /\ EventPos(file, e) + EventLen(file, e) <= BlockPos(file, e[1] + 1)
    BY <1>1, EventPositions
  <2>6. EventLen(file, e) >= 3
    BY <1>3
  <2>7. BlockPos(file, e[1] + 1) \in Nat /\ BlockPos(file, n) \in Nat
    BY <1>4, <1>6, <2>3
  <2>8. EventPos(file, e) + EventLen(file, e) + HeaderLen <= file.size
    BY <1>2, <1>7, <2>4, <2>5, <2>7 DEF HeaderLen
  <2>9. WholeEvent(file, e)
    BY <1>2, <2>5, <2>8 DEF WholeEvent, HeaderLen
  <2>10. EventPos(file, e) + EventHeaderWords <= file.size
    BY <1>2, <2>5, <2>6, <2>8 DEF HeaderLen, EventHeaderWords
  <2>11. IsMapped(file, e)
    BY <1>1, <2>6, <2>10, HeaderIsMapped
  <2>12. QED BY <2>2, <2>9, <2>11
<1>10. ASSUME NEW b \in 1..n
       PROVE  /\ WholeBlock(file, b)
              /\ b < n => /\ WordsLeft(b) >= BlockHeaderWords /\ ~SeemsToPassEnd(b)
                          /\ <<b, 1>> \in EventIds(file)
  <2> HIDE DEF n
  <2>1. b + 1 \in 1..n + 1 /\ b \in 1..n + 1 /\ n + 1 \in 1..n + 1 /\ b \in Nat
    BY <1>2
  <2>2. BlockPos(file, b + 1) <= file.size
    <3>1. BlockPos(file, b + 1) <= BlockPos(file, n + 1)
      BY <1>1, <1>2, <2>1, BlocksApart DEF n
    <3>2. QED BY <1>4, <3>1
  <2>3. WholeBlock(file, b)
    BY <2>2 DEF WholeBlock
  <2>4. ASSUME b < n
        PROVE  WordsLeft(b) >= BlockHeaderWords /\ ~SeemsToPassEnd(b) /\ <<b, 1>> \in EventIds(file)
    <3> DEFINE e == <<b, 1>>
    <3>1. file.blocks[b] # <<>> /\ file.blocks[b] \in Seq(Nat \ {0})
      BY <1>1, <1>2, <1>3, <2>4, FileIs DEF n
    <3>2. 1 \in 1..Len(file.blocks[b])
      BY <3>1
    <3>3. e \in EventIds(file)
      <4>1. e = <<e[1], e[2]>> /\ e[1] = b /\ e[2] = 1
        OBVIOUS
      <4> HIDE DEF e
      <4>2. QED BY <1>1, <3>2, <4>1, EventIdsAre DEF n
    <3>4. e[1] = b
      OBVIOUS
    <3> HIDE DEF e
    <3>5. /\ EventPos(file, e) \in Nat /\ EventLen(file, e) \in Nat /\ EventLen(file, e) >= 3
          /\ BlockPos(file, b) + HeaderLen <= EventPos(file, e)
          /\ EventPos(file, e) + EventLen(file, e) <= BlockPos(file, b + 1)
      BY <1>1, <1>3, <3>3, <3>4, EventPositions
    <3>6. BlockPos(file, b + 1) + HeaderLen <= file.size
      <4>1. BlockPos(file, b + 1) <= BlockPos(file, n)
        BY <1>1, <1>6, <2>1, <2>4, BlocksApart DEF n
      <4>2. BlockPos(file, b + 1) \in Nat /\ BlockPos(file, n) \in Nat
        BY <1>4, <1>6, <2>1
      <4>3. QED BY <1>2, <1>7, <4>1, <4>2 DEF HeaderLen
    <3>7. BlockPos(file, b) \in Nat /\ BlockPos(file, b + 1) \in Nat
      BY <1>4, <2>1
    <3>8. WordsLeft(b) >= BlockHeaderWords
      BY <1>2, <3>5, <3>6, <3>7 DEF WordsLeft, HeaderLen, BlockHeaderWords
    <3>9. ~SeemsToPassEnd(b)
      <4>1. /\ BlockPos(file, b + 1) = BlockPos(file, b) + BlockLen(file.blocks[b])
            /\ BlockLen(file.blocks[b]) \in Nat
        BY <1>4
      <4>2. QED BY <1>2, <2>2, <3>7, <4>1 DEF SeemsToPassEnd
    <3>10. QED BY <3>3, <3>8, <3>9 DEF e
  <2>5. QED BY <2>3, <2>4
<1>11. QED BY <1>2, <1>5, <1>8, <1>9, <1>10

-----------------------------------------------------------------------------
(* What readNoFileBuff has given, and what it has mapped and not given, is *)
(* all that is mapped of the blocks before NB_next.                        *)
RecordInv ==
    /\ NB_next \in 1..Len(file.blocks) + 1
    /\ evio_events \in SUBSET EventIds(file)
    /\ \A e \in evio_events : e[1] = NB_next - 1 /\ IsMapped(file, e)
NoFileBuffGiven ==
    /\ h_out \in Seq(EventIds(file))
    /\ InOrderOf(h_out)
    /\ \A i \in DOMAIN h_out : /\ WholeEvent(file, h_out[i])
                               /\ h_out[i][1] < NB_next
                               /\ \A e \in evio_events : Before(h_out[i], e)
NoFileBuffComplete ==
    h_end = "reading" =>
        /\ \A e \in EventIds(file) :
              e[1] < NB_next /\ IsMapped(file, e) => e \in Range(h_out) \/ e \in evio_events
        /\ ClosedProperly => NB_next <= Len(file.blocks)
NoFileBuffInv ==
    /\ file \in Files
    /\ RecordInv /\ NoFileBuffGiven /\ NoFileBuffComplete
    /\ HdevioKeepsWholeEvents

(* What NextEvent has given is what is before its place in the file.       *)
AtEvent ==
    m_events_left > 0 =>
        /\ m_block > 1 /\ m_event = <<m_block - 1, m_event[2]>>
        /\ m_event[2] \in 1..Len(file.blocks[m_block - 1])
        /\ m_events_left = Len(file.blocks[m_block - 1]) - m_event[2] + 1
        /\ WholeBlock(file, m_block - 1)
NextEventGiven ==
    /\ m_out \in Seq(EventIds(file))
    /\ InOrderOf(m_out)
    /\ \A e \in EventIds(file) :
          e \in Range(m_out) <=> e[1] < m_block /\ (m_events_left > 0 => Before(e, m_event))
NextEventInv ==
    /\ file \in Files
    /\ m_block \in 1..Len(file.blocks) + 1 /\ m_events_left \in Nat
    /\ AtEvent /\ NextEventGiven
    /\ \A i \in DOMAIN m_out : WholeEvent(file, m_out[i])
    /\ m_end # "reading" => /\ m_events_left = 0
                            /\ WordsLeft(m_block) <= HeaderLen \/ ~WholeBlock(file, m_block)
ReadersInv == NoFileBuffInv /\ NextEventInv

-----------------------------------------------------------------------------
(* What readNoFileBuff has in hand.                                        *)
LEMMA RecordIs ==
    ASSUME NoFileBuffInv, HdevioCanRead,
           NEW next, next = IF evio_events = {} THEN NB_next + 1 ELSE NB_next
    PROVE  /\ NB_next \in Nat /\ next \in 1..Len(file.blocks) + 1 /\ NB_next <= next
           /\ Record \in SUBSET EventIds(file)
           /\ \A e \in Record : e[1] = next - 1 /\ IsMapped(file, e)
           /\ \A i \in DOMAIN h_out : h_out[i][1] < next /\ \A e \in Record : Before(h_out[i], e)
           /\ \A e \in EventIds(file) :
                 e[1] < next /\ IsMapped(file, e) => e \in Range(h_out) \/ e \in Record
           /\ Record # {} => First \in Record /\ \A d \in Record : ~Before(d, First)
           /\ ClosedProperly => next <= Len(file.blocks) /\ Record # {}
           /\ evio_events = {} => /\ NB_next \in 1..Len(file.blocks) /\ next = NB_next + 1
                                  /\ WordsLeft(NB_next) >= BlockHeaderWords
                                  /\ ~SeemsToPassEnd(NB_next)
<1> DEFINE n == Len(file.blocks)
<1>1. IsFile(file) /\ file \in Files
  BY FilesAssumption DEF NoFileBuffInv
<1>2. n \in Nat /\ file.size \in Nat /\ DOMAIN file.blocks = 1..n
  BY <1>1, FileIs
<1>3. NB_next \in 1..n + 1 /\ evio_events \in SUBSET EventIds(file)
      /\ \A e \in evio_events : e[1] = NB_next - 1 /\ IsMapped(file, e)
  BY DEF NoFileBuffInv, RecordInv
<1>4. /\ h_end = "reading"
      /\ \A e \in EventIds(file) :
            e[1] < NB_next /\ IsMapped(file, e) => e \in Range(h_out) \/ e \in evio_events
      /\ ClosedProperly => NB_next <= n
  BY DEF NoFileBuffInv, NoFileBuffComplete, HdevioCanRead
<1>5. \A i \in DOMAIN h_out : h_out[i][1] < NB_next /\ \A e \in evio_events : Before(h_out[i], e)
  BY DEF NoFileBuffInv, NoFileBuffGiven
<1>6. h_out \in Seq(EventIds(file))
  BY DEF NoFileBuffInv, NoFileBuffGiven
<1>7. \A e \in EventIds(file) : e[1] \in Nat /\ e[2] \in Nat
  BY <1>1, EventIdTypes
<1>8. \A i \in DOMAIN h_out : h_out[i][1] \in Nat
  BY <1>6, <1>7
<1>9. Record # {} /\ Record \in SUBSET EventIds(file) => First \in Record /\ \A d \in Record : ~Before(d, First)
  <2>1. SUFFICES ASSUME Record # {}, Record \in SUBSET EventIds(file)
                 PROVE  First \in Record /\ \A d \in Record : ~Before(d, First)
    OBVIOUS
  <2>2. \E e \in Record : \A d \in Record : ~Before(d, e)
    BY <1>1, <2>1, FirstOfEvents
  <2>3. QED BY <2>2 DEF First
<1>10. CASE evio_events # {}
  <2>1. Record = evio_events /\ next = NB_next
    BY <1>10 DEF Record
  <2> HIDE DEF n
  <2>2. NB_next \in Nat /\ NB_next <= NB_next
    BY <1>2, <1>3
  <2>3. QED BY <1>3, <1>4, <1>5, <1>9, <1>10, <2>1, <2>2 DEF n
<1>11. CASE evio_events = {}
  <2>1. Record = MapEvents(file, NB_next) /\ next = NB_next + 1
    BY <1>11 DEF Record
  <2>2. WordsLeft(NB_next) >= BlockHeaderWords /\ ~SeemsToPassEnd(NB_next) /\ ~AtTrailer
    BY <1>11 DEF HdevioCanRead, HeaderFails
  <2>3. NB_next # n + 1
    <3>1. BlockPos(file, n + 1) = FullSize(file.blocks) /\ BlockPos(file, n + 1) \in Nat
      <4>1. n + 1 \in 1..n + 1
        BY <1>2
      <4>2. QED BY <1>1, <4>1, BlockPositions
    <3>2. file.size <= FullSize(file.blocks)
      BY <1>1, FileIs
    <3> HIDE DEF n
    <3>3. NB_next = n + 1 => WordsLeft(NB_next) = file.size - BlockPos(file, n + 1)
      BY DEF WordsLeft
    <3>4. file.size - BlockPos(file, n + 1) < BlockHeaderWords
      BY <1>2, <3>1, <3>2 DEF BlockHeaderWords
    <3>5. QED BY <1>2, <2>2, <3>1, <3>3, <3>4 DEF BlockHeaderWords
  <2>4. NB_next \in 1..n /\ next \in 1..n + 1 /\ NB_next \in Nat /\ NB_next <= next /\ next - 1 = NB_next
    <3> HIDE DEF n
    <3>1. QED BY <1>2, <1>3, <2>1, <2>3
  <2>5. \A e : e \in Record <=> e \in EventIds(file) /\ e[1] = NB_next /\ IsMapped(file, e)
    <3>1. DOMAIN file.blocks[NB_next] = 1..Len(file.blocks[NB_next])
      BY <1>1, <2>4, FileIs
    <3>2. \A e : e \in {NB_next} \X DOMAIN file.blocks[NB_next] <=> e \in EventIds(file) /\ e[1] = NB_next
      <4>1. ASSUME NEW e \in {NB_next} \X DOMAIN file.blocks[NB_next]
            PROVE  e \in EventIds(file) /\ e[1] = NB_next
        <5>1. e = <<e[1], e[2]>> /\ e[1] = NB_next /\ e[2] \in 1..Len(file.blocks[NB_next])
          BY <3>1
        <5>2. QED BY <1>1, <2>4, <5>1, EventIdsAre
      <4>2. ASSUME NEW e \in EventIds(file), e[1] = NB_next
            PROVE  e \in {NB_next} \X DOMAIN file.blocks[NB_next]
        <5>1. e = <<e[1], e[2]>> /\ e[2] \in 1..Len(file.blocks[NB_next])
          BY <1>1, <4>2, EventIdsAre
        <5>2. QED BY <3>1, <4>2, <5>1
      <4>3. QED BY <4>1, <4>2
    <3>3. QED BY <2>1, <3>2 DEF MapEvents
  <2>6. Record \in SUBSET EventIds(file) /\ \A e \in Record : e[1] = next - 1 /\ IsMapped(file, e)
    BY <2>4, <2>5
  <2>7. ASSUME NEW i \in DOMAIN h_out
        PROVE  h_out[i][1] < next /\ \A e \in Record : Before(h_out[i], e)
    <3>1. h_out[i][1] < NB_next /\ h_out[i][1] \in Nat
      BY <1>5, <1>8
    <3>2. \A e \in Record : e[1] = NB_next
      BY <2>5
    <3>3. h_out[i][1] < next
      BY <2>1, <2>4, <3>1
    <3>4. QED BY <3>1, <3>2, <3>3 DEF Before
  <2>8. ASSUME NEW e \in EventIds(file), e[1] < next, IsMapped(file, e)
        PROVE  e \in Range(h_out) \/ e \in Record
    <3>1. e[1] \in Nat
      BY <1>7
    <3>2. e[1] < NB_next \/ e[1] = NB_next
      BY <2>1, <2>4, <2>8, <3>1
    <3>3. QED BY <1>4, <1>11, <2>5, <2>8, <3>2
  <2>9. ASSUME ClosedProperly PROVE next <= n /\ Record # {}
    <3>1. /\ WordsLeft(n) = HeaderLen
          /\ \A b \in 1..n : b < n => <<b, 1>> \in EventIds(file)
          /\ \A e \in EventIds(file) : IsMapped(file, e)
      BY <1>1, <2>9, ClosedIs
    <3>2. NB_next # n
      BY <1>11, <2>2, <3>1 DEF AtTrailer
    <3> HIDE DEF n
    <3>3. NB_next < n
      BY <1>2, <2>4, <3>2
    <3>4. next <= n
      BY <1>2, <2>1, <2>4, <3>3
    <3> DEFINE e == <<NB_next, 1>>
    <3>5. e \in EventIds(file) /\ e[1] = NB_next
      BY <2>4, <3>1, <3>3
    <3> HIDE DEF e
    <3>6. e \in Record
      BY <2>5, <3>1, <3>5
    <3>7. QED BY <3>4, <3>6
  <2>10. QED BY <1>9, <1>11, <2>1, <2>2, <2>4, <2>6, <2>7, <2>8, <2>9
<1>12. QED BY <1>10, <1>11

-----------------------------------------------------------------------------
(* The steps of readNoFileBuff.                                            *)

(* Mapped are, of a file of which the events have the words of an event    *)
(* header, all that are whole.                                             *)
LongEvents == \A e \in EventIds(file) : EventLen(file, e) >= EventHeaderWords
LEMMA LongAreMapped ==
    ASSUME file \in Files, NEW e \in EventIds(file), WholeEvent(file, e), LongEvents
    PROVE  /\ IsMapped(file, e)
           /\ \A b \in 1..e[1] : WordsLeft(b) >= BlockHeaderWords
<1>1. IsFile(file)
  BY FilesAssumption
<1>2. /\ EventPos(file, e) \in Nat /\ EventLen(file, e) \in Nat /\ EventLen(file, e) >= 7
      /\ BlockPos(file, e[1]) + HeaderLen <= EventPos(file, e)
  BY <1>1, EventPositions DEF LongEvents, EventHeaderWords
<1>3. file.size \in Nat /\ Len(file.blocks) \in Nat
  BY <1>1, FileIs
<1>4. EventPos(file, e) + EventHeaderWords <= file.size
  BY <1>2, <1>3 DEF WholeEvent, EventHeaderWords
<1>5. IsMapped(file, e)
  BY <1>1, <1>2, <1>4, HeaderIsMapped
<1>6. ASSUME NEW b \in 1..e[1] PROVE WordsLeft(b) >= BlockHeaderWords
  <2>1. e[1] \in 1..Len(file.blocks) /\ e[1] \in Nat
    BY <1>1, EventIdTypes
  <2>2. b \in 1..Len(file.blocks) + 1 /\ e[1] \in 1..Len(file.blocks) + 1 /\ b \in Nat /\ b <= e[1]
    BY <1>3, <2>1
  <2>3. BlockPos(file, b) \in Nat /\ BlockPos(file, e[1]) \in Nat
    BY <1>1, <2>2, BlockPositions
  <2>4. BlockPos(file, b) <= BlockPos(file, e[1])
    <3>1. CASE b = e[1]
      BY <2>3, <3>1
    <3>2. CASE b < e[1]
      <4>1. BlockPos(file, b) + HeaderLen <= BlockPos(file, e[1])
        BY <1>1, <2>2, <3>2, BlocksApart
      <4>2. QED BY <2>3, <4>1 DEF HeaderLen
    <3>3. QED BY <2>1, <2>2, <3>1, <3>2
  <2>5. QED BY <1>2, <1>3, <1>4, <2>3, <2>4 DEF WordsLeft, HeaderLen, EventHeaderWords, BlockHeaderWords
<1>7. QED BY <1>5, <1>6

(* What was to be kept, in the words of the next state.                    *)
LEMMA KeptIs ==
    ASSUME file' = file,
           ASSUME ~IsForeign(file), LongEvents,
                  \A b \in 1..Len(file.blocks) : file.blocks[b] = <<>> => b = Len(file.blocks),
                  NEW e \in EventIds(file), WholeEvent(file, e), ~SeemsToPassEnd(e[1])
           PROVE  e \in Range(h_out'),
           file \in Files
    PROVE  HdevioKeepsWholeEvents'
<1>1. DOMAIN file.blocks = 1..Len(file.blocks)
  BY FilesAssumption, FileIs
<1>2. SUFFICES ASSUME ~IsForeign(file),
                      \A b \in DOMAIN file.blocks : file.blocks[b] = <<>> => b = Len(file.blocks),
                      \A e \in EventIds(file) : EventLen(file, e) >= EventHeaderWords,
                      NEW e \in EventIds(file), WholeEvent(file, e), ~SeemsToPassEnd(e[1])
               PROVE  e \in Range(h_out')
  BY DEF HdevioKeepsWholeEvents, SeemsToPassEnd
<1>3. QED BY <1>1, <1>2 DEF LongEvents

LEMMA HdevioEofKeeps ==
    ASSUME NoFileBuffInv, HdevioEof
    PROVE  NoFileBuffInv' /\ \A e \in EventIds(file) : ClosedProperly => e \in Range(h_out)
<1>1. /\ h_end' = "eof" /\ h_end = "reading" /\ AtTrailer
      /\ UNCHANGED <<file, NB_next, evio_events, h_out>>
  BY DEF HdevioEof
<1>2. IsFile(file) /\ file \in Files
  BY FilesAssumption DEF NoFileBuffInv
<1>3. /\ evio_events = {} /\ WordsLeft(NB_next) = HeaderLen
      /\ NB_next \in 1..Len(file.blocks) + 1
      /\ \A e \in EventIds(file) : e[1] < NB_next /\ IsMapped(file, e) => e \in Range(h_out)
  BY <1>1 DEF AtTrailer, NoFileBuffInv, NoFileBuffComplete, RecordInv
<1>4. ASSUME NEW e \in EventIds(file), WholeEvent(file, e), IsMapped(file, e)
      PROVE  e \in Range(h_out)
  <2>1. BlockPos(file, NB_next) \in Nat /\ file.size \in Nat /\ e[1] \in Nat /\ NB_next \in Nat
    BY <1>2, <1>3, BlockPositions, FileIs, EventIdTypes
  <2>2. ~(BlockPos(file, NB_next) + HeaderLen < file.size)
    BY <1>3, <2>1 DEF WordsLeft, HeaderLen
  <2>3. ~(NB_next <= e[1])
    BY <1>2, <1>3, <1>4, <2>2, NoneBehindEnd
  <2>4. e[1] < NB_next
    BY <2>1, <2>3
  <2>5. QED BY <1>3, <1>4, <2>4
<1>5. HdevioKeepsWholeEvents'
  <2>1. ASSUME LongEvents, NEW e \in EventIds(file), WholeEvent(file, e)
        PROVE  e \in Range(h_out')
    BY <1>1, <1>2, <1>4, <2>1, LongAreMapped
  <2>2. QED BY <1>1, <1>2, <2>1, KeptIs
<1>6. ASSUME NEW e \in EventIds(file), ClosedProperly PROVE e \in Range(h_out)
  BY <1>2, <1>4, <1>6, ClosedIs
<1>7. RecordInv' /\ NoFileBuffGiven'
  BY <1>1 DEF NoFileBuffInv, RecordInv, NoFileBuffGiven, InOrderOf
<1>8. NoFileBuffComplete'
  BY <1>1 DEF NoFileBuffComplete
<1>9. QED BY <1>1, <1>2, <1>5, <1>6, <1>7, <1>8 DEF NoFileBuffInv

LEMMA HdevioHeaderFailsKeeps ==
    ASSUME NoFileBuffInv, HdevioHeaderFails
    PROVE  NoFileBuffInv' /\ ~ClosedProperly
<1>1. /\ h_end' = "error" /\ h_end = "reading" /\ HeaderFails
      /\ UNCHANGED <<file, NB_next, evio_events, h_out>>
  BY DEF HdevioHeaderFails
<1>2. IsFile(file) /\ file \in Files
  BY FilesAssumption DEF NoFileBuffInv
<1>3. /\ evio_events = {} /\ ~AtTrailer
      /\ WordsLeft(NB_next) >= BlockHeaderWords => SeemsToPassEnd(NB_next)
      /\ NB_next \in 1..Len(file.blocks) + 1
      /\ \A e \in EventIds(file) : e[1] < NB_next /\ IsMapped(file, e) => e \in Range(h_out)
      /\ ClosedProperly => NB_next <= Len(file.blocks)
  BY <1>1 DEF HeaderFails, NoFileBuffInv, NoFileBuffComplete, RecordInv
<1>4. Len(file.blocks) \in Nat /\ NB_next \in Nat /\ file.size \in Nat
  BY <1>2, <1>3, FileIs
<1>5. ~ClosedProperly
  <2> SUFFICES ASSUME ClosedProperly PROVE FALSE
    OBVIOUS
  <2>1. /\ WordsLeft(Len(file.blocks)) = HeaderLen
        /\ \A b \in 1..Len(file.blocks) : b < Len(file.blocks) =>
              WordsLeft(b) >= BlockHeaderWords /\ ~SeemsToPassEnd(b)
    BY <1>2, ClosedIs
  <2>2. NB_next # Len(file.blocks)
    BY <1>3, <2>1 DEF AtTrailer
  <2>3. NB_next < Len(file.blocks) /\ NB_next \in 1..Len(file.blocks)
    BY <1>3, <1>4, <2>2
  <2>4. QED BY <1>3, <2>1, <2>3
<1>6. HdevioKeepsWholeEvents'
  <2>1. ASSUME LongEvents, NEW e \in EventIds(file), WholeEvent(file, e), ~SeemsToPassEnd(e[1])
        PROVE  e \in Range(h_out')
    <3>1. IsMapped(file, e) /\ \A b \in 1..e[1] : WordsLeft(b) >= BlockHeaderWords
      BY <1>2, <2>1, LongAreMapped
    <3>2. e[1] \in 1..Len(file.blocks) /\ e[1] \in Nat
      BY <1>2, EventIdTypes
    <3>3. CASE e[1] < NB_next
      BY <1>1, <1>3, <3>1, <3>3
    <3>4. CASE e[1] = NB_next
      <4>1. NB_next \in 1..e[1]
        BY <1>3, <1>4, <3>4
      <4>2. QED BY <1>3, <2>1, <3>1, <3>4, <4>1
    <3>5. CASE NB_next < e[1]
      <4>1. SeemsToPassEnd(NB_next)
        <5>1. NB_next \in 1..e[1]
          BY <1>3, <1>4, <3>2, <3>5
        <5>2. QED BY <1>3, <3>1, <5>1
      <4>2. /\ NB_next \in 1..Len(file.blocks)
            /\ e[1] \in 1..Len(file.blocks) + 1
            /\ NB_next + 1 \in 1..Len(file.blocks) + 1
        BY <1>3, <1>4, <3>2, <3>5
      <4>3. BlockPos(file, NB_next + 1) <= BlockPos(file, e[1])
        BY <1>2, <1>3, <3>5, <4>2, BlocksApart
      <4>4. /\ BlockPos(file, NB_next + 1) = BlockPos(file, NB_next) + BlockLen(file.blocks[NB_next])
            /\ BlockPos(file, NB_next) \in Nat /\ BlockLen(file.blocks[NB_next]) \in Nat
            /\ BlockPos(file, e[1]) \in Nat
        BY <1>2, <1>3, <4>2, BlockPositions
      <4>5. WordsLeft(e[1]) >= BlockHeaderWords
        <5>1. e[1] \in 1..e[1]
          BY <3>2
        <5>2. QED BY <3>1, <5>1
      <4>6. BlockPos(file, e[1]) <= file.size
        BY <1>4, <4>4, <4>5 DEF WordsLeft, BlockHeaderWords
      <4>7. ~SeemsToPassEnd(NB_next)
        BY <1>4, <4>3, <4>4, <4>6 DEF SeemsToPassEnd
      <4>8. QED BY <4>1, <4>7
    <3>6. QED BY <1>4, <3>2, <3>3, <3>4, <3>5
  <2>2. QED BY <1>1, <1>2, <2>1, KeptIs
<1>7. RecordInv' /\ NoFileBuffGiven'
  BY <1>1 DEF NoFileBuffInv, RecordInv, NoFileBuffGiven, InOrderOf
<1>8. NoFileBuffComplete'
  BY <1>1 DEF NoFileBuffComplete
<1>9. QED BY <1>1, <1>2, <1>5, <1>6, <1>7, <1>8 DEF NoFileBuffInv

(* A step that reads on in the record, or in the next block, and gives     *)
(* nothing.                                                                *)
LEMMA RecordKept ==
    ASSUME NoFileBuffInv, HdevioCanRead, AdvanceBlock, evio_events' \in SUBSET Record,
           UNCHANGED <<file, h_out>>
    PROVE  RecordInv' /\ NoFileBuffGiven'
<1> DEFINE next == IF evio_events = {} THEN NB_next + 1 ELSE NB_next
<1>1. next = IF evio_events = {} THEN NB_next + 1 ELSE NB_next
  OBVIOUS
<1>2. NB_next' = next
  BY DEF AdvanceBlock
<1> HIDE DEF next
<1>3. /\ next \in 1..Len(file.blocks) + 1
      /\ Record \in SUBSET EventIds(file)
      /\ \A e \in Record : e[1] = next - 1 /\ IsMapped(file, e)
      /\ \A i \in DOMAIN h_out : h_out[i][1] < next /\ \A e \in Record : Before(h_out[i], e)
  BY <1>1, RecordIs
<1>4. /\ h_out \in Seq(EventIds(file)) /\ InOrderOf(h_out)
      /\ \A i \in DOMAIN h_out : WholeEvent(file, h_out[i])
  BY DEF NoFileBuffInv, NoFileBuffGiven
<1>5. file' = file /\ h_out' = h_out
  OBVIOUS
<1>6. RecordInv'
  BY <1>2, <1>3, <1>5 DEF RecordInv
<1>7. NoFileBuffGiven'
  BY <1>2, <1>3, <1>4, <1>5 DEF NoFileBuffGiven, InOrderOf
<1>8. QED BY <1>6, <1>7

LEMMA HdevioNoEventsKeeps ==
    ASSUME NoFileBuffInv, HdevioNoEvents
    PROVE  NoFileBuffInv' /\ ~ClosedProperly
<1> DEFINE next == IF evio_events = {} THEN NB_next + 1 ELSE NB_next
<1>1. /\ h_end' = "eof" /\ HdevioCanRead /\ Record = {} /\ AdvanceBlock
      /\ UNCHANGED <<file, evio_events, h_out>>
  BY DEF HdevioNoEvents
<1>2. IsFile(file) /\ file \in Files
  BY FilesAssumption DEF NoFileBuffInv
<1>3. evio_events = {}
  BY <1>1 DEF Record
<1>4. next = NB_next + 1 /\ next = IF evio_events = {} THEN NB_next + 1 ELSE NB_next
  BY <1>3
<1> HIDE DEF next
<1>5. /\ NB_next \in 1..Len(file.blocks)
      /\ \A i \in DOMAIN h_out : h_out[i][1] < NB_next
      /\ \A e \in EventIds(file) : e[1] < next /\ IsMapped(file, e) => e \in Range(h_out)
      /\ ~ClosedProperly
  <2>1. \A i \in DOMAIN h_out : h_out[i][1] < NB_next
    BY DEF NoFileBuffInv, NoFileBuffGiven
  <2>2. QED BY <1>1, <1>3, <1>4, <2>1, RecordIs
<1>6. Len(file.blocks) \in Nat /\ NB_next \in Nat
  BY <1>2, <1>5, FileIs
<1>7. HdevioKeepsWholeEvents'
  <2>1. ASSUME LongEvents, NEW e \in EventIds(file), WholeEvent(file, e),
               \A b \in 1..Len(file.blocks) : file.blocks[b] = <<>> => b = Len(file.blocks)
        PROVE  e \in Range(h_out')
    <3>1. e[1] \in 1..Len(file.blocks) /\ e[1] \in Nat
      BY <1>2, EventIdTypes
    <3>2. CASE e[1] < next
      BY <1>1, <1>2, <1>5, <2>1, <3>2, LongAreMapped
    <3>3. CASE ~(e[1] < next)
      <4>1. NB_next < e[1] /\ NB_next # Len(file.blocks)
        BY <1>4, <1>5, <1>6, <3>1, <3>3
      <4>2. file.blocks[NB_next] # <<>> /\ file.blocks[NB_next] \in Seq(Nat \ {0})
        BY <1>2, <1>5, <2>1, <4>1, FileIs
      <4>3. 1 \in 1..Len(file.blocks[NB_next])
        BY <4>2
      <4> DEFINE d == <<NB_next, 1>>
      <4>4. d = <<d[1], d[2]>> /\ d[1] = NB_next /\ d[2] = 1
        OBVIOUS
      <4> HIDE DEF d
      <4>5. d \in EventIds(file)
        BY <1>2, <1>5, <4>3, <4>4, EventIdsAre
      <4>6. Before(d, e)
        BY <4>1, <4>4 DEF Before
      <4>7. WholeEvent(file, d)
        BY <1>2, <2>1, <4>5, <4>6, CutBehindCut
      <4>8. IsMapped(file, d)
        BY <1>2, <2>1, <4>5, <4>7, LongAreMapped
      <4>9. d[1] < next
        BY <1>4, <1>6, <4>4
      <4>10. d \in Range(h_out)
        BY <1>5, <4>5, <4>8, <4>9
      <4>11. d[1] < NB_next
        BY <1>5, <4>10 DEF Range
      <4>12. QED BY <1>6, <4>4, <4>11
    <3>4. QED BY <3>2, <3>3
  <2>2. QED BY <1>1, <1>2, <2>1, KeptIs
<1>8. RecordInv' /\ NoFileBuffGiven'
  BY <1>1, <1>3, RecordKept
<1>9. NoFileBuffComplete'
  BY <1>1 DEF NoFileBuffComplete
<1>10. QED BY <1>1, <1>2, <1>5, <1>7, <1>8, <1>9 DEF NoFileBuffInv

LEMMA HdevioTooSmallKeeps ==
    ASSUME NoFileBuffInv, HdevioTooSmall
    PROVE  NoFileBuffInv'
<1> DEFINE next == IF evio_events = {} THEN NB_next + 1 ELSE NB_next
<1>1. /\ HdevioCanRead /\ AdvanceBlock /\ evio_events' = Record
      /\ UNCHANGED <<file, h_out, h_end>>
  BY DEF HdevioTooSmall
<1>2. NB_next' = next /\ next = IF evio_events = {} THEN NB_next + 1 ELSE NB_next
  BY <1>1 DEF AdvanceBlock
<1> HIDE DEF next
<1>3. RecordInv' /\ NoFileBuffGiven'
  BY <1>1, RecordKept
<1>4. h_end = "reading"
  BY <1>1 DEF HdevioCanRead
<1>5. NoFileBuffComplete'
  <2>1. /\ \A e \in EventIds(file) :
              e[1] < next /\ IsMapped(file, e) => e \in Range(h_out) \/ e \in Record
        /\ ClosedProperly => next <= Len(file.blocks)
    BY <1>1, <1>2, RecordIs
  <2>2. ClosedProperly' = ClosedProperly
    BY <1>1 DEF ClosedProperly
  <2>3. QED BY <1>1, <1>2, <2>1, <2>2 DEF NoFileBuffComplete
<1>6. HdevioKeepsWholeEvents'
  BY <1>1, <1>4 DEF HdevioKeepsWholeEvents
<1>7. file' \in Files
  BY <1>1 DEF NoFileBuffInv
<1>8. QED BY <1>3, <1>5, <1>6, <1>7 DEF NoFileBuffInv

LEMMA HdevioEventCutKeeps ==
    ASSUME NoFileBuffInv, HdevioEventCut
    PROVE  NoFileBuffInv' /\ ~ClosedProperly
<1> DEFINE next == IF evio_events = {} THEN NB_next + 1 ELSE NB_next
<1>1. /\ HdevioCanRead /\ AdvanceBlock /\ evio_events' = Record /\ Record # {}
      /\ ~WholeEvent(file, First) /\ h_end' = "error"
      /\ UNCHANGED <<file, h_out>>
  BY DEF HdevioEventCut
<1>2. IsFile(file) /\ file \in Files
  BY FilesAssumption DEF NoFileBuffInv
<1>3. next = IF evio_events = {} THEN NB_next + 1 ELSE NB_next
  OBVIOUS
<1> HIDE DEF next
<1>4. /\ next \in 1..Len(file.blocks) + 1
      /\ Record \in SUBSET EventIds(file)
      /\ First \in Record /\ \A d \in Record : ~Before(d, First)
      /\ \A e \in Record : e[1] = next - 1
      /\ \A e \in EventIds(file) :
            e[1] < next /\ IsMapped(file, e) => e \in Range(h_out) \/ e \in Record
  BY <1>1, <1>3, RecordIs
<1> HIDE DEF First
<1>5. First \in EventIds(file)
  BY <1>4
<1>6. ~ClosedProperly
  BY <1>1, <1>2, <1>5, ClosedIs
<1>7. HdevioKeepsWholeEvents'
  <2>1. ASSUME LongEvents, NEW e \in EventIds(file), WholeEvent(file, e)
        PROVE  e \in Range(h_out')
    <3>1. /\ e[1] \in Nat /\ e[2] \in Nat /\ First[1] \in Nat /\ First[2] \in Nat
          /\ e = <<e[1], e[2]>> /\ First = <<First[1], First[2]>>
      BY <1>2, <1>5, EventIdTypes
    <3>2. ~Before(First, e)
      BY <1>1, <1>2, <1>5, <2>1, CutBehindCut
    <3>3. e # First
      BY <1>1, <2>1
    <3>4. Before(e, First)
      BY <3>1, <3>2, <3>3 DEF Before
    <3>5. e \notin Record
      BY <1>4, <3>4
    <3>6. e[1] < next
      <4>1. e[1] <= First[1]
        BY <3>1, <3>4 DEF Before
      <4>2. First[1] = next - 1 /\ next \in Nat
        BY <1>4
      <4>3. QED BY <3>1, <4>1, <4>2
    <3>7. IsMapped(file, e)
      BY <1>2, <2>1, LongAreMapped
    <3>8. QED BY <1>1, <1>4, <2>1, <3>5, <3>6, <3>7
  <2>2. QED BY <1>1, <1>2, <2>1, KeptIs
<1>8. RecordInv' /\ NoFileBuffGiven'
  BY <1>1, RecordKept
<1>9. NoFileBuffComplete'
  BY <1>1 DEF NoFileBuffComplete
<1>10. QED BY <1>1, <1>2, <1>6, <1>7, <1>8, <1>9 DEF NoFileBuffInv

LEMMA HdevioSwapFailsKeeps ==
    ASSUME NoFileBuffInv, HdevioSwapFails
    PROVE  NoFileBuffInv' /\ First \in EventIds(file)
<1>1. /\ HdevioCanRead /\ AdvanceBlock /\ evio_events' = Record \ {First} /\ Record # {}
      /\ ~IsGood(First) /\ h_end' \in {"wild", "error"}
      /\ UNCHANGED <<file, h_out>>
  BY DEF HdevioSwapFails
<1>2. IsFile(file) /\ file \in Files
  BY FilesAssumption DEF NoFileBuffInv
<1>3. First \in EventIds(file)
  BY <1>1, RecordIs
<1>4. IsForeign(file)
  BY <1>1 DEF IsGood
<1>5. HdevioKeepsWholeEvents'
  BY <1>1, <1>4 DEF HdevioKeepsWholeEvents
<1>6. RecordInv' /\ NoFileBuffGiven'
  BY <1>1, RecordKept
<1>7. NoFileBuffComplete'
  BY <1>1 DEF NoFileBuffComplete
<1>8. QED BY <1>1, <1>2, <1>3, <1>5, <1>6, <1>7 DEF NoFileBuffInv

LEMMA HdevioReadEventKeeps ==
    ASSUME NoFileBuffInv, HdevioReadEvent
    PROVE  /\ NoFileBuffInv'
           /\ h_end = "reading" /\ First \in WholeEvents
           /\ \A i \in DOMAIN h_out : Before(h_out[i], First)
           /\ ClosedProperly => \A d \in WholeEvents : Before(d, First) => d \in Range(h_out)
<1> DEFINE next == IF evio_events = {} THEN NB_next + 1 ELSE NB_next
<1>1. /\ HdevioCanRead /\ AdvanceBlock /\ evio_events' = Record \ {First} /\ Record # {}
      /\ WholeEvent(file, First) /\ h_out' = Append(h_out, First)
      /\ UNCHANGED <<file, h_end>>
  BY DEF HdevioReadEvent
<1>2. IsFile(file) /\ file \in Files
  BY FilesAssumption DEF NoFileBuffInv
<1>3. NB_next' = next /\ next = IF evio_events = {} THEN NB_next + 1 ELSE NB_next
  BY <1>1 DEF AdvanceBlock
<1> HIDE DEF next
<1>4. /\ next \in 1..Len(file.blocks) + 1
      /\ Record \in SUBSET EventIds(file)
      /\ First \in Record /\ \A d \in Record : ~Before(d, First)
      /\ \A e \in Record : e[1] = next - 1 /\ IsMapped(file, e)
      /\ \A i \in DOMAIN h_out : h_out[i][1] < next /\ \A e \in Record : Before(h_out[i], e)
      /\ \A e \in EventIds(file) :
            e[1] < next /\ IsMapped(file, e) => e \in Range(h_out) \/ e \in Record
      /\ ClosedProperly => next <= Len(file.blocks)
  BY <1>1, <1>3, RecordIs
<1> HIDE DEF First
<1>5. First \in EventIds(file) /\ h_end = "reading"
  BY <1>1, <1>4 DEF HdevioCanRead
<1>6. /\ h_out \in Seq(EventIds(file)) /\ InOrderOf(h_out)
      /\ \A i \in DOMAIN h_out : WholeEvent(file, h_out[i])
  BY DEF NoFileBuffInv, NoFileBuffGiven
<1>7. /\ h_out' \in Seq(EventIds(file)) /\ InOrderOf(h_out')
      /\ \A d : d \in Range(h_out') <=> d \in Range(h_out) \/ d = First
  BY <1>1, <1>4, <1>5, <1>6, AppendInOrder
<1>8. ASSUME NEW i \in DOMAIN h_out' PROVE h_out'[i] = First \/ \E j \in DOMAIN h_out : h_out'[i] = h_out[j]
  <2>1. h_out'[i] \in Range(h_out')
    BY DEF Range
  <2>2. QED BY <1>7, <2>1 DEF Range
<1>9. \A e \in evio_events' : e \in EventIds(file) /\ Before(First, e)
  <2>1. ASSUME NEW e \in Record, e # First PROVE Before(First, e)
    <3>1. /\ e[1] \in Nat /\ e[2] \in Nat /\ First[1] \in Nat /\ First[2] \in Nat
          /\ e = <<e[1], e[2]>> /\ First = <<First[1], First[2]>>
      BY <1>2, <1>4, EventIdTypes
    <3>2. QED BY <1>4, <2>1, <3>1 DEF Before
  <2>2. QED BY <1>1, <1>4, <2>1
<1>10. First[1] < next
  <2>1. First[1] = next - 1 /\ next \in Nat
    BY <1>4
  <2>2. QED BY <2>1
<1>11. NoFileBuffGiven'
  <2>1. ASSUME NEW i \in DOMAIN h_out'
        PROVE  /\ WholeEvent(file, h_out'[i]) /\ h_out'[i][1] < next
               /\ \A e \in evio_events' : Before(h_out'[i], e)
    <3>1. CASE h_out'[i] = First
      BY <1>1, <1>9, <1>10, <3>1
    <3>2. ASSUME NEW j \in DOMAIN h_out, h_out'[i] = h_out[j]
          PROVE  /\ WholeEvent(file, h_out'[i]) /\ h_out'[i][1] < next
                 /\ \A e \in evio_events' : Before(h_out'[i], e)
      <4>1. \A e \in evio_events' : Before(h_out[j], e)
        BY <1>1, <1>4
      <4>2. WholeEvent(file, h_out[j]) /\ h_out[j][1] < next
        BY <1>4, <1>6
      <4>3. QED BY <3>2, <4>1, <4>2
    <3>3. QED BY <1>8, <3>1, <3>2
  <2>2. QED BY <1>1, <1>3, <1>7, <2>1 DEF NoFileBuffGiven, InOrderOf
<1>12. RecordInv'
  BY <1>1, <1>3, <1>4 DEF RecordInv
<1>13. NoFileBuffComplete'
  <2>1. ClosedProperly' = ClosedProperly
    BY <1>1 DEF ClosedProperly
  <2>2. \A e \in EventIds(file) :
            e[1] < next /\ IsMapped(file, e) => e \in Range(h_out') \/ e \in evio_events'
    BY <1>1, <1>4, <1>7
  <2>3. QED BY <1>1, <1>3, <1>4, <2>1, <2>2 DEF NoFileBuffComplete
<1>14. HdevioKeepsWholeEvents'
  BY <1>1, <1>5 DEF HdevioKeepsWholeEvents
<1>15. First \in WholeEvents
  BY <1>1, <1>5 DEF WholeEvents
<1>16. ASSUME ClosedProperly, NEW d \in WholeEvents, Before(d, First)
       PROVE  d \in Range(h_out)
  <2>1. d \in EventIds(file) /\ IsMapped(file, d)
    BY <1>2, <1>16, ClosedIs DEF WholeEvents
  <2>2. d[1] \in Nat /\ First[1] \in Nat /\ next \in Nat
    BY <1>2, <1>4, <1>5, <2>1, EventIdTypes
  <2>3. d[1] < next
    BY <1>10, <1>16, <2>2 DEF Before
  <2>4. QED BY <1>4, <1>16, <2>1, <2>3
<1>17. QED BY <1>1, <1>2, <1>4, <1>5, <1>11, <1>12, <1>13, <1>14, <1>15, <1>16 DEF NoFileBuffInv

-----------------------------------------------------------------------------
(* The steps of NextEvent.                                                 *)

(* The blocks that are passed over are empty.                              *)
LEMMA PayloadBlockIs ==
    ASSUME NextEventInv
    PROVE  /\ PayloadBlock \in Nat /\ PayloadBlock \in m_block..Len(file.blocks) + 1
           /\ StopsAt(PayloadBlock)
           /\ \A e \in EventIds(file) : e[1] < PayloadBlock <=> e[1] < m_block
           /\ WordsLeft(PayloadBlock) > HeaderLen => PayloadBlock \in 1..Len(file.blocks)
<1> DEFINE n == Len(file.blocks)
           Is(b) == StopsAt(b) /\ \A c \in m_block..b - 1 : ~StopsAt(c)
           T == {b \in m_block..n + 1 : StopsAt(b)}
<1>1. IsFile(file)
  BY FilesAssumption DEF NextEventInv
<1>2. n \in Nat /\ file.size \in Nat /\ m_block \in 1..n + 1
  BY <1>1, FileIs DEF NextEventInv
<1>3. WordsLeft(n + 1) <= HeaderLen
  <2>1. n + 1 \in 1..n + 1
    BY <1>2
  <2>2. BlockPos(file, n + 1) = FullSize(file.blocks) /\ BlockPos(file, n + 1) \in Nat
    BY <1>1, <2>1, BlockPositions
  <2>3. file.size <= FullSize(file.blocks)
    BY <1>1, FileIs
  <2> HIDE DEF n
  <2>4. QED BY <1>2, <2>2, <2>3 DEF WordsLeft, HeaderLen
<1>4. StopsAt(n + 1) /\ n + 1 \in m_block..n + 1
  BY <1>2, <1>3 DEF StopsAt
<1>5. T \in SUBSET Nat /\ T # {}
  BY <1>2, <1>4
<1>6. PICK b \in T : \A c \in T : b <= c
  <2> HIDE DEF T
  <2>1. QED BY <1>5, LeastNumber
<1>7. b \in m_block..n + 1 /\ Is(b)
  <2>1. b \in m_block..n + 1 /\ StopsAt(b)
    OBVIOUS
  <2>2. ASSUME NEW c \in m_block..b - 1 PROVE ~StopsAt(c)
    <3>1. c \in m_block..n + 1 /\ ~(b <= c)
      BY <1>2, <2>1
    <3>2. QED BY <1>6, <3>1
  <2>3. QED BY <2>1, <2>2
<1>8. PayloadBlock \in m_block..n + 1 /\ Is(PayloadBlock)
  <2>1. PayloadBlock = CHOOSE x \in m_block..n + 1 : Is(x)
    BY DEF PayloadBlock
  <2> HIDE DEF Is
  <2>2. QED BY <1>7, <2>1
<1> HIDE DEF PayloadBlock
<1>9. PayloadBlock \in Nat
  BY <1>2, <1>8
<1>10. ASSUME NEW e \in EventIds(file) PROVE e[1] < PayloadBlock <=> e[1] < m_block
  <2>1. e[1] \in 1..n /\ e[2] \in 1..Len(file.blocks[e[1]]) /\ e[1] \in Nat
    BY <1>1, EventIdTypes
  <2>2. file.blocks[e[1]] # <<>>
    <3>1. Len(<<>>) = 0
      OBVIOUS
    <3>2. QED BY <2>1, <3>1
  <2>3. StopsAt(e[1])
    BY <2>2 DEF StopsAt
  <2> HIDE DEF n
  <2>4. e[1] \notin m_block..PayloadBlock - 1
    BY <1>8, <2>3
  <2>5. QED BY <1>2, <1>8, <1>9, <2>1, <2>4
<1>11. WordsLeft(PayloadBlock) > HeaderLen => PayloadBlock \in 1..n
  <2>1. WordsLeft(PayloadBlock) > HeaderLen => PayloadBlock # n + 1
    <3> SUFFICES ASSUME PayloadBlock = n + 1 PROVE ~(WordsLeft(PayloadBlock) > HeaderLen)
      OBVIOUS
    <3>1. WordsLeft(PayloadBlock) = WordsLeft(n + 1)
      OBVIOUS
    <3>2. BlockPos(file, n + 1) \in Nat
      <4>1. n + 1 \in 1..n + 1
        BY <1>2
      <4>2. QED BY <1>1, <4>1, BlockPositions
    <3>3. WordsLeft(n + 1) \in Int /\ HeaderLen \in Int
      BY <1>2, <3>2 DEF WordsLeft, HeaderLen
    <3>4. QED BY <1>3, <3>1, <3>3
  <2> HIDE DEF n
  <2>2. QED BY <1>2, <1>8, <1>9, <2>1
<1>12. QED BY <1>8, <1>9, <1>10, <1>11

LEMMA MmapEndKeeps ==
    ASSUME NextEventInv, MmapEof \/ MmapBlockCut
    PROVE  /\ NextEventInv' /\ MmapCanRead
           /\ MmapEof => m_end' = "eof" /\ \A e \in WholeEvents : e \in Range(m_out)
           /\ MmapBlockCut => m_end' = "error" /\ ~ClosedProperly
           /\ UNCHANGED <<m_out, m_swap_end, file>>
<1>1. /\ MmapCanRead /\ m_events_left = 0 /\ m_block' = PayloadBlock
      /\ UNCHANGED <<file, m_event, m_events_left, m_out, swapVars>>
      /\ \/ MmapEof /\ m_end' = "eof" /\ WordsLeft(PayloadBlock) <= HeaderLen
         \/ /\ MmapBlockCut /\ m_end' = "error"
            /\ WordsLeft(PayloadBlock) > HeaderLen /\ ~WholeBlock(file, PayloadBlock)
  BY DEF MmapEof, MmapBlockCut
<1>2. IsFile(file) /\ file \in Files
  BY FilesAssumption DEF NextEventInv
<1>3. /\ PayloadBlock \in Nat /\ PayloadBlock \in m_block..Len(file.blocks) + 1
      /\ \A e \in EventIds(file) : e[1] < PayloadBlock <=> e[1] < m_block
      /\ WordsLeft(PayloadBlock) > HeaderLen => PayloadBlock \in 1..Len(file.blocks)
  BY PayloadBlockIs
<1> HIDE DEF PayloadBlock
<1>4. /\ m_block \in 1..Len(file.blocks) + 1
      /\ m_out \in Seq(EventIds(file)) /\ InOrderOf(m_out)
      /\ \A i \in DOMAIN m_out : WholeEvent(file, m_out[i])
      /\ \A e \in EventIds(file) : e \in Range(m_out) <=> e[1] < m_block
  BY <1>1 DEF NextEventInv, NextEventGiven
<1>5. PayloadBlock \in 1..Len(file.blocks) + 1 /\ Len(file.blocks) \in Nat /\ file.size \in Nat
      /\ BlockPos(file, PayloadBlock) \in Nat
  <2>1. Len(file.blocks) \in Nat /\ file.size \in Nat
    BY <1>2, FileIs
  <2>2. PayloadBlock \in 1..Len(file.blocks) + 1
    BY <1>3, <1>4, <2>1
  <2>3. QED BY <1>2, <2>1, <2>2, BlockPositions
<1>6. WordsLeft(PayloadBlock) <= HeaderLen \/ ~WholeBlock(file, PayloadBlock)
  BY <1>1
<1>7. AtEvent' /\ NextEventGiven'
  <2>1. \A e \in EventIds(file) : e \in Range(m_out) <=> e[1] < PayloadBlock
    BY <1>3, <1>4
  <2>2. ~(m_events_left > 0)
    BY <1>1
  <2>3. QED BY <1>1, <1>4, <2>1, <2>2 DEF AtEvent, NextEventGiven, InOrderOf
<1>8. NextEventInv'
  <2>1. (WordsLeft(m_block) <= HeaderLen \/ ~WholeBlock(file, m_block))'
    BY <1>1, <1>6 DEF WordsLeft
  <2>2. QED BY <1>1, <1>2, <1>4, <1>5, <1>7, <2>1 DEF NextEventInv
<1>9. ASSUME WordsLeft(PayloadBlock) <= HeaderLen, NEW e \in WholeEvents
      PROVE  e \in Range(m_out)
  <2>1. e \in EventIds(file) /\ WholeEvent(file, e)
    BY DEF WholeEvents
  <2>2. ~(BlockPos(file, PayloadBlock) + HeaderLen < file.size)
    BY <1>5, <1>9 DEF WordsLeft, HeaderLen
  <2>3. ~(PayloadBlock <= e[1])
    BY <1>2, <1>5, <2>1, <2>2, NoneBehindEnd
  <2>4. e[1] \in Nat
    BY <1>2, <2>1, EventIdTypes
  <2>5. e[1] < PayloadBlock
    BY <1>3, <2>3, <2>4
  <2>6. QED BY <1>3, <1>4, <2>1, <2>5
<1>10. ASSUME WordsLeft(PayloadBlock) > HeaderLen, ~WholeBlock(file, PayloadBlock)
       PROVE  ~ClosedProperly
  BY <1>2, <1>3, <1>10, ClosedIs
<1>11. MmapEof => WordsLeft(PayloadBlock) <= HeaderLen
  BY DEF MmapEof
<1>12. MmapBlockCut => WordsLeft(PayloadBlock) > HeaderLen /\ ~WholeBlock(file, PayloadBlock)
  BY DEF MmapBlockCut
<1>13. MmapEof => m_end' = "eof"
  BY DEF MmapEof
<1>14. MmapBlockCut => m_end' = "error"
  BY DEF MmapBlockCut
<1>15. QED BY <1>1, <1>8, <1>9, <1>10, <1>11, <1>12, <1>13, <1>14 DEF swapVars

(* An event that is given is behind all that were.                         *)
LEMMA NextIsGiven ==
    ASSUME NextEventInv, NEW e \in EventIds(file), WholeEvent(file, e), m_out' = Append(m_out, e),
           file' = file,
           \A d \in EventIds(file) : d \in Range(m_out) <=> Before(d, e)
    PROVE  /\ m_out' \in Seq(EventIds(file)) /\ InOrderOf(m_out')
           /\ \A i \in DOMAIN m_out' : WholeEvent(file, m_out'[i])
           /\ \A d : d \in Range(m_out') <=> d \in Range(m_out) \/ d = e
           /\ \A i \in DOMAIN m_out : Before(m_out[i], e)
<1>1. /\ m_out \in Seq(EventIds(file)) /\ InOrderOf(m_out)
      /\ \A i \in DOMAIN m_out : WholeEvent(file, m_out[i])
  BY DEF NextEventInv, NextEventGiven
<1>2. \A i \in DOMAIN m_out : Before(m_out[i], e)
  <2>1. ASSUME NEW i \in DOMAIN m_out PROVE Before(m_out[i], e)
    <3>1. m_out[i] \in Range(m_out) /\ m_out[i] \in EventIds(file)
      BY <1>1 DEF Range
    <3>2. QED BY <3>1
  <2>2. QED BY <2>1
<1>3. /\ m_out' \in Seq(EventIds(file)) /\ InOrderOf(m_out')
      /\ \A d : d \in Range(m_out') <=> d \in Range(m_out) \/ d = e
  BY <1>1, <1>2, AppendInOrder
<1>4. ASSUME NEW i \in DOMAIN m_out' PROVE WholeEvent(file, m_out'[i])
  <2>1. m_out'[i] \in Range(m_out')
    BY DEF Range
  <2>2. m_out'[i] = e \/ \E j \in DOMAIN m_out : m_out'[i] = m_out[j]
    BY <1>3, <2>1 DEF Range
  <2>3. QED BY <1>1, <2>2
<1>5. QED BY <1>2, <1>3, <1>4

LEMMA MmapReadInBlockKeeps ==
    ASSUME NextEventInv, MmapReadInBlock
    PROVE  /\ NextEventInv' /\ MmapCanRead
           /\ m_event \in WholeEvents /\ m_out' = Append(m_out, m_event)
           /\ \A i \in DOMAIN m_out : Before(m_out[i], m_event)
           /\ \A d \in WholeEvents : Before(d, m_event) => d \in Range(m_out)
           /\ UNCHANGED <<file, m_end, m_swap_end>>
<1>1. /\ MmapCanRead /\ m_events_left > 0
      /\ m_out' = Append(m_out, m_event)
      /\ m_event' = <<m_event[1], m_event[2] + 1>>
      /\ m_events_left' = m_events_left - 1
      /\ UNCHANGED <<file, m_block, m_end, swapVars>>
  BY DEF MmapReadInBlock
<1>2. IsFile(file) /\ file \in Files
  BY FilesAssumption DEF NextEventInv
<1> DEFINE b == m_block - 1
           i == m_event[2]
           len == Len(file.blocks[b])
<1>3. /\ m_block > 1 /\ m_event = <<b, i>> /\ i \in 1..len
      /\ m_events_left = len - i + 1
      /\ WholeBlock(file, b)
      /\ m_block \in 1..Len(file.blocks) + 1 /\ m_events_left \in Nat
  BY <1>1 DEF NextEventInv, AtEvent
<1>4. Len(file.blocks) \in Nat
  BY <1>2, FileIs
<1>5. b \in 1..Len(file.blocks) /\ b \in Nat /\ m_block = b + 1
  BY <1>3, <1>4
<1>6. len \in Nat
  BY <1>2, <1>5, FileIs
<1>7. m_event[1] = b
  <2> HIDE DEF b, i
  <2>1. QED BY <1>3
<1>8. m_event \in EventIds(file)
  <2> HIDE DEF b
  <2>1. QED BY <1>2, <1>3, <1>5, <1>7, EventIdsAre
<1>9. WholeEvent(file, m_event)
  <2> HIDE DEF b
  <2>1. QED BY <1>2, <1>3, <1>7, <1>8, WholeInWholeBlock
<1>10. ASSUME NEW d \in EventIds(file) PROVE d \in Range(m_out) <=> Before(d, m_event)
  <2>1. d \in Range(m_out) <=> d[1] < m_block /\ Before(d, m_event)
    BY <1>1 DEF NextEventInv, NextEventGiven
  <2>2. d[1] \in Nat
    BY <1>2, EventIdTypes
  <2> HIDE DEF b
  <2>3. Before(d, m_event) => d[1] < m_block
    BY <1>5, <1>7, <2>2 DEF Before
  <2>4. QED BY <2>1, <2>3
<1>11. /\ m_out' \in Seq(EventIds(file)) /\ InOrderOf(m_out')
       /\ \A k \in DOMAIN m_out' : WholeEvent(file, m_out'[k])
       /\ \A d : d \in Range(m_out') <=> d \in Range(m_out) \/ d = m_event
       /\ \A k \in DOMAIN m_out : Before(m_out[k], m_event)
  BY <1>1, <1>8, <1>9, <1>10, NextIsGiven
<1>12. m_event' = <<b, i + 1>> /\ i \in Nat /\ m_events_left' = len - i
  <2> HIDE DEF b, len
  <2>1. i \in Nat /\ m_event' = <<b, i + 1>>
    BY <1>1, <1>3, <1>6, <1>7
  <2> HIDE DEF i
  <2>2. QED BY <1>1, <1>3, <1>6, <2>1
<1> HIDE DEF i
<1>13. AtEvent'
  <2>1. file' = file /\ m_block' = m_block /\ m_block' - 1 = b
    BY <1>1
  <2>2. m_event'[2] = i + 1
    BY <1>12
  <2> HIDE DEF b
  <2>3. ASSUME m_events_left' > 0 PROVE i + 1 \in 1..len /\ m_events_left' = len - (i + 1) + 1
    <3> HIDE DEF len
    <3>1. QED BY <1>3, <1>6, <1>12, <2>3
  <2>4. QED BY <1>3, <1>12, <2>1, <2>2, <2>3 DEF AtEvent, len
<1>14. ASSUME NEW d \in EventIds(file)
       PROVE  d \in Range(m_out') <=> d[1] < m_block' /\ (m_events_left' > 0 => Before(d, m_event'))
  <2>1. /\ d = <<d[1], d[2]>> /\ d[1] \in Nat /\ d[2] \in Nat
        /\ d[2] \in 1..Len(file.blocks[d[1]])
    BY <1>2, EventIdTypes
  <2>2. d \in Range(m_out') <=> Before(d, m_event) \/ d = m_event
    BY <1>10, <1>11
  <2>3. m_block' = b + 1 /\ m_event = <<b, i>>
    BY <1>1, <1>3, <1>5
  <2>4. d[1] = b => d[2] <= len
    BY <1>6, <2>1
  <2> HIDE DEF b, len
  <2>5. Before(d, m_event) \/ d = m_event <=> d[1] < b \/ (d[1] = b /\ d[2] <= i)
    BY <1>5, <1>12, <2>1, <2>3 DEF Before
  <2>6. Before(d, m_event') <=> d[1] < b \/ (d[1] = b /\ d[2] < i + 1)
    BY <1>12 DEF Before
  <2>7. ~(m_events_left' > 0) => i = len
    BY <1>3, <1>6, <1>12
  <2>8. CASE m_events_left' > 0
    BY <1>5, <1>12, <2>1, <2>2, <2>3, <2>5, <2>6, <2>8
  <2>9. CASE ~(m_events_left' > 0)
    BY <1>5, <1>12, <2>1, <2>2, <2>3, <2>4, <2>5, <2>7, <2>9
  <2>10. QED BY <2>8, <2>9
<1>15. NextEventGiven'
  BY <1>1, <1>11, <1>14 DEF NextEventGiven, InOrderOf
<1>16. NextEventInv'
  <2>1. m_events_left' \in Nat
    <3> HIDE DEF len
    <3>1. QED BY <1>3, <1>6, <1>12
  <2>2. m_end' = "reading"
    BY <1>1 DEF MmapCanRead
  <2>3. QED BY <1>1, <1>2, <1>3, <1>11, <1>13, <1>15, <2>1, <2>2 DEF NextEventInv
<1>17. m_event \in WholeEvents /\ \A d \in WholeEvents : Before(d, m_event) => d \in Range(m_out)
  BY <1>8, <1>9, <1>10 DEF WholeEvents
<1>18. QED BY <1>1, <1>11, <1>16, <1>17 DEF swapVars

LEMMA MmapReadNextBlockKeeps ==
    ASSUME NextEventInv, MmapReadNextBlock
    PROVE  LET e == <<PayloadBlock, 1>> IN
           /\ NextEventInv' /\ MmapCanRead
           /\ e \in WholeEvents /\ m_out' = Append(m_out, e)
           /\ \A i \in DOMAIN m_out : Before(m_out[i], e)
           /\ \A d \in WholeEvents : Before(d, e) => d \in Range(m_out)
           /\ UNCHANGED <<file, m_end, m_swap_end>>
<1> DEFINE b == PayloadBlock
           len == Len(file.blocks[b])
           e == <<b, 1>>
<1>1. /\ MmapCanRead /\ m_events_left = 0
      /\ WordsLeft(b) > HeaderLen /\ WholeBlock(file, b)
      /\ m_block' = b + 1 /\ m_out' = Append(m_out, e)
      /\ m_event' = <<b, 2>> /\ m_events_left' = len - 1
      /\ UNCHANGED <<file, m_end, swapVars>>
  BY DEF MmapReadNextBlock
<1>2. IsFile(file) /\ file \in Files
  BY FilesAssumption DEF NextEventInv
<1>3. /\ b \in 1..Len(file.blocks) /\ b \in Nat
      /\ \A d \in EventIds(file) : d[1] < b <=> d[1] < m_block
      /\ StopsAt(b)
  BY <1>1, PayloadBlockIs
<1> HIDE DEF b
<1>4. Len(file.blocks) \in Nat /\ file.size \in Nat /\ BlockPos(file, b) \in Nat
  <2>1. Len(file.blocks) \in Nat /\ file.size \in Nat
    BY <1>2, FileIs
  <2>2. b \in 1..Len(file.blocks) + 1
    BY <1>3, <2>1
  <2>3. QED BY <1>2, <2>1, <2>2, BlockPositions
<1>5. len \in Nat /\ 1 \in 1..len
  <2>1. file.blocks[b] # <<>>
    <3>1. ~(WordsLeft(b) <= HeaderLen)
      BY <1>1, <1>4 DEF WordsLeft, HeaderLen
    <3>2. QED BY <1>1, <1>3, <3>1 DEF StopsAt
  <2>2. file.blocks[b] \in Seq(Nat \ {0})
    BY <1>2, <1>3, FileIs
  <2>3. QED BY <2>1, <2>2
<1>6. e \in EventIds(file) /\ e[1] = b /\ e[2] = 1
  <2>1. e = <<e[1], e[2]>> /\ e[1] = b /\ e[2] = 1
    OBVIOUS
  <2> HIDE DEF e
  <2>2. QED BY <1>2, <1>3, <1>5, <2>1, EventIdsAre
<1> HIDE DEF e
<1>7. WholeEvent(file, e)
  BY <1>1, <1>2, <1>6, WholeInWholeBlock
<1>8. \A d \in EventIds(file) : d \in Range(m_out) <=> d[1] < m_block
  <2>1. ~(m_events_left > 0)
    BY <1>1
  <2>2. QED BY <2>1 DEF NextEventInv, NextEventGiven
<1>9. ASSUME NEW d \in EventIds(file) PROVE d \in Range(m_out) <=> Before(d, e)
  <2>1. d[1] \in Nat /\ d[2] \in Nat /\ d[2] >= 1
    BY <1>2, EventIdTypes
  <2>2. Before(d, e) <=> d[1] < b
    BY <1>6, <2>1 DEF Before
  <2>3. QED BY <1>3, <1>8, <2>2
<1>10. /\ m_out' \in Seq(EventIds(file)) /\ InOrderOf(m_out')
       /\ \A k \in DOMAIN m_out' : WholeEvent(file, m_out'[k])
       /\ \A d : d \in Range(m_out') <=> d \in Range(m_out) \/ d = e
       /\ \A k \in DOMAIN m_out : Before(m_out[k], e)
  BY <1>1, <1>6, <1>7, <1>9, NextIsGiven
<1>11. AtEvent'
  <2>1. file' = file /\ m_block' - 1 = b /\ m_block' > 1
    BY <1>1, <1>3
  <2>2. m_event' = <<b, 2>> /\ m_event'[2] = 2
    BY <1>1
  <2>3. ASSUME m_events_left' > 0 PROVE 2 \in 1..len /\ m_events_left' = len - 2 + 1
    <3> HIDE DEF len
    <3>1. QED BY <1>1, <1>5, <2>3
  <2>4. QED BY <1>1, <2>1, <2>2, <2>3 DEF AtEvent, len
<1>12. ASSUME NEW d \in EventIds(file)
       PROVE  d \in Range(m_out') <=> d[1] < m_block' /\ (m_events_left' > 0 => Before(d, m_event'))
  <2>1. /\ d = <<d[1], d[2]>> /\ d[1] \in Nat /\ d[2] \in Nat /\ d[2] >= 1
        /\ d[2] \in 1..Len(file.blocks[d[1]])
    BY <1>2, EventIdTypes
  <2>2. d \in Range(m_out') <=> Before(d, e) \/ d = e
    BY <1>9, <1>10
  <2>3. d[1] = b => d[2] <= len
    BY <1>5, <2>1
  <2> HIDE DEF len
  <2>4. Before(d, e) \/ d = e <=> d[1] < b \/ (d[1] = b /\ d[2] = 1)
    BY <1>3, <2>1 DEF Before, e
  <2>5. Before(d, m_event') <=> d[1] < b \/ (d[1] = b /\ d[2] < 2)
    BY <1>1 DEF Before
  <2>6. ~(m_events_left' > 0) => len = 1
    BY <1>1, <1>5
  <2>7. CASE m_events_left' > 0
    BY <1>1, <1>3, <2>1, <2>2, <2>4, <2>5, <2>7
  <2>8. CASE ~(m_events_left' > 0)
    BY <1>1, <1>3, <2>1, <2>2, <2>3, <2>4, <2>6, <2>8
  <2>9. QED BY <2>7, <2>8
<1>13. NextEventGiven'
  BY <1>1, <1>10, <1>12 DEF NextEventGiven, InOrderOf
<1>14. NextEventInv'
  <2>1. m_events_left' \in Nat
    <3> HIDE DEF len
    <3>1. QED BY <1>1, <1>5
  <2>2. m_end' = "reading"
    BY <1>1 DEF MmapCanRead
  <2>3. m_block' \in 1..Len(file.blocks) + 1
    BY <1>1, <1>3, <1>4
  <2>4. QED BY <1>1, <1>2, <1>10, <1>11, <1>13, <2>1, <2>2, <2>3 DEF NextEventInv
<1>15. e \in WholeEvents /\ \A d \in WholeEvents : Before(d, e) => d \in Range(m_out)
  BY <1>6, <1>7, <1>9 DEF WholeEvents
<1>16. QED BY <1>1, <1>10, <1>14, <1>15 DEF swapVars, e, b

(* The whole blocks are given.                                             *)
LEMMA WholeBlocksGiven ==
    ASSUME NextEventInv
    PROVE  MmapKeepsWholeBlocks
<1> SUFFICES ASSUME m_end # "reading", NEW e \in EventIds(file), WholeBlock(file, e[1])
             PROVE  e \in Range(m_out)
  BY DEF MmapKeepsWholeBlocks
<1>1. IsFile(file) /\ file \in Files
  BY FilesAssumption DEF NextEventInv
<1>2. /\ m_block \in 1..Len(file.blocks) + 1 /\ m_events_left = 0
      /\ WordsLeft(m_block) <= HeaderLen \/ ~WholeBlock(file, m_block)
      /\ e \in Range(m_out) <=> e[1] < m_block /\ (m_events_left > 0 => Before(e, m_event))
  BY DEF NextEventInv, NextEventGiven
<1>3. Len(file.blocks) \in Nat /\ file.size \in Nat /\ e[1] \in 1..Len(file.blocks) /\ e[1] \in Nat
      /\ m_block \in Nat
  BY <1>1, <1>2, FileIs, EventIdTypes
<1>4. SUFFICES ASSUME m_block <= e[1] PROVE FALSE
  <2>1. e[1] < m_block \/ m_block <= e[1]
    BY <1>3
  <2>2. ~(m_events_left > 0)
    BY <1>2
  <2>3. QED BY <1>2, <2>1, <2>2
<1>5. WholeEvent(file, e)
  BY <1>1, WholeInWholeBlock
<1>6. BlockPos(file, m_block) + HeaderLen < file.size
  BY <1>1, <1>2, <1>4, <1>5, NoneBehindEnd
<1>7. ~WholeBlock(file, m_block)
  <2>1. BlockPos(file, m_block) \in Nat
    BY <1>1, <1>2, BlockPositions
  <2>2. QED BY <1>2, <1>3, <1>6, <2>1 DEF WordsLeft, HeaderLen
<1>8. m_block # e[1]
  BY <1>7
<1>9. m_block < e[1] /\ e[1] \in 1..Len(file.blocks) + 1 /\ e[1] + 1 \in 1..Len(file.blocks) + 1
      /\ m_block + 1 \in 1..Len(file.blocks) + 1
  BY <1>2, <1>3, <1>4, <1>8
<1>10. BlockPos(file, m_block + 1) <= BlockPos(file, e[1])
  BY <1>1, <1>2, <1>9, BlocksApart
<1>11. BlockPos(file, e[1]) <= BlockPos(file, e[1] + 1)
  <2>1. e[1] < e[1] + 1 /\ (e[1] + 1) \in 1..Len(file.blocks) + 1
    BY <1>3, <1>9
  <2>2. BlockPos(file, e[1]) + HeaderLen <= BlockPos(file, e[1] + 1)
    BY <1>1, <1>9, <2>1, BlocksApart
  <2>3. BlockPos(file, e[1]) \in Nat /\ BlockPos(file, e[1] + 1) \in Nat
    BY <1>1, <1>9, BlockPositions
  <2>4. QED BY <2>2, <2>3 DEF HeaderLen
<1>12. /\ BlockPos(file, m_block + 1) \in Nat /\ BlockPos(file, e[1]) \in Nat
       /\ BlockPos(file, e[1] + 1) \in Nat /\ BlockPos(file, e[1] + 1) <= file.size
  BY <1>1, <1>9, BlockPositions DEF WholeBlock
<1>13. BlockPos(file, m_block + 1) <= file.size
  BY <1>3, <1>10, <1>11, <1>12
<1>14. QED BY <1>7, <1>13 DEF WholeBlock

-----------------------------------------------------------------------------
(* Each reader leaves the place of the other alone.                        *)
LEMMA NoFileBuffUndisturbed ==
    ASSUME NoFileBuffInv, UNCHANGED <<file, hdevioVars>>
    PROVE  NoFileBuffInv'
<1>1. UNCHANGED <<file, NB_next, evio_events, h_out, h_end>>
  BY DEF hdevioVars
<1>2. WholeEvents' = WholeEvents /\ (ClosedProperly <=> ClosedProperly')
  BY <1>1 DEF WholeEvents, ClosedProperly
<1>3. RecordInv' /\ NoFileBuffGiven'
  BY <1>1 DEF NoFileBuffInv, RecordInv, NoFileBuffGiven, InOrderOf
<1>4. NoFileBuffComplete'
  BY <1>1, <1>2 DEF NoFileBuffInv, NoFileBuffComplete
<1>5. HdevioKeepsWholeEvents'
  BY <1>1 DEF NoFileBuffInv, HdevioKeepsWholeEvents, SeemsToPassEnd
<1>6. QED BY <1>1, <1>3, <1>4, <1>5 DEF NoFileBuffInv

LEMMA NextEventUndisturbed ==
    ASSUME NextEventInv, UNCHANGED <<file, mmapReaderVars>>
    PROVE  NextEventInv'
<1>1. UNCHANGED <<file, m_block, m_event, m_events_left, m_out, m_end>>
  BY DEF mmapReaderVars
<1>2. QED BY <1>1 DEF NextEventInv, AtEvent, NextEventGiven, InOrderOf, WordsLeft

(* Which step leaves what alone.                                           *)
LEMMA StepsApart ==
    /\ ReadNoFileBuff => UNCHANGED <<file, mmapVars>>
    /\ NextEvent => UNCHANGED <<file, hdevioVars, swapVars>>
    /\ ProcessParallel => UNCHANGED <<file, hdevioVars, mmapReaderVars>>
    /\ Done \/ UNCHANGED readersVars => UNCHANGED <<file, hdevioVars, mmapVars>>
<1>1. ReadNoFileBuff => UNCHANGED <<file, mmapVars>>
  BY DEF ReadNoFileBuff, HdevioEof, HdevioHeaderFails, HdevioNoEvents, HdevioTooSmall,
         HdevioEventCut, HdevioReadEvent, HdevioSwapFails
<1>2. NextEvent => UNCHANGED <<file, hdevioVars, swapVars>>
  BY DEF NextEvent, MmapReadInBlock, MmapEof, MmapBlockCut, MmapReadNextBlock
<1>3. ProcessParallel => UNCHANGED <<file, hdevioVars, mmapReaderVars>>
  BY DEF ProcessParallel
<1>4. Done \/ UNCHANGED readersVars => UNCHANGED <<file, hdevioVars, mmapVars>>
  BY DEF Done, readersVars
<1>5. QED BY <1>1, <1>2, <1>3, <1>4

LEMMA ReadersInitInv ==
    ASSUME ReadersInit
    PROVE  ReadersInv
<1>1. /\ file \in Files /\ NB_next = 1 /\ evio_events = {} /\ h_out = <<>> /\ h_end = "reading"
      /\ m_block = 1 /\ m_events_left = 0 /\ m_out = <<>> /\ m_end = "reading"
  BY DEF ReadersInit
<1>2. IsFile(file)
  BY <1>1, FilesAssumption
<1>3. Len(file.blocks) \in Nat /\ 1 \in 1..Len(file.blocks) + 1
  BY <1>2, FileIs
<1>4. \A e \in EventIds(file) : e[1] \in Nat /\ e[1] >= 1
  BY <1>2, EventIdTypes
<1>5. /\ <<>> \in Seq(EventIds(file)) /\ DOMAIN <<>> = {} /\ Range(<<>>) = {}
  BY DEF Range
<1>6. ClosedProperly => 1 <= Len(file.blocks)
  BY <1>1, ClosedIs
<1>7. \A e \in EventIds(file) : ~(e[1] < 1)
  BY <1>4
<1>8. NoFileBuffInv
  BY <1>1, <1>3, <1>5, <1>6, <1>7
     DEF NoFileBuffInv, RecordInv, NoFileBuffGiven, NoFileBuffComplete, InOrderOf, HdevioKeepsWholeEvents
<1>9. NextEventInv
  <2>1. AtEvent
    BY <1>1 DEF AtEvent
  <2>2. NextEventGiven
    BY <1>1, <1>5, <1>7 DEF NextEventGiven, InOrderOf
  <2>3. QED BY <1>1, <1>3, <1>5, <2>1, <2>2 DEF NextEventInv
<1>10. QED BY <1>8, <1>9 DEF ReadersInv

LEMMA ReadersInvKept ==
    ASSUME ReadersInv, [ReadersNext]_readersVars
    PROVE  ReadersInv'
<1>1. NoFileBuffInv /\ NextEventInv
  BY DEF ReadersInv
<1>2. CASE ReadNoFileBuff
  <2>1. NextEventInv'
    BY <1>1, <1>2, StepsApart, NextEventUndisturbed DEF mmapVars
  <2>2. NoFileBuffInv'
    BY <1>1, <1>2, HdevioEofKeeps, HdevioHeaderFailsKeeps, HdevioNoEventsKeeps, HdevioTooSmallKeeps,
       HdevioEventCutKeeps, HdevioReadEventKeeps, HdevioSwapFailsKeeps DEF ReadNoFileBuff
  <2>3. QED BY <2>1, <2>2 DEF ReadersInv
<1>3. CASE NextEvent
  <2>1. NoFileBuffInv'
    BY <1>1, <1>3, StepsApart, NoFileBuffUndisturbed
  <2>2. NextEventInv'
    BY <1>1, <1>3, MmapEndKeeps, MmapReadInBlockKeeps, MmapReadNextBlockKeeps DEF NextEvent
  <2>3. QED BY <2>1, <2>2 DEF ReadersInv
<1>4. CASE ProcessParallel
  BY <1>1, <1>4, StepsApart, NoFileBuffUndisturbed, NextEventUndisturbed DEF ReadersInv
<1>5. CASE Done \/ UNCHANGED readersVars
  BY <1>1, <1>5, StepsApart, NoFileBuffUndisturbed, NextEventUndisturbed DEF ReadersInv, mmapVars
<1>6. QED BY <1>2, <1>3, <1>4, <1>5 DEF ReadersNext

(* What either reader has given is what is before its place in the file:   *)
(* HDEVIO all that it mapped of the blocks before NB_next and has not in   *)
(* its record, the other reader all events before m_event.                 *)
THEOREM ReadersInvariant == ReadersSpec => []ReadersInv
<1>1. ReadersInit => ReadersInv
  BY ReadersInitInv
<1>2. ReadersInv /\ [ReadersNext]_readersVars => ReadersInv'
  BY ReadersInvKept
<1>3. QED BY <1>1, <1>2, PTL DEF ReadersSpec

(* CutCostsOnlyTheCut: however a file is cut, the mmap reader gives all    *)
(* events of its whole blocks, and HDEVIO all of its whole events unless   *)
(* there is an empty block or too short an event, or the cut leaves less   *)
(* than a quarter of the block.                                            *)
THEOREM CutIsLocal == ReadersSpec => []CutCostsOnlyTheCut
<1>1. ReadersInv => CutCostsOnlyTheCut
  BY WholeBlocksGiven DEF ReadersInv, NoFileBuffInv, CutCostsOnlyTheCut
<1>2. QED BY <1>1, ReadersInvariant, PTL

-----------------------------------------------------------------------------
(* Both readers do what OrderedRead says.                                  *)
LEMMA FileKept ==
    ASSUME file' = file
    PROVE  WholeEvents' = WholeEvents /\ ClosedProperly' = ClosedProperly
BY DEF WholeEvents, ClosedProperly

(* No swapping fails in a file that was closed properly.                   *)
LEMMA ClosedIsSwapped ==
    ASSUME UndamagedAreSwapped, file \in Files, ClosedProperly, IsForeign(file),
           NEW e \in EventIds(file)
    PROVE  HdevioAccepts(OfHdevio(e)) /\ MmapAccepts(OfMmap(e))
<1> DEFINE c == Contents(file, e)
<1>1. c \in ForeignEvents
  BY EvioReadersAssumption
<1>2. c.damage = "none"
  BY DEF ClosedProperly
<1>3. OfHdevio(e) = HdevioSwap(c.words) /\ OfMmap(e) = MmapSwap(c.words)
  BY <1>1 DEF OfHdevio, OfMmap, HdevioSwaps, MmapSwaps
<1> HIDE DEF c
<1>4. QED BY <1>1, <1>2, <1>3 DEF UndamagedAreSwapped

LEMMA HdevioStepRefines ==
    ASSUME UndamagedAreSwapped, NoFileBuffInv, ReadNoFileBuff
    PROVE  [Hdevio!Next]_(Hdevio!vars)
<1>1. file' = file
  BY StepsApart
<1>2. WholeEvents' = WholeEvents /\ ClosedProperly' = ClosedProperly
  BY <1>1, FileKept
<1>3. \A e : Hdevio!WasRead(e) <=> e \in Range(h_out)
  BY DEF Hdevio!WasRead, Range
<1>4. \A e \in WholeEvents : e \in EventIds(file)
  BY DEF WholeEvents
<1>5. CASE HdevioEof
  <2>1. h_end = "reading" /\ h_end' = "eof" /\ h_out' = h_out
    BY <1>5 DEF HdevioEof
  <2>2. ClosedProperly => \A e \in WholeEvents : Hdevio!WasRead(e)
    BY <1>3, <1>4, <1>5, HdevioEofKeeps
  <2>3. QED BY <1>2, <2>1, <2>2 DEF Hdevio!Next, Hdevio!ReachEnd
<1>6. CASE HdevioHeaderFails \/ HdevioNoEvents \/ HdevioEventCut \/ HdevioSwapFails
  <2>1. h_end = "reading" /\ h_end' \in {"eof", "error", "wild"} /\ h_out' = h_out
    BY <1>6 DEF HdevioHeaderFails, HdevioNoEvents, HdevioEventCut, HdevioSwapFails, HdevioCanRead
  <2>2. ~ClosedProperly
    <3>1. CASE HdevioSwapFails
      <4>1. First \in EventIds(file) /\ file \in Files
        BY <3>1, HdevioSwapFailsKeeps DEF NoFileBuffInv
      <4>2. IsForeign(file) /\ ~HdevioAccepts(OfHdevio(First))
        BY <3>1 DEF HdevioSwapFails, IsGood
      <4>3. QED BY <4>1, <4>2, ClosedIsSwapped
    <3>2. QED BY <1>6, <3>1, HdevioHeaderFailsKeeps, HdevioNoEventsKeeps, HdevioEventCutKeeps
  <2>3. QED BY <1>2, <2>1, <2>2 DEF Hdevio!Next, Hdevio!ReachEnd
<1>7. CASE HdevioTooSmall
  <2>1. h_end' = h_end /\ h_out' = h_out
    BY <1>7 DEF HdevioTooSmall
  <2>2. QED BY <1>2, <2>1 DEF Hdevio!vars
<1>8. CASE HdevioReadEvent
  <2>1. h_end' = h_end /\ h_out' = Append(h_out, First)
    BY <1>8 DEF HdevioReadEvent
  <2>2. /\ h_end = "reading" /\ First \in WholeEvents
        /\ \A i \in DOMAIN h_out : Before(h_out[i], First)
        /\ ClosedProperly => \A d \in WholeEvents : Before(d, First) => Hdevio!WasRead(d)
    BY <1>3, <1>8, HdevioReadEventKeeps
  <2>3. Hdevio!ReadNext
    BY <1>2, <2>1, <2>2 DEF Hdevio!ReadNext
  <2>4. QED BY <2>3 DEF Hdevio!Next
<1>9. QED BY <1>5, <1>6, <1>7, <1>8 DEF ReadNoFileBuff

LEMMA MmapStepRefines ==
    ASSUME UndamagedAreSwapped, NextEventInv, NextEvent \/ ProcessParallel
    PROVE  [Mmap!Next]_(Mmap!vars)
<1> DEFINE reads == IF m_end = "reading" /\ m_swap_end # "running" THEN "error" ELSE m_end
<1>1. file' = file
  BY StepsApart
<1>2. WholeEvents' = WholeEvents /\ ClosedProperly' = ClosedProperly
  BY <1>1, FileKept
<1>3. \A e : Mmap!WasRead(e) <=> e \in Range(m_out)
  BY DEF Mmap!WasRead, Range
<1>4. CASE MmapEof \/ MmapBlockCut
  <2>1. /\ MmapCanRead /\ UNCHANGED <<m_out, m_swap_end>>
        /\ MmapEof => m_end' = "eof" /\ \A e \in WholeEvents : Mmap!WasRead(e)
        /\ MmapBlockCut => m_end' = "error" /\ ~ClosedProperly
    BY <1>3, <1>4, MmapEndKeeps
  <2>2. reads = "reading" /\ reads' = m_end'
    BY <2>1 DEF MmapCanRead
  <2> HIDE DEF reads
  <2>3. /\ ClosedProperly => \A e \in WholeEvents : Mmap!WasRead(e)
        /\ reads' = "eof" \/ (~ClosedProperly /\ reads' \in {"error", "wild"})
    BY <1>4, <2>1, <2>2
  <2>4. QED BY <1>2, <2>1, <2>2, <2>3 DEF Mmap!Next, Mmap!ReachEnd, reads
<1>5. ASSUME NEW e \in WholeEvents, MmapCanRead, m_out' = Append(m_out, e),
             \A i \in DOMAIN m_out : Before(m_out[i], e),
             \A d \in WholeEvents : Before(d, e) => d \in Range(m_out),
             UNCHANGED <<m_end, m_swap_end>>
      PROVE  [Mmap!Next]_(Mmap!vars)
  <2>1. reads = "reading" /\ reads' = reads
    BY <1>5 DEF MmapCanRead
  <2>2. Mmap!ReadNext
    BY <1>2, <1>3, <1>5, <2>1 DEF Mmap!ReadNext
  <2>3. QED BY <2>2 DEF Mmap!Next
<1>6. CASE MmapReadInBlock
  BY <1>5, <1>6, MmapReadInBlockKeeps
<1>7. CASE MmapReadNextBlock
  BY <1>5, <1>7, MmapReadNextBlockKeeps
<1>8. CASE ProcessParallel
  <2>1. UNCHANGED <<m_out, m_end>> /\ m_swap_end = "running"
    BY <1>8, StepsApart DEF mmapReaderVars, ProcessParallel
  <2>2. CASE reads' = reads
    BY <1>2, <2>1, <2>2 DEF Mmap!vars
  <2>3. CASE reads' # reads
    <3>1. m_end = "reading" /\ m_swap_end' # "running" /\ reads = "reading" /\ reads' = "error"
      BY <2>1, <2>3
    <3>2. IsForeign(file)
      BY <1>8 DEF ProcessParallel
    <3>3. PICK i \in DOMAIN m_out : ~MmapAccepts(OfMmap(m_out[i]))
      BY <1>8, <2>1, <3>1 DEF ProcessParallel
    <3>4. m_out[i] \in EventIds(file) /\ file \in Files
      BY DEF NextEventInv, NextEventGiven
    <3>5. ~ClosedProperly
      BY <3>2, <3>3, <3>4, ClosedIsSwapped
    <3>6. QED BY <1>2, <2>1, <3>1, <3>5 DEF Mmap!Next, Mmap!ReachEnd
  <2>4. QED BY <2>2, <2>3
<1>9. QED BY <1>4, <1>6, <1>7, <1>8 DEF NextEvent

(* The steps of HDEVIO are steps of OrderedRead or leave it as it is: the  *)
(* events of a file in order, none twice, none that is cut, and of a file  *)
(* that was closed properly none left out before the end of the file.      *)
THEOREM HdevioRefinesOrderedRead ==
    ASSUME UndamagedAreSwapped
    PROVE  ReadersSpec => Hdevio!Init /\ [][Hdevio!Next]_(Hdevio!vars)
<1>1. ReadersInit => Hdevio!Init
  BY DEF ReadersInit, Hdevio!Init
<1>2. ReadersInv /\ [ReadersNext]_readersVars => [Hdevio!Next]_(Hdevio!vars)
  <2>1. SUFFICES ASSUME ReadersInv, [ReadersNext]_readersVars
                 PROVE  [Hdevio!Next]_(Hdevio!vars)
    OBVIOUS
  <2>2. CASE ReadNoFileBuff
    BY <2>1, <2>2, HdevioStepRefines DEF ReadersInv
  <2>3. CASE NextEvent \/ ProcessParallel \/ Done \/ UNCHANGED readersVars
    <3>1. file' = file /\ h_out' = h_out /\ h_end' = h_end
      BY <2>3, StepsApart DEF hdevioVars
    <3>2. QED BY <3>1, FileKept DEF Hdevio!vars
  <2>4. QED BY <2>1, <2>2, <2>3 DEF ReadersNext
<1>3. QED BY <1>1, <1>2, ReadersInvariant, PTL DEF ReadersSpec

(* The same for the mmap reader and the workers that swap behind it.       *)
THEOREM MmapRefinesOrderedRead ==
    ASSUME UndamagedAreSwapped
    PROVE  ReadersSpec => Mmap!Init /\ [][Mmap!Next]_(Mmap!vars)
<1>1. ReadersInit => Mmap!Init
  BY DEF ReadersInit, Mmap!Init
<1>2. ReadersInv /\ [ReadersNext]_readersVars => [Mmap!Next]_(Mmap!vars)
  <2>1. SUFFICES ASSUME ReadersInv, [ReadersNext]_readersVars
                 PROVE  [Mmap!Next]_(Mmap!vars)
    OBVIOUS
  <2>2. CASE NextEvent \/ ProcessParallel
    BY <2>1, <2>2, MmapStepRefines DEF ReadersInv
  <2>3. CASE ReadNoFileBuff \/ Done \/ UNCHANGED readersVars
    <3>1. file' = file /\ m_out' = m_out /\ m_end' = m_end /\ m_swap_end' = m_swap_end
      BY <2>3, StepsApart DEF mmapVars, mmapReaderVars, swapVars
    <3>2. QED BY <3>1, FileKept DEF Mmap!vars
  <2>4. QED BY <2>1, <2>2, <2>3 DEF ReadersNext
<1>3. QED BY <1>1, <1>2, ReadersInvariant, PTL DEF ReadersSpec
=============================================================================
