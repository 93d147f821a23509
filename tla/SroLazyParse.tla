---------------------------- MODULE SroLazyParse ----------------------------
(***************************************************************************)
(* One block, possibly with a damaged word, parsed by the two ways of the  *)
(* parser: eagerly, then lazily with every frame decoded afterwards.       *)
(***************************************************************************)
EXTENDS SroFrameSetParser

CONSTANTS
    SoundBlocks, (* blocks as the aggregator writes them                   *)
    Large,       (* what a word that is no length reads as one             *)
    Damages(_),  (* what may stand in place of a word                      *)
    MaxErrors    (* bound: structure errors that are counted               *)

-----------------------------------------------------------------------------
(* The words of an SRO block as the aggregator writes them.  A block is a  *)
(* sequence of sets, a set one of ROC banks                                *)
(*   [tag, map, payloads]  with payloads  [id, data],                      *)
(* map being the entries <<payload id, module>> of its payload map, and    *)
(* data the kinds of the words of a payload: "fadc", "pair" and "rest" for *)
(* the two words of a DCRB hit, "badgroup", or "other".  A word knows the  *)
(* bank whose contents it is part of (depth "block", "set" or "roc"), the  *)
(* set, and the first ROC bank that cannot be found without it.            *)
Blank == [len |-> Large, tag |-> "none", seg |-> "none", slen |-> 1, map |-> <<>>, slot |-> "none"]

Length(n)     == [Blank EXCEPT !.len = n, !.slen = n]
Header(tag)   == [Blank EXCEPT !.tag = tag]
Segment(s, n) == [Blank EXCEPT !.seg = s, !.slen = n]
MapEntries(m) == [Blank EXCEPT !.map = m]

BankWords(tag, contents) == <<Length(Len(contents) + 1), Header(tag)>> \o contents

PayloadWords(p) ==
    BankWords(p.id,
        [k \in DOMAIN p.data |-> [Blank EXCEPT !.tag = p.data[k], !.slot = p.id]])

(* A stream without payloads, which fills a gap, has an empty payload map. *)
InfoWords(r) ==
    BankWords("info",
        <<Segment("ts", 3), Blank, Blank, Blank>> \o
        IF r.map = <<>> THEN <<Segment("map", 0)>>
        ELSE <<Segment("map", 1), MapEntries(r.map)>>)

RocWords(r) ==
    BankWords(r.tag, InfoWords(r) \o
        FlattenSeq([k \in DOMAIN r.payloads |-> PayloadWords(r.payloads[k])]))

SibWords == BankWords("sib", <<Segment("ts", 3), Blank, Blank, Blank>>)

(* Words of one set with the banks they belong to.                         *)
Owned(depth, s, r, ws) ==
    [k \in DOMAIN ws |->
        [depth |-> depth, set |-> s, roc |-> r] @@ ws[k]]
OwnedRoc(s, r, ws) ==
    Owned("set", s, r, SubSeq(ws, 1, 2)) \o Owned("roc", s, r, SubSeq(ws, 3, Len(ws)))
SetWords(rocs, s) ==
    LET contents == Owned("set", s, 0, SibWords) \o
            FlattenSeq([r \in DOMAIN rocs |-> OwnedRoc(s, r, RocWords(rocs[r]))])
    IN  Owned("block", s, 0, <<Length(Len(contents) + 1), Header("set")>>) \o contents

BlockWords(block) == FlattenSeq([s \in DOMAIN block |-> SetWords(block[s], s)])

-----------------------------------------------------------------------------
(* A word of a block, for the parser and by the bank it is part of.         *)
Word == [len : Nat, tag : STRING, seg : STRING, slen : Nat,
         map : Seq(Seq(STRING)), slot : STRING,
         depth : {"block", "set", "roc"}, set : Nat, roc : Nat]

ASSUME SroParserAssumption ==
    /\ Modulus \in Nat \ {0}
    /\ \A b \in SoundBlocks :
        /\ BlockWords(b) \in Seq(Word)
        /\ Len(BlockWords(b)) + 2 < Modulus
        /\ \A k \in DOMAIN BlockWords(b) : Damages(BlockWords(b)[k]) \subseteq Word

VARIABLES
    origin,      (* the block that is parsed, before damage                *)
    damaged,     (* position of the damaged word, or -1                    *)
    eager        (* what eager parsing gave                                *)

parseVars == <<parserVars, origin, damaged, eager>>

NoResult == [frames |-> <<>>, hits |-> NoHits]

BlockInit ==
    /\ ParserInit
    /\ origin \in SoundBlocks
    /\ expected = Len(origin)
    /\ lazy = FALSE
    /\ LET sound == BlockWords(origin) IN
       \/ damaged = -1 /\ words = sound
       \/ /\ damaged \in 0..(Len(sound) - 1)
          /\ \E w \in Damages(sound[damaged + 1]) :
                words = [sound EXCEPT ![damaged + 1] = w]
    /\ eager = NoResult

(* Bound: a length that wraps around may lead the walk round and round; it *)
(* is followed until it has counted more than one walk of the block can.   *)
Overrun ==
    \/ errors > MaxErrors \/ Len(deferred) > Size
    \/ Len(sink.fadc) > Size \/ Len(sink.dcrb) > Size

Parse == ~Overrun /\ ParserNext /\ UNCHANGED <<origin, damaged, eager>>

(* The eager result is kept, and the block is parsed again.                *)
ParseAgain ==
    /\ level = "done" /\ ~lazy
    /\ eager' = [frames |-> frames, hits |-> hits]
    /\ lazy' = TRUE
    /\ level' = "set" /\ pos' = 0
    /\ frames' = <<>> /\ deferred' = <<>>
    /\ sink' = NoHits /\ errors' = 0 /\ hits' = NoHits
    /\ UNCHANGED <<words, expected, setEnd, rocPos, frame, rocVars, nextDeferred,
                   decoded, origin, damaged>>

Finished == level = "done" /\ lazy
Done == (Finished \/ Overrun) /\ UNCHANGED parseVars

ParseSpec == BlockInit /\ [][Parse \/ ParseAgain \/ Done]_parseVars
                  /\ WF_parseVars(Parse \/ ParseAgain)

-----------------------------------------------------------------------------
(* No length, added to a position, wraps around (SroFrameSetParser.cc:31). *)
NoneWraps == \A k \in DOMAIN words : Size + words[k].len < Modulus

CursorsNest ==
    /\ level \in {"roc", "payload"} /\ ~Deferring =>
            rocPos <= setEnd /\ setEnd <= pos /\ pos <= Size
    /\ level = "payload" =>
            roc.start <= payPos /\ payPos <= roc.end /\ roc.end <= Size
    /\ level = "payload" /\ ~Deferring => roc.end = rocPos

(* SroFrameSetParser.cc:24 "returns false if the bank does not fit in      *)
(* [pos, limit)": the banks being walked lie inside one another, and every *)
(* cursor inside its bank, unless a length wraps around.                   *)
BanksNest == NoneWraps => CursorsNest

(* SroData.h:51 "Hit ranges are contiguous slices of the hit vectors": the *)
(* slices of the frames follow one another, hold all the hits of the       *)
(* block, and each hit is in the slice of the frame it says it is of.      *)
Follows(fs, first, n, total) ==
    /\ \A f \in DOMAIN fs :
        fs[f][first] = IF f = 1 THEN 0 ELSE fs[f - 1][first] + fs[f - 1][n]
    /\ total = IF fs = <<>> THEN 0 ELSE fs[Len(fs)][first] + fs[Len(fs)][n]
InSlice(fs, v, first, n) ==
    \A f \in DOMAIN fs : \A k \in 1..fs[f][n] :
        v[fs[f][first] + k].frame = f
SlicesPartitionHits ==
    level \in {"parsed", "deferred", "done"} =>
        /\ Follows(frames, "firstFadc", "nFadc", Len(hits.fadc))
        /\ Follows(frames, "firstDcrb", "nDcrb", Len(hits.dcrb))
        /\ Follows(frames, "firstDeferred", "nDeferred", Len(deferred))
        /\ InSlice(frames, hits.fadc, "firstFadc", "nFadc")
        /\ InSlice(frames, hits.dcrb, "firstDcrb", "nDcrb")

-----------------------------------------------------------------------------
(* What a sound block holds: a hit for each of its data words, under the   *)
(* tag of its ROC, in its slot, in the frame of its set.                   *)
Content ==
    {[kind |-> At(i).tag, set |-> At(i).set, roc |-> origin[At(i).set][At(i).roc].tag,
      slot |-> At(i).slot, word |-> i] :
        i \in {j \in 0..(Size - 1) : At(j).tag \in {"fadc", "pair"}}}

Decoded(kind, v) ==
    {[kind |-> kind, set |-> At(eager.frames[v[k].frame].number).set,
      roc |-> v[k].roc, slot |-> v[k].slot, word |-> v[k].word] : k \in DOMAIN v}

(* The words that a damaged word may cost: those of its bank, and of the   *)
(* ROC banks that follow where the walk cannot be taken up again.          *)
Reached(i) ==
    /\ damaged >= 0
    /\ LET d == At(damaged)
           w == At(i)
       IN  CASE d.depth = "block" -> w.set >= d.set
             [] d.depth = "set"   -> w.set = d.set /\ w.roc >= d.roc
             [] d.depth = "roc"   -> w.set = d.set /\ w.roc = d.roc

(* SroFrameSetParser.cc:117 "the caller then abandons this ROC bank but    *)
(* not the set", :211 and SroData.h:81 "rest of set skipped": whatever one *)
(* damaged word does, all the hits elsewhere are found, and nothing else,  *)
(* unless a length wraps around and leads the walk back into other banks.  *)
HitsElsewhereFound ==
    Finished /\ NoneWraps =>
        {h \in Decoded("fadc", eager.hits.fadc) \cup Decoded("pair", eager.hits.dcrb) :
            ~Reached(h.word)}
        = {h \in Content : ~Reached(h.word)}
-----------------------------------------------------------------------------
(* SroFrameSetParser.h:35 "Together with the block's ECAL hit slice this   *)
(* reproduces exactly the hits eager parsing yields for the frame - values *)
(* and counts, not order": so it is for the FADC hits of any block.        *)
EagerSlice(f, v, first, n) == Slice(v, eager.frames[f][first], eager.frames[f][n])
FadcAsEager ==
    Finished =>
        /\ Len(decoded) = Len(eager.frames)
        /\ \A f \in DOMAIN decoded :
              ToBag(decoded[f].fadc)
              = ToBag(EagerSlice(f, eager.hits.fadc, "firstFadc", "nFadc"))

(* The DCRB hits that lazy decoding gives are those of the ROCs that are   *)
(* not of the ECAL: EnsureDecoded (SroFrameRef.h:33) takes over no others. *)
DcrbButForEcal ==
    Finished =>
        \A f \in DOMAIN decoded :
            LET slice == EagerSlice(f, eager.hits.dcrb, "firstDcrb", "nDcrb")
            IN  ToBag(decoded[f].dcrb)
                = RestrictDomain(ToBag(slice), LAMBDA h : h.roc \notin EcalRocs)

(* Lazy parsing gives the hits of eager parsing, but for DCRBs of the ECAL.*)
LazyAsEager == FadcAsEager /\ DcrbButForEcal

(* SroData.h:73 "Parse anomalies, counted instead of aborting": the parser *)
(* comes to the end of every block, unless a length wraps around.  One of  *)
(* 2^32 - 1 passes ReadBank and leads to the bank itself again, for ever.  *)
EventuallyParsed == NoneWraps ~> Finished

=============================================================================
