--------------------------- MODULE EvioRoundTrip ---------------------------
(***************************************************************************)
(* Events as they are recorded, whole or damaged, given to the parser, and *)
(* what has to come out of them.                                           *)
(***************************************************************************)
EXTENDS EvioBlockParser, FiniteSets

CONSTANTS
    Sources,      (* the blocks to parse, each a sequence of events        *)
    BadLengths    (* what a damaged length may read                        *)

VARIABLES
    source,       (* which of them this is, before the damage              *)
    damage        (* what happened to it                                   *)

roundTripVars == <<vars, source, damage>>

Block == Sources[source]

BlockWords(events) == FlattenSeq([k \in DOMAIN events |-> EventWords(events[k])])

Undamaged == [kind |-> "none", at |-> <<>>]

(* The first word of a hit damaged: of a type there is not, or of another  *)
(* event of the block, 0 being what the firmware writes in error.          *)
BadFirst(w) ==
    {[w EXCEPT !.t = 11]} \cup {[w EXCEPT !.w = n] : n \in IF w.t = 9 THEN {0, 2} ELSE {}}

(* A word lost from the data of a block bank, the lengths being right for  *)
(* what is left: from a bank's own words, or from a module's header, hits  *)
(* or trailer.  "at" is the way to it.                                     *)
Places(events) ==
    UNION { {<<e, d, k>> : k \in DOMAIN events[e].banks[d].blocks} :
            <<e, d>> \in UNION {{<<e, d>> : d \in DOMAIN events[e].banks} : e \in DOMAIN events} }

LoseWord ==
    \E p \in Places(Block) :
        LET b == Block[p[1]].banks[p[2]].blocks[p[3]]
            With(block) == [Block EXCEPT ![p[1]].banks[p[2]].blocks[p[3]] = block]
            Lost(at, block) ==
                /\ damage = [kind |-> "word", at |-> p \o at]
                /\ words = BlockWords(With(block))
        IN  \/ \E i \in DOMAIN b.data : Lost(<<>>, [b EXCEPT !.data = RemoveAt(@, i)])
            \/ \E m \in DOMAIN b.modules :
                  \/ \E i \in DOMAIN b.modules[m].head :
                        Lost(<<>>, [b EXCEPT !.modules[m].head = RemoveAt(@, i)])
                  \/ Lost(<<>>, [b EXCEPT !.modules[m].tail = <<>>])
                  \/ \E h \in DOMAIN b.modules[m].hits :
                     \/ \E i \in DOMAIN b.modules[m].hits[h].words :
                           Lost(<<m, h>>, [b EXCEPT !.modules[m].hits[h].words = RemoveAt(@, i)])
                     \/ \E w \in BadFirst(b.modules[m].hits[h].words[1]) :
                           Lost(<<>>, [b EXCEPT !.modules[m].hits[h].words[1] = w])

BadLength ==
    LET sound == BlockWords(Block) IN
    \E i \in DOMAIN sound, x \in BadLengths :
        /\ sound[i] = Length(sound[i].len) /\ x # sound[i].len
        /\ damage = [kind |-> "length", at |-> <<i, x>>]
        /\ words = [sound EXCEPT ![i].len = x]

RoundTripInit ==
    /\ ParserInit
    /\ source \in DOMAIN Sources
    /\ \/ damage = Undamaged /\ words = BlockWords(Block)
       \/ LoseWord
       \/ BadLength

Parse == Next /\ UNCHANGED <<source, damage>>
Returned == pc \in Stopped /\ UNCHANGED roundTripVars

Spec == RoundTripInit /\ [][Parse \/ Returned]_roundTripVars /\ WF_roundTripVars(Parse)

-----------------------------------------------------------------------------
(* What the events hold.                                                   *)

ParserOfModule(m) == IF m.mod = "FADC250" THEN "f250" ELSE "f125"

(* The pulses of a hit; the firmware writes bogus ones without integral.   *)
Pulsing(h) == {i \in DOMAIN h.words : h.words[i].w = 1 /\ h.words[i].t = -1 /\ h.words[i].n # 0}
Bogus(h) == \E i \in DOMAIN h.words : h.words[i].w = 1 /\ h.words[i].t = -1 /\ h.words[i].n = 0

HitsOf(roc, m, h) ==
    LET parser == ParserOfModule(m)
        H(t, n, count) ==
            [k \in 1..count |-> [what |-> parser, t |-> t, roc |-> roc, slot |-> m.slot,
                                 chan |-> h.chan, n |-> n]]
    IN  CASE h.t = 4                      -> H(4, 2 * (Len(h.words) - 1), 1)
          [] h.t = 9 /\ parser = "f250"   -> H(9, 0, Cardinality(Pulsing(h)))
          [] h.t = 9 /\ parser = "f125"   -> H(IF roc < 30 THEN 5 ELSE 6, 0, h.w)
          [] h.t = 6 /\ parser = "f250"   -> <<>>
          [] h.t \in {13, 14, 15}         -> <<>>
          [] OTHER                        -> H(h.t, 0, 1)

(* The f250 parser does not go back to the first event at a trailer, so    *)
(* that the modules after the first of an f250 bank are lost.              *)
Parsed(b) ==
    {j \in DOMAIN b.modules : b.modules[j].mod = "FADC250" => j = 1}

(* The hits of an event which the parser keeps; those in Except may be     *)
(* missing.  An event after the first of a block finds no JEvent.          *)
HitsExcept(e, Except(_, _, _, _)) ==
    LET banks == Block[e].banks
        OfModule(d, k, j) ==
            LET m == banks[d].blocks[k].modules[j] IN
            FlattenSeq([h \in DOMAIN m.hits |->
                IF Except(d, k, j, h) THEN <<>> ELSE HitsOf(banks[d].roc, m, m.hits[h])])
        OfBlock(d, k) ==
            FlattenSeq([j \in DOMAIN banks[d].blocks[k].modules |->
                IF j \in Parsed(banks[d].blocks[k]) THEN OfModule(d, k, j) ELSE <<>>])
    IN  FlattenSeq([d \in DOMAIN banks |->
            FlattenSeq([k \in DOMAIN banks[d].blocks |-> OfBlock(d, k)])])

NoHit(d, k, j, h) == FALSE

FadcObjects == SelectSeq(inserted, LAMBDA o : o.what \in {"f250", "f125"})

(* An APV without data is taken for the end of the event when another APV  *)
(* follows, and the frames after it are lost.                              *)
SrsFrames(roc, b) ==
    LET Object_(apv, bins) ==
            [what |-> SrsType, t |-> -1, roc |-> roc, slot |-> Slot, chan |-> apv,
             n |-> IF bins < NSAMPLES_GEMSRS THEN bins ELSE NSAMPLES_GEMSRS]
        Silent(k) == b.frames[k].bins = 0 /\ k < Len(b.frames)
        Kept(k) == \A j \in 1..k : ~Silent(j)
        kept == SelectSeq([k \in DOMAIN b.frames |-> k], Kept)
    IN  (IF b.lead = 0 THEN <<>> ELSE <<Object_(-1, b.lead)>>)
        \o [k \in DOMAIN kept |-> Object_(b.frames[kept[k]].apv, b.frames[kept[k]].bins)]

(* Each bank's frames replace those of the one before.                     *)
ExpectedSrs(e) ==
    LET banks == Block[e].banks
        OfBank(d) == FlattenSeq([k \in DOMAIN banks[d].blocks |->
            IF banks[d].blocks[k].det = "srs"
            THEN <<SrsFrames(banks[d].roc, banks[d].blocks[k])>> ELSE <<>>])
        found == SelectSeq(FlattenSeq([d \in DOMAIN banks |-> OfBank(d)]),
                           LAMBDA frames : frames # <<>>)
    IN  IF found = <<>> THEN <<>> ELSE Last(found)

SrsObjects == SelectSeq(inserted, LAMBDA o : o.what = SrsType)

-----------------------------------------------------------------------------
(* A whole event comes out whole: each hit of its modules once, in order,  *)
(* under its own crate, slot and channel (but for the f250 modules after   *)
(* the first of a bank), and the frames of the last SRS bank up to a       *)
(* silent APV.                                                             *)
WholeEventKept ==
    pc \in Stopped /\ damage = Undamaged =>
        /\ pc = "done"
        /\ FadcObjects = HitsExcept(1, NoHit)
        /\ SrsObjects = ExpectedSrs(1)

(* A lost word leads the parser out of the block only where a raw trigger  *)
(* bank lost its length, or where f250 pulse data, which the parser follows*)
(* without looking for the end of the bank, were the last of the block.    *)
StaysInBlock ==
    pc = "wild" =>
        LET hit == Block[damage.at[1]].banks[damage.at[2]].blocks[damage.at[3]]
            last == Last(Last(Last(Block).banks).blocks)
        IN  \/ hit.det = "rawtrigger"
            \/ /\ hit = last /\ hit.modules # <<>>
               /\ Last(Last(hit.modules).hits).t = 9

(* A lost word of a hit costs that hit and at most the next one of its     *)
(* module (an f125 parser takes its first word for the missing one), with  *)
(* the pedestal that goes by the channel of that one; a word of a header,  *)
(* a trailer or another bank, a wrong type, or a bogus pulse, after which  *)
(* errors are forgiven, costs its bank.  All else is kept unless the whole *)
(* event is given up.                                                      *)
LossIsLocal ==
    LET at == damage.at
        hits == Block[1].banks[at[2]].blocks[at[3]].modules[at[4]].hits
        Near(d, k, j, h) ==
            /\ <<d, k>> = <<at[2], at[3]>>
            /\ Len(at) = 5 /\ ~(\E i \in DOMAIN hits : Bogus(hits[i])) =>
                /\ j = at[4]
                /\ h \in {at[5], at[5] + 1} \/ (h = at[5] + 2 /\ hits[h].t = 10)
    IN  damage.kind = "word" =>
            /\ StaysInBlock
            /\ pc = "done" => Range(HitsExcept(1, Near)) \subseteq Range(FadcObjects)

(* Whatever is lost, and whatever a length reads, parsing ends: unless a   *)
(* length is the one that adds to nothing with the word it is in.          *)
ParsingEnds ==
    (damage.kind = "length" => damage.at[2] # Modulus - 1) ~> (pc \in Stopped)

=============================================================================
