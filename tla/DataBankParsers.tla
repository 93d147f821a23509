-------------------------- MODULE DataBankParsers ---------------------------
(***************************************************************************)
(* The words of an event as the data acquisition writes them.  A word is   *)
(* described by all it can be taken for:                                   *)
(*   len     as a length: the words after it                               *)
(*   tag, n  as the header of a bank, a segment or a parameter             *)
(*   t       its data type when bit 31 is set, -1 for a continuation word  *)
(*   w       a width or a count; the top bit of a continuation word        *)
(* An event is [outer, trigger, banks], trigger being the words before the *)
(* data banks; a data bank is [roc, blocks], its data block banks.         *)
(* One word "timebin" stands for the words of a whole time bin of an APV,  *)
(* "apvheader" for those before the first bin.                             *)
(*                                                                         *)
(* And what EVIOBlockedEventParser keeps while it parses one block of them *)
(* into one JEvent, and the JEvent it fills.  The pointer to the word being*)
(* parsed is the position of the word, from 1.                             *)
(*                                                                         *)
(* The words of the flash ADCs: Parsef250Bank and Parsef125Bank, one turn  *)
(* of their loops at a time.  Bit 31 marks a word that says what it is;    *)
(* the words after it, with bit 31 clear, continue it.                     *)
(*                                                                         *)
(* ParseDGEMSRSBank: the frames of the APVs of an SRS front end.  A header *)
(* of an APV ends the frame before it; two headers with no data word in    *)
(* between are taken for the boundary of two events.  One object here      *)
(* stands for the 128 of an APV.                                           *)
(***************************************************************************)
EXTENDS Integers, Sequences, SequencesExt

CONSTANT Modulus   (* of the 32 bit lengths                                *)

(* What a word that is no length reads as one: far past the event.         *)
Far == Modulus - 2

Blank == [len |-> Far, tag |-> "none", n |-> 0, t |-> -1, w |-> 0]

Length(x)         == [Blank EXCEPT !.len = x]
Header(tag, n)    == [Blank EXCEPT !.tag = tag, !.n = n]
Section(slots, c) == [Blank EXCEPT !.n = slots, !.w = c]
Value(tag, x)     == [Blank EXCEPT !.tag = tag, !.len = x]
BlockHeader(m, s) == [Blank EXCEPT !.t = 0, !.tag = m, !.n = s]
Type(t, n, w)     == [Blank EXCEPT !.t = t, !.n = n, !.w = w]
Cont(n, top)      == [Blank EXCEPT !.n = n, !.w = top]

(* A length word counts the words after it.                                *)
BankWords(header, contents) == <<Length(Len(contents) + 1), header>> \o contents

(* A hit of a module: type, channel, width or number of peaks, words.      *)
Hit(t, chan, w, conts) ==
    [t |-> t, chan |-> chan, w |-> w, words |-> <<Type(t, chan, w)>> \o conts]

(* A module's part of the data of its crate.                               *)
Module(mod, slot, hits) ==
    [mod |-> mod, slot |-> slot, head |-> <<BlockHeader(mod, slot), Type(2, 1, 0)>>,
     hits |-> hits, tail |-> <<Type(1, 0, 0)>>]

ModuleWords(m) == m.head \o FlattenSeq([k \in DOMAIN m.hits |-> m.hits[k].words]) \o m.tail

(* An SRS front end: raw words before the first APV, [apv, bins] for each  *)
(* APV, the trailer.                                                       *)
ApvWords(f) ==
    <<Header("ADC", f.apv), Blank>>
    \o (IF f.bins = 0 THEN <<>> ELSE <<Header("apvheader", 0)>>)
    \o [k \in 1..f.bins |-> Header("timebin", 0)]

SrsWords(lead, frames) ==
    <<Blank>> \o [k \in 1..lead |-> Header("timebin", 0)]
    \o FlattenSeq([k \in DOMAIN frames |-> ApvWords(frames[k])])
    \o <<Header("trailer", 0)>>

(* CDAQ's raw trigger bank: a segment with the number of the event, the    *)
(* time in two words and extra words.                                      *)
RawTriggerWords(number, extra) ==
    <<Length(3 + extra), Cont(number, 0), Blank, Blank>> \o [k \in 1..extra |-> Blank]

(* A data block bank: its words, of which those of a crate are modules and *)
(* those of an SRS front end are lead and frames.                          *)
Words(det, data) == [det |-> det, data |-> data, modules |-> <<>>, lead |-> 0, frames |-> <<>>]
Crate(modules) == [Words("jlab", <<>>) EXCEPT !.modules = modules]
Srs(lead, frames) ==
    [Words("srs", SrsWords(lead, frames)) EXCEPT !.lead = lead, !.frames = frames]
RawTrigger(number, extra) == Words("rawtrigger", RawTriggerWords(number, extra))

BlockBank(b) ==
    BankWords(Header(b.det, 0),
              b.data \o FlattenSeq([k \in DOMAIN b.modules |-> ModuleWords(b.modules[k])]))

(* The low bits of the header of a data bank are the number of events.     *)
DataBank(d) ==
    BankWords([Header("rocbank", 1) EXCEPT !.w = d.roc],
              FlattenSeq([k \in DOMAIN d.blocks |-> BlockBank(d.blocks[k])]))

EventWords(e) ==
    BankWords(Header(e.outer, 1),
        e.trigger \o FlattenSeq([k \in DOMAIN e.banks |-> DataBank(e.banks[k])]))

-----------------------------------------------------------------------------
VARIABLES
    words,        (* block.data                                            *)
    pc,           (* the loop the parser is in, or how it ended            *)
    iptr,
    ends,         (* the iend of each enclosing bank                       *)
    rocid,
    ievent_idx,
    number,       (* event number of the JEvent                            *)
    epicsvalues,
    fe,           (* locals of Parsef250Bank and Parsef125Bank             *)
    srs,          (* locals of ParseDGEMSRSBank                            *)
    m_srs_accumulator,
    inserted      (* the objects of the JEvent, in the order they came     *)

vars == <<words, pc, iptr, ends, rocid, ievent_idx, number, epicsvalues, fe, srs,
          m_srs_accumulator, inserted>>

(* "wild": a word outside of the block has been read.                      *)
Stopped == {"done", "thrown", "exit", "wild"}

(* events.size(): more events than one are refused.                        *)
Events == 1

NoFrontEnd == [ievent |-> 0, event |-> FALSE, slot |-> 0, chan |-> 0, lenient |-> FALSE]
NoSrs      == [apv |-> -1, raw |-> <<>>, magic |-> FALSE]

ParserInit ==
    /\ pc = "start"
    /\ iptr = 1
    /\ ends = [event |-> 0, bank |-> 0, block |-> 0]
    /\ rocid = 0 /\ ievent_idx = 0 /\ number = 0
    /\ epicsvalues = <<>>
    /\ fe = NoFrontEnd /\ srs = NoSrs
    /\ m_srs_accumulator = <<>>
    /\ inserted = <<>>

Word(k) == words[iptr + k]

Sees(positions) == positions \subseteq DOMAIN words

Object(what, slot, chan, n) ==
    [what |-> what, t |-> -1, roc |-> rocid, slot |-> slot, chan |-> chan, n |-> n]

(* JEvent::Insert of one object adds to its bundle.  Insert of a vector    *)
(* replaces the bundle of the type.                                        *)
InsertEach(objects) == inserted' = inserted \o objects
InsertVector(what, objects) ==
    inserted' = SelectSeq(inserted, LAMBDA o : o.what # what) \o objects

Stop(how) ==
    /\ pc' = how
    /\ UNCHANGED <<words, iptr, ends, rocid, ievent_idx, number, epicsvalues, fe, srs,
                   m_srs_accumulator, inserted>>

-----------------------------------------------------------------------------
(* A call of either starts with no event: words before an event header are *)
(* read and dropped.                                                       *)
EnterFrontEnd(parser) ==
    /\ pc' = parser
    /\ fe' = [NoFrontEnd EXCEPT !.ievent = ievent_idx]
    /\ UNCHANGED <<words, iptr, ends, rocid, ievent_idx, number, epicsvalues, srs,
                   m_srs_accumulator, inserted>>

(* Mutant: the word at the end belongs to the bank.                        *)
InFrontEndOneMore == pc \in {"f250", "f125"} /\ iptr <= ends.block

InFrontEnd == pc \in {"f250", "f125"} /\ iptr < ends.block

(* The loop goes on k words further.                                       *)
Advance(k) ==
    /\ iptr' = iptr + k
    /\ UNCHANGED <<words, ends, rocid, ievent_idx, number, epicsvalues, srs,
                   m_srs_accumulator>>

(* Back to ParseJLabModuleData with nothing of the bank left.              *)
LeaveBank ==
    /\ pc' = "jlab"
    /\ iptr' = ends.block
    /\ UNCHANGED <<words, ends, rocid, ievent_idx, number, epicsvalues, fe, srs,
                   m_srs_accumulator, inserted>>

FadcObject(parser, t, chan, n) ==
    <<[Object(parser, fe.slot, chan, n) EXCEPT !.t = t]>>
Made(t, chan, n) == IF fe.event THEN FadcObject(pc, t, chan, n) ELSE <<>>

BankUsedUp ==
    /\ pc \in {"f250", "f125"} /\ iptr >= ends.block
    /\ pc' = "jlab"
    /\ UNCHANGED <<words, iptr, ends, rocid, ievent_idx, number, epicsvalues, fe, srs,
                   m_srs_accumulator, inserted>>

(* Continuation words nothing claims, and the words without data.          *)
PassOver ==
    /\ InFrontEnd
    /\ Word(0).t \in {-1, 13, 14, 15} \cup (IF pc = "f250" THEN {6} ELSE {})
    /\ Advance(1)
    /\ UNCHANGED <<pc, fe, inserted>>

FrontEndBlockHeader ==
    /\ InFrontEnd /\ Word(0).t = 0
    /\ fe' = [fe EXCEPT !.slot = Word(0).n]
    /\ Advance(1)
    /\ UNCHANGED <<pc, inserted>>

(* Mutant: no trailer goes back to the first event.                        *)
FrontEndTrailerKeepsEvent ==
    /\ InFrontEnd /\ Word(0).t = 1
    /\ fe' = [fe EXCEPT !.event = FALSE]
    /\ Advance(1)
    /\ UNCHANGED <<pc, inserted>>

(* The trailer of a module: only the parser of the f125 goes back to the   *)
(* first event for the next module.                                        *)
FrontEndTrailer ==
    /\ InFrontEnd /\ Word(0).t = 1
    /\ fe' = [fe EXCEPT !.event = FALSE,
                        !.ievent = IF pc = "f125" THEN ievent_idx ELSE @]
    /\ Advance(1)
    /\ UNCHANGED <<pc, inserted>>

EventHeader ==
    /\ InFrontEnd /\ Word(0).t = 2
    /\ fe.ievent < Events
    /\ fe' = [fe EXCEPT !.event = TRUE, !.ievent = @ + 1]
    /\ Advance(1)
    /\ UNCHANGED <<pc, inserted>>

(* More event headers than events: the rest of the bank is skipped.        *)
EventHeaderTooMany ==
    /\ InFrontEnd /\ Word(0).t = 2
    /\ fe.ievent >= Events
    /\ LeaveBank

(* The second word of the time is optional.                                *)
TriggerTime ==
    /\ InFrontEnd /\ Word(0).t = 3
    /\ InsertEach(Made(3, 0, 0))
    /\ Advance(IF Word(1).t = -1 THEN 2 ELSE 1)
    /\ UNCHANGED <<pc, fe>>

(* The samples found: continuation words, two samples in each, within the  *)
(* bank and within the width.                                              *)
Continued(width) ==
    LET Ok(k) == iptr + k < ends.block /\ words[iptr + k].t = -1
        Whole(k) == \A j \in 1..k : Ok(j)
    IN  CHOOSE k \in 0..((width + 1) \div 2) :
            Whole(k) /\ (k < (width + 1) \div 2 => ~Whole(k + 1))

WindowRawData ==
    /\ InFrontEnd /\ Word(0).t = 4 /\ fe.event
    /\ LET k == Continued(Word(0).w) IN
       /\ InsertEach(Made(4, Word(0).n, 2 * k))
       /\ Advance(IF pc = "f125" /\ 2 * k < Word(0).w /\ iptr + k + 1 < ends.block
                  THEN k + 2   (* the word that ended the window as well   *)
                  ELSE k + 1)
    /\ UNCHANGED <<pc, fe>>

WindowWithoutEvent ==
    /\ InFrontEnd /\ Word(0).t = 4 /\ ~fe.event
    /\ Advance(1)
    /\ UNCHANGED <<pc, fe, inserted>>

(* Hits of one word.                                                       *)
OneWordHit ==
    /\ InFrontEnd
    /\ Word(0).t \in IF pc = "f250" THEN {5, 7, 8, 10} ELSE {7, 8}
    /\ InsertEach(Made(Word(0).t, Word(0).n, 0))
    /\ fe' = IF pc = "f125" /\ Word(0).t = 8 THEN [fe EXCEPT !.chan = Word(0).n] ELSE fe
    /\ Advance(1)
    /\ UNCHANGED pc

-----------------------------------------------------------------------------
(* Only f250: Pulse Data, whose first word is followed by pairs of words.  *)

PulseDataFirmwareBug ==
    /\ pc = "f250" /\ InFrontEnd /\ Word(0).t = 9 /\ Word(0).w = 0
    /\ Stop("exit")

PulseDataBadEvent ==
    /\ pc = "f250" /\ InFrontEnd /\ Word(0).t = 9 /\ Word(0).w > Events
    /\ Stop("thrown")

PulseData ==
    /\ pc = "f250" /\ InFrontEnd /\ Word(0).t = 9 /\ Word(0).w \in 1..Events
    /\ pc' = "pulse"
    /\ fe' = [fe EXCEPT !.event = TRUE, !.chan = Word(0).n]
    /\ Advance(0)
    /\ UNCHANGED inserted

(* Mutant: the word that ends the pulses is not backed up to.              *)
PulsesEndAdvanced ==
    /\ pc = "pulse" /\ Word(1).t # -1
    /\ pc' = "f250"
    /\ Advance(2)
    /\ UNCHANGED <<fe, inserted>>

(* The inner loop does not look where the bank ends.                       *)
PulsesEnd ==
    /\ pc = "pulse" /\ Word(1).t # -1
    /\ pc' = "f250"
    /\ Advance(1)
    /\ UNCHANGED <<fe, inserted>>

BadPair == Word(1).w # 1 \/ Word(2).t # -1 \/ Word(2).w # 0

Pulse ==
    /\ pc = "pulse" /\ Word(1).t = -1 /\ ~BadPair
    /\ ~(Word(1).n = 0 /\ Word(2) = Word(3))
    /\ InsertEach(FadcObject("f250", 9, fe.chan, 0))
    /\ Advance(2)
    /\ UNCHANGED <<pc, fe>>

(* A bogus pulse without integral: its repeated words are passed over, and *)
(* from here on the errors of the format are forgiven.                     *)
BogusPulse ==
    /\ pc = "pulse" /\ Word(1).t = -1 /\ ~BadPair
    /\ Word(1).n = 0 /\ Word(2) = Word(3)
    /\ pc' = "f250"
    /\ fe' = [fe EXCEPT !.lenient = TRUE]
    /\ Advance(CHOOSE k \in 3..Len(words) :
                   /\ \A j \in 3..k : Word(j) = Word(2)
                   /\ Word(k + 1) # Word(2))
    /\ UNCHANGED inserted

BadPulse ==
    /\ pc = "pulse" /\ Word(1).t = -1 /\ BadPair
    /\ IF fe.lenient THEN LeaveBank ELSE Stop("thrown")

-----------------------------------------------------------------------------
(* Only f125.                                                              *)

(* CDC and FDC hits of two words.  Without its second word the hit is      *)
(* dropped, with the word found instead of it.                             *)
TwoWordHit ==
    /\ pc = "f125" /\ InFrontEnd /\ Word(0).t \in {5, 6}
    /\ InsertEach(IF iptr + 1 < ends.block /\ Word(1).t = -1
                  THEN Made(Word(0).t, Word(0).n, 0) ELSE <<>>)
    /\ Advance(2)
    /\ UNCHANGED <<pc, fe>>

(* FDC peaks, the number of which is in the first word; the crates below   *)
(* 30 are of the CDC.  A word that is no peak takes the place of one.      *)
Peaks ==
    /\ pc = "f125" /\ InFrontEnd /\ Word(0).t = 9
    /\ LET Found(k) == iptr + k < ends.block /\ words[iptr + k].t = -1
           found == SelectSeq([k \in 1..Word(0).w |-> k], Found)
       IN  InsertEach(FlattenSeq([k \in DOMAIN found |->
               Made(IF rocid < 30 THEN 5 ELSE 6, Word(0).n, 0)]))
    /\ Advance(Word(0).w + 1)
    /\ UNCHANGED <<pc, fe>>

(* Not enough bits for a channel: it is that of the last pulse time.       *)
PulsePedestal ==
    /\ pc = "f125" /\ InFrontEnd /\ Word(0).t = 10
    /\ InsertEach(Made(10, fe.chan, 0))
    /\ Advance(1)
    /\ UNCHANGED <<pc, fe>>

-----------------------------------------------------------------------------
UnknownType ==
    /\ InFrontEnd
    /\ Word(0).t \in {11, 12}
    /\ IF fe.lenient THEN LeaveBank ELSE Stop("thrown")

(* The words a turn reads: window samples are read up to the end of the    *)
(* bank, pulse data wherever it leads.                                     *)
WindowReads(width) ==
    {iptr + k : k \in 1..((width + 1) \div 2)} \cap 1..(ends.block - 1)

PulseReads ==
    {iptr + 1} \cup
    IF ~Sees({iptr + 1}) \/ Word(1).t # -1 \/ Word(1).w # 1 THEN {} ELSE
        {iptr + 2} \cup
        IF ~Sees({iptr + 2}) \/ Word(1).n # 0 \/ BadPair THEN {} ELSE
            {iptr + 3} \cup
            {k \in (iptr + 4)..(Len(words) + 1) :
                \A j \in (iptr + 3)..(k - 1) : words[j] = Word(2)}

FrontEndReads ==
    IF ~InFrontEnd THEN {}
    ELSE {iptr} \cup
         IF ~Sees({iptr}) THEN {}
         ELSE CASE Word(0).t = 3 -> {iptr + 1}
                [] Word(0).t = 4 /\ fe.event -> WindowReads(Word(0).w)
                [] pc = "f125" /\ Word(0).t \in {5, 6} -> {iptr + 1} \cap 1..(ends.block - 1)
                [] pc = "f125" /\ Word(0).t = 9 ->
                    ((iptr + 1)..(iptr + Word(0).w)) \cap 1..(ends.block - 1)
                [] OTHER -> {}

FrontEndStep ==
    \/ BankUsedUp \/ PassOver
    \/ FrontEndBlockHeader \/ FrontEndTrailer
    \/ EventHeader \/ EventHeaderTooMany
    \/ TriggerTime \/ WindowRawData \/ WindowWithoutEvent \/ OneWordHit
    \/ UnknownType

Parsef250Bank ==
    FrontEndStep \/ PulseDataFirmwareBug \/ PulseDataBadEvent \/ PulseData
                 \/ PulsesEnd \/ Pulse \/ BogusPulse \/ BadPulse

Parsef125Bank == FrontEndStep \/ TwoWordHit \/ Peaks \/ PulsePedestal

-----------------------------------------------------------------------------
CONSTANT NSAMPLES_GEMSRS
ASSUME NSamplesAssumption == NSAMPLES_GEMSRS \in Nat

Slot == 24
SrsType == "DGEMSRSWindowRawData"

(* The samples of a channel: the whole time bins after the header of the   *)
(* frame, or from the start of a frame without one.                        *)
MakeDGEMSRSWindowRawData ==
    LET raw == srs.raw
        IsBin(tag) == tag = "timebin"
        start == SelectInSeq(raw, LAMBDA tag : tag = "apvheader")
        bins == SelectSeq(SubSeq(raw, start + 1, Len(raw)), IsBin)
        n == IF Len(bins) < NSAMPLES_GEMSRS THEN Len(bins) ELSE NSAMPLES_GEMSRS
    IN  <<Object(SrsType, Slot, srs.apv, n)>>

FrameSoFar == IF srs.raw = <<>> THEN <<>> ELSE MakeDGEMSRSWindowRawData

srsFrame == <<words, ends, rocid, ievent_idx, number, epicsvalues, fe>>

(* Flush, then back to ParseDataBank.                                      *)
FlushAndLeave(accumulated) ==
    /\ pc' = "data" /\ iptr' = ends.block
    /\ m_srs_accumulator' = <<>>
    /\ srs' = NoSrs
    /\ IF accumulated = <<>> THEN UNCHANGED inserted
       ELSE InsertVector(SrsType, accumulated)
    /\ UNCHANGED srsFrame

GoOn(k, accumulated, next) ==
    /\ iptr' = iptr + k
    /\ m_srs_accumulator' = accumulated
    /\ srs' = next
    /\ UNCHANGED <<pc, inserted, srsFrame>>

(* No event to write to, or no word after the first one.                   *)
EnterSrs ==
    /\ pc = "srsbank"
    /\ IF ievent_idx >= Events \/ iptr + 1 >= ends.block
       THEN pc' = "data" /\ iptr' = ends.block
       ELSE pc' = "srs" /\ iptr' = iptr + 1
    /\ srs' = NoSrs
    /\ UNCHANGED <<m_srs_accumulator, inserted, srsFrame>>

DataHeader == pc = "srs" /\ Word(0).tag = "ADC"
Boundary == DataHeader /\ srs.raw = <<>> /\ srs.magic

(* The header of an APV and its word of information.                       *)
ApvHeader ==
    /\ DataHeader /\ ~Boundary
    /\ LET accumulated == m_srs_accumulator \o FrameSoFar IN
       IF iptr + 1 >= ends.block \/ Word(1).tag = "trailer" \/ iptr + 2 >= ends.block
       THEN FlushAndLeave(accumulated)
       ELSE GoOn(2, accumulated, [apv |-> Word(0).n, raw |-> <<>>, magic |-> TRUE])

(* The next event would begin here, and there is none.                     *)
EventBoundary == Boundary /\ FlushAndLeave(m_srs_accumulator)

DataWord ==
    /\ pc = "srs" /\ Word(0).tag # "ADC"
    /\ LET next == [srs EXCEPT !.raw = Append(@, Word(0).tag), !.magic = FALSE] IN
       /\ Word(0).tag # "trailer"
       /\ IF iptr + 1 >= ends.block THEN FlushAndLeave(m_srs_accumulator)
          ELSE GoOn(1, m_srs_accumulator, next)

(* The trailer itself is taken as the last data word, then ends the bank.  *)
TrailerWord ==
    /\ pc = "srs" /\ Word(0).tag = "trailer"
    /\ FlushAndLeave(m_srs_accumulator \o MakeDGEMSRSWindowRawData)

SrsReads ==
    IF pc # "srs" THEN {}
    ELSE {iptr} \cup
         IF Sees({iptr}) /\ DataHeader /\ ~Boundary
         THEN {iptr + 1} \cap 1..(ends.block - 1) ELSE {}

ParseDGEMSRSBank == EnterSrs \/ ApvHeader \/ EventBoundary \/ DataWord \/ TrailerWord
=============================================================================
