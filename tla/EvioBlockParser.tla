-------------------------- MODULE EvioBlockParser --------------------------
(***************************************************************************)
(* EVIOBlockedEventParser::ParseEVIOBlockedEvent: the banks of a block and *)
(* what is made of each.  A turn of a loop, or a call without one, is a    *)
(* step.  The parser trusts every length: a turn whose reads would leave   *)
(* the block stops it as "wild", whatever the memory there would bring.    *)
(***************************************************************************)
EXTENDS DataBankParsers

CodaTags == {"FF50", "FF58", "FF70", "FF78"}
CdaqTags == {"FF32", "FF33"}
ControlTags == {"FFD0", "FFD1", "FFD2", "FFD3", "FFD4"}
ParamTypes == <<"Df250Config", "Df125Config", "DF1TDCConfig", "DCAEN1290TDCConfig">>

Outer == words[2].tag

(* Where the number of events and the number of the event are.             *)
StartReads == CASE Outer = "FF33" -> {4, 8} [] Outer \in CodaTags -> {6, 7} [] OTHER -> {}

Start ==
    /\ pc = "start"
    /\ LET M == CASE Outer = "FF33" -> words[4].n
                  [] Outer \in CodaTags -> words[2].n
                  [] OTHER -> 1
       IN  IF M > Events THEN Stop("thrown")
           ELSE /\ pc' = "bank"
                /\ number' = CASE Outer = "FF33" -> words[8].n
                               [] Outer \in CodaTags -> words[6].n
                               [] OTHER -> 0
                /\ UNCHANGED <<words, iptr, ends, rocid, ievent_idx, epicsvalues, fe, srs,
                               m_srs_accumulator, inserted>>

(* Mutant: the length word itself is not counted.                          *)
AfterLength(p, len) == p + len

(* &p[len + 1], the sum being of 32 bits.                                  *)
After(p, len) == p + ((len + 1) % Modulus)

structure == <<words, rocid, number, fe, srs, m_srs_accumulator>>

-----------------------------------------------------------------------------
(* ParseBank.                                                              *)
AtBank == pc = "bank" /\ iptr \in DOMAIN words
End == Len(words) + 1

BlockDone == pc = "bank" /\ iptr >= End /\ Stop("done")

UnknownOuterBank ==
    /\ AtBank
    /\ Word(1).tag \notin {"EPICS", "BOR"} \cup ControlTags \cup CodaTags \cup CdaqTags
    /\ iptr' = IF Word(0).len < 1 THEN End ELSE After(iptr, Word(0).len)
    /\ UNCHANGED <<pc, ends, ievent_idx, epicsvalues, inserted, structure>>

ParseBORbank ==
    /\ AtBank /\ Word(1).tag \in {"BOR", "FF32"}
    /\ ievent_idx' = ievent_idx + 1
    /\ iptr' = End
    /\ UNCHANGED <<pc, ends, epicsvalues, inserted, structure>>

(* The whole rest of the block is the event's.  Taking the next of the     *)
(* events when there is none is undefined: as a wild read.                 *)
ParseControlEvent ==
    /\ AtBank /\ Word(1).tag \in ControlTags
    /\ ievent_idx < Events
    /\ InsertVector("DCODAControlEvent", <<Object("DCODAControlEvent", 0, 0, End - iptr)>>)
    /\ ievent_idx' = ievent_idx + 1
    /\ iptr' = End
    /\ UNCHANGED <<pc, ends, epicsvalues, structure>>

ParseEPICSbank ==
    /\ AtBank /\ Word(1).tag = "EPICS"
    /\ Word(0).len < 1 \/ ievent_idx < Events
    /\ IF Word(0).len < 1
       THEN iptr' = End /\ UNCHANGED <<pc, ends, ievent_idx>>
       ELSE /\ pc' = "epics"
            /\ ends' = [ends EXCEPT !.event = iptr + 1 + Word(0).len]
            /\ iptr' = iptr + 2
            /\ ievent_idx' = ievent_idx + 1
    /\ epicsvalues' = <<>>
    /\ UNCHANGED <<inserted, structure>>

EpicsValue ==
    /\ pc = "epics" /\ iptr < ends.event
    /\ IF Word(0).tag \notin {"timestamp", "value"} THEN Stop("thrown")
       ELSE /\ epicsvalues' = IF Word(0).tag = "timestamp" THEN epicsvalues
                              ELSE Append(epicsvalues, Object("DEPICSvalue", 0, 0, Word(1).n))
            /\ iptr' = iptr + 1 + Word(0).len
            /\ UNCHANGED <<pc, ends, ievent_idx, inserted, structure>>

EpicsEnd ==
    /\ pc = "epics" /\ iptr >= ends.event
    /\ InsertVector("DEPICSvalue", epicsvalues)
    /\ iptr' = ends.event
    /\ pc' = "bank"
    /\ UNCHANGED <<ends, ievent_idx, epicsvalues, structure>>

(* An event of CDAQ has its data banks at once; one of CODA has the built  *)
(* trigger bank before them.                                               *)
ParseCDAQBank ==
    /\ AtBank /\ Word(1).tag = "FF33"
    /\ ends' = [ends EXCEPT !.event = iptr + 1 + Word(0).len]
    /\ iptr' = iptr + 2
    /\ pc' = "banks"
    /\ UNCHANGED <<ievent_idx, epicsvalues, inserted, structure>>

ParsePhysicsBank ==
    /\ AtBank /\ Word(1).tag \in CodaTags
    /\ ends' = [ends EXCEPT !.event = iptr + 1 + Word(0).len,
                            !.bank = After(iptr + 2, Word(2).len)]
    /\ iptr' = iptr + 2
    /\ pc' = "trigger"
    /\ UNCHANGED <<ievent_idx, epicsvalues, inserted, structure>>

-----------------------------------------------------------------------------
(* ParseBuiltTriggerBank: words of 64 bits, of 16 bits, then those of each *)
(* ROC, all as long as their own headers say.  In the header of the bank n *)
(* is the number of ROCs, w = 1 says that the number of the run is there.  *)
Timestamps(len64) == len64 \div 2 - 1 - Word(1).w

TriggerReads ==
    {iptr + 1} \cup
    IF ~Sees({iptr + 1}) \/ Word(1).tag # "built" THEN {}
    ELSE {iptr + 2} \cup
         IF ~Sees({iptr + 2}) THEN {}
         ELSE IF Timestamps(Word(2).len) < 0 THEN {0}   (* four billion of them *)
         ELSE LET types == iptr + 3 + Word(2).len IN
              {types, types + 1}
              \cup (iptr + 3)..(iptr + 2 + 2 * (1 + Timestamps(Word(2).len) + Word(1).w))

BuiltTriggerHeader ==
    /\ pc = "trigger"
    /\ IF Word(1).tag # "built" THEN Stop("thrown")
       ELSE LET types == 3 + Word(2).len IN
            /\ pc' = "rocs"
            /\ ends' = [ends EXCEPT !.block = Word(1).n]   (* ROCs to come *)
            /\ iptr' = iptr + types + 1 + Word(types).len
            /\ UNCHANGED <<ievent_idx, epicsvalues, inserted, structure>>

RocReads ==
    IF ends.block = 0 THEN {}
    ELSE {iptr} \cup
         IF ~Sees({iptr}) THEN {}
         ELSE {iptr + 1, iptr + 2} \cup (iptr + 3)..(iptr + Word(0).len)

BuiltTriggerRoc ==
    /\ pc = "rocs" /\ ends.block > 0
    /\ LET last == IF Word(0).len < 2 THEN 2 ELSE Word(0).len IN
       /\ InsertEach(<<[Object("DCODAROCInfo", 0, 0, 0) EXCEPT !.roc = Word(0).w]>>)
       /\ iptr' = iptr + last + 1
       /\ pc' = IF iptr' > ends.bank THEN "thrown" ELSE pc
    /\ ends' = [ends EXCEPT !.block = @ - 1]
    /\ UNCHANGED <<ievent_idx, epicsvalues, structure>>

BuiltTriggerEnd ==
    /\ pc = "rocs" /\ ends.block = 0
    /\ InsertEach(<<[Object("DCODAEventInfo", 0, 0, 0) EXCEPT !.roc = 0]>>)
    /\ iptr' = ends.bank
    /\ pc' = "banks"
    /\ UNCHANGED <<ends, ievent_idx, epicsvalues, structure>>

-----------------------------------------------------------------------------
(* The data banks of an event and their data block banks.                  *)
NextDataBank ==
    /\ pc = "banks" /\ iptr < ends.event
    /\ ends' = [ends EXCEPT !.bank = After(iptr, Word(0).len)]
    /\ rocid' = Word(1).w
    /\ iptr' = iptr + 2
    /\ pc' = "data"
    /\ UNCHANGED <<words, ievent_idx, number, epicsvalues, fe, srs, m_srs_accumulator, inserted>>

DataBanksEnd ==
    /\ pc = "banks" /\ iptr >= ends.event
    /\ iptr' = ends.event
    /\ pc' = "bank"
    /\ UNCHANGED <<ends, ievent_idx, epicsvalues, inserted, structure>>

DataBlocksEnd ==
    /\ pc = "data" /\ iptr >= ends.bank
    /\ iptr' = ends.bank
    /\ pc' = "banks"
    /\ UNCHANGED <<ends, ievent_idx, epicsvalues, inserted, structure>>

(* 0xF800FAFA words are skipped; the word at the end is looked at as well, *)
(* and skipped never.                                                      *)
AfterFiller(p) ==
    CHOOSE q \in p..(IF p > ends.bank THEN p ELSE ends.bank) :
        /\ \A j \in p..(q - 1) : words[j].tag = "F800FAFA"
        /\ q >= ends.bank \/ q \notin DOMAIN words \/ words[q].tag # "F800FAFA"

ParserOf(det) ==
    CASE det = "config"     -> "config"
      [] det = "jlab"       -> "jlab"
      [] det = "rawtrigger" -> "rawtrigger"
      [] det = "srs"        -> "srsbank"
      [] OTHER              -> "skip"   (* CAEN1190, SSP, scalers, unknown *)

NextDataBlock ==
    /\ pc = "data" /\ iptr < ends.bank
    /\ LET next == iptr + 1 + Word(0).len
           parser == ParserOf(Word(1).tag)
       IN  /\ ends' = [ends EXCEPT !.block = next]
           /\ pc' = IF parser = "skip" THEN "data" ELSE parser
           /\ iptr' = IF parser = "skip" THEN next ELSE AfterFiller(iptr + 2)
    /\ UNCHANGED <<ievent_idx, epicsvalues, inserted, structure>>

LeaveDataBlock == pc' = "data" /\ iptr' = ends.block

(* ParseModuleConfiguration: a section is w parameters of the modules in n.*)
Params == (iptr + 1)..(iptr + Word(0).w)

ConfigReads ==
    IF iptr >= ends.block THEN {}
    ELSE {iptr} \cup IF Sees({iptr}) THEN Params \cap 1..(ends.block - 1) ELSE {}

ConfigSection ==
    /\ pc = "config" /\ iptr < ends.block
    /\ IF \E p \in Params : p >= ends.block \/ words[p].tag \notin Range(ParamTypes)
       THEN Stop("thrown")
       ELSE /\ LET Present(type) == \E p \in Params : words[p].tag = type
                   present == SelectSeq(ParamTypes, Present)
               IN  InsertEach([k \in DOMAIN present |->
                                  Object(present[k], Word(0).n, 0, 0)])
            /\ iptr' = iptr + 1 + Word(0).w
            /\ UNCHANGED <<pc, ends, ievent_idx, epicsvalues, structure>>

ConfigEnd ==
    /\ pc = "config" /\ iptr >= ends.block
    /\ LeaveDataBlock
    /\ UNCHANGED <<ends, ievent_idx, epicsvalues, inserted, structure>>

(* ParseRawTriggerBank: the segment is as long as its header says or the   *)
(* block is given up.  The object is put in before that is known.          *)
RawTriggerReads ==
    IF ievent_idx >= Events THEN {}
    ELSE iptr..(iptr + 3) \cup
         IF Sees({iptr}) THEN iptr..(iptr + Word(0).len) ELSE {}

ParseRawTriggerBank ==
    /\ pc = "rawtrigger"
    /\ IF ievent_idx >= Events
       THEN LeaveDataBlock /\ UNCHANGED inserted
       ELSE /\ InsertVector("DCODAROCInfo", <<Object("DCODAROCInfo", 0, 0, 0)>>)
            /\ IF Word(0).len < 3 THEN pc' = "thrown" /\ UNCHANGED iptr ELSE LeaveDataBlock
    /\ UNCHANGED <<ends, ievent_idx, epicsvalues, structure>>

(* ParseJLabModuleData: a crate's modules, each by the parser of its kind. *)
AtModule == pc = "jlab" /\ iptr < ends.block

EnterF250 == AtModule /\ Word(0).tag = "FADC250" /\ EnterFrontEnd("f250")
EnterF125 == AtModule /\ Word(0).tag = "FADC125" /\ EnterFrontEnd("f125")
OtherModule == AtModule /\ Word(0).tag \in {"F1TDC", "TID"} /\ LeaveBank
UnknownModule ==
    AtModule /\ Word(0).tag \notin {"FADC250", "FADC125", "F1TDC", "TID"} /\ Stop("thrown")

ModulesEnd ==
    /\ pc = "jlab" /\ iptr >= ends.block
    /\ LeaveDataBlock
    /\ UNCHANGED <<ends, ievent_idx, epicsvalues, inserted, structure>>

-----------------------------------------------------------------------------
OuterReads ==
    IF iptr >= End THEN {}
    ELSE {iptr, iptr + 1} \cup
         IF ~Sees({iptr + 1}) THEN {}
         ELSE CASE Word(1).tag \in ControlTags ->
                        {iptr + 2} \cup (IF ievent_idx < Events THEN {} ELSE {0})
                [] Word(1).tag \in CodaTags -> {iptr + 2}
                [] Word(1).tag = "EPICS" /\ Word(0).len >= 1 /\ ievent_idx >= Events -> {0}
                [] OTHER -> {}

Reads ==
    CASE pc = "start" -> {2} \cup (IF Sees({2}) THEN StartReads ELSE {})
      [] pc = "bank" -> OuterReads
      [] pc = "epics" -> IF iptr < ends.event THEN {iptr, iptr + 1} ELSE {}
      [] pc = "trigger" -> TriggerReads
      [] pc = "rocs" -> RocReads
      [] pc = "banks" -> IF iptr < ends.event THEN {iptr, iptr + 1} ELSE {}
      [] pc = "data" -> IF iptr < ends.bank THEN {iptr, iptr + 1} ELSE {}
      [] pc = "config" -> ConfigReads
      [] pc = "rawtrigger" -> RawTriggerReads
      [] pc = "jlab" -> IF iptr < ends.block THEN {iptr} ELSE {}
      [] pc \in {"f250", "f125"} -> FrontEndReads
      [] pc = "pulse" -> PulseReads
      [] pc \in {"srsbank", "srs"} -> SrsReads

ReadOutside == pc \notin Stopped /\ ~Sees(Reads) /\ Stop("wild")

ParseBank ==
    \/ BlockDone \/ UnknownOuterBank \/ ParseBORbank \/ ParseControlEvent
    \/ ParseEPICSbank \/ EpicsValue \/ EpicsEnd \/ ParseCDAQBank \/ ParsePhysicsBank
    \/ NextDataBank \/ DataBanksEnd

ParseBuiltTriggerBank == BuiltTriggerHeader \/ BuiltTriggerRoc \/ BuiltTriggerEnd

ParseDataBank ==
    \/ NextDataBlock \/ DataBlocksEnd
    \/ ConfigSection \/ ConfigEnd
    \/ ParseRawTriggerBank

ParseJLabModuleData ==
    EnterF250 \/ EnterF125 \/ OtherModule \/ UnknownModule \/ ModulesEnd

ParseInside ==
    /\ pc \notin Stopped
    /\ Sees(Reads)
    /\ \/ Start \/ ParseBank \/ ParseBuiltTriggerBank \/ ParseDataBank
       \/ ParseJLabModuleData
       \/ Parsef250Bank \/ Parsef125Bank
       \/ ParseDGEMSRSBank

Next == ParseInside \/ ReadOutside
=============================================================================
