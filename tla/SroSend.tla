------------------------------ MODULE SroSend ------------------------------
(***************************************************************************)
(* sro_send, which reads the blocks of its files and sends each event as a *)
(* record over a TCP connection, and, in its place, other senders of such  *)
(* a stream.  Connections follow one another; a sender may be killed.      *)
(*                                                                         *)
(* What travels between a sender and sro_recv: 32-bit words, little-endian *)
(* but for the framing of a cMsg/EMU client.  A word is the number its     *)
(* sender wrote, its byte order, and, for a payload, the connection, the   *)
(* record and the place it belongs to, which no program sees.              *)
(***************************************************************************)
EXTENDS Naturals, Sequences, FiniteSetsExt

Swap       == 1000000   (* what reading a word in the wrong order adds     *)
Magic      == 900001
CMsg       == <<900011, 900012, 900013>>
ControlTag == 900021
DataTag    == 5
Framing    == 900031    (* a word no receiver looks at                     *)

Word(v)    == [v |-> v, be |-> FALSE, of |-> <<0, 0, 0>>]
BeWord(v)  == [v |-> v, be |-> TRUE, of |-> <<0, 0, 0>>]
Le(w)      == IF w.be THEN w.v + Swap ELSE w.v
ntohl(w)   == IF w.be THEN w.v ELSE w.v + Swap

kRecordHeaderWords == 8
kBlockHeaderWords  == 8

(* Record i of connection c: n words, of which word 0 is the length of the *)
(* others and word 1 has the tag of a data bank or of a control event.     *)
Payload(c, i, record) ==
    [k \in 1..record.n |->
        [v  |-> CASE k = 1 -> record.n - 1
                  [] k = 2 -> IF record.control THEN ControlTag ELSE DataTag
                  [] OTHER -> k,
         be |-> FALSE,
         of |-> <<c, i, k>>]]

(* SendRecord: the header of a record, and the cMsg words before it.       *)
RecordHeader(n) ==
    <<Word(kRecordHeaderWords + n), Word(0), Word(kRecordHeaderWords), Word(1),
      Word(0), Word(516), Word(0), Word(Magic)>>
CmsgWords(n) == <<Word(8), Word(4 * (kRecordHeaderWords + n))>>

Record(kind, payload) ==
    (IF kind = "cmsg" THEN CmsgWords(Len(payload)) ELSE <<>>)
        \o RecordHeader(Len(payload)) \o payload

(* Senders that are not in this repository: a VTP that sends bare banks,   *)
(* and a CODA client, which sends a control event without a header and     *)
(* may put more than one integer before a buffer.                          *)
EmuHandshake == [k \in 1..3 |-> BeWord(CMsg[k])] \o [k \in 1..5 |-> BeWord(Framing)]
EmuRecord(ints, payload) ==
    LET buffer == IF Len(payload) > 1 /\ payload[2].v = ControlTag THEN payload
                  ELSE RecordHeader(Len(payload)) \o payload
    IN  <<BeWord(ints)>> \o [k \in 1..ints - 1 |-> BeWord(Framing)]
            \o <<BeWord(4 * Len(buffer))>> \o buffer

OnTheWire(kind, payload) ==
    CASE kind \in {"cmsg", "record"} -> Record(kind, payload)
      [] kind = "raw"                -> payload
      [] kind \in {"emu", "bare emu"} -> EmuRecord(1, payload)
      [] kind = "long emu"           -> EmuRecord(2, payload)
Opening(kind) == IF kind \in {"emu", "long emu"} THEN EmuHandshake ELSE <<>>

(* A sender that has lost its place: nothing before a payload is right.    *)
Garbled(words) ==
    [k \in DOMAIN words |->
        IF words[k].be \/ words[k].v = Magic THEN [words[k] EXCEPT !.v = 6] ELSE words[k]]

-----------------------------------------------------------------------------
CONSTANT WireWords       (* room in the buffers of a connection            *)

ASSUME WireWordsAssumption == WireWords \in Nat \ {0}

VARIABLES
    senders,      (* the input: a sequence of [kind, loop, max_events,     *)
                  (* may_die, garbles, files], see MCSroStream             *)
    conn,         (* the sender that is connected, or was last             *)
    sending,      (* "waiting" to connect, "open" or "closed"              *)
    file_index, block_index, event_i,
    sent,         (* events_sent                                           *)
    unsent,       (* words writev has not taken yet                        *)
    wire,         (* words in the connection                               *)
    hung_up       (* the receiver has closed it                            *)

walkVars   == <<file_index, block_index, event_i, sent>>
senderVars == <<senders, conn, sending, walkVars, unsent, wire, hung_up>>

Sender == senders[conn]
Blocks == Sender.files[file_index]
Block  == Blocks[block_index]

SenderInit ==
    /\ conn = 1 /\ sending = "waiting"
    /\ file_index = 1 /\ block_index = 1 /\ event_i = 1 /\ sent = 0
    /\ unsent = <<>> /\ wire = <<>> /\ hung_up = FALSE

(* The process ends, and with it the connection.                           *)
Exit == sending' = "closed" /\ UNCHANGED <<senders, conn, walkVars, unsent, wire, hung_up>>

Idle == sending = "open" /\ unsent = <<>> /\ ~hung_up

(* fopen of the next file, and again the first with --loop.                *)
NextFile ==
    /\ Idle /\ file_index <= Len(Sender.files) /\ block_index > Len(Blocks)
    /\ file_index' = IF file_index = Len(Sender.files) /\ Sender.loop THEN 1 ELSE file_index + 1
    /\ block_index' = 1 /\ event_i' = 1
    /\ UNCHANGED <<senders, conn, sending, sent, unsent, wire, hung_up>>

(* Mutant: a cut block ends the whole run, not its file.                   *)
SkipCutBlockExits ==
    Idle /\ file_index <= Len(Sender.files) /\ block_index <= Len(Blocks) /\ Block.kind = "cut"
        /\ Exit

(* A block the writer of the file did not finish is dropped with what is   *)
(* left of the file.                                                       *)
SkipCutBlock ==
    /\ Idle /\ file_index <= Len(Sender.files) /\ block_index <= Len(Blocks)
    /\ Block.kind = "cut"
    /\ block_index' = Len(Blocks) + 1
    /\ UNCHANGED <<senders, conn, sending, file_index, event_i, sent, unsent, wire, hung_up>>

NextBlock ==
    /\ Idle /\ file_index <= Len(Sender.files) /\ block_index <= Len(Blocks)
    /\ Block.kind = "block" /\ event_i > Block.claims
    /\ block_index' = block_index + 1 /\ event_i' = 1
    /\ UNCHANGED <<senders, conn, sending, file_index, sent, unsent, wire, hung_up>>

SendRecord ==
    /\ Idle /\ file_index <= Len(Sender.files) /\ block_index <= Len(Blocks)
    /\ Block.kind = "block" /\ event_i <= Block.claims /\ event_i <= Len(Block.events)
    /\ ~(Sender.max_events > 0 /\ sent >= Sender.max_events)
    /\ sent' = sent + 1
    /\ event_i' = event_i + 1
    /\ LET words == OnTheWire(Sender.kind, Payload(conn, sent', Block.events[event_i]))
       IN  unsent' = IF sent' = Sender.garbles THEN Garbled(words) ELSE words
    /\ UNCHANGED <<senders, conn, sending, file_index, block_index, wire, hung_up>>

(* A header that is no block's, a block that has fewer events than it      *)
(* claims, the end of the files, or --nevents: the connection is closed.   *)
Leave ==
    /\ Idle
    /\ \/ file_index > Len(Sender.files)
       \/ Sender.max_events > 0 /\ sent >= Sender.max_events
       \/ /\ file_index <= Len(Sender.files) /\ block_index <= Len(Blocks)
          /\ \/ Block.kind = "bad"
             \/ Block.kind = "block" /\ Len(Block.events) < event_i /\ event_i <= Block.claims
    /\ Exit

(* writev takes a part, and fails when the peer is gone.                   *)
Write ==
    /\ sending = "open" /\ ~hung_up
    /\ \E k \in 1..Min({WireWords - Len(wire), Len(unsent)}) :
        /\ wire' = wire \o SubSeq(unsent, 1, k)
        /\ unsent' = SubSeq(unsent, k + 1, Len(unsent))
    /\ UNCHANGED <<senders, conn, sending, walkVars, hung_up>>

WriteFails == sending = "open" /\ hung_up /\ Exit

(* Killed, or out of power, at any word.                                   *)
Killed == sending = "open" /\ Sender.may_die /\ Exit

SenderStep ==
    NextFile \/ SkipCutBlock \/ NextBlock \/ SendRecord \/ Leave \/ Write \/ WriteFails
=============================================================================
