------------------------------ MODULE SroRecv ------------------------------
(***************************************************************************)
(* sro_recv: one connection after another is read record by record, in the *)
(* framing its first ten words show, into the ring; a writer thread packs  *)
(* the records into the blocks of the output file.                         *)
(***************************************************************************)
EXTENDS SroSend, RecordRing

CONSTANTS
    BlockWords,        (* the target size of a block's body: --block-kb    *)
    MaxRecordWords     (* --max-record-mb                                  *)

ASSUME SroRecvAssumption == BlockWords \in Nat /\ MaxRecordWords \in Nat \ {0}

VARIABLES
    opt,               (* [framing, keep_listening, keep_control, idle,    *)
                       (*  max_records, disk]                              *)
    r_pc,              (* what the reader does next                        *)
    mode, peek,
    first_record,
    buf, need,         (* the words of the record there are, and how many  *)
                       (* there will be                                    *)
    records,           (* stats->records                                   *)
    g_stop,
    w_pc, popped,      (* the writer, and the record it popped             *)
    block_body, block_events,
    output,            (* the blocks of the file: [events, words, whole]   *)
    disk               (* "good" or "failed"                               *)

readerVars == <<opt, r_pc, mode, peek, first_record, buf, need, records>>
writerVars == <<w_pc, popped, block_body, block_events, output, disk>>
recvVars   == <<readerVars, g_stop, writerVars, ringVars>>

RecvInit ==
    /\ r_pc = "accept" /\ mode = opt.framing /\ peek = <<>>
    /\ first_record = TRUE /\ buf = <<>> /\ need = 0 /\ records = 0
    /\ g_stop = FALSE
    /\ w_pc = "pop" /\ popped = <<>> /\ block_body = <<>> /\ block_events = 0
    /\ output = <<>> /\ disk = "good"
    /\ RingInit

-----------------------------------------------------------------------------
(* RecvExact(n).  The words a read has so far stay in wire; a connection   *)
(* ends cleanly only with no word of the n.                                *)
Arrived(n)    == n = 0 \/ (~g_stop /\ Len(wire) >= n)
NoMore(n) == ~g_stop /\ Len(wire) < n /\ sending = "closed"
CleanEof(n) == NoMore(n) /\ wire = <<>>
TornEof(n)  == NoMore(n) /\ wire # <<>>
TimedOut(n) == ~g_stop /\ Len(wire) < n /\ sending = "open" /\ opt.idle

TakeWords(n) == wire' = SubSeq(wire, n + 1, Len(wire))
Head10  == SubSeq(wire, 1, 9)

StayConnected == UNCHANGED <<senders, conn, sending, walkVars, unsent, hung_up>>

(* ServeConnection returns: the socket is closed, and the process accepts  *)
(* the next connection, or drains.                                         *)
HangUp(more) ==
    /\ hung_up' = TRUE /\ wire' = <<>>
    /\ r_pc' = IF more /\ opt.keep_listening /\ ~g_stop THEN "accept" ELSE "drain"
    /\ UNCHANGED <<senders, conn, sending, walkVars, unsent>>
    /\ UNCHANGED <<opt, mode, peek, first_record, buf, need, records>>

(* The end of a read of n words: at the boundary of a record the end of    *)
(* the stream and the idle timeout are clean; elsewhere they are errors.   *)
ReadEnds(n, boundary) ==
    \/ n > 0 /\ g_stop /\ HangUp(FALSE)
    \/ CleanEof(n) /\ HangUp(boundary \/ opt.keep_listening)
    \/ TornEof(n) /\ HangUp(opt.keep_listening)
    \/ TimedOut(n) /\ HangUp(boundary \/ opt.keep_listening)

-----------------------------------------------------------------------------
Accept ==
    /\ r_pc = "accept" /\ ~g_stop
    /\ \/ sending = "waiting" /\ UNCHANGED conn
       \/ sending = "closed" /\ conn < Len(senders) /\ conn' = conn + 1
    /\ sending' = "open" /\ unsent' = Opening(senders[conn'].kind)
    /\ wire' = <<>> /\ hung_up' = FALSE
    /\ file_index' = 1 /\ block_index' = 1 /\ event_i' = 1 /\ sent' = 0
    /\ mode' = opt.framing /\ first_record' = TRUE /\ peek' = <<>>
    /\ r_pc' = "first"
    /\ UNCHANGED <<senders, opt, buf, need, records>>

StopAccepting ==
    /\ r_pc = "accept"
    /\ g_stop
    /\ r_pc' = "drain"
    /\ UNCHANGED <<senderVars, opt, mode, peek, first_record, buf, need, records>>

(* The first word, and then nine more.  A reset before the first word is   *)
(* left out.                                                               *)
PeekOne ==
    /\ r_pc = "first"
    /\ \/ /\ Arrived(1) /\ TakeWords(1) /\ peek' = <<wire[1]>> /\ r_pc' = "peek"
          /\ StayConnected /\ UNCHANGED <<opt, mode, first_record, buf, need, records>>
       \/ CleanEof(1) /\ HangUp(TRUE)
       \/ TimedOut(1) /\ HangUp(TRUE)
       \/ g_stop /\ HangUp(FALSE)

IsHandshake(words) == \A k \in 1..3 : ntohl(words[k]) = CMsg[k]
Detected(words) ==
    IF IsHandshake(words) THEN "emu"
    ELSE IF opt.framing # "auto" THEN opt.framing
    ELSE IF Le(words[10]) = Magic THEN "cmsg"
    ELSE IF Le(words[8]) = Magic THEN "record"
    ELSE "unknown"

PeekTen ==
    /\ r_pc = "peek"
    /\ \/ /\ Arrived(9) /\ TakeWords(9) /\ peek' = peek \o Head10
          /\ mode' = Detected(peek')
          /\ r_pc' = "record"
          /\ StayConnected /\ UNCHANGED <<opt, first_record, buf, need, records>>
       \/ CleanEof(9) /\ HangUp(TRUE)
       \/ TornEof(9) /\ HangUp(FALSE)
       \/ TimedOut(9) /\ HangUp(FALSE)
       \/ g_stop /\ HangUp(FALSE)

Recognised ==
    mode # "unknown" /\ (mode = "emu" \/ Magic + Swap \notin {Le(peek[8]), Le(peek[10])})

Unrecognised ==
    r_pc = "record" /\ first_record /\ ~Recognised /\ HangUp(opt.keep_listening)

-----------------------------------------------------------------------------
(* From here a record is checked and its remaining words are read.         *)
Desync(ok) == ~ok /\ HangUp(opt.keep_listening)

Expect(n, have) ==
    /\ need' = n /\ buf' = SubSeq(have, 1, Min({n, Len(have)}))
    /\ r_pc' = "body"

(* A record header: its magic and its length are plausible.                *)
HeaderOk(h) ==
    Le(h[8]) = Magic /\ Le(h[1]) > kRecordHeaderWords /\ Le(h[1]) <= MaxRecordWords
EmuOk(last) == ntohl(last) >= 8 /\ ntohl(last) % 4 = 0 /\ ntohl(last) \div 4 <= MaxRecordWords
CountOk(count) == ntohl(count) \in 1..16
RawOk(w0, least) == Le(w0) + 1 >= least /\ Le(w0) + 1 <= MaxRecordWords

(* The first record starts in the words of the peek.                       *)
Unchanged == UNCHANGED <<senders, conn, sending, walkVars, unsent, hung_up, opt, mode, peek, records>>

(* The framing of a cMsg/EMU client: a count of integers, the last of      *)
(* which is the length of the buffer in bytes.                             *)
EmuFraming(count, last, have) ==
    \/ /\ ntohl(count) = 1 /\ EmuOk(last)
       /\ Expect(ntohl(last) \div 4, have)
       /\ UNCHANGED wire /\ Unchanged
    \/ /\ ntohl(count) \in 2..16
       /\ buf' = have /\ need' = ntohl(count) - 1 /\ r_pc' = "ints"
       /\ UNCHANGED wire /\ Unchanged
    \/ Desync(CountOk(count) /\ (ntohl(count) = 1 => EmuOk(last)))

FirstEmu ==
    IF IsHandshake(peek) THEN EmuFraming(peek[9], peek[10], <<>>)
    ELSE EmuFraming(peek[1], peek[2], SubSeq(peek, 3, 10))

FirstRaw ==
    \/ RawOk(peek[1], 10) /\ Expect(Le(peek[1]) + 1, peek) /\ UNCHANGED wire /\ Unchanged
    \/ Desync(RawOk(peek[1], 10))

Header(h, have) ==
    \/ HeaderOk(h) /\ Expect(Le(h[1]) - kRecordHeaderWords, have) /\ UNCHANGED wire /\ Unchanged
    \/ Desync(HeaderOk(h))

FirstRecord ==
    /\ r_pc = "record" /\ first_record /\ Recognised /\ ~g_stop
    /\ \/ mode = "emu" /\ FirstEmu
       \/ mode = "raw" /\ FirstRaw
       \/ mode = "cmsg" /\ Header(SubSeq(peek, 3, 10), <<>>)
       \/ mode = "record" /\ Header(SubSeq(peek, 1, 8), SubSeq(peek, 9, 10))
    /\ UNCHANGED first_record

(* Every other record begins with words of its own: a length, a count, a   *)
(* header, or the two words before a header.                               *)
BoundaryWords ==
    CASE mode = "raw" -> 1 [] mode = "emu" -> 1 [] mode = "cmsg" -> 2 [] mode = "record" -> 8

NextRecord ==
    /\ r_pc = "record" /\ ~first_record
    /\ \/ /\ Arrived(BoundaryWords) /\ TakeWords(BoundaryWords)
          /\ buf' = SubSeq(wire, 1, BoundaryWords)
          /\ r_pc' = "checked"
          /\ UNCHANGED <<need, first_record>> /\ Unchanged
       \/ ReadEnds(BoundaryWords, TRUE)

(* The second read of a framing: the first integer, or the header.         *)
Second(n) ==
    \/ Arrived(n) /\ TakeWords(n) /\ buf' = buf \o SubSeq(wire, 1, n) /\ r_pc' = "framed"
       /\ UNCHANGED <<need, first_record>> /\ Unchanged
    \/ ReadEnds(n, FALSE)

Checked ==
    /\ r_pc = "checked"
    /\ \/ mode = "emu" /\ Second(1)
       \/ mode = "cmsg" /\ Second(8)
       \/ mode = "record" /\ Header(buf, <<>>) /\ UNCHANGED first_record
       \/ /\ mode = "raw"
          /\ \/ /\ RawOk(buf[1], 2) /\ Expect(Le(buf[1]) + 1, buf) /\ UNCHANGED wire /\ Unchanged
             \/ Desync(RawOk(buf[1], 2))
          /\ UNCHANGED first_record

Framed ==
    /\ r_pc = "framed"
    /\ \/ mode = "emu" /\ EmuFraming(buf[1], buf[2], <<>>)
       \/ mode = "cmsg" /\ Header(SubSeq(buf, 3, 10), <<>>)
    /\ UNCHANGED first_record

(* The integers of a longer framing; the last is the length.               *)
Ints ==
    /\ r_pc = "ints"
    /\ \/ /\ Arrived(need) /\ TakeWords(need)
          /\ \/ EmuOk(wire[need]) /\ Expect(ntohl(wire[need]) \div 4, buf) /\ Unchanged
             \/ r_pc' = "desync" /\ ~EmuOk(wire[need]) /\ UNCHANGED <<buf, need>> /\ Unchanged
          /\ UNCHANGED first_record
       \/ ReadEnds(need, FALSE)

Desynced == r_pc = "desync" /\ HangUp(opt.keep_listening)

-----------------------------------------------------------------------------
(* The record is whole: an EMU buffer loses its header, and a control      *)
(* event is counted and not stored.                                        *)
Stripped(words) ==
    IF mode = "emu" /\ Len(words) > kRecordHeaderWords /\ Le(words[8]) = Magic
    THEN SubSeq(words, kRecordHeaderWords + 1, Len(words)) ELSE words
IsControl(words) == Len(words) >= 2 /\ Le(words[2]) = ControlTag

Body ==
    /\ r_pc = "body"
    /\ \/ /\ Arrived(need - Len(buf)) /\ TakeWords(need - Len(buf))
          /\ buf' = Stripped(buf \o SubSeq(wire, 1, need - Len(buf)))
          /\ r_pc' = IF IsControl(buf') /\ ~opt.keep_control THEN "record" ELSE "push"
          /\ first_record' = FALSE
          /\ UNCHANGED need /\ Unchanged
       \/ ReadEnds(need - Len(buf), FALSE)

LimitReached == opt.max_records > 0 /\ records' >= opt.max_records

PushRecord ==
    /\ r_pc = "push" /\ ~NeverFits(buf)
    /\ Push(buf)
    /\ records' = records + 1
    /\ r_pc' = IF LimitReached THEN "limit" ELSE "record"
    /\ UNCHANGED <<senderVars, opt, mode, peek, first_record, buf, need>>

(* Too large for the ring, the limit, or g_stop seen between two records.  *)
GiveUp ==
    /\ \/ r_pc = "push" /\ NeverFits(buf)
       \/ r_pc = "limit"
       \/ r_pc = "record" /\ g_stop
    /\ HangUp(FALSE)

(* The end of main: end of stream, and the writer is waited for.           *)
Drain ==
    /\ r_pc = "drain" /\ SetEof
    /\ r_pc' = "joining"
    /\ UNCHANGED <<senderVars, opt, mode, peek, first_record, buf, need, records>>

Join ==
    /\ r_pc = "joining" /\ w_pc = "done"
    /\ r_pc' = "done"
    /\ UNCHANGED <<senderVars, opt, mode, peek, first_record, buf, need, records>>

ReadStep ==
    /\ \/ Accept \/ StopAccepting \/ PeekOne \/ PeekTen \/ Unrecognised
       \/ FirstRecord \/ NextRecord \/ Checked \/ Framed \/ Ints \/ Desynced
       \/ Body \/ GiveUp \/ Join
    /\ UNCHANGED ringVars

ReaderStep == (ReadStep \/ PushRecord \/ Drain) /\ UNCHANGED <<g_stop, writerVars>>

(* Ctrl-C.                                                                 *)
Interrupt == ~g_stop /\ opt.interrupt /\ g_stop' = TRUE
             /\ UNCHANGED <<senderVars, readerVars, writerVars, ringVars>>

-----------------------------------------------------------------------------
(* WriterThread.  A write that fails leaves part of the block, stops the   *)
(* process and empties the ring for nothing; the disk stays as it is.      *)
BlockOf(whole) == [events |-> block_events, words |-> block_body, whole |-> whole]

Flush ==
    \/ /\ disk = "good"
       /\ output' = Append(output, BlockOf(TRUE))
       /\ block_body' = <<>> /\ block_events' = 0
       /\ UNCHANGED <<disk, g_stop, ringVars>>
    \/ /\ disk = "good" /\ opt.disk_may_fail
       /\ output' = Append(output, BlockOf(FALSE))
       /\ disk' = "failed" /\ g_stop' = TRUE /\ Shutdown
       /\ UNCHANGED <<block_body, block_events>>
    \/ /\ disk = "failed"
       /\ UNCHANGED <<output, block_body, block_events, disk, g_stop, ringVars>>

WriterPop ==
    /\ w_pc = "pop" /\ Pop
    /\ popped' = Oldest /\ w_pc' = "append"
    /\ UNCHANGED <<block_body, block_events, output, disk, g_stop, senderVars, readerVars>>

BlockIsFull == block_events > 0 /\ Len(block_body) + Len(popped) > BlockWords

FlushFull ==
    /\ w_pc = "append" /\ BlockIsFull
    /\ Flush
    /\ w_pc' = "insert"
    /\ UNCHANGED <<popped, senderVars, readerVars>>

Insert ==
    /\ w_pc = "insert" \/ (w_pc = "append" /\ ~BlockIsFull)
    /\ block_body' = block_body \o popped
    /\ block_events' = block_events + 1
    /\ popped' = <<>> /\ w_pc' = "pop"
    /\ UNCHANGED <<output, disk, g_stop, ringVars, senderVars, readerVars>>

FlushLast ==
    /\ w_pc = "pop" /\ PopEnds
    /\ IF block_events = 0 THEN UNCHANGED <<output, block_body, block_events, disk, g_stop, ringVars>>
       ELSE Flush
    /\ w_pc' = "done"
    /\ UNCHANGED <<popped, senderVars, readerVars>>

WriterStep == WriterPop \/ FlushFull \/ Insert \/ FlushLast
=============================================================================
