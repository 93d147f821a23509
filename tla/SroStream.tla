----------------------------- MODULE SroStream -----------------------------
(***************************************************************************)
(* Senders, sro_recv and the file it leaves.                               *)
(***************************************************************************)
EXTENDS SroRecv, SequencesExt

CONSTANT Sessions      (* a set of [senders, opt]                          *)

BlockType  == [kind : {"block", "cut", "bad"}, claims : Nat,
               events : Seq([n : Nat, control : BOOLEAN])]
SenderType == [kind : {"cmsg", "record", "raw", "emu", "bare emu", "long emu"}, loop : BOOLEAN,
               max_events : Nat, may_die : BOOLEAN, garbles : Nat, files : Seq(Seq(BlockType))]
ASSUME SessionsAssumption ==
    \A session \in Sessions : session.senders \in Seq(SenderType) /\ session.senders # <<>>

streamVars == <<senderVars, recvVars>>

StreamInit ==
    /\ \E session \in Sessions : senders = session.senders /\ opt = session.opt
    /\ SenderInit
    /\ RecvInit

Sends == SenderStep /\ UNCHANGED recvVars
Dies  == Killed /\ UNCHANGED recvVars
StreamNext == Sends \/ Dies \/ ReaderStep \/ WriterStep \/ Interrupt

(* The processes and the threads run.  Nobody need press Ctrl-C or be      *)
(* killed.                                                                 *)
Fairness == WF_streamVars(Sends) /\ WF_streamVars(ReaderStep) /\ WF_streamVars(WriterStep)
StreamSpec == StreamInit /\ [][StreamNext]_streamVars /\ Fairness

-----------------------------------------------------------------------------
(* What sender c is to send in one pass over its files: the events up to   *)
(* the first cut block of each file.                                       *)
EventsOfFile(blocks) ==
    LET cut == SelectInSeq(blocks, LAMBDA b : b.kind = "cut")
        n   == IF cut = 0 THEN Len(blocks) ELSE cut - 1
    IN  FlattenSeq([b \in 1..n |-> blocks[b].events])
OnePass(c) == FlattenSeq([f \in DOMAIN senders[c].files |-> EventsOfFile(senders[c].files[f])])
EventNumber(c, i) == OnePass(c)[((i - 1) % Len(OnePass(c))) + 1]

ToBeStored(c, i) == opt.keep_control \/ ~EventNumber(c, i).control
Size(c, i) == EventNumber(c, i).n

(* The records of the file, each known by its first word.                  *)
WordsOf(blocks) == FlattenSeq([b \in DOMAIN blocks |-> blocks[b].words])
Heads(words) == SelectSeq([p \in DOMAIN words |-> words[p].of], LAMBDA of : of[3] = 1)
Stored == LET whole == SelectSeq(output, LAMBDA b : b.whole) IN Heads(WordsOf(whole))

(* The records of a body follow one another, each of them complete and in  *)
(* the order of its words.                                                 *)
Packed(words) ==
    \A p \in DOMAIN words :
        LET of == words[p].of IN
        /\ p = 1 => of[3] = 1
        /\ IF of[3] < Size(of[1], of[2])
           THEN p < Len(words) /\ words[p + 1].of = <<of[1], of[2], of[3] + 1>>
           ELSE p < Len(words) => words[p + 1].of[3] = 1

(* The output file can be read back: the blocks hold whole records and as  *)
(* many of them as their headers claim, and they are what was sent, in     *)
(* order and with nothing left out between two of one connection; only the *)
(* last block may be torn, and only by a disk that failed.  Whatever ends  *)
(* a connection, and however the words of it arrive.                       *)
StoredInOrder ==
    /\ \A b \in DOMAIN output :
        /\ Packed(output[b].words)
        /\ Len(Heads(output[b].words)) = output[b].events
        /\ ~output[b].whole => b = Len(output) /\ disk = "failed"
    /\ \A r \in DOMAIN Stored :
        LET c == Stored[r][1]
            i == Stored[r][2]
            before == IF r = 1 THEN <<0, 0, 1>> ELSE Stored[r - 1]
        IN  /\ ToBeStored(c, i)
            /\ before[1] <= c
            /\ before[1] = c => before[2] < i
            /\ \A j \in 1..i - 1 : ToBeStored(c, j) => before[1] = c /\ j <= before[2]

(* Nothing is ever dropped: a process that ends with a good disk has       *)
(* stored every record it counted, and that is every event of the files of *)
(* a sender that nobody killed, interrupted or gave up.                    *)
Damaged == \E f \in DOMAIN Sender.files : \E b \in DOMAIN Sender.files[f] :
    LET block == Sender.files[f][b] IN block.kind = "bad" \/ block.claims # Len(block.events)
Undisturbed ==
    ~opt.idle /\ ~opt.interrupt /\ opt.max_records = 0 /\ ~opt.keep_listening
        /\ ~Sender.may_die /\ Sender.garbles = 0 /\ ~Damaged /\ (Sender.kind = "raw" => opt.framing = "raw")
Due == IF Sender.max_events > 0 THEN Sender.max_events ELSE Len(OnePass(conn))
NothingDropped ==
    r_pc = "done" /\ disk = "good" =>
        /\ Len(Stored) = records
        /\ Undisturbed => ToSet(Stored) = {<<conn, i, 1>> : i \in {i \in 1..Due : ToBeStored(conn, i)}}

(* The records in the ring, the oldest first, by the words before them.    *)
Place(from, offset) == (from + offset) % Capacity
Offsets(buffer, from, n) ==
    LET offset[k \in 0..n] ==
            IF k = 0 THEN 0 ELSE offset[k - 1] + 1 + buffer[Place(from, offset[k - 1])].v
    IN  offset
RecordsIn(buffer, from, n) ==
    LET offset == Offsets(buffer, from, n)
    IN  [k \in 1..n |-> [l \in 1..offset[k] - offset[k - 1] - 1 |->
                            buffer[Place(from, offset[k - 1] + l)]]]
Queue == RecordsIn(m_buffer, m_read_pos, m_records)

(* "TCP backpressure then throttles the sender, nothing is dropped"        *)
(* (sro_recv.cc:56): between the reader and a disk that works, the words   *)
(* stay as they are and in their order, wherever the ring wraps around and *)
(* the blocks end; a record that is counted is the last of them.           *)
Held == WordsOf(output) \o block_body \o popped \o FlattenSeq(Queue)
HandedOver ==
    [][disk' = "good" => Held' = IF records' = records THEN Held ELSE Held \o buf]_streamVars

(* "For run-control driven senders start the receiver with                 *)
(* --keep-listening: protocol errors and end-of-run disconnects then close *)
(* the connection but keep the receiver alive" (README.md:68-70).  The     *)
(* code does not: a connection that breaks off between its second and its  *)
(* tenth word ends the process.                                            *)
KeepListeningSurvives ==
    opt.keep_listening /\ r_pc \in {"drain", "joining", "done"} =>
        g_stop \/ (opt.max_records > 0 /\ records >= opt.max_records)

(* An end is reached: the sender that has gone, Ctrl-C and the disk that   *)
(* has failed all lead to the end of the process, with the ring drained.   *)
EndIsReached ==
    (g_stop \/ (sending = "closed" /\ ~opt.keep_listening)) ~> (r_pc = "done" /\ m_records = 0)
=============================================================================
