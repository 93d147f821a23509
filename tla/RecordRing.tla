----------------------------- MODULE RecordRing -----------------------------
(***************************************************************************)
(* The ring between the socket reader and the file writer of sro_recv: a   *)
(* circular buffer of words in which each record follows its length.  Push *)
(* and Pop hold the mutex throughout, and wait with a timeout, so a        *)
(* notification that is lost only delays them: an action that waits is one *)
(* that is not enabled.                                                    *)
(***************************************************************************)
EXTENDS Integers, Sequences

CONSTANT Capacity        (* m_capacity, in words                           *)

ASSUME CapacityAssumption == Capacity \in Nat \ {0}

VARIABLES m_buffer, m_read_pos, m_write_pos, m_used, m_records, m_eof, m_shutdown

ringVars == <<m_buffer, m_read_pos, m_write_pos, m_used, m_records, m_eof, m_shutdown>>

(* The word before a record.  Words are those of SroSend; of any other     *)
(* the ring knows nothing.                                                 *)
LengthWord(n) == [v |-> n, be |-> FALSE, of |-> <<0, 0, 0>>]

RingInit ==
    /\ m_buffer = [p \in 0..Capacity - 1 |-> LengthWord(0)]
    /\ m_read_pos = 0 /\ m_write_pos = 0 /\ m_used = 0 /\ m_records = 0
    /\ m_eof = FALSE /\ m_shutdown = FALSE

Needed(record) == 1 + Len(record)
NeverFits(record) == Needed(record) > Capacity

(* Mutant: what does not fit before the end is not written.                *)
CopyInToTheEnd(words) ==
    [p \in DOMAIN m_buffer |->
        IF p >= m_write_pos /\ p - m_write_pos < Len(words)
        THEN words[p - m_write_pos + 1] ELSE m_buffer[p]]

(* CopyIn: what does not fit before the end goes to the beginning.         *)
CopyIn(words) ==
    [p \in DOMAIN m_buffer |->
        LET k == (p + Capacity - m_write_pos) % Capacity
        IN  IF k < Len(words) THEN words[k + 1] ELSE m_buffer[p]]

CopyOut(from, n) == [k \in 1..n |-> m_buffer[(from + k - 1) % Capacity]]

(* Mutant: the room is compared without the word of the length.            *)
HasRoomForWords(record) == Capacity - m_used >= Len(record)

HasRoom(record) == Capacity - m_used >= Needed(record)

Push(record) ==
    /\ HasRoom(record) \/ m_shutdown
    /\ IF m_shutdown THEN UNCHANGED ringVars
       ELSE /\ m_buffer' = CopyIn(<<LengthWord(Len(record))>> \o record)
            /\ m_write_pos' = (m_write_pos + Needed(record)) % Capacity
            /\ m_used' = m_used + Needed(record)
            /\ m_records' = m_records + 1
            /\ UNCHANGED <<m_read_pos, m_eof, m_shutdown>>

Oldest == CopyOut((m_read_pos + 1) % Capacity, m_buffer[m_read_pos].v)

Pop ==
    /\ m_records > 0
    /\ m_read_pos' = (m_read_pos + Needed(Oldest)) % Capacity
    /\ m_used' = m_used - Needed(Oldest)
    /\ m_records' = m_records - 1
    /\ UNCHANGED <<m_buffer, m_write_pos, m_eof, m_shutdown>>

(* Mutant: a Pop that waits does not look at the end of the stream.        *)
PopNeverEnds == FALSE

(* Mutant: a Pop ends with the stream, whatever is left in the ring.       *)
PopEndsWithStream == m_eof

PopEnds == m_records = 0 /\ m_eof

SetEof   == m_eof' = TRUE /\ UNCHANGED <<m_buffer, m_read_pos, m_write_pos, m_used, m_records, m_shutdown>>
Shutdown == m_eof' = TRUE /\ m_shutdown' = TRUE
            /\ UNCHANGED <<m_buffer, m_read_pos, m_write_pos, m_used, m_records>>
=============================================================================
