---------------------------- MODULE EvioReaders ----------------------------
(***************************************************************************)
(* The two readers of an EVIO file: HDEVIO::readNoFileBuff under the       *)
(* GetEvent of the serial sources, and MmapEvioReader::NextEvent under     *)
(* MmapEvioSource::Emit.  JANA calls either again and again until it says  *)
(* that the file is at its end or throws.  Each call is one step.  Here    *)
(* both read the same file, each at its own pace.                          *)
(***************************************************************************)
EXTENDS EvioFile, EvioSwap, FiniteSets

CONSTANTS
    IsForeign(_),          (* whether a file is of the other byte order    *)
    ForeignEvents,         (* events of such files, [words, damage]: "none"*)
                           (* or to a "bank" or a "segment"                *)
    Contents(_, _),        (* which of them an event of a file is          *)
    DEFAULT_READ_BUFF_LEN  (* words of the first buffer of the sources     *)

ASSUME EvioReadersAssumption ==
    /\ DEFAULT_READ_BUFF_LEN \in Nat
    /\ \A f \in Files : IsForeign(f) =>
          \A e \in EventIds(f) : Contents(f, e) \in ForeignEvents

VARIABLES
    (* HDEVIO and its source *)
    NB_next,        (* the block at NB_next_pos                            *)
    evio_events,    (* NB_block_record: the events mapped and not read     *)
    m_buff_len,
    h_out, h_end,   (* events given to JANA; "reading", "eof", "error", or *)
                    (* "wild" after a write behind the buffer              *)
    (* MmapEvioReader *)
    m_block,        (* the block at m_block_pos                            *)
    m_event,        (* the event at m_event_pos                            *)
    m_events_left,
    m_out, m_end,
    m_swapped,      (* events swapped behind Emit, and whether that ended  *)
    m_swap_end      (* the program: "running", "thrown" or "wild"          *)

hdevioVars == <<NB_next, evio_events, m_buff_len, h_out, h_end>>
mmapReaderVars == <<m_block, m_event, m_events_left, m_out, m_end>>
swapVars == <<m_swapped, m_swap_end>>
mmapVars == <<mmapReaderVars, swapVars>>
readersVars == <<file, hdevioVars, mmapVars>>

ReadersInit ==
    /\ file \in Files
    /\ NB_next = 1
    /\ evio_events = {}
    /\ m_buff_len = DEFAULT_READ_BUFF_LEN
    /\ h_out = <<>> /\ h_end = "reading"
    /\ m_block = 1
    /\ m_event = <<0, 0>>
    /\ m_events_left = 0
    /\ m_out = <<>> /\ m_end = "reading"
    /\ m_swapped = {} /\ m_swap_end = "running"

WordsLeft(b) == file.size - BlockPos(file, b)

-----------------------------------------------------------------------------
(* HDEVIO.                                                                 *)

(* End of file is when exactly one empty block is left.                    *)
AtTrailer == evio_events = {} /\ WordsLeft(NB_next) = HeaderLen

(* The block extends past the end of the file: its length in words is      *)
(* compared with bytes.                                                    *)
SeemsToPassEnd(b) == 4 * BlockPos(file, b) + BlockLen(file.blocks[b]) > 4 * file.size

(* The read of the header fails, which takes in the first words of the     *)
(* first event; or the block seems to pass the end of the file.            *)
HeaderFails ==
    /\ evio_events = {}
    /\ ~AtTrailer
    /\ WordsLeft(NB_next) >= BlockHeaderWords => SeemsToPassEnd(NB_next)

HdevioCanRead == h_end = "reading" /\ ~AtTrailer /\ ~HeaderFails

(* The record of the current block, or of the next one when it is used up. *)
Record == IF evio_events = {} THEN MapEvents(file, NB_next) ELSE evio_events
First  == CHOOSE e \in Record : \A d \in Record : ~Before(d, e)
AdvanceBlock == NB_next' = IF evio_events = {} THEN NB_next + 1 ELSE NB_next

HdevioEof ==
    /\ h_end = "reading"
    /\ AtTrailer
    /\ h_end' = "eof"
    /\ UNCHANGED <<file, NB_next, evio_events, m_buff_len, h_out, mmapVars>>

HdevioHeaderFails ==
    /\ h_end = "reading"
    /\ HeaderFails
    /\ h_end' = "error"
    /\ UNCHANGED <<file, NB_next, evio_events, m_buff_len, h_out, mmapVars>>

(* No event was mapped in the next block: end of file, too.                *)
HdevioNoEvents ==
    /\ HdevioCanRead
    /\ Record = {}
    /\ AdvanceBlock
    /\ h_end' = "eof"
    /\ UNCHANGED <<file, evio_events, m_buff_len, h_out, mmapVars>>

(* Mutant: the record is given up before the event was read.               *)
HdevioTooSmallDrops ==
    /\ HdevioCanRead
    /\ Record # {}
    /\ EventLen(file, First) > m_buff_len
    /\ AdvanceBlock
    /\ evio_events' = Record \ {First}
    /\ m_buff_len' = EventLen(file, First)
    /\ UNCHANGED <<file, h_out, h_end, mmapVars>>

(* HDEVIO_USER_BUFFER_TOO_SMALL: the source makes the next buffer as big   *)
(* as the event and tries again.                                           *)
HdevioTooSmall ==
    /\ HdevioCanRead
    /\ Record # {}
    /\ EventLen(file, First) > m_buff_len
    /\ AdvanceBlock
    /\ evio_events' = Record
    /\ m_buff_len' = EventLen(file, First)
    /\ UNCHANGED <<file, h_out, h_end, mmapVars>>

(* The read comes to the end of the file: HDEVIO_FILE_TRUNCATED.           *)
HdevioEventCut ==
    /\ HdevioCanRead
    /\ Record # {}
    /\ EventLen(file, First) <= m_buff_len
    /\ ~WholeEvent(file, First)
    /\ AdvanceBlock
    /\ evio_events' = Record
    /\ h_end' = "error"
    /\ UNCHANGED <<file, m_buff_len, h_out, mmapVars>>

(* What swapping makes of the events. *)
HdevioSwaps == [c \in ForeignEvents |-> HdevioSwap(c.words)]
MmapSwaps   == [c \in ForeignEvents |-> MmapSwap(c.words)]
OfHdevio(e) == HdevioSwaps[Contents(file, e)]
OfMmap(e)   == MmapSwaps[Contents(file, e)]

IsGood(e) == IsForeign(file) => HdevioAccepts(OfHdevio(e))

HdevioReadEvent ==
    /\ HdevioCanRead
    /\ Record # {}
    /\ EventLen(file, First) <= m_buff_len
    /\ WholeEvent(file, First) /\ IsGood(First)
    /\ AdvanceBlock
    /\ evio_events' = Record \ {First}
    /\ h_out' = Append(h_out, First)
    /\ UNCHANGED <<file, m_buff_len, h_end, mmapVars>>

(* An event that is not swapped to its end ends the reading of the file.   *)
HdevioSwapFails ==
    /\ HdevioCanRead
    /\ Record # {}
    /\ EventLen(file, First) <= m_buff_len
    /\ WholeEvent(file, First) /\ ~IsGood(First)
    /\ AdvanceBlock
    /\ evio_events' = Record \ {First}
    /\ h_end' = IF OfHdevio(First).status = "wild" THEN "wild" ELSE "error"
    /\ UNCHANGED <<file, m_buff_len, h_out, mmapVars>>

ReadNoFileBuff ==
    \/ HdevioEof \/ HdevioHeaderFails \/ HdevioNoEvents
    \/ HdevioTooSmall \/ HdevioEventCut \/ HdevioReadEvent \/ HdevioSwapFails

-----------------------------------------------------------------------------
(* MmapEvioReader.  The checks of the magic word and of an event against   *)
(* the end of the file cannot fail here: headers are as they were written. *)

(* Where the loop of AdvanceToBlockPayload stops.                          *)
StopsAt(b) ==
    \/ WordsLeft(b) <= HeaderLen
    \/ ~WholeBlock(file, b)
    \/ file.blocks[b] # <<>>

PayloadBlock ==
    CHOOSE b \in m_block..(Len(file.blocks) + 1) :
        StopsAt(b) /\ \A c \in m_block..(b - 1) : ~StopsAt(c)

MmapCanRead == m_end = "reading" /\ m_swap_end = "running"

MmapReadInBlock ==
    /\ MmapCanRead
    /\ m_events_left > 0
    /\ m_out' = Append(m_out, m_event)
    /\ m_event' = <<m_event[1], m_event[2] + 1>>
    /\ m_events_left' = m_events_left - 1
    /\ UNCHANGED <<file, hdevioVars, m_block, m_end, swapVars>>

(* Mutant: a header counts as many words as HDEVIO's struct has.           *)
MmapEofEarly ==
    /\ MmapCanRead
    /\ m_events_left = 0
    /\ WordsLeft(PayloadBlock) <= BlockHeaderWords
    /\ m_end' = "eof"
    /\ UNCHANGED <<file, hdevioVars, m_block, m_event, m_events_left, m_out, swapVars>>

MmapEof ==
    /\ MmapCanRead
    /\ m_events_left = 0
    /\ WordsLeft(PayloadBlock) <= HeaderLen
    /\ m_end' = "eof"
    /\ m_block' = PayloadBlock
    /\ UNCHANGED <<file, hdevioVars, m_event, m_events_left, m_out, swapVars>>

MmapBlockCut ==
    /\ MmapCanRead
    /\ m_events_left = 0
    /\ WordsLeft(PayloadBlock) > HeaderLen
    /\ ~WholeBlock(file, PayloadBlock)
    /\ m_end' = "error"
    /\ m_block' = PayloadBlock
    /\ UNCHANGED <<file, hdevioVars, m_event, m_events_left, m_out, swapVars>>

(* Mutant: the event just read still counts.                               *)
MmapReadNextBlockOffByOne ==
    /\ MmapCanRead
    /\ m_events_left = 0
    /\ WordsLeft(PayloadBlock) > HeaderLen
    /\ WholeBlock(file, PayloadBlock)
    /\ m_block' = PayloadBlock + 1
    /\ m_out' = Append(m_out, <<PayloadBlock, 1>>)
    /\ m_event' = <<PayloadBlock, 2>>
    /\ m_events_left' = Len(file.blocks[PayloadBlock])
    /\ UNCHANGED <<file, hdevioVars, m_end, swapVars>>

MmapReadNextBlock ==
    /\ MmapCanRead
    /\ m_events_left = 0
    /\ WordsLeft(PayloadBlock) > HeaderLen
    /\ WholeBlock(file, PayloadBlock)
    /\ m_block' = PayloadBlock + 1
    /\ m_out' = Append(m_out, <<PayloadBlock, 1>>)
    /\ m_event' = <<PayloadBlock, 2>>
    /\ m_events_left' = Len(file.blocks[PayloadBlock]) - 1
    /\ UNCHANGED <<file, hdevioVars, m_end, swapVars>>

NextEvent == MmapReadInBlock \/ MmapEof \/ MmapBlockCut \/ MmapReadNextBlock

(* ProcessParallel: the events of a foreign file are swapped by the workers*)
(* while Emit reads on; an exception ends the program.                     *)
ProcessParallel ==
    /\ IsForeign(file) /\ m_swap_end = "running"
    /\ \E i \in DOMAIN m_out :
          /\ m_out[i] \notin m_swapped
          /\ IF MmapAccepts(OfMmap(m_out[i]))
             THEN m_swapped' = m_swapped \cup {m_out[i]} /\ UNCHANGED m_swap_end
             ELSE m_swap_end' = OfMmap(m_out[i]).status /\ UNCHANGED m_swapped
    /\ UNCHANGED <<file, hdevioVars, mmapReaderVars>>

-----------------------------------------------------------------------------
Swapped == IsForeign(file) => Range(m_out) = m_swapped
Done ==
    /\ h_end # "reading"
    /\ m_swap_end # "running" \/ (m_end # "reading" /\ Swapped)
    /\ UNCHANGED readersVars

ReadersNext == ReadNoFileBuff \/ NextEvent \/ ProcessParallel \/ Done

(* JANA calls a source until it is at its end.                             *)
ReadersSpec ==
    /\ ReadersInit /\ [][ReadersNext]_readersVars
    /\ WF_readersVars(ReadNoFileBuff) /\ WF_readersVars(NextEvent)

-----------------------------------------------------------------------------
(* What a cut costs: the mmap reader nothing of the blocks before it, and  *)
(* HDEVIO nothing of the events before it, as long as no block is empty and*)
(* events have all the words of an event header, unless the cut leaves less*)
(* than a quarter of the block.                                            *)
MmapKeepsWholeBlocks ==
    m_end # "reading" =>
        \A e \in EventIds(file) : WholeBlock(file, e[1]) => e \in Range(m_out)
HdevioKeepsWholeEvents ==
    /\ h_end # "reading" /\ ~IsForeign(file)
    /\ \A b \in DOMAIN file.blocks : file.blocks[b] = <<>> => b = Len(file.blocks)
    /\ \A e \in EventIds(file) : EventLen(file, e) >= EventHeaderWords
    => \A e \in EventIds(file) :
          WholeEvent(file, e) /\ ~SeemsToPassEnd(e[1]) => e \in Range(h_out)
(* What a cut costs, in both readers.                                      *)
CutCostsOnlyTheCut == MmapKeepsWholeBlocks /\ HdevioKeepsWholeEvents

(* Of a file of the other byte order: what the two copies of the swapping  *)
(* make of an event is the same, and neither gets through a file that the  *)
(* other gives up, whatever is damaged, but for a length that is all ones. *)
(* Undamaged events have native words only, but in banks of so many 16 bit *)
(* numbers that their count does not fit.  Nothing is written behind an    *)
(* event unless a segment of it is damaged, or a length is all ones, or, by*)
(* HDEVIO, which does not look for it, zero.                               *)
HasLength(e, l) ==
    LET words == Contents(file, e).words IN \E i \in DOMAIN words : words[i].len = l
InLongBank(words, i) ==
    \E from \in DOMAIN words :
        LET bank == from .. from + Uint16 \div 2 - 1
        IN  i \in bank /\ bank \subseteq DOMAIN words /\ \A j \in bank : words[j].width = 16
ForeignFilesAlike ==
    LET Is(e, damage) == Contents(file, e).damage = damage
        Some(P(_)) == \E e \in EventIds(file) : P(e)
        HasAllOnes(e) == HasLength(e, AllOnes)
    IN  IsForeign(file) =>
        /\ \A e \in Range(h_out) \cap m_swapped : OfHdevio(e).words = OfMmap(e).words
        /\ \A e \in m_swapped : Is(e, "none") =>
              \A i \in DOMAIN OfMmap(e).words :
                  OfMmap(e).words[i].order = "native" \/ InLongBank(OfMmap(e).words, i)
        /\ h_end \in {"error", "wild"} =>
              ~(EventIds(file) \subseteq m_swapped) \/ Some(HasAllOnes)
        /\ m_swap_end # "running" => ~(EventIds(file) \subseteq Range(h_out))
        /\ m_swap_end = "wild" => Some(LAMBDA e : Is(e, "segment") \/ HasAllOnes(e))
        /\ h_end = "wild" =>
              Some(LAMBDA e : Is(e, "segment") \/ HasAllOnes(e) \/ HasLength(e, 0))

(* Both readers give the events of a file in order, none twice and none    *)
(* with words from behind the end of the file, however the file is cut and *)
(* however often a buffer was too small; and all of them, before the end   *)
(* of the file, when it was closed properly.                               *)
WholeEvents == {e \in EventIds(file) : WholeEvent(file, e)}
ClosedProperly ==
    /\ file.size = FullSize(file.blocks)
    /\ IsForeign(file) => \A e \in EventIds(file) : Contents(file, e).damage = "none"
    /\ \A b \in DOMAIN file.blocks : file.blocks[b] = <<>> <=> b = Len(file.blocks)
    /\ \A e \in EventIds(file) : EventLen(file, e) >= 3
(* Swapping gets through what is not damaged; which it does is checked, for*)
(* the events of ForeignEvents, where they are given.                      *)
UndamagedAreSwapped ==
    \A c \in ForeignEvents :
        c.damage = "none" => HdevioAccepts(HdevioSwap(c.words)) /\ MmapAccepts(MmapSwap(c.words))
Mmap == INSTANCE OrderedRead WITH
    all <- WholeEvents, closed <- ClosedProperly, out <- m_out,
    ending <- IF m_end = "reading" /\ m_swap_end # "running" THEN "error" ELSE m_end
Hdevio == INSTANCE OrderedRead WITH
    all <- WholeEvents, closed <- ClosedProperly, out <- h_out, ending <- h_end
MmapReadsTheFile == Mmap!Spec
HdevioReadsTheFile == Hdevio!Spec

=============================================================================
