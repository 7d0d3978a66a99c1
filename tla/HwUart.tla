-------------------------------- MODULE HwUart --------------------------------
(***************************************************************************)
(* bus_uart.vhd with the ring buffer of fifo.vhd and the two state         *)
(* machines of basic_uart.vhd, between a far end that looks at CTS before  *)
(* each character and a CPU that runs UART$GETCHAR and UART$PUTCHAR of the *)
(* monitor.  Everything is clocked by the same rising edge: Clock is one   *)
(* cycle of all processes.  Characters and bytes are numbered in the order *)
(* in which they are accepted and written.                                 *)
(***************************************************************************)
EXTENDS Integers

CONSTANTS
    RAM_DEPTH,  \* UART_FIFO_SIZE
    MaxChars,   \* bound: characters that arrive
    MaxBytes    \* bound: bytes the program writes

ASSUME DepthAssumption == RAM_DEPTH \in Nat /\ RAM_DEPTH >= 2
ASSUME BoundsAssumption == MaxChars \in Nat /\ MaxBytes \in Nat

VARIABLES
    cpu,        \* state of the CPU
    instr,      \* what the instruction does: "other", "status", "read" or "write"
    seen,       \* the bits of the status register the program has tested: [rx, tx]
    R8,         \* the character it got last
    rx,         \* receiver: "idle", "active", or "enable" for the cycle of rx_enable
    ram, head, tail, rd_data, rd_valid,     \* ring_buffer
    reading,    \* makes the CPU wait and the ring buffer advance
    byte_tx_ready,
    tx_ready,   \* transmitter is idle
    accepted,   \* history: characters put into the ring
    taken,      \* history: reads of the receive register
    written,    \* history: writes to the transmit register
    sent        \* history: the byte the transmitter took last

ring == <<ram, head, tail, rd_data, rd_valid>>
vars == <<cpu, instr, seen, R8, rx, ram, head, tail, rd_data, rd_valid, reading,
          byte_tx_ready, tx_ready, accepted, taken, written, sent>>

Junk == 0       \* bits that are no character

Init ==
    /\ cpu = "fetch" /\ instr = "other" /\ seen = [rx |-> FALSE, tx |-> FALSE] /\ R8 = Junk
    /\ rx = "idle"
    /\ ram = [i \in 0 .. RAM_DEPTH - 1 |-> Junk]
    /\ head = 0 /\ tail = 0 /\ rd_data = Junk /\ rd_valid = FALSE
    /\ reading = FALSE /\ byte_tx_ready = FALSE /\ tx_ready = TRUE
    /\ accepted = 0 /\ taken = 0 /\ written = 0 /\ sent = 0

(***************************************************************************)
(* Combinational lines                                                     *)
(***************************************************************************)
(* Mutant: the index runs one cell too far.                                *)
IncrLate(i) == IF i = RAM_DEPTH THEN 0 ELSE i + 1

Incr(i) == IF i = RAM_DEPTH - 1 THEN 0 ELSE i + 1

FillCount == IF head < tail THEN head - tail + RAM_DEPTH ELSE head - tail
empty == FillCount = 0

full == FillCount >= RAM_DEPTH - 1

(* Mutant: the far end is told when there is no cell at all.               *)
CtsLate == FillCount >= RAM_DEPTH

cts == full
rx_enable == rx = "enable"
wr_en == rx_enable /\ ~full
rd_en == reading
uart_cpu_ws == reading
tx_enable == tx_ready /\ byte_tx_ready

(* The address stays on the bus from the state that reads until the        *)
(* instruction has been executed.                                          *)
Addressed(register) == cpu \in {"get_src", "execute"} /\ instr = register
uart_we == cpu = "store"

(* Mutant: the status register shows a character that is on its way.       *)
StatusEarly == [rx |-> ~empty \/ rx # "idle", tx |-> tx_ready]

Status == [rx |-> ~empty, tx |-> tx_ready]

(***************************************************************************)
(* The CPU: MOVE @R0, R8 and MOVE R8, @R0 cycle by cycle, with the wait    *)
(* states of the fetch and of the operand.  The program reads a character  *)
(* or writes a byte only after it has seen the bit in the status register. *)
(***************************************************************************)
Goto(from, to) == cpu = from /\ cpu' = to

Decode(operation, to) ==
    /\ Goto("decode", to)
    /\ instr' = operation
    /\ UNCHANGED <<seen, R8, taken, written>>

CpuStep ==
    \/ /\ cpu = "fetch" /\ cpu' = IF uart_cpu_ws THEN "fetch" ELSE "decode"
       /\ UNCHANGED <<instr, seen, R8, taken, written>>
    \/ Decode("other", "execute") \/ Decode("status", "get_src")
    \/ seen.rx /\ Decode("read", "get_src")
    \/ seen.tx /\ written < MaxBytes /\ Decode("write", "execute")
    \/ /\ cpu = "get_src" /\ uart_cpu_ws
       /\ UNCHANGED <<cpu, instr, seen, R8, taken, written>>
    \/ /\ Goto("get_src", "execute") /\ ~uart_cpu_ws
       /\ IF instr = "status"
          THEN seen' = Status /\ UNCHANGED <<R8, taken>>
          ELSE seen' = [seen EXCEPT !.rx = FALSE] /\ R8' = rd_data /\ taken' = taken + 1
       /\ UNCHANGED <<instr, written>>
    \/ /\ Goto("execute", IF instr = "write" THEN "store" ELSE "fetch")
       /\ UNCHANGED <<instr, seen, R8, taken, written>>
    \/ /\ Goto("store", "fetch")
       /\ seen' = [seen EXCEPT !.tx = FALSE] /\ written' = written + 1
       /\ UNCHANGED <<instr, R8, taken>>

(***************************************************************************)
(* basic_uart: a character takes many cycles; one with a wrong stop bit is *)
(* not announced.  The receiver is done in the middle of the stop bit, the *)
(* far end looks at CTS after it.  The transmitter is busy for as long.    *)
(***************************************************************************)
Receive ==
    \/ rx = "active" /\ rx' \in {"active", "idle", "enable"}
    \/ rx # "active" /\ rx' = "idle"
    \/ rx = "idle" /\ ~cts /\ accepted < MaxChars /\ rx' = "active"

Transmit ==
    /\ tx_ready' \in IF tx_ready THEN {~byte_tx_ready} ELSE BOOLEAN
    /\ sent' = IF tx_enable THEN written ELSE sent

(***************************************************************************)
(* ring_buffer: in every cycle ram(head) is written and ram(tail) is read; *)
(* only the indices tell what counts.                                      *)
(***************************************************************************)
RingBuffer ==
    /\ head' = IF wr_en THEN Incr(head) ELSE head
    /\ ram' = [ram EXCEPT ![head] = IF rx_enable THEN accepted + 1 ELSE Junk]
    /\ accepted' = IF wr_en THEN accepted + 1 ELSE accepted
    /\ tail' = IF rd_en /\ ~empty THEN Incr(tail) ELSE tail
    /\ rd_valid' = (rd_en /\ ~empty)
    /\ rd_data' = ram[tail]

(* Mutant: rd_valid clears the flag with the next clock.                   *)
HandleReadingClocked == reading' = (~rd_valid /\ (reading \/ Addressed("read")))

(* handle_reading: rd_valid clears the flag at once and keeps it down.     *)
HandleReading == reading' = (~rd_valid /\ ~rd_valid' /\ (reading \/ Addressed("read")))

(* Mutant: the flag stays up.                                              *)
HandleTxReadyStays == byte_tx_ready' = (uart_we \/ byte_tx_ready)

(* handle_tx_ready: the transmitter clears the flag when it gets busy.     *)
HandleTxReady == byte_tx_ready' = (tx_ready' /\ (uart_we \/ byte_tx_ready))

Clock ==
    /\ CpuStep
    /\ Receive /\ Transmit
    /\ RingBuffer /\ HandleReading /\ HandleTxReady

Next == Clock
Spec == Init /\ [][Next]_vars

(* The clock ticks.                                                        *)
LiveSpec == Spec /\ WF_vars(Clock)

-----------------------------------------------------------------------------
TypeOK ==
    /\ cpu \in {"fetch", "decode", "get_src", "execute", "store"}
    /\ instr \in {"other", "status", "read", "write"}
    /\ seen \in [rx : BOOLEAN, tx : BOOLEAN]
    /\ rx \in {"idle", "active", "enable"}
    /\ ram \in [0 .. RAM_DEPTH - 1 -> 0 .. MaxChars + 1]
    /\ head \in 0 .. RAM_DEPTH - 1 /\ tail \in 0 .. RAM_DEPTH - 1
    /\ R8 \in 0 .. MaxChars + 1 /\ rd_data \in 0 .. MaxChars + 1
    /\ rd_valid \in BOOLEAN /\ reading \in BOOLEAN
    /\ byte_tx_ready \in BOOLEAN /\ tx_ready \in BOOLEAN
    /\ accepted \in Nat /\ taken \in Nat /\ written \in Nat /\ sent \in Nat

(* Every character that was accepted is read once and in order: the CPU    *)
(* samples the output register of the ring one cycle before the ring       *)
(* moves on, and the ring moves on exactly once for each read.             *)
ReadsInOrder == R8 = taken /\ taken <= accepted

(* Every byte the program writes goes to the transmitter exactly once, in  *)
(* order: none is overwritten before it is taken.                          *)
SentInOrder == written = IF byte_tx_ready THEN sent + 1 ELSE sent

(* A far end that looks at CTS before each character loses none: there is  *)
(* a free cell when the character has arrived.                             *)
NothingDropped == rx_enable => ~full

(* A read does not stop the CPU: the wait state ends.                      *)
ReadEnds == reading ~> ~reading
=============================================================================
