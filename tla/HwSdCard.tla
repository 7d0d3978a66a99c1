------------------------------- MODULE HwSdCard -------------------------------
(***************************************************************************)
(* The SD card: the register file and state machine of sdcard.vhd, the     *)
(* controller of sd_spi.vhd it talks to by a handshake for each byte, and  *)
(* the monitor's library on the CPU, which resets the card, reads blocks   *)
(* and polls the status register.  Clock is one rising edge of both state  *)
(* machines; the CPU comes to the registers between two edges.  The        *)
(* library never writes the buffer, so that IO$SD_DATA is left out.        *)
(***************************************************************************)
EXTENDS Naturals

CONSTANTS
    BlockSize,      \* bytes of a block (512)
    Words,          \* bound: values of the two address registers
    ACTION_RETRIES  \* how often the controller repeats a read command

ASSUME BlockSizeAssumption == BlockSize \in Nat \ {0}
ASSUME WordsAssumption == 0 \in Words
ASSUME RetriesAssumption == ACTION_RETRIES \in Nat

Addresses == Words \X Words
Blocks == {<<w, w>> : w \in Words}  \* bound: a torn address is none of them
NoBlock == <<>>
Junk == <<>>
Pace == 3           \* cycles of the CPU between two accesses, at the least

VARIABLES
    cpu,            \* where the library is
    request,        \* the block SD$READ_BLOCK was called with, NoBlock for SD$RESET
    result,         \* of the last call: "none", "ok" or "error"
    pace,           \* cycles since the last access, up to Pace
    reg_addr_lo, reg_addr_hi, cmd_read,                     \* registers of sdcard.vhd
    sd_state, sd_sync_reset, sd_block_read, sd_block_addr,  \* its state machine
    current_byte, buffer_ptr, ram,
    state,          \* the controller; "STUCK": a state with an error that it does not leave
    sd_busy, sd_error, dout, dout_avail,                    \* its outputs
    byte_counter, address, original_state, state_retry_count,
    corrupt         \* a byte of this block was disturbed: the CRC will tell

library == <<cpu, request, result>>
registers == <<reg_addr_lo, reg_addr_hi, cmd_read>>
wrapper == <<sd_state, sd_sync_reset, sd_block_read, sd_block_addr, current_byte, buffer_ptr, ram>>
data == <<dout, byte_counter, corrupt>>
command == <<address, original_state, state_retry_count>>
controller == <<state, sd_busy, sd_error, dout_avail, data, command>>
vars == <<library, pace, registers, wrapper, controller>>

Init ==
    /\ cpu = "call" /\ request = NoBlock /\ result = "none" /\ pace = 0
    /\ reg_addr_lo = 0 /\ reg_addr_hi = 0 /\ cmd_read = FALSE
    /\ sd_state = "sds_reset" /\ sd_sync_reset = FALSE /\ sd_block_read = FALSE
    /\ sd_block_addr = <<0, 0>> /\ current_byte = Junk /\ buffer_ptr = 0
    /\ ram = [i \in 0 .. BlockSize - 1 |-> Junk]
    /\ state = "RST" /\ sd_busy = TRUE /\ sd_error = FALSE
    /\ dout = Junk /\ dout_avail = FALSE /\ byte_counter = 0
    /\ address = <<0, 0>> /\ original_state = "RST" /\ state_retry_count = 0
    /\ corrupt = FALSE

(***************************************************************************)
(* sdcard.vhd                                                              *)
(***************************************************************************)
is_error == sd_state = "sds_error" \/ sd_error
is_busy == ~is_error /\ sd_state # "sds_idle"
sd_dout_taken == sd_state = "sds_read_handshake"

(* Mutant: one byte too early.                                             *)
DoneEarly == buffer_ptr = BlockSize - 1

Done == buffer_ptr = BlockSize

StateAfter ==
    CASE sd_state = "sds_idle" -> IF cmd_read THEN "sds_read_start" ELSE "sds_idle"
      [] sd_state = "sds_read_start" -> IF sd_busy THEN "sds_read_wait_for_byte" ELSE "sds_read_start"
      [] sd_state = "sds_read_wait_for_byte" ->
             IF dout_avail THEN "sds_read_store_byte" ELSE "sds_read_wait_for_byte"
      [] sd_state = "sds_read_store_byte" -> "sds_read_handshake"
      [] sd_state = "sds_read_handshake" ->
             IF dout_avail THEN "sds_read_handshake" ELSE "sds_read_inc_ram_addr"
      [] sd_state = "sds_read_inc_ram_addr" -> "sds_read_check_done"
      [] sd_state = "sds_read_check_done" ->
             IF Done THEN "sds_busy" ELSE "sds_read_wait_for_byte"
      [] sd_state = "sds_busy" ->
             IF ~sd_busy THEN "sds_idle" ELSE IF sd_error THEN "sds_error" ELSE "sds_busy"
      [] sd_state = "sds_reset" -> IF state = "RST" THEN "sds_busy" ELSE "sds_reset"
      [] OTHER -> "sds_error"

(* Mutant: the read line stays up after the last byte.                     *)
BlockReadKept == sd_block_read \/ (sd_state = "sds_read_start" /\ ~sd_busy)

BlockRead ==
    CASE sd_state = "sds_read_start" /\ ~sd_busy -> TRUE
      [] sd_state = "sds_error" -> FALSE
      [] sd_state = "sds_read_check_done" /\ Done -> FALSE
      [] OTHER -> sd_block_read

(* Mutant: the pointer goes on where it was.                               *)
BufferPtrKept == IF sd_state = "sds_read_inc_ram_addr" THEN buffer_ptr + 1 ELSE buffer_ptr

BufferPtr ==
    CASE sd_state = "sds_read_start" /\ ~sd_busy -> 0
      [] sd_state = "sds_read_inc_ram_addr" -> buffer_ptr + 1
      [] OTHER -> buffer_ptr

Arrives == sd_state = "sds_read_wait_for_byte" /\ dout_avail

Wrapper ==
    /\ sd_state' = StateAfter
    /\ sd_sync_reset' = (sd_state = "sds_reset")
    /\ sd_block_read' = BlockRead /\ buffer_ptr' = BufferPtr
    /\ sd_block_addr' = IF sd_state = "sds_idle" /\ cmd_read
                        THEN <<reg_addr_lo, reg_addr_hi>> ELSE sd_block_addr
    /\ current_byte' = IF Arrives THEN dout ELSE current_byte
    /\ ram' = CASE Arrives -> [ram EXCEPT ![buffer_ptr] = dout]
                [] sd_state = "sds_read_store_byte" -> [ram EXCEPT ![buffer_ptr] = current_byte]
                [] OTHER -> ram
    /\ cmd_read' = (cmd_read /\ sd_state' # "sds_read_start")
    /\ UNCHANGED <<reg_addr_lo, reg_addr_hi>>

(***************************************************************************)
(* sd_spi.vhd.  Bits and bytes to and from the card take any time; the     *)
(* states of the initialisation and of a command are one each.             *)
(***************************************************************************)
Goto(from, to) == state = from /\ state' = to
Handshake == dout_avail' = (dout_avail /\ ~sd_dout_taken)

sync_reset ==
    /\ state' = "RST" /\ sd_busy' = TRUE /\ sd_error' = FALSE
    /\ dout' = Junk /\ dout_avail' = FALSE /\ byte_counter' = 0 /\ corrupt' = FALSE
    /\ address' = <<0, 0>> /\ original_state' = "RST" /\ state_retry_count' = 0

(* Two states look at rd in every cycle.                                   *)
Prompt ==
    \/ state = "IDLE2" /\ sd_block_read /\ original_state = "RST"
    \/ state = "READ_BLOCK_FINISH" /\ ~sd_block_read

Shift ==
    /\ ~Prompt /\ Handshake
    /\ UNCHANGED <<state, sd_busy, sd_error, data, command>>

Initialise ==
    /\ \/ Goto("RST", "INIT")
       \/ /\ Goto("INIT", "IDLE")
          /\ original_state # "RST" \/ ~sd_block_read
    /\ sd_error' = FALSE
    /\ UNCHANGED <<data, command>>

(* No answer to a command: a read command is repeated after a reset of the *)
(* card, anything else stops the controller.                               *)
NoResponse ==
    /\ state \in {"INIT", "READ_BLOCK"}
    /\ IF original_state # "RST" /\ state_retry_count < ACTION_RETRIES
       THEN /\ state' = "RST" /\ state_retry_count' = state_retry_count + 1
            /\ UNCHANGED sd_error
       ELSE state' = "STUCK" /\ sd_error' = TRUE /\ UNCHANGED state_retry_count
    /\ UNCHANGED <<data, address, original_state>>

(* A wrong answer to a command of the initialisation stops the controller  *)
(* at once, in a repetition too: CMD8, CMD8B4, CMD8GOTB4, CMD58R1, CMD58B2 *)
(* and CMD16R1.  (CMD59R1 goes on in the end, for rd is down here unless a *)
(* read is repeated.)                                                      *)
Stall ==
    /\ Goto("INIT", "STUCK")
    /\ sd_error' = TRUE
    /\ UNCHANGED <<data, command>>

StartRead ==
    /\ Goto("IDLE2", "READ_BLOCK")
    /\ sd_block_read \/ original_state # "RST"
    /\ address' = sd_block_addr /\ original_state' = "READ_BLOCK" /\ sd_error' = FALSE
    /\ UNCHANGED <<data, state_retry_count>>

Response ==
    /\ \/ Goto("READ_BLOCK", "READ_BLOCK_WAIT_CHECK") /\ UNCHANGED sd_error
       \/ Goto("READ_BLOCK", "READ_BLOCK_FINISH") /\ sd_error' = TRUE
    /\ original_state' = "RST"
    /\ UNCHANGED <<data, address, state_retry_count>>

(* The start token, an error token, or the end of rd.                      *)
Token ==
    /\ IF sd_block_read
       THEN \/ /\ Goto("READ_BLOCK_WAIT_CHECK", "READ_BLOCK_DATA")
               /\ byte_counter' = BlockSize /\ corrupt' = FALSE /\ UNCHANGED sd_error
            \/ /\ Goto("READ_BLOCK_WAIT_CHECK", "READ_BLOCK_FINISH")
               /\ sd_error' = TRUE /\ UNCHANGED <<byte_counter, corrupt>>
       ELSE /\ Goto("READ_BLOCK_WAIT_CHECK", "READ_BLOCK_FINISH")
            /\ UNCHANGED <<sd_error, byte_counter, corrupt>>
    /\ UNCHANGED <<dout, command>>

(* The checksum of the block, which may be disturbed itself.               *)
CheckCRC ==
    /\ Goto("READ_BLOCK_CRC", "READ_BLOCK_FINISH")
    /\ sd_error' = TRUE \/ (~corrupt /\ UNCHANGED sd_error)
    /\ UNCHANGED <<data, command>>

Finish ==
    /\ Goto("READ_BLOCK_FINISH", "IDLE") /\ ~sd_block_read
    /\ UNCHANGED <<sd_error, data, command>>

Idle ==
    /\ Goto("IDLE", "IDLE2")
    /\ UNCHANGED <<sd_error, data, command>>

Busy ==
    \/ Initialise \/ NoResponse \/ Stall \/ StartRead \/ Response \/ Token
    \/ CheckCRC \/ Finish \/ Idle

(* The clock pulses of IDLE2 are over: a command is accepted.              *)
Ready ==
    /\ Goto("IDLE2", "IDLE2") /\ ~sd_block_read /\ original_state = "RST"
    /\ sd_busy' = FALSE /\ state_retry_count' = 0
    /\ UNCHANGED <<sd_error, data, address, original_state>>

(* A byte has come in.  It is passed on when the one before was taken, or  *)
(* dropped when rd is down.                                                *)
Byte ==
    /\ state = "READ_BLOCK_DATA"
    /\ state' = IF byte_counter = 1 THEN "READ_BLOCK_CRC" ELSE state
    /\ byte_counter' = byte_counter - 1
    /\ IF sd_block_read
       THEN /\ ~dout_avail /\ ~sd_dout_taken
            /\ dout_avail' = TRUE
            /\ dout' \in {<<address, BlockSize - byte_counter>>, Junk}
            /\ corrupt' = (corrupt \/ dout' = Junk)
       ELSE Handshake /\ UNCHANGED <<dout, corrupt>>
    /\ UNCHANGED <<sd_busy, sd_error, command>>

Advance == (Busy /\ sd_busy' = TRUE /\ Handshake) \/ (Ready /\ Handshake) \/ Byte

ClockWith(step) ==
    /\ Wrapper
    /\ IF sd_sync_reset THEN sync_reset ELSE step
    /\ pace' = IF pace < Pace THEN pace + 1 ELSE pace
    /\ UNCHANGED library

Clock == ClockWith(Shift \/ Advance)

(***************************************************************************)
(* The library of the monitor: SD$RESET and SD$READ_BLOCK, which call      *)
(* SD$WAIT_BUSY before and after the command.                              *)
(***************************************************************************)
Access(from, to) ==
    /\ pace = Pace /\ pace' = 0
    /\ cpu = from /\ cpu' = to
    /\ UNCHANGED <<request, controller>>

CallReset ==
    /\ cpu = "call" /\ cpu' = "reset_cmd"
    /\ request' = NoBlock /\ result' = "none"
    /\ UNCHANGED <<pace, registers, wrapper, controller>>

CallRead ==
    /\ cpu = "call" /\ cpu' = "before"
    /\ request' \in Blocks /\ result' = "none"
    /\ UNCHANGED <<pace, registers, wrapper, controller>>

(* cmd_reset acts at once, and the state it leads to clears it.            *)
WriteReset ==
    /\ Access("reset_cmd", "after")
    /\ sd_state' = "sds_reset" /\ sd_sync_reset' = FALSE /\ sd_block_read' = FALSE
    /\ sd_block_addr' = <<0, 0>> /\ current_byte' = Junk /\ buffer_ptr' = 0
    /\ UNCHANGED <<ram, registers, result>>

WriteRegisters ==
    /\ \/ Access("addr_lo", "addr_hi") /\ reg_addr_lo' = request[1]
                                       /\ UNCHANGED <<reg_addr_hi, cmd_read>>
       \/ Access("addr_hi", "read_cmd") /\ reg_addr_hi' = request[2]
                                        /\ UNCHANGED <<reg_addr_lo, cmd_read>>
       \/ Access("read_cmd", "after") /\ cmd_read' = (sd_state # "sds_read_start")
                                      /\ UNCHANGED <<reg_addr_lo, reg_addr_hi>>
    /\ UNCHANGED <<result, wrapper>>

(* SD$WAIT_BUSY reads the register for the busy bit and once more for the  *)
(* error bit.                                                              *)
PollBusy ==
    /\ \/ Access("before", IF is_busy THEN "before" ELSE "before_error")
       \/ Access("after", IF is_busy THEN "after" ELSE "after_error")
    /\ UNCHANGED <<result, registers, wrapper>>

CheckError ==
    /\ \/ ~is_error /\ Access("before_error", "addr_lo") /\ UNCHANGED result
       \/ is_error /\ Access("before_error", "call") /\ result' = "error"
       \/ Access("after_error", "call") /\ result' = IF is_error THEN "error" ELSE "ok"
    /\ UNCHANGED <<registers, wrapper>>

(* SD$TIMEOUT_MID, on the cycle counter.                                   *)
Timeout ==
    /\ cpu \in {"before", "after"} /\ cpu' = "call" /\ result' = "error"
    /\ UNCHANGED <<request, pace, registers, wrapper, controller>>

Library == WriteReset \/ WriteRegisters \/ PollBusy \/ CheckError

Next == Clock \/ CallReset \/ CallRead \/ Library \/ Timeout

Spec == Init /\ [][Next]_vars

(* The clock ticks and the card answers in the end, be it by no answer.    *)
LiveSpec ==
    /\ Spec
    /\ WF_vars(Clock)
    /\ SF_vars(ClockWith(Advance))
    /\ WF_vars(Library)

-----------------------------------------------------------------------------
Bytes == (Addresses \X (0 .. BlockSize - 1)) \cup {Junk}

TypeOK ==
    /\ cpu \in {"call", "reset_cmd", "before", "before_error", "addr_lo", "addr_hi",
                "read_cmd", "after", "after_error"}
    /\ request \in Blocks \cup {NoBlock} /\ result \in {"none", "ok", "error"}
    /\ pace \in 0 .. Pace
    /\ reg_addr_lo \in Words /\ reg_addr_hi \in Words /\ cmd_read \in BOOLEAN
    /\ sd_state \in {"sds_idle", "sds_busy", "sds_error", "sds_reset", "sds_read_start",
                     "sds_read_wait_for_byte", "sds_read_store_byte", "sds_read_handshake",
                     "sds_read_inc_ram_addr", "sds_read_check_done"}
    /\ sd_sync_reset \in BOOLEAN /\ sd_block_read \in BOOLEAN
    /\ sd_block_addr \in Addresses /\ address \in Addresses
    /\ current_byte \in Bytes /\ dout \in Bytes
    /\ buffer_ptr \in 0 .. BlockSize /\ ram \in [0 .. BlockSize - 1 -> Bytes]
    /\ state \in {"RST", "INIT", "IDLE", "IDLE2", "READ_BLOCK", "READ_BLOCK_WAIT_CHECK",
                  "READ_BLOCK_DATA", "READ_BLOCK_CRC", "READ_BLOCK_FINISH", "STUCK"}
    /\ sd_busy \in BOOLEAN /\ sd_error \in BOOLEAN /\ dout_avail \in BOOLEAN
    /\ byte_counter \in 0 .. BlockSize /\ corrupt \in BOOLEAN
    /\ original_state \in {"RST", "READ_BLOCK"} /\ state_retry_count \in 0 .. ACTION_RETRIES

(* When SD$READ_BLOCK returns 0 the buffer holds the block it was asked    *)
(* for, each byte at its place, whatever happened before: commands that    *)
(* were repeated, blocks given up by a timeout, resets in the middle of a  *)
(* block, disturbed bytes.                                                 *)
ReadIntact ==
    (result = "ok" /\ request # NoBlock) =>
        ram = [i \in 0 .. BlockSize - 1 |-> <<request, i>>]

(* The status register shows "busy" until the block is there or an error,  *)
(* and not for ever; a reset ends everything.                              *)
BusyEnds == is_busy ~> (~is_busy \/ cpu = "reset_cmd")
=============================================================================
