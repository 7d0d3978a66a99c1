--------------------------- MODULE HwSdCard_proofs ---------------------------
(***************************************************************************)
(* Proofs about HwSdCard for every size of a block, every set of words and *)
(* every number of repetitions of a read command: a call of SD$READ_BLOCK  *)
(* that returns 0 has left in the buffer the block it was asked for.       *)
(***************************************************************************)
EXTENDS HwSdCard, TLAPS

(* The states in which the controller has no byte of the block yet, those  *)
(* in which it has, and the states of sdcard.vhd that take a byte.         *)
Before == {"RST", "INIT", "IDLE", "IDLE2", "READ_BLOCK"}
Receiving == {"READ_BLOCK_DATA", "READ_BLOCK_CRC", "READ_BLOCK_FINISH"}
ByteStates == {"sds_read_wait_for_byte", "sds_read_store_byte", "sds_read_handshake",
               "sds_read_inc_ram_addr", "sds_read_check_done"}

(* What the state of sd_spi.vhd tells of its outputs and of a command that *)
(* is repeated.                                                            *)
ControllerInv ==
    /\ ~sd_busy => state = "IDLE2"
    /\ state \in {"RST", "INIT", "READ_BLOCK", "READ_BLOCK_WAIT_CHECK", "READ_BLOCK_DATA",
                  "READ_BLOCK_CRC"} => ~sd_error
    /\ state = "STUCK" => sd_error
    /\ state = "READ_BLOCK" => original_state = "READ_BLOCK"
    /\ state \in Receiving \cup {"READ_BLOCK_WAIT_CHECK"} => original_state = "RST"
    /\ original_state = "READ_BLOCK" /\ state # "STUCK" => ~sd_error
    /\ state = "READ_BLOCK_DATA" => byte_counter > 0

(* A reset of the registers takes three cycles, and the CPU is not back    *)
(* before they are over. The command register is cleared in the cycle      *)
(* after its write.                                                        *)
ResetInv ==
    /\ sd_state = "sds_reset" => pace < Pace /\ (pace > 0 => sd_sync_reset)
    /\ sd_state = "sds_reset" /\ pace > 1 => state = "RST"
    /\ sd_sync_reset => sd_state = "sds_reset" \/ (sd_state = "sds_busy" /\ sd_busy /\ ~sd_error)
    /\ sd_state = "sds_reset" \/ sd_sync_reset => ~sd_block_read
    /\ cmd_read => sd_state = "sds_idle" /\ pace = 0

(* k bytes of the block have left the controller: where the wrapper is     *)
(* with them.                                                              *)
Position(k) ==
    /\ k <= BlockSize
    /\ \/ sd_state \in {"sds_read_wait_for_byte", "sds_read_check_done"}
          /\ k = buffer_ptr + (IF dout_avail THEN 1 ELSE 0)
       \/ sd_state = "sds_read_store_byte" /\ dout_avail /\ k = buffer_ptr + 1
       \/ sd_state = "sds_read_handshake" /\ k = buffer_ptr + 1
       \/ sd_state = "sds_read_inc_ram_addr" /\ ~dout_avail /\ k = buffer_ptr + 1

(* The wrapper waits for the first byte.                                   *)
Waiting == sd_state = "sds_read_wait_for_byte" /\ ~dout_avail /\ buffer_ptr = 0

(* The bytes that have left the controller, in the buffer and on their     *)
(* way.                                                                    *)
Content ==
    /\ \A i \in 0 .. BlockSize - 1 : i < buffer_ptr => ram[i] = <<address, i>>
    /\ dout_avail => dout = <<address, buffer_ptr>>
    /\ sd_state = "sds_read_store_byte" => current_byte = <<address, buffer_ptr>>
    /\ sd_state \in {"sds_read_handshake", "sds_read_inc_ram_addr"} =>
           ram[buffer_ptr] = <<address, buffer_ptr>>

(* Wrapper and controller in the middle of a block: their counters agree,  *)
(* and the bytes are those of the address unless the CRC will tell.        *)
ByteInv ==
    sd_state \in ByteStates =>
        /\ sd_block_read /\ sd_busy
        /\ sd_error => state \in {"READ_BLOCK_FINISH", "STUCK"}
        /\ state \in Before \cup {"READ_BLOCK_WAIT_CHECK", "STUCK"} => Waiting
        /\ state \in Before => original_state = "READ_BLOCK"
        /\ state = "READ_BLOCK_DATA" => Position(BlockSize - byte_counter)
        /\ state = "READ_BLOCK_CRC" => Position(BlockSize)
        /\ state = "READ_BLOCK_FINISH" =>
               Position(BlockSize) \/ (sd_error /\ Waiting)
        /\ state \in Receiving /\ ~corrupt => Content
        /\ state = "READ_BLOCK_FINISH" /\ ~sd_error => ~corrupt
        /\ state \in Receiving \cup {"READ_BLOCK", "READ_BLOCK_WAIT_CHECK"} =>
               address = sd_block_addr

(* A command is being taken up.                                            *)
StartInv ==
    sd_state = "sds_read_start" =>
        /\ ~dout_avail /\ ~sd_error
        /\ sd_block_read => buffer_ptr = 0
        /\ \/ state = "IDLE2" /\ ~sd_busy /\ original_state = "RST"
           \/ state = "READ_BLOCK" /\ sd_busy /\ sd_block_read /\ address = sd_block_addr

(* The wrapper is idle, or busy after the last byte or after a reset: rd   *)
(* is down and no byte is on offer.                                        *)
RestInv ==
    /\ sd_state = "sds_idle" =>
           state = "IDLE2" /\ ~sd_busy /\ ~sd_error /\ original_state = "RST"
           /\ ~sd_block_read /\ ~dout_avail
    /\ sd_state = "sds_busy" /\ ~sd_sync_reset =>
        /\ state \in {"RST", "INIT", "IDLE", "IDLE2", "STUCK", "READ_BLOCK_CRC", "READ_BLOCK_FINISH"}
        /\ original_state = "RST" /\ ~sd_block_read /\ ~dout_avail
        /\ sd_error => state \in {"READ_BLOCK_FINISH", "STUCK"}

(* The buffer holds the block of the request.                              *)
Loaded == ram = [i \in 0 .. BlockSize - 1 |-> <<request, i>>]

(* No command runs, and none is about to.                                  *)
Quiet == sd_state = "sds_idle" /\ ~cmd_read

(* The status register shows an error, and will until the next reset.      *)
Broken ==
    /\ ~sd_sync_reset
    /\ \/ sd_state = "sds_error"
       \/ sd_error /\ sd_state \in ByteStates \cup {"sds_busy"}

(* The command of the library runs, or it has ended and its block or an    *)
(* error is there.                                                         *)
Transfer ==
    /\ ~sd_sync_reset
    /\ \/ sd_state = "sds_idle" /\ cmd_read /\ <<reg_addr_lo, reg_addr_hi>> = request
       \/ sd_state \in ByteStates \cup {"sds_read_start"} /\ sd_block_addr = request
       \/ /\ sd_state = "sds_busy"
          /\ \/ sd_error
             \/ state \in {"READ_BLOCK_FINISH", "IDLE", "IDLE2"} /\ Loaded
             \/ state = "READ_BLOCK_CRC" /\ (~corrupt => Loaded)
       \/ sd_state = "sds_idle" /\ ~cmd_read /\ Loaded
       \/ sd_state = "sds_error"

(* What the library may count on at each of its places.                    *)
LibraryInv ==
    /\ cpu \in {"before", "before_error", "addr_lo", "addr_hi", "read_cmd"} => request \in Blocks
    /\ cpu = "reset_cmd" => request = NoBlock
    /\ cpu = "before_error" => Broken \/ Quiet
    /\ cpu \in {"addr_lo", "addr_hi", "read_cmd"} => Quiet
    /\ cpu \in {"addr_hi", "read_cmd"} => reg_addr_lo = request[1]
    /\ cpu = "read_cmd" => reg_addr_hi = request[2]
    /\ cpu = "after" /\ request # NoBlock => Transfer
    /\ cpu = "after_error" /\ request # NoBlock => Broken \/ (Quiet /\ Loaded)
    /\ result = "ok" /\ request # NoBlock => cpu = "call" /\ Quiet /\ Loaded

(* A step of the controller alone.                                         *)
LEMMA ControllerStep ==
    ASSUME TypeOK, ControllerInv, Shift \/ Advance
    PROVE  ControllerInv'
<1> USE DEF TypeOK, ControllerInv, Receiving, Goto, data, command
<1>1. CASE Shift
    BY <1>1 DEF Shift
<1>2. CASE Initialise /\ sd_busy' = TRUE
    BY <1>2 DEF Initialise
<1>3. CASE NoResponse /\ sd_busy' = TRUE
    BY <1>3 DEF NoResponse
<1>12. CASE Stall /\ sd_busy' = TRUE
    BY <1>12 DEF Stall
<1>4. CASE StartRead /\ sd_busy' = TRUE
    BY <1>4 DEF StartRead
<1>5. CASE Response /\ sd_busy' = TRUE
    BY <1>5 DEF Response
<1>6. CASE Token /\ sd_busy' = TRUE
    BY <1>6, BlockSizeAssumption DEF Token
<1>7. CASE CheckCRC /\ sd_busy' = TRUE
    BY <1>7 DEF CheckCRC
<1>8. CASE Finish /\ sd_busy' = TRUE
    BY <1>8 DEF Finish
<1>9. CASE Idle /\ sd_busy' = TRUE
    BY <1>9 DEF Idle
<1>10. CASE Ready
    BY <1>10 DEF Ready
<1>11. CASE Byte
    BY <1>11 DEF Byte
<1> QED
    BY <1>1, <1>2, <1>3, <1>4, <1>5, <1>6, <1>7, <1>8, <1>9, <1>10, <1>11, <1>12
       DEF Advance, Busy

(* The parts of a clock edge, so that later steps need not expand it.      *)
LEMMA ClockParts ==
    ASSUME TypeOK, Clock
    PROVE  /\ Wrapper /\ UNCHANGED library
           /\ sd_sync_reset => sync_reset
           /\ ~sd_sync_reset => Shift \/ Advance
           /\ pace' \in 0 .. Pace /\ pace' > 0 /\ pace' <= pace + 1
           /\ pace < Pace => pace' = pace + 1
BY DEF Clock, ClockWith, TypeOK, Pace

(* A clock edge, with or without the synchronous reset, keeps the parts of *)
(* the invariant, one lemma for each of them.                              *)
LEMMA ControllerClock ==
    ASSUME TypeOK, ControllerInv, Clock
    PROVE  ControllerInv'
<1>1. CASE sd_sync_reset
    BY <1>1, ClockParts DEF sync_reset, ControllerInv, Receiving
<1>2. CASE ~sd_sync_reset
    BY <1>2, ClockParts, ControllerStep
<1> QED
    BY <1>1, <1>2

LEMMA ResetStep ==
    ASSUME TypeOK, ControllerInv, ResetInv, RestInv, Clock
    PROVE  ResetInv'
<1>1. ~cmd_read'
    BY ClockParts, Zenon DEF Wrapper, StateAfter, ResetInv
<1>2. sd_sync_reset' <=> sd_state = "sds_reset"
    BY ClockParts DEF Wrapper
<1>3. sd_state = "sds_reset" => sd_state' = IF state = "RST" THEN "sds_busy" ELSE "sds_reset"
    BY ClockParts DEF Wrapper, StateAfter
<1>4. sd_state' = "sds_reset" => sd_state = "sds_reset"
    BY ClockParts DEF Wrapper, StateAfter
<1>5. sd_state = "sds_reset" => ~sd_block_read'
    BY ClockParts DEF Wrapper, BlockRead, ResetInv
<1>6. sd_sync_reset => state' = "RST" /\ sd_busy' /\ ~sd_error'
    BY ClockParts DEF sync_reset
<1>7. ~sd_sync_reset /\ state = "RST" => sd_busy' /\ ~sd_error'
    <2> SUFFICES ASSUME Shift \/ Advance, state = "RST"
                 PROVE  sd_busy' /\ ~sd_error'
        BY ClockParts
    <2> QED
        BY DEF ControllerInv, TypeOK, Shift, Advance, Busy, Initialise, NoResponse, Stall,
               StartRead, Response, Token, CheckCRC, Finish, Idle, Ready, Byte, Goto
<1>8. sd_state' = "sds_reset" => pace' < Pace /\ sd_sync_reset' /\ (pace' > 1 => state' = "RST")
    BY <1>2, <1>3, <1>4, <1>6, ClockParts DEF ResetInv, Pace, TypeOK
<1>9. sd_sync_reset' => sd_state' = "sds_reset" \/ (sd_state' = "sds_busy" /\ sd_busy' /\ ~sd_error')
    BY <1>2, <1>3, <1>6, <1>7
<1> QED
    BY <1>1, <1>2, <1>4, <1>5, <1>8, <1>9 DEF ResetInv

LEMMA StartStep ==
    ASSUME TypeOK, ControllerInv, ResetInv, RestInv, StartInv, Clock
    PROVE  StartInv'
<1> SUFFICES ASSUME sd_state' = "sds_read_start"
             PROVE  StartInv'
    BY DEF StartInv
<1>1. Wrapper /\ (IF sd_sync_reset THEN sync_reset ELSE Shift \/ Advance)
    BY DEF Clock, ClockWith
<1>2. sd_state = "sds_idle" \/ sd_state = "sds_read_start"
    BY <1>1 DEF Wrapper, StateAfter
<1>3. Shift \/ Advance
    BY <1>1, <1>2 DEF ResetInv
<1>4. CASE sd_state = "sds_idle"
    <2>1. /\ state' = "IDLE2" /\ ~sd_busy' /\ ~sd_error' /\ original_state' = "RST"
          /\ ~dout_avail'
        BY <1>3, <1>4 DEF RestInv, TypeOK, Shift, Advance, Busy, Initialise, NoResponse, Stall,
               StartRead, Response, Token, CheckCRC, Finish, Idle, Ready, Byte, Goto, Handshake, data, command
    <2>2. ~sd_block_read'
        BY <1>1, <1>4 DEF RestInv, Wrapper, BlockRead
    <2> QED
        BY <2>1, <2>2 DEF StartInv
<1>5. CASE sd_state = "sds_read_start"
    <2>1. ~sd_busy /\ state = "IDLE2" /\ original_state = "RST"
        BY <1>1, <1>5 DEF Wrapper, StateAfter, StartInv
    <2>2. sd_block_read' /\ buffer_ptr' = 0 /\ sd_block_addr' = sd_block_addr
        BY <1>1, <1>5, <2>1 DEF Wrapper, BlockRead, BufferPtr
    <2>3. ~dout_avail' /\ ~sd_error'
        BY <1>3, <1>5, <2>1 DEF StartInv, TypeOK, Shift, Advance, Busy, Initialise, NoResponse, Stall,
               StartRead, Response, Token, CheckCRC, Finish, Idle, Ready, Byte, Goto, Handshake, data, command
    <2>4. \/ state' = "IDLE2" /\ ~sd_busy' /\ original_state' = "RST"
          \/ state' = "READ_BLOCK" /\ sd_busy' /\ address' = sd_block_addr
        BY <1>3, <1>5, <2>1 DEF StartInv, TypeOK, Shift, Advance, Busy, Initialise, NoResponse, Stall,
               StartRead, Response, Token, CheckCRC, Finish, Idle, Ready, Byte, Goto, Handshake, data, command
    <2> QED
        BY <2>2, <2>3, <2>4 DEF StartInv
<1> QED
    BY <1>2, <1>4, <1>5

LEMMA RestStep ==
    ASSUME TypeOK, ControllerInv, ResetInv, RestInv, StartInv, ByteInv, Clock
    PROVE  RestInv'
<1>1. ASSUME sd_state' = "sds_idle"
      PROVE  /\ state' = "IDLE2" /\ ~sd_busy' /\ ~sd_error' /\ original_state' = "RST"
             /\ ~sd_block_read' /\ ~dout_avail'
    <2>1. sd_state \in {"sds_idle", "sds_busy"} /\ ~sd_busy
        BY <1>1, ClockParts DEF Wrapper, StateAfter, RestInv
    <2>2. ~sd_sync_reset /\ (Shift \/ Advance)
        BY <2>1, ClockParts DEF ResetInv
    <2>3. /\ state = "IDLE2" /\ ~sd_error /\ original_state = "RST"
          /\ ~sd_block_read /\ ~dout_avail
        BY <2>1, <2>2 DEF RestInv, ControllerInv
    <2>4. ~sd_block_read'
        BY <2>1, <2>3, ClockParts DEF Wrapper, BlockRead
    <2> QED
        BY <2>1, <2>2, <2>3, <2>4 DEF TypeOK, Shift, Advance, Busy, Initialise, NoResponse, Stall,
               StartRead, Response, Token, CheckCRC, Finish, Idle, Ready, Byte, Goto, Handshake, data, command
<1>2. ASSUME sd_state' = "sds_busy", ~sd_sync_reset'
      PROVE  /\ state' \in {"RST", "INIT", "IDLE", "IDLE2", "STUCK", "READ_BLOCK_CRC", "READ_BLOCK_FINISH"}
             /\ original_state' = "RST" /\ ~sd_block_read' /\ ~dout_avail'
             /\ sd_error' => state' \in {"READ_BLOCK_FINISH", "STUCK"}
    <2>1. sd_state = "sds_busy" \/ (sd_state = "sds_read_check_done" /\ Done)
        BY <1>2, ClockParts DEF Wrapper, StateAfter
    <2>2. CASE sd_sync_reset
        <3>1. ~sd_block_read'
            BY <2>1, <2>2, ClockParts DEF ResetInv, Wrapper, BlockRead
        <3> QED
            BY <2>2, <3>1, ClockParts DEF sync_reset
    <2>3. CASE ~sd_sync_reset /\ sd_state = "sds_busy"
        <3>1. ~sd_block_read'
            BY <2>3, ClockParts DEF RestInv, Wrapper, BlockRead
        <3>2. sd_busy /\ ~sd_error
            BY <1>2, <2>3, ClockParts DEF Wrapper, StateAfter
        <3>3. Shift \/ Advance
            BY <2>3, ClockParts
        <3>4. /\ state \in {"RST", "INIT", "IDLE", "IDLE2", "STUCK", "READ_BLOCK_CRC", "READ_BLOCK_FINISH"}
              /\ original_state = "RST" /\ ~dout_avail /\ ~sd_block_read
            BY <2>3 DEF RestInv
        <3>5. Shift \/ (Busy /\ sd_busy' = TRUE /\ Handshake) \/ (Ready /\ Handshake)
            BY <3>3, <3>4 DEF Advance, Byte
        <3>6. ~dout_avail'
            BY <3>4, <3>5 DEF Shift, Handshake
        <3>7. /\ state' \in {"RST", "INIT", "IDLE", "IDLE2", "STUCK", "READ_BLOCK_CRC", "READ_BLOCK_FINISH"}
              /\ original_state' = "RST"
              /\ sd_error' => state' \in {"READ_BLOCK_FINISH", "STUCK"}
            <4>1. CASE Shift
                BY <3>2, <3>4, <4>1 DEF Shift, command
            <4>2. CASE Ready
                BY <3>2, <3>4, <4>2 DEF Ready, Goto
            <4>3. CASE Busy
                BY <3>2, <3>4, <4>3 DEF Busy, Initialise, NoResponse, Stall, StartRead, Response, Token,
                                        CheckCRC, Finish, Idle, Goto, command
            <4> QED
                BY <3>5, <4>1, <4>2, <4>3
        <3> QED
            BY <3>1, <3>6, <3>7
    <2>4. CASE ~sd_sync_reset /\ sd_state = "sds_read_check_done" /\ Done
        <3>1. ~sd_block_read'
            BY <2>4, ClockParts DEF RestInv, Wrapper, BlockRead
        <3>2. /\ state \in {"READ_BLOCK_CRC", "READ_BLOCK_FINISH"} /\ ~dout_avail
              /\ original_state = "RST" /\ sd_busy /\ sd_block_read
            BY <2>4, BlockSizeAssumption DEF ByteInv, ByteStates, Position, Waiting, Before, Receiving, Done, ControllerInv, TypeOK
        <3>3. Shift \/ Advance
            BY <2>4, ClockParts
        <3>4. Shift \/ (Busy /\ sd_busy' = TRUE /\ Handshake)
            BY <3>2, <3>3 DEF Advance, Ready, Byte, Goto
        <3>5. ~dout_avail' /\ original_state' = "RST"
            BY <3>2, <3>4 DEF Shift, Busy, Handshake, Initialise, NoResponse, Stall, StartRead, Response, Token,
                              CheckCRC, Finish, Idle, Goto, data, command
        <3>6. state' \in {"READ_BLOCK_CRC", "READ_BLOCK_FINISH"} /\ (sd_error' => state' = "READ_BLOCK_FINISH")
            <4>1. CASE Shift
                BY <3>2, <4>1 DEF Shift, ControllerInv
            <4>2. CASE CheckCRC
                BY <3>2, <4>2 DEF CheckCRC, Goto
            <4> QED
                BY <3>2, <3>4, <4>1, <4>2 DEF Busy, Initialise, NoResponse, Stall, StartRead, Response, Token,
                                              Finish, Idle, Goto
        <3> QED
            BY <3>1, <3>5, <3>6
    <2> QED
        BY <2>1, <2>2, <2>3, <2>4
<1> QED
    BY <1>1, <1>2, Zenon DEF RestInv

(* What the wrapper does with a byte, cycle by cycle.                      *)
LEMMA WrapperMoves ==
    ASSUME TypeOK, Wrapper, sd_state \in ByteStates, sd_state' \in ByteStates
    PROVE  /\ sd_state = "sds_read_wait_for_byte" => buffer_ptr' = buffer_ptr
           /\ sd_state = "sds_read_wait_for_byte" /\ ~dout_avail =>
                  sd_state' = "sds_read_wait_for_byte" /\ ram' = ram
           /\ sd_state = "sds_read_wait_for_byte" /\ dout_avail =>
                  sd_state' = "sds_read_store_byte" /\ current_byte' = dout
                  /\ ram' = [ram EXCEPT ![buffer_ptr] = dout]
           /\ sd_state = "sds_read_store_byte" =>
                  sd_state' = "sds_read_handshake" /\ buffer_ptr' = buffer_ptr
                  /\ ram' = [ram EXCEPT ![buffer_ptr] = current_byte]
           /\ sd_state = "sds_read_handshake" =>
                  sd_state' = (IF dout_avail THEN "sds_read_handshake" ELSE "sds_read_inc_ram_addr")
                  /\ buffer_ptr' = buffer_ptr /\ ram' = ram
           /\ sd_state = "sds_read_inc_ram_addr" =>
                  sd_state' = "sds_read_check_done" /\ buffer_ptr' = buffer_ptr + 1 /\ ram' = ram
           /\ sd_state = "sds_read_check_done" =>
                  sd_state' = "sds_read_wait_for_byte" /\ buffer_ptr' = buffer_ptr /\ ram' = ram
                  /\ buffer_ptr # BlockSize
           /\ sd_block_addr' = sd_block_addr
           /\ sd_block_read => sd_block_read'
BY DEF Wrapper, StateAfter, BufferPtr, BlockRead, Arrives, Done, ByteStates

(* No new byte: the position stays what it is, and so does the content.    *)
LEMMA NoByte ==
    ASSUME TypeOK, Wrapper, sd_state \in ByteStates, sd_state' \in ByteStates,
           dout_avail' <=> (dout_avail /\ sd_state # "sds_read_handshake"),
           NEW k \in Nat, Position(k)
    PROVE  Position(k)'
<1>1. buffer_ptr \in Nat
    BY DEF TypeOK
<1> QED
    BY <1>1, WrapperMoves DEF Position, ByteStates

LEMMA NoByteContent ==
    ASSUME TypeOK, Wrapper, sd_state \in ByteStates, sd_state' \in ByteStates,
           dout_avail' <=> (dout_avail /\ sd_state # "sds_read_handshake"),
           dout' = dout, address' = address,
           NEW k \in Nat, Position(k), Content
    PROVE  Content'
<1>1. buffer_ptr \in Nat /\ BlockSize \in Nat
    BY BlockSizeAssumption DEF TypeOK
<1>2. ram \in [0 .. BlockSize - 1 -> Bytes]
    BY DEF TypeOK
<1>3. CASE sd_state = "sds_read_wait_for_byte" /\ ~dout_avail
    BY <1>1, <1>3, WrapperMoves DEF Content
<1>4. CASE sd_state = "sds_read_wait_for_byte" /\ dout_avail
    BY <1>1, <1>2, <1>4, WrapperMoves DEF Content, Position
<1>5. CASE sd_state = "sds_read_store_byte"
    BY <1>1, <1>2, <1>5, WrapperMoves DEF Content, Position
<1>6. CASE sd_state = "sds_read_handshake"
    BY <1>1, <1>6, WrapperMoves DEF Content, Position
<1>7. CASE sd_state = "sds_read_inc_ram_addr"
    <2>1. ~dout_avail /\ ~dout_avail'
        BY <1>7 DEF Position
    <2>2. \A i \in 0 .. BlockSize - 1 : i < buffer_ptr + 1 => ram[i] = <<address, i>>
        BY <1>1, <1>7 DEF Content
    <2> QED
        BY <1>7, <2>1, <2>2, WrapperMoves DEF Content
<1>8. CASE sd_state = "sds_read_check_done"
    BY <1>1, <1>8, WrapperMoves DEF Content
<1> QED
    BY <1>3, <1>4, <1>5, <1>6, <1>7, <1>8 DEF ByteStates

(* A new byte is the next one, and it is put in its place.                 *)
LEMMA NewByte ==
    ASSUME TypeOK, Wrapper, sd_state \in ByteStates, sd_state' \in ByteStates,
           sd_state # "sds_read_handshake", ~dout_avail, dout_avail',
           NEW k \in Nat, k < BlockSize, Position(k)
    PROVE  Position(k + 1)' /\ buffer_ptr' = k
<1>1. buffer_ptr \in Nat /\ BlockSize \in Nat
    BY BlockSizeAssumption DEF TypeOK
<1>2. k + 1 <= BlockSize
    BY <1>1
<1>3. CASE sd_state = "sds_read_wait_for_byte"
    BY <1>1, <1>2, <1>3, WrapperMoves DEF Position
<1>4. CASE sd_state = "sds_read_inc_ram_addr"
    BY <1>1, <1>2, <1>4, WrapperMoves DEF Position
<1>5. CASE sd_state = "sds_read_check_done"
    BY <1>1, <1>2, <1>5, WrapperMoves DEF Position
<1> QED
    BY <1>3, <1>4, <1>5 DEF Position

LEMMA NewByteContent ==
    ASSUME TypeOK, Wrapper, sd_state \in ByteStates, sd_state' \in ByteStates,
           sd_state # "sds_read_handshake", ~dout_avail, dout_avail',
           NEW k \in Nat, k < BlockSize, Position(k), Content,
           dout' = <<address, k>>, address' = address
    PROVE  Content'
<1>1. buffer_ptr \in Nat /\ BlockSize \in Nat
    BY BlockSizeAssumption DEF TypeOK
<1>2. buffer_ptr' = k
    BY NewByte
<1>3. sd_state \in {"sds_read_wait_for_byte", "sds_read_inc_ram_addr", "sds_read_check_done"}
    BY DEF Position
<1>4. sd_state' \in {"sds_read_wait_for_byte", "sds_read_check_done"} /\ ram' = ram
    BY <1>3, WrapperMoves
<1>5. \A i \in 0 .. BlockSize - 1 : i < k => ram[i] = <<address, i>>
    BY <1>1, <1>3 DEF Content, Position
<1> QED
    BY <1>2, <1>4, <1>5 DEF Content

(* Before the first byte nothing moves in the wrapper.                     *)
LEMMA StaysWaiting ==
    ASSUME TypeOK, Wrapper, sd_state' \in ByteStates, ~dout_avail',
           Waiting \/ (sd_state = "sds_read_start" /\ sd_busy /\ ~dout_avail /\ buffer_ptr = 0)
    PROVE  Waiting'
BY DEF Waiting, Wrapper, StateAfter, BufferPtr

(* The controller on its way to the first byte: a command, its             *)
(* repetitions, its failures and the start token.                          *)
LEMMA BeforeFirstByte ==
    ASSUME TypeOK, ControllerInv, Wrapper, Shift \/ Advance, sd_state' \in ByteStates,
           Waiting \/ (sd_state = "sds_read_start" /\ sd_busy /\ ~dout_avail /\ buffer_ptr = 0),
           sd_block_read, sd_busy, sd_error => state = "STUCK",
           state \in Before \cup {"READ_BLOCK_WAIT_CHECK", "STUCK"},
           state \in Before => original_state = "READ_BLOCK",
           state \in {"READ_BLOCK", "READ_BLOCK_WAIT_CHECK"} => address = sd_block_addr
    PROVE  ByteInv'
<1> USE DEF Goto, Before
<1>1. /\ Shift \/ (Busy /\ sd_busy' = TRUE /\ Handshake)
      /\ state \in Before => original_state = "READ_BLOCK"
    BY DEF Advance, Ready, Byte
<1>2. ~dout_avail
    BY DEF Waiting
<1>3. ~dout_avail' /\ sd_busy'
    BY <1>1, <1>2 DEF Shift, Handshake
<1>4. Waiting' /\ Content'
    <2>1. Waiting'
        BY <1>3, StaysWaiting
    <2> QED
        BY <2>1 DEF Waiting, Content
<1>5. sd_block_read' /\ sd_block_addr' = sd_block_addr
    BY DEF Wrapper, BlockRead, Waiting
<1>6. \/ /\ state' = state /\ original_state' = original_state /\ address' = address
         /\ sd_error' <=> sd_error
      \/ state' \in {"RST", "INIT", "IDLE", "IDLE2"} /\ original_state' = "READ_BLOCK" /\ ~sd_error'
      \/ state' = "STUCK"
      \/ state' = "READ_BLOCK" /\ original_state' = "READ_BLOCK" /\ ~sd_error' /\ address' = sd_block_addr
      \/ state' = "READ_BLOCK_WAIT_CHECK" /\ ~sd_error' /\ address' = sd_block_addr
      \/ state' = "READ_BLOCK_FINISH" /\ sd_error' /\ address' = sd_block_addr
      \/ state' = "READ_BLOCK_DATA" /\ ~sd_error' /\ byte_counter' = BlockSize /\ address' = sd_block_addr
    <2>1. CASE Shift
        BY <2>1 DEF Shift, command
    <2>2. CASE Initialise
        BY <2>2 DEF Initialise, command
    <2>3. CASE NoResponse \/ Stall
        BY <1>1, <2>3 DEF NoResponse, Stall
    <2>4. CASE StartRead
        BY <1>1, <2>4 DEF StartRead
    <2>5. CASE Response
        BY <2>5 DEF Response
    <2>6. CASE Token
        BY <2>6 DEF Token, command, ControllerInv
    <2>7. CASE Idle
        BY <1>1, <2>7 DEF Idle, command, ControllerInv
    <2> QED
        BY <1>1, <2>1, <2>2, <2>3, <2>4, <2>5, <2>6, <2>7 DEF Busy, CheckCRC, Finish
<1>7. state' = "READ_BLOCK_DATA" => Position(BlockSize - byte_counter)'
    <2>1. state' = "READ_BLOCK_DATA" => byte_counter' = BlockSize
        BY <1>6
    <2> QED
        BY <1>4, <2>1, BlockSizeAssumption DEF Waiting, Position
<1>8. /\ sd_error' => state' \in {"READ_BLOCK_FINISH", "STUCK"}
      /\ state' \in Before => original_state' = "READ_BLOCK"
      /\ state' # "READ_BLOCK_CRC"
      /\ state' = "READ_BLOCK_FINISH" => sd_error'
      /\ state' \in Receiving \cup {"READ_BLOCK", "READ_BLOCK_WAIT_CHECK"} => address' = sd_block_addr'
    BY <1>5, <1>6 DEF Receiving
<1> QED
    BY <1>3, <1>4, <1>5, <1>7, <1>8 DEF ByteInv

(* A clock edge in the middle of a block.                                  *)
LEMMA ByteStep ==
    ASSUME TypeOK, ControllerInv, ResetInv, StartInv, ByteInv, Clock
    PROVE  ByteInv'
<1> SUFFICES ASSUME sd_state' \in ByteStates
             PROVE  ByteInv'
    BY DEF ByteInv
<1>1. \/ sd_state = "sds_read_start" /\ sd_busy
      \/ sd_state \in ByteStates
    BY ClockParts DEF Wrapper, StateAfter, ByteStates
<1>2. Wrapper /\ (Shift \/ Advance)
    BY <1>1, ClockParts DEF ResetInv, ByteStates
<1>3. CASE sd_state = "sds_read_start" /\ sd_busy
    BY <1>2, <1>3, BeforeFirstByte DEF StartInv, Before, ControllerInv
<1>4. CASE sd_state \in ByteStates /\ state \in Before \cup {"READ_BLOCK_WAIT_CHECK", "STUCK"}
    BY <1>2, <1>4, BeforeFirstByte DEF ByteInv, Before
<1>5. CASE sd_state \in ByteStates /\ state \in Receiving
    <2>1. /\ sd_block_read /\ sd_busy /\ address = sd_block_addr
          /\ sd_block_read' /\ sd_block_addr' = sd_block_addr
        BY <1>2, <1>5, WrapperMoves DEF ByteInv
    <2>2. Shift \/ (CheckCRC /\ sd_busy' = TRUE /\ Handshake) \/ Byte
        BY <1>2, <1>5, <2>1 DEF Advance, Busy, Initialise, NoResponse, Stall, StartRead, Response, Token,
                                Finish, Idle, Ready, Goto, Receiving
    <2>3. sd_busy' /\ address' = address
        BY <2>1, <2>2 DEF Shift, CheckCRC, Byte, command
    <2>4. CASE state = "READ_BLOCK_FINISH" /\ sd_error /\ Waiting
        <3>1. Shift
            BY <2>2, <2>4 DEF CheckCRC, Byte, Goto
        <3>2. state' = "READ_BLOCK_FINISH" /\ sd_error' /\ ~dout_avail'
            BY <2>4, <3>1 DEF Shift, Handshake, Waiting
        <3>3. Waiting' /\ Content'
            <4>1. Waiting'
                BY <1>2, <2>4, <3>2, StaysWaiting
            <4> QED
                BY <4>1 DEF Waiting, Content
        <3> QED
            BY <2>1, <2>3, <3>2, <3>3 DEF ByteInv, Before, Receiving
    <2>5. ASSUME ~(state = "READ_BLOCK_FINISH" /\ sd_error /\ Waiting),
                 Shift \/ (CheckCRC /\ sd_busy' = TRUE /\ Handshake)
          PROVE  ByteInv'
        <3>1. PICK k \in Nat : /\ Position(k) /\ k = (IF state = "READ_BLOCK_DATA" THEN BlockSize - byte_counter ELSE BlockSize)
            <4>1. BlockSize - byte_counter \in Nat /\ BlockSize \in Nat
                BY BlockSizeAssumption DEF TypeOK
            <4>2. IF state = "READ_BLOCK_DATA" THEN Position(BlockSize - byte_counter) ELSE Position(BlockSize)
                BY <1>5, <2>5 DEF ByteInv, Receiving
            <4> QED
                BY <4>1, <4>2
        <3>2. dout_avail' <=> (dout_avail /\ sd_state # "sds_read_handshake")
            BY <2>5 DEF Shift, Handshake, sd_dout_taken
        <3>3. Position(k)'
            BY <1>2, <1>5, <3>1, <3>2, NoByte
        <3>4. dout' = dout /\ byte_counter' = byte_counter /\ (corrupt' <=> corrupt)
            BY <2>5 DEF Shift, CheckCRC, data
        <3>5. ~corrupt' => Content'
            BY <1>2, <1>5, <2>3, <3>1, <3>2, <3>4, NoByteContent DEF ByteInv
        <3>6. \/ state' = state /\ (sd_error' <=> sd_error)
              \/ state = "READ_BLOCK_CRC" /\ state' = "READ_BLOCK_FINISH" /\ (~sd_error' => ~corrupt)
            BY <2>5 DEF Shift, CheckCRC, Goto
        <3>7. /\ state' \in Receiving
              /\ sd_error' => state' = "READ_BLOCK_FINISH"
              /\ state' = "READ_BLOCK_FINISH" /\ ~sd_error' => ~corrupt'
            BY <1>5, <3>4, <3>6 DEF ByteInv, Receiving
        <3>8. /\ state' = "READ_BLOCK_DATA" => k = BlockSize - byte_counter'
              /\ state' \in {"READ_BLOCK_CRC", "READ_BLOCK_FINISH"} => k = BlockSize
            BY <1>5, <3>1, <3>4, <3>6 DEF Receiving
        <3>9. state' = "READ_BLOCK_DATA" => Position(BlockSize - byte_counter)'
            BY <3>3, <3>8 DEF Position
        <3>10. state' \in {"READ_BLOCK_CRC", "READ_BLOCK_FINISH"} => Position(BlockSize)'
            BY <3>3, <3>8 DEF Position
        <3> QED
            BY <2>1, <2>3, <3>5, <3>7, <3>9, <3>10 DEF ByteInv, Before, Receiving
    <2>6. CASE Byte
        <3>1. /\ state = "READ_BLOCK_DATA" /\ ~dout_avail /\ ~sd_dout_taken /\ dout_avail'
              /\ dout' \in {<<address, BlockSize - byte_counter>>, Junk}
              /\ corrupt' <=> (corrupt \/ dout' = Junk)
              /\ byte_counter' = byte_counter - 1
              /\ state' = IF byte_counter = 1 THEN "READ_BLOCK_CRC" ELSE "READ_BLOCK_DATA"
              /\ sd_error' <=> sd_error
            BY <2>1, <2>6 DEF Byte
        <3>2. PICK k \in Nat : k = BlockSize - byte_counter /\ k < BlockSize /\ Position(k)
            <4>1. BlockSize - byte_counter \in Nat /\ BlockSize - byte_counter < BlockSize
                BY <3>1, BlockSizeAssumption DEF TypeOK, ControllerInv
            <4> QED
                BY <1>5, <3>1, <4>1 DEF ByteInv
        <3>3. sd_state # "sds_read_handshake"
            BY <3>1 DEF sd_dout_taken
        <3>4. Position(k + 1)'
            BY <1>2, <1>5, <3>1, <3>2, <3>3, NewByte
        <3>5. ~corrupt' => Content'
            <4>1. ~corrupt' => dout' = <<address, k>> /\ Content
                BY <1>5, <3>1, <3>2 DEF ByteInv, Receiving
            <4> QED
                BY <1>2, <1>5, <2>3, <3>1, <3>2, <3>3, <4>1, NewByteContent
        <3>6. k + 1 = BlockSize - byte_counter' /\ (byte_counter = 1 => k + 1 = BlockSize)
            BY <3>1, <3>2, BlockSizeAssumption DEF TypeOK
        <3>7. Position(BlockSize - byte_counter)' /\ (byte_counter = 1 => Position(BlockSize)')
            BY <3>4, <3>6 DEF Position
        <3>8. ~sd_error'
            BY <3>1 DEF ControllerInv
        <3> QED
            BY <2>1, <2>3, <3>1, <3>5, <3>7, <3>8 DEF ByteInv, Before, Receiving
    <2> QED
        BY <2>2, <2>4, <2>5, <2>6
<1>6. sd_state \in ByteStates => state \in Before \cup {"READ_BLOCK_WAIT_CHECK", "STUCK"} \cup Receiving
    BY DEF TypeOK, Before, Receiving
<1> QED
    BY <1>1, <1>3, <1>4, <1>5, <1>6

(* The types of the wrapper: the pointer stays within the buffer because   *)
(* the controller offers no byte past the block.                           *)
LEMMA WrapperTypes ==
    ASSUME TypeOK, ByteInv, Wrapper
    PROVE  /\ sd_state' \in {"sds_idle", "sds_busy", "sds_error", "sds_reset", "sds_read_start",
                     "sds_read_wait_for_byte", "sds_read_store_byte", "sds_read_handshake",
                     "sds_read_inc_ram_addr", "sds_read_check_done"}
           /\ sd_sync_reset' \in BOOLEAN /\ sd_block_read' \in BOOLEAN /\ cmd_read' \in BOOLEAN
           /\ sd_block_addr' \in Addresses /\ current_byte' \in Bytes
           /\ buffer_ptr' \in 0 .. BlockSize /\ ram' \in [0 .. BlockSize - 1 -> Bytes]
           /\ reg_addr_lo' \in Words /\ reg_addr_hi' \in Words
<1>1. sd_state' \in {"sds_idle", "sds_busy", "sds_error", "sds_reset", "sds_read_start",
                     "sds_read_wait_for_byte", "sds_read_store_byte", "sds_read_handshake",
                     "sds_read_inc_ram_addr", "sds_read_check_done"}
    BY DEF Wrapper, StateAfter, TypeOK
<1>2. sd_sync_reset' \in BOOLEAN /\ sd_block_read' \in BOOLEAN /\ cmd_read' \in BOOLEAN
    BY DEF Wrapper, BlockRead, TypeOK
<1>3. sd_block_addr' \in Addresses /\ reg_addr_lo' \in Words /\ reg_addr_hi' \in Words
    BY DEF Wrapper, Addresses, TypeOK
<1>4. current_byte' \in Bytes
    BY DEF Wrapper, TypeOK
<1>5. ram' \in [0 .. BlockSize - 1 -> Bytes]
    BY DEF Wrapper, TypeOK
<1>6. buffer_ptr' \in 0 .. BlockSize
    <2>1. CASE sd_state = "sds_read_inc_ram_addr"
        <3>1. state \in Receiving
            BY <2>1 DEF ByteInv, ByteStates, Before, Receiving, Waiting, TypeOK
        <3>2. buffer_ptr + 1 <= BlockSize
            BY <2>1, <3>1, BlockSizeAssumption DEF ByteInv, ByteStates, Receiving, Position, Waiting, TypeOK
        <3> QED
            BY <2>1, <3>2, BlockSizeAssumption DEF Wrapper, BufferPtr, TypeOK
    <2>2. CASE sd_state # "sds_read_inc_ram_addr"
        BY <2>2, BlockSizeAssumption DEF Wrapper, BufferPtr, TypeOK
    <2> QED
        BY <2>1, <2>2
<1> QED
    BY <1>1, <1>2, <1>3, <1>4, <1>5, <1>6

(* The types of the controller: its byte counter stops at 0, its retry     *)
(* counter at ACTION_RETRIES.                                              *)
LEMMA ControllerTypes ==
    ASSUME TypeOK, ControllerInv, Shift \/ Advance
    PROVE  /\ state' \in {"RST", "INIT", "IDLE", "IDLE2", "READ_BLOCK", "READ_BLOCK_WAIT_CHECK",
                  "READ_BLOCK_DATA", "READ_BLOCK_CRC", "READ_BLOCK_FINISH", "STUCK"}
           /\ sd_busy' \in BOOLEAN /\ sd_error' \in BOOLEAN /\ dout_avail' \in BOOLEAN
           /\ dout' \in Bytes /\ address' \in Addresses
           /\ byte_counter' \in 0 .. BlockSize /\ corrupt' \in BOOLEAN
           /\ original_state' \in {"RST", "READ_BLOCK"} /\ state_retry_count' \in 0 .. ACTION_RETRIES
<1> USE DEF TypeOK, Goto, data, command, Handshake
<1>1. CASE Shift
    BY <1>1 DEF Shift
<1>2. CASE Initialise /\ sd_busy' = TRUE /\ Handshake
    BY <1>2 DEF Initialise
<1>3. CASE NoResponse /\ sd_busy' = TRUE /\ Handshake
    <2>1. state' \in {"RST", "STUCK"} /\ sd_error' \in {TRUE, sd_error}
        BY <1>3 DEF NoResponse
    <2>2. state_retry_count' \in 0 .. ACTION_RETRIES
        BY <1>3, RetriesAssumption DEF NoResponse
    <2> QED
        BY <1>3, <2>1, <2>2 DEF NoResponse
<1>12. CASE Stall /\ sd_busy' = TRUE /\ Handshake
    BY <1>12 DEF Stall
<1>4. CASE StartRead /\ sd_busy' = TRUE /\ Handshake
    BY <1>4 DEF StartRead
<1>5. CASE Response /\ sd_busy' = TRUE /\ Handshake
    BY <1>5 DEF Response
<1>6. CASE Token /\ sd_busy' = TRUE /\ Handshake
    <2>1. /\ state' \in {"READ_BLOCK_DATA", "READ_BLOCK_FINISH"}
          /\ sd_error' \in {TRUE, sd_error} /\ corrupt' \in {FALSE, corrupt}
        BY <1>6 DEF Token
    <2>2. byte_counter' \in 0 .. BlockSize
        BY <1>6, BlockSizeAssumption DEF Token
    <2> QED
        BY <1>6, <2>1, <2>2 DEF Token
<1>7. CASE CheckCRC /\ sd_busy' = TRUE /\ Handshake
    BY <1>7 DEF CheckCRC
<1>8. CASE Finish /\ sd_busy' = TRUE /\ Handshake
    BY <1>8 DEF Finish
<1>9. CASE Idle /\ sd_busy' = TRUE /\ Handshake
    BY <1>9 DEF Idle
<1>10. CASE Ready /\ Handshake
    <2>1. state_retry_count' \in 0 .. ACTION_RETRIES
        BY <1>10, RetriesAssumption DEF Ready
    <2> QED
        BY <1>10, <2>1 DEF Ready
<1>11. CASE Byte
    <2>1. byte_counter > 0 /\ byte_counter' = byte_counter - 1
        BY <1>11 DEF Byte, ControllerInv
    <2>2. byte_counter' \in 0 .. BlockSize
        BY <2>1, BlockSizeAssumption
    <2>3. dout' \in Bytes
        <3>1. BlockSize - byte_counter \in 0 .. BlockSize - 1
            BY <2>1, BlockSizeAssumption
        <3>2. dout' \in {<<address, BlockSize - byte_counter>>, Junk, dout}
            BY <1>11 DEF Byte
        <3> QED
            BY <3>1, <3>2 DEF Bytes
    <2>4. corrupt' \in BOOLEAN /\ dout_avail' \in BOOLEAN
        BY <1>11 DEF Byte
    <2> QED
        BY <1>11, <2>2, <2>3, <2>4 DEF Byte
<1> QED
    BY <1>1, <1>2, <1>3, <1>4, <1>5, <1>6, <1>7, <1>8, <1>9, <1>10, <1>11, <1>12
       DEF Advance, Busy

(* A clock edge keeps the types.                                           *)
LEMMA TypeStep ==
    ASSUME TypeOK, ControllerInv, ByteInv, Clock
    PROVE  TypeOK'
<1>1. /\ state' \in {"RST", "INIT", "IDLE", "IDLE2", "READ_BLOCK", "READ_BLOCK_WAIT_CHECK",
                  "READ_BLOCK_DATA", "READ_BLOCK_CRC", "READ_BLOCK_FINISH", "STUCK"}
      /\ sd_busy' \in BOOLEAN /\ sd_error' \in BOOLEAN /\ dout_avail' \in BOOLEAN
      /\ dout' \in Bytes /\ address' \in Addresses
      /\ byte_counter' \in 0 .. BlockSize /\ corrupt' \in BOOLEAN
      /\ original_state' \in {"RST", "READ_BLOCK"} /\ state_retry_count' \in 0 .. ACTION_RETRIES
    <2>1. CASE sd_sync_reset
        BY <2>1, ClockParts, WordsAssumption, BlockSizeAssumption, RetriesAssumption
           DEF sync_reset, Bytes, Addresses
    <2>2. CASE ~sd_sync_reset
        BY <2>2, ClockParts, ControllerTypes
    <2> QED
        BY <2>1, <2>2
<1>2. pace' \in 0 .. Pace /\ cpu' = cpu /\ request' = request /\ result' = result
    BY ClockParts DEF library
<1>3. Wrapper
    BY ClockParts
<1> QED
    BY <1>1, <1>2, <1>3, WrapperTypes DEF TypeOK

(* Without a command the buffer stays as it is, and an error stays an      *)
(* error until the next reset.                                             *)
LEMMA QuietStep ==
    ASSUME TypeOK, ResetInv, Clock, Quiet
    PROVE  Quiet' /\ ram' = ram
BY ClockParts DEF Quiet, Wrapper, StateAfter, Arrives

LEMMA BrokenStep ==
    ASSUME TypeOK, ControllerInv, ByteInv, RestInv, Clock, Broken
    PROVE  Broken'
<1>1. ~sd_sync_reset'
    BY ClockParts DEF Broken, Wrapper, ByteStates
<1>2. CASE sd_state = "sds_error"
    BY <1>1, <1>2, ClockParts DEF Broken, Wrapper, StateAfter
<1>3. CASE sd_error /\ sd_state = "sds_busy"
    <2>1. sd_busy
        BY <1>3 DEF Broken, RestInv, ControllerInv
    <2> QED
        BY <1>1, <1>3, <2>1, ClockParts DEF Broken, Wrapper, StateAfter
<1>4. CASE sd_error /\ sd_state \in ByteStates
    <2>1. state \in {"READ_BLOCK_FINISH", "STUCK"} /\ sd_block_read
        BY <1>4 DEF ByteInv
    <2>2. Shift
        BY <2>1, ClockParts DEF Broken, Advance, Busy, Initialise, NoResponse, Stall, StartRead, Response, Token,
                                CheckCRC, Finish, Idle, Ready, Byte, Goto
    <2>3. sd_error'
        BY <1>4, <2>2 DEF Shift
    <2>4. sd_state' \in ByteStates \cup {"sds_busy"}
        BY <1>4, ClockParts DEF Wrapper, StateAfter, ByteStates
    <2> QED
        BY <1>1, <2>3, <2>4 DEF Broken
<1> QED
    BY <1>2, <1>3, <1>4 DEF Broken

(* The last byte is in its place when the wrapper leaves the loop of       *)
(* bytes.                                                                  *)
LEMMA LastByte ==
    ASSUME TypeOK, ControllerInv, RestInv, ByteInv, Clock,
           sd_state = "sds_read_check_done", Done, sd_block_addr = request,
           request \in Blocks, ~sd_sync_reset
    PROVE  Transfer'
<1>1. /\ sd_state' = "sds_busy" /\ ~sd_sync_reset' /\ ram' = ram /\ request' = request
    BY ClockParts DEF Wrapper, StateAfter, Arrives, library
<1>2. /\ state \in {"READ_BLOCK_CRC", "READ_BLOCK_FINISH"}
      /\ sd_block_read /\ buffer_ptr = BlockSize
      /\ address = request
    BY BlockSizeAssumption DEF ByteInv, ByteStates, Position, Waiting, Before, Receiving, Done,
                               ControllerInv, TypeOK
<1>3. ~corrupt => Loaded
    <2> SUFFICES ASSUME ~corrupt
                 PROVE  Loaded
        OBVIOUS
    <2>1. \A i \in 0 .. BlockSize - 1 : ram[i] = <<request, i>>
        BY <1>2, BlockSizeAssumption DEF ByteInv, ByteStates, Receiving, Content
    <2>2. ram \in [0 .. BlockSize - 1 -> Bytes]
        BY DEF TypeOK
    <2> QED
        BY <2>1, <2>2 DEF Loaded
<1>4. (~corrupt => Loaded)'
      \/ sd_error'
    <2>1. Shift \/ CheckCRC
        BY <1>2, ClockParts DEF Advance, Busy, Initialise, NoResponse, Stall, StartRead, Response, Token,
                                Finish, Idle, Ready, Byte, Goto
    <2>2. corrupt' <=> corrupt
        BY <2>1 DEF Shift, CheckCRC, data
    <2> QED
        BY <1>1, <1>3, <2>2 DEF Loaded
<1>5. \/ state' = "READ_BLOCK_CRC"
      \/ state' = "READ_BLOCK_FINISH" /\ (sd_error' \/ Loaded')
    <2>1. Loaded => Loaded'
        BY <1>1 DEF Loaded
    <2>2. CASE Shift
        BY <1>2, <1>3, <2>1, <2>2 DEF Shift, ByteInv, ByteStates
    <2>3. CASE CheckCRC
        BY <1>2, <1>3, <2>1, <2>3 DEF CheckCRC, Goto
    <2> QED
        BY <1>2, <2>2, <2>3, ClockParts DEF Advance, Busy, Initialise, NoResponse, Stall, StartRead,
            Response, Token, Finish, Idle, Ready, Byte, Goto
<1> QED
    BY <1>1, <1>4, <1>5 DEF Transfer

(* From the end of the last byte to the end of the command: the CRC        *)
(* decides whether the block is good.                                      *)
LEMMA CheckedBlock ==
    ASSUME TypeOK, ControllerInv, ResetInv, RestInv, Clock, Transfer, sd_state = "sds_busy"
    PROVE  Transfer'
<1>1. /\ ~sd_sync_reset /\ ~sd_sync_reset' /\ ram' = ram /\ request' = request /\ ~cmd_read'
    BY ClockParts DEF Transfer, Wrapper, Arrives, library, ResetInv
<1>2. Loaded => Loaded'
    BY <1>1 DEF Loaded
<1>3. sd_state' = IF ~sd_busy THEN "sds_idle" ELSE IF sd_error THEN "sds_error" ELSE "sds_busy"
    BY ClockParts DEF Wrapper, StateAfter
<1>4. CASE sd_error
    <2>1. sd_busy
        BY <1>1, <1>4 DEF RestInv, ControllerInv
    <2> QED
        BY <1>1, <1>3, <1>4, <2>1 DEF Transfer
<1>5. CASE ~sd_error /\ ~sd_busy
    <2>1. Loaded
        BY <1>5 DEF Transfer, ControllerInv, ByteStates
    <2> QED
        BY <1>1, <1>2, <1>3, <1>5, <2>1 DEF Transfer
<1>6. CASE ~sd_error /\ sd_busy
    <2>1. \/ state \in {"READ_BLOCK_FINISH", "IDLE", "IDLE2"} /\ Loaded
          \/ state = "READ_BLOCK_CRC" /\ (~corrupt => Loaded)
        BY <1>6 DEF Transfer, ByteStates
    <2>2. ~sd_block_read /\ original_state = "RST"
        BY <1>1 DEF RestInv
    <2>3. Shift \/ CheckCRC \/ Finish \/ Idle \/ Ready
        BY <1>1, <2>1, <2>2, ClockParts DEF Advance, Busy, Initialise, NoResponse, Stall, StartRead,
            Response, Token, Byte, Goto
    <2>4. \/ state' \in {"READ_BLOCK_FINISH", "IDLE", "IDLE2"} /\ (sd_error' \/ Loaded)
          \/ state' = "READ_BLOCK_CRC" /\ (~corrupt' => Loaded)
        <3>1. CASE Shift
            BY <2>1, <3>1 DEF Shift, data
        <3>2. CASE CheckCRC
            BY <2>1, <3>2 DEF CheckCRC, Goto
        <3>3. CASE Finish \/ Idle \/ Ready
            BY <2>1, <3>3 DEF Finish, Idle, Ready, Goto
        <3> QED
            BY <2>3, <3>1, <3>2, <3>3
    <2>5. sd_state' = "sds_busy"
        BY <1>3, <1>6
    <2> QED
        BY <1>1, <1>2, <2>4, <2>5 DEF Transfer
<1> QED
    BY <1>4, <1>5, <1>6

(* A clock edge carries the command of the library on.                     *)
LEMMA TransferStep ==
    ASSUME TypeOK, ControllerInv, ResetInv, StartInv, RestInv, ByteInv, Clock,
           Transfer, request \in Blocks
    PROVE  Transfer'
<1>1. request' = request /\ ~sd_sync_reset /\ ~sd_sync_reset'
    BY ClockParts DEF Transfer, library, Wrapper, ByteStates
<1>2. CASE sd_state = "sds_idle" /\ cmd_read
    BY <1>1, <1>2, ClockParts DEF Transfer, Wrapper, StateAfter, ByteStates
<1>3. CASE sd_state = "sds_read_start"
    BY <1>1, <1>3, ClockParts DEF Transfer, Wrapper, StateAfter, ByteStates
<1>4. CASE sd_state \in ByteStates /\ ~(sd_state = "sds_read_check_done" /\ Done)
    BY <1>1, <1>4, ClockParts DEF Transfer, Wrapper, StateAfter, ByteStates
<1>5. CASE sd_state = "sds_read_check_done" /\ Done
    BY <1>1, <1>5, LastByte DEF Transfer
<1>6. CASE sd_state = "sds_busy"
    BY <1>6, CheckedBlock
<1>7. CASE sd_state = "sds_idle" /\ ~cmd_read
    <2>1. Quiet' /\ ram' = ram
        BY <1>7, QuietStep DEF Quiet
    <2> QED
        BY <1>1, <1>7, <2>1 DEF Transfer, Loaded, Quiet, ByteStates
<1>8. CASE sd_state = "sds_error"
    BY <1>1, <1>8, ClockParts DEF Transfer, Wrapper, StateAfter
<1> QED
    BY <1>2, <1>3, <1>4, <1>5, <1>6, <1>7, <1>8 DEF Transfer

(* The inductive invariant.                                                *)
IInv == TypeOK /\ ControllerInv /\ ResetInv /\ StartInv /\ RestInv /\ ByteInv /\ LibraryInv

(* A clock edge keeps what the library counts on.                          *)
LEMMA LibraryClock ==
    ASSUME IInv, Clock
    PROVE  LibraryInv'
<1> USE DEF IInv
<1>1. cpu' = cpu /\ request' = request /\ result' = result
    BY ClockParts DEF library
<1>2. reg_addr_lo' = reg_addr_lo /\ reg_addr_hi' = reg_addr_hi
    BY ClockParts DEF Wrapper
<1>3. Broken => Broken'
    BY BrokenStep
<1>4. Quiet => Quiet' /\ (Loaded => Loaded')
    BY <1>1, QuietStep DEF Loaded
<1>5. Transfer /\ request \in Blocks => Transfer'
    BY TransferStep
<1>6. request # NoBlock => request \in Blocks
    BY DEF TypeOK
<1> QED
    BY <1>1, <1>2, <1>3, <1>4, <1>5, <1>6, Zenon DEF LibraryInv

(* The invariant holds after power on, before the first reset of the card. *)
LEMMA InitInv == Init => IInv
<1> SUFFICES ASSUME Init
             PROVE  IInv
    OBVIOUS
<1>1. TypeOK
    <2>1. Junk \in Bytes /\ <<0, 0>> \in Addresses
        BY WordsAssumption DEF Bytes, Addresses
    <2>2. 0 \in 0 .. BlockSize /\ 0 \in 0 .. ACTION_RETRIES /\ 0 \in 0 .. Pace /\ 0 \in Words
        BY WordsAssumption, BlockSizeAssumption, RetriesAssumption DEF Pace
    <2>3. ram \in [0 .. BlockSize - 1 -> Bytes]
        BY <2>1 DEF Init
    <2> QED
        BY <2>1, <2>2, <2>3 DEF Init, TypeOK
<1>2. ControllerInv /\ ResetInv /\ StartInv /\ RestInv /\ ByteInv
    BY DEF Init, ControllerInv, ResetInv, StartInv, RestInv, ByteInv, ByteStates, Pace, Receiving
<1>3. LibraryInv
    BY DEF Init, LibraryInv
<1> QED
    BY <1>1, <1>2, <1>3 DEF IInv

(* A clock edge keeps the invariant.                                       *)
LEMMA ClockInv == ASSUME IInv, Clock PROVE IInv'
BY TypeStep, ControllerClock, ResetStep, StartStep, RestStep, ByteStep, LibraryClock DEF IInv

(* At an access of the CPU the reset of the registers and the command      *)
(* register are over, so that the two bits of the status register can be   *)
(* trusted.                                                                *)
LEMMA AtAccess ==
    ASSUME TypeOK, ResetInv, StartInv, RestInv, pace = Pace
    PROVE  /\ sd_state # "sds_reset" /\ ~cmd_read
           /\ is_error => Broken
           /\ ~is_error /\ ~is_busy => Quiet
<1>1. sd_state # "sds_reset" /\ ~cmd_read
    BY DEF ResetInv, Pace
<1>2. ASSUME is_error
      PROVE  Broken
    <2>1. ~sd_sync_reset
        BY <1>1, <1>2 DEF is_error, ResetInv
    <2>2. sd_error /\ sd_state # "sds_error" => sd_state \in ByteStates \cup {"sds_busy"}
        BY <1>1 DEF StartInv, RestInv, TypeOK, ByteStates
    <2> QED
        BY <1>2, <2>1, <2>2 DEF is_error, Broken
<1>3. ~is_error /\ ~is_busy => Quiet
    BY <1>1 DEF is_busy, Quiet
<1> QED
    BY <1>1, <1>2, <1>3

(* A broken transfer shows in the error bit.                               *)
LEMMA BrokenIsError == Broken => is_error
BY DEF Broken, is_error

(* A call and a timeout touch no register.                                 *)
LEMMA CallInv == ASSUME IInv, CallReset \/ CallRead \/ Timeout PROVE IInv'
<1> USE DEF IInv
<1>1. UNCHANGED <<pace, registers, wrapper, controller>>
    BY DEF CallReset, CallRead, Timeout
<1> USE <1>1 DEF registers, wrapper, controller, data, command
<1>2. TypeOK'
    <2>1. request' \in Blocks \cup {NoBlock} /\ result' \in {"none", "ok", "error"}
          /\ cpu' \in {"call", "reset_cmd", "before", "after"}
        BY DEF CallReset, CallRead, Timeout, TypeOK
    <2> QED
        BY <2>1 DEF TypeOK
<1>3. ControllerInv' /\ ResetInv' /\ StartInv' /\ RestInv'
    BY DEF ControllerInv, ResetInv, StartInv, RestInv
<1>4. ByteInv'
    <2>1. \A k : Position(k)' <=> Position(k)
        BY DEF Position
    <2>2. (Waiting' <=> Waiting) /\ (Content' <=> Content)
        BY DEF Waiting, Content
    <2> QED
        BY <2>2 DEF ByteInv, Position
<1>5. LibraryInv'
    BY DEF CallReset, CallRead, Timeout, LibraryInv
<1> QED
    BY <1>2, <1>3, <1>4, <1>5

(* The write of cmd_reset, in whatever state the block is.                 *)
LEMMA WriteResetInv == ASSUME IInv, WriteReset PROVE IInv'
<1> USE DEF IInv
<1>1. /\ pace = Pace /\ pace' = 0 /\ cpu = "reset_cmd" /\ cpu' = "after"
      /\ UNCHANGED <<request, controller, ram, registers, result>>
      /\ sd_state' = "sds_reset" /\ sd_sync_reset' = FALSE /\ sd_block_read' = FALSE
      /\ sd_block_addr' = <<0, 0>> /\ current_byte' = Junk /\ buffer_ptr' = 0
    BY DEF WriteReset, Access
<1>2. ~cmd_read'
    BY <1>1, AtAccess DEF registers
<1>3. TypeOK'
    <2>1. Junk \in Bytes /\ <<0, 0>> \in Addresses /\ 0 \in 0 .. BlockSize
        BY WordsAssumption, BlockSizeAssumption DEF Bytes, Addresses
    <2>2. /\ request' = request /\ result' = result /\ ram' = ram
          /\ reg_addr_lo' = reg_addr_lo /\ reg_addr_hi' = reg_addr_hi /\ cmd_read' = cmd_read
          /\ state' = state /\ sd_busy' = sd_busy /\ sd_error' = sd_error
          /\ dout_avail' = dout_avail /\ dout' = dout /\ byte_counter' = byte_counter
          /\ corrupt' = corrupt /\ address' = address /\ original_state' = original_state
          /\ state_retry_count' = state_retry_count
        BY <1>1 DEF registers, controller, data, command
    <2>3. pace' \in 0 .. Pace
        BY <1>1 DEF Pace
    <2>4. /\ cpu' = "after" /\ sd_state' = "sds_reset" /\ sd_sync_reset' = FALSE
          /\ sd_block_read' = FALSE /\ sd_block_addr' = <<0, 0>> /\ current_byte' = Junk
          /\ buffer_ptr' = 0
        BY <1>1
    <2>5. sd_sync_reset' \in BOOLEAN /\ sd_block_read' \in BOOLEAN /\ cmd_read' \in BOOLEAN
        BY <2>2, <2>4 DEF TypeOK
    <2>6. /\ sd_busy' \in BOOLEAN /\ sd_error' \in BOOLEAN /\ dout_avail' \in BOOLEAN
          /\ corrupt' \in BOOLEAN /\ dout' \in Bytes /\ address' \in Addresses
          /\ byte_counter' \in 0 .. BlockSize /\ state_retry_count' \in 0 .. ACTION_RETRIES
        BY <2>2 DEF TypeOK
    <2>7. ram' \in [0 .. BlockSize - 1 -> Bytes]
        BY <2>2 DEF TypeOK
    <2>8. /\ sd_block_addr' \in Addresses /\ current_byte' \in Bytes
          /\ buffer_ptr' \in 0 .. BlockSize
        BY <2>1, <2>4, Zenon
    <2> QED
        BY <2>2, <2>3, <2>4, <2>5, <2>6, <2>7, <2>8 DEF TypeOK
<1>4. ControllerInv'
    BY <1>1 DEF ControllerInv, controller, data, command
<1>5. ResetInv' /\ StartInv' /\ RestInv' /\ ByteInv'
    BY <1>1, <1>2 DEF ResetInv, StartInv, RestInv, ByteInv, ByteStates, Pace
<1>6. LibraryInv'
    BY <1>1 DEF LibraryInv
<1> QED
    BY <1>3, <1>4, <1>5, <1>6

(* An access that leaves the state machine of sdcard.vhd alone.            *)
LEMMA AccessKeeps ==
    ASSUME TypeOK, ControllerInv, ResetInv, StartInv, RestInv, ByteInv,
           UNCHANGED <<wrapper, controller>>, pace = Pace, pace' = 0,
           ~cmd_read' \/ sd_state = "sds_idle"
    PROVE  ControllerInv' /\ ResetInv' /\ StartInv' /\ RestInv' /\ ByteInv'
<1> USE DEF wrapper, controller, data, command
<1>1. ControllerInv' /\ StartInv' /\ RestInv'
    BY DEF ControllerInv, StartInv, RestInv
<1>2. ResetInv'
    BY DEF ResetInv, Pace
<1>3. ByteInv'
    <2>1. (Waiting' <=> Waiting) /\ (Content' <=> Content)
        BY DEF Waiting, Content
    <2> QED
        BY <2>1 DEF ByteInv, Position
<1> QED
    BY <1>1, <1>2, <1>3

(* The writes of the address and of the read command come to an idle card. *)
LEMMA WriteRegistersInv == ASSUME IInv, WriteRegisters PROVE IInv'
<1> USE DEF IInv
<1>1. /\ pace = Pace /\ pace' = 0 /\ UNCHANGED <<request, result, wrapper, controller>>
      /\ cpu \in {"addr_lo", "addr_hi", "read_cmd"} /\ cpu' \in {"addr_hi", "read_cmd", "after"}
    BY DEF WriteRegisters, Access
<1>2. Quiet /\ request \in Blocks
    BY <1>1 DEF LibraryInv
<1>3. PICK w \in Words : request = <<w, w>>
    BY <1>2 DEF Blocks
<1>4. /\ reg_addr_lo' \in Words /\ reg_addr_hi' \in Words /\ cmd_read' \in BOOLEAN
    BY <1>3 DEF WriteRegisters, TypeOK
<1>5. TypeOK'
    BY <1>1, <1>4 DEF TypeOK, Pace, wrapper, controller, data, command
<1>6. ControllerInv' /\ ResetInv' /\ StartInv' /\ RestInv' /\ ByteInv'
    BY <1>1, <1>2, AccessKeeps DEF Quiet
<1>7. sd_state' = "sds_idle" /\ request' = request /\ ~sd_sync_reset'
    BY <1>1, <1>2 DEF Quiet, wrapper, ResetInv
<1>8. CASE cpu = "addr_lo"
    <2>1. cpu' = "addr_hi" /\ reg_addr_lo' = request[1] /\ cmd_read' = cmd_read
        BY <1>8 DEF WriteRegisters, Access
    <2> QED
        BY <1>1, <1>2, <1>7, <2>1, <1>5, <1>6, <1>8 DEF LibraryInv, Quiet
<1>9. CASE cpu = "addr_hi"
    <2>1. /\ cpu' = "read_cmd" /\ reg_addr_hi' = request[2] /\ cmd_read' = cmd_read
          /\ reg_addr_lo' = reg_addr_lo
        BY <1>9 DEF WriteRegisters, Access
    <2> QED
        BY <1>1, <1>2, <1>7, <2>1, <1>5, <1>6, <1>9 DEF LibraryInv, Quiet
<1>10. CASE cpu = "read_cmd"
    <2>1. /\ cpu' = "after" /\ reg_addr_hi' = reg_addr_hi /\ reg_addr_lo' = reg_addr_lo /\ cmd_read'
        BY <1>2, <1>10 DEF WriteRegisters, Access, Quiet
    <2>2. <<reg_addr_lo, reg_addr_hi>> = request
        BY <1>3, <1>10 DEF LibraryInv
    <2>3. Transfer'
        BY <1>7, <2>1, <2>2 DEF Transfer
    <2> QED
        BY <1>1, <1>7, <2>1, <2>3, <1>5, <1>6, <1>10 DEF LibraryInv
<1> QED
    BY <1>1, <1>8, <1>9, <1>10

(* The polls of SD$WAIT_BUSY and its second read for the error bit.        *)
LEMMA StatusInv == ASSUME IInv, PollBusy \/ CheckError PROVE IInv'
<1> USE DEF IInv
<1>1. /\ pace = Pace /\ pace' = 0 /\ UNCHANGED <<request, registers, wrapper, controller>>
      /\ cpu \in {"before", "after", "before_error", "after_error"}
    BY DEF PollBusy, CheckError, Access
<1>2. /\ cpu' \in {"before", "before_error", "after", "after_error", "addr_lo", "call"}
      /\ result' \in {"none", "ok", "error"}
    BY DEF PollBusy, CheckError, Access, TypeOK
<1>3. TypeOK'
    BY <1>1, <1>2 DEF TypeOK, Pace, registers, wrapper, controller, data, command
<1>4. ControllerInv' /\ ResetInv' /\ StartInv' /\ RestInv' /\ ByteInv'
    BY <1>1, AtAccess, AccessKeeps DEF registers
<1>5. /\ Quiet' <=> Quiet
      /\ Loaded' <=> Loaded
      /\ Broken' <=> Broken
      /\ Transfer' <=> Transfer
    BY <1>1 DEF Quiet, Loaded, Broken, Transfer, registers, wrapper, controller, data, command
<1>6. ~cmd_read /\ (is_error => Broken) /\ (~is_error /\ ~is_busy => Quiet)
    BY <1>1, AtAccess
<1>7. LibraryInv'
    <2>1. CASE cpu = "before"
        <3>1. cpu' = (IF is_busy THEN "before" ELSE "before_error") /\ result' = result
            BY <2>1 DEF PollBusy, CheckError, Access
        <3> QED
            BY <1>1, <1>5, <1>6, <2>1, <3>1 DEF LibraryInv
    <2>2. CASE cpu = "after"
        <3>1. cpu' = (IF is_busy THEN "after" ELSE "after_error") /\ result' = result
            BY <2>2 DEF PollBusy, CheckError, Access
        <3>2. Transfer /\ Quiet => Loaded
            BY DEF Transfer, Quiet, ByteStates
        <3> QED
            BY <1>1, <1>5, <1>6, <2>2, <3>1, <3>2 DEF LibraryInv
    <2>3. CASE cpu = "before_error"
        <3>1. \/ ~is_error /\ cpu' = "addr_lo" /\ result' = result
              \/ cpu' = "call" /\ result' = "error"
            BY <2>3 DEF PollBusy, CheckError, Access
        <3> QED
            BY <1>1, <1>5, <2>3, <3>1, BrokenIsError DEF LibraryInv
    <2>4. CASE cpu = "after_error"
        <3>1. cpu' = "call" /\ result' = IF is_error THEN "error" ELSE "ok"
            BY <2>4 DEF PollBusy, CheckError, Access
        <3> QED
            BY <1>1, <1>5, <2>4, <3>1, BrokenIsError DEF LibraryInv
    <2> QED
        BY <1>1, <2>1, <2>2, <2>3, <2>4
<1> QED
    BY <1>3, <1>4, <1>7

(* Nothing happens.                                                        *)
LEMMA StutterInv == ASSUME IInv, UNCHANGED vars PROVE IInv'
<1> USE DEF IInv, vars, library, registers, wrapper, controller, data, command
<1>1. TypeOK' /\ ControllerInv' /\ ResetInv' /\ StartInv' /\ RestInv'
    BY DEF TypeOK, ControllerInv, ResetInv, StartInv, RestInv
<1>2. ByteInv'
    <2>1. (Waiting' <=> Waiting) /\ (Content' <=> Content)
        BY DEF Waiting, Content
    <2> QED
        BY <2>1 DEF ByteInv, Position
<1>3. LibraryInv'
    BY DEF LibraryInv, Quiet, Loaded, Broken, Transfer
<1> QED
    BY <1>1, <1>2, <1>3

(* The invariant holds in every state.                                     *)
LEMMA Invariance == Spec => []IInv
<1>1. ASSUME IInv, [Next]_vars
      PROVE  IInv'
    BY <1>1, ClockInv, CallInv, WriteResetInv, WriteRegistersInv, StatusInv, StutterInv
       DEF Next, Library
<1> QED
    BY InitInv, <1>1, PTL DEF Spec

(* Every register and counter of the card keeps its range; in particular   *)
(* buffer_ptr of sdcard.vhd never leaves the buffer of the block while it  *)
(* stores a byte, and byte_counter of sd_spi.vhd never runs below 0.       *)
THEOREM SdTypeOK == Spec => []TypeOK
<1>1. IInv => TypeOK
    BY DEF IInv
<1> QED
    BY <1>1, Invariance, PTL

(* When SD$READ_BLOCK returns 0 the buffer holds the block it was asked    *)
(* for, each byte at its place, whatever commands were repeated, given up  *)
(* or reset before and whatever bytes were disturbed.                      *)
THEOREM SdReadIntact == Spec => []ReadIntact
<1>1. IInv => ReadIntact
    BY DEF IInv, LibraryInv, Loaded, ReadIntact
<1> QED
    BY <1>1, Invariance, PTL
==============================================================================
