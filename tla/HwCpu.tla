------------------------------- MODULE HwCpu -------------------------------
(***************************************************************************)
(* The hardware CPU (vhdl/qnice_cpu.vhd with alu.vhd, alu_shifter.vhd and  *)
(* register_file.vhd) executing one instruction, clock cycle by clock      *)
(* cycle, next to what the emulator (module Isa) makes of it.              *)
(*                                                                         *)
(* The CPU is a record of its registers, named as in the VHDL.  What a     *)
(* cycle decides is clocked in at the rising edge.  The register file and  *)
(* the RAM are written at the falling edge in the middle of the next       *)
(* cycle: Settled is the CPU after that falling edge, which is what the    *)
(* combinational logic of the cycle ends up seeing.                        *)
(***************************************************************************)
EXTENDS Isa

CONSTANT Starts     \* families of machine states (sets of states of module Isa)
ASSUME StartsAssumption == \A family \in Starts : \A s \in family : IsState(s)

VARIABLES
    cpu,
    before,     \* history: the machine state in which the instruction began
    fetched     \* history: the instruction was fetched

vars == <<cpu, before, fetched>>

amDirect == 0
amIndirect == 1
amIndirPostInc == 2
amIndirPreDec == 3
opcMOVE == 0
opcSHL == 5
opcSHR == 6
opcSWAP == 7
opcCMP == 12
opcCTRL == 14
opcBRA == 15

NoWrite == <<0, 0>>
NoDPI == <<0, 0>>
Special(r) == r \in {13, 14, 15}

InitialCPU(s) ==
    [cpu_state |-> "cs_fetch",
     SP |-> read_register(s, 13), SR |-> read_register(s, 14), PC |-> read_register(s, 15),
     reg |-> s.reg, mem |-> s.mem,
     ADDR_Bus |-> read_register(s, 15), DATA_To_Bus |-> 0, DATA_VALID |-> FALSE,
     Instruction |-> 0, Src_Value |-> 0, Dst_Value |-> 0,
     Delayed_PostInc |-> FALSE, DPI |-> NoDPI,              \* register and value
     reg_write_en |-> FALSE, reg_write |-> NoWrite]         \* register and value

Init ==
    /\ \E family \in Starts : before \in family
    /\ cpu = InitialCPU(before)
    /\ fetched = FALSE

(***************************************************************************)
(* Register file and memory                                                *)
(***************************************************************************)
Window(c, r) == IF r >= 8 THEN r ELSE r + 16 * (c.SR \div 256)

Settled(c) ==
    [c EXCEPT
        !.reg = IF c.reg_write_en THEN Put(@, Window(c, c.reg_write[1]), c.reg_write[2]) ELSE @,
        !.mem = IF c.DATA_VALID THEN Put(@, c.ADDR_Bus, c.DATA_To_Bus) ELSE @]

DATA_IN(c) == MemCell(c, c.ADDR_Bus)

reg_read_data(c, r) ==
    CASE r = 13 -> c.SP
      [] r = 14 -> c.SR
      [] r = 15 -> c.PC
      [] OTHER  -> RegCell(c, Window(c, r))

Data1(c) == reg_read_data(c, SrcReg(c.Instruction))
Data2(c) == reg_read_data(c, DstReg(c.Instruction))

(* SP, SR and PC are registers of the CPU, the others go through the one   *)
(* write port of the register file.                                        *)
fsm_write(c, r, v) ==
    CASE r = 13 -> [c EXCEPT !.SP = v]
      [] r = 14 -> [c EXCEPT !.SR = SetBit(v, 0, 1)]
      [] r = 15 -> [c EXCEPT !.PC = v]
      [] OTHER  -> [c EXCEPT !.reg_write_en = TRUE, !.reg_write = <<r, v>>]

(* The outputs of a cycle start from these defaults. *)
Defaults(c) == [Settled(c) EXCEPT !.reg_write_en = FALSE, !.DATA_VALID = FALSE, !.DATA_To_Bus = 0]

(***************************************************************************)
(* ALU: input1 is the source, input2 the destination                       *)
(***************************************************************************)
(* The case tables of alu_shifter.vhd: bits 15 .. n come from the operand, *)
(* the others are the fill bit.                                            *)
ShiftedLeft(n, d, x) == IF n > 15 THEN 65535 * x ELSE Wrap(d * 2^n) + x * (2^n - 1)
ShiftedRight(n, d, c) == IF n > 15 THEN 65535 * c ELSE d \div 2^n + c * (65536 - 2^(16 - n))
LeftOut(n, d, c, x) == IF n = 0 THEN c ELSE IF n <= 16 THEN Bit(d, 16 - n) ELSE x
RightOut(n, d, c, x) == IF n = 0 THEN x ELSE IF n <= 16 THEN Bit(d, n - 1) ELSE c

AluRes(op, in1, in2, c, x) ==
    CASE op \in {0, 7, 8} -> Unary(op, in1)
      [] op \in {1, 2, 3, 4, 9, 10, 11} -> Binary(op, in2, in1, c)
      [] op = opcSHL -> ShiftedLeft(in1, in2, x)
      [] op = opcSHR -> ShiftedRight(in1, in2, c)
      [] op = opcCMP -> in2
      [] OTHER -> 0

AluV(op, in1, in2, res) ==
    IF op = opcCMP THEN Bool(Signed(in1) > Signed(in2))
    ELSE Bool(Bit(in1, 15) = Bit(in2, 15) /\ Bit(res, 15) # Bit(in1, 15))

(* The status register that cs_execute computes from the ALU's flags. *)
FlagsOf(op, in1, in2, sr) ==
    LET c == Bit(sr, 2)
        x == Bit(sr, 1)
        res == AluRes(op, in1, in2, c, x)
        X == IF op \in {opcSHL, opcCMP} THEN x
             ELSE IF op = opcSHR THEN RightOut(in1, in2, c, x)
             ELSE Bool(Wrap(res) = 65535)
        C == IF op = opcSHL THEN LeftOut(in1, in2, c, x)
             ELSE IF op \in 1 .. 4 THEN Bit(res, 16) ELSE c
        Z == IF op = opcCMP THEN Bool(in1 = in2) ELSE Bool(Wrap(res) = 0)
        N == IF op = opcCMP THEN Bool(in1 > in2) ELSE Bit(res, 15)
        V == IF op \in (1 .. 4) \cup {opcCMP} THEN AluV(op, in1, in2, res) ELSE Bit(sr, 5)
    IN  (sr \div 256) * 256 + 32 * V + 16 * N + 8 * Z + 4 * C + 2 * X + 1

(***************************************************************************)
(* cs_fetch, cs_decode                                                     *)
(***************************************************************************)
Goto(c, s) == [c EXCEPT !.cpu_state = s]

Fetch(c) ==
    [Defaults(c) EXCEPT !.Instruction = DATA_IN(Settled(c)), !.PC = Wrap(@ + 1), !.cpu_state = "cs_decode"]

(* A MOVE does not read its destination. *)
NeedsDst(i) ==
    /\ Opcode(i) # opcBRA /\ DstMode(i) # amDirect
    /\ Opcode(i) # opcMOVE \/ DstMode(i) = amIndirPreDec

(* INCRB, DECRB; HALT, RTI outside an interrupt, illegal commands.         *)
Control(c) ==
    LET bank(d) == Wrap(c.SR + 256 * d)
    IN  CASE Command(c.Instruction) = 3 -> [Goto(c, "cs_fetch") EXCEPT !.SR = bank(1), !.ADDR_Bus = c.PC]
          [] Command(c.Instruction) = 4 -> [Goto(c, "cs_fetch") EXCEPT !.SR = bank(-1), !.ADDR_Bus = c.PC]
          [] OTHER -> Goto(c, "cs_halt")

Decode(c0) ==
    LET c == Defaults(c0)
        i == c.Instruction
        d == [c EXCEPT !.Src_Value = Data1(c), !.Dst_Value = Data2(c)]
        src == [Goto(d, "cs_exeprep_get_src_indirect") EXCEPT !.ADDR_Bus = Data1(c)]
        dst == [Goto(d, "cs_exeprep_get_dst_indirect") EXCEPT !.ADDR_Bus = Data2(c)]
    IN  IF Opcode(i) = opcCTRL THEN Control(d)
        ELSE IF SrcMode(i) = amIndirPreDec
        THEN fsm_write([src EXCEPT !.ADDR_Bus = Wrap(@ - 1),
                                   !.Dst_Value = IF DstReg(i) = SrcReg(i) THEN Wrap(Data1(c) - 1) ELSE @],
                       SrcReg(i), Wrap(Data1(c) - 1))
        ELSE IF SrcMode(i) # amDirect THEN src
        ELSE IF NeedsDst(i) /\ DstMode(i) = amIndirPreDec
        THEN fsm_write([dst EXCEPT !.ADDR_Bus = Wrap(@ - 1)], DstReg(i), Wrap(Data2(c) - 1))
        ELSE IF NeedsDst(i) THEN dst
        ELSE Goto(d, "cs_execute")

(***************************************************************************)
(* cs_exeprep_get_src_indirect, cs_exeprep_get_dst_indirect                *)
(***************************************************************************)
(* The opcodes whose ALU input is the post-incremented register. *)
Calculates(op) == op \notin {opcMOVE, opcSWAP, opcBRA, opcCTRL, opcCMP}

(* Mutant: the ALU sees the register before the increment. *)
NoForward(c) == FALSE

ForwardsDst(c) ==
    LET i == c.Instruction
    IN  SrcReg(i) = DstReg(i) /\ SrcReg(i) < 13 /\ Calculates(Opcode(i))

(* The destination is pre-decremented in the cycle in which the source is  *)
(* post-incremented, and both need the write port: the increment waits.    *)
Delays(i) ==
    /\ SrcMode(i) = amIndirPostInc /\ SrcReg(i) < 13
    /\ DstMode(i) = amIndirPreDec /\ DstReg(i) < 13

GetSrc(c0) ==
    LET c == Defaults(c0)
        i == c.Instruction
        inc == SrcMode(i) = amIndirPostInc
        old == IF Special(SrcReg(i)) THEN Data1(c) ELSE c.Src_Value
        varResult == IF inc THEN Wrap(old + 1) ELSE Data2(c)
        a == [c EXCEPT !.Src_Value = DATA_IN(c),
                       !.Dst_Value = IF inc /\ ForwardsDst(c) THEN varResult ELSE @]
        b == IF inc THEN fsm_write(a, SrcReg(i), varResult) ELSE a
        d == Goto(b, "cs_exeprep_get_dst_indirect")
    IN  IF ~NeedsDst(i) THEN Goto(b, "cs_execute")
        ELSE IF DstMode(i) # amIndirPreDec
        THEN [d EXCEPT !.ADDR_Bus = IF DstReg(i) = SrcReg(i) THEN varResult ELSE Data2(c)]
        ELSE fsm_write(
            [d EXCEPT !.ADDR_Bus = IF Delays(i) /\ SrcReg(i) = DstReg(i) THEN Data2(c)
                                   ELSE Wrap(Data2(c) - 1),
                      !.Delayed_PostInc = Delays(i) \/ @,
                      !.DPI = IF Delays(i)
                              THEN <<SrcReg(i), IF SrcReg(i) = DstReg(i) THEN c.Dst_Value ELSE varResult>>
                              ELSE @],
            DstReg(i), Wrap((IF Special(DstReg(i)) THEN Data2(c) ELSE c.Dst_Value) - 1))

(* Mutant: the delayed increment is done again by later instructions. *)
GetDstKeepsDelayed(c0) ==
    LET c == Defaults(c0)
        d == [Goto(c, "cs_execute") EXCEPT !.Dst_Value = DATA_IN(c)]
    IN  IF c.Delayed_PostInc THEN fsm_write(d, c.DPI[1], c.DPI[2]) ELSE d

GetDst(c0) ==
    LET c == Defaults(c0)
        d == [Goto(c, "cs_execute") EXCEPT !.Dst_Value = DATA_IN(c)]
    IN  IF c.Delayed_PostInc
        THEN fsm_write([d EXCEPT !.Delayed_PostInc = FALSE], c.DPI[1], c.DPI[2])
        ELSE d

(***************************************************************************)
(* cs_execute                                                              *)
(***************************************************************************)
Branch(c) ==
    LET i == c.Instruction
        mode == (i \div 16) % 4
        target == IF mode < 2 THEN c.Src_Value ELSE Wrap(c.PC + c.Src_Value)
        taken == Bit(c.SR, i % 8) # Bit(i, 3)
    IN  CASE ~taken -> [Goto(c, "cs_fetch") EXCEPT !.ADDR_Bus = c.PC]
          [] taken /\ mode \in {0, 2} ->
                 [Goto(c, "cs_fetch") EXCEPT !.PC = target, !.ADDR_Bus = target]
          [] OTHER ->
                 [Goto(c, "cs_exepost_sub") EXCEPT
                     !.SP = Wrap(@ - 1), !.ADDR_Bus = Wrap(c.SP - 1),
                     !.DATA_To_Bus = c.PC, !.DATA_VALID = TRUE]

Execute(c0) ==
    LET c == Defaults(c0)
        i == c.Instruction
        op == Opcode(i)
        r == DstReg(i)
        res == Wrap(AluRes(op, c.Src_Value, c.Dst_Value, Bit(c.SR, 2), Bit(c.SR, 1)))
        f == [c EXCEPT !.SR = FlagsOf(op, c.Src_Value, c.Dst_Value, c.SR)]
        direct == [Goto(f, "cs_fetch") EXCEPT !.ADDR_Bus = IF r = 15 THEN res ELSE c.PC]
        indirect == Goto(f, "cs_exepost_store_dst_indirect")
    IN  IF op = opcBRA THEN Branch(c)
        ELSE IF DstMode(i) = amDirect
        THEN IF r = 14 /\ op = opcCMP THEN direct ELSE fsm_write(direct, r, res)
        ELSE IF op = opcCMP THEN indirect
        ELSE [indirect EXCEPT !.ADDR_Bus = Data2(c), !.DATA_To_Bus = res, !.DATA_VALID = TRUE]

(***************************************************************************)
(* cs_exepost_store_dst_indirect, cs_exepost_sub                           *)
(***************************************************************************)
(* Mutant: an incremented PC does not get to the address bus. *)
StoreOldPC(c0) ==
    LET c == Defaults(c0)
        r == DstReg(c.Instruction)
        d == IF DstMode(c.Instruction) = amIndirPostInc THEN fsm_write(c, r, Wrap(Data2(c) + 1)) ELSE c
    IN  [Goto(d, "cs_fetch") EXCEPT !.ADDR_Bus = c.PC]

Store(c0) ==
    LET c == Defaults(c0)
        r == DstReg(c.Instruction)
        d == IF DstMode(c.Instruction) = amIndirPostInc THEN fsm_write(c, r, Wrap(Data2(c) + 1)) ELSE c
    IN  [Goto(d, "cs_fetch") EXCEPT !.ADDR_Bus = d.PC]

Sub(c0) ==
    LET c == Defaults(c0)
        target == IF (c.Instruction \div 16) % 4 = 1 THEN c.Src_Value ELSE Wrap(c.PC + c.Src_Value)
    IN  [Goto(c, "cs_fetch") EXCEPT !.PC = target, !.ADDR_Bus = target]

(* WAIT_FOR_DATA: the state is repeated, a store keeps its data on the bus.*)
WaitStates == {"cs_fetch", "cs_exeprep_get_src_indirect", "cs_exeprep_get_dst_indirect",
               "cs_exepost_store_dst_indirect"}

Waiting(c) ==
    IF c.cpu_state = "cs_exepost_store_dst_indirect" /\ Opcode(c.Instruction) # opcCMP
    THEN [Defaults(c) EXCEPT !.DATA_To_Bus = c.DATA_To_Bus, !.DATA_VALID = TRUE]
    ELSE Defaults(c)

-----------------------------------------------------------------------------
Step(state, result) ==
    /\ cpu.cpu_state = state
    /\ cpu' = result
    /\ UNCHANGED <<before, fetched>>

FetchStep ==
    /\ cpu.cpu_state = "cs_fetch" /\ ~fetched
    /\ cpu' = Fetch(cpu)
    /\ fetched' = TRUE
    /\ UNCHANGED before

Wait ==
    /\ cpu.cpu_state \in WaitStates
    /\ cpu.cpu_state = "cs_fetch" => ~fetched
    /\ cpu' = Waiting(cpu)
    /\ UNCHANGED <<before, fetched>>

Advance ==
    \/ FetchStep
    \/ Step("cs_decode", Decode(cpu))
    \/ Step("cs_exeprep_get_src_indirect", GetSrc(cpu))
    \/ Step("cs_exeprep_get_dst_indirect", GetDst(cpu))
    \/ Step("cs_execute", Execute(cpu))
    \/ Step("cs_exepost_store_dst_indirect", Store(cpu))
    \/ Step("cs_exepost_sub", Sub(cpu))

Done == fetched /\ cpu.cpu_state \in {"cs_fetch", "cs_halt"}
Rest == Done /\ UNCHANGED vars

Next == Advance \/ Wait \/ Rest

Spec == Init /\ [][Next]_vars

-----------------------------------------------------------------------------
(* The next instruction is fetched from where the PC points: each of the   *)
(* paths through the state machine leaves the new PC on the address bus,   *)
(* also when an operand just changed R15.                                  *)
FetchesAtPC == cpu.cpu_state = "cs_fetch" => cpu.ADDR_Bus = cpu.PC

(* An instruction leaves nothing to the next one: no increment is still    *)
(* delayed and no store is still on the bus.                               *)
NothingPending == Done => ~cpu.Delayed_PostInc /\ ~cpu.DATA_VALID

(* The machine state that the program sees. *)
Visible(c) ==
    LET s == Settled(c)
    IN  [reg |-> Put(Put(Put(s.reg, 13, s.SP), 14, s.SR), 15, s.PC), mem |-> s.mem]

(* Bit 0 of the status register always reads 1, bits 6 and 7 are not used. *)
Used(k, v) == IF k = SR THEN SetBit(v - 64 * ((v \div 64) % 4), 0, 1) ELSE v

SameState(s, t) ==
    /\ \A k \in DOMAIN s.reg \cup DOMAIN t.reg : Used(k, RegCell(s, k)) = Used(k, RegCell(t, k))
    /\ \A a \in DOMAIN s.mem \cup DOMAIN t.mem : MemCell(s, a) = MemCell(t, a)

(* Instructions on which the two are known to differ:                      *)
(* the status register as a pointer, or shifted,                           *)
UsesSRTwice(i) ==
    \/ SrcReg(i) = SR /\ SrcMode(i) # amDirect
    \/ Opcode(i) \in 0 .. 12 /\ DstReg(i) = SR
        /\ (DstMode(i) # amDirect \/ Opcode(i) \in {opcSHL, opcSHR})

(* a shift of an operand that moves its pointer (the emulator decrements   *)
(* it twice, and does not increment it when the count is 0),               *)
ShiftsAndMoves(i) ==
    Opcode(i) \in {opcSHL, opcSHR} /\ DstMode(i) \in {amIndirPostInc, amIndirPreDec}

(* a source that increments the register that is the destination, too,     *)
IncrementsDst(i) ==
    /\ Opcode(i) \in 0 .. 12
    /\ SrcMode(i) = amIndirPostInc /\ SrcReg(i) = DstReg(i)
    /\ \/ DstMode(i) = amDirect /\ SrcReg(i) \in {SP, PC} /\ Calculates(Opcode(i))
       \/ DstMode(i) = amDirect /\ Opcode(i) = opcCMP
       \/ DstMode(i) = amIndirPreDec /\ SrcReg(i) \in {SP, PC}

(* the reserved opcode and commands, which halt one of the two only (INT,  *)
(* the command 2, is in EmuInterrupts and DaisyChain).                     *)
Reserved(i) ==
    Opcode(i) = 13 \/ (Opcode(i) = opcCTRL /\ Command(i) \notin {0, 1, 3, 4})

Differ(i) == UsesSRTwice(i) \/ ShiftsAndMoves(i) \/ IncrementsDst(i) \/ Reserved(i)

(* Hardware and emulator are the same machine: but for the instructions    *)
(* above, registers, flags and memory after the last cycle are those that  *)
(* execute() computes, and the CPU halts when the emulator does.           *)
AgreesWithEmulator ==
    Done /\ ~Differ(cpu.Instruction) =>
        LET e == execute(before)
        IN  (cpu.cpu_state = "cs_halt") = e.halt /\ SameState(Visible(cpu), e.s)
=============================================================================
