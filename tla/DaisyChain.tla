----------------------------- MODULE DaisyChain -----------------------------
(***************************************************************************)
(* Interrupts in the hardware: the interrupt states of the CPU             *)
(* (vhdl/qnice_cpu.vhd) and a daisy chain of N timers (vhdl/timer.vhd,     *)
(* wired as in vhdl/timer_module.vhd).  Device 1 is next to the CPU.       *)
(*                                                                         *)
(* Everything is clocked: in each cycle the counters move at the falling   *)
(* edge and the state machines at the rising edge, all at once, from the   *)
(* combinational signals of that cycle.  When a counter elapses is left    *)
(* open here (module HwTimer has the counters); a device puts its own      *)
(* number on the data bus in place of its ISR address.                     *)
(***************************************************************************)
EXTENDS Integers, FiniteSets

CONSTANT N      \* number of devices in the chain
ASSUME NAssumption == N \in Nat \ {0}

Devices == 1 .. N
Program == 0            \* the PC is in the interrupted program
Software == N + 1       \* the PC is in the routine called by INT
Offsets == 0 .. 1       \* position in a routine, modulo 2

VARIABLES
    clk,            \* "high" before the falling edge of a cycle, then "low"
    State,          \* State[i] of timer i
    has_fired,
    grant_n_reg,    \* grant of timer i to its right neighbour (1: inactive)
    is_counting,    \* all three registers of timer i are non-zero
    cpu_state,
    Int_Active,
    PC, PC_org,     \* PC, and with it SP and SR, and their shadows
    we,             \* the timer whose register the CPU writes in this cycle
    requester,      \* history: the device whose request the CPU took up
    resume          \* history: the PC at which the interrupted program goes on

devices == <<State, has_fired, grant_n_reg, is_counting>>
cpu == <<cpu_state, Int_Active, PC, PC_org, we>>
vars == <<clk, State, has_fired, grant_n_reg, is_counting,
          cpu_state, Int_Active, PC, PC_org, we, requester, resume>>

Nobody == 0

Init ==
    /\ clk = "high"
    /\ State = [i \in Devices |-> "s_idle"]
    /\ has_fired = [i \in Devices |-> FALSE]
    /\ grant_n_reg = [i \in Devices |-> 1]
    /\ is_counting = [i \in Devices |-> FALSE]
    /\ cpu_state = "cs_fetch"
    /\ Int_Active = FALSE
    /\ PC = <<Program, 0>>
    /\ PC_org = <<Program, 0>>
    /\ we = Nobody
    /\ requester = Nobody
    /\ resume = <<Program, 0>>

(***************************************************************************)
(* Combinational signals of a cycle                                        *)
(***************************************************************************)
(* Mutant: the grant is revoked one state late. *)
IGRANT_N_Late ==
    IF cpu_state \in {"cs_int_wait_isr", "cs_int_jmp_isr"} /\ Int_Active THEN 0 ELSE 1

IGRANT_N == IF cpu_state = "cs_int_wait_isr" /\ Int_Active THEN 0 ELSE 1

grant_n_in(i) == IF i = 1 THEN IGRANT_N ELSE grant_n_reg[i - 1]

(* Timer i pulls int_n_out low itself.  (In s_count it does so only if     *)
(* int_n_in is high; if it is low the pass-through gives the same level.)  *)
Asserts(i) ==
    \/ State[i] = "s_signal"
    \/ State[i] = "s_count" /\ has_fired[i] /\ grant_n_in(i) = 1

(* int_n_out of timer i: pulled low by the first asserting timer at or to  *)
(* the right of i, unless one in between holds the line high.              *)
int_n_out(i) ==
    IF \E j \in i .. N : Asserts(j) /\ \A k \in i .. j - 1 : State[k] # "s_provide_isr"
    THEN 0 ELSE 1

int_n_in(i) == int_n_out(i + 1)     \* the rightmost input is tied high
INT_N == int_n_out(1)

(* The device whose request is the one that reaches the CPU. *)
Requesting(i) ==
    /\ State[i] = "s_signal" \/ (Asserts(i) /\ int_n_in(i) = 1)
    /\ \A k \in 1 .. i - 1 : State[k] \notin {"s_signal", "s_provide_isr"}

(* The timers that put their ISR address on the data bus. *)
Driving(i) == State[i] \in {"s_signal", "s_provide_isr"} /\ grant_n_in(i) = 0
Drivers == {i \in Devices : Driving(i)}

(***************************************************************************)
(* Falling edge: process count of timer.vhd.  A counting timer may elapse. *)
(***************************************************************************)
FallingEdge(elapsed) ==
    /\ clk = "high" /\ clk' = "low"
    /\ has_fired' = [i \in Devices |->
           IF we = i \/ State[i] = "s_reset" THEN FALSE
           ELSE has_fired[i] \/ (i \in elapsed /\ is_counting[i] /\ State[i] = "s_count")]
    /\ UNCHANGED <<State, grant_n_reg, is_counting, cpu, requester, resume>>

(***************************************************************************)
(* Rising edge: the state machines of the timers.                          *)
(***************************************************************************)
(* Mutant: a request of the right neighbour is ignored. *)
FiresAnyway(i) == has_fired[i] /\ grant_n_in(i) = 1

Fires(i) == has_fired[i] /\ int_n_in(i) = 1 /\ grant_n_in(i) = 1

fsmState_Next(i) ==
    CASE State[i] = "s_idle"        -> IF is_counting[i] THEN "s_count" ELSE "s_idle"
      [] State[i] = "s_count"       -> IF Fires(i) THEN "s_signal" ELSE "s_count"
      [] State[i] = "s_signal"      -> IF grant_n_in(i) = 0 THEN "s_provide_isr" ELSE "s_signal"
      [] State[i] = "s_provide_isr" -> IF grant_n_in(i) = 0 THEN "s_provide_isr" ELSE "s_reset"
      [] State[i] = "s_reset"       -> "s_idle"

(* Mutant: the right neighbour stays coupled. *)
PassGrant(i) == grant_n_in(i)

(* The right neighbour is de-coupled while timer i is in a transaction. *)
fsm_grant_n_reg(i) ==
    IF State[i] \in {"s_signal", "s_provide_isr"} \/ (State[i] = "s_count" /\ Fires(i))
    THEN 1 ELSE grant_n_in(i)

(* counting: what the register write of this cycle, if any, leaves behind. *)
TimersAdvance(counting) ==
    /\ State' = [i \in Devices |-> IF we = i THEN "s_idle" ELSE fsmState_Next(i)]
    /\ grant_n_reg' = [i \in Devices |-> IF we = i THEN 1 ELSE fsm_grant_n_reg(i)]
    /\ is_counting' = [i \in Devices |-> IF we = i THEN counting ELSE is_counting[i]]

(***************************************************************************)
(* Rising edge: the CPU.  While no interrupt is active the shadow          *)
(* registers follow the registers.                                         *)
(***************************************************************************)
Shadow == PC_org' = IF Int_Active THEN PC_org ELSE PC

(* Mutant: the PC outgrows its register. *)
SuccWide(p) == <<p[1], p[2] + 1>>

Succ(p) == <<p[1], 1 - p[2]>>

(* cs_fetch, memory not ready or no interrupt to take up *)
FetchWait ==
    /\ cpu_state = "cs_fetch"
    /\ Shadow
    /\ UNCHANGED <<cpu_state, Int_Active, PC, we, requester, resume>>

Fetch ==
    /\ cpu_state = "cs_fetch" /\ ~(~Int_Active /\ INT_N = 0)
    /\ PC' = Succ(PC)
    /\ cpu_state' = "cs_decode"
    /\ Shadow
    /\ UNCHANGED <<Int_Active, we, requester, resume>>

TakeInterrupt ==
    /\ cpu_state = "cs_fetch" /\ ~Int_Active /\ INT_N = 0
    /\ Int_Active' = TRUE
    /\ cpu_state' = "cs_int_wait_isr"
    /\ Shadow
    /\ requester' = CHOOSE i \in Devices : Requesting(i)
    /\ resume' = PC
    /\ UNCHANGED <<PC, we>>

WaitISR ==
    /\ cpu_state = "cs_int_wait_isr" /\ INT_N = 0
    /\ Shadow
    /\ UNCHANGED <<cpu_state, Int_Active, PC, we, requester, resume>>

(* DATA_IN is the wired-or of what the timers drive. *)
ReadISR ==
    /\ cpu_state = "cs_int_wait_isr" /\ INT_N = 1
    /\ \E d \in (IF Drivers = {} THEN {Nobody} ELSE Drivers) : PC' = <<d, 0>>
    /\ cpu_state' = "cs_int_jmp_isr"
    /\ Shadow
    /\ UNCHANGED <<Int_Active, we, requester, resume>>

JumpISR ==
    /\ cpu_state = "cs_int_jmp_isr"
    /\ cpu_state' = "cs_fetch"
    /\ requester' = Nobody
    /\ Shadow
    /\ UNCHANGED <<Int_Active, PC, we, resume>>

(* cs_decode, one action per kind of instruction *)
DecodeHalt ==
    /\ cpu_state = "cs_decode"
    /\ cpu_state' = "cs_halt"
    /\ Shadow
    /\ UNCHANGED <<Int_Active, PC, we, requester, resume>>

DecodeRTI ==
    /\ cpu_state = "cs_decode"
    /\ IF Int_Active
       THEN /\ Int_Active' = FALSE
            /\ PC' = PC_org
            /\ cpu_state' = "cs_fetch"
       ELSE /\ cpu_state' = "cs_halt"           \* rogue RTI
            /\ UNCHANGED <<Int_Active, PC>>
    /\ Shadow
    /\ UNCHANGED <<we, requester, resume>>

(* INT R; INT @R, INT @R++ and INT @--R with R other than R15; and INT     *)
(* @R15++, which is how the assembler writes INT <address>: there the      *)
(* shadow PC steps over the operand together with the PC.  INT @--R15,     *)
(* where both step back, is the same modulo 2.                             *)
DecodeINTDirect ==
    /\ cpu_state = "cs_decode" /\ ~Int_Active
    /\ Int_Active' = TRUE
    /\ cpu_state' = "cs_fetch"
    /\ PC' = <<Software, 0>>
    /\ resume' = PC
    /\ Shadow
    /\ UNCHANGED <<we, requester>>

DecodeINTIndirect ==
    /\ cpu_state = "cs_decode" /\ ~Int_Active
    /\ Int_Active' = TRUE
    /\ cpu_state' = "cs_int_indirect_isr"
    /\ resume' = PC
    /\ Shadow
    /\ UNCHANGED <<PC, we, requester>>

(* Mutant: the shadow PC is left before the operand. *)
DecodeINTOperandStale ==
    /\ cpu_state = "cs_decode" /\ ~Int_Active
    /\ Int_Active' = TRUE
    /\ cpu_state' = "cs_int_indirect_isr"
    /\ PC' = Succ(PC)
    /\ PC_org' = PC
    /\ resume' = Succ(PC)
    /\ UNCHANGED <<we, requester>>

DecodeINTOperand ==
    /\ cpu_state = "cs_decode" /\ ~Int_Active
    /\ Int_Active' = TRUE
    /\ cpu_state' = "cs_int_indirect_isr"
    /\ PC' = Succ(PC)
    /\ PC_org' = Succ(PC)
    /\ resume' = Succ(PC)
    /\ UNCHANGED <<we, requester>>

RogueINT ==
    /\ cpu_state = "cs_decode" /\ Int_Active
    /\ cpu_state' = "cs_halt"
    /\ Shadow
    /\ UNCHANGED <<Int_Active, PC, we, requester, resume>>

(* INCRB, DECRB *)
DecodeBank ==
    /\ cpu_state = "cs_decode"
    /\ cpu_state' = "cs_fetch"
    /\ Shadow
    /\ UNCHANGED <<Int_Active, PC, we, requester, resume>>

IndirectISR ==
    /\ cpu_state = "cs_int_indirect_isr"
    /\ PC' = <<Software, 0>>
    /\ cpu_state' = "cs_fetch"
    /\ Shadow
    /\ UNCHANGED <<Int_Active, we, requester, resume>>

(* The cycles of any other instruction: operands are fetched, with wait    *)
(* states, and the program branches anywhere within its routine.           *)
InnerStates == {"cs_exeprep_get_src_indirect", "cs_exeprep_get_dst_indirect",
                "cs_execute", "cs_exepost_sub"}

Following(s) ==
    CASE s = "cs_decode" -> {"cs_exeprep_get_src_indirect", "cs_exeprep_get_dst_indirect", "cs_execute"}
      [] s = "cs_exeprep_get_src_indirect" -> {s, "cs_exeprep_get_dst_indirect", "cs_execute"}
      [] s = "cs_exeprep_get_dst_indirect" -> {s, "cs_execute"}
      [] s = "cs_execute" -> {"cs_fetch"}
      [] s = "cs_exepost_sub" -> {"cs_fetch"}

Instruction(next, offset) ==
    /\ cpu_state \in InnerStates \cup {"cs_decode"}
    /\ next \in Following(cpu_state)
    /\ cpu_state' = next
    /\ PC' = <<PC[1], offset>>
    /\ we' = Nobody
    /\ Shadow
    /\ UNCHANGED <<Int_Active, requester, resume>>

(* ASUB, RSUB: the return address goes to where the SP points, which may   *)
(* be a register of timer i.                                               *)
ExecutePush(i) ==
    /\ cpu_state = "cs_execute"
    /\ cpu_state' = "cs_exepost_sub"
    /\ we' = i
    /\ Shadow
    /\ UNCHANGED <<Int_Active, PC, requester, resume>>

(* The instruction stores into memory, or into a register of timer i. *)
ExecuteStore(i) ==
    /\ cpu_state = "cs_execute"
    /\ cpu_state' = "cs_exepost_store_dst_indirect"
    /\ we' = i
    /\ Shadow
    /\ UNCHANGED <<Int_Active, PC, requester, resume>>

StoreWait ==
    /\ cpu_state = "cs_exepost_store_dst_indirect"
    /\ Shadow
    /\ UNCHANGED <<cpu_state, Int_Active, PC, we, requester, resume>>

(* with the post-increment of the destination, which may be R15 *)
Store(offset) ==
    /\ cpu_state = "cs_exepost_store_dst_indirect"
    /\ cpu_state' = "cs_fetch"
    /\ we' = Nobody
    /\ PC' = <<PC[1], offset>>
    /\ Shadow
    /\ UNCHANGED <<Int_Active, requester, resume>>

Halted ==
    /\ cpu_state = "cs_halt"
    /\ Shadow
    /\ UNCHANGED <<cpu_state, Int_Active, PC, we, requester, resume>>

CPUAdvance ==
    \/ FetchWait \/ Fetch \/ TakeInterrupt
    \/ WaitISR \/ ReadISR \/ JumpISR
    \/ DecodeHalt \/ DecodeRTI
    \/ DecodeINTDirect \/ DecodeINTIndirect \/ DecodeINTOperand \/ RogueINT \/ IndirectISR
    \/ DecodeBank
    \/ \E next \in InnerStates \cup {"cs_fetch"}, o \in Offsets : Instruction(next, o)
    \/ \E i \in Devices \cup {Nobody} : ExecutePush(i) \/ ExecuteStore(i)
    \/ StoreWait \/ \E o \in Offsets : Store(o)
    \/ Halted

RisingEdge ==
    /\ clk = "low" /\ clk' = "high"
    /\ CPUAdvance
    /\ \E c \in BOOLEAN : TimersAdvance(c)
    /\ UNCHANGED has_fired

Next ==
    \/ \E elapsed \in SUBSET Devices : FallingEdge(elapsed)
    \/ RisingEdge

Spec == Init /\ [][Next]_vars

(* The clock ticks, no wait state lasts forever, and every routine ends in *)
(* RTI.                                                                    *)
LiveSpec ==
    /\ Spec
    /\ WF_vars(Next)
    /\ SF_vars(RisingEdge /\ cpu_state' # cpu_state)
    /\ SF_vars(RisingEdge /\ DecodeRTI /\ Int_Active)

-----------------------------------------------------------------------------
TimerStates == {"s_idle", "s_count", "s_signal", "s_provide_isr", "s_reset"}
CpuStates == InnerStates \cup
    {"cs_fetch", "cs_decode", "cs_exepost_store_dst_indirect", "cs_int_wait_isr",
     "cs_int_jmp_isr", "cs_int_indirect_isr", "cs_halt"}

TypeOK ==
    /\ clk \in {"high", "low"}
    /\ State \in [Devices -> TimerStates]
    /\ has_fired \in [Devices -> BOOLEAN]
    /\ grant_n_reg \in [Devices -> 0 .. 1]
    /\ is_counting \in [Devices -> BOOLEAN]
    /\ cpu_state \in CpuStates
    /\ Int_Active \in BOOLEAN
    /\ PC \in (0 .. N + 1) \X Offsets
    /\ PC_org \in (0 .. N + 1) \X Offsets
    /\ we \in Devices \cup {Nobody}
    /\ requester \in Devices \cup {Nobody}
    /\ resume \in (0 .. N + 1) \X Offsets

(* The CPU jumps to the routine of the very device whose request it took   *)
(* up: no device to the left cuts in, nobody else is on the bus when the   *)
(* address is read, and the bus is never empty.                            *)
GrantReachesRequester ==
    cpu_state = "cs_int_wait_isr" /\ INT_N = 1 /\ clk = "low" => Drivers = {requester}

(* One device at a time answers a grant. *)
OneDriver == Cardinality(Drivers) <= 1

(* The grant travels one device per cycle, so a device at the end of a     *)
(* long chain sees it revoked late.  The two timers of timer_module.vhd,   *)
(* next to the CPU, are off the data bus before the CPU uses it for        *)
(* anything else than the ISR address.                                     *)
BusReleased ==
    \A i \in Drivers : i <= 2 => cpu_state \in {"cs_int_wait_isr", "cs_int_jmp_isr"}

(* RTI resumes exactly where the program was interrupted, by a device or   *)
(* by INT, and interrupts do not nest.                                     *)
ResumesExactly ==
    /\ Int_Active => PC_org = resume /\ resume[1] = Program
    /\ ~Int_Active => PC[1] = Program

(* Every timer that has elapsed is served, or its registers are written,   *)
(* or the CPU halts: neither neighbour can starve it.                      *)
Served ==
    \A i \in Devices :
        (has_fired[i] /\ State[i] \in {"s_count", "s_signal"}) ~>
            (PC[1] = i \/ we = i \/ cpu_state = "cs_halt")
=============================================================================
