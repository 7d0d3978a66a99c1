------------------------------ MODULE HwTimer ------------------------------
(***************************************************************************)
(* One hardware timer (vhdl/timer.vhd) with its counters: the CPU writes   *)
(* its registers at any cycle, the chain grants its interrupts at any      *)
(* later cycle.  The counters move at the falling edge of the clock, the   *)
(* registers and the state machine at the rising edge.                     *)
(***************************************************************************)
EXTENDS Integers

CONSTANTS
    MaxWord,                \* largest value of a register (0xFFFF)
    FREQ_DIV_SYS_TARGET     \* system clock cycles per cycle of the timer clock

ASSUME WordAssumption == MaxWord \in Nat \ {0}
ASSUME FreqAssumption == FREQ_DIV_SYS_TARGET \in Nat \ {0}

Word == 0 .. MaxWord
NoWrite == [reg |-> "none", val |-> 0]
Writes == [reg : {"PRE", "CNT", "INT"}, val : Word]

VARIABLES
    clk,
    write,                          \* register write on the bus in this cycle
    reg_pre, reg_cnt, reg_int,
    counter_pre, counter_cnt, freq_div_cnt,
    has_fired,
    State,
    elapsed,    \* history: cycles counted since the last write or reload
    loaded      \* history: counting began with counters equal to the registers

registers == <<reg_pre, reg_cnt, reg_int>>
counters == <<counter_pre, counter_cnt, freq_div_cnt, has_fired>>
vars == <<clk, write, reg_pre, reg_cnt, reg_int, counter_pre, counter_cnt,
          freq_div_cnt, has_fired, State, elapsed, loaded>>

is_counting == reg_int # 0 /\ reg_pre # 0 /\ reg_cnt # 0

(* reset of the entity *)
Init ==
    /\ clk = "high"
    /\ write \in Writes \cup {NoWrite}
    /\ reg_pre = 0 /\ reg_cnt = 0 /\ reg_int = 0
    /\ counter_pre = 0 /\ counter_cnt = 0
    /\ freq_div_cnt = FREQ_DIV_SYS_TARGET
    /\ has_fired = FALSE
    /\ State = "s_idle"
    /\ elapsed = 0
    /\ loaded = TRUE

(***************************************************************************)
(* Falling edge: process count                                             *)
(***************************************************************************)
Fall == clk = "high" /\ clk' = "low" /\ UNCHANGED <<write, registers, State>>

(* new_timer_vals *)
NewTimerVals ==
    /\ Fall /\ write # NoWrite
    /\ has_fired' = FALSE
    /\ counter_pre' = IF write.reg = "PRE" THEN write.val ELSE counter_pre
    /\ counter_cnt' = IF write.reg = "CNT" THEN write.val ELSE counter_cnt
    /\ freq_div_cnt' = FREQ_DIV_SYS_TARGET
    /\ elapsed' = 0
    /\ loaded' = /\ counter_pre' = (IF write.reg = "PRE" THEN write.val ELSE reg_pre)
                 /\ counter_cnt' = (IF write.reg = "CNT" THEN write.val ELSE reg_cnt)

(* Mutant: CNT is not reloaded. *)
ReloadPre ==
    /\ Fall /\ write = NoWrite /\ State = "s_reset"
    /\ has_fired' = FALSE
    /\ counter_pre' = reg_pre
    /\ freq_div_cnt' = FREQ_DIV_SYS_TARGET
    /\ elapsed' = 0
    /\ loaded' = TRUE
    /\ UNCHANGED counter_cnt

Reload ==
    /\ Fall /\ write = NoWrite /\ State = "s_reset"
    /\ has_fired' = FALSE
    /\ counter_pre' = reg_pre
    /\ counter_cnt' = reg_cnt
    /\ freq_div_cnt' = FREQ_DIV_SYS_TARGET
    /\ elapsed' = 0
    /\ loaded' = TRUE

Counting == write = NoWrite /\ is_counting /\ State = "s_count" /\ ~has_fired

(* between two edges of the 100 kHz clock *)
Divide ==
    /\ Fall /\ Counting /\ freq_div_cnt # 0
    /\ freq_div_cnt' = freq_div_cnt - 1
    /\ elapsed' = elapsed + 1
    /\ UNCHANGED <<counter_pre, counter_cnt, has_fired, loaded>>

(* Mutant: the prescaler counts down to 0. *)
TickToZero ==
    /\ Fall /\ Counting /\ freq_div_cnt = 0
    /\ freq_div_cnt' = FREQ_DIV_SYS_TARGET
    /\ IF counter_pre = 0
       THEN /\ counter_pre' = reg_pre
            /\ has_fired' = (counter_cnt = 0)
            /\ counter_cnt' = IF counter_cnt = 0 THEN 0 ELSE counter_cnt - 1
       ELSE /\ counter_pre' = counter_pre - 1
            /\ UNCHANGED <<counter_cnt, has_fired>>
    /\ elapsed' = elapsed + 1
    /\ UNCHANGED loaded

(* Mutant: CNT is counted below 0. *)
TickBelowZero ==
    /\ Fall /\ Counting /\ freq_div_cnt = 0
    /\ freq_div_cnt' = FREQ_DIV_SYS_TARGET
    /\ IF counter_pre = 1
       THEN /\ counter_pre' = reg_pre
            /\ has_fired' = (counter_cnt = 0)
            /\ counter_cnt' = counter_cnt - 1
       ELSE /\ counter_pre' = counter_pre - 1
            /\ UNCHANGED <<counter_cnt, has_fired>>
    /\ elapsed' = elapsed + 1
    /\ UNCHANGED loaded

(* an edge of the 100 kHz clock *)
Tick ==
    /\ Fall /\ Counting /\ freq_div_cnt = 0
    /\ freq_div_cnt' = FREQ_DIV_SYS_TARGET
    /\ IF counter_pre = 1
       THEN /\ counter_pre' = reg_pre
            /\ has_fired' = (counter_cnt = 0)
            /\ counter_cnt' = IF counter_cnt = 0 THEN 0 ELSE counter_cnt - 1
       ELSE /\ counter_pre' = (counter_pre - 1) % (MaxWord + 1)
            /\ UNCHANGED <<counter_cnt, has_fired>>
    /\ elapsed' = elapsed + 1
    /\ UNCHANGED loaded

Hold ==
    /\ Fall /\ write = NoWrite /\ State # "s_reset" /\ ~Counting
    /\ UNCHANGED <<counters, elapsed, loaded>>

(***************************************************************************)
(* Rising edge: fsm_advance_state and handle_registers.  bus and grant are *)
(* the chain as this timer sees it; w is the bus access of the next cycle. *)
(***************************************************************************)
fsmState_Next(free, granted) ==
    CASE State = "s_idle"        -> IF is_counting THEN "s_count" ELSE "s_idle"
      [] State = "s_count"       -> IF has_fired /\ free THEN "s_signal" ELSE "s_count"
      [] State = "s_signal"      -> IF granted THEN "s_provide_isr" ELSE "s_signal"
      [] State = "s_provide_isr" -> IF granted THEN "s_provide_isr" ELSE "s_reset"
      [] State = "s_reset"       -> "s_idle"

RisingEdge(free, granted, w) ==
    /\ clk = "low" /\ clk' = "high"
    /\ State' = IF write # NoWrite THEN "s_idle" ELSE fsmState_Next(free, granted)
    /\ reg_pre' = IF write.reg = "PRE" THEN write.val ELSE reg_pre
    /\ reg_cnt' = IF write.reg = "CNT" THEN write.val ELSE reg_cnt
    /\ reg_int' = IF write.reg = "INT" THEN write.val ELSE reg_int
    /\ write' = w
    /\ UNCHANGED <<counters, elapsed, loaded>>

Next ==
    \/ NewTimerVals \/ Reload \/ Divide \/ Tick \/ Hold
    \/ \E free, granted \in BOOLEAN, w \in Writes \cup {NoWrite} : RisingEdge(free, granted, w)

Spec == Init /\ [][Next]_vars

-----------------------------------------------------------------------------
TypeOK ==
    /\ clk \in {"high", "low"}
    /\ write \in Writes \cup {NoWrite}
    /\ reg_pre \in Word /\ reg_cnt \in Word /\ reg_int \in Word
    /\ counter_pre \in Word /\ counter_cnt \in Word
    /\ freq_div_cnt \in 0 .. FREQ_DIV_SYS_TARGET
    /\ has_fired \in BOOLEAN
    /\ State \in {"s_idle", "s_count", "s_signal", "s_provide_isr", "s_reset"}
    /\ elapsed \in Nat
    /\ loaded \in BOOLEAN

(* The registers as they are after the write under way. *)
PreReg == IF clk = "low" /\ write.reg = "PRE" THEN write.val ELSE reg_pre
CntReg == IF clk = "low" /\ write.reg = "CNT" THEN write.val ELSE reg_cnt

(* The prescaler counter never passes below 1 and wraps to 0xFFFF, and     *)
(* neither counter exceeds its register, whatever the order in which the   *)
(* program writes PRE, CNT and INT while the timer runs.                   *)
CountersInRange ==
    /\ counter_pre <= PreReg
    /\ PreReg # 0 => counter_pre # 0
    /\ counter_cnt <= CntReg

(* System clock cycles until the timer fires. *)
Remaining ==
    (counter_cnt * PreReg + counter_pre - 1) * (FREQ_DIV_SYS_TARGET + 1) + freq_div_cnt + 1
Period == PreReg * (CntReg + 1) * (FREQ_DIV_SYS_TARGET + 1)

(* From loaded counters the timer fires after exactly PRE * (CNT + 1)      *)
(* cycles of its clock, each FREQ_DIV_SYS_TARGET + 1 system clocks long:   *)
(* with the pulse of the prescaler that comes after the counter has        *)
(* reached 0.  The comments of timer.vhd:15-17 and timer_module.vhd:15-18  *)
(* (and sysdef.asm:153-156) say otherwise: it fires when the number of     *)
(* pulses equals CNT, of a 100 kHz clock.  That never happens.             *)
PeriodExact ==
    loaded /\ PreReg # 0 => IF has_fired THEN elapsed = Period ELSE elapsed + Remaining = Period
=============================================================================
