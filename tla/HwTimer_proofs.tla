--------------------------- MODULE HwTimer_proofs ---------------------------
(***************************************************************************)
(* Proofs about the counters of one hardware timer (module HwTimer) for    *)
(* every register width and every frequency divider.                       *)
(***************************************************************************)
EXTENDS HwTimer, TLAPS

CoreInv == TypeOK /\ CountersInRange

(* A word below its width is its own remainder. *)
LEMMA WordRemainder ==
    ASSUME NEW x \in Word
    PROVE  x % (MaxWord + 1) = x
BY WordAssumption DEF Word

LEMMA InitCore == Init => CoreInv
<1> SUFFICES ASSUME Init PROVE CoreInv
    OBVIOUS
<1> USE WordAssumption, FreqAssumption DEF Init
<1>1. TypeOK
    <2>1. /\ clk \in {"high", "low"}
          /\ write \in Writes \cup {NoWrite}
          /\ reg_pre \in Word /\ reg_cnt \in Word /\ reg_int \in Word
          /\ counter_pre \in Word /\ counter_cnt \in Word
          /\ freq_div_cnt \in 0 .. FREQ_DIV_SYS_TARGET
          /\ State \in {"s_idle", "s_count", "s_signal", "s_provide_isr", "s_reset"}
          /\ elapsed \in Nat
        BY DEF Word
    <2>2. has_fired \in BOOLEAN /\ loaded \in BOOLEAN
        BY Zenon DEF Init
    <2> QED
        BY <2>1, <2>2 DEF TypeOK
<1>2. CountersInRange
    BY DEF CountersInRange, PreReg, CntReg
<1> QED
    BY <1>1, <1>2 DEF CoreInv

(* The registers after the write under way are words, too. *)
LEMMA RegistersAfterWrite ==
    ASSUME TypeOK
    PROVE  PreReg \in Word /\ CntReg \in Word
BY WordAssumption DEF TypeOK, PreReg, CntReg, Writes, NoWrite, Word

(* In a cycle without a write both are the registers themselves. *)
LEMMA NoWriteNoChange ==
    ASSUME write = NoWrite
    PROVE  PreReg = reg_pre /\ CntReg = reg_cnt
BY DEF PreReg, CntReg, NoWrite

(* A counting prescaler is at 1 or above, so that it never wraps. *)
LEMMA TickDecrements ==
    ASSUME CoreInv, Tick, counter_pre # 1
    PROVE  /\ counter_pre \in 2 .. MaxWord
          /\ counter_pre' = counter_pre - 1
<1>1. reg_pre # 0 /\ PreReg = reg_pre
    BY NoWriteNoChange DEF Tick, Counting, is_counting
<1>2. counter_pre \in Word /\ counter_pre # 0
    BY <1>1 DEF CoreInv, TypeOK, CountersInRange
<1>3. counter_pre \in 2 .. MaxWord /\ counter_pre - 1 \in Word
    BY <1>2, WordAssumption DEF Word
<1>4. counter_pre' = (counter_pre - 1) % (MaxWord + 1)
    BY DEF Tick
<1> QED
    BY <1>3, <1>4, WordRemainder

LEMMA CoreStep == CoreInv /\ [Next]_vars => CoreInv'
<1> SUFFICES ASSUME CoreInv, [Next]_vars PROVE CoreInv'
    OBVIOUS
<1> USE WordAssumption, FreqAssumption
<1>0. /\ TypeOK /\ CountersInRange
      /\ reg_pre \in Word /\ reg_cnt \in Word /\ reg_int \in Word
      /\ counter_pre \in Word /\ counter_cnt \in Word
      /\ Word \subseteq Nat
    BY DEF CoreInv, TypeOK, Word
<1>1. CASE NewTimerVals
    <2>1. TypeOK'
        <3>1. /\ clk' \in {"high", "low"}
              /\ write' \in Writes \cup {NoWrite}
              /\ reg_pre' \in Word /\ reg_cnt' \in Word /\ reg_int' \in Word
              /\ counter_pre' \in Word /\ counter_cnt' \in Word
              /\ freq_div_cnt' \in 0 .. FREQ_DIV_SYS_TARGET
              /\ State' \in {"s_idle", "s_count", "s_signal", "s_provide_isr", "s_reset"}
              /\ elapsed' \in Nat
            BY <1>0, <1>1 DEF NewTimerVals, Fall, registers, TypeOK, Writes, NoWrite, Word
        <3>2. has_fired' \in BOOLEAN /\ loaded' \in BOOLEAN
            BY <1>1, Zenon DEF NewTimerVals
        <3> QED
            BY <3>1, <3>2 DEF TypeOK
    <2>2. CountersInRange'
        BY <1>0, <1>1 DEF NewTimerVals, Fall, registers, CountersInRange, PreReg, CntReg,
                          TypeOK, Writes, NoWrite, Word
    <2> QED
        BY <2>1, <2>2 DEF CoreInv
<1>2. CASE Reload
    <2>1. TypeOK'
        <3>1. /\ clk' \in {"high", "low"}
              /\ write' \in Writes \cup {NoWrite}
              /\ reg_pre' \in Word /\ reg_cnt' \in Word /\ reg_int' \in Word
              /\ counter_pre' \in Word /\ counter_cnt' \in Word
              /\ freq_div_cnt' \in 0 .. FREQ_DIV_SYS_TARGET
              /\ State' \in {"s_idle", "s_count", "s_signal", "s_provide_isr", "s_reset"}
              /\ elapsed' \in Nat
            BY <1>0, <1>2 DEF Reload, Fall, registers, TypeOK
        <3>2. has_fired' \in BOOLEAN /\ loaded' \in BOOLEAN
            BY <1>2, Zenon DEF Reload
        <3> QED
            BY <3>1, <3>2 DEF TypeOK
    <2>2. PreReg' = reg_pre /\ CntReg' = reg_cnt
        BY <1>2 DEF Reload, Fall, registers, PreReg, CntReg, NoWrite
    <2>3. CountersInRange'
        BY <1>0, <1>2, <2>2 DEF Reload, CountersInRange, Word
    <2> QED
        BY <2>1, <2>3 DEF CoreInv
<1>3. CASE Divide
    <2>1. TypeOK'
        BY <1>0, <1>3 DEF Divide, Fall, registers, TypeOK
    <2>2. PreReg' = PreReg /\ CntReg' = CntReg
        BY <1>3 DEF Divide, Counting, Fall, registers, PreReg, CntReg, NoWrite
    <2>3. CountersInRange'
        BY <1>0, <1>3, <2>2 DEF Divide, CountersInRange
    <2> QED
        BY <2>1, <2>3 DEF CoreInv
<1>4. CASE Tick
    <2>1. /\ PreReg = reg_pre /\ CntReg = reg_cnt
          /\ PreReg' = reg_pre /\ CntReg' = reg_cnt
          /\ reg_pre # 0
        BY <1>4 DEF Tick, Counting, is_counting, Fall, registers, PreReg, CntReg, NoWrite
    <2>2. /\ counter_pre' \in Word /\ counter_cnt' \in Word /\ has_fired' \in BOOLEAN
          /\ counter_pre' <= reg_pre /\ counter_pre' # 0 /\ counter_cnt' <= reg_cnt
        <3>1. CASE counter_pre = 1
            BY <1>0, <1>4, <2>1, <3>1 DEF Tick, CountersInRange, Word
        <3>2. CASE counter_pre # 1
            <4>1. counter_pre \in 2 .. MaxWord /\ counter_pre' = counter_pre - 1
                BY <1>4, <3>2, TickDecrements
            <4>2. counter_cnt' = counter_cnt /\ has_fired' = has_fired
                BY <1>4, <3>2 DEF Tick
            <4> QED
                BY <1>0, <2>1, <4>1, <4>2 DEF CountersInRange, TypeOK, Word
        <3> QED
            BY <3>1, <3>2
    <2>3. TypeOK'
        BY <1>0, <1>4, <2>2 DEF Tick, Fall, registers, TypeOK
    <2> QED
        BY <2>1, <2>2, <2>3 DEF CoreInv, CountersInRange
<1>5. CASE Hold
    <2>1. TypeOK'
        BY <1>0, <1>5 DEF Hold, Fall, registers, counters, TypeOK
    <2>2. PreReg' = PreReg /\ CntReg' = CntReg
        BY <1>5 DEF Hold, Fall, registers, PreReg, CntReg, NoWrite
    <2>3. CountersInRange'
        BY <1>0, <1>5, <2>2 DEF Hold, counters, CountersInRange
    <2> QED
        BY <2>1, <2>3 DEF CoreInv
<1>6. ASSUME NEW free \in BOOLEAN, NEW granted \in BOOLEAN, NEW w \in Writes \cup {NoWrite},
             RisingEdge(free, granted, w)
      PROVE  CoreInv'
    <2>1. PreReg' = PreReg /\ CntReg' = CntReg
        BY <1>6 DEF RisingEdge, PreReg, CntReg
    <2>2. CountersInRange'
        BY <1>0, <1>6, <2>1 DEF RisingEdge, counters, CountersInRange
    <2>3. reg_pre' \in Word /\ reg_cnt' \in Word /\ reg_int' \in Word
        BY <1>0, <1>6 DEF RisingEdge, TypeOK, Writes, NoWrite
    <2>4. State' \in {"s_idle", "s_count", "s_signal", "s_provide_isr", "s_reset"}
        <3>1. fsmState_Next(free, granted)
                  \in {"s_idle", "s_count", "s_signal", "s_provide_isr", "s_reset"}
            BY <1>0 DEF TypeOK, fsmState_Next
        <3> QED
            BY <1>6, <3>1 DEF RisingEdge
    <2>5. TypeOK'
        BY <1>0, <1>6, <2>3, <2>4 DEF RisingEdge, counters, TypeOK
    <2> QED
        BY <2>2, <2>5 DEF CoreInv
<1>7. CASE UNCHANGED vars
    BY <1>0, <1>7 DEF vars, CoreInv, TypeOK, CountersInRange, PreReg, CntReg
<1> QED
    BY <1>1, <1>2, <1>3, <1>4, <1>5, <1>6, <1>7 DEF Next

LEMMA CoreAlways == Spec => []CoreInv
BY InitCore, CoreStep, PTL DEF Spec

(* Every variable of the timer keeps its type. *)
THEOREM TimerTypeOK == Spec => []TypeOK
<1>1. CoreInv => TypeOK
    BY DEF CoreInv
<1> QED
    BY <1>1, CoreAlways, PTL

(* Neither counter of timer.vhd ever exceeds its register or wraps below,  *)
(* whatever the order of the register writes, for every register width.    *)
THEOREM TimerCountersInRange == Spec => []CountersInRange
<1>1. CoreInv => CountersInRange
    BY DEF CoreInv
<1> QED
    BY <1>1, CoreAlways, PTL

-----------------------------------------------------------------------------
(***************************************************************************)
(* The period.  Remaining is a sum of products; the lemmas about integers  *)
(* say how it changes when one of the counters moves.                      *)
(***************************************************************************)
PeriodInv == CoreInv /\ PeriodExact

(* A full cycle of the divider, split off the product. *)
LEMMA OneLess ==
    ASSUME NEW x \in Int, NEW f \in Int
    PROVE  x * (f + 1) = (x - 1) * (f + 1) + f + 1
OBVIOUS

(* A full turn of the prescaler, split off the product. *)
LEMMA OneTurnLess ==
    ASSUME NEW c \in Int, NEW p \in Int
    PROVE  (c - 1) * p + p = c * p
OBVIOUS

(* The cycles left when both counters are loaded are the whole period. *)
LEMMA LoadedPeriod ==
    ASSUME NEW c \in Int, NEW p \in Int, NEW f \in Int
    PROVE  (c * p + p - 1) * (f + 1) + f + 1 = p * (c + 1) * (f + 1)
<1>1. c * p + p = p * (c + 1)
    OBVIOUS
<1>2. c * p + p \in Int
    OBVIOUS
<1>3. (c * p + p) * (f + 1) = (c * p + p - 1) * (f + 1) + f + 1
    BY <1>2, OneLess
<1> QED
    BY <1>1, <1>3

LEMMA InitPeriod == Init => PeriodInv
<1> SUFFICES ASSUME Init PROVE PeriodInv
    OBVIOUS
<1>1. PreReg = 0
    BY DEF Init, PreReg
<1> QED
    BY <1>1, InitCore DEF PeriodInv, PeriodExact

(* After a write or a reload the whole period lies ahead. *)
LEMMA LoadedStarts ==
    ASSUME CoreInv', elapsed' = 0, has_fired' = FALSE, freq_div_cnt' = FREQ_DIV_SYS_TARGET,
           loaded' => counter_pre' = PreReg' /\ counter_cnt' = CntReg'
    PROVE  PeriodExact'
<1>1. PreReg' \in Int /\ CntReg' \in Int /\ FREQ_DIV_SYS_TARGET \in Int
    <2>1. TypeOK'
        BY DEF CoreInv
    <2>2. PreReg' \in Word /\ CntReg' \in Word
        BY <2>1, WordAssumption DEF TypeOK, PreReg, CntReg, Writes, NoWrite, Word
    <2> QED
        BY <2>2, FreqAssumption DEF Word
<1> SUFFICES ASSUME loaded' PROVE Remaining' = Period'
    <2>1. counter_pre' \in Int /\ counter_cnt' \in Int /\ freq_div_cnt' \in Int
        BY FreqAssumption DEF CoreInv, TypeOK, Word
    <2>2. Remaining' \in Int
        BY <1>1, <2>1 DEF Remaining
    <2> QED
        BY <2>2 DEF PeriodExact
<1>2. Remaining' = (CntReg' * PreReg' + PreReg' - 1) * (FREQ_DIV_SYS_TARGET + 1)
                       + FREQ_DIV_SYS_TARGET + 1
    BY DEF Remaining
<1>3. Period' = PreReg' * (CntReg' + 1) * (FREQ_DIV_SYS_TARGET + 1)
    BY DEF Period
<1> QED
    BY <1>1, <1>2, <1>3, LoadedPeriod

LEMMA PeriodStep == PeriodInv /\ [Next]_vars => PeriodInv'
<1> SUFFICES ASSUME PeriodInv, [Next]_vars PROVE PeriodInv'
    OBVIOUS
<1>0. /\ CoreInv /\ CoreInv' /\ PeriodExact
      /\ TypeOK /\ PreReg \in Int /\ CntReg \in Int
      /\ counter_pre \in Int /\ counter_cnt \in Int /\ freq_div_cnt \in Int
      /\ elapsed \in Int /\ FREQ_DIV_SYS_TARGET \in Int
    BY CoreStep, RegistersAfterWrite, FreqAssumption DEF PeriodInv, CoreInv, TypeOK, Word
<1>1. CASE NewTimerVals
    <2>1. loaded' => counter_pre' = PreReg' /\ counter_cnt' = CntReg'
        BY <1>1 DEF NewTimerVals, Fall, registers, PreReg, CntReg
    <2>2. PeriodExact'
        BY <1>0, <1>1, <2>1, LoadedStarts DEF NewTimerVals
    <2> QED
        BY <1>0, <2>2 DEF PeriodInv
<1>2. CASE Reload
    <2>1. counter_pre' = PreReg' /\ counter_cnt' = CntReg'
        BY <1>2 DEF Reload, Fall, registers, PreReg, CntReg, NoWrite
    <2>2. PeriodExact'
        BY <1>0, <1>2, <2>1, LoadedStarts DEF Reload
    <2> QED
        BY <1>0, <2>2 DEF PeriodInv
<1>3. CASE Divide
    <2>1. /\ PreReg' = PreReg /\ CntReg' = CntReg
          /\ ~has_fired /\ has_fired' = has_fired /\ loaded' = loaded
          /\ counter_pre' = counter_pre /\ counter_cnt' = counter_cnt
          /\ freq_div_cnt' = freq_div_cnt - 1 /\ elapsed' = elapsed + 1
        BY <1>3 DEF Divide, Counting, Fall, registers, PreReg, CntReg, NoWrite
    <2>2. Period' = Period
        BY <2>1 DEF Period
    <2> DEFINE X == (counter_cnt * PreReg + counter_pre - 1) * (FREQ_DIV_SYS_TARGET + 1)
    <2>3. X \in Int /\ X' = X
        BY <1>0, <2>1
    <2>4. Remaining = X + freq_div_cnt + 1 /\ Remaining' = X + (freq_div_cnt - 1) + 1
        BY <2>1, <2>3 DEF Remaining
    <2> HIDE DEF X
    <2>5. elapsed' + Remaining' = elapsed + Remaining
        BY <1>0, <2>1, <2>3, <2>4
    <2> QED
        BY <1>0, <2>1, <2>2, <2>5 DEF PeriodInv, PeriodExact
<1>4. CASE Tick
    <2>1. /\ PreReg = reg_pre /\ PreReg' = PreReg /\ CntReg' = CntReg
          /\ PreReg # 0 /\ ~has_fired /\ loaded' = loaded
          /\ freq_div_cnt = 0 /\ freq_div_cnt' = FREQ_DIV_SYS_TARGET /\ elapsed' = elapsed + 1
        BY <1>4 DEF Tick, Counting, is_counting, Fall, registers, PreReg, CntReg, NoWrite
    <2>2. Period' = Period
        BY <2>1 DEF Period
    <2>3. CASE counter_pre # 1
        <3>1. counter_pre' = counter_pre - 1 /\ counter_cnt' = counter_cnt /\ ~has_fired'
            BY <1>0, <1>4, <2>1, <2>3, TickDecrements DEF Tick
        <3> DEFINE x == counter_cnt * PreReg + counter_pre - 1
        <3>2. x \in Int /\ x' = x - 1
            BY <1>0, <2>1, <3>1
        <3>3. Remaining = x * (FREQ_DIV_SYS_TARGET + 1) + 1
            BY <1>0, <2>1, <3>2 DEF Remaining
        <3>4. Remaining' = (x - 1) * (FREQ_DIV_SYS_TARGET + 1) + FREQ_DIV_SYS_TARGET + 1
            BY <2>1, <3>2 DEF Remaining
        <3> HIDE DEF x
        <3>5. Remaining = Remaining' + 1
            BY <1>0, <3>2, <3>3, <3>4, OneLess
        <3>6. Remaining' \in Int
            BY <1>0, <3>2, <3>4
        <3>7. elapsed' + Remaining' = elapsed + Remaining
            BY <1>0, <2>1, <3>5, <3>6
        <3> QED
            BY <1>0, <2>1, <2>2, <3>1, <3>7 DEF PeriodInv, PeriodExact
    <2>4. CASE counter_pre = 1 /\ counter_cnt # 0
        <3>1. counter_pre' = PreReg /\ counter_cnt' = counter_cnt - 1 /\ ~has_fired'
            BY <1>4, <2>1, <2>4 DEF Tick
        <3> DEFINE x == counter_cnt * PreReg
        <3>2. x \in Int /\ (counter_cnt - 1) * PreReg + PreReg = x
            BY <1>0, OneTurnLess
        <3>3. (counter_cnt - 1) * PreReg + PreReg - 1 = x - 1
            BY <1>0, <3>2
        <3>4. Remaining = x * (FREQ_DIV_SYS_TARGET + 1) + 1
            <4>1. x + counter_pre - 1 = x
                BY <2>4, <3>2
            <4> QED
                BY <1>0, <2>1, <3>2, <4>1 DEF Remaining
        <3>5. Remaining' = (x - 1) * (FREQ_DIV_SYS_TARGET + 1) + FREQ_DIV_SYS_TARGET + 1
            BY <2>1, <3>1, <3>3 DEF Remaining
        <3> HIDE DEF x
        <3>6. Remaining = Remaining' + 1
            BY <1>0, <3>2, <3>4, <3>5, OneLess
        <3>7. Remaining' \in Int
            BY <1>0, <3>2, <3>5
        <3>8. elapsed' + Remaining' = elapsed + Remaining
            BY <1>0, <2>1, <3>6, <3>7
        <3> QED
            BY <1>0, <2>1, <2>2, <3>1, <3>8 DEF PeriodInv, PeriodExact
    <2>5. CASE counter_pre = 1 /\ counter_cnt = 0
        <3>1. has_fired'
            BY <1>4, <2>5 DEF Tick
        <3>2. Remaining = 1
            BY <1>0, <2>1, <2>5 DEF Remaining
        <3> QED
            BY <1>0, <2>1, <2>2, <3>1, <3>2 DEF PeriodInv, PeriodExact
    <2> QED
        BY <2>3, <2>4, <2>5
<1>5. ASSUME PreReg' = PreReg, CntReg' = CntReg, UNCHANGED <<counters, elapsed, loaded>>
      PROVE  PeriodInv'
    BY <1>0, <1>5 DEF counters, PeriodInv, PeriodExact, Period, Remaining
<1>6. CASE Hold
    <2>1. PreReg' = PreReg /\ CntReg' = CntReg
        BY <1>6 DEF Hold, Fall, registers, PreReg, CntReg, NoWrite
    <2> QED
        BY <1>5, <1>6, <2>1 DEF Hold
<1>7. ASSUME NEW free \in BOOLEAN, NEW granted \in BOOLEAN, NEW w \in Writes \cup {NoWrite},
             RisingEdge(free, granted, w)
      PROVE  PeriodInv'
    <2>1. PreReg' = PreReg /\ CntReg' = CntReg
        BY <1>7 DEF RisingEdge, PreReg, CntReg
    <2> QED
        BY <1>5, <1>7, <2>1 DEF RisingEdge
<1>8. CASE UNCHANGED vars
    <2>1. PreReg' = PreReg /\ CntReg' = CntReg
        BY <1>8 DEF vars, PreReg, CntReg
    <2> QED
        BY <1>5, <1>8, <2>1 DEF vars, counters
<1> QED
    BY <1>1, <1>2, <1>3, <1>4, <1>6, <1>7, <1>8 DEF Next

(* A timer that is left alone fires after exactly PRE * (CNT + 1) cycles   *)
(* of its clock, for every register width and every divider.               *)
THEOREM TimerPeriodExact == Spec => []PeriodExact
<1>1. PeriodInv => PeriodExact
    BY DEF PeriodInv
<1> QED
    BY <1>1, InitPeriod, PeriodStep, PTL DEF Spec
=============================================================================
