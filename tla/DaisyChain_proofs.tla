-------------------------- MODULE DaisyChain_proofs --------------------------
(***************************************************************************)
(* Proofs about interrupts of the hardware (module DaisyChain): for a      *)
(* daisy chain of every length, the types, that interrupts return exactly, *)
(* and that the first two devices leave the bus in time; for a chain of at *)
(* most five, that one device drives the bus and that it is the requester. *)
(***************************************************************************)
EXTENDS DaisyChain, FiniteSetTheorems, WellFoundedInduction, TLAPS

InterruptStates == {"cs_int_wait_isr", "cs_int_jmp_isr", "cs_int_indirect_isr"}

(* The CPU is in the states of the interrupt protocol only while an        *)
(* interrupt is active, so that whatever changes the PC there finds the    *)
(* shadow registers frozen.                                                *)
ResumeInv ==
    /\ cpu_state \in InterruptStates => Int_Active
    /\ ResumesExactly

LEMMA InitResume == Init => ResumeInv
BY DEF Init, ResumeInv, InterruptStates, ResumesExactly

(* One clock edge of the CPU. *)
LEMMA CPUResume ==
    ASSUME ResumeInv, CPUAdvance
    PROVE  ResumeInv'
<1> USE DEF ResumeInv, InterruptStates, ResumesExactly
<1>1. CASE FetchWait \/ WaitISR \/ StoreWait \/ Halted
    BY <1>1 DEF FetchWait, WaitISR, StoreWait, Halted, Shadow
<1>2. CASE Fetch
    BY <1>2 DEF Fetch, Shadow, Succ
<1>3. CASE TakeInterrupt
    BY <1>3 DEF TakeInterrupt, Shadow
<1>4. CASE ReadISR
    <2>1. Int_Active /\ UNCHANGED <<Int_Active, resume, PC_org>>
        BY <1>4 DEF ReadISR, Shadow
    <2> QED
        BY <2>1
<1>5. CASE JumpISR
    BY <1>5 DEF JumpISR, Shadow
<1>6. CASE DecodeHalt \/ DecodeBank \/ RogueINT
    BY <1>6 DEF DecodeHalt, DecodeBank, RogueINT, Shadow
<1>7. CASE DecodeRTI
    BY <1>7 DEF DecodeRTI, Shadow
<1>8. CASE DecodeINTDirect
    BY <1>8 DEF DecodeINTDirect, Shadow
<1>9. CASE DecodeINTIndirect
    BY <1>9 DEF DecodeINTIndirect, Shadow
<1>10. CASE DecodeINTOperand
    BY <1>10 DEF DecodeINTOperand, Succ
<1>11. CASE IndirectISR
    BY <1>11 DEF IndirectISR, Shadow
<1>12. ASSUME NEW next \in InnerStates \cup {"cs_fetch"}, NEW o \in Offsets, Instruction(next, o)
       PROVE  ResumeInv'
    <2>1. PC'[1] = PC[1]
        BY <1>12 DEF Instruction
    <2> QED
        BY <1>12, <2>1 DEF Instruction, InnerStates, Shadow
<1>13. ASSUME NEW i \in Devices \cup {Nobody}, ExecutePush(i) \/ ExecuteStore(i)
       PROVE  ResumeInv'
    BY <1>13 DEF ExecutePush, ExecuteStore, Shadow
<1>14. ASSUME NEW o \in Offsets, Store(o)
       PROVE  ResumeInv'
    BY <1>14 DEF Store, Shadow
<1> QED
    BY <1>1, <1>2, <1>3, <1>4, <1>5, <1>6, <1>7, <1>8, <1>9, <1>10, <1>11, <1>12, <1>13, <1>14
       DEF CPUAdvance

LEMMA StepResume == ResumeInv /\ [Next]_vars => ResumeInv'
<1> SUFFICES ASSUME ResumeInv, [Next]_vars PROVE ResumeInv'
    OBVIOUS
<1>1. ASSUME NEW elapsed \in SUBSET Devices, FallingEdge(elapsed)
      PROVE  ResumeInv'
    BY <1>1 DEF FallingEdge, cpu, ResumeInv, ResumesExactly
<1>2. CASE RisingEdge
    BY <1>2, CPUResume DEF RisingEdge
<1>3. CASE UNCHANGED vars
    BY <1>3 DEF vars, ResumeInv, ResumesExactly
<1> QED
    BY <1>1, <1>2, <1>3 DEF Next

(* RTI of the hardware CPU goes on where the program was interrupted, by a *)
(* device at any place of a chain of any length or by INT with any of its  *)
(* operands, and interrupts do not nest.                                   *)
THEOREM ChainResumesExactly == Spec => []ResumesExactly
<1>1. ResumeInv => ResumesExactly
    BY DEF ResumeInv
<1> QED
    BY <1>1, InitResume, StepResume, PTL DEF Spec

(***************************************************************************)
(* Types                                                                   *)
(***************************************************************************)
PCs == (0 .. N + 1) \X Offsets

LEMMA PCTypes ==
    /\ \A d \in 0 .. N + 1, o \in Offsets : <<d, o>> \in PCs
    /\ \A p \in PCs : Succ(p) \in PCs /\ p[1] \in 0 .. N + 1
    /\ Program \in 0 .. N + 1 /\ Software \in 0 .. N + 1 /\ Nobody \in 0 .. N + 1
    /\ Devices \subseteq 0 .. N + 1 /\ 0 \in Offsets
BY NAssumption DEF PCs, Succ, Offsets, Program, Software, Nobody, Devices

LEMMA InitTypes == Init => TypeOK
<1> SUFFICES ASSUME Init PROVE TypeOK
    OBVIOUS
<1>1. <<Program, 0>> \in (0 .. N + 1) \X Offsets
    BY PCTypes DEF PCs
<1>2. State \in [Devices -> TimerStates] /\ grant_n_reg \in [Devices -> 0 .. 1]
    BY DEF Init, TimerStates
<1>3. has_fired \in [Devices -> BOOLEAN] /\ is_counting \in [Devices -> BOOLEAN]
    BY DEF Init
<1>4. cpu_state \in CpuStates /\ clk \in {"high", "low"} /\ Int_Active \in BOOLEAN
    BY DEF Init, CpuStates
<1>5. /\ PC = <<Program, 0>> /\ PC_org = <<Program, 0>> /\ resume = <<Program, 0>>
      /\ we \in Devices \cup {Nobody} /\ requester \in Devices \cup {Nobody}
    BY DEF Init
<1> QED
    BY <1>1, <1>2, <1>3, <1>4, <1>5 DEF TypeOK

LEMMA TimerTypes ==
    ASSUME TypeOK, NEW c \in BOOLEAN, TimersAdvance(c)
    PROVE  /\ State' \in [Devices -> TimerStates]
           /\ grant_n_reg' \in [Devices -> 0 .. 1]
           /\ is_counting' \in [Devices -> BOOLEAN]
<1>1. \A i \in Devices : grant_n_in(i) \in 0 .. 1
    BY NAssumption DEF TypeOK, grant_n_in, IGRANT_N, Devices
<1>2. \A i \in Devices : fsmState_Next(i) \in TimerStates
    BY DEF TypeOK, fsmState_Next, TimerStates
<1>3. \A i \in Devices : fsm_grant_n_reg(i) \in 0 .. 1
    BY <1>1 DEF fsm_grant_n_reg
<1>4. State' \in [Devices -> TimerStates]
    BY <1>2 DEF TimersAdvance, TimerStates
<1>5. grant_n_reg' \in [Devices -> 0 .. 1]
    BY <1>3 DEF TimersAdvance
<1>6. is_counting' \in [Devices -> BOOLEAN]
    BY DEF TimersAdvance, TypeOK
<1> QED
    BY <1>4, <1>5, <1>6

(***************************************************************************)
(* The priority of the chain: an interrupt line that is low at the CPU is  *)
(* pulled by one definite device.                                          *)
(***************************************************************************)
LEMMA FirstOf == ASSUME NEW S \in SUBSET Nat, S # {}
                 PROVE  \E m \in S : \A n \in S : m <= n
<1>1. PICK m \in S : \A n \in S : ~ (<<n, m>> \in OpToRel(<, Nat))
    BY WFMin, NatLessThanWellFounded
<1>2. \A n \in S : ~ (n < m)
    BY <1>1 DEF OpToRel
<1> QED
    BY <1>2

LEMMA LastOf == ASSUME NEW b \in Nat, NEW S \in SUBSET (1 .. b), S # {}
                PROVE  \E m \in S : \A n \in S : n <= m
<1> DEFINE D == {b - n : n \in S}
<1>1. D \in SUBSET Nat /\ D # {}
    <2>1. PICK n \in S : TRUE
        OBVIOUS
    <2>2. b - n \in D
        OBVIOUS
    <2>3. \A i \in S : b - i \in Nat
        OBVIOUS
    <2> QED
        BY <2>2, <2>3
<1>2. PICK d \in D : \A e \in D : d <= e
    BY <1>1, FirstOf
<1>3. PICK m \in S : d = b - m
    OBVIOUS
<1>4. \A n \in S : b - m <= b - n
    BY <1>2, <1>3
<1> QED
    BY <1>4

(* When INT_N is low, the request of one device is the one that got there: *)
(* the first that signals, or else the last that asserts with no           *)
(* transaction before it.  TakeInterrupt serves that device.               *)
LEMMA InterruptHasRequester ==
    ASSUME INT_N = 0
    PROVE  \E i \in Devices : Requesting(i)
<1> DEFINE Through(j) == Asserts(j) /\ \A k \in 1 .. j - 1 : State[k] # "s_provide_isr"
           S == {j \in 1 .. N : Through(j)}
<1>1. S # {} /\ S \in SUBSET (1 .. N) /\ N \in Nat
    BY NAssumption DEF INT_N, int_n_out
<1>2. PICK j \in S : \A i \in S : i <= j
    BY <1>1, LastOf
<1>3. j \in 1 .. N /\ Through(j)
    OBVIOUS
<1> HIDE DEF S
<1>4. CASE \A k \in 1 .. j - 1 : State[k] # "s_signal"
    <2>1. ASSUME NEW i \in j + 1 .. N, Asserts(i),
                 \A k \in j + 1 .. i - 1 : State[k] # "s_provide_isr"
          PROVE  FALSE
        <3>1. State[j] # "s_provide_isr"
            BY <1>3 DEF Asserts
        <3>2. \A k \in 1 .. i - 1 : State[k] # "s_provide_isr"
            <4> SUFFICES ASSUME NEW k \in 1 .. i - 1 PROVE State[k] # "s_provide_isr"
                OBVIOUS
            <4>1. k \in 1 .. j - 1 \/ k = j \/ k \in j + 1 .. i - 1
                BY <1>3
            <4> QED
                BY <4>1, <3>1, <2>1, <1>3
        <3>3. i \in S
            BY <2>1, <3>2, <1>3 DEF S
        <3> QED
            BY <3>3, <1>2, <1>3
    <2>2. int_n_in(j) = 1
        BY <2>1 DEF int_n_in, int_n_out
    <2> QED
        BY <1>3, <1>4, <2>2 DEF Requesting, Devices
<1>5. CASE \E k \in 1 .. j - 1 : State[k] = "s_signal"
    <2> DEFINE G == {k \in 1 .. j - 1 : State[k] = "s_signal"}
    <2>1. G \in SUBSET Nat /\ G # {}
        BY <1>5
    <2>2. PICK m \in G : \A k \in G : m <= k
        BY <2>1, FirstOf
    <2>3. \A k \in 1 .. m - 1 : State[k] # "s_signal"
        BY <2>2, <1>3
    <2>4. m \in 1 .. j - 1 /\ State[m] = "s_signal"
        OBVIOUS
    <2>5. m \in 1 .. N /\ \A k \in 1 .. m - 1 : k \in 1 .. j - 1
        BY <2>4, <1>1, <1>3
    <2> QED
        BY <2>3, <2>4, <2>5, <1>3 DEF Requesting, Devices
<1> QED
    BY <1>4, <1>5

LEMMA CPUTypes ==
    ASSUME TypeOK, CPUAdvance
    PROVE  /\ cpu_state' \in CpuStates /\ Int_Active' \in BOOLEAN
           /\ PC' \in PCs /\ PC_org' \in PCs /\ resume' \in PCs
           /\ we' \in Devices \cup {Nobody} /\ requester' \in Devices \cup {Nobody}
<1>1. /\ cpu_state \in CpuStates /\ Int_Active \in BOOLEAN
      /\ PC \in PCs /\ PC_org \in PCs /\ resume \in PCs
      /\ we \in Devices \cup {Nobody} /\ requester \in Devices \cup {Nobody}
    BY DEF TypeOK, PCs
<1>2. Succ(PC) \in PCs /\ <<Software, 0>> \in PCs /\ \A o \in Offsets : <<PC[1], o>> \in PCs
    BY <1>1, PCTypes
<1> DEFINE T == /\ cpu_state' \in CpuStates /\ Int_Active' \in BOOLEAN
                /\ PC' \in PCs /\ PC_org' \in PCs /\ resume' \in PCs
                /\ we' \in Devices \cup {Nobody} /\ requester' \in Devices \cup {Nobody}
<1>3. Shadow => PC_org' \in PCs
    BY <1>1 DEF Shadow
<1>4. CASE FetchWait \/ WaitISR \/ StoreWait \/ Halted
    BY <1>1, <1>3, <1>4 DEF FetchWait, WaitISR, StoreWait, Halted
<1>5. CASE Fetch
    BY <1>1, <1>2, <1>3, <1>5 DEF Fetch, CpuStates
<1>6. CASE TakeInterrupt
    <2>1. \E i \in Devices : Requesting(i)
        BY <1>6, InterruptHasRequester DEF TakeInterrupt
    <2> QED
        BY <1>1, <1>3, <1>6, <2>1 DEF TakeInterrupt, CpuStates
<1>7. CASE ReadISR
    <2>1. \A d \in Devices \cup {Nobody} : <<d, 0>> \in PCs
        BY PCTypes
    <2>2. PICK d \in Devices \cup {Nobody} : PC' = <<d, 0>>
        BY <1>7 DEF ReadISR, Drivers
    <2> QED
        BY <1>1, <1>3, <1>7, <2>1, <2>2 DEF ReadISR, CpuStates
<1>8. CASE JumpISR \/ DecodeHalt \/ DecodeBank \/ RogueINT
    BY <1>1, <1>3, <1>8 DEF JumpISR, DecodeHalt, DecodeBank, RogueINT, CpuStates
<1>9. CASE DecodeRTI
    BY <1>1, <1>3, <1>9 DEF DecodeRTI, CpuStates
<1>10. CASE DecodeINTDirect \/ DecodeINTIndirect
    BY <1>1, <1>2, <1>3, <1>10 DEF DecodeINTDirect, DecodeINTIndirect, CpuStates
<1>11. CASE DecodeINTOperand \/ IndirectISR
    BY <1>1, <1>2, <1>3, <1>11 DEF DecodeINTOperand, IndirectISR, CpuStates
<1>12. ASSUME NEW next \in InnerStates \cup {"cs_fetch"}, NEW o \in Offsets, Instruction(next, o)
       PROVE  T
    BY <1>1, <1>2, <1>3, <1>12 DEF Instruction, CpuStates
<1>13. ASSUME NEW i \in Devices \cup {Nobody}, ExecutePush(i) \/ ExecuteStore(i)
       PROVE  T
    BY <1>1, <1>3, <1>13 DEF ExecutePush, ExecuteStore, CpuStates, InnerStates
<1>14. ASSUME NEW o \in Offsets, Store(o)
       PROVE  T
    BY <1>1, <1>2, <1>3, <1>14 DEF Store, CpuStates
<1> QED
    BY <1>4, <1>5, <1>6, <1>7, <1>8, <1>9, <1>10, <1>11, <1>12, <1>13, <1>14 DEF CPUAdvance

LEMMA StepTypes == TypeOK /\ [Next]_vars => TypeOK'
<1> SUFFICES ASSUME TypeOK, [Next]_vars PROVE TypeOK'
    OBVIOUS
<1>1. ASSUME NEW elapsed \in SUBSET Devices, FallingEdge(elapsed)
      PROVE  TypeOK'
    <2>1. has_fired' \in [Devices -> BOOLEAN]
        BY <1>1 DEF FallingEdge, TypeOK
    <2> QED
        BY <1>1, <2>1 DEF FallingEdge, TypeOK, cpu
<1>2. CASE RisingEdge
    <2>1. PICK c \in BOOLEAN : TimersAdvance(c)
        BY <1>2 DEF RisingEdge
    <2>2. CPUAdvance /\ UNCHANGED has_fired /\ clk' = "high"
        BY <1>2 DEF RisingEdge
    <2>3. has_fired' \in [Devices -> BOOLEAN] /\ clk' \in {"high", "low"}
        BY <2>2 DEF TypeOK
    <2> QED
        BY <2>1, <2>2, <2>3, TimerTypes, CPUTypes DEF TypeOK, PCs
<1>3. CASE UNCHANGED vars
    BY <1>3 DEF vars, TypeOK
<1> QED
    BY <1>1, <1>2, <1>3 DEF Next

(* Every register keeps its range in a chain of any length; above all, the *)
(* CPU takes an interrupt up only when there is a device it comes from.    *)
THEOREM ChainTypes == Spec => []TypeOK
BY InitTypes, StepTypes, PTL DEF Spec

(***************************************************************************)
(* The grant, one device per clock                                         *)
(*                                                                         *)
(* Age is the least number of clocks since the CPU withdrew its last       *)
(* grant, as the state of the CPU tells it; so many devices have seen the  *)
(* withdrawal.                                                             *)
(***************************************************************************)
StoreStates == {"cs_exepost_store_dst_indirect", "cs_exepost_sub"}

Age ==
    CASE cpu_state = "cs_int_wait_isr" -> 0
      [] cpu_state = "cs_int_jmp_isr" -> 1
      [] cpu_state = "cs_fetch" -> IF Int_Active THEN 2 ELSE 4
      [] cpu_state = "cs_decode" -> IF Int_Active THEN 3 ELSE 5
      [] cpu_state \in StoreStates -> 5
      [] OTHER -> 4

AgeInv == \A i \in Devices : i <= Age => grant_n_in(i) = 1

(* A register is written only by a store or by a call that pushes there.   *)
StoreInv == we # Nobody => cpu_state \in StoreStates

ChainInv == TypeOK /\ ResumeInv /\ StoreInv /\ AgeInv

(* What one clock of the CPU does to its age. *)
LEMMA CPUAge ==
    ASSUME TypeOK, ResumeInv, StoreInv, CPUAdvance
    PROVE  /\ StoreInv'
           /\ cpu_state' # "cs_int_wait_isr" => \A n \in Int : n <= Age' => n <= Age + 1
           /\ cpu_state' = "cs_int_wait_isr" => Int_Active' /\ (WaitISR \/ TakeInterrupt)
           /\ cpu_state = "cs_int_wait_isr" => WaitISR \/ ReadISR
<1> DEFINE G == /\ StoreInv'
                /\ cpu_state' # "cs_int_wait_isr" => \A n \in Int : n <= Age' => n <= Age + 1
                /\ cpu_state' = "cs_int_wait_isr" => Int_Active' /\ (WaitISR \/ TakeInterrupt)
                /\ cpu_state = "cs_int_wait_isr" => WaitISR \/ ReadISR
<1> USE DEF StoreInv, Age, StoreStates
<1>1. CASE FetchWait \/ StoreWait \/ Halted
    BY <1>1 DEF FetchWait, StoreWait, Halted
<1>2. CASE WaitISR
    BY <1>2 DEF WaitISR, ResumeInv, InterruptStates
<1>3. CASE Fetch
    BY <1>3 DEF Fetch
<1>4. CASE TakeInterrupt
    BY <1>4 DEF TakeInterrupt
<1>5. CASE ReadISR
    BY <1>5 DEF ReadISR
<1>6. CASE JumpISR
    BY <1>6 DEF JumpISR, ResumeInv, InterruptStates
<1>7. CASE DecodeHalt \/ DecodeBank \/ RogueINT
    BY <1>7 DEF DecodeHalt, DecodeBank, RogueINT
<1>8. CASE DecodeRTI
    BY <1>8 DEF DecodeRTI
<1>9. CASE DecodeINTDirect \/ DecodeINTIndirect \/ DecodeINTOperand
    BY <1>9 DEF DecodeINTDirect, DecodeINTIndirect, DecodeINTOperand
<1>10. CASE IndirectISR
    BY <1>10 DEF IndirectISR, ResumeInv, InterruptStates
<1>11. ASSUME NEW next \in InnerStates \cup {"cs_fetch"}, NEW o \in Offsets, Instruction(next, o)
       PROVE  G
    <2>1. /\ cpu_state \in InnerStates \cup {"cs_decode"}
          /\ cpu_state' \in {"cs_exeprep_get_src_indirect", "cs_exeprep_get_dst_indirect",
                             "cs_execute", "cs_fetch"}
          /\ we' = Nobody /\ Int_Active' = Int_Active
        BY <1>11 DEF Instruction, InnerStates, Following
    <2> QED
        BY <2>1 DEF InnerStates
<1>12. ASSUME NEW i \in Devices \cup {Nobody}, ExecutePush(i) \/ ExecuteStore(i)
       PROVE  G
    BY <1>12 DEF ExecutePush, ExecuteStore
<1>13. ASSUME NEW o \in Offsets, Store(o)
       PROVE  G
    BY <1>13 DEF Store
<1> QED
    BY <1>1, <1>2, <1>3, <1>4, <1>5, <1>6, <1>7, <1>8, <1>9, <1>10, <1>11, <1>12, <1>13
       DEF CPUAdvance

(* What one clock of the timers does to their states and to the grant.     *)
LEMMA Shift ==
    ASSUME TypeOK, NEW c \in BOOLEAN, TimersAdvance(c)
    PROVE  /\ grant_n_in(1)' = IGRANT_N'
           /\ \A i \in Devices : grant_n_in(i) \in {0, 1} /\ grant_n_in(i)' \in {0, 1}
           /\ \A i \in Devices : State'[i] = IF we = i THEN "s_idle" ELSE fsmState_Next(i)
           /\ \A i \in Devices : i # 1 =>
                  /\ i - 1 \in Devices
                  /\ grant_n_in(i)' = IF we = i - 1 THEN 1 ELSE fsm_grant_n_reg(i - 1)
<1>1. \A i \in Devices : grant_n_in(i) \in {0, 1} /\ (i # 1 => i - 1 \in Devices)
    BY NAssumption DEF TypeOK, grant_n_in, IGRANT_N, Devices
<1>2. \A i \in Devices : i # 1 => grant_n_in(i)' = IF we = i - 1 THEN 1 ELSE fsm_grant_n_reg(i - 1)
    BY <1>1 DEF TimersAdvance, grant_n_in
<1>3. grant_n_in(1)' = IGRANT_N' /\ IGRANT_N' \in {0, 1}
    BY DEF grant_n_in, IGRANT_N
<1>4. \A i \in Devices : State'[i] = IF we = i THEN "s_idle" ELSE fsmState_Next(i)
    BY DEF TimersAdvance
<1>5. \A i \in Devices : fsm_grant_n_reg(i) \in {0, 1}
    BY <1>1 DEF fsm_grant_n_reg
<1>6. \A i \in Devices : grant_n_in(i)' \in {0, 1}
    BY <1>1, <1>2, <1>3, <1>5
<1> QED
    BY <1>1, <1>2, <1>3, <1>4, <1>6

LEMMA InitChain == Init => ChainInv
<1> SUFFICES ASSUME Init PROVE ChainInv
    OBVIOUS
<1>1. StoreInv
    BY DEF Init, StoreInv, StoreStates
<1>2. AgeInv
    BY NAssumption DEF Init, AgeInv, grant_n_in, IGRANT_N, Devices
<1> QED
    BY <1>1, <1>2, InitTypes, InitResume DEF ChainInv

LEMMA StepChain == ChainInv /\ [Next]_vars => ChainInv'
<1> SUFFICES ASSUME ChainInv, [Next]_vars PROVE ChainInv'
    OBVIOUS
<1>1. ASSUME cpu' = cpu, State' = State, grant_n_reg' = grant_n_reg
      PROVE  StoreInv' /\ AgeInv'
    BY <1>1 DEF ChainInv, StoreInv, AgeInv, Age, StoreStates, grant_n_in, IGRANT_N, cpu
<1>2. ASSUME NEW elapsed \in SUBSET Devices, FallingEdge(elapsed)
      PROVE  StoreInv' /\ AgeInv'
    BY <1>1, <1>2 DEF FallingEdge
<1>3. ASSUME UNCHANGED vars
      PROVE  StoreInv' /\ AgeInv'
    <2>1. cpu' = cpu /\ State' = State /\ grant_n_reg' = grant_n_reg
        BY <1>3 DEF vars, cpu
    <2> QED
        BY <1>1, <2>1
<1>4. ASSUME RisingEdge
      PROVE  StoreInv' /\ AgeInv'
    <2>1. PICK c \in BOOLEAN : TimersAdvance(c)
        BY <1>4 DEF RisingEdge
    <2>2. /\ StoreInv'
          /\ cpu_state' # "cs_int_wait_isr" => \A n \in Int : n <= Age' => n <= Age + 1
        BY <1>4, CPUAge DEF RisingEdge, ChainInv
    <2>3. CASE cpu_state' = "cs_int_wait_isr"
        <3>1. \A i \in Devices : ~ (i <= Age')
            BY <2>3 DEF Age, StoreStates, Devices
        <3> QED
            BY <2>2, <3>1, Zenon DEF AgeInv
    <2>4. ASSUME cpu_state' # "cs_int_wait_isr", NEW i \in Devices, i <= Age'
          PROVE  grant_n_in(i)' = 1
        <3>1. CASE i = 1
            BY <2>1, <2>4, <3>1, Shift DEF ChainInv, IGRANT_N
        <3>2. CASE i # 1
            <4>1. i - 1 \in Devices /\ i - 1 <= Age
                <5>1. i \in Int /\ Age \in Int /\ i <= Age + 1
                    BY <2>2, <2>4 DEF Devices, Age, StoreStates
                <5> QED
                    BY <5>1, <3>2, NAssumption DEF Devices
            <4>2. fsm_grant_n_reg(i - 1) = 1
                BY <4>1 DEF ChainInv, AgeInv, fsm_grant_n_reg
            <4> QED
                BY <2>1, <3>2, <4>2, Shift DEF ChainInv
        <3> QED
            BY <3>1, <3>2
    <2> QED
        BY <2>2, <2>3, <2>4, Zenon DEF AgeInv
<1>5. TypeOK' /\ ResumeInv'
    BY StepTypes, StepResume DEF ChainInv
<1> QED
    BY <1>2, <1>3, <1>4, <1>5 DEF Next, ChainInv

(* A device that is still on the bus after the CPU has jumped to the ISR   *)
(* is the third or a later one: in a chain of any length, the two next to  *)
(* the CPU have seen the grant withdrawn by then.                          *)
THEOREM ChainReleasesBus == Spec => []BusReleased
<1>1. ChainInv => BusReleased
    <2> SUFFICES ASSUME ChainInv, NEW i \in Drivers, i <= 2,
                        cpu_state \notin {"cs_int_wait_isr", "cs_int_jmp_isr"}
                 PROVE  FALSE
        BY DEF BusReleased
    <2>1. i \in Devices /\ grant_n_in(i) = 0
        BY DEF Drivers, Driving
    <2>2. i <= Age
        BY <2>1 DEF Age, StoreStates, Devices
    <2> QED
        BY <2>1, <2>2 DEF ChainInv, AgeInv
<1> QED
    BY <1>1, InitChain, StepChain, PTL DEF Spec

(***************************************************************************)
(* One transaction at a time, in a chain of at most five devices: there    *)
(* the grant of one interrupt has left the chain when the CPU gives the    *)
(* next, since at least four clocks lie between the two.  From the sixth   *)
(* device on, two grants can be on their way at once.                      *)
(***************************************************************************)
MaxLength == 5

Passes(k) == State[k] \notin {"s_signal", "s_provide_isr"}

(* The grant is on its way to r: the devices it has reached are the first  *)
(* ones of 1 .. r, those to the left of r hand it on, and r hands it to    *)
(* nobody.                                                                 *)
Granting(r) ==
    /\ ~ Passes(r)
    /\ State[r] = "s_provide_isr" => grant_n_in(r) = 0
    /\ \A k \in Devices : k < r => Passes(k)
    /\ \A k, i \in Devices : k < i /\ i <= r /\ grant_n_in(i) = 0 => grant_n_in(k) = 0
    /\ \A j \in Devices : r < j => grant_n_in(j) = 1

(* Its withdrawal is on its way: the devices that have not seen it are the *)
(* last ones of 1 .. r.                                                    *)
Revoking(r) ==
    /\ State[r] = "s_provide_isr" /\ grant_n_in(r) = 0
    /\ \A k \in Devices : k < r /\ grant_n_in(k) = 0 => Passes(k)
    /\ \A k, i \in Devices : k < i /\ i <= r /\ grant_n_in(k) = 0 => grant_n_in(i) = 0
    /\ \A j \in Devices : r < j => grant_n_in(j) = 1

AllHigh == \A i \in Devices : grant_n_in(i) = 1

PulseInv ==
    IF cpu_state = "cs_int_wait_isr" THEN requester \in Devices /\ Granting(requester)
    ELSE AllHigh \/ \E r \in Devices : Revoking(r)

(* A device pulls the line low at its own input of the CPU side, and at    *)
(* every device to its left that none in between separates from it.        *)
LEMMA LowLine ==
    ASSUME NEW r \in Devices, Asserts(r), NEW k \in Nat, k < r,
           \A j \in Devices : k < j /\ j < r => State[j] # "s_provide_isr"
    PROVE  int_n_in(k) = 0
<1>1. r \in k + 1 .. N /\ \A j \in k + 1 .. r - 1 : j \in Devices /\ k < j /\ j < r
    BY NAssumption DEF Devices
<1> QED
    BY <1>1 DEF int_n_in, int_n_out

LEMMA LowAtCPU ==
    ASSUME NEW r \in Devices, Asserts(r), \A j \in Devices : j < r => State[j] # "s_provide_isr"
    PROVE  INT_N = 0
<1>1. int_n_in(0) = 0
    BY LowLine DEF Devices
<1> QED
    BY <1>1 DEF int_n_in, INT_N

(* The withdrawal moves on by one device, and the device that was granted  *)
(* leaves the bus when it gets there.                                      *)
LEMMA Withdraw ==
    ASSUME TypeOK, NEW r \in Devices, Revoking(r), we = Nobody, IGRANT_N' = 1,
           NEW c \in BOOLEAN, TimersAdvance(c)
    PROVE  AllHigh' \/ Revoking(r)'
<1>1. /\ \A i \in Devices : we # i /\ State'[i] = fsmState_Next(i)
      /\ \A i \in Devices : i # 1 => i - 1 \in Devices /\ grant_n_in(i)' = fsm_grant_n_reg(i - 1)
      /\ \A i \in Devices : grant_n_in(i) \in {0, 1} /\ grant_n_in(i)' \in {0, 1}
      /\ grant_n_in(1)' = 1
    BY Shift DEF Nobody, Devices
<1>2. \A i \in Devices : i # 1 /\ i <= r => grant_n_in(i)' = grant_n_in(i - 1)
    <2> SUFFICES ASSUME NEW i \in Devices, i # 1, i <= r
                 PROVE  fsm_grant_n_reg(i - 1) = grant_n_in(i - 1)
        BY <1>1
    <2>1. i - 1 \in Devices /\ i - 1 < r
        BY <1>1 DEF Devices
    <2> QED
        BY <1>1, <2>1 DEF Revoking, fsm_grant_n_reg, Passes, Fires
<1>3. \A j \in Devices : r < j => grant_n_in(j)' = 1
    <2> SUFFICES ASSUME NEW j \in Devices, r < j
                 PROVE  fsm_grant_n_reg(j - 1) = 1 /\ j # 1
        BY <1>1
    <2>1. j # 1 /\ (j - 1 = r \/ r < j - 1)
        BY DEF Devices
    <2> QED
        BY <1>1, <2>1 DEF Revoking, fsm_grant_n_reg
<1>4. State'[r] = "s_provide_isr"
    BY <1>1 DEF Revoking, fsmState_Next
<1>5. \A k, i \in Devices : k < i /\ i <= r /\ grant_n_in(k)' = 0 => grant_n_in(i)' = 0
    <2> SUFFICES ASSUME NEW k \in Devices, NEW i \in Devices, k < i, i <= r, grant_n_in(k)' = 0
                 PROVE  grant_n_in(i)' = 0
        OBVIOUS
    <2>1. k # 1 /\ i # 1 /\ k <= r
        BY <1>1 DEF Devices
    <2>2. grant_n_in(k - 1) = 0
        BY <1>2, <2>1
    <2>3. k - 1 \in Devices /\ i - 1 \in Devices /\ k - 1 < i - 1 /\ i - 1 <= r
        BY <1>1, <2>1 DEF Devices
    <2>4. grant_n_in(i - 1) = 0
        BY <2>2, <2>3 DEF Revoking
    <2> QED
        BY <1>2, <2>1, <2>4
<1>6. \A k \in Devices : k < r /\ grant_n_in(k)' = 0 => Passes(k)'
    <2> SUFFICES ASSUME NEW k \in Devices, k < r, grant_n_in(k)' = 0
                 PROVE  State'[k] \notin {"s_signal", "s_provide_isr"}
        BY DEF Passes
    <2>1. k # 1 /\ k <= r
        BY <1>1 DEF Devices
    <2>2. grant_n_in(k - 1) = 0 /\ k - 1 \in Devices /\ k - 1 < k
        BY <1>1, <1>2, <2>1 DEF Devices
    <2>3. grant_n_in(k) = 0
        BY <2>1, <2>2 DEF Revoking
    <2>4. State[k] \in TimerStates /\ Passes(k)
        BY <2>3 DEF Revoking, TypeOK
    <2> QED
        BY <1>1, <2>3, <2>4 DEF fsmState_Next, Fires, Passes, TimerStates
<1>7. CASE grant_n_in(r)' = 0
    BY <1>3, <1>4, <1>5, <1>6, <1>7, Zenon DEF Revoking
<1>8. CASE grant_n_in(r)' # 0
    <2>1. \A i \in Devices : i < r \/ i = r \/ r < i
        BY DEF Devices
    <2>2. \A i \in Devices : i < r => grant_n_in(i)' # 0
        BY <1>5, <1>8 DEF Devices
    <2>3. \A i \in Devices : grant_n_in(i)' = 1
        BY <1>1, <1>3, <1>8, <2>1, <2>2
    <2> QED
        BY <2>3, Zenon DEF AllHigh
<1> QED
    BY <1>7, <1>8

(* While the CPU waits for the ISR address the grant moves on by one       *)
(* device, and no device on its way takes it.                              *)
LEMMA Grant ==
    ASSUME TypeOK, NEW r \in Devices, Granting(r), we = Nobody, IGRANT_N' = 0,
           NEW c \in BOOLEAN, TimersAdvance(c)
    PROVE  Granting(r)'
<1>1. /\ \A i \in Devices : we # i /\ State'[i] = fsmState_Next(i)
      /\ \A i \in Devices : i # 1 => i - 1 \in Devices /\ grant_n_in(i)' = fsm_grant_n_reg(i - 1)
      /\ \A i \in Devices : grant_n_in(i) \in {0, 1} /\ grant_n_in(i)' \in {0, 1}
      /\ grant_n_in(1)' = 0
    BY Shift DEF Nobody, Devices
<1>2. \A k \in Devices : k < r => Passes(k) /\ ~ Fires(k)
    <2> SUFFICES ASSUME NEW k \in Devices, k < r
                 PROVE  ~ Fires(k)
        BY DEF Granting
    <2>1. CASE State[r] = "s_signal"
        <3>1. int_n_in(k) = 0
            BY <2>1, LowLine DEF Asserts, Granting, Passes, Devices
        <3> QED
            BY <3>1 DEF Fires
    <2>2. CASE State[r] = "s_provide_isr"
        <3>1. grant_n_in(k) = 0
            BY <2>2 DEF Granting, Devices
        <3> QED
            BY <3>1 DEF Fires
    <2> QED
        BY <2>1, <2>2 DEF Granting, Passes
<1>3. \A i \in Devices : i # 1 /\ i <= r => grant_n_in(i)' = grant_n_in(i - 1)
    <2> SUFFICES ASSUME NEW i \in Devices, i # 1, i <= r
                 PROVE  fsm_grant_n_reg(i - 1) = grant_n_in(i - 1)
        BY <1>1
    <2>1. i - 1 \in Devices /\ i - 1 < r
        BY <1>1 DEF Devices
    <2> QED
        BY <1>2, <2>1 DEF fsm_grant_n_reg, Passes
<1>4. \A j \in Devices : r < j => grant_n_in(j)' = 1
    <2> SUFFICES ASSUME NEW j \in Devices, r < j
                 PROVE  fsm_grant_n_reg(j - 1) = 1 /\ j # 1
        BY <1>1
    <2>1. j # 1 /\ (j - 1 = r \/ r < j - 1)
        BY DEF Devices
    <2> QED
        BY <1>1, <2>1 DEF Granting, Passes, fsm_grant_n_reg
<1>5. \A k \in Devices : k < r => Passes(k)'
    <2> SUFFICES ASSUME NEW k \in Devices, k < r
                 PROVE  State'[k] \notin {"s_signal", "s_provide_isr"}
        BY DEF Passes
    <2>1. State[k] \in TimerStates /\ Passes(k) /\ ~ Fires(k)
        BY <1>2 DEF TypeOK
    <2> QED
        BY <1>1, <2>1 DEF fsmState_Next, Passes, TimerStates
<1>6. \A k, i \in Devices : k < i /\ i <= r /\ grant_n_in(i)' = 0 => grant_n_in(k)' = 0
    <2> SUFFICES ASSUME NEW k \in Devices, NEW i \in Devices, k < i, i <= r, grant_n_in(i)' = 0
                 PROVE  grant_n_in(k)' = 0
        OBVIOUS
    <2>1. CASE k = 1
        BY <1>1, <2>1
    <2>2. CASE k # 1
        <3>1. i # 1 /\ k <= r
            BY <2>2 DEF Devices
        <3>2. grant_n_in(i - 1) = 0
            BY <1>3, <3>1
        <3>3. k - 1 \in Devices /\ i - 1 \in Devices /\ k - 1 < i - 1 /\ i - 1 <= r
            BY <1>1, <2>2, <3>1 DEF Devices
        <3>4. grant_n_in(k - 1) = 0
            BY <3>2, <3>3 DEF Granting
        <3> QED
            BY <1>3, <2>2, <3>1, <3>4
    <2> QED
        BY <2>1, <2>2
<1>7. /\ State'[r] \in {"s_signal", "s_provide_isr"}
      /\ State'[r] = "s_provide_isr" => grant_n_in(r) = 0
    BY <1>1 DEF Granting, Passes, fsmState_Next
<1>8. State'[r] = "s_provide_isr" => grant_n_in(r)' = 0
    <2> SUFFICES ASSUME grant_n_in(r) = 0, r # 1 PROVE grant_n_in(r)' = 0
        BY <1>1, <1>7
    <2>1. r - 1 \in Devices /\ r - 1 < r /\ r <= r
        BY <1>1 DEF Devices
    <2>2. grant_n_in(r - 1) = 0
        BY <2>1 DEF Granting
    <2> QED
        BY <1>3, <2>1, <2>2
<1>9. ~ Passes(r)'
    BY <1>7 DEF Passes
<1> QED
    BY <1>4, <1>5, <1>6, <1>8, <1>9, Zenon DEF Granting

(* INT_N goes high again when, and only when, the requester has the grant. *)
LEMMA Answered ==
    ASSUME NEW r \in Devices, Granting(r), INT_N = 1
    PROVE  Revoking(r) /\ Drivers = {r}
<1>1. ~ Asserts(r)
    BY LowAtCPU DEF Granting, Passes
<1>2. State[r] = "s_provide_isr" /\ grant_n_in(r) = 0
    BY <1>1 DEF Asserts, Granting, Passes
<1>3. \A k \in Devices : k < r => grant_n_in(k) = 0 /\ Passes(k)
    BY <1>2 DEF Granting, Devices
<1>4. \A j \in Devices : r < j => grant_n_in(j) = 1
    BY DEF Granting
<1>5. Revoking(r)
    <2>1. \A k, i \in Devices : k < i /\ i <= r => grant_n_in(i) = 0
        BY <1>2, <1>3 DEF Devices
    <2> QED
        BY <1>2, <1>3, <1>4, <2>1 DEF Revoking
<1>6. \A i \in Devices : i < r \/ i = r \/ r < i
    BY DEF Devices
<1>7. \A i \in Devices : Driving(i) <=> i = r
    BY <1>2, <1>3, <1>4, <1>6 DEF Driving, Passes
<1> QED
    BY <1>5, <1>7 DEF Drivers

(* When the CPU takes an interrupt up, the device it comes from stays with *)
(* its request and shuts the chain behind it.                              *)
LEMMA TakenUp ==
    ASSUME TypeOK, NEW r \in Devices, Requesting(r), we = Nobody, IGRANT_N' = 0,
           NEW c \in BOOLEAN, TimersAdvance(c),
           \A k \in Devices : k <= r => grant_n_in(k) = 1,
           \A j \in Devices : grant_n_in(j) = 1 \/ j = N
    PROVE  Granting(r)'
<1>1. /\ \A i \in Devices : we # i /\ State'[i] = fsmState_Next(i)
      /\ \A i \in Devices : i # 1 => i - 1 \in Devices /\ grant_n_in(i)' = fsm_grant_n_reg(i - 1)
      /\ \A i \in Devices : grant_n_in(i) \in {0, 1} /\ grant_n_in(i)' \in {0, 1}
      /\ grant_n_in(1)' = 0
    BY Shift DEF Nobody, Devices
<1>2. \A k \in Devices : k < r => Passes(k) /\ ~ Fires(k)
    <2>1. \A k \in Devices : k < r => Passes(k)
        BY DEF Requesting, Passes, Devices
    <2>2. ASSUME NEW k \in Devices, k < r PROVE int_n_in(k) = 0
        BY <2>1, <2>2, LowLine DEF Requesting, Asserts, Passes, Devices
    <2> QED
        BY <2>1, <2>2 DEF Fires
<1>3. State'[r] = "s_signal"
    <2>1. r \in Devices /\ grant_n_in(r) = 1
        BY DEF Devices
    <2> QED
        BY <1>1, <2>1 DEF Requesting, Asserts, fsmState_Next, Fires
<1>4. \A k \in Devices : k < r => Passes(k)'
    <2> SUFFICES ASSUME NEW k \in Devices, k < r
                 PROVE  State'[k] \notin {"s_signal", "s_provide_isr"}
        BY DEF Passes
    <2>1. State[k] \in TimerStates /\ Passes(k) /\ ~ Fires(k)
        BY <1>2 DEF TypeOK
    <2> QED
        BY <1>1, <2>1 DEF fsmState_Next, Passes, TimerStates
<1>5. \A j \in Devices : j # 1 => grant_n_in(j)' = 1
    <2> SUFFICES ASSUME NEW j \in Devices, j # 1
                 PROVE  fsm_grant_n_reg(j - 1) = 1
        BY <1>1
    <2>1. j - 1 \in Devices /\ j - 1 # N
        BY <1>1, NAssumption DEF Devices
    <2> QED
        BY <2>1 DEF fsm_grant_n_reg
<1>6. \A j \in Devices : r < j => grant_n_in(j)' = 1
    BY <1>5 DEF Devices
<1>7. \A k, i \in Devices : k < i /\ i <= r /\ grant_n_in(i)' = 0 => grant_n_in(k)' = 0
    <2>1. \A k, i \in Devices : k < i => i # 1
        BY DEF Devices
    <2> QED
        BY <1>5, <2>1
<1>8. ~ Passes(r)' /\ State'[r] # "s_provide_isr"
    BY <1>3 DEF Passes
<1> QED
    BY <1>4, <1>6, <1>7, <1>8, Zenon DEF Granting

LEMMA InitPulse == Init => PulseInv
BY NAssumption DEF Init, PulseInv, AllHigh, grant_n_in, IGRANT_N, Devices

(* One clock of a chain of at most five devices. *)
LEMMA RisePulse ==
    ASSUME N <= MaxLength, ChainInv, PulseInv, RisingEdge
    PROVE  PulseInv'
<1>1. PICK c \in BOOLEAN : TimersAdvance(c)
    BY DEF RisingEdge
<1>2. CPUAdvance /\ TypeOK
    BY DEF RisingEdge, ChainInv
<1>3. /\ cpu_state' = "cs_int_wait_isr" => Int_Active' /\ (WaitISR \/ TakeInterrupt)
      /\ cpu_state = "cs_int_wait_isr" => WaitISR \/ ReadISR
    BY <1>2, CPUAge DEF ChainInv
<1>4. IGRANT_N' = IF cpu_state' = "cs_int_wait_isr" THEN 0 ELSE 1
    BY <1>3 DEF IGRANT_N
<1>5. \A r \in Devices : Revoking(r) => we = Nobody
    <2> SUFFICES ASSUME NEW r \in Devices, Revoking(r), we # Nobody
                 PROVE  FALSE
        OBVIOUS
    <2>1. Age = 5
        BY DEF ChainInv, StoreInv, Age, StoreStates
    <2>2. grant_n_in(r) = 1
        <3>1. r <= 5
            BY NAssumption DEF MaxLength, Devices
        <3> QED
            BY <2>1, <3>1 DEF ChainInv, AgeInv
    <2> QED
        BY <2>2 DEF Revoking
<1>6. cpu_state = "cs_int_wait_isr" => we = Nobody
    BY DEF ChainInv, StoreInv, StoreStates
<1>7. CASE WaitISR
    <2>1. cpu_state = "cs_int_wait_isr" /\ cpu_state' = cpu_state /\ requester' = requester
        BY <1>7 DEF WaitISR
    <2>2. PICK r \in Devices : r = requester /\ Granting(r)
        BY <2>1 DEF PulseInv
    <2>3. Granting(r)'
        BY <1>1, <1>2, <1>4, <1>6, <2>1, <2>2, Grant
    <2>4. requester' = r
        BY <2>1, <2>2
    <2> QED
        BY <2>1, <2>3, <2>4 DEF PulseInv, Granting, Passes, grant_n_in, IGRANT_N
<1>8. CASE ReadISR
    <2>1. cpu_state = "cs_int_wait_isr" /\ cpu_state' # "cs_int_wait_isr" /\ INT_N = 1
        BY <1>8 DEF ReadISR
    <2>2. PICK r \in Devices : r = requester /\ Granting(r)
        BY <2>1 DEF PulseInv
    <2>3. Revoking(r)
        BY <2>1, <2>2, Answered
    <2>4. AllHigh' \/ Revoking(r)'
        BY <1>1, <1>2, <1>4, <1>6, <2>1, <2>3, Withdraw
    <2> QED
        BY <2>1, <2>4, Zenon DEF PulseInv
<1>9. CASE TakeInterrupt
    <2>1. cpu_state = "cs_fetch" /\ ~ Int_Active /\ INT_N = 0 /\ cpu_state' = "cs_int_wait_isr"
        BY <1>9 DEF TakeInterrupt
    <2>2. PICK r \in Devices : r = requester' /\ Requesting(r)
        <3>1. \E i \in Devices : Requesting(i)
            BY <2>1, InterruptHasRequester
        <3> QED
            BY <3>1, <1>9 DEF TakeInterrupt
    <2>3. Age = 4 /\ we = Nobody
        BY <2>1 DEF Age, ChainInv, StoreInv, StoreStates
    <2>4. \A i \in Devices : grant_n_in(i) = 1 \/ i = N
        <3>1. \A i \in Devices : i <= 4 \/ i = N
            BY NAssumption DEF Devices, MaxLength
        <3> QED
            BY <2>3, <3>1 DEF ChainInv, AgeInv
    <2>5. \A k \in Devices : k <= r => grant_n_in(k) = 1
        <3>1. CASE AllHigh
            BY <3>1 DEF AllHigh
        <3>2. CASE ~ AllHigh
            <4>1. PICK e \in Devices : Revoking(e)
                BY <2>1, <3>2 DEF PulseInv
            <4>2. e = N /\ e # r
                BY <2>2, <2>4, <4>1 DEF Revoking, Requesting, Asserts
            <4>3. \A k \in Devices : k <= r => k # N
                BY <4>2, NAssumption DEF Devices
            <4> QED
                BY <2>4, <4>3
        <3> QED
            BY <3>1, <3>2
    <2>6. Granting(r)'
        BY <1>1, <1>2, <1>4, <2>1, <2>2, <2>3, <2>4, <2>5, TakenUp
    <2> QED
        BY <2>1, <2>2, <2>6 DEF PulseInv, Granting, Passes, grant_n_in, IGRANT_N
<1>10. CASE cpu_state # "cs_int_wait_isr" /\ cpu_state' # "cs_int_wait_isr"
    <2>1. CASE \E r \in Devices : Revoking(r)
        <3>1. PICK r \in Devices : Revoking(r)
            BY <2>1
        <3>2. AllHigh' \/ Revoking(r)'
            BY <1>1, <1>2, <1>4, <1>5, <1>10, <3>1, Withdraw
        <3> QED
            BY <1>10, <3>2, Zenon DEF PulseInv
    <2>2. CASE AllHigh
        <3>1. \A i \in Devices : grant_n_in(i)' = 1
            BY <1>1, <1>2, <1>4, <1>10, <2>2, Shift DEF AllHigh, fsm_grant_n_reg
        <3> QED
            BY <1>10, <3>1, Zenon DEF PulseInv, AllHigh
    <2> QED
        BY <1>10, <2>1, <2>2 DEF PulseInv
<1> QED
    BY <1>3, <1>7, <1>8, <1>9, <1>10

LEMMA StepPulse ==
    ASSUME N <= MaxLength
    PROVE  ChainInv /\ PulseInv /\ [Next]_vars => PulseInv'
<1> SUFFICES ASSUME ChainInv, PulseInv, [Next]_vars PROVE PulseInv'
    OBVIOUS
<1>1. ASSUME cpu' = cpu, State' = State, grant_n_reg' = grant_n_reg, requester' = requester
      PROVE  PulseInv'
    BY <1>1 DEF PulseInv, AllHigh, Granting, Revoking, Passes, grant_n_in, IGRANT_N, cpu
<1>2. ASSUME NEW elapsed \in SUBSET Devices, FallingEdge(elapsed)
      PROVE  PulseInv'
    BY <1>1, <1>2 DEF FallingEdge
<1>3. CASE UNCHANGED vars
    <2>1. cpu' = cpu /\ State' = State /\ grant_n_reg' = grant_n_reg /\ requester' = requester
        BY <1>3 DEF vars, cpu
    <2> QED
        BY <1>1, <2>1
<1> QED
    BY <1>2, <1>3, RisePulse DEF Next

(* The devices on the bus: none but the one the grant of this interrupt,   *)
(* or the withdrawal of the last one, is on its way to.                    *)
LEMMA PulseDrivers ==
    ASSUME PulseInv
    PROVE  \E r \in Devices \cup {Nobody} : Drivers \subseteq {r}
<1>1. \A i \in Devices, r \in Devices : i < r \/ i = r \/ r < i
    BY DEF Devices
<1>2. CASE cpu_state = "cs_int_wait_isr"
    BY <1>1, <1>2 DEF PulseInv, Granting, Passes, Drivers, Driving
<1>3. ASSUME NEW r \in Devices, Revoking(r)
      PROVE  Drivers \subseteq {r}
    BY <1>1, <1>3 DEF Revoking, Passes, Drivers, Driving
<1>4. CASE AllHigh
    BY <1>4 DEF AllHigh, Drivers, Driving
<1> QED
    BY <1>2, <1>3, <1>4 DEF PulseInv

(* Two devices never drive the data bus at once, in a chain of at most     *)
(* five: a grant that is still being withdrawn from the last device can    *)
(* not meet the next one.                                                  *)
THEOREM ChainOneDriver ==
    ASSUME N <= MaxLength
    PROVE  Spec => []OneDriver
<1>1. PulseInv => OneDriver
    <2> SUFFICES ASSUME PulseInv PROVE Cardinality(Drivers) <= 1
        BY DEF OneDriver
    <2>1. PICK r \in Devices \cup {Nobody} : Drivers \subseteq {r}
        BY PulseDrivers
    <2>2. Drivers = {} \/ Drivers = {r}
        BY <2>1
    <2>3. Cardinality({}) = 0 /\ Cardinality({r}) = 1
        BY FS_EmptySet, FS_Singleton
    <2> QED
        BY <2>2, <2>3
<1> QED
    BY <1>1, InitChain, InitPulse, StepChain, StepPulse, PTL DEF Spec

(* The CPU reads the ISR address when the device whose request it took up, *)
(* and no other, drives the bus, in a chain of at most five: none of the   *)
(* devices to its left, which all see the grant first, takes it away.      *)
THEOREM ChainGrantReachesRequester ==
    ASSUME N <= MaxLength
    PROVE  Spec => []GrantReachesRequester
<1>1. PulseInv => GrantReachesRequester
    BY Answered DEF PulseInv, GrantReachesRequester
<1> QED
    BY <1>1, InitChain, InitPulse, StepChain, StepPulse, PTL DEF Spec
=============================================================================
