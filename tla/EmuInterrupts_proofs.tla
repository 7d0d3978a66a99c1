------------------------ MODULE EmuInterrupts_proofs ------------------------
(***************************************************************************)
(* Proofs about interrupts in the emulator (module EmuInterrupts) for      *)
(* every number of timers, of service routines and of thread handles.      *)
(***************************************************************************)
EXTENDS EmuInterrupts, TLAPS

(* Where the dispatch stands, in terms of the flag and the two PCs. *)
DispatchInv ==
    /\ pc # Main => interrupt_active
    /\ interrupt_active /\ cpu.at # "clear" => saved_pc = Main
    /\ cpu.at = "clear" => interrupt_active /\ pc = Main
    /\ cpu.at = "jump" => interrupt_active

Owned(h) == thread[h].timer \in Timers /\ thread_list[thread[h].timer] = h

(* A live thread is the one thread_list names, belongs to a timer that is  *)
(* armed unless its registers are being written, and is gone before the    *)
(* next one is created.                                                    *)
ThreadInv ==
    /\ \A h \in Handles : Live(h) => Owned(h)
    /\ \A h \in Handles : Live(h) /\ cpu.timer # thread[h].timer => Armed(thread[h].timer)
    /\ cpu.at = "create" => \A h \in Handles : Live(h) => thread[h].timer # cpu.timer
    /\ cpu.at = "create" => Armed(cpu.timer)

(* The request is up, or somebody is between its address and its request. *)
Requested ==
    \/ interrupt_request = TRUE
    \/ cpu.at \in {"post", "clear", "jump"}
    \/ \E h \in Handles : thread[h].st = "request"

(* Whoever raises the request has stored an address before. *)
AddressInv ==
    /\ pc # Unset
    /\ saved_pc # Unset
    /\ Requested => interrupt_address # Unset

IndInv == TypeOK /\ DispatchInv /\ ThreadInv /\ AddressInv

LEMMA InitIndInv == Init => IndInv
<1> SUFFICES ASSUME Init PROVE IndInv
    OBVIOUS
<1>1. TypeOK
    <2>1. thread \in [Handles -> [st : {"none", "asleep", "address", "request"},
                                 timer : Timers \cup {Null}, cancelled : BOOLEAN]]
        BY DEF Init, Off
    <2>2. interrupt_request \in BOOLEAN /\ interrupt_active \in BOOLEAN
        BY DEF Init
    <2>3. cpu \in [at : Labels, timer : {Null}]
        BY DEF Init, At, Labels
    <2>4. runs \in 0 .. MaxRuns
        BY MaxRunsAssumption DEF Init
    <2> QED
        BY <2>1, <2>2, <2>3, <2>4 DEF Init, TypeOK, Places
<1>2. DispatchInv
    BY DEF Init, DispatchInv, At
<1>3. ThreadInv
    BY DEF Init, ThreadInv, Live, Off, At
<1>4. AddressInv
    BY AddrAssumption DEF Init, AddressInv, Requested, Off, At
<1> QED
    BY <1>1, <1>2, <1>3, <1>4 DEF IndInv

(* The CPU thread serves a timer at three labels only. *)
LEMMA TimerServed ==
    ASSUME TypeOK
    PROVE  /\ cpu.at \in Labels => cpu.timer = Null
           /\ cpu.at \in TimerLabels => cpu.timer \in Timers
BY DEF TypeOK, Labels, TimerLabels

(* A step of the CPU thread that leaves timers and threads alone. *)
LEMMA ThreadFrame ==
    ASSUME TypeOK, ThreadInv, UNCHANGED <<registers, thread>>,
           cpu.at \in Labels, cpu'.at # "create"
    PROVE  ThreadInv'
<1>1. cpu.timer = Null
    BY TimerServed
<1>2. \A h \in Handles : Live(h) => Owned(h) /\ Armed(thread[h].timer)
    BY <1>1, NullAssumption DEF ThreadInv, Owned
<1>3. \A h \in Handles : /\ Live(h)' = Live(h)
                          /\ Owned(h)' = Owned(h)
                          /\ Armed(thread[h].timer)' = Armed(thread[h].timer)
    BY DEF Live, Owned, Armed, registers
<1> QED
    BY <1>2, <1>3 DEF ThreadInv, registers

LEMMA StepIndInv == IndInv /\ [Next]_vars => IndInv'
<1> SUFFICES ASSUME IndInv, [Next]_vars PROVE IndInv'
    OBVIOUS
<1>0. TypeOK /\ DispatchInv /\ ThreadInv /\ AddressInv
    BY DEF IndInv
<1> USE AddrAssumption, NullAssumption, MaxRunsAssumption
<1>1. ASSUME NEW p \in {pc, Main}, Run(p) PROVE IndInv'
    <2>1. TypeOK'
        BY <1>0, <1>1 DEF Run, registers, flags, At, TypeOK, Labels, TimerLabels, Places
    <2>2. DispatchInv'
        BY <1>0, <1>1 DEF Run, registers, flags, At, DispatchInv
    <2>3. ThreadInv'
        BY <1>0, <1>1, ThreadFrame DEF Run, registers, flags, At, Labels
    <2>4. AddressInv'
        BY <1>0, <1>1 DEF Run, registers, flags, At, TypeOK, AddressInv, Requested
    <2> QED
        BY <2>1, <2>2, <2>3, <2>4 DEF IndInv
<1>2. CASE reset_machine
    <2>1. TypeOK'
        BY <1>0, <1>2 DEF reset_machine, registers, TypeOK, Labels, TimerLabels, Places
    <2>2. DispatchInv'
        BY <1>0, <1>2 DEF reset_machine, registers, DispatchInv
    <2>3. ThreadInv'
        BY <1>0, <1>2, ThreadFrame DEF reset_machine, registers, Labels
    <2>4. AddressInv'
        BY <1>0, <1>2 DEF reset_machine, registers, TypeOK, AddressInv, Requested
    <2> QED
        BY <2>1, <2>2, <2>3, <2>4 DEF IndInv
<1>3. CASE CtrlC
    <2>1. TypeOK'
        BY <1>0, <1>3 DEF CtrlC, registers, flags, At, TypeOK, Labels, TimerLabels, Places
    <2>2. DispatchInv'
        BY <1>0, <1>3 DEF CtrlC, registers, flags, At, DispatchInv
    <2>3. ThreadInv'
        BY <1>0, <1>3, ThreadFrame DEF CtrlC, registers, flags, At, Labels
    <2>4. AddressInv'
        BY <1>0, <1>3 DEF CtrlC, registers, flags, At, TypeOK, AddressInv, Requested
    <2> QED
        BY <2>1, <2>2, <2>3, <2>4 DEF IndInv
<1>4. CASE Fetch
    <2>1. TypeOK'
        <3>1. interrupt_active' \in BOOLEAN
            BY <1>0, <1>4, Zenon DEF Fetch, TypeOK
        <3>2. cpu' \in [at : Labels, timer : {Null}]
            BY <1>4 DEF Fetch, At, Labels
        <3> QED
            BY <1>0, <1>4, <3>1, <3>2 DEF Fetch, registers, TypeOK
    <2>2. DispatchInv'
        BY <1>0, <1>4 DEF Fetch, registers, At, DispatchInv
    <2>3. ThreadInv'
        BY <1>0, <1>4, ThreadFrame DEF Fetch, registers, At, Labels
    <2>4. AddressInv'
        BY <1>0, <1>4 DEF Fetch, registers, At, TypeOK, AddressInv, Requested
    <2> QED
        BY <2>1, <2>2, <2>3, <2>4 DEF IndInv
<1>5. CASE ClearRequest
    <2>1. TypeOK'
        BY <1>0, <1>5 DEF ClearRequest, registers, At, TypeOK, Labels, TimerLabels, Places
    <2>2. DispatchInv'
        BY <1>0, <1>5 DEF ClearRequest, registers, At, DispatchInv
    <2>3. ThreadInv'
        BY <1>0, <1>5, ThreadFrame DEF ClearRequest, registers, At, Labels
    <2>4. AddressInv'
        BY <1>0, <1>5 DEF ClearRequest, registers, At, TypeOK, AddressInv, Requested
    <2> QED
        BY <2>1, <2>2, <2>3, <2>4 DEF IndInv
<1>6. CASE Jump
    <2>1. TypeOK'
        BY <1>0, <1>6 DEF Jump, registers, flags, At, TypeOK, Labels, TimerLabels, Places
    <2>2. DispatchInv'
        BY <1>0, <1>6 DEF Jump, registers, flags, At, DispatchInv
    <2>3. ThreadInv'
        BY <1>0, <1>6, ThreadFrame DEF Jump, registers, flags, At, Labels
    <2>4. AddressInv'
        BY <1>0, <1>6 DEF Jump, registers, flags, At, TypeOK, AddressInv, Requested
    <2> QED
        BY <2>1, <2>2, <2>3, <2>4 DEF IndInv
<1>7. CASE Plain
    <2>1. TypeOK'
        BY <1>0, <1>7 DEF Plain, registers, flags, At, TypeOK, Labels, TimerLabels, Places
    <2>2. DispatchInv'
        BY <1>0, <1>7 DEF Plain, registers, flags, At, DispatchInv
    <2>3. ThreadInv'
        BY <1>0, <1>7, ThreadFrame DEF Plain, registers, flags, At, Labels
    <2>4. AddressInv'
        BY <1>0, <1>7 DEF Plain, registers, flags, At, TypeOK, AddressInv, Requested
    <2> QED
        BY <2>1, <2>2, <2>3, <2>4 DEF IndInv
<1>8. CASE Halt
    <2>1. TypeOK'
        BY <1>0, <1>8 DEF Halt, registers, flags, At, TypeOK, Labels, TimerLabels, Places
    <2>2. DispatchInv'
        BY <1>0, <1>8 DEF Halt, registers, flags, At, DispatchInv
    <2>3. ThreadInv'
        BY <1>0, <1>8, ThreadFrame DEF Halt, registers, flags, At, Labels
    <2>4. AddressInv'
        BY <1>0, <1>8 DEF Halt, registers, flags, At, TypeOK, AddressInv, Requested
    <2> QED
        BY <2>1, <2>2, <2>3, <2>4 DEF IndInv
<1>9. CASE RTI
    <2>1. TypeOK'
        <3>1. interrupt_active' \in BOOLEAN
            BY <1>0, <1>9, Zenon DEF RTI, TypeOK
        <3>2. cpu' \in [at : Labels, timer : {Null}]
            BY <1>9 DEF RTI, At, Labels
        <3>3. pc' \in Places
            BY <1>0, <1>9 DEF RTI, TypeOK
        <3> QED
            BY <1>0, <1>9, <3>1, <3>2, <3>3 DEF RTI, registers, TypeOK
    <2>2. DispatchInv'
        BY <1>0, <1>9 DEF RTI, registers, At, DispatchInv
    <2>3. ThreadInv'
        BY <1>0, <1>9, ThreadFrame DEF RTI, registers, At, Labels
    <2>4. AddressInv'
        BY <1>0, <1>9 DEF RTI, registers, At, TypeOK, AddressInv, Requested
    <2> QED
        BY <2>1, <2>2, <2>3, <2>4 DEF IndInv
<1>10. ASSUME NEW a \in Addr, INT(a) PROVE IndInv'
    <2>1. TypeOK'
        BY <1>0, <1>10 DEF INT, registers, At, TypeOK, Labels, TimerLabels, Places
    <2>2. DispatchInv'
        BY <1>0, <1>10 DEF INT, registers, At, DispatchInv
    <2>3. ThreadInv'
        BY <1>0, <1>10, ThreadFrame DEF INT, registers, At, Labels
    <2>4. AddressInv'
        BY <1>0, <1>10 DEF INT, registers, At, TypeOK, AddressInv, Requested
    <2> QED
        BY <2>1, <2>2, <2>3, <2>4 DEF IndInv
<1>11. CASE PostINT
    <2>1. TypeOK'
        BY <1>0, <1>11 DEF PostINT, registers, At, TypeOK, Labels, TimerLabels, Places
    <2>2. DispatchInv'
        BY <1>0, <1>11 DEF PostINT, registers, At, DispatchInv
    <2>3. ThreadInv'
        BY <1>0, <1>11, ThreadFrame DEF PostINT, registers, At, Labels
    <2>4. AddressInv'
        BY <1>0, <1>11 DEF PostINT, registers, At, TypeOK, AddressInv, Requested
    <2> QED
        BY <2>1, <2>2, <2>3, <2>4 DEF IndInv
<1>12. ASSUME NEW i \in Timers, NEW r \in {"PRE", "CNT", "INT"}, NEW v \in Addr \cup {0, 1},
             r # "INT" => v \in {0, 1}, r = "INT" => v \in Addr \cup {0}, StoreRegister(i, r, v)
      PROVE  IndInv'
    <2>1. TypeOK'
        <3>1. [reg[i] EXCEPT ![r] = v] \in [PRE : {0, 1}, CNT : {0, 1}, INT : Addr \cup {0}]
            BY <1>0, <1>12 DEF TypeOK
        <3>2. reg' = [reg EXCEPT ![i] = [reg[i] EXCEPT ![r] = v]]
            BY <1>12 DEF StoreRegister
        <3>3. reg' \in [Timers -> [PRE : {0, 1}, CNT : {0, 1}, INT : Addr \cup {0}]]
            BY <1>0, <3>1, <3>2 DEF TypeOK
        <3>4. cpu' \in [at : TimerLabels, timer : Timers]
            BY <1>12 DEF StoreRegister, Writing, TimerLabels
        <3> QED
            BY <1>0, <1>12, <3>3, <3>4 DEF StoreRegister, flags, TypeOK
    <2>2. DispatchInv'
        BY <1>0, <1>12 DEF StoreRegister, flags, Writing, DispatchInv
    <2>3. ThreadInv'
        <3>1. cpu.timer = Null /\ cpu'.timer = i /\ cpu'.at = "stored"
            BY <1>0, <1>12, TimerServed DEF StoreRegister, Writing, Labels
        <3>2. \A h \in Handles : Live(h) => Owned(h) /\ Armed(thread[h].timer)
            BY <1>0, <3>1 DEF ThreadInv, Owned
        <3>3. \A j \in Timers : j # i => reg'[j] = reg[j]
            BY <1>0, <1>12 DEF StoreRegister, TypeOK
        <3>4. thread_list' = thread_list /\ thread' = thread
            BY <1>12 DEF StoreRegister
        <3> QED
            BY <3>1, <3>2, <3>3, <3>4 DEF ThreadInv, Live, Owned, Armed
    <2>4. AddressInv'
        BY <1>0, <1>12 DEF StoreRegister, flags, Writing, TypeOK, AddressInv, Requested
    <2> QED
        BY <2>1, <2>2, <2>3, <2>4 DEF IndInv
<1>13. CASE CancelThread
    <2>1. TypeOK'
        <3> DEFINE h == thread_list[cpu.timer]
        <3>1. cpu.timer \in Timers
            BY <1>0, <1>13, TimerServed DEF CancelThread, TimerLabels
        <3>2. h \in Handles
            BY <1>0, <1>13, <3>1 DEF CancelThread, TypeOK
        <3>3. thread' \in [Handles -> [st : {"none", "asleep", "address", "request"},
                                     timer : Timers \cup {Null}, cancelled : BOOLEAN]]
            <4> HIDE DEF h
            <4>1. CASE UNCHANGED thread
                BY <1>0, <4>1 DEF TypeOK
            <4>2. CASE thread' = [thread EXCEPT ![h].cancelled = TRUE]
                <5>1. [thread[h] EXCEPT !.cancelled = TRUE]
                          \in [st : {"none", "asleep", "address", "request"},
                              timer : Timers \cup {Null}, cancelled : BOOLEAN]
                    <6>1. thread[h] \in [st : {"none", "asleep", "address", "request"},
                                        timer : Timers \cup {Null}, cancelled : BOOLEAN]
                        BY <1>0, <3>2 DEF TypeOK
                    <6>2. TRUE \in BOOLEAN
                        OBVIOUS
                    <6> QED
                        BY <6>1, <6>2, Zenon
                <5> QED
                    BY <1>0, <3>2, <4>2, <5>1 DEF TypeOK
            <4> QED
                BY <1>13, <4>1, <4>2 DEF CancelThread, h
        <3>4. cpu' \in [at : Labels, timer : {Null}] \cup [at : TimerLabels, timer : Timers]
            BY <1>13, <3>1 DEF CancelThread, At, Writing, Labels, TimerLabels
        <3> QED
            BY <1>0, <1>13, <3>3, <3>4 DEF CancelThread, registers, flags, TypeOK
    <2>2. DispatchInv'
        BY <1>0, <1>13 DEF CancelThread, registers, flags, At, Writing, DispatchInv
    <2>3. ThreadInv'
        <3>1. cpu.timer \in Timers /\ thread_list[cpu.timer] \in Handles
            BY <1>0, <1>13, TimerServed DEF CancelThread, TimerLabels, TypeOK
        <3>2. \A h \in Handles : thread'[h].st = thread[h].st /\ thread'[h].timer = thread[h].timer
            BY <1>0, <1>13 DEF CancelThread, TypeOK
        <3>3. reg' = reg /\ thread_list' = thread_list
            BY <1>13 DEF CancelThread, registers
        <3>4. CASE Live(thread_list[cpu.timer])
            <4>1. cpu' = Writing("join", cpu.timer)
                BY <1>13, <3>4 DEF CancelThread
            <4> QED
                BY <1>0, <3>2, <3>3, <4>1 DEF ThreadInv, Live, Owned, Armed, Writing
        <3>5. CASE ~Live(thread_list[cpu.timer])
            <4>1. cpu' = At("exited")
                BY <1>13, <3>5 DEF CancelThread
            <4>2. \A h \in Handles : Live(h) => thread[h].timer # cpu.timer
                BY <1>0, <3>5 DEF ThreadInv, Owned
            <4> QED
                BY <1>0, <3>2, <3>3, <4>1, <4>2 DEF ThreadInv, Live, Owned, Armed, At
        <3> QED
            BY <3>4, <3>5
    <2>4. AddressInv'
        BY <1>0, <1>13 DEF CancelThread, registers, flags, At, Writing, TypeOK, AddressInv, Requested
    <2> QED
        BY <2>1, <2>2, <2>3, <2>4 DEF IndInv
<1>14. CASE JoinThread
    <2>1. TypeOK'
        BY <1>0, <1>14 DEF JoinThread, registers, flags, At, Writing, TypeOK, Labels, TimerLabels, Places
    <2>2. DispatchInv'
        BY <1>0, <1>14 DEF JoinThread, registers, flags, At, Writing, DispatchInv
    <2>3. ThreadInv'
        BY <1>0, <1>14 DEF JoinThread, registers, flags, At, Writing, TypeOK, ThreadInv, Live, Owned, Armed
    <2>4. AddressInv'
        BY <1>0, <1>14 DEF JoinThread, registers, flags, At, Writing, TypeOK, AddressInv, Requested
    <2> QED
        BY <2>1, <2>2, <2>3, <2>4 DEF IndInv
<1>15. CASE NoThreadYet
    <2>1. TypeOK'
        BY <1>0, <1>15 DEF NoThreadYet, registers, flags, At, Writing, TypeOK, Labels, TimerLabels, Places
    <2>2. DispatchInv'
        BY <1>0, <1>15 DEF NoThreadYet, registers, flags, At, Writing, DispatchInv
    <2>3. ThreadInv'
        BY <1>0, <1>15 DEF NoThreadYet, registers, flags, At, Writing, TypeOK, ThreadInv, Live, Owned, Armed
    <2>4. AddressInv'
        BY <1>0, <1>15 DEF NoThreadYet, registers, flags, At, Writing, TypeOK, AddressInv, Requested
    <2> QED
        BY <2>1, <2>2, <2>3, <2>4 DEF IndInv
<1>16. ASSUME NEW h \in Handles, CreateThread(h) PROVE IndInv'
    <2>1. TypeOK'
        BY <1>0, <1>16 DEF CreateThread, registers, flags, At, TypeOK, Labels, TimerLabels, Places
    <2>2. DispatchInv'
        BY <1>0, <1>16 DEF CreateThread, registers, flags, At, DispatchInv
    <2>3. ThreadInv'
        <3>1. cpu.timer \in Timers /\ Armed(cpu.timer) /\ ~Live(h)
            BY <1>0, <1>16, TimerServed DEF CreateThread, TimerLabels, ThreadInv
        <3>2. /\ thread_list' = [thread_list EXCEPT ![cpu.timer] = h]
              /\ thread'[h].timer = cpu.timer
              /\ \A g \in Handles : g # h => thread'[g] = thread[g]
            BY <1>0, <1>16 DEF CreateThread, TypeOK
        <3>3. reg' = reg /\ cpu'.at = "fetch" /\ cpu'.timer = Null
            BY <1>16 DEF CreateThread, At
        <3>4. thread_list'[cpu.timer] = h
            BY <1>0, <3>1, <3>2 DEF TypeOK
        <3>5. ASSUME NEW g \in Handles, Live(g)'
              PROVE  Owned(g)' /\ Armed(thread[g].timer)'
            <4>1. CASE g = h
                BY <3>1, <3>2, <3>3, <3>4, <4>1 DEF Owned, Armed
            <4>2. CASE g # h
                <5>1. Live(g) /\ Owned(g) /\ thread[g].timer # cpu.timer
                    BY <1>0, <1>16, <3>2, <3>5, <4>2 DEF Live, ThreadInv, CreateThread
                <5>2. Armed(thread[g].timer)
                    BY <1>0, <5>1 DEF ThreadInv
                <5>3. thread_list'[thread[g].timer] = thread_list[thread[g].timer]
                    BY <1>0, <3>2, <5>1 DEF TypeOK, Owned
                <5> QED
                    BY <3>2, <3>3, <4>2, <5>1, <5>2, <5>3 DEF Owned, Armed
            <4> QED
                BY <4>1, <4>2
        <3> QED
            BY <3>3, <3>5 DEF ThreadInv
    <2>4. AddressInv'
        BY <1>0, <1>16 DEF CreateThread, registers, flags, At, TypeOK, AddressInv, Requested
    <2> QED
        BY <2>1, <2>2, <2>3, <2>4 DEF IndInv
<1>17. ASSUME NEW h \in Handles, Wake(h) PROVE IndInv'
    <2>1. TypeOK'
        BY <1>0, <1>17 DEF Wake, registers, flags, TypeOK, Labels, TimerLabels, Places
    <2>2. DispatchInv'
        BY <1>0, <1>17 DEF Wake, registers, flags, DispatchInv
    <2>3. ThreadInv'
        BY <1>0, <1>17 DEF Wake, registers, flags, TypeOK, ThreadInv, Live, Owned, Armed
    <2>4. AddressInv'
        BY <1>0, <1>17 DEF Wake, registers, flags, TypeOK, AddressInv, Requested
    <2> QED
        BY <2>1, <2>2, <2>3, <2>4 DEF IndInv
<1>18. ASSUME NEW h \in Handles, PostAddress(h) PROVE IndInv'
    <2>1. TypeOK'
        <3>1. thread[h].timer \in Timers
            BY <1>0, <1>18 DEF PostAddress, ThreadInv, Live, Owned
        <3>2. reg[thread[h].timer].INT \in Addr \cup {0}
            BY <1>0, <3>1 DEF TypeOK
        <3> QED
            BY <1>0, <1>18, <3>2 DEF PostAddress, registers, TypeOK
    <2>2. DispatchInv'
        BY <1>0, <1>18 DEF PostAddress, registers, DispatchInv
    <2>3. ThreadInv'
        BY <1>0, <1>18 DEF PostAddress, registers, TypeOK, ThreadInv, Live, Owned, Armed
    <2>4. AddressInv'
        <3>1. thread[h].timer \in Timers
            BY <1>0, <1>18 DEF PostAddress, ThreadInv, Live, Owned
        <3>2. reg[thread[h].timer].INT \in Addr \cup {0}
            BY <1>0, <3>1 DEF TypeOK
        <3>3. interrupt_address' # Unset
            BY <1>18, <3>2 DEF PostAddress
        <3> QED
            BY <1>0, <1>18, <3>3 DEF PostAddress, AddressInv
    <2> QED
        BY <2>1, <2>2, <2>3, <2>4 DEF IndInv
<1>19. ASSUME NEW h \in Handles, PostRequest(h) PROVE IndInv'
    <2>1. TypeOK'
        BY <1>0, <1>19 DEF PostRequest, registers, TypeOK, Labels, TimerLabels, Places
    <2>2. DispatchInv'
        BY <1>0, <1>19 DEF PostRequest, registers, DispatchInv
    <2>3. ThreadInv'
        BY <1>0, <1>19 DEF PostRequest, registers, TypeOK, ThreadInv, Live, Owned, Armed
    <2>4. AddressInv'
        BY <1>0, <1>19 DEF PostRequest, registers, TypeOK, AddressInv, Requested
    <2> QED
        BY <2>1, <2>2, <2>3, <2>4 DEF IndInv
<1>20. ASSUME NEW h \in Handles, EndThread(h) PROVE IndInv'
    <2>1. TypeOK'
        BY <1>0, <1>20 DEF EndThread, registers, flags, TypeOK, Labels, TimerLabels, Places, Off
    <2>2. DispatchInv'
        BY <1>0, <1>20 DEF EndThread, registers, flags, DispatchInv
    <2>3. ThreadInv'
        BY <1>0, <1>20 DEF EndThread, registers, flags, TypeOK, ThreadInv, Live, Owned, Armed, Off
    <2>4. AddressInv'
        BY <1>0, <1>20 DEF EndThread, registers, flags, TypeOK, AddressInv, Requested, Off
    <2> QED
        BY <2>1, <2>2, <2>3, <2>4 DEF IndInv
<1>21. CASE UNCHANGED vars
    BY <1>0, <1>21 DEF vars, registers, flags, IndInv, TypeOK, DispatchInv, ThreadInv, AddressInv,
                        Live, Owned, Armed, Requested
<1> QED
    BY <1>1, <1>2, <1>3, <1>4, <1>5, <1>6, <1>7, <1>8, <1>9, <1>10, <1>11, <1>12, <1>13, <1>14, <1>15, <1>16, <1>17, <1>18, <1>19, <1>20, <1>21 DEF Next, Execute, TimerThread, Rest

LEMMA AlwaysIndInv == Spec => []IndInv
BY InitIndInv, StepIndInv, PTL DEF Spec

(* The variables keep their types. *)
THEOREM EmuTypeOK == Spec => []TypeOK
<1>1. IndInv => TypeOK
    BY DEF IndInv
<1> QED
    BY <1>1, AlwaysIndInv, PTL

(* Interrupts of the emulator do not nest, and RTI returns to the program. *)
THEOREM EmuReturnsToProgram == Spec => []ReturnsToProgram
<1>1. IndInv => ReturnsToProgram
    BY DEF IndInv, DispatchInv, ReturnsToProgram
<1> QED
    BY <1>1, AlwaysIndInv, PTL

(* Reconfiguring the timers in timer.c leaves no stray thread behind. *)
THEOREM EmuNoStrayThread == Spec => []NoStrayThread
<1>1. IndInv => NoStrayThread
    BY DEF IndInv, ThreadInv, Owned, NoStrayThread
<1> QED
    BY <1>1, AlwaysIndInv, PTL

(* The CPU never jumps through an interrupt address nobody has stored. *)
THEOREM EmuNoJumpThroughUnset == Spec => []NoJumpThroughUnset
<1>1. IndInv => NoJumpThroughUnset
    BY DEF IndInv, AddressInv, NoJumpThroughUnset
<1> QED
    BY <1>1, AlwaysIndInv, PTL
=============================================================================
