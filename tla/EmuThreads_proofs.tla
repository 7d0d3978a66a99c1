-------------------------- MODULE EmuThreads_proofs --------------------------
(***************************************************************************)
(* Theorems about the threads of the emulator, in whatever order they      *)
(* start and run.  Of EmuLifecycle: the types, and what is left of each    *)
(* thread after main has found its flag down.  Of EmuKeyboard: what the    *)
(* unlocked updates of kbd_state by the window thread and the CPU thread   *)
(* cannot do, for any number of key events and any combination of modifier *)
(* keys.                                                                   *)
(***************************************************************************)
EXTENDS EmuLifecycle, EmuKeyboard, TLAPS

(***************************************************************************)
(* EmuLifecycle                                                            *)
(***************************************************************************)
(* While the process lives the flag of a thread is up exactly from its     *)
(* first statement to its last.                                            *)
FlagsInv ==
    ~Over =>
        /\ \A p \in Pollers : running[p] <=> pc[p] \in {"check", "work", "leave"}
        /\ ctrlc_id <=> pc["ctrlc"] \in {"check", "sigwait", "got", "leave"}
        /\ cpu_running <=> pc["shell"] \in {"exec", "check_ctrl_c", "check_shutdown", "run_stop"}

(* Main waits for the others only after the signal, which stays up: a      *)
(* thread that starts late leaves without having entered its loop.         *)
ShutdownInv ==
    pc["main"] \in {"kill", "wait_cpu", "wait_timebase", "wait_mips", "wait_ctrlc", "teardown",
                    "return"}
        => shutdown

(* After the end of the process nothing is left of its threads.            *)
OverInv == Over => \A t \in Threads \ {"main"} : pc[t] = "ended"

(* Before main creates them there are none.                                *)
CreateInv == pc["main"] = "create" => \A t \in Threads \ {"main"} : pc[t] = "none"

LifeInv ==
    TypeOK /\ FlagsInv /\ CreateInv /\ ShutdownInv /\ OverInv /\ NoLoopAfterTeardown

(* main() before it has created a thread.                                  *)
LEMMA LifeInit == Init => LifeInv
<1> SUFFICES ASSUME Init PROVE LifeInv
    OBVIOUS
<1> USE DEF Init, Over, Threads, Pollers
<1>1. pc["main"] = "create" /\ \A t \in Threads \ {"main"} : pc[t] = "none"
    OBVIOUS
<1>2. TypeOK
    <2>1. /\ running \in [Pollers -> BOOLEAN] /\ pending \subseteq {"process", "ctrlc"}
          /\ ctrlc_id \in BOOLEAN /\ cpu_running \in BOOLEAN
          /\ shutdown \in BOOLEAN /\ ctrl_c \in BOOLEAN
        BY Zenon
    <2>2. DOMAIN pc = Threads /\ executed \in 0 .. Many
        BY DEF Many
    <2> QED
        BY <1>1, <2>1, <2>2 DEF TypeOK, MainLabels, PollerLabels, CtrlCLabels, ShellLabels
<1>3. NoLoopAfterTeardown
    BY <1>1 DEF NoLoopAfterTeardown, PastMain, PastCpu, PastTimebase, PastMips, PastCtrlC
<1> QED
    BY <1>1, <1>2, <1>3 DEF LifeInv, FlagsInv, CreateInv, ShutdownInv, OverInv

(* Every step of main, of the time base and the regulation, of the CTRL+C  *)
(* thread, of the shell and of the user keeps all of it.                   *)
LEMMA LifeNext == LifeInv /\ [Next]_vars => LifeInv'
<1> SUFFICES ASSUME LifeInv, [Next]_vars PROVE LifeInv'
    OBVIOUS
<1> USE DEF LifeInv, TypeOK, FlagsInv, CreateInv, ShutdownInv, OverInv,
            NoLoopAfterTeardown, Over, Threads, Pollers, MainLabels,
            PollerLabels, CtrlCLabels, ShellLabels,
            PastMain, PastCpu, PastTimebase, PastMips, PastCtrlC, Many, flags, Goto
<1>1. CASE ~Over /\ vga_create_threads
    <2>1. /\ DOMAIN pc' = Threads /\ pc'["main"] = "window"
          /\ \A t \in Threads \ {"main"} : pc'[t] = "born"
          /\ \A p \in Pollers : running[p] = FALSE
          /\ ctrlc_id = FALSE
        BY <1>1 DEF vga_create_threads
    <2> QED
        BY <1>1, <2>1 DEF vga_create_threads
<1>2. CASE ~Over /\ SignalShutdown
    BY <1>2 DEF SignalShutdown
<1>3. CASE ~Over /\ KillCtrlC
    <2>1. CASE Exit("kill", "crashed") /\ UNCHANGED pending
        BY <1>3, <2>1 DEF KillCtrlC, Exit
    <2>2. CASE Goto("main", "kill", "wait_cpu") /\ pending' \subseteq {"process", "ctrlc"}
        BY <1>3, <2>2 DEF KillCtrlC
    <2> QED
        BY <1>3, <2>1, <2>2 DEF KillCtrlC
<1>4. CASE ~Over /\ Wait
    BY <1>4 DEF Wait, WaitFor
<1>5. CASE ~Over /\ (vga_shutdown \/ ReturnFromMain)
    <2>1. CASE vga_shutdown
        BY <1>5, <2>1 DEF vga_shutdown
    <2>2. CASE ReturnFromMain
        BY <1>5, <2>2 DEF ReturnFromMain, Exit
    <2> QED
        BY <1>5, <2>1, <2>2
<1>6. CASE ~Over /\ CreationFails
    BY <1>6 DEF CreationFails, Exit
<1>7. CASE ~Over /\ vga_main_loop_Ends
    BY <1>7 DEF vga_main_loop_Ends
<1>8. ASSUME NEW p \in Pollers, ~Over, Poller(p) PROVE LifeInv'
    <2>1. CASE Goto(p, "born", "check") /\ running' = [running EXCEPT ![p] = TRUE]
        BY <1>8, <2>1 DEF Poller
    <2>2. CASE Goto(p, "check", IF shutdown THEN "leave" ELSE "work") /\ UNCHANGED running
        BY <1>8, <2>2 DEF Poller
    <2>3. CASE Goto(p, "work", "check") /\ UNCHANGED running
        BY <1>8, <2>3 DEF Poller
    <2>4. CASE Goto(p, "leave", "ended") /\ running' = [running EXCEPT ![p] = FALSE]
        BY <1>8, <2>4 DEF Poller
    <2> QED
        BY <1>8, <2>1, <2>2, <2>3, <2>4 DEF Poller
<1>9. CASE ~Over /\ CtrlCThread
    <2>1. CASE /\ Goto("ctrlc", "born", "check")
               /\ ctrlc_id' = TRUE /\ UNCHANGED <<pending, ctrl_c>>
        BY <1>9, <2>1 DEF CtrlCThread
    <2>2. CASE /\ Goto("ctrlc", "check", IF shutdown THEN "leave" ELSE "sigwait")
               /\ UNCHANGED <<ctrlc_id, pending, ctrl_c>>
        BY <1>9, <2>2 DEF CtrlCThread
    <2>3. CASE /\ Goto("ctrlc", "sigwait", "got")
               /\ \E s \in pending : pending' = pending \ {s}
               /\ UNCHANGED <<ctrlc_id, ctrl_c>>
        BY <1>9, <2>3 DEF CtrlCThread
    <2>4. CASE /\ Goto("ctrlc", "got", "check")
               /\ ctrl_c' = TRUE /\ UNCHANGED <<ctrlc_id, pending>>
        BY <1>9, <2>4 DEF CtrlCThread
    <2>5. CASE /\ Goto("ctrlc", "leave", "ended")
               /\ ctrlc_id' = FALSE /\ UNCHANGED <<pending, ctrl_c>>
        <3>1. TypeOK' /\ FlagsInv'
            BY <1>9, <2>5 DEF CtrlCThread
        <3>2. CreateInv' /\ ShutdownInv' /\ OverInv'
            BY <1>9, <2>5 DEF CtrlCThread
        <3>3. NoLoopAfterTeardown'
            BY <1>9, <2>5 DEF CtrlCThread
        <3> QED
            BY <3>1, <3>2, <3>3 DEF LifeInv
    <2> QED
        BY <1>9, <2>1, <2>2, <2>3, <2>4, <2>5 DEF CtrlCThread
<1>10. CASE ~Over /\ StartRun
    BY <1>10 DEF StartRun
<1>11. CASE ~Over /\ QUIT
    <2>1. TypeOK' /\ FlagsInv'
        BY <1>11 DEF QUIT
    <2>2. CreateInv' /\ ShutdownInv' /\ OverInv'
        BY <1>11 DEF QUIT
    <2>3. NoLoopAfterTeardown'
        BY <1>11 DEF QUIT
    <2> QED
        BY <2>1, <2>2, <2>3 DEF LifeInv
<1>12. CASE ~Over /\ RunReset
    <2>1. TypeOK' /\ FlagsInv'
        BY <1>12 DEF RunReset
    <2>2. CreateInv' /\ ShutdownInv' /\ OverInv'
        BY <1>12 DEF RunReset
    <2>3. NoLoopAfterTeardown'
        BY <1>12 DEF RunReset
    <2> QED
        BY <2>1, <2>2, <2>3 DEF LifeInv
<1>13. CASE ~Over /\ RunFlag
    BY <1>13 DEF RunFlag
<1>14. CASE ~Over /\ Execute
    <2>1. CASE Goto("shell", "exec", "check_ctrl_c") \/ Goto("shell", "exec", "run_stop")
        BY <1>14, <2>1 DEF Execute, Instruction
    <2>2. CASE Goto("shell", "check_ctrl_c", IF ctrl_c THEN "run_stop" ELSE "check_shutdown")
        BY <1>14, <2>2 DEF Execute, Instruction
    <2>3. CASE Goto("shell", "check_shutdown", IF shutdown THEN "run_stop" ELSE "exec")
        BY <1>14, <2>3 DEF Execute, Instruction
    <2> QED
        BY <1>14, <2>1, <2>2, <2>3 DEF Execute, Instruction
<1>15. CASE ~Over /\ RunStop
    <2>1. CASE Goto("shell", "run_stop", "drain") /\ cpu_running' = FALSE
        <3>1. TypeOK' /\ FlagsInv'
            BY <1>15, <2>1 DEF RunStop
        <3>2. CreateInv' /\ ShutdownInv' /\ OverInv'
            BY <1>15, <2>1 DEF RunStop
        <3>3. NoLoopAfterTeardown'
            BY <1>15, <2>1 DEF RunStop
        <3> QED
            BY <3>1, <3>2, <3>3 DEF LifeInv
    <2>2. CASE Goto("shell", "drain", "prompt") /\ UNCHANGED cpu_running
        BY <1>15, <2>2 DEF RunStop
    <2> QED
        BY <1>15, <2>1, <2>2 DEF RunStop
<1>16. CASE ~Over /\ emulator_main_loop_Ends
    BY <1>16 DEF emulator_main_loop_Ends
<1>17. CASE ~Over /\ CtrlC
    BY <1>17 DEF CtrlC
<1>18. CASE UNCHANGED vars
    BY <1>18 DEF vars
<1> QED
    BY <1>1, <1>2, <1>3, <1>4, <1>5, <1>6, <1>7, <1>8, <1>9, <1>10, <1>11, <1>12, <1>13,
       <1>14, <1>15, <1>16, <1>17, <1>18 DEF Next, Main, Shell

(* Whatever the scheduler does.                                            *)
LEMMA LifeInvariance == Spec => []LifeInv
BY LifeInit, LifeNext, PTL DEF Spec

(* The variables keep their types, however the threads are scheduled.      *)
THEOREM LifecycleTypeOK == Spec => []TypeOK
BY LifeInvariance, PTL DEF LifeInv

(* From main's look at its flag on (qnice.c, main) the time base, the      *)
(* regulation and the CTRL+C thread are out of their loops for good, even  *)
(* if one had not started by then.  The CPU thread (run()) may come back,  *)
(* before, during or after vga_shutdown, but stops after the first         *)
(* instruction of its run.                                                 *)
THEOREM LifecycleNoLoopAfterTeardown == Spec => []NoLoopAfterTeardown
BY LifeInvariance, PTL DEF LifeInv

(***************************************************************************)
(* EmuKeyboard                                                             *)
(***************************************************************************)
ModStores == {"shift_store", "ctrl_store", "alt_store"}
Labels == WinLabels \cup CpuLabels

(* A key is being handled, it is stored when it is announced, and whoever  *)
(* carries an announcement does so because a key was stored.               *)
StoredInv ==
    /\ win # "idle" => key.press # 0
    /\ win \in {"new_load", "new_store"} => kbd_data.press # 0
    /\ HasNew(kbd_state) \/ HasNew(win_reg) \/ HasNew(cpu_reg) => kbd_data.press # 0

(* A store of the window thread that started from a state without an       *)
(* announcement hides none that still counts.                              *)
CarriedInv ==
    win \in ModStores /\ kbd_data.stage # "raw" /\ ~written => HasNew(win_reg) \/ Received

Inv == KeyboardTypeOK /\ StoredInv /\ CarriedInv /\ LastKeyReaches

(* The modifier bits are not the bits that announce a key. *)
LEMMA ModifierKeepsNew ==
    ASSUME NEW m \in Modifiers, win_reg \subseteq Flags
    PROVE  /\ SetModifier(m) \subseteq Flags
           /\ HasNew(SetModifier(m)) <=> HasNew(win_reg)
BY DEF SetModifier, HasNew, New, Modifiers, Flags

LEMMA InitInv == KeyboardInit => Inv
<1> SUFFICES ASSUME KeyboardInit PROVE Inv
    OBVIOUS
<1>1. KeyboardTypeOK
    <2>1. written \in BOOLEAN
        BY Zenon DEF KeyboardInit
    <2> QED
        BY <2>1, MaxPressesAssumption
           DEF KeyboardInit, KeyboardTypeOK, Flags, Modifiers, New, NoKey, Data, Kinds,
               WinLabels, CpuLabels
<1>2. ~HasNew(kbd_state) /\ ~HasNew(win_reg) /\ ~HasNew(cpu_reg) /\ win = "idle" /\ R8 = kbd_data
    BY DEF KeyboardInit, HasNew, New
<1> QED
    BY <1>1, <1>2 DEF Inv, StoredInv, CarriedInv, LastKeyReaches, Received, ModStores

(* The variables keep their types in every step. *)
LEMMA TypeStep == KeyboardTypeOK /\ [KeyboardNext]_keyboard_vars => KeyboardTypeOK'
<1> SUFFICES ASSUME KeyboardTypeOK, [KeyboardNext]_keyboard_vars PROVE KeyboardTypeOK'
    OBVIOUS
<1>0. kbd_state \in SUBSET Flags /\ win_reg \in SUBSET Flags /\ cpu_reg \in SUBSET Flags
    BY DEF KeyboardTypeOK
<1>1. CASE KeyDown
    <2>1. key' \in [press : 0 .. MaxPresses, mods : SUBSET Modifiers, kind : Kinds]
        BY <1>1, KeymodsAssumption, MaxPressesAssumption DEF KeyDown, KeyboardTypeOK
    <2> QED
        BY <1>1, <2>1 DEF KeyDown, WinGoto, program, KeyboardTypeOK, WinLabels
<1>2. ASSUME NEW from, NEW to \in WinLabels, Load(from, to) PROVE KeyboardTypeOK'
    BY <1>2 DEF Load, WinGoto, program, KeyboardTypeOK
<1>3. ASSUME NEW from, NEW to \in WinLabels, NEW value \in SUBSET Flags, Store(from, to, value)
      PROVE  KeyboardTypeOK'
    BY <1>3 DEF Store, WinGoto, program, KeyboardTypeOK
<1>4. CASE HandleModifiers
    <2>1. /\ AfterModifiers \in WinLabels
          /\ {"shift_store", "ctrl_load", "ctrl_store", "alt_load", "alt_store"} \subseteq WinLabels
        BY DEF AfterModifiers, WinLabels
    <2>2. \A m \in {"shift", "ctrl", "alt"} : SetModifier(m) \in SUBSET Flags
        BY <1>0, ModifierKeepsNew DEF Modifiers
    <2> QED
        BY <1>2, <1>3, <1>4, <2>1, <2>2 DEF HandleModifiers
<1>5. ASSUME NEW from, NEW to \in WinLabels, NEW stage \in {"raw", "final"},
             StoreData(from, to, stage)
      PROVE  KeyboardTypeOK'
    <2>1. kbd_data' \in Data
        BY <1>5 DEF StoreData, Data, KeyboardTypeOK
    <2>2. written' \in BOOLEAN
        BY <1>5, Zenon DEF StoreData
    <2> QED
        BY <1>5, <2>1, <2>2 DEF StoreData, WinGoto, program, KeyboardTypeOK
<1>6. CASE HandleKey
    <2>1. win_reg \cup {NewFlag} \in SUBSET Flags
        BY <1>0 DEF NewFlag, Flags, New
    <2>2. {"idle", "upper_store", "data_store", "new_load", "new_store"} \subseteq WinLabels
        BY DEF WinLabels
    <2> QED
        BY <1>2, <1>3, <1>5, <1>6, <2>1, <2>2 DEF HandleKey
<1>7. ASSUME NEW from, NEW to \in CpuLabels, NEW state \in SUBSET Flags, NEW reg \in SUBSET Flags,
             Registers(from, to, state, reg), written' \in BOOLEAN
      PROVE  KeyboardTypeOK'
    BY <1>7 DEF Registers, CpuGoto, window, KeyboardTypeOK
<1>8. {"cold_load", "cold_store", "poll", "clear_load", "clear_store", "data_load"}
          \subseteq CpuLabels
    BY DEF CpuLabels
<1>9. /\ {} \in SUBSET Flags /\ cpu_reg \ New \in SUBSET Flags
      /\ cpu_reg \cup {"locale_de"} \in SUBSET Flags
    BY <1>0 DEF Flags
<1>10. written \in BOOLEAN /\ TRUE \in BOOLEAN
    BY Zenon DEF KeyboardTypeOK
<1>11. CASE ColdStart
    <2>1. written' \in BOOLEAN
        BY <1>10, <1>11, Zenon DEF ColdStart
    <2> QED
        BY <1>0, <1>7, <1>8, <1>9, <1>11, <2>1 DEF ColdStart
<1>12. CASE Restart \/ Poll \/ ClearNew
    <2>1. written' \in BOOLEAN
        BY <1>10, <1>12, Zenon DEF Restart, Poll, ClearNew
    <2> QED
        BY <1>0, <1>7, <1>8, <1>9, <1>12, <2>1 DEF Restart, Poll, ClearNew
<1>13. CASE ReturnData
    BY <1>13 DEF ReturnData, CpuGoto, window, KeyboardTypeOK, CpuLabels
<1>14. CASE UNCHANGED keyboard_vars
    BY <1>14 DEF keyboard_vars, KeyboardTypeOK
<1> QED
    BY <1>1, <1>4, <1>6, <1>11, <1>12, <1>13, <1>14 DEF KeyboardNext, Window, Cpu

(***************************************************************************)
(* One lemma for each kind of step: what it does to kbd_state, kbd_data    *)
(* and the copies the two threads carry.                                   *)
(***************************************************************************)
LEMMA WindowLoad ==
    ASSUME Inv, NEW from, NEW to, Load(from, to),
           <<from, to>> \in {<<"shift_load", "shift_store">>, <<"ctrl_load", "ctrl_store">>,
                             <<"alt_load", "alt_store">>, <<"new_load", "new_store">>}
    PROVE  StoredInv' /\ CarriedInv' /\ LastKeyReaches'
<1>1. /\ win = from /\ win' = to /\ win_reg' = kbd_state
      /\ UNCHANGED <<kbd_state, kbd_data, key, cpu, cpu_reg, R8, written>>
    BY DEF Load, WinGoto, program
<1>2. StoredInv'
    BY <1>1 DEF Inv, StoredInv, HasNew
<1>3. Received' <=> Received
    BY <1>1 DEF Received
<1>4. CarriedInv'
    BY <1>1, <1>3 DEF Inv, CarriedInv, LastKeyReaches, Announcing, ModStores, HasNew
<1>5. LastKeyReaches'
    BY <1>1, <1>3 DEF Inv, LastKeyReaches, Announcing, HasNew
<1> QED
    BY <1>2, <1>4, <1>5

LEMMA WindowStoreModifier ==
    ASSUME Inv, NEW from \in ModStores, NEW to, NEW m \in Modifiers,
           Store(from, to, SetModifier(m)),
           to \in {"idle", "ctrl_load", "alt_load", "raw_store", "data_store"}
    PROVE  StoredInv' /\ CarriedInv' /\ LastKeyReaches'
<1>1. /\ win = from /\ win' = to /\ kbd_state' = SetModifier(m) /\ win_reg' = {}
      /\ UNCHANGED <<kbd_data, key, cpu, cpu_reg, R8, written>>
    BY DEF Store, WinGoto, program
<1>2. HasNew(kbd_state)' <=> HasNew(win_reg)
    BY <1>1, ModifierKeepsNew DEF Inv, KeyboardTypeOK, HasNew
<1>3. ~HasNew(win_reg)'
    BY <1>1 DEF HasNew
<1>4. StoredInv'
    BY <1>1, <1>2, <1>3 DEF Inv, StoredInv, ModStores, HasNew
<1>5. Received' <=> Received
    BY <1>1 DEF Received
<1>6. CarriedInv'
    BY <1>1 DEF CarriedInv, ModStores
<1>7. LastKeyReaches'
    BY <1>1, <1>2, <1>5 DEF Inv, CarriedInv, LastKeyReaches, Announcing, ModStores
<1> QED
    BY <1>4, <1>6, <1>7

LEMMA WindowAnnounce ==
    ASSUME Inv, Store("new_store", "idle", win_reg \cup {NewFlag})
    PROVE  StoredInv' /\ CarriedInv' /\ LastKeyReaches'
<1>1. /\ win = "new_store" /\ win' = "idle" /\ win_reg' = {}
      /\ kbd_state' = win_reg \cup {NewFlag}
      /\ UNCHANGED <<kbd_data, key, cpu, cpu_reg, R8, written>>
    BY DEF Store, WinGoto, program
<1>2. HasNew(kbd_state)'
    BY <1>1 DEF HasNew, NewFlag, New
<1>3. StoredInv'
    BY <1>1 DEF Inv, StoredInv, HasNew
<1> QED
    BY <1>1, <1>2, <1>3 DEF CarriedInv, LastKeyReaches, ModStores

LEMMA WindowStoreData ==
    ASSUME Inv, NEW from \in {"raw_store", "upper_store", "data_store"}, NEW to, NEW stage,
           StoreData(from, to, stage),
           <<to, stage>> \in {<<"upper_store", "raw">>, <<"data_store", "raw">>,
                              <<"new_load", "final">>}
    PROVE  StoredInv' /\ CarriedInv' /\ LastKeyReaches'
<1>1. /\ win = from /\ win' = to
      /\ kbd_data' = [press |-> key.press, stage |-> stage]
      /\ UNCHANGED <<kbd_state, win_reg, key, cpu, cpu_reg>>
    BY DEF StoreData, WinGoto, program
<1>2. key.press # 0 /\ kbd_data'.press = key.press /\ kbd_data'.stage = stage
    BY <1>1 DEF Inv, StoredInv
<1>3. StoredInv'
    BY <1>1, <1>2 DEF Inv, StoredInv
<1>4. CarriedInv' /\ LastKeyReaches'
    BY <1>1, <1>2 DEF CarriedInv, LastKeyReaches, Announcing, ModStores
<1> QED
    BY <1>3, <1>4

LEMMA WindowKeyDown ==
    ASSUME Inv, KeyDown
    PROVE  StoredInv' /\ CarriedInv' /\ LastKeyReaches'
<1>1. /\ win = "idle" /\ win' = "shift_load" /\ key.press \in Nat
      /\ key'.press = key.press + 1
      /\ UNCHANGED <<kbd_state, kbd_data, win_reg, cpu, cpu_reg, R8, written>>
    BY MaxPressesAssumption DEF KeyDown, WinGoto, program, Inv, KeyboardTypeOK
<1>2. StoredInv'
    BY <1>1 DEF Inv, StoredInv, HasNew
<1>3. Received' <=> Received
    BY <1>1 DEF Received
<1> QED
    BY <1>1, <1>2, <1>3 DEF Inv, CarriedInv, LastKeyReaches, Announcing, ModStores, HasNew

(* The steps of the program that only read, or write back what it has      *)
(* changed: once it has the key, it keeps it.                              *)
LEMMA CpuKeeps ==
    ASSUME Inv, cpu # "data_load", UNCHANGED <<kbd_state, kbd_data, win, win_reg, key, R8, written>>,
           cpu_reg' \in {{}, kbd_state}
    PROVE  StoredInv' /\ CarriedInv' /\ LastKeyReaches'
<1>1. Received => Received'
    BY DEF Received
<1>2. StoredInv'
    BY DEF Inv, StoredInv, HasNew
<1> QED
    BY <1>1, <1>2 DEF Inv, CarriedInv, LastKeyReaches, Announcing, ModStores, HasNew

LEMMA CpuColdStore ==
    ASSUME Inv, Registers("cold_store", "poll", cpu_reg \cup {"locale_de"}, {}), written' = TRUE
    PROVE  StoredInv' /\ CarriedInv' /\ LastKeyReaches'
<1>1. /\ kbd_state' = cpu_reg \cup {"locale_de"} /\ cpu_reg' = {}
      /\ UNCHANGED <<kbd_data, win, win_reg, key>>
    BY DEF Registers, window
<1>2. (HasNew(kbd_state)' <=> HasNew(cpu_reg)) /\ ~HasNew(cpu_reg)'
    BY <1>1 DEF HasNew, New
<1>3. StoredInv'
    BY <1>1, <1>2 DEF Inv, StoredInv, HasNew
<1> QED
    BY <1>3 DEF CarriedInv, LastKeyReaches

LEMMA CpuClearStore ==
    ASSUME Inv, Registers("clear_store", "data_load", cpu_reg \ New, {}), UNCHANGED written
    PROVE  StoredInv' /\ CarriedInv' /\ LastKeyReaches'
<1>1. /\ kbd_state' = cpu_reg \ New /\ cpu_reg' = {} /\ cpu' = "data_load"
      /\ UNCHANGED <<kbd_data, win, win_reg, key>>
    BY DEF Registers, CpuGoto, window
<1>2. ~HasNew(kbd_state)' /\ ~HasNew(cpu_reg)' /\ Received'
    BY <1>1 DEF HasNew, Received
<1>3. StoredInv'
    BY <1>1, <1>2 DEF Inv, StoredInv, HasNew
<1> QED
    BY <1>2, <1>3 DEF CarriedInv, LastKeyReaches

LEMMA CpuReturnData ==
    ASSUME Inv, ReturnData
    PROVE  StoredInv' /\ CarriedInv' /\ LastKeyReaches'
<1>1. R8' = kbd_data /\ UNCHANGED <<kbd_state, kbd_data, win, win_reg, key, cpu_reg, written>>
    BY DEF ReturnData, window
<1>2. Received'
    BY <1>1 DEF Received
<1>3. StoredInv'
    BY <1>1 DEF Inv, StoredInv, HasNew
<1> QED
    BY <1>2, <1>3 DEF CarriedInv, LastKeyReaches

LEMMA NextInv == Inv /\ [KeyboardNext]_keyboard_vars => Inv'
<1> SUFFICES ASSUME Inv, [KeyboardNext]_keyboard_vars
             PROVE  StoredInv' /\ CarriedInv' /\ LastKeyReaches'
    BY TypeStep DEF Inv
<1>1. CASE HandleModifiers
    <2>1. AfterModifiers \in {"idle", "raw_store", "data_store"}
        BY DEF AfterModifiers
    <2>2. {"shift", "ctrl", "alt"} \subseteq Modifiers
          /\ {"shift_store", "ctrl_store", "alt_store"} \subseteq ModStores
        BY DEF Modifiers, ModStores
    <2> QED
        BY <1>1, <2>1, <2>2, WindowLoad, WindowStoreModifier DEF HandleModifiers
<1>2. CASE HandleKey
    BY <1>2, WindowLoad, WindowStoreData, WindowAnnounce DEF HandleKey
<1>3. CASE ColdStart
    BY <1>3, CpuKeeps, CpuColdStore DEF ColdStart, Registers, CpuGoto, window
<1>4. CASE ClearNew
    BY <1>4, CpuKeeps, CpuClearStore DEF ClearNew, Registers, CpuGoto, window
<1>5. CASE Restart \/ Poll
    BY <1>5, CpuKeeps DEF Restart, Poll, Registers, CpuGoto, window
<1>6. CASE UNCHANGED keyboard_vars
    BY <1>6 DEF keyboard_vars, Inv, StoredInv, CarriedInv, LastKeyReaches, Announcing,
                Received, HasNew
<1> QED
    BY <1>1, <1>2, <1>3, <1>4, <1>5, <1>6, WindowKeyDown, CpuReturnData
       DEF KeyboardNext, Window, Cpu

(***************************************************************************)
(* How often a key can be fetched.  Every fetch uses up one announcement;  *)
(* Left counts those that exist and those the key event under way can      *)
(* still bring (back).                                                     *)
(***************************************************************************)
Clearing == {"clear_load", "clear_store"}
Visible == IF cpu \notin Clearing /\ HasNew(kbd_state) THEN 1 ELSE 0
Fetching == IF cpu \in Clearing \cup {"data_load"} THEN 1 ELSE 0
Coming ==
    IF win \in {"shift_load", "shift_store"} THEN 3
    ELSE IF win \in {"ctrl_load", "ctrl_store"} THEN 2
    ELSE IF win \in {"alt_load", "alt_store", "new_load", "new_store"} THEN 1
    ELSE 0
Left == Visible + Fetching + Coming

(* Only the clear of the program takes an announcement away.  An update of *)
(* the other thread that is under way never misses one, and the monitor's  *)
(* write of the locale brings none back.                                   *)
NothingHidden ==
    /\ win \in ModStores \cup {"new_store"} /\ HasNew(kbd_state) => HasNew(win_reg)
    /\ cpu = "cold_store" /\ HasNew(cpu_reg) => HasNew(kbd_state)

FetchInv == NothingHidden /\ takes + Left <= 3 * (events + 1)

LEMMA InitFetch == KeyboardInit => FetchInv
<1> SUFFICES ASSUME KeyboardInit PROVE FetchInv
    OBVIOUS
<1>1. /\ ~HasNew(kbd_state) /\ win = "idle" /\ cpu = "cold_load" /\ takes = 0 /\ events = 0
    BY DEF KeyboardInit, HasNew, New
<1> QED
    BY <1>1 DEF FetchInv, NothingHidden, Left, Visible, Fetching, Coming, Clearing, ModStores

(* A step that neither fetches nor stores a key.                           *)
LEMMA NoFetch ==
    ASSUME KeyboardTypeOK, FetchInv, NothingHidden', Left' <= Left, UNCHANGED <<takes, events>>
    PROVE  FetchInv'
BY DEF KeyboardTypeOK, FetchInv, Left, Visible, Fetching, Coming

LEMMA FetchStep == KeyboardTypeOK /\ FetchInv /\ [KeyboardNext]_keyboard_vars => FetchInv'
<1> SUFFICES ASSUME KeyboardTypeOK, FetchInv, [KeyboardNext]_keyboard_vars PROVE FetchInv'
    OBVIOUS
<1>0. NothingHidden /\ takes \in Nat /\ events \in Nat /\ takes + Left <= 3 * (events + 1)
    BY DEF KeyboardTypeOK, FetchInv
<1>1. CASE KeyDown
    <2>1. /\ win = "idle" /\ win' = "shift_load" /\ events' = events + 1
          /\ UNCHANGED <<kbd_state, cpu, cpu_reg, takes>>
        BY <1>1 DEF KeyDown, WinGoto, program
    <2>2. NothingHidden'
        BY <1>0, <2>1 DEF NothingHidden, ModStores, HasNew
    <2>3. Left' = Left + 3
        BY <2>1 DEF Left, Visible, Fetching, Coming, HasNew
    <2> QED
        BY <1>0, <2>1, <2>2, <2>3 DEF FetchInv, Left, Visible, Fetching, Coming
<1>2. ASSUME NEW from, NEW to, Load(from, to),
             <<from, to>> \in {<<"shift_load", "shift_store">>, <<"ctrl_load", "ctrl_store">>,
                               <<"alt_load", "alt_store">>, <<"new_load", "new_store">>}
      PROVE  FetchInv'
    <2>1. /\ win = from /\ win' = to /\ win_reg' = kbd_state
          /\ UNCHANGED <<kbd_state, cpu, cpu_reg, takes, events>>
        BY <1>2 DEF Load, WinGoto, program
    <2>2. NothingHidden'
        BY <1>0, <2>1 DEF NothingHidden, HasNew
    <2>3. Left' = Left
        BY <1>2, <2>1 DEF Left, Visible, Fetching, Coming, HasNew
    <2> QED
        BY <2>1, <2>2, <2>3, NoFetch DEF Left, Visible, Fetching, Coming
<1>3. ASSUME NEW from, NEW to, NEW m \in Modifiers, Store(from, to, SetModifier(m)),
             \/ <<from, to>> \in {<<"shift_store", "ctrl_load">>, <<"ctrl_store", "alt_load">>}
             \/ from = "alt_store" /\ to \in {"idle", "raw_store", "data_store"}
      PROVE  FetchInv'
    <2>1. /\ win = from /\ win' = to /\ kbd_state' = SetModifier(m)
          /\ UNCHANGED <<cpu, cpu_reg, takes, events>>
        BY <1>3 DEF Store, WinGoto, program
    <2>2. HasNew(kbd_state)' <=> HasNew(win_reg)
        BY <2>1, ModifierKeepsNew DEF KeyboardTypeOK, HasNew
    <2>3. HasNew(kbd_state) => HasNew(win_reg)
        BY <1>0, <1>3, <2>1 DEF NothingHidden, ModStores
    <2>4. NothingHidden'
        BY <1>0, <1>3, <2>1, <2>2, <2>3 DEF NothingHidden, HasNew, ModStores
    <2>5. Coming' = Coming - 1 /\ Fetching' = Fetching
        BY <1>3, <2>1 DEF Coming, Fetching
    <2>6. Left' <= Left
        BY <2>5 DEF Left, Visible, Fetching, Coming
    <2> QED
        BY <2>1, <2>4, <2>6, NoFetch
<1>4. CASE HandleModifiers
    <2>1. AfterModifiers \in {"idle", "raw_store", "data_store"}
        BY DEF AfterModifiers
    <2>2. {"shift", "ctrl", "alt"} \subseteq Modifiers
        BY DEF Modifiers
    <2> QED
        BY <1>2, <1>3, <1>4, <2>1, <2>2 DEF HandleModifiers
<1>5. ASSUME NEW from \in {"raw_store", "upper_store", "data_store"},
             NEW to \in {"upper_store", "data_store", "new_load"},
             NEW stage, StoreData(from, to, stage)
      PROVE  FetchInv'
    <2>1. /\ win' = to /\ takes' = 0 /\ events' = 0 /\ UNCHANGED <<kbd_state, cpu, cpu_reg>>
        BY <1>5 DEF StoreData, WinGoto, program
    <2>2. NothingHidden'
        BY <1>0, <1>5, <2>1 DEF NothingHidden, ModStores, HasNew
    <2>3. Coming' <= 1
        BY <1>5, <2>1 DEF Coming
    <2> QED
        BY <2>1, <2>2, <2>3 DEF FetchInv, Left, Visible, Fetching, Coming
<1>6. CASE Store("new_store", "idle", win_reg \cup {NewFlag})
    <2>1. /\ win = "new_store" /\ win' = "idle" /\ kbd_state' = win_reg \cup {NewFlag}
          /\ UNCHANGED <<cpu, cpu_reg, takes, events>>
        BY <1>6 DEF Store, WinGoto, program
    <2>2. HasNew(kbd_state)'
        BY <2>1 DEF HasNew, NewFlag, New
    <2>3. NothingHidden'
        BY <2>1, <2>2 DEF NothingHidden, ModStores
    <2>4. Coming = 1 /\ Coming' = 0 /\ Fetching' = Fetching
        BY <2>1 DEF Coming, Fetching
    <2>5. Left' <= Left
        BY <2>4 DEF Left, Visible, Fetching, Coming
    <2> QED
        BY <2>1, <2>3, <2>5, NoFetch
<1>7. CASE HandleKey
    BY <1>2, <1>5, <1>6, <1>7 DEF HandleKey
<1>8. ASSUME NEW from, NEW to, NEW reg, Registers(from, to, kbd_state, reg),
             \/ <<from, to>> \in {<<"poll", "cold_load">>, <<"clear_load", "clear_store">>}
             \/ from = "cold_load" /\ to = "cold_store" /\ reg = kbd_state
             \/ from = "poll" /\ to = "clear_load" /\ HasNew(kbd_state)
      PROVE  FetchInv'
    <2>1. /\ cpu = from /\ cpu' = to /\ cpu_reg' = reg
          /\ UNCHANGED <<kbd_state, win, win_reg, takes, events>>
        BY <1>8 DEF Registers, CpuGoto, window
    <2>2. NothingHidden'
        BY <1>0, <1>8, <2>1 DEF NothingHidden, HasNew
    <2>3. Coming' = Coming /\ Visible' + Fetching' <= Visible + Fetching
        BY <1>8, <2>1 DEF Visible, Fetching, Coming, Clearing, HasNew
    <2>4. Left' <= Left
        BY <2>3 DEF Left, Visible, Fetching, Coming
    <2> QED
        BY <2>1, <2>2, <2>4, NoFetch
<1>9. CASE Registers("cold_store", "poll", cpu_reg \cup {"locale_de"}, {})
    <2>1. /\ cpu = "cold_store" /\ cpu' = "poll" /\ kbd_state' = cpu_reg \cup {"locale_de"}
          /\ UNCHANGED <<win, win_reg, takes, events>>
        BY <1>9 DEF Registers, CpuGoto, window
    <2>2. HasNew(kbd_state)' => HasNew(kbd_state)
        BY <1>0, <2>1 DEF NothingHidden, HasNew, New
    <2>3. NothingHidden'
        BY <1>0, <2>1, <2>2 DEF NothingHidden, HasNew
    <2>4. Coming' = Coming /\ Fetching' = Fetching /\ Visible' <= Visible
        BY <2>1, <2>2 DEF Coming, Fetching, Visible, Clearing
    <2>5. Left' <= Left
        BY <2>4 DEF Left, Visible, Fetching, Coming
    <2> QED
        BY <2>1, <2>3, <2>5, NoFetch
<1>10. CASE Registers("clear_store", "data_load", cpu_reg \ New, {})
    <2>1. /\ cpu = "clear_store" /\ cpu' = "data_load" /\ kbd_state' = cpu_reg \ New
          /\ UNCHANGED <<win, win_reg, takes, events>>
        BY <1>10 DEF Registers, CpuGoto, window
    <2>2. ~HasNew(kbd_state)'
        BY <2>1 DEF HasNew
    <2>3. NothingHidden'
        BY <2>1, <2>2 DEF NothingHidden
    <2>4. Coming' = Coming /\ Fetching' = Fetching /\ Visible' = 0
        BY <2>1, <2>2 DEF Coming, Fetching, Visible, Clearing
    <2>5. Left' <= Left
        BY <2>4 DEF Left, Visible, Fetching, Coming
    <2> QED
        BY <2>1, <2>3, <2>5, NoFetch
<1>11. CASE ReturnData
    <2>1. /\ cpu = "data_load" /\ cpu' = "poll" /\ takes' = takes + 1
          /\ UNCHANGED <<kbd_state, win, win_reg, cpu_reg, events>>
        BY <1>11 DEF ReturnData, CpuGoto, window
    <2>2. NothingHidden'
        BY <1>0, <2>1 DEF NothingHidden, HasNew
    <2>3. Coming' = Coming /\ Fetching = 1 /\ Fetching' = 0 /\ Visible' = Visible
        BY <2>1 DEF Coming, Fetching, Visible, Clearing, HasNew
    <2> QED
        BY <1>0, <2>1, <2>2, <2>3 DEF FetchInv, Left, Visible, Fetching, Coming
<1>12. CASE ColdStart
    BY <1>8, <1>9, <1>12 DEF ColdStart
<1>13. CASE ClearNew
    BY <1>8, <1>10, <1>13 DEF ClearNew
<1>14. CASE Restart \/ Poll
    BY <1>8, <1>14 DEF Restart, Poll, HasNew
<1>15. CASE UNCHANGED keyboard_vars
    BY <1>15 DEF keyboard_vars, FetchInv, NothingHidden, Left, Visible, Fetching, Coming,
                 HasNew
<1> QED
    BY <1>1, <1>4, <1>7, <1>11, <1>12, <1>13, <1>14, <1>15 DEF KeyboardNext, Window, Cpu

-----------------------------------------------------------------------------
LEMMA Invariance == KeyboardSpec => []Inv
BY InitInv, NextInv, PTL DEF KeyboardSpec

(* The variables of the keyboard keep their types. *)
THEOREM KeyboardTypes == KeyboardSpec => []KeyboardTypeOK
BY Invariance, PTL DEF Inv

(* A bit that announces a key implies that one has been stored             *)
(* (vga.c:282-288), whatever the two threads overwrite.                    *)
THEOREM KeyboardAnnouncedIsStored == KeyboardSpec => []AnnouncedIsStored
<1>1. Inv => AnnouncedIsStored
    BY DEF Inv, StoredInv, AnnouncedIsStored
<1> QED
    BY <1>1, Invariance, PTL

(* The unlocked updates of kbd_state never lose the last key for a program *)
(* that does not write the register (vga.c:115 against vga.c:145-292).     *)
THEOREM KeyboardLastKeyReaches == KeyboardSpec => []LastKeyReaches
BY Invariance, PTL DEF Inv

(* A key is fetched at most three times, and three more for each later key *)
(* event.                                                                  *)
THEOREM KeyboardRepeatsBounded == KeyboardSpec => []RepeatsBounded
<1>1. Inv /\ FetchInv => RepeatsBounded
    BY DEF Inv, KeyboardTypeOK, FetchInv, RepeatsBounded, Left, Visible, Fetching, Coming
<1>2. Inv /\ FetchInv /\ [KeyboardNext]_keyboard_vars => FetchInv'
    BY FetchStep DEF Inv
<1> QED
    BY <1>1, <1>2, InitFetch, Invariance, PTL DEF KeyboardSpec
=============================================================================
