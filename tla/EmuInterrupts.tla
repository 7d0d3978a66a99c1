---------------------------- MODULE EmuInterrupts ----------------------------
(***************************************************************************)
(* Interrupts in the emulator: the CPU thread (execute() of                *)
(* emulator/qnice.c) and the timer threads of emulator/timer.c, which post *)
(* interrupts by writing two unprotected globals,                          *)
(* gbl$interrupt_address and gbl$interrupt_request.  Every access to a     *)
(* global that another thread writes is a step of its own.                 *)
(***************************************************************************)
EXTENDS Integers

CONSTANTS
    Timers,     \* the timers 0 .. NUMBER_OF_TIMERS - 1
    Addr,       \* addresses of interrupt service routines, none of them 0
    Handles,    \* what pthread_create may return as a pthread_t
    Null,       \* (pthread_t) 0, or nothing
    Main,       \* where the R15 of the interrupted program points
    Unset,      \* gbl$interrupt_address before anyone has posted
    MaxRuns     \* bound: how often the user starts the CPU from the Q> shell

ASSUME AddrAssumption == /\ 0 \notin Addr /\ Main \notin Addr \cup {0}
                         /\ Unset \notin Addr \cup {0, Main}
ASSUME NullAssumption == Null \notin Handles \cup Timers \cup Addr
ASSUME MaxRunsAssumption == MaxRuns \in Nat

VARIABLES
    reg,                \* timer_registers: PRE, CNT and INT of every timer
    thread_list,        \* pthread_t of the thread last created for a timer
    thread,             \* the pthread library: the live thread behind a handle
    interrupt_request,
    interrupt_address,
    interrupt_active,
    saved_pc,           \* gbl$interrupt_R15; R14 is saved and restored with it
    pc,                 \* what R15 points into: the Main program or the ISR at an address
    cpu,                \* what the CPU thread does next
    runs                \* RUN commands so far

registers == <<reg, thread_list>>
flags == <<interrupt_request, interrupt_address, interrupt_active>>
vars == <<reg, thread_list, thread, interrupt_request, interrupt_address,
          interrupt_active, saved_pc, pc, cpu, runs>>

Places == {Main, 0, Unset} \cup Addr
Off == [st |-> "none", timer |-> Null, cancelled |-> FALSE]
Live(h) == thread[h].st # "none"
Armed(i) == reg[i].PRE # 0 /\ reg[i].CNT # 0 /\ reg[i].INT # 0

(* The CPU thread: at a label, in the service of a timer's register write. *)
At(l) == [at |-> l, timer |-> Null]
Writing(l, i) == [at |-> l, timer |-> i]

(* reset_machine and initializeTimerModule before the first prompt. *)
Init ==
    /\ reg = [i \in Timers |-> [PRE |-> 0, CNT |-> 0, INT |-> 0]]
    /\ thread_list = [i \in Timers |-> Null]
    /\ thread = [h \in Handles |-> Off]
    /\ interrupt_request = FALSE
    /\ interrupt_address = Unset
    /\ interrupt_active = FALSE
    /\ saved_pc = Main
    /\ pc = Main
    /\ cpu = At("shell")
    /\ runs = 0

(***************************************************************************)
(* The Q> shell.  RUN keeps the PC, RUN <addr> sets it; neither touches    *)
(* the interrupt flags.  RESET clears the registers and the flags.         *)
(***************************************************************************)
Run(p) ==
    /\ cpu.at = "shell" /\ runs < MaxRuns
    /\ runs' = runs + 1
    /\ pc' = p
    /\ cpu' = At("fetch")
    /\ UNCHANGED <<registers, thread, flags, saved_pc>>

reset_machine ==
    /\ cpu.at = "shell"
    /\ pc' = Main
    /\ interrupt_request' = FALSE
    /\ interrupt_active' = FALSE
    /\ UNCHANGED <<registers, thread, interrupt_address, saved_pc, cpu, runs>>

(* CTRL+C, seen by run() between two instructions. *)
CtrlC ==
    /\ cpu.at = "fetch"
    /\ cpu' = At("shell")
    /\ UNCHANGED <<registers, thread, flags, saved_pc, pc, runs>>

(***************************************************************************)
(* execute(): dispatch of a pending interrupt                              *)
(***************************************************************************)
(* Mutant: a request is taken up inside a service routine, too. *)
FetchNested ==
    /\ cpu.at = "fetch"
    /\ IF interrupt_request
       THEN interrupt_active' = TRUE /\ cpu' = At("clear")
       ELSE cpu' = At("exec") /\ UNCHANGED interrupt_active
    /\ UNCHANGED <<registers, thread, interrupt_request, interrupt_address,
                   saved_pc, pc, runs>>

Fetch ==
    /\ cpu.at = "fetch"
    /\ IF interrupt_request /\ ~interrupt_active
       THEN interrupt_active' = TRUE /\ cpu' = At("clear")
       ELSE cpu' = At("exec") /\ UNCHANGED interrupt_active
    /\ UNCHANGED <<registers, thread, interrupt_request, interrupt_address,
                   saved_pc, pc, runs>>

ClearRequest ==
    /\ cpu.at = "clear"
    /\ interrupt_request' = FALSE
    /\ saved_pc' = pc
    /\ cpu' = At("jump")
    /\ UNCHANGED <<registers, thread, interrupt_address, interrupt_active, pc, runs>>

Jump ==
    /\ cpu.at = "jump"
    /\ pc' = interrupt_address
    /\ cpu' = At("exec")
    /\ UNCHANGED <<registers, thread, flags, saved_pc, runs>>

(***************************************************************************)
(* execute(): the instruction at the PC                                    *)
(***************************************************************************)
(* An instruction that concerns neither interrupts nor timers. *)
Plain ==
    /\ cpu.at = "exec"
    /\ cpu' = At("fetch")
    /\ UNCHANGED <<registers, thread, flags, saved_pc, pc, runs>>

Halt ==
    /\ cpu.at = "exec"
    /\ cpu' = At("shell")
    /\ UNCHANGED <<registers, thread, flags, saved_pc, pc, runs>>

(* Mutant: RTI restores R15 and forgets the flag. *)
RTIStaysActive ==
    /\ cpu.at = "exec"
    /\ IF interrupt_active
       THEN pc' = saved_pc /\ cpu' = At("fetch")
       ELSE cpu' = At("shell") /\ UNCHANGED pc
    /\ UNCHANGED <<registers, thread, flags, saved_pc, runs>>

RTI ==
    /\ cpu.at = "exec"
    /\ IF interrupt_active
       THEN /\ interrupt_active' = FALSE
            /\ pc' = saved_pc
            /\ cpu' = At("fetch")
       ELSE cpu' = At("shell") /\ UNCHANGED <<interrupt_active, pc>>   \* rogue RTI
    /\ UNCHANGED <<registers, thread, interrupt_request, interrupt_address,
                   saved_pc, runs>>

(* Mutant: INT posts R15 instead of its operand. *)
INTOfR15(a) ==
    /\ cpu.at = "exec"
    /\ IF ~interrupt_active
       THEN /\ interrupt_address' = pc
            /\ cpu' = At("post")
       ELSE cpu' = At("shell") /\ UNCHANGED interrupt_address
    /\ UNCHANGED <<registers, thread, interrupt_request, interrupt_active,
                   saved_pc, pc, runs>>

INT(a) ==
    /\ cpu.at = "exec"
    /\ IF ~interrupt_active
       THEN /\ interrupt_address' = a
            /\ cpu' = At("post")
       ELSE cpu' = At("shell") /\ UNCHANGED interrupt_address \* rogue INT
    /\ UNCHANGED <<registers, thread, interrupt_request, interrupt_active,
                   saved_pc, pc, runs>>

PostINT ==
    /\ cpu.at = "post"
    /\ interrupt_request' = TRUE
    /\ cpu' = At("fetch")
    /\ UNCHANGED <<registers, thread, interrupt_address, interrupt_active,
                   saved_pc, pc, runs>>

(***************************************************************************)
(* writeTimerDeviceRegister: store first, then bring the thread of the     *)
(* timer in line with its registers.                                       *)
(***************************************************************************)
StoreRegister(i, r, v) ==
    /\ cpu.at = "exec"
    /\ reg' = [reg EXCEPT ![i][r] = v]
    /\ cpu' = Writing("stored", i)
    /\ UNCHANGED <<thread_list, thread, flags, saved_pc, pc, runs>>

(* Mutant: the timer is set up again without waiting for its old thread. *)
CancelNoJoin ==
    /\ cpu.at = "stored" /\ thread_list[cpu.timer] # Null
    /\ IF Live(thread_list[cpu.timer])
       THEN /\ thread' = [thread EXCEPT ![thread_list[cpu.timer]].cancelled = TRUE]
            /\ cpu' = IF Armed(cpu.timer) THEN Writing("create", cpu.timer) ELSE At("fetch")
       ELSE cpu' = At("exited") /\ UNCHANGED thread
    /\ UNCHANGED <<registers, flags, saved_pc, pc, runs>>

(* pthread_cancel on a handle whose thread was joined fails and the        *)
(* emulator exits; a handle that was given out again reaches its new owner.*)
CancelThread ==
    /\ cpu.at = "stored" /\ thread_list[cpu.timer] # Null
    /\ IF Live(thread_list[cpu.timer])
       THEN /\ thread' = [thread EXCEPT ![thread_list[cpu.timer]].cancelled = TRUE]
            /\ cpu' = Writing("join", cpu.timer)
       ELSE cpu' = At("exited") /\ UNCHANGED thread
    /\ UNCHANGED <<registers, flags, saved_pc, pc, runs>>

JoinThread ==
    /\ cpu.at = "join" /\ ~Live(thread_list[cpu.timer])
    /\ cpu' = IF Armed(cpu.timer) THEN Writing("create", cpu.timer) ELSE At("fetch")
    /\ UNCHANGED <<registers, thread, flags, saved_pc, pc, runs>>

NoThreadYet ==
    /\ cpu.at = "stored" /\ thread_list[cpu.timer] = Null
    /\ cpu' = IF Armed(cpu.timer) THEN Writing("create", cpu.timer) ELSE At("fetch")
    /\ UNCHANGED <<registers, thread, flags, saved_pc, pc, runs>>

CreateThread(h) ==
    /\ cpu.at = "create" /\ ~Live(h)
    /\ thread_list' = [thread_list EXCEPT ![cpu.timer] = h]
    /\ thread' = [thread EXCEPT ![h] = [st |-> "asleep", timer |-> cpu.timer, cancelled |-> FALSE]]
    /\ cpu' = At("fetch")
    /\ UNCHANGED <<reg, flags, saved_pc, pc, runs>>

(***************************************************************************)
(* timer(): the thread of one timer.  nanosleep is its only cancellation   *)
(* point.                                                                  *)
(***************************************************************************)
(* Mutant: the request is raised without an address. *)
WakeToRequest(h) ==
    /\ thread[h].st = "asleep" /\ ~thread[h].cancelled
    /\ thread' = [thread EXCEPT ![h].st = "request"]
    /\ UNCHANGED <<registers, flags, saved_pc, pc, cpu, runs>>

(* Mutant: the sleep is no cancellation point. *)
WakeCancelled(h) ==
    /\ thread[h].st = "asleep"
    /\ thread' = [thread EXCEPT ![h].st = "address"]
    /\ UNCHANGED <<registers, flags, saved_pc, pc, cpu, runs>>

Wake(h) ==
    /\ thread[h].st = "asleep" /\ ~thread[h].cancelled
    /\ thread' = [thread EXCEPT ![h].st = "address"]
    /\ UNCHANGED <<registers, flags, saved_pc, pc, cpu, runs>>

PostAddress(h) ==
    /\ thread[h].st = "address"
    /\ interrupt_address' = reg[thread[h].timer].INT
    /\ thread' = [thread EXCEPT ![h].st = "request"]
    /\ UNCHANGED <<registers, interrupt_request, interrupt_active, saved_pc, pc, cpu, runs>>

PostRequest(h) ==
    /\ thread[h].st = "request"
    /\ interrupt_request' = TRUE
    /\ thread' = [thread EXCEPT ![h].st = "asleep"]
    /\ UNCHANGED <<registers, interrupt_address, interrupt_active, saved_pc, pc, cpu, runs>>

EndThread(h) ==
    /\ thread[h].st = "asleep" /\ thread[h].cancelled
    /\ thread' = [thread EXCEPT ![h] = Off]
    /\ UNCHANGED <<registers, flags, saved_pc, pc, cpu, runs>>

TimerThread(h) == Wake(h) \/ PostAddress(h) \/ PostRequest(h) \/ EndThread(h)

(* The emulator has exited, or the user leaves it at the prompt. *)
Stopped == cpu.at = "exited" \/ (cpu.at = "shell" /\ runs = MaxRuns)
Rest == Stopped /\ UNCHANGED vars

Execute ==
    \/ Fetch \/ ClearRequest \/ Jump
    \/ Plain \/ Halt \/ RTI
    \/ \E a \in Addr : INT(a)
    \/ PostINT
    \/ \E i \in Timers : \/ \E v \in {0, 1} : StoreRegister(i, "PRE", v) \/ StoreRegister(i, "CNT", v)
                         \/ \E v \in Addr \cup {0} : StoreRegister(i, "INT", v)
    \/ CancelThread \/ JoinThread \/ NoThreadYet
    \/ \E h \in Handles : CreateThread(h)

Next ==
    \/ Run(pc) \/ Run(Main) \/ reset_machine \/ CtrlC
    \/ Execute
    \/ (cpu.at # "exited" /\ \E h \in Handles : TimerThread(h))
    \/ Rest

Spec == Init /\ [][Next]_vars

(* The CPU thread and the timer threads keep running, a cancelled or due   *)
(* nanosleep returns, and a service routine ends in RTI.                   *)
LiveSpec ==
    /\ Spec
    /\ WF_vars(Execute)
    /\ \A h \in Handles : WF_vars(cpu.at # "exited" /\ TimerThread(h))
    /\ SF_vars(RTI /\ interrupt_active)

-----------------------------------------------------------------------------
Labels == {"shell", "fetch", "clear", "jump", "exec", "post", "exited"}
TimerLabels == {"stored", "join", "create"}

TypeOK ==
    /\ reg \in [Timers -> [PRE : {0, 1}, CNT : {0, 1}, INT : Addr \cup {0}]]
    /\ thread_list \in [Timers -> Handles \cup {Null}]
    /\ thread \in [Handles -> [st : {"none", "asleep", "address", "request"},
                               timer : Timers \cup {Null}, cancelled : BOOLEAN]]
    /\ interrupt_request \in BOOLEAN
    /\ interrupt_active \in BOOLEAN
    /\ interrupt_address \in Addr \cup {0, Unset}
    /\ saved_pc \in Places
    /\ pc \in Places
    /\ cpu \in [at : Labels, timer : {Null}] \cup [at : TimerLabels, timer : Timers]
    /\ runs \in 0 .. MaxRuns

(* Interrupts do not nest: while a service routine runs the flag is up and *)
(* the saved R15 is the one of the interrupted program, so that RTI always *)
(* returns to it, however the timers post in the meantime.                 *)
ReturnsToProgram ==
    /\ pc # Main => interrupt_active
    /\ interrupt_active /\ cpu.at # "clear" => saved_pc = Main

(* A timer never has two threads, and once a register write is over a      *)
(* timer with a zero register has none: nothing posts for it any more.     *)
NoStrayThread ==
    \A h \in Handles : Live(h) =>
        /\ thread_list[thread[h].timer] = h
        /\ cpu.timer # thread[h].timer => Armed(thread[h].timer)

(* The CPU never jumps through gbl$interrupt_address before somebody wrote *)
(* it: the address is in place before the request is visible.              *)
NoJumpThroughUnset == pc # Unset

(* A pending request is taken up as long as the CPU runs.                  *)
RequestServed ==
    interrupt_request ~> (~interrupt_request \/ cpu.at \in {"shell", "exited"})

(* pthread_join in writeTimerDeviceRegister never hangs the CPU thread.    *)
JoinReturns == cpu.at = "join" ~> cpu.at # "join"

(* timer_test.asm stops a timer by a zero INT register and may be run      *)
(* again: a register write never ends the emulator.                        *)
WritesAreSafe == cpu.at # "exited"
=============================================================================
