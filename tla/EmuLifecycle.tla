---------------------------- MODULE EmuLifecycle ----------------------------
(***************************************************************************)
(* The threads of qnice-vga from start to shutdown: main() with the window *)
(* loop, the Q> shell and run() on the CPU thread, the time base, the      *)
(* speed regulation and the CTRL+C thread.  They synchronise by plain      *)
(* global flags; every access to a flag of another thread is a step of its *)
(* own.  What run() does with the UART and its threads is in EmuUart.      *)
(* The instructions of a run are counted, up to Many, in a history         *)
(* variable.                                                               *)
(***************************************************************************)
EXTENDS Integers

VARIABLES
    pc,             \* pc[t]: what thread t does next
    running,        \* running[p]: vga_timebase_thread_running, mips_adjustment_thread_running
    ctrlc_id,       \* ctrlc_thread_id # 0
    cpu_running,    \* gbl$cpu_running
    shutdown,       \* gbl$shutdown_signal
    ctrl_c,         \* gbl$ctrl_c
    pending,        \* SIGINT pending for the process, for the CTRL+C thread
    executed        \* instructions executed in this run (history)

flags == <<running, ctrlc_id, cpu_running, shutdown, ctrl_c, pending, executed>>
vars == <<pc, running, ctrlc_id, cpu_running, shutdown, ctrl_c, pending, executed>>

Many == 2

Pollers == {"timebase", "mips"}
Threads == {"main", "shell", "ctrlc"} \cup Pollers
Over == pc["main"] \in {"exited", "failed", "crashed"}

Goto(t, from, to) == pc[t] = from /\ pc' = [pc EXCEPT ![t] = to]

Init ==
    /\ pc = [t \in Threads |-> IF t = "main" THEN "create" ELSE "none"]
    /\ running = [p \in Pollers |-> FALSE]
    /\ ctrlc_id = FALSE /\ cpu_running = FALSE /\ shutdown = FALSE /\ ctrl_c = FALSE
    /\ pending = {} /\ executed = 0

(***************************************************************************)
(* main creates the threads one after the other; each starts when the      *)
(* scheduler likes, so that main may as well create them all in one step.  *)
(* After the window loop main kills the CTRL+C thread, waits for the flags *)
(* and tears SDL down.  The end of main ends the process.                  *)
(***************************************************************************)
vga_create_threads ==
    /\ pc["main"] = "create"
    /\ pc' = [t \in Threads |-> IF t = "main" THEN "window" ELSE "born"]
    /\ UNCHANGED flags

Exit(from, to) ==
    /\ pc["main"] = from
    /\ pc' = [t \in Threads |-> IF t = "main" THEN to ELSE "ended"]

CreationFails ==
    /\ Exit("create", "failed")
    /\ UNCHANGED flags

(* The window loop ends on SDL_QUIT or on the shutdown signal.             *)
vga_main_loop_Ends ==
    /\ Goto("main", "window", "shutdown")
    /\ UNCHANGED flags

SignalShutdown ==
    /\ Goto("main", "shutdown", "kill")
    /\ shutdown' = TRUE
    /\ UNCHANGED <<running, ctrlc_id, cpu_running, ctrl_c, pending, executed>>

(* Mutant: the thread in sigwait is not woken.                             *)
NoKill ==
    /\ Goto("main", "kill", "wait_cpu")
    /\ UNCHANGED flags

(* Mutant: the signal goes to main itself.                                 *)
KillMain ==
    /\ Goto("main", "kill", "wait_cpu")
    /\ pending' = pending \cup {"main"}
    /\ UNCHANGED <<running, ctrlc_id, cpu_running, shutdown, ctrl_c, executed>>

(* pthread_kill(ctrlc_thread_id, SIGINT): with the id 0, because that      *)
(* thread has not started or has ended, an error return or the end of the  *)
(* process.                                                                *)
KillCtrlC ==
    /\ IF ctrlc_id
       THEN Goto("main", "kill", "wait_cpu") /\ pending' = pending \cup {"ctrlc"}
       ELSE /\ Goto("main", "kill", "wait_cpu") \/ Exit("kill", "crashed")
            /\ UNCHANGED pending
    /\ UNCHANGED <<running, ctrlc_id, cpu_running, shutdown, ctrl_c, executed>>

(* The condition of the wait reads one flag after the other; a flag that   *)
(* is up sends main back to the start after 10 ms.                         *)
WaitFor(at, flag, next) ==
    /\ pc["main"] = at
    /\ pc' = [pc EXCEPT !["main"] = IF flag THEN "wait_cpu" ELSE next]

Wait ==
    /\ \/ ~cpu_running /\ Goto("main", "wait_cpu", "wait_timebase")
       \/ WaitFor("wait_timebase", running["timebase"], "wait_mips")
       \/ WaitFor("wait_mips", running["mips"], "wait_ctrlc")
       \/ WaitFor("wait_ctrlc", ctrlc_id, "teardown")
    /\ UNCHANGED flags

(* vga_shutdown takes its time, and the other threads are not stopped for  *)
(* it; the UART is run down and main returns only after it.                *)
vga_shutdown ==
    /\ Goto("main", "teardown", "return")
    /\ UNCHANGED flags

ReturnFromMain ==
    /\ Exit("return", "exited")
    /\ UNCHANGED flags

Main ==
    \/ vga_create_threads \/ SignalShutdown \/ KillCtrlC \/ Wait
    \/ vga_shutdown \/ ReturnFromMain
    \/ (shutdown /\ vga_main_loop_Ends)

(***************************************************************************)
(* vga_timebase_thread and mips_adjustment_thread                          *)
(***************************************************************************)
(* Mutant: the flag goes up after the first turn of the loop.              *)
PollerLate(p) ==
    /\ \/ Goto(p, "born", "check") /\ UNCHANGED running
       \/ Goto(p, "check", IF shutdown THEN "leave" ELSE "work") /\ UNCHANGED running
       \/ Goto(p, "work", "check") /\ running' = [running EXCEPT ![p] = TRUE]
       \/ Goto(p, "leave", "ended") /\ running' = [running EXCEPT ![p] = FALSE]
    /\ UNCHANGED <<ctrlc_id, cpu_running, shutdown, ctrl_c, pending, executed>>

Poller(p) ==
    /\ \/ Goto(p, "born", "check") /\ running' = [running EXCEPT ![p] = TRUE]
       \/ Goto(p, "check", IF shutdown THEN "leave" ELSE "work") /\ UNCHANGED running
       \/ Goto(p, "work", "check") /\ UNCHANGED running
       \/ Goto(p, "leave", "ended") /\ running' = [running EXCEPT ![p] = FALSE]
    /\ UNCHANGED <<ctrlc_id, cpu_running, shutdown, ctrl_c, pending, executed>>

(***************************************************************************)
(* signal_handler_ctrl_c_multithreaded: SIGINT is blocked everywhere and   *)
(* stays pending until sigwait takes it.                                   *)
(***************************************************************************)
CtrlCThread ==
    /\ \/ /\ Goto("ctrlc", "born", "check")
          /\ ctrlc_id' = TRUE /\ UNCHANGED <<pending, ctrl_c>>
       \/ /\ Goto("ctrlc", "check", IF shutdown THEN "leave" ELSE "sigwait")
          /\ UNCHANGED <<ctrlc_id, pending, ctrl_c>>
       \/ /\ Goto("ctrlc", "sigwait", "got")
          /\ \E s \in pending : pending' = pending \ {s}
          /\ UNCHANGED <<ctrlc_id, ctrl_c>>
       \/ /\ Goto("ctrlc", "got", "check")
          /\ ctrl_c' = TRUE /\ UNCHANGED <<ctrlc_id, pending>>
       \/ /\ Goto("ctrlc", "leave", "ended")
          /\ ctrlc_id' = FALSE /\ UNCHANGED <<pending, ctrl_c>>
    /\ UNCHANGED <<running, cpu_running, shutdown, executed>>

(***************************************************************************)
(* The CPU thread: main_loop and run().                                    *)
(***************************************************************************)
(* With a file on the command line it is loaded and run at once; RUN does  *)
(* so later.  The commands that do not call run() change nothing here.     *)
StartRun ==
    /\ Goto("shell", "born", "prompt") \/ Goto("shell", "born", "run_reset")
       \/ Goto("shell", "prompt", "run_reset")
    /\ UNCHANGED flags

(* QUIT, EXIT or the end of stdin, or a file that cannot be loaded.        *)
QUIT ==
    /\ Goto("shell", "prompt", "quit") \/ Goto("shell", "born", "quit")
    /\ UNCHANGED flags

emulator_main_loop_Ends ==
    /\ Goto("shell", "quit", "ended")
    /\ shutdown' = TRUE
    /\ UNCHANGED <<running, ctrlc_id, cpu_running, ctrl_c, pending, executed>>

RunReset ==
    /\ Goto("shell", "run_reset", "run_flag")
    /\ ctrl_c' = FALSE
    /\ UNCHANGED <<running, ctrlc_id, cpu_running, shutdown, pending, executed>>

(* Mutant: CTRL+C is forgotten when the CPU starts, not before.            *)
RunFlagResets ==
    /\ Goto("shell", "run_flag", "exec")
    /\ cpu_running' = TRUE /\ ctrl_c' = FALSE /\ executed' = 0
    /\ UNCHANGED <<running, ctrlc_id, shutdown, pending>>

RunFlag ==
    /\ Goto("shell", "run_flag", "exec")
    /\ cpu_running' = TRUE /\ executed' = 0
    /\ UNCHANGED <<running, ctrlc_id, shutdown, ctrl_c, pending>>

(* An instruction; HALT and errors end the run.                            *)
Instruction ==
    /\ Goto("shell", "exec", "check_ctrl_c") \/ Goto("shell", "exec", "run_stop")
    /\ executed' = IF executed < Many THEN executed + 1 ELSE Many

(* Mutant: the loop does not look at the shutdown signal.                  *)
ExecuteOn ==
    /\ \/ Instruction
       \/ /\ Goto("shell", "check_ctrl_c", IF ctrl_c THEN "run_stop" ELSE "exec")
          /\ UNCHANGED executed
    /\ UNCHANGED <<running, ctrlc_id, cpu_running, shutdown, ctrl_c, pending>>

(* while (!execute() && !gbl$ctrl_c && !gbl$shutdown_signal)               *)
Execute ==
    /\ \/ Instruction
       \/ /\ \/ Goto("shell", "check_ctrl_c", IF ctrl_c THEN "run_stop" ELSE "check_shutdown")
             \/ Goto("shell", "check_shutdown", IF shutdown THEN "run_stop" ELSE "exec")
          /\ UNCHANGED executed
    /\ UNCHANGED <<running, ctrlc_id, cpu_running, shutdown, ctrl_c, pending>>

(* The way back to the prompt leads through the wait for the UART thread.  *)
RunStop ==
    /\ \/ Goto("shell", "run_stop", "drain") /\ cpu_running' = FALSE
       \/ Goto("shell", "drain", "prompt") /\ UNCHANGED cpu_running
    /\ UNCHANGED <<running, ctrlc_id, shutdown, ctrl_c, pending, executed>>

Shell == RunReset \/ RunFlag \/ Execute \/ RunStop \/ emulator_main_loop_Ends

(* The user presses CTRL+C in the terminal.                                *)
CtrlC ==
    /\ pending' = pending \cup {"process"}
    /\ UNCHANGED <<pc, running, ctrlc_id, cpu_running, shutdown, ctrl_c, executed>>

Next ==
    /\ ~Over
    /\ \/ Main \/ CreationFails \/ vga_main_loop_Ends
       \/ \E p \in Pollers : Poller(p)
       \/ CtrlCThread
       \/ StartRun \/ QUIT \/ Shell
       \/ CtrlC

Spec == Init /\ [][Next]_vars

(* Every thread gets its turn; programs need not halt, the user need not   *)
(* do anything.  Main polls its flags every 10 ms while a program that is  *)
(* started during the shutdown runs a single instruction: main finds the   *)
(* CPU idle sooner or later.                                               *)
LiveSpec ==
    /\ Spec
    /\ SF_vars(~Over /\ Main)
    /\ \A p \in Pollers : WF_vars(~Over /\ Poller(p))
    /\ WF_vars(~Over /\ CtrlCThread)
    /\ WF_vars(~Over /\ (Shell \/ (pc["shell"] = "born" /\ StartRun)))

-----------------------------------------------------------------------------
MainLabels == {"create", "window", "shutdown", "kill", "wait_cpu", "wait_timebase",
               "wait_mips", "wait_ctrlc", "teardown", "return",
               "exited", "failed", "crashed"}
PollerLabels == {"none", "born", "check", "work", "leave", "ended"}
CtrlCLabels == {"none", "born", "check", "sigwait", "got", "leave", "ended"}
ShellLabels == {"none", "born", "prompt", "quit", "run_reset", "run_flag", "exec",
                "check_ctrl_c", "check_shutdown", "run_stop", "drain", "ended"}

TypeOK ==
    /\ DOMAIN pc = Threads
    /\ pc["main"] \in MainLabels /\ pc["shell"] \in ShellLabels /\ pc["ctrlc"] \in CtrlCLabels
    /\ \A p \in Pollers : pc[p] \in PollerLabels
    /\ running \in [Pollers -> BOOLEAN]
    /\ ctrlc_id \in BOOLEAN /\ cpu_running \in BOOLEAN
    /\ shutdown \in BOOLEAN /\ ctrl_c \in BOOLEAN
    /\ pending \subseteq {"process", "ctrlc"} /\ executed \in 0 .. Many

(* What is left of a thread once main has found its flag down.  The time   *)
(* base, the regulation and the CTRL+C thread are out of their loops and   *)
(* do not enter them, however late they start.  The CPU thread does come   *)
(* back: a run that had not raised gbl$cpu_running yet, or that the shell  *)
(* starts now, executes its first instruction, even while vga_shutdown     *)
(* frees what the VGA registers draw on, or after it.  It executes no      *)
(* second one.                                                             *)
PastMain == {"teardown", "return"}
PastCtrlC == pc["main"] \in PastMain
PastMips == pc["main"] \in PastMain \cup {"wait_ctrlc"}
PastTimebase == pc["main"] \in PastMain \cup {"wait_ctrlc", "wait_mips"}
PastCpu == pc["main"] \in PastMain \cup {"wait_ctrlc", "wait_mips", "wait_timebase"}

NoLoopAfterTeardown ==
    /\ PastTimebase => pc["timebase"] # "work"
    /\ PastMips => pc["mips"] # "work"
    /\ PastCtrlC => pc["ctrlc"] \notin {"sigwait", "got"}
    /\ PastCpu /\ pc["shell"] = "exec" => executed = 0
    /\ PastCpu /\ pc["shell"] \in {"check_ctrl_c", "check_shutdown", "run_stop"} => executed = 1

(* The emulator ends once the shell or the window has asked for it,        *)
(* whatever the other threads are doing at that time.                      *)
ShutdownCompletes == shutdown ~> Over

(* CTRL+C in a run stops that run, at whatever point of it it is pressed.  *)
InRun == pc["shell"] \in {"run_flag", "exec", "check_ctrl_c", "check_shutdown"}
CtrlCStopsRun == (pending # {} /\ InRun) ~> ~InRun
=============================================================================
