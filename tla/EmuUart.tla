------------------------------- MODULE EmuUart -------------------------------
(***************************************************************************)
(* The terminal input of qnice-vga: the threads of uart_getchar_thread     *)
(* that move characters from stdin into the FIFO, run() on the CPU thread  *)
(* that starts and awaits them through two flags, and the end of main that *)
(* frees the FIFO.  The FIFO itself is module Fifo, the other threads and  *)
(* their part in the shutdown are in EmuLifecycle.                         *)
(***************************************************************************)
EXTENDS Integers

CONSTANTS
    Uarts,      \* bound: the UART threads that can be created
    FirstUart,  \* the one main creates
    MaxKeys     \* bound: characters typed and not yet taken by anyone

ASSUME UartsAssumption == FirstUart \in Uarts
ASSUME MaxKeysAssumption == MaxKeys \in Nat

VARIABLES
    main,           \* what main does next
    shell,          \* what the CPU thread does next
    uart,           \* uart[u]: what UART thread u does next
    cpu_running,    \* gbl$cpu_running
    uart_running,   \* uart_getchar_thread_running
    shutdown,       \* gbl$shutdown_signal
    initial_run,    \* gbl$initial_run
    uart_status,
    fifo,           \* "allocated" or "freed"
    tty,            \* characters the kernel holds for stdin
    stdio           \* characters getchar() has fetched and not returned yet

threads == <<main, shell, uart>>
flags == <<cpu_running, uart_running, shutdown, initial_run>>
input == <<tty, stdio>>
terminal_vars == <<main, shell, uart, cpu_running, uart_running, shutdown, initial_run,
                   uart_status, fifo, tty, stdio>>

Over == main = "exited"

TerminalInit ==
    /\ main = "window" /\ shell = "born"
    /\ uart = [u \in Uarts |-> IF u = FirstUart THEN "born" ELSE "none"]
    /\ cpu_running = FALSE /\ uart_running = FALSE
    /\ shutdown = FALSE /\ initial_run = TRUE
    /\ uart_status = "undef" /\ fifo = "allocated"
    /\ tty = 0 /\ stdio = 0

(***************************************************************************)
(* uart_getchar_thread.  getchar() fetches everything the kernel has into  *)
(* the buffer of stdin and returns one character of it, holding the lock   *)
(* of stdin even while it waits; poll() sees the kernel only.              *)
(***************************************************************************)
UartGoto(u, from, to) == uart[u] = from /\ uart' = [uart EXCEPT ![u] = to]

StdinFree == \A u \in Uarts : uart[u] # "blocked"

(* Mutant: the flag stays up when the thread ends.                         *)
UartFlagStays(u) ==
    /\ \/ cpu_running /\ UartGoto(u, "born", "announce") /\ UNCHANGED uart_running
       \/ UartGoto(u, "announce", "check") /\ uart_running' = TRUE
       \/ UartGoto(u, "check", IF cpu_running THEN "poll" ELSE "leave") /\ UNCHANGED uart_running
       \/ UartGoto(u, "leave", "ended") /\ UNCHANGED uart_running
    /\ UNCHANGED <<main, shell, cpu_running, shutdown, initial_run, uart_status, fifo, input>>

UartFlag(u) ==
    /\ \/ cpu_running /\ UartGoto(u, "born", "announce") /\ UNCHANGED uart_running
       \/ UartGoto(u, "announce", "check") /\ uart_running' = TRUE
       \/ UartGoto(u, "check", IF cpu_running THEN "poll" ELSE "leave") /\ UNCHANGED uart_running
       \/ UartGoto(u, "leave", "ended") /\ uart_running' = FALSE
    /\ UNCHANGED <<main, shell, cpu_running, shutdown, initial_run, uart_status, fifo, input>>

(* Mutant: the result of poll is taken for an error code.                  *)
PollInverted(u) ==
    /\ UartGoto(u, "poll", IF tty > 0 THEN "check" ELSE "getchar")
    /\ UNCHANGED <<main, shell, flags, uart_status, fifo, input>>

Poll(u) ==
    /\ UartGoto(u, "poll", IF tty > 0 THEN "getchar" ELSE "check")
    /\ UNCHANGED <<main, shell, flags, uart_status, fifo, input>>

(* Mutant: a read that returns nothing counts as a character.              *)
FetchNothing(u, from) ==
    /\ stdio = 0
    /\ UartGoto(u, from, "push")
    /\ stdio' = tty - 1 /\ tty' = 0

Fetch(u, from) ==
    /\ tty > 0 /\ stdio = 0
    /\ UartGoto(u, from, "push")
    /\ stdio' = tty - 1 /\ tty' = 0

Getchar(u) ==
    /\ \/ /\ StdinFree
          /\ \/ stdio > 0 /\ stdio' = stdio - 1 /\ UNCHANGED tty /\ UartGoto(u, "getchar", "push")
             \/ Fetch(u, "getchar")
             \/ tty + stdio = 0 /\ UartGoto(u, "getchar", "blocked") /\ UNCHANGED input
       \/ Fetch(u, "blocked")
    /\ UNCHANGED <<main, shell, flags, uart_status, fifo>>

Push(u) ==
    /\ UartGoto(u, "push", "check")
    /\ UNCHANGED <<main, shell, flags, uart_status, fifo, input>>

Uart(u) == UartFlag(u) \/ Poll(u) \/ Getchar(u) \/ Push(u)

(***************************************************************************)
(* The CPU thread: the shell, RUN and run().                               *)
(***************************************************************************)
ShellGoto(from, to) == shell = from /\ shell' = to

(* fgets takes one line: it ends in the buffer of stdin, or the buffer is  *)
(* used up and the line ends in what the kernel holds.                     *)
ReadLine ==
    /\ StdinFree
    /\ \/ stdio > 0 /\ stdio' \in 0 .. stdio - 1 /\ UNCHANGED tty
       \/ stdio' = 0 /\ tty' \in 0 .. tty

(* With a file on the command line it is loaded and run at once.           *)
main_loop_Starts ==
    /\ ShellGoto("born", "prompt") \/ ShellGoto("born", "run_reset")
    /\ UNCHANGED <<main, uart, flags, uart_status, fifo, input>>

(* Every RUN but the first creates a thread; if that fails nobody looks.   *)
RUN ==
    /\ ShellGoto("prompt", "run_reset") /\ ReadLine
    /\ \/ UNCHANGED uart
       \/ ~initial_run /\ \E u \in Uarts : UartGoto(u, "none", "born")
    /\ UNCHANGED <<main, flags, uart_status, fifo>>

(* Any other command; of the input it only consumes its line.              *)
OtherCommand ==
    /\ shell = "prompt" /\ ReadLine
    /\ UNCHANGED <<threads, flags, uart_status, fifo>>

(* QUIT or the end of stdin; emulator_main_loop raises the signal.         *)
QUIT ==
    /\ ShellGoto("prompt", "ended") /\ ReadLine
    /\ shutdown' = TRUE
    /\ UNCHANGED <<main, uart, cpu_running, uart_running, initial_run, uart_status, fifo>>

RunStart ==
    /\ \/ ShellGoto("run_reset", "run_uart") /\ initial_run' = FALSE
                                             /\ UNCHANGED <<cpu_running, uart_status>>
       \/ ShellGoto("run_uart", "run_flag") /\ uart_status' = "init"
                                            /\ UNCHANGED <<cpu_running, initial_run>>
       \/ ShellGoto("run_flag", "exec") /\ cpu_running' = TRUE
                                        /\ UNCHANGED <<uart_status, initial_run>>
    /\ UNCHANGED <<main, uart, uart_running, shutdown, fifo, input>>

(* The loop ends with the program, by CTRL+C or by the shutdown signal.    *)
Execute ==
    /\ \/ ShellGoto("exec", "check") \/ ShellGoto("exec", "run_stop")
       \/ ShellGoto("check", "run_stop") \/ (~shutdown /\ ShellGoto("check", "exec"))
    /\ UNCHANGED <<main, uart, flags, uart_status, fifo, input>>

RunEnd ==
    /\ \/ ShellGoto("run_stop", "run_down") /\ cpu_running' = FALSE /\ UNCHANGED uart_status
       \/ ShellGoto("run_down", "drain") /\ uart_status' = "rundown" /\ UNCHANGED cpu_running
       \/ ~uart_running /\ ShellGoto("drain", "prompt") /\ UNCHANGED <<cpu_running, uart_status>>
    /\ UNCHANGED <<main, uart, uart_running, shutdown, initial_run, fifo, input>>

(***************************************************************************)
(* main: closing the window or QUIT, the wait for the CPU (and for the     *)
(* threads of EmuLifecycle), uart_fifo_free, the end of the process.       *)
(***************************************************************************)
MainGoto(from, to) == main = from /\ main' = to

Main ==
    /\ \/ MainGoto("window", "wait") /\ shutdown' = TRUE /\ UNCHANGED <<uart_status, fifo>>
       \/ ~cpu_running /\ MainGoto("wait", "free") /\ UNCHANGED <<shutdown, uart_status, fifo>>
       \/ /\ MainGoto("free", "return") /\ UNCHANGED shutdown
          /\ IF uart_status = "init" THEN uart_status' = "rundown" /\ fifo' = "freed"
                                     ELSE UNCHANGED <<uart_status, fifo>>
       \/ MainGoto("return", "exited") /\ UNCHANGED <<shutdown, uart_status, fifo>>
    /\ UNCHANGED <<shell, uart, cpu_running, uart_running, initial_run, input>>

(* The user types a character that the shell does not ask for.             *)
TypeKey ==
    /\ tty + stdio < MaxKeys
    /\ tty' = tty + 1
    /\ UNCHANGED <<threads, flags, uart_status, fifo, stdio>>

Run == RunStart \/ Execute \/ RunEnd

TerminalNext ==
    /\ ~Over
    /\ \/ \E u \in Uarts : Uart(u)
       \/ main_loop_Starts \/ RUN \/ OtherCommand \/ QUIT \/ Run
       \/ Main \/ TypeKey

TerminalSpec == TerminalInit /\ [][TerminalNext]_terminal_vars

(* The threads get their turns; programs and the user may go on for ever.  *)
TerminalLiveSpec ==
    /\ TerminalSpec
    /\ WF_terminal_vars(~Over /\ Run)
    /\ \A u \in Uarts : WF_terminal_vars(~Over /\ Uart(u))

-----------------------------------------------------------------------------
UartLabels == {"none", "born", "announce", "check", "poll", "getchar", "blocked", "push",
               "leave", "ended"}

TerminalTypeOK ==
    /\ main \in {"window", "wait", "free", "return", "exited"}
    /\ shell \in {"born", "prompt", "run_reset", "run_uart", "run_flag", "exec", "check",
                  "run_stop", "run_down", "drain", "ended"}
    /\ uart \in [Uarts -> UartLabels]
    /\ cpu_running \in BOOLEAN /\ uart_running \in BOOLEAN
    /\ shutdown \in BOOLEAN /\ initial_run \in BOOLEAN
    /\ uart_status \in {"undef", "init", "rundown"}
    /\ fifo \in {"allocated", "freed"}
    /\ tty \in 0 .. MaxKeys /\ stdio \in 0 .. MaxKeys

(* run() comes back to the prompt: its wait for the UART thread ends even  *)
(* if two of them share the flag and one hangs in getchar().               *)
PromptReturns == shell = "drain" ~> (shell = "prompt" \/ Over)

(* uart_getchar_thread_running is the "flag to safely free the FIFO's      *)
(* memory" (uart.c:25): nobody pushes into a FIFO that is gone.            *)
NoPushAfterFree == fifo = "freed" => \A u \in Uarts : uart[u] # "push"

Looping == {"check", "poll", "getchar", "blocked", "push"}
ProgramReads == cpu_running /\ \E u \in Uarts : uart[u] \in Looping

(* The FIFO is as large as a text that can be pasted, because the thread   *)
(* "might pick up the data slower" than it comes (uart.c:29-35): all of it *)
(* is picked up.  The code does not do that.  A character that getchar()   *)
(* has fetched along with another is not seen by poll() any more and stays *)
(* in the buffer of stdin: of a pasted text only the first character need  *)
(* reach the FIFO (EmuUart_PasteIsTaken.cfg has TLC show it).              *)
PasteIsTaken == (stdio > 0 /\ ProgramReads) ~> (stdio = 0 \/ ~cpu_running \/ Over)

(* What the code does instead: the next key typed while a program runs     *)
(* brings out all that were left in the buffer, although a reader left     *)
(* over from an earlier run may take part and hold the lock of stdin.      *)
NextKeyReleases ==
    (stdio > 0 /\ tty > 0 /\ ProgramReads) ~> (stdio = 0 \/ ~cpu_running \/ Over)
=============================================================================
