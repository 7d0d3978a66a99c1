# A verification project for QNICE

QNICE is a 16-bit computer that exists twice in this repository: as an emulator
in C (`src/emulator`) and as hardware in VHDL (`src/vhdl`). Around the two are a
monitor (the operating system, in QNICE assembler), an assembler, a C toolchain
and test programs, which run on either machine.

This directory holds TLA+ modules that model the core of both machines, TLC
configurations that check them on small instances, and theorems about them that
the TLA+ proof system (TLAPS) has checked for every value of the constants.

    tlc -config Fifo.cfg Fifo            # model-check one run
    tlapm HwTimer_proofs.tla             # check the proofs of one module

`PROJECT.json` lists the runs, for each definition the source lines it models,
for each property a plausible bug it catches (a mutated definition, kept next to
the original and marked "Mutant"), the findings and the hazards.

## 1. Inventory

### The emulator

The emulator is one process with several threads that share global variables,
almost all of them without a lock.

| Part | State | Operations | What makes it correct |
|---|---|---|---|
| FIFO (`fifo.c`) | ring `data`, `size`, `count`, `head`, `tail`, `mutex` | init, push, pull, clear, free | a bounded queue whatever the threads do; drops only at the limit |
| CPU (`qnice.c`, `execute`) | 16-bit memory, banked registers R0-R7, R8-R15, SR, PC | 14 instructions, 5 control instructions, 4 addressing modes, branches | every instruction computes what the programming card says, and what the hardware computes |
| interrupts (`qnice.c`) | `gbl$interrupt_request`, `_address`, `_active`, saved R14 and R15 | dispatch before an instruction, INT, RTI | no nesting, RTI returns, a request is served, INT reaches its routine |
| timers (`timer.c`) | six registers, `thread_list`, one thread per running timer | register write: cancel, join, create; the thread: sleep, post address, post request | one thread per running timer, none for a stopped one |
| UART (`uart.c`) | registers, a FIFO, a thread that polls stdin | register read and write, thread start and stop | no character is lost or invented, no use of the FIFO after it is freed |
| keyboard, VGA (`vga.c`) | `kbd_state`, `kbd_data`, VRAM, cursor, scroll offsets | key events in the window thread, register access in the CPU thread, drawing | each key is delivered once |
| SD card, IDE | registers, sector buffer, image file | register read and write, sector read and write | a sector is read from and written to its place |
| EAE, cycle and instruction counters (`qnice.c`) | operands, results, CSR; 48-bit counters | register read and write | results as in the hardware |
| shell, threads (`qnice.c`) | breakpoints, `gbl$cpu_running`, `gbl$shutdown_signal`, `gbl$ctrl_c` | commands, CTRL+C, RUN, RESET, shutdown | every thread ends, nobody waits for a thread that is gone |

Interaction: the shell thread runs `run()`, which calls `execute()` until HALT,
CTRL+C or shutdown. `access_memory()` turns accesses above 0xFF00 into calls of the
devices, on the CPU thread. Timer threads call nobody: they write two globals that
`execute()` tests before every instruction. The UART thread and the window thread
fill FIFOs the CPU thread drains.

### The hardware

| Part | State | Operations | What makes it correct |
|---|---|---|---|
| CPU (`qnice_cpu.vhd`, `alu*.vhd`, `register_file.vhd`) | state machine, instruction and operand latches, delayed register write, PC, SP, SR, address bus, shadow registers, `Int_Active` | one state per clock cycle, wait states for memory and devices | each instruction ends as in the emulator; the next fetch goes to the PC |
| interrupt daisy chain (`qnice_cpu.vhd`, `timer.vhd`, `timer_module.vhd`) | five states per timer, latched grants, `INT_N` / `IGRANT_N` through all devices | request, grant, ISR address on the data bus, release | the CPU jumps to the routine of the requester; one driver on the bus; no starvation |
| timer counters (`timer.vhd`) | PRE, CNT, INT registers, prescaler, counter, frequency divider, `has_fired` | register write, tick, reload | counters stay in range, the period is exact |
| UART (`bus_uart.vhd`, `basic_uart.vhd`, `fifo.vhd`) | ring buffer, shift registers, read and write handshake | bus access with wait states, receive, transmit | a bounded queue; the CPU never waits forever |
| SD card (`sdcard.vhd`, over the vendored `sd_spi.vhd`) | registers, sector buffer, state machine | reset, read sector | a command ends, with a full sector or an error |
| MMIO and reset (`mmio_mux.vhd`) | reset and power-on state machine | reset, PORE, run | the right ROM is mapped, the CPU is reset long enough |
| keyboard, EAE, VGA, displays | registers | register access | as in the emulator |

### Software

Monitor and its libraries (sequential assembler), FAT32 reader, two-pass assembler
(`assembler/qasm.c`), vendored C toolchain with a QNICE backend, serial file
transfer, test programs. Their comments and headers are also the statements about
the machine that the "violation" runs quote.

### What is hard

* Interleavings of C threads on unprotected globals, with cancellation.
* Concurrent state machines that talk over combinational lines within a cycle and
  over registers between cycles.
* One register write port, post-increments that are written a state later, and
  operands latched before the register they came from changes.
* Boundaries: full and empty rings, counters that reload at 0 or 1, shifts by 16
  and more, register banks that wrap.

`PROJECT.json`, "hazards", lists them one by one with the line where they bite and
the property that watches it, or why none does yet.

## 2. Modules

| Module | Models | Depends on |
|---|---|---|
| `BoundedQueue` | abstract: a queue of at most `Size` elements, called by threads | Sequences |
| `Fifo` | `fifo.c`, one statement per step | `BoundedQueue` (refinement) |
| `EmuInterrupts` | interrupt part of `execute()`, `timer.c`, RUN/RESET/CTRL+C | |
| `EmuLifecycle` | `main`, the shell, `run()` and the helper threads of `qnice-vga` from start to shutdown | |
| `EmuUart` | the readers of stdin (`uart.c`), `run()`, the shell and the end of `main` | |
| `EmuKeyboard` | key handler and keyboard registers (`vga.c`), the monitor polling them | |
| `Isa` | `execute()` of the emulator as operators on a machine record | |
| `HwCpu` | instruction states of `qnice_cpu.vhd`, ALU, shifter, register file | `Isa` (as reference) |
| `MCHwCpu` | instances of `HwCpu` for TLC | `HwCpu` |
| `DaisyChain` | interrupt part of `qnice_cpu.vhd`, state machines of `timer.vhd`, chain of `timer_module.vhd` | |
| `HwTimer` | counters of `timer.vhd` | |
| `HwUart` | `bus_uart.vhd`, `basic_uart.vhd`, `fifo.vhd`, and the bus cycles of a CPU that runs the monitor's character routines | |
| `HwSdCard` | `sdcard.vhd` over `sd_spi.vhd`, and the monitor's SD routines | |
| `EmuInterrupts_proofs`, `DaisyChain_proofs`, `HwTimer_proofs`, `HwUart_proofs`, `HwSdCard_proofs`, `HwCpu_proofs` | theorems about the module they are named after | that module, TLAPS |
| `TerminalInput_proofs` | theorems about the way of a typed character: the readers of stdin and the queue they fill | `Fifo`, `EmuUart`, TLAPS |
| `EmuThreads_proofs` | theorems about the threads that synchronise by plain flags and bits | `EmuLifecycle`, `EmuKeyboard`, TLAPS |

The specification in `EmuUart` is called `TerminalSpec` and the one in `EmuKeyboard`
`KeyboardSpec`, with `Terminal...` and `Keyboard...` in front of `Init`, `Next` and
`TypeOK`: a proof module extends each of them together with another module that
has a `Spec` of its own.

### Fifo and BoundedQueue

The state of `fifo_t` is one variable per field, `mutex` is the thread that holds
it, `pc[t]` says at which statement of which function thread `t` is, `arg[t]` and
`retval[t]` are its argument and its local result. Each action is one statement of `fifo.c` between two
accesses of shared fields; the lock and the unlock are steps of their own. `Junk`
is what `malloc` left in the cells. The refinement maps the ring to the sequence of
its live cells; the moment at which a call takes effect is the statement that
changes `count`.

### EmuInterrupts

The CPU thread is `cpu`, a label plus the timer whose register write is being
served. The order of the accesses in the dispatch is the source's:
`Fetch` (test both flags, raise `interrupt_active`), `ClearRequest` (clear the
request, save R15), `Jump` (read the address). INT writes the address
(`INT`) and raises the request in a step of its own (`PostINT`). A register
write is `StoreRegister`, then `CancelThread`, `JoinThread` and `CreateThread`
or `NoThreadYet`. A timer thread is `asleep`, about to post the `address` or about
to post the `request`. `pthread_cancel` marks the thread; it ends in `nanosleep`,
the only cancellation point of the loop. A handle whose thread has ended
may be given out again by `pthread_create`, and cancelling a dead handle ends the
emulator, which is what `timer.c` does when the call fails.

What is abstracted: durations (a sleep may end at any time), the program (any
instruction at any time), R14 and the PC inside a routine (the PC says which
routine it points into). The two stores of `timer()` stay in program order: the
globals are plain variables, but the compiler has no reason to swap two stores
through different pointers and x86 keeps stores in order; on other machines or
builds they could be swapped, and `NoJumpThroughUnset` would then be at stake.

### EmuLifecycle and EmuUart

Both model threads that synchronise by plain global flags, each access to a flag of
another thread being a step. `EmuLifecycle` has the five threads that `main`,
`vga_create_threads` and `run()` deal with: main (which becomes the window loop),
the CPU thread with the shell, the time base, the speed regulation and the CTRL+C
thread. `pc[t]` is the statement a thread is at. A thread is `born` until its
first statement, which is where it raises its flag, so a late start is a
behaviour. SIGINT is blocked in every thread and stays in `pending` until `sigwait`
takes it; `main` wakes that thread with a signal of its own, which the model keeps
apart from the user's CTRL+C. `vga_shutdown` takes its time and the other threads are
not stopped for it; the process ends when `main` returns after it. `executed` is a history
variable: the instructions of the run under way, counted up to 2. `pthread_kill` with an id of 0 returns an
error or ends the process. A failing creation of a thread or of the window is the
action `CreationFails`.

`EmuUart` takes over where `run()` deals with the UART: a reader of stdin waits
for `gbl$cpu_running`, announces itself in `uart_getchar_thread_running`, and
polls; `main` creates the first one and every later RUN another, while an earlier
one may still be there. `tty` is the number of characters in the kernel and
`stdio` the number in the buffer of stdin: `getchar()` fetches all the kernel has
and returns one, holding the lock of stdin, also while it blocks; `poll()` sees the
kernel's only. The shell's `fgets` takes one line of the same input, for any command,
and may leave the rest in the buffer or in the kernel. The values of characters
do not matter here and their order is the business of `Fifo`. `main` waits for the
CPU only, frees the FIFO if `uart_status` says that there is one, and ends the
process some time later.

### EmuKeyboard

Every access to `kbd_state` and `kbd_data` is a step; `kbd_state |= x` is a load
into `win_reg` or `cpu_reg` and a store. A key event goes through the three
modifiers, stores its character (twice for a key that is mapped after it was stored, a third time for
a letter with shift and CTRL), and sets one of the two "new" bits. The program on the CPU
is the monitor: the cold start ORs the locale into the register, `KBD$GETCHAR`
polls the bits and reads the data register, which clears them. Characters are
numbers of key events.

### DaisyChain

The clock is `clk`; `FallingEdge` and `RisingEdge` are the two kinds of steps,
since `has_fired` changes on the falling edge and everything else on the rising
one. A rising edge advances the CPU and all timers at once, each from the
combinational lines of the cycle: `int_n_out`, `grant_n_in`, `IGRANT_N` and the
devices on the data bus are operators on the state. Timer `i` gets its request
line from timer `i + 1` and its grant from timer `i - 1` or the CPU. Which
timers elapse is left open (module `HwTimer` counts). The PC is the routine it
is in and one of two offsets, enough to tell an instruction from its operand. An
instruction that has nothing to do with interrupts runs through its states with
any number of wait states and may store to a register of a timer, or push a return address
there if SP points to it, which resets that timer's state machine. `INT @--Rxx` is
covered by `INT @Rxx++`: with R15 both move the PC to the other of its two offsets. `requester` and `resume` are history variables.

### HwTimer

One timer: PRE, CNT and the three counters, one tick per cycle, with a register
write at any cycle, and the `s_reset` state that reloads the counters. `elapsed`
counts prescaler periods for `PeriodExact`.

### Isa and HwCpu

`Isa` is `execute()` as operators: words are numbers below 65536, a machine is a
record of registers, banks and memory, and `Execute` maps a machine to the next
one. Memory is flat: no device registers, so `access_memory` is a function.

`HwCpu` has the registers of the CPU entity as fields of one record; each state
of the CPU is an operator that gives the registers after the clock edge. Wait
states stutter in the states that test `WAIT_FOR_DATA`. The behaviour of one
instruction starts in `cs_fetch` with a machine of `Starts` and ends when the CPU
is in `cs_fetch` again; `AgreesWithEmulator` then compares the architectural state
with `Isa!Execute` of the machine it started with. `Starts` is a set of families
(instruction sets times register values), so that the interesting dimension of
each family can be enumerated and the others fixed.

Four kinds of instructions are excluded from `AgreesWithEmulator` by the operator
`Differ`, because emulator and hardware do disagree there:

* `IncrementsDst`: the source post-increments the register that is the
  destination, in `ADD @R13++, R13`, `CMP @R0++, R0` and the like; the hardware
  does not always forward the new value (observation 6).
* `ShiftsAndMoves`: a shift whose destination moves its pointer; the emulator
  decrements it twice (observation 5) and does not increment it when the count is 0.
* `UsesSRTwice`: R14 as a pointer, or shifted. The two order the update of the
  flags and the use of the register differently.
* `Reserved`: opcode 13 and the control commands other than HALT, RTI, INCRB and
  DECRB, on which one of the two halts and the other goes on (observation 14). INT,
  the command 2, is in `EmuInterrupts` and `DaisyChain`; RTI appears here as it is
  outside an interrupt, where it halts.

### HwUart

`Clock` is one rising edge of everything: the CPU, the receiver, the transmitter,
the ring buffer and the two flag registers of `bus_uart.vhd`. `reading` and
`byte_tx_ready` have asynchronous clears (by `rd_valid`, by a busy transmitter);
their equations therefore use the new value of the clearing signal as well as the old
one. The CPU walks through the bus states of `MOVE @R0, R8` and
`MOVE R8, @R0`: the address is on the bus in `get_src` and `execute`, the write in
`store`, and it honours the wait state in `fetch` and `get_src`. It is the monitor that
runs there: `UART$GETCHAR` reads only after it has seen the status bit,
`UART$PUTCHAR` likewise. `ram` and `rd_data` hold the number of a character, so
that "once and in order" is an equation between numbers. A character takes any
number of cycles on the line; the far end looks at CTS before each. The
wait-state in `get_src` is in the code and in the model but does not occur: the
wait falls into the next fetch, which is what `CpuCases` of `HwUart_proofs` shows.

### HwSdCard

`Wrapper` is the process of `sdcard.vhd` with its registers, `Advance` one step of
the state machine of `sd_spi.vhd`, `Shift` a cycle in which that one waits for bits.
Both see each other's outputs of the cycle before. The states that send a command
and get its response are one state each, with the bytes between taken together;
the bytes of a block come one by one through `dout_avail` and `dout_taken`. The
card may answer, answer with an error, not answer, or disturb a byte or the
checksum. A wrong answer during the initialisation stops the controller at once (`Stall`),
no answer only when the repetitions are used up (`NoResponse`). `sd_sync_reset` resets the controller in the middle of anything. The
CPU comes to the registers at most every `Pace` = 3 cycles (an instruction takes
at least that long) and runs `SD$RESET`, `SD$READ_BLOCK` and `SD$WAIT_BUSY`, with
their timeouts, which let it go on while the hardware is still busy.

## 3. Runs

| Run | Shows | Bounds |
|---|---|---|
| `fifo` | the ring is consistent after each statement and implements `BoundedQueue` | 3 cells, 2 characters, 3 threads: full, empty, wrap-around and a waiting thread all occur |
| `emu_interrupts` | `ReturnsToProgram`, `NoStrayThread`, `NoJumpThroughUnset`, `RequestServed`, `JoinReturns` | 2 timers (the code's number), 2 service routines, 2 handles (reused), 2 RUN commands |
| `emu_writes_are_safe` | violation: a register write after a timer was stopped ends the emulator | as above |
| `emu_lifecycle` | `NoLoopAfterTeardown`, `ShutdownCompletes`, `CtrlCStopsRun` | none but `executed`, which stops at 2: five threads and their flags (110,634 states) |
| `emu_uart` | `PromptReturns`, `NextKeyReleases` | 3 readers: the first, one that is left over, one that is new; 2 characters in the air, for which two readers race, and one of which is left in the buffer of stdin when the next comes |
| `emu_no_push_after_free` | violation: the FIFO is freed while a reader is about to push | as above |
| `emu_keyboard` | `AnnouncedIsStored`, `LastKeyReaches`, `RepeatsBounded`, `Heals` | 3 key events: one whose update is lost, one that overwrites it, one after; no modifier or two |
| `daisy_chain` | `GrantReachesRequester`, `OneDriver`, `BusReleased`, `ResumesExactly`, `Served` | 3 timers, one more than `timer_module.vhd` chains, so that a device has two neighbours |
| `hw_timer` | `CountersInRange`, `PeriodExact` | words up to 3, divider 2: every counter counts, reloads and is overwritten midway |
| `hw_cpu` | `FetchesAtPC`, `NothingPending`, `AgreesWithEmulator` | all operations on boundary values; all pairs of addressing modes and of registers that alias (same register, SP, SR, PC, banked and not); branches; bank changes |
| `hw_uart` | `ReadsInOrder`, `SentInOrder`, `NothingDropped`, `ReadEnds` | ring of 4 cells (3 usable), 9 characters: it fills, empties and wraps twice; 3 bytes sent |
| `hw_sd_card` | `ReadIntact`, `BusyEnds` | blocks of 3 bytes (first, middle, last), two addresses that differ in both words, 2 retries |

Every passing run but `fifo` and `hw_cpu` also checks the type invariant of its module. Deadlock is checked in all but five configurations: `EmuLifecycle`,
the three of `EmuUart`, and `EmuKeyboard`, where the process ends or no
key is left to press. `Rest` in `EmuInterrupts` and the final stutter in `HwCpu`
stand for the places where the system really stops.

The bound `MaxRuns` counts RUN commands; it is in the guard of `Run`. With two
the CPU can stop inside a service routine, with timers alive and a request pending,
be reset or not, and go on from there; a third adds no new situation.

### Fairness

* `EmuInterrupts!LiveSpec`: the operating system schedules the CPU thread and
  every timer thread (weak fairness of each), and service routines end in RTI
  (strong fairness of `RTI` while an interrupt is active). The last is an
  assumption on programs, not on the emulator: without it no request after the
  first can be served.
* `EmuLifecycle!LiveSpec`: weak fairness of every thread, but not of the user and
  not of the program that runs, which need not halt. Main polls `cpu_running` every
  10 ms and may find it up each time if the user keeps typing RUN during the shutdown;
  strong fairness of main says that it finds the CPU idle sooner or later, which
  holds because such a run ends after one instruction.
* `EmuUart!LiveSpec`: weak fairness of `run()` and of every reader.
* `EmuKeyboard!LiveSpec`: weak fairness of both threads; strong fairness of `Poll`,
  since the monitor may be started again and again but asks for keys in between.
* `DaisyChain!LiveSpec`: the clock ticks, a device that makes the CPU wait lets
  it go on eventually, and routines end in RTI.
* `HwUart!LiveSpec`: the clock ticks.
* `HwSdCard!LiveSpec`: the clock ticks, the library goes on, and the card's next
  byte or its failure to answer comes in the end (strong fairness of `Advance`).

`Fifo`, `HwTimer` and `HwCpu` state safety only.

## 4. Findings and observations

Four disagreements between the code and what the repository says about it are listed as
findings. Two have a run whose counterexample TLC prints:

* `emu_writes_are_safe`: `timer.c` keeps the handle of a stopped timer and exits
  the emulator at the next write to one of its registers.
* `emu_no_push_after_free`: the end of `main` frees the FIFO of the UART without
  looking at the flag that is there for this purpose. In the trace `run()` has set
  `uart_status` (`qnice.c:1110`) but not yet raised `gbl$cpu_running` (`qnice.c:1114`) when main
  passes its wait and frees the FIFO; then the flag goes up, the reader starts, polls and
  pushes into freed memory. The same can happen when main looks after the flag has
  gone down (`qnice.c:1136`) and before `uart_run_down` (`qnice.c:1142`).

In the other two the code does what a passing run states, and the comment says something else:

* `hw_timer`, `PeriodExact`: `timer.vhd:15-17` and `timer_module.vhd:15-18` promise the interrupt
  when the number of prescaler pulses equals CNT. `timer.vhd:220` tests the
  counter for 0 before it counts down, so it comes with pulse CNT + 1, after PRE * (CNT + 1)
  periods of the divider; and such a period of the "100 kHz clock" is one system
  clock longer than intended (`timer.vhd:213-215`).
* `emu_uart`, `NextKeyReleases`: `uart.c:29-35` sizes the FIFO for a pasted text, which the
  UART thread is to pick up, if slowly. `getchar()` moves all pending characters into the buffer of
  stdin, where `poll()` does not see them: of a pasted text only the first character need
  reach the FIFO before another key is typed. The expectation is `PasteIsTaken` in
  `EmuUart`, and `tlc -config EmuUart_PasteIsTaken.cfg EmuUart` prints a counterexample. What holds
  instead is `NextKeyReleases`: the next key typed while a program runs brings out all
  that were left.

What else came up while modelling and is built into the modules as behaviour, or
excluded by name where two machines are compared:

1. INT and the timers of the emulator share one address: a timer that posts in
   between replaces the routine a software interrupt named (`qnice.c:990`,
   `timer.c:117`).
2. A timer thread that has left its sleep when its INT register is set to zero
   still posts, and posts address 0 (`timer.c:113-118`).
3. In the hardware chain the device farther from the CPU wins over a nearer one
   that became ready in the same cycle.
4. The two machines differ in the interval of a timer: the emulator sleeps CNT * PRE * 10 us
   (`timer.c:81`), as the comments say, and the hardware fires after PRE * (CNT + 1) periods
   of its divider (finding `hw_timer`).
5. The emulator decrements the pointer twice in `SHL x, @--Rxx` and `SHR`.
6. The hardware ALU uses the old SP, SR or PC as destination operand in
   `ADD @R13++, R13` and the like.
7. The monitor's cold start ORs the locale into IO$KBD_STATE, whose two
   "new key" bits `sysdef.asm:45-48` calls read only but `vga.c` takes from the
   program; if a key arrives between the read and the write its announcement is lost. `LastKeyReaches` therefore has `~written`.
8. With two readers of stdin on one flag, `run()` may return to the prompt while
   the other reader still loops; it ends at its next look at `gbl$cpu_running`.
9. With two readers of stdin the one that polled may find that the other has taken the
   character; it then hangs in `getchar()`, holding the lock of stdin, until a key is typed.
10. A program that reads the hardware's receive register without asking the status
    register first makes the CPU wait until a character arrives and loses that
    one, where the emulator returns 0. The monitor always asks.
11. When a read fails in the middle of a sector, `sdcard.vhd` goes on waiting for
    the next byte and shows the error until `SD$RESET`; a command written while it is
    busy stays pending and starts afterwards; `sd_spi.vhd` has its timeout for the
    start token commented out. `BusyEnds` holds because the card's answer comes
    by assumption, `ReadIntact` whatever comes.
12. `BusReleased` is stated for the two timers of `timer_module.vhd`. A third device
    in the chain would see the end of the grant a cycle later and would still be on
    the bus at the first fetch of its service routine; the model shows that when
    the bound `i <= 2` is removed.
13. `doc/int-device.md:51` and `:55-57` describe a chain of any number of devices. The
    protocol is safe up to five: with six, `OneDriver` is violated, with seven
    `GrantReachesRequester` (see section 5). `timer_module.vhd` has two.
14. The reserved opcode 13 stops the emulator (`qnice.c:967-969`), while the CPU
    decodes its operands and writes the 0 that `alu.vhd:127` yields; an unknown control
    command halts the CPU (`qnice_cpu.vhd:507`), while the emulator reports it
    and goes on (`qnice.c:1004`).
15. Main passes its wait while `run()` has not yet raised `gbl$cpu_running` (`qnice.c:1114`,
    `:1601`), or the shell starts a run afterwards: the CPU then executes one instruction
    during or after `vga_shutdown`, which frees `kbd_fifo` and `screen_pixels` (`vga.c:479-480`);
    an access to the keyboard or a VGA register would use freed memory. `NoLoopAfterTeardown`
    says that it is one instruction at most.

## 5. Proofs

All theorems rest only on the assumptions about the constants that stand next to
their declarations: a ring has a cell (the one of `fifo.vhd` two), `0`, `Main` and
`Unset` are no addresses of service routines, `Null` is no handle, no timer and no
address, registers hold at least one bit, the chain has a device, bounds are natural
numbers, a register or memory cell holds a 16-bit word (`BaseAssumption` in `Isa`,
`StartsAssumption` in `HwCpu`). TLC evaluates them in the passing runs.

| Theorem | Says | Argument |
|---|---|---|
| `TerminalInput_proofs!FifoIndInv` | the ring is consistent, for every size and set of threads | `IndInv` is inductive as it stands: `MutexInv` (the thread inside `fifo.c` is the owner), `RingInv` (count is the distance between the indices, corrected by what the owner has and has not done yet), `StoredInv` and `PendingInv` (the cells of the queue hold data, and what each statement may rely on) |
| `TerminalInput_proofs!FifoRefinement` | `fifo.c` implements `BoundedQueue` | each statement maps to a step of the queue or to a stutter; lemmas about `Advance` and `Slot` do the modular arithmetic |
| `EmuInterrupts_proofs!EmuReturnsToProgram` | no nesting, RTI returns | `DispatchInv`: between raising the flag and saving R15 the PC is still in the program |
| `EmuInterrupts_proofs!EmuNoStrayThread` | at most one thread per timer, none when stopped | `ThreadInv`: a live thread is the one in `thread_list`, so a dead handle there means no thread, and none is alive when the next is created, even if `pthread_create` reuses a handle |
| `EmuInterrupts_proofs!EmuNoJumpThroughUnset` | no jump through an unset address | `AddressInv`: a request, or a thread about to raise one, implies that an address is stored |
| `EmuInterrupts_proofs!EmuTypeOK` | types | needs `ThreadInv`: only threads of timers post |
| `EmuThreads_proofs!LifecycleNoLoopAfterTeardown` | no helper thread is in its loop once main is past its flag, and the CPU thread executes no second instruction after that | `FlagsInv` (a flag is up exactly from the first statement of its thread to the last; that of the CPU exactly in the loop of `run()`) and `ShutdownInv` (main waits only after the signal): a thread that starts after main has looked finds the signal and leaves, a helper at its first look, the CPU at the one after its first instruction |
| `EmuThreads_proofs!LifecycleTypeOK` | types | proved together with the one above |
| `EmuThreads_proofs!KeyboardLastKeyReaches`, `KeyboardAnnouncedIsStored` | the last key is never lost, for any number of keys and any interleaving; no bit without a key | `StoredInv` (before the first key no bit is up, in the register or in a copy of it) and `CarriedInv` (the copy that a modifier update is about to store over the register hides no announcement that still counts) |
| `EmuThreads_proofs!KeyboardRepeatsBounded` | a key is delivered at most 3 * (events + 1) times | `FetchInv`: the fetches so far plus those that the bits, the copies and the program's position still allow stay under the bound; a modifier's store can bring back one |
| `EmuThreads_proofs!KeyboardTypes` | types | |
| `TerminalInput_proofs!TerminalTypes` | types, for every number of readers and of characters typed | inductive as it stands |
| `HwTimer_proofs!TimerCountersInRange`, `TimerTypeOK` | the counters stay in their registers | inductive together; `TickDecrements` uses the range to show that the 16-bit subtraction does not wrap |
| `HwTimer_proofs!TimerPeriodExact` | the period is exact for every width and divider | cycles elapsed plus cycles left are constant; three lemmas about integers split one cycle, one turn of the prescaler and one full period off the products |
| `DaisyChain_proofs!ChainResumesExactly` | RTI resumes exactly, for a chain of every length | `ResumeInv`: the states of the interrupt protocol imply `Int_Active`, which freezes the shadow registers |
| `DaisyChain_proofs!ChainTypes` | types, for a chain of every length | `InterruptHasRequester`: when the CPU grants, some device requests, so the number of the requester is that of a device |
| `DaisyChain_proofs!ChainReleasesBus` | the two devices of `timer_module.vhd` are off the bus at the first fetch of a service routine, however many follow them | `Age` is the number of clocks that must have passed since the CPU withdrew its last grant, as its state tells; `AgeInv`: so many devices have seen the withdrawal. `StoreInv`: a register is written in the store and the push state only |
| `DaisyChain_proofs!ChainOneDriver`, `ChainGrantReachesRequester` | one driver on the bus at most; a grant ends at a device that asked for it; for chains of one to five devices | `PulseInv`: either a grant is on its way to one requester, and the devices it has reached are the first ones (`Granting`), or its withdrawal is, and the devices that have not seen it are the last ones (`Revoking`), or all lines are high |
| `HwUart_proofs!UartReadsInOrder`, `UartTypeOK` | each accepted character is read once and in order, for every depth of the ring | `RingInv`: the cell at distance d from the tail holds character `Popped + 1 + d`, the program has `Popped` characters, or one more in the cycle in which `reading` is up; `ReadInv` says when that is. `DistanceMoves` does the modular arithmetic |
| `HwUart_proofs!UartSentInOrder` | each byte written is taken once | `SendInv`: `byte_tx_ready` is up only in the fetch after the store, when the transmitter was idle |
| `HwUart_proofs!UartNothingDropped` | no character meets a full ring | `ReceiverInv`: the receiver is busy only if there was room when the character began, and only it fills the ring |
| `HwSdCard_proofs!SdReadIntact`, `SdTypeOK` | a read that returns 0 has left the right block in the buffer, for every block size, every set of addresses and every number of repetitions | `ByteInv`: as many bytes have left the controller as the wrapper has stored or is about to (`Position`), and they are those of the address unless `corrupt` tells (`Content`); `ResetInv`: at an access no reset is under way, so the busy and the error bit can be trusted; `LibraryInv`: from the write of the command to the answer the block in transfer is the requested one, because the card was idle before, which excludes every block given up by a timeout |
| `HwCpu_proofs!CpuAgreesWithEmulator` | the CPU implements `execute()`: from every machine state and for every instruction that `Differ` does not list, the registers, flags and memory at the end are those of the emulator, and the CPU halts when the emulator does, whatever the wait states | `InStep`, see below |
| `HwCpu_proofs!CpuFetchesAtPC`, `CpuNothingPending` | each path through the states of the CPU leaves the new PC on the address bus, no increment delayed and no store on the bus, for every instruction and machine state | `BusFree`, a conjunct of `InStep`: an increment is delayed only in the state that ends it, and a store is on the bus only in the two states after `cs_execute`; `Quiet` is what a step that does neither leaves |

TLC has checked each of these strengthenings as an invariant before it was proved,
except `InStep`, which speaks of every cell of the register file and of memory; it has
checked `AgreesWithEmulator` itself.

Two theorems about the daisy chain have a bound in their statement: `N <= MaxLength`
with `MaxLength` = 5. It is not an artefact of the proof. The CPU takes the grant
away for at least four cycles before it grants again, while the end of a grant travels
one device per cycle. TLC finds `PulseInv` true for five devices (900,156 states); with
six devices it finds two of them driving the bus at the same time, and with
seven a grant that nobody takes.

`CpuAgreesWithEmulator` is the longest of the proofs. The emulator carries out an instruction
as a sequence of operand reads and writes, each with its side effect on a
register; the CPU spreads the same over up to six states, forwards some values,
latches others before a register changes, and writes some increments a state later. The proof
follows both through one instruction:

* `Mirrors(c, s)`: the registers and memory a program would see in the CPU `c` are the
  machine state `s`. R13, R14 and R15 are registers of the CPU, banks and
  memory are cells, and one write may still be on its way to the register file.
* `E0`, `E1`, `E2` and `E3` are the states `execute()` passes through (after the
  fetch, after the source's decrement, its increment, and the destination's decrement).
  `Follows` says which of them the CPU mirrors at each of its states,
  and what its latches and its address bus hold by then: the source, the destination as
  the emulator will read it, the address of the next access. While an increment is
  delayed, `Completes` says that writing it is all that is missing.
* The lemmas ending in `Follows` show that every clock, and every wait state, keeps this, for branches and control commands up to their end; those ending
  in `Finishes` show that the last one leaves what `execute()` leaves, one for
  each other group of instructions: with one operand, with two, CMP and shifts.
* The flags are compared bit by bit: `EmuStatus` and `HwStatus` are the two ways in
  which the status word is put together.
* The emulator shifts bit by bit in a loop, and the CPU takes the row of a table. The loop
  makes at most 17 rounds that count; the rows are shown to satisfy the
  equation of the loop round by round, which needs no induction.
* `Near` is equality up to the unused bits 6 and 7 of R14, as in `SameState`.

The instructions excluded are those on which the two do differ (section 3). The proof
is what showed that opcode 13 and the unknown commands belong to them, which
the families of `MCHwCpu` do not contain.

Model-checked only, because liveness is out of the prover's reach: `RequestServed`,
`JoinReturns`, `ShutdownCompletes`, `CtrlCStopsRun`, `PromptReturns`, `NextKeyReleases`, `Heals`,
`Served`, `ReadEnds` and `BusyEnds`. Every other property of a passing run is stated
by a theorem.

## 6. Not modelled, and the plan

Most of the C code of the repository (`src/c`: vbcc, vasm, vlink, their backends
for some twenty processors and the C library) is a vendored compiler toolchain, sequential and
without any part in running a QNICE. The modules cover the emulator and the
hardware, which are a small share of the repository's lines.

What could follow, in this order:

1. Reset and power-on states of `mmio_mux.vhd` with HALT of the CPU.
2. `keyboard.vhd`: the counterpart of `EmuKeyboard`, where a flag is cleared by
   a read in the cycle in which a new key may set it.
3. The EAE: emulator against `EAE.vhd` against arithmetic. The emulator sign-extends
   its operand registers in place (`qnice.c:461`, `482`), which an unsigned
   operation after a signed one sees.
4. INT, RTI and reset as instructions of `HwCpu`, and `DaisyChain` composed with
   `HwTimer` instead of timers that elapse at will.
5. The end of file on stdin in `EmuUart`, which fills the FIFO with 0xFF.

Not planned: drawing and the pixel pipeline (pure output), the IDE device (compiled
by no build script), `sd.c` of the emulator (sequential file access; its write of a sector,
which no library routine uses, writes before it seeks), the disassembler and
debugger commands of the shell (they only print or load), the vendored compilers,
the two-pass assembler (string handling and tables), the monitor's sequential
assembler routines other than those that poll a device, FAT32 (its data structures
dwarf its control), board wiring and simulations.
