----------------------------- MODULE EmuKeyboard -----------------------------
(***************************************************************************)
(* The keyboard of qnice-vga: kbd_handle_keydown in the window thread and  *)
(* the register accesses of the CPU thread share kbd_state and kbd_data    *)
(* without a lock.  Every access to one of the two is a step; "kbd_state   *)
(* |= x" is a load and a store.  The program on the CPU is the monitor: it *)
(* sets the locale at its cold start, waits for a new key and fetches it.  *)
(***************************************************************************)
EXTENDS Naturals

CONSTANTS
    MaxPresses,     \* bound: key events
    Keymods         \* the combinations of modifier keys that are pressed

Modifiers == {"shift", "ctrl", "alt"}
New == {"ascii", "special"}
Flags == {"locale_de"} \cup Modifiers \cup New

ASSUME MaxPressesAssumption == MaxPresses \in Nat
ASSUME KeymodsAssumption == Keymods \subseteq SUBSET Modifiers

VARIABLES
    kbd_state,  \* the set of bits that are 1
    kbd_data,   \* [press, stage]: which key event stored it; "raw" before the mapping
    win,        \* what the window thread does next
    win_reg,    \* kbd_state as it has loaded it, {} once it is stored again
    key,        \* the key event it handles: [press, mods, kind]
    cpu,        \* what the CPU thread does next
    cpu_reg,    \* kbd_state as it has loaded it, {} once it is stored again
    R8,         \* kbd_data as the program got it last
    written,    \* history: the program wrote kbd_state since kbd_data was stored
    takes,      \* history: times the program fetched kbd_data since it was stored
    events      \* history: key events since kbd_data was stored

window == <<win, win_reg, key>>
program == <<cpu, cpu_reg, R8>>
keyboard_vars == <<kbd_state, kbd_data, win, win_reg, key, cpu, cpu_reg, R8,
                   written, takes, events>>

(* Keys that go as they are, keys that are mapped after they were stored,  *)
(* special keys, and keys without a code (modifiers, Alt with a hotkey).   *)
Kinds == {"plain", "mapped", "special", "none"}
NoKey == [press |-> 0, stage |-> "final"]

(* vga_init                                                                *)
KeyboardInit ==
    /\ kbd_state = {"locale_de"} /\ kbd_data = NoKey
    /\ win = "idle" /\ win_reg = {} /\ key = [press |-> 0, mods |-> {}, kind |-> "none"]
    /\ cpu = "cold_load" /\ cpu_reg = {} /\ R8 = NoKey
    /\ written = FALSE /\ takes = 0 /\ events = 0

(***************************************************************************)
(* The window thread                                                       *)
(***************************************************************************)
WinGoto(from, to) == win = from /\ win' = to

KeyDown ==
    /\ key.press < MaxPresses
    /\ WinGoto("idle", "shift_load")
    /\ \E mods \in Keymods, kind \in Kinds :
           key' = [press |-> key.press + 1, mods |-> mods, kind |-> kind]
    /\ events' = events + 1
    /\ UNCHANGED <<kbd_state, kbd_data, win_reg, program, written, takes>>

Load(from, to) ==
    /\ WinGoto(from, to)
    /\ win_reg' = kbd_state
    /\ UNCHANGED <<kbd_state, kbd_data, key, program, written, takes, events>>

Store(from, to, value) ==
    /\ WinGoto(from, to)
    /\ kbd_state' = value /\ win_reg' = {}
    /\ UNCHANGED <<kbd_data, key, program, written, takes, events>>

(* Mutant: Caps Lock has a bit of its own.                                 *)
SetModifierCaps(m) == IF m \in key.mods THEN win_reg \cup {m, "caps"} ELSE win_reg \ {m}

SetModifier(m) == IF m \in key.mods THEN win_reg \cup {m} ELSE win_reg \ {m}

AfterModifiers ==
    CASE key.kind = "none" -> "idle"
      [] key.kind = "mapped" -> "raw_store"
      [] OTHER -> "data_store"

HandleModifiers ==
    \/ Load("shift_load", "shift_store") \/ Store("shift_store", "ctrl_load", SetModifier("shift"))
    \/ Load("ctrl_load", "ctrl_store")   \/ Store("ctrl_store", "alt_load", SetModifier("ctrl"))
    \/ Load("alt_load", "alt_store")     \/ Store("alt_store", AfterModifiers, SetModifier("alt"))

StoreData(from, to, stage) ==
    /\ WinGoto(from, to)
    /\ kbd_data' = [press |-> key.press, stage |-> stage]
    /\ written' = FALSE /\ takes' = 0 /\ events' = 0
    /\ UNCHANGED <<kbd_state, win_reg, key, program>>

NewFlag == IF key.kind = "special" THEN "special" ELSE "ascii"

(* Mutant: the key is announced before it is stored.                       *)
HandleKeyEarly ==
    \/ StoreData("raw_store", "data_store", "raw")
    \/ Load("data_store", "new_store")
    \/ Store("new_store", "new_load", win_reg \cup {NewFlag})
    \/ StoreData("new_load", "idle", "final")

(* A letter typed with Shift and Ctrl is stored three times.               *)
HandleKey ==
    \/ StoreData("raw_store", "data_store", "raw")
    \/ {"shift", "ctrl"} \subseteq key.mods /\ StoreData("raw_store", "upper_store", "raw")
    \/ StoreData("upper_store", "data_store", "raw")
    \/ StoreData("data_store", "new_load", "final")
    \/ Load("new_load", "new_store")
    \/ Store("new_store", "idle", win_reg \cup {NewFlag})

Window == HandleModifiers \/ HandleKey

(***************************************************************************)
(* The CPU thread                                                          *)
(***************************************************************************)
CpuGoto(from, to) == cpu = from /\ cpu' = to

Registers(from, to, state, reg) ==
    /\ CpuGoto(from, to)
    /\ kbd_state' = state /\ cpu_reg' = reg
    /\ UNCHANGED <<kbd_data, window, R8, takes, events>>

(* The monitor's OR KBD$LOCALE_DE, @R8 reads the register and writes it.   *)
ColdStart ==
    \/ Registers("cold_load", "cold_store", kbd_state, kbd_state) /\ UNCHANGED written
    \/ Registers("cold_store", "poll", cpu_reg \cup {"locale_de"}, {}) /\ written' = TRUE

Restart == Registers("poll", "cold_load", kbd_state, {}) /\ UNCHANGED written

(* KBD$GETCHAR polls IO$KBD_STATE; io_library.asm does so too after a CR.  *)
Poll ==
    /\ kbd_state \cap New # {}
    /\ Registers("poll", "clear_load", kbd_state, {})
    /\ UNCHANGED written

(* Mutant: only the bit of ASCII characters is cleared.                    *)
ClearNewAscii ==
    /\ \/ Registers("clear_load", "clear_store", kbd_state, kbd_state)
       \/ Registers("clear_store", "data_load", cpu_reg \ {"ascii"}, {})
    /\ UNCHANGED written

(* Mutant: the character is fetched before the indicators are cleared.     *)
ClearNewLate ==
    \/ /\ CpuGoto("clear_load", "clear_store")
       /\ cpu_reg' = kbd_state /\ R8' = kbd_data /\ takes' = takes + 1
       /\ UNCHANGED <<kbd_state, kbd_data, window, written, events>>
    \/ Registers("clear_store", "poll", cpu_reg \ New, {}) /\ UNCHANGED written

(* kbd_read_register: kbd_state &= 0xFFFC; return kbd_data;                *)
ClearNew ==
    /\ \/ Registers("clear_load", "clear_store", kbd_state, kbd_state)
       \/ Registers("clear_store", "data_load", cpu_reg \ New, {})
    /\ UNCHANGED written

ReturnData ==
    /\ CpuGoto("data_load", "poll")
    /\ R8' = kbd_data /\ takes' = takes + 1
    /\ UNCHANGED <<kbd_state, kbd_data, window, cpu_reg, written, events>>

Cpu == ColdStart \/ ClearNew \/ ReturnData

KeyboardNext == KeyDown \/ Window \/ Cpu \/ Poll \/ Restart

KeyboardSpec == KeyboardInit /\ [][KeyboardNext]_keyboard_vars

(* Both threads run, and the program asks for keys again and again,        *)
(* however often the monitor is started.                                   *)
KeyboardLiveSpec ==
    /\ KeyboardSpec
    /\ WF_keyboard_vars(Window) /\ WF_keyboard_vars(Cpu) /\ SF_keyboard_vars(Poll)

-----------------------------------------------------------------------------
WinLabels == {"idle", "shift_load", "shift_store", "ctrl_load", "ctrl_store",
              "alt_load", "alt_store", "raw_store", "upper_store", "data_store",
              "new_load", "new_store"}
CpuLabels == {"cold_load", "cold_store", "poll", "clear_load", "clear_store", "data_load"}
Data == [press : 0 .. MaxPresses, stage : {"raw", "final"}]

KeyboardTypeOK ==
    /\ kbd_state \subseteq Flags /\ kbd_data \in Data
    /\ win \in WinLabels /\ win_reg \subseteq Flags
    /\ key \in [press : 0 .. MaxPresses, mods : SUBSET Modifiers, kind : Kinds]
    /\ cpu \in CpuLabels /\ cpu_reg \subseteq Flags /\ R8 \in Data
    /\ written \in BOOLEAN /\ takes \in Nat /\ events \in Nat

HasNew(state) == state \cap New # {}

(* As soon as a bit says that there is a key there is one to read: whoever *)
(* overwrites the other's update of kbd_state, no bit is up before the     *)
(* first key has been stored (vga.c:288).                                  *)
AnnouncedIsStored == HasNew(kbd_state) => kbd_data.press # 0

(* Is a key being stored, so that its announcement is still to come?       *)
Announcing == win \in {"new_load", "new_store"} \/ kbd_data.stage = "raw"
Received == cpu = "data_load" \/ R8 = kbd_data

(* The two threads lose each other's updates of kbd_state, but never the   *)
(* last key: it is announced, or the program has it or is about to get it. *)
(* Only a program that writes the register may lose it.                    *)
LastKeyReaches == ~Announcing /\ ~written => HasNew(kbd_state) \/ Received

(* The program may get the same key more than once: when it looked because *)
(* of the key before, when the announcement of that one was brought back   *)
(* by an update that started before it was cleared, and because of the key *)
(* itself; later at most once for each modifier of another key event.      *)
RepeatsBounded == takes <= 3 * (events + 1)

(* The races heal (vga.c:11): when nobody types any more, a program that   *)
(* asks for keys gets the last one and then no other.                      *)
Heals ==
    key.press = MaxPresses ~>
        [](win = "idle" /\ ~HasNew(kbd_state) /\ (Received \/ written))
=============================================================================
