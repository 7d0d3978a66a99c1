-------------------------------- MODULE Isa --------------------------------
(***************************************************************************)
(* The instruction set as the emulator executes it: execute() of           *)
(* emulator/qnice.c for one instruction, as a function from machine states *)
(* to machine states, outside an interrupt service routine (interrupts     *)
(* and INT are in module EmuInterrupts).  Words have their 16 bits; memory *)
(* is flat, without the I/O area.                                          *)
(*                                                                         *)
(* A machine state is a record of reg (gbl$registers: R8 .. R15 at 8 .. 15 *)
(* and the window of bank b at 16 * b) and mem (gbl$memory).  Both are     *)
(* sparse: a cell that was not written has the value RegBase or MemBase.   *)
(***************************************************************************)
EXTENDS Integers

CONSTANTS RegBase(_), MemBase(_)

WordSize == 65536
Word == 0 .. WordSize - 1
LastCell == 16 * 255 + 7                \* R7 of the last bank
Cells == 0 .. LastCell

ASSUME BaseAssumption ==
    /\ \A k \in Cells : RegBase(k) \in Word
    /\ \A a \in Word : MemBase(a) \in Word

SP == 13
SR == 14
PC == 15

Wrap(x) == x % 65536                    \* & 0xffff
Bit(x, i) == (x \div 2^i) % 2
SetBit(x, i, b) == x + (b - Bit(x, i)) * 2^i
Bool(b) == IF b THEN 1 ELSE 0
Signed(x) == IF x >= 32768 THEN x - 65536 ELSE x

(* The bit operations of C on words, bit by bit. *)
Number(b) ==
    b[0] + 2 * b[1] + 4 * b[2] + 8 * b[3] + 16 * b[4] + 32 * b[5] + 64 * b[6] + 128 * b[7]
    + 256 * (b[8] + 2 * b[9] + 4 * b[10] + 8 * b[11] + 16 * b[12] + 32 * b[13] + 64 * b[14]
             + 128 * b[15])
And(x, y) == Number([i \in 0 .. 15 |-> Bit(x, i) * Bit(y, i)])
Or(x, y) == Number([i \in 0 .. 15 |-> Bool(Bit(x, i) + Bit(y, i) > 0)])
Xor(x, y) == Number([i \in 0 .. 15 |-> Bool(Bit(x, i) # Bit(y, i))])

(* One cell of a sparse store is written. *)
Put(cells, k, v) == [j \in DOMAIN cells \cup {k} |-> IF j = k THEN v ELSE cells[j]]

RegCell(s, i) == IF i \in DOMAIN s.reg THEN s.reg[i] ELSE RegBase(i)
MemCell(s, a) == IF a \in DOMAIN s.mem THEN s.mem[a] ELSE MemBase(a)

IsState(s) ==
    /\ DOMAIN s = {"reg", "mem"}
    /\ \A k \in DOMAIN s.reg : s.reg[k] \in Word
    /\ \A a \in DOMAIN s.mem : s.mem[a] \in Word

(***************************************************************************)
(* Registers and memory                                                    *)
(***************************************************************************)
Bank(s) == RegCell(s, SR) \div 256
Index(s, r) == IF r >= 8 THEN r ELSE r + 16 * Bank(s)

read_register(s, r) ==
    LET v == RegCell(s, Index(s, r)) IN IF r = SR THEN SetBit(v, 0, 1) ELSE v

write_register(s, r, v) ==
    LET w == IF r = SR THEN SetBit(Wrap(v), 0, 1) ELSE Wrap(v)
    IN  [s EXCEPT !.reg = Put(@, Index(s, r), w)]

read_memory(s, a) == MemCell(s, Wrap(a))
write_memory(s, a, v) == [s EXCEPT !.mem = Put(@, Wrap(a), Wrap(v))]

Add(s, r, d) == write_register(s, r, read_register(s, r) + d)

(***************************************************************************)
(* Operands.  Both operators return the state they leave.                  *)
(***************************************************************************)
(* Mutant: the post-increment of the source is left out. *)
read_source_no_increment(s, mode, r, suppress_increment) ==
    LET t == IF mode = 3 THEN Add(s, r, -1) ELSE s
        v == IF mode = 0 THEN read_register(t, r) ELSE read_memory(t, read_register(t, r))
    IN  [s |-> t, v |-> v]

read_source_operand(s, mode, r, suppress_increment) ==
    LET t == IF mode = 3 THEN Add(s, r, -1) ELSE s
        v == IF mode = 0 THEN read_register(t, r) ELSE read_memory(t, read_register(t, r))
    IN  [s |-> IF mode = 2 /\ ~suppress_increment THEN Add(t, r, 1) ELSE t, v |-> v]

write_destination(s, mode, r, v, suppress_decrement) ==
    LET t == IF mode = 3 /\ ~suppress_decrement THEN Add(s, r, -1) ELSE s
        u == IF mode = 0 THEN write_register(t, r, v)
             ELSE write_memory(t, read_register(t, r), v)
    IN  IF mode = 2 THEN Add(u, r, 1) ELSE u

(***************************************************************************)
(* Flags: bit 1 X, 2 C, 3 Z, 4 N, 5 V of the status register.  keep is the *)
(* set of flags that DO_NOT_MODIFY_... protects; V is the variant that     *)
(* OLD_V_LOGIC selects.                                                    *)
(***************************************************************************)
update_status_bits(s, d, s0, s1, keep) ==
    LET sr == read_register(s, SR)
        x == IF "X" \in keep THEN Bit(sr, 1) ELSE Bool(Wrap(d) = 65535)
        c == IF "C" \in keep THEN Bit(sr, 2) ELSE Bit(d, 16)
        z == Bool(Wrap(d) = 0)
        n == Bit(d, 15)
        v == IF "V" \in keep THEN Bit(sr, 5)
             ELSE Bool(Bit(s0, 15) = Bit(s1, 15) /\ Bit(d, 15) # Bit(s0, 15))
    IN  write_register(s, SR, sr - (sr % 64) + 1 + 2 * x + 4 * c + 8 * z + 16 * n + 32 * v)

(***************************************************************************)
(* Shifts.  One round of the loop shifts in fill; after 17 rounds nothing  *)
(* changes any more.                                                       *)
(***************************************************************************)
Rounds(n) == IF n > 17 THEN 17 ELSE n

(* The operand after each round of the loop. *)
Shifted(n, d, left, fill) ==
    LET after[k \in 0 .. n] ==
            IF k = 0 THEN d
            ELSE IF left THEN Wrap(2 * after[k - 1] + fill)
            ELSE after[k - 1] \div 2 + 32768 * fill
    IN  after

Shift(s, left, source, dst, dmode, dreg) ==
    LET sr == read_register(s, SR)
        fill == IF left THEN Bit(sr, 1) ELSE Bit(sr, 2)
        n == Rounds(source)
        after == Shifted(n, dst, left, fill)
        result == after[n]
        last == IF left THEN Bit(after[n - 1], 15) ELSE after[n - 1] % 2
        t == write_destination(write_register(s, SR, SetBit(sr, IF left THEN 2 ELSE 1, last)),
                               dmode, dreg, result, FALSE)
    IN  IF source = 0 THEN update_status_bits(s, dst, 0, 0, {"X", "C", "V"})
        ELSE update_status_bits(t, result, 0, 0, {"X", "C", "V"})

(***************************************************************************)
(* The instructions                                                        *)
(***************************************************************************)
Opcode(i) == i \div 4096
SrcReg(i) == (i \div 256) % 16
SrcMode(i) == (i \div 64) % 4
DstReg(i) == (i \div 4) % 16
DstMode(i) == i % 4
Command(i) == (i \div 64) % 64

(* MOVE, SWAP, NOT: the destination is only written. *)
Unary(op, x) ==
    CASE op = 0 -> x
      [] op = 7 -> (x \div 256) + 256 * (x % 256)
      [] op = 8 -> 65535 - x

(* ADD .. XOR: source_0 is the destination operand.  Not truncated.        *)
Binary(op, s0, s1, carry) ==
    CASE op = 1 -> s0 + s1
      [] op = 2 -> s0 + s1 + carry
      [] op = 3 -> s0 - s1
      [] op = 4 -> s0 - s1 - carry
      [] op = 9 -> And(s0, s1)
      [] op = 10 -> Or(s0, s1)
      [] op = 11 -> Xor(s0, s1)

ExecUnary(s, i) ==
    LET a == read_source_operand(s, SrcMode(i), SrcReg(i), FALSE)
        d == Unary(Opcode(i), a.v)
    IN  write_destination(update_status_bits(a.s, d, a.v, a.v, {"C", "V"}),
                          DstMode(i), DstReg(i), d, FALSE)

ExecBinary(s, i) ==
    LET a == read_source_operand(s, SrcMode(i), SrcReg(i), FALSE)
        b == read_source_operand(a.s, DstMode(i), DstReg(i), TRUE)
        d == Binary(Opcode(i), b.v, a.v, Bit(read_register(b.s, SR), 2))
        keep == IF Opcode(i) < 5 THEN {} ELSE {"C", "V"}
    IN  write_destination(update_status_bits(b.s, d, b.v, a.v, keep),
                          DstMode(i), DstReg(i), d, TRUE)

ExecShift(s, i) ==
    LET a == read_source_operand(s, SrcMode(i), SrcReg(i), FALSE)
        b == read_source_operand(a.s, DstMode(i), DstReg(i), TRUE)
    IN  Shift(b.s, Opcode(i) = 5, a.v, b.v, DstMode(i), DstReg(i))

ExecCmp(s, i) ==
    LET a == read_source_operand(s, SrcMode(i), SrcReg(i), FALSE)
        b == read_source_operand(a.s, DstMode(i), DstReg(i), FALSE)
        sr == read_register(b.s, SR)
    IN  write_register(b.s, SR,
            SetBit(SetBit(SetBit(sr, 3, Bool(a.v = b.v)), 4, Bool(a.v > b.v)),
                   5, Bool(Signed(a.v) > Signed(b.v))))

(* INCRB and DECRB *)
ExecBank(s, d) ==
    LET sr == read_register(s, SR)
    IN  write_register(s, SR, (sr % 256) + 256 * (((sr \div 256) + d) % 256))

ExecBranch(s, i) ==
    LET a == read_source_operand(s, SrcMode(i), SrcReg(i), FALSE)
        flag == Bit(read_register(a.s, SR), i % 8)
        mode == (i \div 16) % 4
        t == IF mode \in {1, 3}
             THEN LET u == Add(a.s, SP, -1)
                  IN  write_memory(u, read_register(u, SP), read_register(u, PC))
             ELSE a.s
        target == IF mode < 2 THEN a.v ELSE read_register(t, PC) + a.v
    IN  IF flag # Bit(i, 3) THEN write_register(t, PC, target) ELSE a.s

(* One instruction: the state it leaves and whether the CPU halts. *)
execute(s) ==
    LET i == read_memory(s, read_register(s, PC))
        t == Add(s, PC, 1)
        op == Opcode(i)
    IN  [halt |-> op = 13 \/ (op = 14 /\ Command(i) \in {0, 1}),
         s |-> CASE op \in {0, 7, 8} -> ExecUnary(t, i)
                 [] op \in {1, 2, 3, 4, 9, 10, 11} -> ExecBinary(t, i)
                 [] op \in {5, 6} -> ExecShift(t, i)
                 [] op = 12 -> ExecCmp(t, i)
                 [] op = 13 -> t
                 [] op = 14 -> IF Command(i) = 3 THEN ExecBank(t, 1)
                               ELSE IF Command(i) = 4 THEN ExecBank(t, -1) ELSE t
                 [] op = 15 -> ExecBranch(t, i)]
=============================================================================
