---------------------------- MODULE HwCpu_proofs ----------------------------
(***************************************************************************)
(* Proofs about the hardware CPU executing one instruction (module HwCpu), *)
(* for every instruction and every machine state.                          *)
(*                                                                         *)
(* The CPU is followed from state to state: Mirrors relates it to the      *)
(* machine state that the emulator has reached by then, and Follows says   *)
(* which one that is at each state of the CPU.  The lemmas ...Follows show *)
(* that every cycle keeps this.                                            *)
(***************************************************************************)
EXTENDS HwCpu, TLAPS

(***************************************************************************)
(* Words, the status register, registers and memory                        *)
(***************************************************************************)

(* The words, by their bounds. *)
LEMMA WordRange == \A v : v \in Word <=> v \in Int /\ 0 <= v /\ v < 65536
<1>1. \A n \in Int : \A v : v \in 0 .. n - 1 <=> v \in Int /\ 0 <= v /\ v < n
    OBVIOUS
<1>2. WordSize \in Int
    BY DEF WordSize
<1>3. \A v : v \in Word <=> v \in Int /\ 0 <= v /\ v < WordSize
    BY <1>1, <1>2 DEF Word
<1>4. WordSize = 65536
    BY DEF WordSize
<1> QED
    BY <1>3, <1>4

(* A truncated value is a word. *)
LEMMA WrapWord ==
    ASSUME NEW v \in Int
    PROVE  Wrap(v) \in Word
<1>1. v % 65536 \in Int /\ 0 <= v % 65536 /\ v % 65536 < 65536
    OBVIOUS
<1> QED
    BY <1>1, WordRange DEF Wrap

(* A word is not changed by truncation. *)
LEMMA WrapId ==
    ASSUME NEW v \in Word
    PROVE  Wrap(v) = v
BY WordRange DEF Wrap

(* The status register, taken apart. *)
StatusWord(q, m, v, n, z, c, x, one) == 256 * q + 64 * m + 32 * v + 16 * n + 8 * z + 4 * c + 2 * x + one

IsStatus(q, m, v, n, z, c, x, one) ==
    /\ q \in Int /\ 0 <= q /\ q < 256 /\ m \in Int /\ 0 <= m /\ m < 4
    /\ v \in 0 .. 1 /\ n \in 0 .. 1 /\ z \in 0 .. 1 /\ c \in 0 .. 1 /\ x \in 0 .. 1 /\ one \in 0 .. 1

(* Every word is one of these, and the bits are those of the word. *)
LEMMA TakeApart ==
    ASSUME NEW sr \in Word
    PROVE  \E q, m, v, n, z, c, x, one :
               IsStatus(q, m, v, n, z, c, x, one) /\ sr = StatusWord(q, m, v, n, z, c, x, one)
<1> DEFINE q == sr \div 256
           r7 == sr % 256
           m == r7 \div 64
           r5 == r7 % 64
           v == r5 \div 32
           r4 == r5 % 32
           n == r4 \div 16
           r3 == r4 % 16
           z == r3 \div 8
           r2 == r3 % 8
           c == r2 \div 4
           r1 == r2 % 4
           x == r1 \div 2
           one == r1 % 2
<1>1. sr = 256 * q + r7 /\ q \in Int /\ 0 <= q /\ q < 256 /\ r7 \in Int /\ 0 <= r7 /\ r7 < 256
    BY WordRange
<1> HIDE DEF q, r7
<1>2. r7 = 64 * m + r5 /\ m \in Int /\ 0 <= m /\ m < 4 /\ r5 \in Int /\ 0 <= r5 /\ r5 < 64
    BY <1>1
<1> HIDE DEF m, r5
<1>3. r5 = 32 * v + r4 /\ v \in 0 .. 1 /\ r4 \in Int /\ 0 <= r4 /\ r4 < 32
    BY <1>2
<1> HIDE DEF v, r4
<1>4. r4 = 16 * n + r3 /\ n \in 0 .. 1 /\ r3 \in Int /\ 0 <= r3 /\ r3 < 16
    BY <1>3
<1> HIDE DEF n, r3
<1>5. r3 = 8 * z + r2 /\ z \in 0 .. 1 /\ r2 \in Int /\ 0 <= r2 /\ r2 < 8
    BY <1>4
<1> HIDE DEF z, r2
<1>6. r2 = 4 * c + r1 /\ c \in 0 .. 1 /\ r1 \in Int /\ 0 <= r1 /\ r1 < 4
    BY <1>5
<1> HIDE DEF c, r1
<1>7. r1 = 2 * x + one /\ x \in 0 .. 1 /\ one \in 0 .. 1
    BY <1>6
<1> HIDE DEF x, one
<1>8. IsStatus(q, m, v, n, z, c, x, one)
    BY <1>1, <1>2, <1>3, <1>4, <1>5, <1>6, <1>7 DEF IsStatus
<1>9. sr = StatusWord(q, m, v, n, z, c, x, one)
    BY <1>1, <1>2, <1>3, <1>4, <1>5, <1>6, <1>7 DEF StatusWord
<1> QED
    BY <1>8, <1>9

(* Where a sum of multiples is divided. *)
LEMMA Divides ==
    ASSUME NEW h \in Int, NEW r \in Int, 0 <= r
    PROVE  /\ r < 2 => (2 * h + r) \div 2 = h /\ (2 * h + r) % 2 = r
           /\ r < 4 => (4 * h + r) \div 4 = h /\ (4 * h + r) % 4 = r
           /\ r < 8 => (8 * h + r) \div 8 = h
           /\ r < 16 => (16 * h + r) \div 16 = h
           /\ r < 32 => (32 * h + r) \div 32 = h
           /\ r < 64 => (64 * h + r) \div 64 = h /\ (64 * h + r) % 64 = r
           /\ r < 256 => (256 * h + r) \div 256 = h /\ (256 * h + r) % 256 = r
OBVIOUS

(* What the operators on words make of a status register taken apart. *)
LEMMA Apart ==
    ASSUME NEW q, NEW m, NEW v, NEW n, NEW z, NEW c, NEW x, NEW one, IsStatus(q, m, v, n, z, c, x, one),
           NEW sr, sr = StatusWord(q, m, v, n, z, c, x, one)
    PROVE  /\ sr \in Word /\ sr \div 256 = q /\ (sr \div 64) % 4 = m /\ sr % 64 = 32 * v + 16 * n + 8 * z + 4 * c + 2 * x + one
           /\ Bit(sr, 5) = v /\ Bit(sr, 4) = n /\ Bit(sr, 3) = z /\ Bit(sr, 2) = c /\ Bit(sr, 1) = x
           /\ Bit(sr, 0) = one
           /\ SetBit(sr, 0, 1) = StatusWord(q, m, v, n, z, c, x, 1)
           /\ Used(14, sr) = StatusWord(q, 0, v, n, z, c, x, 1)
<1> USE DEF IsStatus
<1>1. sr \in Int /\ 0 <= sr /\ sr < 65536
    BY DEF StatusWord
<1> DEFINE h1 == 128 * q + 32 * m + 16 * v + 8 * n + 4 * z + 2 * c + x
           h2 == 64 * q + 16 * m + 8 * v + 4 * n + 2 * z + c
           h3 == 32 * q + 8 * m + 4 * v + 2 * n + z
           h4 == 16 * q + 4 * m + 2 * v + n
           h5 == 8 * q + 2 * m + v
           h6 == 4 * q + m
<1>2. /\ sr = 2 * h1 + one /\ h1 = 2 * h2 + x /\ h2 = 2 * h3 + c /\ h3 = 2 * h4 + z /\ h4 = 2 * h5 + n
      /\ h5 = 2 * h6 + v /\ h6 = 4 * q + m
      /\ h1 \in Int /\ h2 \in Int /\ h3 \in Int /\ h4 \in Int /\ h5 \in Int /\ h6 \in Int
    BY DEF StatusWord
<1> HIDE DEF h1, h2, h3, h4, h5, h6
<1>3. sr \div 256 = q
    <2>1. sr = 256 * q + (64 * m + 32 * v + 16 * n + 8 * z + 4 * c + 2 * x + one)
        BY DEF StatusWord
    <2> QED
        BY <2>1, Divides
<1>4. (sr \div 64) = h6 /\ sr % 64 = 32 * v + 16 * n + 8 * z + 4 * c + 2 * x + one
    <2>1. sr = 64 * h6 + (32 * v + 16 * n + 8 * z + 4 * c + 2 * x + one)
        BY DEF StatusWord, h6
    <2> QED
        BY <2>1, <1>2, Divides
<1>5. sr \div 32 = h5
    BY <1>2, Divides
<1>6. sr \div 16 = h4
    BY <1>2, Divides
<1>7. sr \div 8 = h3
    BY <1>2, Divides
<1>8. sr \div 4 = h2
    BY <1>2, Divides
<1>9. sr \div 2 = h1 /\ sr \div 1 = sr
    BY <1>2, Divides
<1>10. /\ h1 % 2 = x /\ h2 % 2 = c /\ h3 % 2 = z /\ h4 % 2 = n /\ h5 % 2 = v /\ h6 % 4 = m /\ sr % 2 = one
    BY <1>2, Divides
<1>11. 2^0 = 1 /\ 2^1 = 2 /\ 2^2 = 4 /\ 2^3 = 8 /\ 2^4 = 16 /\ 2^5 = 32
    OBVIOUS
<1>12. /\ Bit(sr, 5) = v /\ Bit(sr, 4) = n /\ Bit(sr, 3) = z /\ Bit(sr, 2) = c /\ Bit(sr, 1) = x
       /\ Bit(sr, 0) = one
    BY <1>5, <1>6, <1>7, <1>8, <1>9, <1>10, <1>11 DEF Bit
<1>13. SetBit(sr, 0, 1) = StatusWord(q, m, v, n, z, c, x, 1)
    BY <1>1, <1>11, <1>12 DEF SetBit, StatusWord
<1>14. Used(14, sr) = StatusWord(q, 0, v, n, z, c, x, 1)
    <2> DEFINE u == StatusWord(q, 0, v, n, z, c, x, one)
               k1 == 128 * q + 16 * v + 8 * n + 4 * z + 2 * c + x
    <2>1. sr - 64 * ((sr \div 64) % 4) = u
        BY <1>4, <1>10 DEF StatusWord
    <2>2. u = 2 * k1 + one /\ k1 \in Int /\ u \in Int
        BY DEF StatusWord
    <2>3. Bit(u, 0) = one
        <3>1. u \div 1 = u
            BY <2>2
        <3>2. u % 2 = one
            BY <2>2, Divides
        <3> QED
            BY <3>1, <3>2, <1>11 DEF Bit
    <2>4. SetBit(u, 0, 1) = StatusWord(q, 0, v, n, z, c, x, 1)
        BY <1>11, <2>2, <2>3 DEF SetBit, StatusWord
    <2> QED
        BY <2>1, <2>4 DEF Used, SR
<1> QED
    <2>1. sr \in Word
        BY <1>1, WordRange
    <2>2. (sr \div 64) % 4 = m
        BY <1>4, <1>10
    <2> QED
        BY <1>3, <1>4, <1>12, <1>13, <1>14, <2>1, <2>2, Zenon

(* Bit 0, which always reads 1, is independent of all the others. *)
LEMMA SetBit0 ==
    ASSUME NEW v \in Word
    PROVE  /\ SetBit(v, 0, 1) \in Word
           /\ SetBit(v, 0, 1) \div 256 = v \div 256
           /\ SetBit(SetBit(v, 0, 1), 0, 1) = SetBit(v, 0, 1)
           /\ Used(14, SetBit(v, 0, 1)) = Used(14, v)
           /\ v \div 256 \in Int /\ 0 <= v \div 256 /\ v \div 256 < 256
<1>1. PICK q, m, b5, b4, b3, b2, b1, b0 :
           IsStatus(q, m, b5, b4, b3, b2, b1, b0) /\ v = StatusWord(q, m, b5, b4, b3, b2, b1, b0)
    BY TakeApart
<1>2. SetBit(v, 0, 1) = StatusWord(q, m, b5, b4, b3, b2, b1, 1)
    BY <1>1, Apart
<1>3. IsStatus(q, m, b5, b4, b3, b2, b1, 1)
    BY <1>1 DEF IsStatus
<1>4. v \div 256 = q /\ q \in Int /\ 0 <= q /\ q < 256
    BY <1>1, Apart DEF IsStatus
<1> QED
    BY <1>1, <1>2, <1>3, <1>4, Apart

(* The cells of the register file, by their bounds. *)
LEMMA CellsRange == \A k : k \in Cells <=> k \in Int /\ 0 <= k /\ k <= 4087
<1>1. LastCell = 4087
    BY DEF LastCell
<1>2. \A n \in Int : \A k : k \in 0 .. n <=> k \in Int /\ 0 <= k /\ k <= n
    OBVIOUS
<1>3. LastCell \in Int
    BY <1>1
<1>4. \A k : k \in Cells <=> k \in Int /\ 0 <= k /\ k <= LastCell
    BY <1>2, <1>3 DEF Cells
<1> QED
    BY <1>1, <1>4

Reg(r) == r \in Int /\ 0 <= r /\ r < 16

(* A machine state: the cells of the registers and the memory are words.   *)
Machine(s) ==
    /\ DOMAIN s = {"reg", "mem"}
    /\ \A k \in Cells : RegCell(s, k) \in Word
    /\ \A a \in Word : MemCell(s, a) \in Word

(* A register has a cell of its own in every bank. *)
LEMMA IndexIs ==
    ASSUME NEW s, RegCell(s, 14) \in Word, NEW r, Reg(r)
    PROVE  /\ Index(s, r) \in Cells
           /\ r >= 8 => Index(s, r) = r
           /\ r < 8 => Index(s, r) < 8 \/ Index(s, r) > 15
           /\ \A q : Reg(q) /\ Index(s, q) = Index(s, r) => q = r
<1>1. Bank(s) \in Int /\ 0 <= Bank(s) /\ Bank(s) < 256
    BY SetBit0 DEF Bank, SR
<1> QED
    BY <1>1, CellsRange DEF Index, Reg

(* SP, SR and PC are cells, too. *)
LEMMA StatusCell == 14 \in Cells /\ 13 \in Cells /\ 15 \in Cells
BY CellsRange

(* The status register of a machine state is a word. *)
LEMMA MachineStatus == ASSUME NEW s, Machine(s) PROVE RegCell(s, 14) \in Word
BY StatusCell DEF Machine

(* What a register holds after it was written. *)
Written(r, v) == IF r = 14 THEN SetBit(Wrap(v), 0, 1) ELSE Wrap(v)

(* What is written is a word. *)
LEMMA WrittenWord == ASSUME NEW r, NEW v \in Int PROVE Written(r, v) \in Word
BY WrapWord, SetBit0 DEF Written

(* What is read from a register is a word. *)
LEMMA ReadWord ==
    ASSUME NEW s, Machine(s), NEW r, Reg(r)
    PROVE  read_register(s, r) \in Word
BY MachineStatus, IndexIs, SetBit0 DEF read_register, SR, Machine

(* A write of a register changes one cell. *)
LEMMA WriteCells ==
    ASSUME NEW s, DOMAIN s = {"reg", "mem"}, NEW r, NEW v
    PROVE  /\ DOMAIN write_register(s, r, v) = {"reg", "mem"}
           /\ \A k : RegCell(write_register(s, r, v), k) =
                         IF k = Index(s, r) THEN Written(r, v) ELSE RegCell(s, k)
           /\ \A a : MemCell(write_register(s, r, v), a) = MemCell(s, a)
<1> DEFINE t == write_register(s, r, v)
           w == Written(r, v)
<1>1. DOMAIN t = {"reg", "mem"} /\ t.reg = Put(s.reg, Index(s, r), w) /\ t.mem = s.mem
    BY DEF write_register, Written, SR
<1> HIDE DEF t, w
<1>2. \A k : RegCell(t, k) = IF k = Index(s, r) THEN w ELSE RegCell(s, k)
    BY <1>1 DEF RegCell, Put
<1>3. \A a : MemCell(t, a) = MemCell(s, a)
    BY <1>1 DEF MemCell
<1> QED
    BY <1>1, <1>2, <1>3, Zenon DEF t, w

(* A machine state stays one when a register is written. *)
LEMMA WriteMachine ==
    ASSUME NEW s, Machine(s), NEW r, NEW v \in Int
    PROVE  Machine(write_register(s, r, v))
BY WriteCells, WrittenWord DEF Machine

(* A write of the memory changes one word. *)
LEMMA MemoryCells ==
    ASSUME NEW s, DOMAIN s = {"reg", "mem"}, NEW a, NEW v
    PROVE  /\ DOMAIN write_memory(s, a, v) = {"reg", "mem"}
           /\ \A k : RegCell(write_memory(s, a, v), k) = RegCell(s, k)
           /\ \A b : MemCell(write_memory(s, a, v), b) =
                         IF b = Wrap(a) THEN Wrap(v) ELSE MemCell(s, b)
<1> DEFINE t == write_memory(s, a, v)
           w == Wrap(v)
           at == Wrap(a)
<1>1. DOMAIN t = {"reg", "mem"} /\ t.mem = Put(s.mem, at, w) /\ t.reg = s.reg
    BY DEF write_memory
<1> HIDE DEF t, w, at
<1>2. \A b : MemCell(t, b) = IF b = at THEN w ELSE MemCell(s, b)
    BY <1>1 DEF MemCell, Put
<1>3. \A k : RegCell(t, k) = RegCell(s, k)
    BY <1>1 DEF RegCell
<1> QED
    BY <1>1, <1>2, <1>3, Zenon DEF t, w, at

(* A machine state stays one when the memory is written. *)
LEMMA MemoryMachine ==
    ASSUME NEW s, Machine(s), NEW a, NEW v \in Int
    PROVE  Machine(write_memory(s, a, v))
BY MemoryCells, WrapWord DEF Machine

(* What is read from memory is a word. *)
LEMMA ReadMemoryWord ==
    ASSUME NEW s, Machine(s), NEW a \in Int
    PROVE  read_memory(s, a) \in Word
BY WrapWord DEF read_memory, Machine

(* Words are integers. *)
LEMMA WordInt == \A v \in Word : v \in Int
BY WordRange

(* A register that was written reads as such, the others as before. *)
LEMMA ReadAfterWrite ==
    ASSUME NEW s, Machine(s), NEW r, Reg(r), r # 14, NEW v \in Int, NEW q, Reg(q)
    PROVE  read_register(write_register(s, r, v), q) =
               IF q = r THEN Wrap(v) ELSE read_register(s, q)
<1> DEFINE t == write_register(s, r, v)
<1>1. Index(s, r) # 14
    BY MachineStatus, IndexIs DEF Reg
<1>2. RegCell(t, 14) = RegCell(s, 14)
    BY <1>1, WriteCells DEF Machine
<1>3. Index(t, q) = Index(s, q)
    BY <1>2 DEF Index, Bank, SR
<1>4. Index(s, q) = Index(s, r) => q = r
    BY MachineStatus, IndexIs
<1>5. RegCell(t, Index(s, q)) = IF q = r THEN Wrap(v) ELSE RegCell(s, Index(s, q))
    BY <1>4, WriteCells DEF Machine, Written
<1> HIDE DEF t
<1> QED
    BY <1>3, <1>5 DEF read_register, SR, t

(* Writing the status register, into the same bank. *)
LEMMA ReadAfterStatus ==
    ASSUME NEW s, Machine(s), NEW v \in Int, NEW q, Reg(q), q # 14,
           q >= 8 \/ SetBit(Wrap(v), 0, 1) \div 256 = RegCell(s, 14) \div 256
    PROVE  read_register(write_register(s, 14, v), q) = read_register(s, q)
<1> DEFINE t == write_register(s, 14, v)
<1>1. Index(s, 14) = 14
    BY DEF Index
<1>2. RegCell(t, 14) = SetBit(Wrap(v), 0, 1)
    BY <1>1, WriteCells DEF Machine, Written
<1>3. Index(t, q) = Index(s, q)
    BY <1>2 DEF Index, Bank, SR, Reg
<1>4. Index(s, q) # 14
    BY MachineStatus, IndexIs DEF Reg
<1>5. RegCell(t, Index(s, q)) = RegCell(s, Index(s, q))
    BY <1>1, <1>4, WriteCells DEF Machine
<1> HIDE DEF t
<1> QED
    BY <1>3, <1>5 DEF read_register, SR, t

(***************************************************************************)
(* The same machine state.  The CPU has no cells for R13, R14 and R15, and *)
(* neither machine promises anything about the unused bits of R14.         *)
(***************************************************************************)

(* The same machine state, *)
Equal(s, t) ==
    /\ \A k : RegCell(s, k) = RegCell(t, k)
    /\ \A a : MemCell(s, a) = MemCell(t, a)

Same(s, t) ==
    /\ \A k : k # 14 => RegCell(s, k) = RegCell(t, k)
    /\ \A a : MemCell(s, a) = MemCell(t, a)

(* as a program reads it, *)
Alike(s, t) == Same(s, t) /\ read_register(s, 14) = read_register(t, 14)

(* but for the unused bits of the status register. *)
Near(s, t) == Same(s, t) /\ Used(14, RegCell(s, 14)) = Used(14, RegCell(t, 14))

(* The status register always reads with bit 0 set. *)
LEMMA ReadStatus == ASSUME NEW s PROVE read_register(s, 14) = SetBit(RegCell(s, 14), 0, 1)
BY DEF read_register, Index, SR

(* Equal states read alike. *)
LEMMA EqualAlike == ASSUME NEW s, NEW t, Equal(s, t) PROVE Alike(s, t)
BY ReadStatus DEF Equal, Alike, Same

(* States that read alike differ in unused bits at most. *)
LEMMA AlikeNear ==
    ASSUME NEW s, NEW t, Machine(s), Machine(t), Alike(s, t)
    PROVE  Near(s, t)
<1>1. /\ Used(14, SetBit(RegCell(s, 14), 0, 1)) = Used(14, RegCell(s, 14))
      /\ Used(14, SetBit(RegCell(t, 14), 0, 1)) = Used(14, RegCell(t, 14))
    BY MachineStatus, SetBit0
<1> QED
    BY <1>1, ReadStatus DEF Alike, Near

(* The used bits include the bank and all flags. *)
LEMMA UsedSame ==
    ASSUME NEW v \in Word, NEW w \in Word, Used(14, v) = Used(14, w)
    PROVE  /\ v \div 256 = w \div 256
           /\ Bit(v, 1) = Bit(w, 1) /\ Bit(v, 2) = Bit(w, 2) /\ Bit(v, 3) = Bit(w, 3)
           /\ Bit(v, 4) = Bit(w, 4) /\ Bit(v, 5) = Bit(w, 5)
<1>1. PICK q, m, b5, b4, b3, b2, b1, b0 :
           IsStatus(q, m, b5, b4, b3, b2, b1, b0) /\ v = StatusWord(q, m, b5, b4, b3, b2, b1, b0)
    BY TakeApart
<1>2. PICK p, n, d5, d4, d3, d2, d1, d0 :
           IsStatus(p, n, d5, d4, d3, d2, d1, d0) /\ w = StatusWord(p, n, d5, d4, d3, d2, d1, d0)
    BY TakeApart
<1>3. IsStatus(q, 0, b5, b4, b3, b2, b1, 1) /\ IsStatus(p, 0, d5, d4, d3, d2, d1, 1)
    BY <1>1, <1>2 DEF IsStatus
<1>4. StatusWord(q, 0, b5, b4, b3, b2, b1, 1) = StatusWord(p, 0, d5, d4, d3, d2, d1, 1)
    BY <1>1, <1>2, Apart
<1>5. q = p /\ b5 = d5 /\ b4 = d4 /\ b3 = d3 /\ b2 = d2 /\ b1 = d1
    BY <1>3, <1>4, Apart
<1> QED
    BY <1>1, <1>2, <1>5, Apart

(* The bank, and so the cell of a register, is the same in near states, *)
LEMMA NearIndex ==
    ASSUME NEW s, NEW t, Machine(s), Machine(t), Near(s, t), NEW r
    PROVE  Index(s, r) = Index(t, r)
BY MachineStatus, UsedSame DEF Near, Index, Bank, SR

(* and so is what the registers hold, R14 excepted. *)
LEMMA NearRead ==
    ASSUME NEW s, NEW t, Machine(s), Machine(t), Near(s, t), NEW r, Reg(r), r # 14
    PROVE  read_register(s, r) = read_register(t, r)
<1>1. Index(s, r) # 14
    BY MachineStatus, IndexIs DEF Reg
<1> QED
    BY <1>1, NearIndex DEF read_register, Near, Same, SR

(* States that read alike hold the same in all registers. *)
LEMMA AlikeRead ==
    ASSUME NEW s, NEW t, Machine(s), Machine(t), Alike(s, t), NEW r, Reg(r)
    PROVE  read_register(s, r) = read_register(t, r)
BY NearRead, AlikeNear DEF Alike

(* The same write keeps states near, *)
LEMMA NearWrite ==
    ASSUME NEW s, NEW t, Machine(s), Machine(t), Near(s, t), NEW r, Reg(r), NEW v
    PROVE  Near(write_register(s, r, v), write_register(t, r, v))
BY NearIndex, WriteCells DEF Near, Same, Machine

(* or alike, *)
LEMMA AlikeWrite ==
    ASSUME NEW s, NEW t, Machine(s), Machine(t), Alike(s, t), NEW r, Reg(r), NEW v
    PROVE  Alike(write_register(s, r, v), write_register(t, r, v))
<1>1. Index(s, r) = Index(t, r)
    BY AlikeNear, NearIndex
<1>2. Same(write_register(s, r, v), write_register(t, r, v))
    BY <1>1, WriteCells DEF Alike, Same, Machine
<1>3. SetBit(RegCell(write_register(s, r, v), 14), 0, 1) = SetBit(RegCell(write_register(t, r, v), 14), 0, 1)
    BY <1>1, WriteCells, ReadStatus DEF Alike, Machine
<1> QED
    BY <1>2, <1>3, ReadStatus DEF Alike

(* and a write of the memory does, too. *)
LEMMA NearWriteMemory ==
    ASSUME NEW s, NEW t, Machine(s), Machine(t), Near(s, t), NEW a, NEW v
    PROVE  Near(write_memory(s, a, v), write_memory(t, a, v))
BY MemoryCells DEF Near, Same, Machine

(* Writes of two registers commute, *)
LEMMA WritesCommute ==
    ASSUME NEW s, Machine(s), NEW r, Reg(r), NEW q, Reg(q), r # q, r # 14, q # 14,
           NEW v \in Int, NEW w \in Int
    PROVE  Equal(write_register(write_register(s, r, v), q, w),
                 write_register(write_register(s, q, w), r, v))
<1> DEFINE t == write_register(s, r, v)
           u == write_register(s, q, w)
<1>1. Index(s, r) # Index(s, q) /\ Index(s, r) # 14 /\ Index(s, q) # 14
    BY MachineStatus, IndexIs DEF Reg
<1>2. RegCell(t, 14) = RegCell(s, 14) /\ RegCell(u, 14) = RegCell(s, 14)
    BY <1>1, WriteCells DEF Machine
<1>3. Index(t, q) = Index(s, q) /\ Index(u, r) = Index(s, r)
    BY <1>2 DEF Index, Bank, SR
<1>4. DOMAIN t = {"reg", "mem"} /\ DOMAIN u = {"reg", "mem"}
    BY WriteCells DEF Machine
<1>5. /\ \A k : RegCell(t, k) = IF k = Index(s, r) THEN Written(r, v) ELSE RegCell(s, k)
      /\ \A k : RegCell(u, k) = IF k = Index(s, q) THEN Written(q, w) ELSE RegCell(s, k)
      /\ \A a : MemCell(t, a) = MemCell(s, a) /\ MemCell(u, a) = MemCell(s, a)
    BY WriteCells DEF Machine
<1> HIDE DEF t, u
<1>6. Equal(write_register(t, q, w), write_register(u, r, v))
    BY <1>1, <1>3, <1>4, <1>5, WriteCells DEF Equal
<1> QED
    BY <1>6 DEF t, u

(* also with one of the status register that keeps the bank, *)
LEMMA StatusCommutes ==
    ASSUME NEW s, Machine(s), NEW r, Reg(r), r # 14, NEW v \in Int, NEW w \in Int,
           SetBit(Wrap(w), 0, 1) \div 256 = RegCell(s, 14) \div 256
    PROVE  Equal(write_register(write_register(s, r, v), 14, w),
                 write_register(write_register(s, 14, w), r, v))
<1> DEFINE t == write_register(s, r, v)
           u == write_register(s, 14, w)
<1>1. Index(s, r) # 14
    BY MachineStatus, IndexIs DEF Reg
<1>2. Index(s, 14) = 14 /\ Index(t, 14) = 14
    BY DEF Index
<1>3. RegCell(u, 14) = SetBit(Wrap(w), 0, 1)
    BY <1>2, WriteCells DEF Machine, Written
<1>4. Index(u, r) = Index(s, r)
    BY <1>3 DEF Index, Bank, SR
<1>5. DOMAIN t = {"reg", "mem"} /\ DOMAIN u = {"reg", "mem"}
    BY WriteCells DEF Machine
<1>6. /\ \A k : RegCell(t, k) = IF k = Index(s, r) THEN Written(r, v) ELSE RegCell(s, k)
      /\ \A k : RegCell(u, k) = IF k = Index(s, 14) THEN Written(14, w) ELSE RegCell(s, k)
      /\ \A a : MemCell(t, a) = MemCell(s, a) /\ MemCell(u, a) = MemCell(s, a)
    BY WriteCells DEF Machine
<1> HIDE DEF t, u
<1>7. Equal(write_register(t, 14, w), write_register(u, r, v))
    BY <1>1, <1>2, <1>4, <1>5, <1>6, WriteCells DEF Equal
<1> QED
    BY <1>7 DEF t, u

(* and the later one of the same register counts. *)
LEMMA WriteTwice ==
    ASSUME NEW s, Machine(s), NEW r, Reg(r), r # 14, NEW v \in Int, NEW w \in Int
    PROVE  Equal(write_register(write_register(s, r, v), r, w), write_register(s, r, w))
<1> DEFINE t == write_register(s, r, v)
<1>1. Index(s, r) # 14
    BY MachineStatus, IndexIs DEF Reg
<1>2. RegCell(t, 14) = RegCell(s, 14)
    BY <1>1, WriteCells DEF Machine
<1>3. Index(t, r) = Index(s, r)
    BY <1>2 DEF Index, Bank, SR
<1>4. DOMAIN t = {"reg", "mem"}
    BY WriteCells DEF Machine
<1>5. /\ \A k : RegCell(t, k) = IF k = Index(s, r) THEN Written(r, v) ELSE RegCell(s, k)
      /\ \A a : MemCell(t, a) = MemCell(s, a)
    BY WriteCells DEF Machine
<1> HIDE DEF t
<1>6. Equal(write_register(t, r, w), write_register(s, r, w))
    BY <1>3, <1>4, <1>5, WriteCells DEF Equal, Machine
<1> QED
    BY <1>6 DEF t

(* The later write of the status register counts. *)
LEMMA StatusTwice ==
    ASSUME NEW s, Machine(s), NEW v, NEW w
    PROVE  Equal(write_register(write_register(s, 14, v), 14, w), write_register(s, 14, w))
<1> DEFINE t == write_register(s, 14, v)
<1>1. Index(s, 14) = 14 /\ Index(t, 14) = 14
    BY DEF Index
<1>2. DOMAIN t = {"reg", "mem"}
    BY WriteCells DEF Machine
<1>3. /\ \A k : RegCell(t, k) = IF k = Index(s, 14) THEN Written(14, v) ELSE RegCell(s, k)
      /\ \A a : MemCell(t, a) = MemCell(s, a)
    BY WriteCells DEF Machine
<1> HIDE DEF t
<1>4. Equal(write_register(t, 14, w), write_register(s, 14, w))
    BY <1>1, <1>2, <1>3, WriteCells DEF Equal, Machine
<1> QED
    BY <1>4 DEF t

(* What a register holds already changes nothing. *)
LEMMA WriteBack ==
    ASSUME NEW s, Machine(s), NEW r, Reg(r), r # 14
    PROVE  Equal(write_register(s, r, read_register(s, r)), s)
<1>1. Index(s, r) \in Cells
    BY MachineStatus, IndexIs
<1>2. read_register(s, r) = RegCell(s, Index(s, r)) /\ RegCell(s, Index(s, r)) \in Word
    BY <1>1 DEF read_register, SR, Machine
<1>3. Written(r, read_register(s, r)) = RegCell(s, Index(s, r))
    BY <1>2, WrapId DEF Written
<1> QED
    BY <1>3, WriteCells DEF Equal, Machine

(***************************************************************************)
(* What the CPU shows of the machine state in the middle of a cycle        *)
(***************************************************************************)

Fields == {"cpu_state", "SP", "SR", "PC", "reg", "mem", "ADDR_Bus", "DATA_To_Bus", "DATA_VALID",
           "Instruction", "Src_Value", "Dst_Value", "Delayed_PostInc", "DPI",
           "reg_write_en", "reg_write"}

(* The CPU after the falling edge, field by field. *)
LEMMA SettledIs ==
    ASSUME NEW c, DOMAIN c = Fields
    PROVE  /\ DOMAIN Settled(c) = Fields
           /\ Settled(c).SP = c.SP /\ Settled(c).SR = c.SR /\ Settled(c).PC = c.PC
           /\ Settled(c).ADDR_Bus = c.ADDR_Bus
           /\ \A k : RegCell(Settled(c), k) =
                  IF c.reg_write_en /\ k = Window(c, c.reg_write[1]) THEN c.reg_write[2]
                  ELSE RegCell(c, k)
           /\ \A a : MemCell(Settled(c), a) =
                  IF c.DATA_VALID /\ a = c.ADDR_Bus THEN c.DATA_To_Bus ELSE MemCell(c, a)
<1> DEFINE d == Settled(c)
           w == c.reg_write[1]
           x == c.reg_write[2]
           i == Window(c, w)
<1>1. /\ DOMAIN d = Fields
      /\ d.SP = c.SP /\ d.SR = c.SR /\ d.PC = c.PC /\ d.ADDR_Bus = c.ADDR_Bus
      /\ d.reg = IF c.reg_write_en THEN Put(c.reg, i, x) ELSE c.reg
      /\ d.mem = IF c.DATA_VALID THEN Put(c.mem, c.ADDR_Bus, c.DATA_To_Bus) ELSE c.mem
    BY DEF Settled, Fields
<1> HIDE DEF d, w, x, i
<1>2. \A k : RegCell(d, k) = IF c.reg_write_en /\ k = i THEN x ELSE RegCell(c, k)
    BY <1>1 DEF RegCell, Put
<1>3. \A a : MemCell(d, a) = IF c.DATA_VALID /\ a = c.ADDR_Bus THEN c.DATA_To_Bus ELSE MemCell(c, a)
    BY <1>1 DEF MemCell, Put
<1> QED
    BY <1>1, <1>2, <1>3, Zenon DEF d, i, x, w

(* What the program sees of the CPU: the pending writes are done. *)
LEMMA VisibleIs ==
    ASSUME NEW c, DOMAIN c = Fields
    PROVE  /\ DOMAIN Visible(c) = {"reg", "mem"}
           /\ RegCell(Visible(c), 13) = c.SP /\ RegCell(Visible(c), 14) = c.SR
           /\ RegCell(Visible(c), 15) = c.PC
           /\ \A k : k \notin {13, 14, 15} => RegCell(Visible(c), k) =
                  IF c.reg_write_en /\ k = Window(c, c.reg_write[1]) THEN c.reg_write[2]
                  ELSE RegCell(c, k)
           /\ \A a : MemCell(Visible(c), a) =
                  IF c.DATA_VALID /\ a = c.ADDR_Bus THEN c.DATA_To_Bus ELSE MemCell(c, a)
<1> DEFINE d == Settled(c)
           s == Visible(c)
           p == Put(d.reg, 13, c.SP)
           q == Put(p, 14, c.SR)
<1>1. /\ DOMAIN s = {"reg", "mem"} /\ s.mem = d.mem
      /\ s.reg = Put(q, 15, c.PC)
    BY SettledIs DEF Visible
<1> HIDE DEF d, s, p, q
<1>2. \A k : k \notin {13, 14, 15} => RegCell(s, k) = RegCell(d, k)
    BY <1>1 DEF RegCell, Put, p, q
<1>3. RegCell(s, 15) = c.PC /\ RegCell(s, 14) = c.SR /\ RegCell(s, 13) = c.SP
    BY <1>1 DEF RegCell, Put, p, q
<1>4. \A a : MemCell(s, a) = MemCell(d, a)
    BY <1>1 DEF MemCell
<1> QED
    BY <1>1, <1>2, <1>3, <1>4, SettledIs DEF d, s

(* Nothing is about to be written. *)
Calm(c) == DOMAIN c = Fields /\ ~ c.reg_write_en /\ ~ c.DATA_VALID

(* The defaults of a cycle change nothing that the program sees. *)
LEMMA DefaultsAre ==
    ASSUME NEW c, DOMAIN c = Fields
    PROVE  /\ Calm(Defaults(c))
           /\ Equal(Visible(Defaults(c)), Visible(c))
           /\ Defaults(c).SP = c.SP /\ Defaults(c).SR = c.SR /\ Defaults(c).PC = c.PC
           /\ Defaults(c).Instruction = c.Instruction /\ Defaults(c).ADDR_Bus = c.ADDR_Bus
           /\ Defaults(c).Src_Value = c.Src_Value /\ Defaults(c).Dst_Value = c.Dst_Value
           /\ Defaults(c).Delayed_PostInc = c.Delayed_PostInc /\ Defaults(c).DPI = c.DPI
           /\ Defaults(c).cpu_state = c.cpu_state
<1> DEFINE e == Settled(c)
           d == Defaults(c)
<1>1. /\ Calm(d) /\ d.reg = e.reg /\ d.mem = e.mem
      /\ d.SP = c.SP /\ d.SR = c.SR /\ d.PC = c.PC
    BY DEF Defaults, Settled, Fields, Calm
<1>2. /\ d.Instruction = c.Instruction /\ d.ADDR_Bus = c.ADDR_Bus
      /\ d.Src_Value = c.Src_Value /\ d.Dst_Value = c.Dst_Value
      /\ d.Delayed_PostInc = c.Delayed_PostInc /\ d.DPI = c.DPI
      /\ d.cpu_state = c.cpu_state
    BY DEF Defaults, Settled, Fields
<1> HIDE DEF e, d
<1>3. \A k : RegCell(d, k) = RegCell(e, k)
    BY <1>1 DEF RegCell
<1>4. \A a : MemCell(d, a) = MemCell(e, a)
    BY <1>1 DEF MemCell
<1>5. /\ RegCell(Visible(d), 13) = RegCell(Visible(c), 13)
      /\ RegCell(Visible(d), 14) = RegCell(Visible(c), 14)
      /\ RegCell(Visible(d), 15) = RegCell(Visible(c), 15)
    BY <1>1, VisibleIs DEF Calm
<1>6. \A k : k \notin {13, 14, 15} => RegCell(Visible(d), k) = RegCell(Visible(c), k)
    BY <1>1, <1>3, VisibleIs, SettledIs DEF Calm, e
<1>7. \A a : MemCell(Visible(d), a) = MemCell(Visible(c), a)
    BY <1>1, <1>4, VisibleIs, SettledIs DEF Calm, e
<1>8. Equal(Visible(d), Visible(c))
    BY <1>5, <1>6, <1>7 DEF Equal
<1> QED
    BY <1>1, <1>2, <1>8 DEF d

(* What a write of the state machine sets. *)
LEMMA FsmIs ==
    ASSUME NEW c, DOMAIN c = Fields, NEW r, r # 14, NEW v
    PROVE  LET d == fsm_write(c, r, v) IN
           /\ DOMAIN d = Fields
           /\ r = 13 => d.SP = v
           /\ r # 13 => d.SP = c.SP
           /\ d.SR = c.SR
           /\ r = 15 => d.PC = v
           /\ r # 15 => d.PC = c.PC
           /\ d.reg = c.reg /\ d.mem = c.mem
           /\ r \in {13, 15} => d.reg_write_en = c.reg_write_en /\ d.reg_write = c.reg_write
           /\ r \notin {13, 15} => d.reg_write_en /\ d.reg_write[1] = r /\ d.reg_write[2] = v
           /\ d.DATA_VALID = c.DATA_VALID /\ d.DATA_To_Bus = c.DATA_To_Bus
           /\ d.Instruction = c.Instruction /\ d.ADDR_Bus = c.ADDR_Bus
           /\ d.Src_Value = c.Src_Value /\ d.Dst_Value = c.Dst_Value
           /\ d.Delayed_PostInc = c.Delayed_PostInc /\ d.DPI = c.DPI
           /\ d.cpu_state = c.cpu_state
<1>1. CASE r = 13
    BY <1>1 DEF fsm_write, Fields
<1>2. CASE r = 15
    BY <1>2 DEF fsm_write, Fields
<1>3. CASE r \notin {13, 15}
    <2> DEFINE d == [c EXCEPT !.reg_write_en = TRUE, !.reg_write = <<r, v>>]
    <2>1. fsm_write(c, r, v) = d
        BY <1>3 DEF fsm_write
    <2>2. /\ DOMAIN d = Fields
          /\ d.SP = c.SP /\ d.SR = c.SR /\ d.PC = c.PC /\ d.reg = c.reg /\ d.mem = c.mem
          /\ d.reg_write_en = TRUE /\ d.reg_write = <<r, v>>
          /\ d.DATA_VALID = c.DATA_VALID /\ d.DATA_To_Bus = c.DATA_To_Bus
          /\ d.Instruction = c.Instruction /\ d.ADDR_Bus = c.ADDR_Bus
          /\ d.Src_Value = c.Src_Value /\ d.Dst_Value = c.Dst_Value
          /\ d.Delayed_PostInc = c.Delayed_PostInc /\ d.DPI = c.DPI
          /\ d.cpu_state = c.cpu_state
        BY DEF Fields
    <2> HIDE DEF d
    <2> QED
        BY <1>3, <2>1, <2>2
<1> QED
    BY <1>1, <1>2, <1>3

(* The program sees it as a write of that register. *)
LEMMA FsmVisible ==
    ASSUME NEW c, DOMAIN c = Fields, Machine(Visible(c)), NEW r, Reg(r), r # 14, NEW v \in Int,
           Calm(c) \/ r \in {13, 15}
    PROVE  Equal(Visible(fsm_write(c, r, Wrap(v))), write_register(Visible(c), r, v))
<1> DEFINE d == fsm_write(c, r, Wrap(v))
           s == Visible(c)
           t == Visible(d)
           u == write_register(s, r, v)
           m == Index(s, r)
           n == Window(c, r)
           wr == c.reg_write[1]
           win == Window(c, wr)
<1>1. m = n
    BY VisibleIs DEF Index, Bank, Window, SR
<1>2. /\ r >= 8 => m = r
      /\ r < 8 => m < 8 \/ m > 15
    BY MachineStatus, IndexIs
<1>3. /\ \A k : RegCell(u, k) = IF k = m THEN Wrap(v) ELSE RegCell(s, k)
      /\ \A a : MemCell(u, a) = MemCell(s, a)
    BY WriteCells DEF Machine, Written
<1>4. /\ DOMAIN d = Fields
      /\ r = 13 => d.SP = Wrap(v)
      /\ r # 13 => d.SP = c.SP
      /\ d.SR = c.SR
      /\ r = 15 => d.PC = Wrap(v)
      /\ r # 15 => d.PC = c.PC
      /\ d.reg = c.reg /\ d.mem = c.mem
      /\ r \in {13, 15} => d.reg_write_en = c.reg_write_en /\ d.reg_write = c.reg_write
      /\ r \notin {13, 15} => d.reg_write_en /\ d.reg_write[1] = r /\ d.reg_write[2] = Wrap(v)
      /\ d.DATA_VALID = c.DATA_VALID /\ d.ADDR_Bus = c.ADDR_Bus /\ d.DATA_To_Bus = c.DATA_To_Bus
    BY FsmIs
<1>5. Window(d, r) = n /\ Window(d, wr) = win
    BY <1>4 DEF Window
<1>6. /\ \A k : RegCell(d, k) = RegCell(c, k)
      /\ \A a : MemCell(d, a) = MemCell(c, a)
    BY <1>4 DEF RegCell, MemCell
<1>7. \A a : MemCell(t, a) = MemCell(u, a)
    BY <1>3, <1>4, <1>6, VisibleIs
<1>8. RegCell(t, 13) = RegCell(u, 13) /\ RegCell(t, 14) = RegCell(u, 14) /\ RegCell(t, 15) = RegCell(u, 15)
    BY <1>2, <1>3, <1>4, VisibleIs DEF Reg
<1>9. ASSUME NEW k, k \notin {13, 14, 15} PROVE RegCell(t, k) = RegCell(u, k)
    <2>1. CASE r \in {13, 15}
        <3>1. RegCell(t, k) = RegCell(s, k)
            BY <2>1, <1>4, <1>5, <1>6, <1>9, VisibleIs
        <3>2. k # m
            BY <1>2, <1>9, <2>1
        <3> QED
            BY <1>3, <3>1, <3>2
    <2>2. CASE r \notin {13, 15}
        <3>1. ~ c.reg_write_en
            BY <2>2 DEF Calm
        <3>2. RegCell(s, k) = RegCell(c, k)
            BY <3>1, <1>9, VisibleIs
        <3>3. RegCell(t, k) = IF k = n THEN Wrap(v) ELSE RegCell(d, k)
            BY <2>2, <1>4, <1>5, <1>9, VisibleIs
        <3> QED
            BY <1>1, <1>3, <1>6, <3>2, <3>3
    <2> QED
        BY <2>1, <2>2
<1> HIDE DEF d, s, t, u, m, n, wr, win
<1>10. Equal(t, u)
    BY <1>7, <1>8, <1>9 DEF Equal
<1> QED
    BY <1>10 DEF d, s, t, u

(* The CPU c is in the machine state s, the unused bits included. *)
Mirrors(c, s) == DOMAIN c = Fields /\ Alike(Visible(c), s) /\ c.SR = read_register(s, 14)

(* R13, R14 and R15 are registers. *)
LEMMA StatusReg == Reg(14) /\ Reg(13) /\ Reg(15)
BY DEF Reg

(* A CPU that mirrors a machine state shows one. *)
LEMMA MirrorsMachine ==
    ASSUME NEW c, NEW s, Machine(s), Mirrors(c, s)
    PROVE  Machine(Visible(c))
<1>1. RegCell(Visible(c), 14) \in Word
    BY VisibleIs, ReadWord, StatusReg DEF Mirrors
<1> QED
    BY <1>1, VisibleIs DEF Machine, Mirrors, Alike, Same

(* Alike is kept when one of the states is replaced by an equal one. *)
LEMMA AlikeEqual ==
    ASSUME NEW s, NEW t, NEW u, Alike(s, u), Equal(s, t)
    PROVE  Alike(t, u)
BY ReadStatus DEF Alike, Same, Equal

(* A cycle that has done nothing yet mirrors what the last one did. *)
LEMMA MirrorsDefaults ==
    ASSUME NEW c, NEW s, Mirrors(c, s)
    PROVE  Mirrors(Defaults(c), s) /\ Calm(Defaults(c))
<1>1. Equal(Visible(c), Visible(Defaults(c)))
    BY DefaultsAre DEF Mirrors, Equal
<1> QED
    BY <1>1, AlikeEqual, DefaultsAre DEF Mirrors, Calm

(* The rest of the CPU is not seen. *)
SameCore(c, d) ==
    /\ DOMAIN c = Fields /\ DOMAIN d = Fields
    /\ d.SP = c.SP /\ d.SR = c.SR /\ d.PC = c.PC /\ d.reg = c.reg /\ d.mem = c.mem
    /\ d.reg_write_en = c.reg_write_en
    /\ d.reg_write[1] = c.reg_write[1] /\ d.reg_write[2] = c.reg_write[2]
    /\ ~ c.DATA_VALID /\ ~ d.DATA_VALID

(* The program sees the same when the core is the same, *)
LEMMA CoreVisible ==
    ASSUME NEW c, NEW d, SameCore(c, d)
    PROVE  Equal(Visible(c), Visible(d))
<1>1. \A r : Window(c, r) = Window(d, r)
    BY DEF Window, SameCore
<1>2. \A k : RegCell(c, k) = RegCell(d, k)
    BY DEF RegCell, SameCore
<1>3. \A a : MemCell(c, a) = MemCell(d, a)
    BY DEF MemCell, SameCore
<1>4. /\ RegCell(Visible(c), 13) = RegCell(Visible(d), 13)
      /\ RegCell(Visible(c), 14) = RegCell(Visible(d), 14)
      /\ RegCell(Visible(c), 15) = RegCell(Visible(d), 15)
    BY VisibleIs DEF SameCore
<1>5. \A k : k \notin {13, 14, 15} => RegCell(Visible(c), k) = RegCell(Visible(d), k)
    BY <1>1, <1>2, VisibleIs DEF SameCore
<1>6. \A a : MemCell(Visible(c), a) = MemCell(Visible(d), a)
    BY <1>3, VisibleIs DEF SameCore
<1> QED
    BY <1>4, <1>5, <1>6 DEF Equal

(* and the CPU mirrors the same state. *)
LEMMA MirrorsCore ==
    ASSUME NEW c, NEW d, NEW s, Mirrors(c, s), SameCore(c, d)
    PROVE  Mirrors(d, s)
BY CoreVisible, AlikeEqual DEF Mirrors, SameCore

(* The ports of the register file show the registers of the emulator, *)
LEMMA MirrorsRead ==
    ASSUME NEW c, NEW s, Machine(s), Mirrors(c, s), Calm(c), NEW r, Reg(r)
    PROVE  reg_read_data(c, r) = read_register(s, r)
<1>1. Machine(Visible(c))
    BY MirrorsMachine
<1>2. CASE r = 14
    BY <1>2 DEF reg_read_data, Mirrors
<1>3. CASE r # 14
    <2> DEFINE k == Index(Visible(c), r)
    <2>1. read_register(s, r) = RegCell(Visible(c), k)
        BY <1>1, <1>3, AlikeRead DEF Mirrors, read_register, SR
    <2>2. k = Window(c, r)
        BY VisibleIs DEF Index, Bank, Window, SR, Mirrors
    <2>3. /\ r >= 8 => k = r
          /\ r < 8 => k < 8 \/ k > 15
        BY <1>1, MachineStatus, IndexIs
    <2> HIDE DEF k
    <2>4. CASE r \in {13, 15}
        BY <2>1, <2>3, <2>4, VisibleIs DEF reg_read_data, Mirrors, Reg
    <2>5. CASE r \notin {13, 15}
        <3>1. k \notin {13, 14, 15}
            BY <1>3, <2>3, <2>5 DEF Reg
        <3>2. RegCell(Visible(c), k) = RegCell(c, k)
            BY <3>1, VisibleIs DEF Mirrors, Calm
        <3>3. reg_read_data(c, r) = RegCell(c, k)
            BY <1>3, <2>2, <2>5 DEF reg_read_data
        <3> QED
            BY <2>1, <3>2, <3>3
    <2> QED
        BY <2>4, <2>5
<1> QED
    BY <1>2, <1>3

(* and the data bus its memory. *)
LEMMA MirrorsFetch ==
    ASSUME NEW c, NEW s, Mirrors(c, s), Calm(c), c.ADDR_Bus \in Word
    PROVE  DATA_IN(c) = read_memory(s, c.ADDR_Bus)
BY VisibleIs, WrapId DEF DATA_IN, read_memory, Mirrors, Calm, Alike, Same

(* Alike is transitive. *)
LEMMA AlikeTrans ==
    ASSUME NEW s, NEW t, NEW u, Alike(s, t), Alike(t, u)
    PROVE  Alike(s, u)
BY DEF Alike, Same

(* A write of the CPU mirrors a write of the emulator. *)
LEMMA MirrorsWrite ==
    ASSUME NEW c, NEW s, Machine(s), Mirrors(c, s), NEW r, Reg(r), r # 14, NEW v \in Int,
           Calm(c) \/ r \in {13, 15}
    PROVE  Mirrors(fsm_write(c, r, Wrap(v)), write_register(s, r, v))
<1> DEFINE d == fsm_write(c, r, Wrap(v))
           t == write_register(s, r, v)
           e == write_register(Visible(c), r, v)
<1>1. Machine(Visible(c))
    BY MirrorsMachine
<1>2. Equal(Visible(d), e)
    BY <1>1, FsmVisible DEF Mirrors
<1>3. Alike(e, t)
    BY <1>1, AlikeWrite DEF Mirrors
<1>4. DOMAIN d = Fields /\ d.SR = c.SR
    BY FsmIs DEF Mirrors
<1>5. read_register(t, 14) = read_register(s, 14)
    BY ReadAfterWrite, StatusReg
<1> HIDE DEF d, t, e
<1>6. Mirrors(d, t)
    BY <1>2, <1>3, <1>4, <1>5, EqualAlike, AlikeTrans DEF Mirrors
<1> QED
    BY <1>6 DEF d, t

(* The mirrored state may be replaced by one that reads alike. *)
LEMMA MirrorsAlike ==
    ASSUME NEW c, NEW s, NEW t, Mirrors(c, s), Alike(s, t)
    PROVE  Mirrors(c, t)
BY AlikeTrans DEF Mirrors, Alike

(***************************************************************************)
(* The steps of the emulator through one instruction.  b is the machine    *)
(* state in which the instruction begins.                                  *)
(***************************************************************************)

(* The steps of the emulator through one instruction. *)
Pre(s, mode, r) == IF mode = 3 THEN Add(s, r, -1) ELSE s
Post(s, mode, r) == IF mode = 2 THEN Add(s, r, 1) ELSE s
Value(s, mode, r) == IF mode = 0 THEN read_register(s, r) ELSE read_memory(s, read_register(s, r))

Instr(b) == read_memory(b, read_register(b, PC))
E0(b) == Add(b, PC, 1)
E1(b) == Pre(E0(b), SrcMode(Instr(b)), SrcReg(Instr(b)))
E2(b) == Post(E1(b), SrcMode(Instr(b)), SrcReg(Instr(b)))
E3(b) == Pre(E2(b), DstMode(Instr(b)), DstReg(Instr(b)))
Src(b) == Value(E1(b), SrcMode(Instr(b)), SrcReg(Instr(b)))
Dst(b) == Value(E3(b), DstMode(Instr(b)), DstReg(Instr(b)))

(* Every state a run starts from is a machine state. *)
LEMMA StartMachine == ASSUME NEW s, IsState(s) PROVE Machine(s)
BY BaseAssumption DEF IsState, Machine, RegCell, MemCell

(* The ranges of the fields of an instruction. *)
LEMMA InstrFields ==
    ASSUME NEW i \in Word
    PROVE  /\ Reg(SrcReg(i)) /\ Reg(DstReg(i))
           /\ SrcMode(i) \in 0 .. 3 /\ DstMode(i) \in 0 .. 3
           /\ Opcode(i) \in 0 .. 15
           /\ Command(i) \in Int
<1>1. i \in Int /\ 0 <= i /\ i < 65536
    BY WordRange
<1>2. /\ i \div 256 \in Int /\ i \div 64 \in Int /\ i \div 4 \in Int
      /\ i \div 4096 \in Int /\ 0 <= i \div 4096 /\ i \div 4096 < 16
    BY <1>1
<1>3. \A k \in Int : k % 16 \in Int /\ 0 <= k % 16 /\ k % 16 < 16 /\ k % 4 \in 0 .. 3 /\ k % 64 \in Int
    OBVIOUS
<1>4. Reg(SrcReg(i)) /\ Reg(DstReg(i))
    BY <1>2, <1>3 DEF Reg, SrcReg, DstReg
<1>5. SrcMode(i) \in 0 .. 3 /\ DstMode(i) \in 0 .. 3 /\ Command(i) \in Int
    BY <1>1, <1>2, <1>3 DEF SrcMode, DstMode, Command
<1>6. Opcode(i) \in 0 .. 15
    BY <1>2 DEF Opcode
<1> QED
    BY <1>4, <1>5, <1>6

(* A machine state stays one when a register is counted up or down. *)
LEMMA AddMachine ==
    ASSUME NEW s, Machine(s), NEW r, Reg(r), NEW d \in Int
    PROVE  Machine(Add(s, r, d)) /\ read_register(s, r) + d \in Int
<1>1. read_register(s, r) + d \in Int
    BY ReadWord, WordInt
<1> QED
    BY <1>1, WriteMachine DEF Add

(* A machine state stays one when a pointer is moved. *)
LEMMA StepMachine ==
    ASSUME NEW s, Machine(s), NEW r, Reg(r), NEW mode
    PROVE  /\ Machine(Pre(s, mode, r)) /\ Machine(Post(s, mode, r))
           /\ Value(s, mode, r) \in Word
<1>1. Machine(Pre(s, mode, r)) /\ Machine(Post(s, mode, r))
    BY AddMachine DEF Pre, Post
<1>2. read_register(s, r) \in Word /\ read_memory(s, read_register(s, r)) \in Word
    BY ReadWord, ReadMemoryWord, WordInt
<1> QED
    BY <1>1, <1>2 DEF Value

(* The states and operands of an instruction are states and words. *)
LEMMA Operands ==
    ASSUME NEW b, Machine(b)
    PROVE  /\ Instr(b) \in Word
           /\ Machine(E0(b)) /\ Machine(E1(b)) /\ Machine(E2(b)) /\ Machine(E3(b))
           /\ Src(b) \in Word /\ Dst(b) \in Word
<1>1. Instr(b) \in Word /\ Machine(E0(b))
    BY StatusReg, ReadWord, ReadMemoryWord, WordInt, AddMachine DEF Instr, E0, PC
<1>2. Reg(SrcReg(Instr(b))) /\ Reg(DstReg(Instr(b)))
    BY <1>1, InstrFields
<1>3. Machine(E1(b))
    BY <1>1, <1>2, StepMachine DEF E1
<1>4. Machine(E2(b)) /\ Src(b) \in Word
    BY <1>2, <1>3, StepMachine DEF E2, Src
<1>5. Machine(E3(b)) /\ Dst(b) \in Word
    <2>1. Machine(E3(b))
        BY <1>2, <1>4, StepMachine DEF E3
    <2> QED
        BY <2>1, <1>2, StepMachine DEF Dst
<1> QED
    BY <1>1, <1>3, <1>4, <1>5

(* What is left on an instruction that is not among those that differ. *)
LEMMA Compared ==
    ASSUME NEW i \in Word, ~ Differ(i)
    PROVE  /\ Opcode(i) \in 0 .. 15 /\ Opcode(i) # 13
           /\ Opcode(i) = 14 => Command(i) \in {0, 1, 3, 4}
           /\ SrcMode(i) # 0 => SrcReg(i) # 14
           /\ Opcode(i) \in 0 .. 12 /\ DstMode(i) # 0 => DstReg(i) # 14
           /\ Opcode(i) \in {5, 6} => DstReg(i) # 14 /\ DstMode(i) \in {0, 1}
           /\ Opcode(i) \in 0 .. 12 /\ SrcMode(i) = 2 /\ SrcReg(i) = DstReg(i) =>
                  /\ DstMode(i) = 0 /\ SrcReg(i) \in {13, 15} => ~ Calculates(Opcode(i))
                  /\ DstMode(i) = 0 => Opcode(i) # 12
                  /\ DstMode(i) = 3 => SrcReg(i) \notin {13, 15}
BY InstrFields DEF Differ, UsesSRTwice, ShiftsAndMoves, IncrementsDst, Reserved, amDirect, amIndirPostInc,
   amIndirPreDec, opcSHL, opcSHR, opcCMP, opcCTRL, SR, SP, PC

(* Truncating twice is truncating once. *)
LEMMA WrapWrap == \A v \in Int : Wrap(Wrap(v)) = Wrap(v) /\ Wrap(v) \in Int
BY WrapWord, WrapId, WordInt

(* A decrement undoes an increment. *)
LEMMA WrapDown == ASSUME NEW v \in Word PROVE Wrap(Wrap(v + 1) - 1) = v
BY WordRange DEF Wrap

(* A value that is written is truncated. *)
LEMMA WriteWrapped ==
    ASSUME NEW s, NEW r, NEW v \in Int, NEW w \in Int, Wrap(v) = Wrap(w)
    PROVE  write_register(s, r, v) = write_register(s, r, w) /\ write_memory(s, r, v) = write_memory(s, r, w)
BY DEF write_register, write_memory

(* The operand reads of the emulator. *)
LEMMA SourceIs ==
    ASSUME NEW s, NEW mode, NEW r
    PROVE  /\ read_source_operand(s, mode, r, FALSE).s = Post(Pre(s, mode, r), mode, r)
           /\ read_source_operand(s, mode, r, TRUE).s = Pre(s, mode, r)
           /\ read_source_operand(s, mode, r, FALSE).v = Value(Pre(s, mode, r), mode, r)
           /\ read_source_operand(s, mode, r, TRUE).v = Value(Pre(s, mode, r), mode, r)
BY DEF read_source_operand, Pre, Post, Value

(* After an Add. *)
LEMMA ReadAfterAdd ==
    ASSUME NEW s, Machine(s), NEW r, Reg(r), r # 14, NEW d \in Int, NEW q, Reg(q)
    PROVE  read_register(Add(s, r, d), q) =
               IF q = r THEN Wrap(read_register(s, r) + d) ELSE read_register(s, q)
<1> DEFINE v == read_register(s, r) + d
<1>1. v \in Int
    BY AddMachine
<1> HIDE DEF v
<1>2. read_register(write_register(s, r, v), q) = IF q = r THEN Wrap(v) ELSE read_register(s, q)
    BY <1>1, ReadAfterWrite
<1> QED
    BY <1>2 DEF Add, v

(***************************************************************************)
(* What the CPU has done of an instruction at each of its states           *)
(***************************************************************************)

(* The status register is written at once, *)
LEMMA MirrorsStatus ==
    ASSUME NEW c, NEW s, Machine(s), Mirrors(c, s), Calm(c), NEW v \in Int,
           NEW d, DOMAIN d = Fields, d.SR = SetBit(Wrap(v), 0, 1), d.SP = c.SP, d.PC = c.PC,
           d.reg = c.reg, d.mem = c.mem, ~ d.reg_write_en, ~ d.DATA_VALID
    PROVE  Mirrors(d, write_register(s, 14, v))
<1> DEFINE t == write_register(s, 14, v)
<1>1. Index(s, 14) = 14
    BY DEF Index
<1>2. /\ RegCell(t, 14) = SetBit(Wrap(v), 0, 1)
      /\ \A k : k # 14 => RegCell(t, k) = RegCell(s, k)
      /\ \A a : MemCell(t, a) = MemCell(s, a)
    BY <1>1, WriteCells DEF Machine, Written
<1> HIDE DEF t
<1>3. \A k : k # 14 => RegCell(Visible(c), k) = RegCell(s, k)
    BY DEF Mirrors, Alike, Same
<1>4. \A a : MemCell(Visible(c), a) = MemCell(s, a)
    BY DEF Mirrors, Alike, Same
<1>5. \A k : RegCell(d, k) = RegCell(c, k)
    BY DEF RegCell
<1>6. \A a : MemCell(d, a) = MemCell(c, a)
    BY DEF MemCell
<1>7. RegCell(Visible(d), 14) = RegCell(t, 14)
    BY <1>2, VisibleIs
<1>8. ASSUME NEW k, k # 14 PROVE RegCell(Visible(d), k) = RegCell(t, k)
    <2>1. RegCell(Visible(d), k) = RegCell(Visible(c), k)
        <3>1. CASE k \in {13, 15}
            BY <3>1, VisibleIs DEF Calm
        <3>2. CASE k \notin {13, 15}
            BY <3>2, <1>5, <1>8, VisibleIs DEF Calm
        <3> QED
            BY <3>1, <3>2
    <2> QED
        BY <2>1, <1>2, <1>3, <1>8
<1>9. \A a : MemCell(Visible(d), a) = MemCell(t, a)
    BY <1>2, <1>4, <1>6, VisibleIs DEF Calm
<1>10. read_register(t, 14) = d.SR
    BY <1>2, WrapWord, SetBit0, ReadStatus
<1> QED
    BY <1>7, <1>8, <1>9, <1>10, ReadStatus DEF Mirrors, Alike, Same, t

(* memory in the middle of the next cycle. *)
LEMMA MirrorsStore ==
    ASSUME NEW c, NEW s, Machine(s), Mirrors(c, s), ~ c.DATA_VALID, NEW a \in Word, NEW v \in Word,
           NEW d, DOMAIN d = Fields, d.SP = c.SP, d.SR = c.SR, d.PC = c.PC,
           d.reg = c.reg, d.mem = c.mem,
           d.reg_write_en = c.reg_write_en, d.reg_write = c.reg_write,
           d.DATA_VALID, d.ADDR_Bus = a, d.DATA_To_Bus = v
    PROVE  Mirrors(d, write_memory(s, a, v))
<1> DEFINE t == write_memory(s, a, v)
<1>1. Wrap(a) = a /\ Wrap(v) = v
    BY WrapId
<1>2. /\ \A k : RegCell(t, k) = RegCell(s, k)
      /\ \A m : MemCell(t, m) = IF m = a THEN v ELSE MemCell(s, m)
    BY <1>1, MemoryCells DEF Machine
<1>3. read_register(t, 14) = read_register(s, 14)
    BY <1>2, ReadStatus
<1> HIDE DEF t
<1>4. /\ \A k : k # 14 => RegCell(Visible(c), k) = RegCell(s, k)
      /\ \A m : MemCell(Visible(c), m) = MemCell(s, m)
      /\ read_register(Visible(c), 14) = read_register(s, 14)
      /\ c.SR = read_register(s, 14)
    BY DEF Mirrors, Alike, Same
<1>5. \A m : MemCell(Visible(d), m) = IF m = a THEN v ELSE MemCell(Visible(c), m)
    <2>1. \A m : MemCell(d, m) = MemCell(c, m)
        BY DEF MemCell
    <2> QED
        BY <2>1, VisibleIs DEF Mirrors
<1>6. \A k : RegCell(Visible(d), k) = RegCell(Visible(c), k)
    <2>1. \A r : Window(d, r) = Window(c, r)
        BY DEF Window
    <2>2. \A k : RegCell(d, k) = RegCell(c, k)
        BY DEF RegCell
    <2>3. \A k : k \notin {13, 14, 15} => RegCell(Visible(d), k) = RegCell(Visible(c), k)
        BY <2>1, <2>2, VisibleIs DEF Mirrors
    <2>4. /\ RegCell(Visible(d), 13) = RegCell(Visible(c), 13)
          /\ RegCell(Visible(d), 14) = RegCell(Visible(c), 14)
          /\ RegCell(Visible(d), 15) = RegCell(Visible(c), 15)
        BY VisibleIs DEF Mirrors
    <2> QED
        BY <2>3, <2>4
<1>7. Same(Visible(d), t)
    BY <1>2, <1>4, <1>5, <1>6 DEF Same
<1>8. read_register(Visible(d), 14) = read_register(t, 14)
    BY <1>3, <1>4, <1>6, ReadStatus
<1> QED
    BY <1>3, <1>4, <1>7, <1>8 DEF Mirrors, Alike, t

(* What the CPU is about at each state, b being the machine state in which *)
(* the instruction began.                                                  *)
AtGetSrc(c, b) ==
    /\ Opcode(Instr(b)) # 14 /\ SrcMode(Instr(b)) # 0
    /\ Mirrors(c, E1(b))
    /\ c.ADDR_Bus = read_register(E1(b), SrcReg(Instr(b)))
    /\ SrcMode(Instr(b)) = 2 => c.Src_Value = read_register(E1(b), SrcReg(Instr(b)))
    /\ c.Dst_Value = read_register(E1(b), DstReg(Instr(b)))

(* The delayed increment completes w. *)
Completes(c, w, s) ==
    /\ Machine(w) /\ Mirrors(c, w)
    /\ Reg(c.DPI[1]) /\ c.DPI[1] < 13 /\ c.DPI[2] \in Word
    /\ Alike(write_register(w, c.DPI[1], c.DPI[2]), s)

AtGetDst(c, b) ==
    /\ Opcode(Instr(b)) # 14 /\ NeedsDst(Instr(b))
    /\ c.Src_Value = Src(b)
    /\ c.ADDR_Bus = read_register(E3(b), DstReg(Instr(b)))
    /\ ~ c.Delayed_PostInc => Mirrors(c, E3(b))
    /\ c.Delayed_PostInc => \E w : Completes(c, w, E3(b))

AtExecute(c, b) ==
    /\ Opcode(Instr(b)) # 14
    /\ c.Src_Value = Src(b)
    /\ Opcode(Instr(b)) = 15 => Mirrors(c, E2(b))
    /\ Opcode(Instr(b)) # 15 => Mirrors(c, E3(b))
    /\ Opcode(Instr(b)) \notin {0, 7, 8, 15} => c.Dst_Value = Dst(b)

AtStore(c, b) ==
    /\ Opcode(Instr(b)) \in 0 .. 12 /\ DstMode(Instr(b)) # 0
    /\ Opcode(Instr(b)) # 12 => c.DATA_VALID
    /\ \E s : /\ Machine(s) /\ Mirrors(c, s)
              /\ Near(Post(s, DstMode(Instr(b)), DstReg(Instr(b))), execute(b).s)

Target(i, s, v) == IF (i \div 16) % 4 < 2 THEN v ELSE read_register(s, PC) + v

AtSub(c, b) ==
    /\ Opcode(Instr(b)) = 15 /\ (Instr(b) \div 16) % 4 \in {1, 3}
    /\ c.Src_Value = Src(b)
    /\ \E s : /\ Machine(s) /\ Mirrors(c, s)
              /\ execute(b).s = write_register(s, PC, Target(Instr(b), s, Src(b)))

AtEnd(c, b) ==
    /\ Machine(Visible(c)) /\ Near(Visible(c), execute(b).s)
    /\ c.cpu_state = "cs_halt" <=> execute(b).halt

Follows(c, b) ==
    /\ c.cpu_state = "cs_decode" => Mirrors(c, E0(b))
    /\ c.cpu_state = "cs_exeprep_get_src_indirect" => AtGetSrc(c, b)
    /\ c.cpu_state = "cs_exeprep_get_dst_indirect" => AtGetDst(c, b)
    /\ c.cpu_state = "cs_execute" => AtExecute(c, b)
    /\ c.cpu_state = "cs_exepost_store_dst_indirect" => AtStore(c, b)
    /\ c.cpu_state = "cs_exepost_sub" => AtSub(c, b)
    /\ c.cpu_state \in {"cs_fetch", "cs_halt"} => AtEnd(c, b)

(* The fetch of the CPU is the fetch of the emulator. *)
LEMMA FetchFollows ==
    ASSUME NEW c, NEW b, Machine(b), Mirrors(c, b), c.ADDR_Bus = c.PC
    PROVE  Fetch(c).Instruction = Instr(b) /\ Mirrors(Fetch(c), E0(b)) /\ Fetch(c).cpu_state = "cs_decode"
<1> DEFINE d == Defaults(c)
           f == Fetch(c)
           w == fsm_write(d, 15, Wrap(d.PC + 1))
           x == DATA_IN(Settled(c))
<1>1. /\ Mirrors(d, b) /\ Calm(d) /\ d.PC = c.PC
    BY MirrorsDefaults, DefaultsAre DEF Mirrors
<1>2. c.PC = read_register(b, 15)
    <2>1. reg_read_data(d, 15) = read_register(b, 15)
        BY <1>1, MirrorsRead, StatusReg
    <2> QED
        BY <1>1, <2>1 DEF reg_read_data
<1>3. c.PC \in Word
    BY <1>2, ReadWord, StatusReg
<1>4. x = Instr(b)
    <2>1. MemCell(Visible(c), c.PC) = MemCell(b, c.PC)
        BY DEF Mirrors, Alike, Same
    <2>2. x = MemCell(Settled(c), c.PC)
        BY SettledIs DEF DATA_IN, Mirrors
    <2>3. MemCell(Settled(c), c.PC) = MemCell(Visible(c), c.PC)
        BY DEF Visible, MemCell
    <2> QED
        BY <1>2, <1>3, <2>1, <2>2, <2>3, WrapId DEF Instr, read_memory, PC
<1> HIDE DEF d, x
<1>5. f = [d EXCEPT !.Instruction = x, !.PC = Wrap(d.PC + 1), !.cpu_state = "cs_decode"]
    BY DEF Fetch, d, x
<1>6. Mirrors(w, E0(b))
    <2>1. w = fsm_write(d, 15, Wrap(read_register(b, 15) + 1))
        BY <1>1, <1>2
    <2>2. read_register(b, 15) + 1 \in Int
        BY <1>2, <1>3, WordInt
    <2> QED
        BY <1>1, <2>1, <2>2, MirrorsWrite, StatusReg DEF E0, Add, PC
<1>7. SameCore(w, f)
    BY <1>1, <1>5 DEF SameCore, fsm_write, Calm, Fields
<1>8. Mirrors(f, E0(b))
    BY <1>6, <1>7, MirrorsCore
<1>9. f.Instruction = x /\ f.cpu_state = "cs_decode"
    BY <1>1, <1>5 DEF Calm, Fields
<1> QED
    BY <1>4, <1>8, <1>9

(***************************************************************************)
(* cs_decode                                                               *)
(***************************************************************************)

(* The control instructions of the emulator. *)
LEMMA ExecuteControl ==
    ASSUME NEW b, Opcode(Instr(b)) = 14, Command(Instr(b)) \in {0, 1, 3, 4}
    PROVE  /\ Command(Instr(b)) \in {0, 1} => execute(b).halt
           /\ Command(Instr(b)) \in {3, 4} => ~ execute(b).halt
           /\ Command(Instr(b)) = 3 => execute(b).s = ExecBank(E0(b), 1)
           /\ Command(Instr(b)) = 4 => execute(b).s = ExecBank(E0(b), -1)
           /\ Command(Instr(b)) \in {0, 1} => execute(b).s = E0(b)
<1> DEFINE i == Instr(b)
<1>1. execute(b).halt <=> (Opcode(i) = 13 \/ (Opcode(i) = 14 /\ Command(i) \in {0, 1}))
    BY DEF execute, Instr
<1>2. execute(b).s = IF Command(i) = 3 THEN ExecBank(E0(b), 1)
                     ELSE IF Command(i) = 4 THEN ExecBank(E0(b), -1) ELSE E0(b)
    BY DEF execute, Instr, E0
<1> HIDE DEF i
<1> QED
    BY <1>1, <1>2 DEF i

(* INCRB and DECRB wrap around at the last bank, or the first. *)
Banked(sr, d) == (sr % 256) + 256 * (((sr \div 256) + d) % 256)
SameBank(sr, d) == Banked(sr, d) = Wrap(sr + 256 * d)

LEMMA NextBank ==
    ASSUME NEW sr \in Word, NEW d \in {1, -1}
    PROVE  SameBank(sr, d)
<1> DEFINE q == sr \div 256
           r == sr % 256
<1>1. /\ sr = 256 * q + r /\ q \in Int /\ 0 <= q /\ q < 256
      /\ r \in Int /\ 0 <= r /\ r < 256
    BY WordRange
<1> HIDE DEF q, r
<1>2. (q + d) % 256 = IF q + d < 0 THEN 255 ELSE IF q + d > 255 THEN 0 ELSE q + d
    BY <1>1
<1>3. (256 * q + r + 256 * d) % 65536 =
          IF q + d < 0 THEN 256 * 255 + r ELSE IF q + d > 255 THEN r ELSE 256 * (q + d) + r
    BY <1>1
<1> QED
    BY <1>1, <1>2, <1>3 DEF SameBank, Banked, Wrap, q, r

(* Bit 0 is the parity. *)
LEMMA LowBit == \A x \in Word : SetBit(x, 0, 1) = x <=> x % 2 = 1
<1> SUFFICES ASSUME NEW x \in Word PROVE SetBit(x, 0, 1) = x <=> x % 2 = 1
    OBVIOUS
<1>1. x \in Int /\ x \div 1 = x /\ x % 2 \in 0 .. 1
    BY WordInt
<1>2. 2^0 = 1
    OBVIOUS
<1>3. Bit(x, 0) = x % 2
    BY <1>1, <1>2 DEF Bit
<1> DEFINE p == 2^0
           y == Bit(x, 0)
<1>4. SetBit(x, 0, 1) = x + (1 - y) * p
    BY Zenon DEF SetBit
<1>5. p = 1 /\ y = x % 2
    BY <1>2, <1>3
<1> HIDE DEF p, y
<1> QED
    BY <1>1, <1>4, <1>5

(* A control instruction ends as that of the emulator. *)
LEMMA ControlFollows ==
    ASSUME NEW c, NEW b, Machine(b), Mirrors(c, E0(b)), Calm(c), c.Instruction = Instr(b),
           Opcode(Instr(b)) = 14, Command(Instr(b)) \in {0, 1, 3, 4}
    PROVE  AtEnd(Control(c), b) /\ Control(c).cpu_state \in {"cs_fetch", "cs_halt"}
<1> DEFINE i == Instr(b)
           m == Command(i)
           e == E0(b)
           k == Control(c)
           sr == read_register(e, 14)
<1>1. Machine(e) /\ sr \in Word /\ c.SR = sr
    BY Operands, ReadWord, StatusReg DEF Mirrors
<1>2. CASE m \in {0, 1}
    <2>1. k = Goto(c, "cs_halt")
        BY <1>2 DEF Control
    <2>2. SameCore(c, k) /\ k.cpu_state = "cs_halt"
        BY <2>1 DEF SameCore, Calm, Goto, Fields
    <2>3. Mirrors(k, e)
        BY <2>2, MirrorsCore
    <2>4. Machine(Visible(k)) /\ Near(Visible(k), e)
        BY <1>1, <2>3, MirrorsMachine, AlikeNear DEF Mirrors
    <2>5. execute(b).s = e /\ execute(b).halt
        BY <1>2, ExecuteControl
    <2> QED
        BY <2>2, <2>4, <2>5 DEF AtEnd
<1>3. ASSUME NEW d \in {1, -1}, m = IF d = 1 THEN 3 ELSE 4
      PROVE  AtEnd(k, b) /\ k.cpu_state = "cs_fetch"
    <2> DEFINE v == sr + 256 * d
               t == write_register(e, 14, v)
    <2>1. k = [Goto(c, "cs_fetch") EXCEPT !.SR = Wrap(c.SR + 256 * d), !.ADDR_Bus = c.PC]
        <3>1. CASE d = 1
            BY <1>3, <3>1 DEF Control
        <3>2. CASE d = -1
            BY <1>3, <3>2 DEF Control
        <3> QED
            BY <3>1, <3>2
    <2>2. execute(b).s = t /\ ~ execute(b).halt
        <3>1. execute(b).s = ExecBank(e, d) /\ ~ execute(b).halt
            <4>1. CASE d = 1
                BY <1>3, <4>1, ExecuteControl
            <4>2. CASE d = -1
                BY <1>3, <4>2, ExecuteControl
            <4> QED
                BY <4>1, <4>2
        <3>0. Banked(sr, d) = Wrap(v)
            <4>1. SameBank(sr, d)
                BY <1>1, <1>3, NextBank
            <4> QED
                BY <4>1 DEF SameBank
        <3>5. ExecBank(e, d) = write_register(e, 14, Banked(sr, d))
            BY DEF ExecBank, SR, Banked
        <3>2. ExecBank(e, d) = write_register(e, 14, Wrap(v))
            BY <3>0, <3>5
        <3>3. v \in Int
            BY <1>1, WordInt
        <3>4. ExecBank(e, d) = t
            BY <3>2, <3>3, WriteWrapped, WrapWrap
        <3> QED
            BY <3>1, <3>4
    <2>3. SetBit(Wrap(v), 0, 1) = Wrap(v)
        <3>1. sr = SetBit(RegCell(e, 14), 0, 1) /\ RegCell(e, 14) \in Word
            BY <1>1, ReadStatus, MachineStatus
        <3>2. sr \in Int /\ v \in Int /\ Wrap(v) \in Word
            BY <1>1, WordInt, WrapWord
        <3>3. sr % 2 = 1
            BY <1>1, <3>1, <3>2, SetBit0, LowBit
        <3>4. Wrap(v) = v \/ Wrap(v) = v - 65536 \/ Wrap(v) = v + 65536
            BY <1>1, WordRange DEF Wrap
        <3>5. Wrap(v) % 2 = 1
            BY <3>2, <3>3, <3>4
        <3> QED
            BY <3>2, <3>5, LowBit
    <2>4. Mirrors(k, t)
        <3>1. /\ DOMAIN k = Fields /\ k.SR = Wrap(v) /\ k.SP = c.SP /\ k.PC = c.PC
              /\ k.reg = c.reg /\ k.mem = c.mem /\ ~ k.reg_write_en /\ ~ k.DATA_VALID
            BY <1>1, <2>1 DEF Calm, Goto, Fields
        <3>2. v \in Int
            BY <1>1, WordInt
        <3> QED
            BY <1>1, <2>3, <3>1, <3>2, MirrorsStatus
    <2>5. Machine(t)
        BY <1>1, WordInt, WriteMachine
    <2>6. Machine(Visible(k)) /\ Near(Visible(k), t)
        BY <2>4, <2>5, MirrorsMachine, AlikeNear DEF Mirrors
    <2>7. k.cpu_state = "cs_fetch"
        BY <2>1 DEF Calm, Goto, Fields
    <2> QED
        BY <2>2, <2>6, <2>7 DEF AtEnd
<1> QED
    BY <1>2, <1>3

(* The sum of a register and an offset is an integer. *)
LEMMA ReadInt == ASSUME NEW s, Machine(s), NEW r, Reg(r), NEW d \in Int PROVE read_register(s, r) + d \in Int
BY ReadWord, WordInt

(* A pointer that the CPU decrements in the cycle that puts it on the bus. *)
LEMMA MirrorsAdd ==
    ASSUME NEW c, NEW s, Machine(s), Mirrors(c, s), NEW r, Reg(r), r # 14, NEW d \in Int,
           Calm(c) \/ r \in {13, 15}, NEW v, v = Wrap(read_register(s, r) + d)
    PROVE  Mirrors(fsm_write(c, r, v), Add(s, r, d))
BY ReadInt, MirrorsWrite DEF Add

(* What a write of the state machine leaves alone. *)
LEMMA FsmKeeps ==
    ASSUME NEW c, DOMAIN c = Fields, NEW r, NEW v
    PROVE  /\ fsm_write(c, r, v).cpu_state = c.cpu_state
           /\ fsm_write(c, r, v).ADDR_Bus = c.ADDR_Bus
           /\ fsm_write(c, r, v).Src_Value = c.Src_Value
           /\ fsm_write(c, r, v).Dst_Value = c.Dst_Value
           /\ fsm_write(c, r, v).Delayed_PostInc = c.Delayed_PostInc
           /\ fsm_write(c, r, v).DPI = c.DPI
           /\ DOMAIN fsm_write(c, r, v) = Fields
           /\ fsm_write(c, r, v).PC = IF r = 15 THEN v ELSE c.PC
           /\ fsm_write(c, r, v).DATA_VALID = c.DATA_VALID
           /\ fsm_write(c, r, v).Instruction = c.Instruction
BY DEF fsm_write, Fields

(* The cycle of cs_decode, on all its paths. *)
LEMMA DecodeFollows ==
    ASSUME NEW c0, NEW b, Machine(b), Mirrors(c0, E0(b)), c0.Instruction = Instr(b), ~ Differ(Instr(b)),
           ~ c0.Delayed_PostInc
    PROVE  Follows(Decode(c0), b)
<1> DEFINE c == Defaults(c0)
           i == Instr(b)
           e == E0(b)
           p == read_register(e, SrcReg(i))
           q == read_register(e, DstReg(i))
           d == [c EXCEPT !.Src_Value = p, !.Dst_Value = q]
           src == [Goto(d, "cs_exeprep_get_src_indirect") EXCEPT !.ADDR_Bus = p]
           dst == [Goto(d, "cs_exeprep_get_dst_indirect") EXCEPT !.ADDR_Bus = q]
           src1 == [src EXCEPT !.ADDR_Bus = Wrap(@ - 1),
                               !.Dst_Value = IF DstReg(i) = SrcReg(i) THEN Wrap(p - 1) ELSE @]
           dst1 == [dst EXCEPT !.ADDR_Bus = Wrap(@ - 1)]
           ex == Goto(d, "cs_execute")
<1>1. /\ i \in Word /\ Machine(e)
      /\ Reg(SrcReg(i)) /\ Reg(DstReg(i))
      /\ SrcMode(i) \in 0 .. 3 /\ DstMode(i) \in 0 .. 3
    BY Operands, InstrFields
<1>2. /\ Opcode(i) \in 0 .. 15 /\ Opcode(i) # 13
      /\ Opcode(i) = 14 => Command(i) \in {0, 1, 3, 4}
      /\ SrcMode(i) # 0 => SrcReg(i) # 14
      /\ Opcode(i) \in 0 .. 12 /\ DstMode(i) # 0 => DstReg(i) # 14
    BY <1>1, Compared
<1>3. Mirrors(c, e) /\ Calm(c) /\ c.Instruction = i /\ ~ c.Delayed_PostInc
    BY MirrorsDefaults, DefaultsAre DEF Mirrors
<1>4. Data1(c) = p /\ Data2(c) = q
    BY <1>1, <1>3, MirrorsRead DEF Data1, Data2
<1> HIDE DEF c
<1>5. Decode(c0) =
          IF Opcode(i) = 14 THEN Control(d)
          ELSE IF SrcMode(i) = 3 THEN fsm_write(src1, SrcReg(i), Wrap(p - 1))
          ELSE IF SrcMode(i) # 0 THEN src
          ELSE IF NeedsDst(i) /\ DstMode(i) = 3 THEN fsm_write(dst1, DstReg(i), Wrap(q - 1))
          ELSE IF NeedsDst(i) THEN dst
          ELSE ex
    <2> DEFINE D(j, x, y) ==
                   LET f == [c EXCEPT !.Src_Value = x, !.Dst_Value = y]
                       s == [Goto(f, "cs_exeprep_get_src_indirect") EXCEPT !.ADDR_Bus = x]
                       t == [Goto(f, "cs_exeprep_get_dst_indirect") EXCEPT !.ADDR_Bus = y]
                   IN  IF Opcode(j) = 14 THEN Control(f)
                       ELSE IF SrcMode(j) = 3
                       THEN fsm_write([s EXCEPT !.ADDR_Bus = Wrap(@ - 1),
                                                !.Dst_Value = IF DstReg(j) = SrcReg(j) THEN Wrap(x - 1) ELSE @],
                                      SrcReg(j), Wrap(x - 1))
                       ELSE IF SrcMode(j) # 0 THEN s
                       ELSE IF NeedsDst(j) /\ DstMode(j) = 3
                       THEN fsm_write([t EXCEPT !.ADDR_Bus = Wrap(@ - 1)], DstReg(j), Wrap(y - 1))
                       ELSE IF NeedsDst(j) THEN t
                       ELSE Goto(f, "cs_execute")
    <2>1. Decode(c0) = D(c.Instruction, Data1(c), Data2(c))
        BY Zenon DEF Decode, c, opcCTRL, amIndirPreDec, amDirect
    <2>2. D(c.Instruction, Data1(c), Data2(c)) = D(i, p, q)
        BY <1>3, <1>4
    <2> QED
        BY <2>1, <2>2, Zenon
<1> HIDE DEF i, e, p, q
<1>6. /\ SameCore(c, d) /\ SameCore(c, src) /\ SameCore(c, src1) /\ SameCore(c, dst)
      /\ SameCore(c, dst1) /\ SameCore(c, ex)
    BY <1>3 DEF SameCore, Calm, Goto, Fields
<1>7. /\ Mirrors(d, e) /\ Mirrors(src, e) /\ Mirrors(src1, e) /\ Mirrors(dst, e)
      /\ Mirrors(dst1, e) /\ Mirrors(ex, e)
    BY <1>3, <1>6, MirrorsCore
<1>8. Calm(d) /\ Calm(src1) /\ Calm(dst1) /\ d.Instruction = i
    BY <1>3, <1>6 DEF SameCore, Calm, Fields, Goto
<1>9. CASE Opcode(i) = 14
    <2>1. Decode(c0) = Control(d)
        BY <1>5, <1>9
    <2>2. AtEnd(Control(d), b) /\ Control(d).cpu_state \in {"cs_fetch", "cs_halt"}
        BY <1>2, <1>7, <1>8, <1>9, ControlFollows DEF i, e
    <2> HIDE DEF d
    <2> QED
        BY <2>1, <2>2 DEF Follows
<1>10. CASE Opcode(i) # 14 /\ SrcMode(i) = 3
    <2> DEFINE w == fsm_write(src1, SrcReg(i), Wrap(p - 1))
    <2>1. Decode(c0) = w
        BY <1>5, <1>10
    <2>2. E1(b) = Add(e, SrcReg(i), -1)
        BY <1>10 DEF E1, Pre, i, e
    <2>3. SrcReg(i) # 14
        BY <1>2, <1>10
    <2>4. Mirrors(w, E1(b))
        <3>1. Mirrors(fsm_write(src1, SrcReg(i), Wrap(p - 1)), Add(e, SrcReg(i), -1))
            <4>1. Wrap(p - 1) = Wrap(p + (-1))
                OBVIOUS
            <4> HIDE DEF src1
            <4> QED
                BY <1>1, <1>7, <1>8, <2>3, <4>1, MirrorsAdd DEF p
        <3> QED
            BY <2>2, <3>1
    <2>5. /\ read_register(E1(b), SrcReg(i)) = Wrap(p - 1)
          /\ read_register(E1(b), DstReg(i)) = IF DstReg(i) = SrcReg(i) THEN Wrap(p - 1) ELSE q
        <3>1. p \in Int /\ p - 1 = p + (-1)
            BY <1>1, ReadWord, WordInt DEF p
        <3>2. \A k : Reg(k) => read_register(Add(e, SrcReg(i), -1), k) =
                                   IF k = SrcReg(i) THEN Wrap(p - 1) ELSE read_register(e, k)
            BY <1>1, <2>3, <3>1, ReadAfterAdd DEF p
        <3> QED
            BY <1>1, <2>2, <3>2 DEF q
    <2>6. /\ src1.cpu_state = "cs_exeprep_get_src_indirect" /\ src1.ADDR_Bus = Wrap(p - 1)
          /\ src1.Dst_Value = IF DstReg(i) = SrcReg(i) THEN Wrap(p - 1) ELSE q
        BY <1>3 DEF Calm, Fields, Goto
    <2>7. DOMAIN src1 = Fields
        BY <1>6 DEF SameCore
    <2> HIDE DEF src1
    <2>8. /\ w.cpu_state = "cs_exeprep_get_src_indirect" /\ w.ADDR_Bus = Wrap(p - 1)
          /\ w.Dst_Value = IF DstReg(i) = SrcReg(i) THEN Wrap(p - 1) ELSE q
        BY <2>6, <2>7, FsmKeeps
    <2> HIDE DEF w
    <2>9. AtGetSrc(w, b)
        BY <1>10, <2>4, <2>5, <2>8 DEF AtGetSrc, i
    <2> QED
        BY <2>1, <2>8, <2>9 DEF Follows
<1>11. CASE Opcode(i) # 14 /\ SrcMode(i) \in {1, 2}
    <2>1. Decode(c0) = src
        BY <1>5, <1>11
    <2>2. E1(b) = e
        BY <1>11 DEF E1, Pre, i, e
    <2>3. /\ src.cpu_state = "cs_exeprep_get_src_indirect" /\ src.ADDR_Bus = p
          /\ src.Src_Value = p /\ src.Dst_Value = q
        BY <1>3 DEF Calm, Fields, Goto
    <2> HIDE DEF src
    <2>4. AtGetSrc(src, b)
        BY <1>7, <1>11, <2>2, <2>3 DEF AtGetSrc, i, p, q
    <2> QED
        BY <2>1, <2>3, <2>4 DEF Follows
<1>12. CASE Opcode(i) # 14 /\ SrcMode(i) = 0
    <2>1. E1(b) = e /\ E2(b) = e /\ Src(b) = p
        BY <1>12 DEF E1, E2, Src, Pre, Post, Value, i, e, p
    <2>2. CASE NeedsDst(i) /\ DstMode(i) = 3
        <3> DEFINE w == fsm_write(dst1, DstReg(i), Wrap(q - 1))
        <3>1. Decode(c0) = w
            BY <1>5, <1>12, <2>2
        <3>2. E3(b) = Add(e, DstReg(i), -1)
            BY <2>1, <2>2 DEF E3, Pre, i
        <3>3. DstReg(i) # 14
            BY <1>2, <1>12, <2>2 DEF NeedsDst, opcBRA
        <3>4. Wrap(q - 1) = Wrap(q + (-1))
            BY <1>1, ReadWord, WordInt DEF q
        <3>5. Mirrors(w, E3(b))
            <4> HIDE DEF dst1
            <4> QED
                BY <1>1, <1>7, <1>8, <3>2, <3>3, <3>4, MirrorsAdd DEF q
        <3>6. read_register(E3(b), DstReg(i)) = Wrap(q - 1)
            BY <1>1, <3>2, <3>3, <3>4, ReadAfterAdd DEF q
        <3>7. /\ dst1.cpu_state = "cs_exeprep_get_dst_indirect" /\ dst1.ADDR_Bus = Wrap(q - 1)
              /\ dst1.Src_Value = p /\ ~ dst1.Delayed_PostInc /\ DOMAIN dst1 = Fields
            BY <1>3 DEF Calm, Fields, Goto
        <3> HIDE DEF dst1
        <3>8. /\ w.cpu_state = "cs_exeprep_get_dst_indirect" /\ w.ADDR_Bus = Wrap(q - 1)
              /\ w.Src_Value = p /\ ~ w.Delayed_PostInc
            BY <3>7, FsmKeeps
        <3> HIDE DEF w
        <3>9. AtGetDst(w, b)
            BY <1>12, <2>1, <2>2, <3>5, <3>6, <3>8 DEF AtGetDst, i
        <3> QED
            BY <3>1, <3>8, <3>9 DEF Follows
    <2>3. CASE NeedsDst(i) /\ DstMode(i) # 3
        <3>1. Decode(c0) = dst
            BY <1>5, <1>12, <2>3
        <3>2. E3(b) = e
            BY <2>1, <2>3 DEF E3, Pre, i
        <3>3. /\ dst.cpu_state = "cs_exeprep_get_dst_indirect" /\ dst.ADDR_Bus = q
              /\ dst.Src_Value = p /\ ~ dst.Delayed_PostInc
            BY <1>3 DEF Calm, Fields, Goto
        <3> HIDE DEF dst
        <3>4. AtGetDst(dst, b)
            BY <1>7, <1>12, <2>1, <2>3, <3>2, <3>3 DEF AtGetDst, i, q
        <3> QED
            BY <3>1, <3>3, <3>4 DEF Follows
    <2>4. CASE ~ NeedsDst(i)
        <3>1. Decode(c0) = ex
            BY <1>5, <1>12, <2>4
        <3>2. Opcode(i) # 15 => E3(b) = e
            BY <2>1, <2>4 DEF E3, Pre, i, NeedsDst, opcBRA, opcMOVE, amDirect, amIndirPreDec
        <3>3. Opcode(i) \notin {0, 7, 8, 15} => Dst(b) = q
            <4>1. Opcode(i) \notin {0, 7, 8, 15} => DstMode(i) = 0
                BY <2>4 DEF NeedsDst, opcBRA, opcMOVE, amDirect, amIndirPreDec
            <4> QED
                BY <3>2, <4>1 DEF Dst, Value, i, q
        <3>4. ex.cpu_state = "cs_execute" /\ ex.Src_Value = p /\ ex.Dst_Value = q
            BY <1>3 DEF Calm, Fields, Goto
        <3> HIDE DEF ex
        <3>5. AtExecute(ex, b)
            BY <1>7, <1>12, <2>1, <3>2, <3>3, <3>4 DEF AtExecute, i
        <3> QED
            BY <3>1, <3>4, <3>5 DEF Follows
    <2> QED
        BY <2>2, <2>3, <2>4
<1> QED
    BY <1>1, <1>9, <1>10, <1>11, <1>12

(***************************************************************************)
(* cs_exeprep_get_src_indirect, cs_exeprep_get_dst_indirect                *)
(***************************************************************************)

(* Two increments of one register, or of two, in the order of the CPU. *)
LEMMA DownUp ==
    ASSUME NEW s, Machine(s), NEW r, Reg(r), r # 14
    PROVE  /\ Alike(write_register(Add(s, r, -1), r, read_register(s, r)), Add(Add(s, r, 1), r, -1))
           /\ read_register(Add(Add(s, r, 1), r, -1), r) = read_register(s, r)
<1> DEFINE x == read_register(s, r)
           u == Add(s, r, 1)
           w == Add(s, r, -1)
           y == read_register(u, r)
<1>1. x \in Word /\ x \in Int /\ x + 1 \in Int /\ x + (-1) \in Int
    BY ReadWord, WordInt
<1>2. Machine(u) /\ Machine(w)
    BY AddMachine
<1>3. y = Wrap(x + 1)
    BY ReadAfterAdd
<1>4. y \in Int /\ y + (-1) \in Int /\ Wrap(y + (-1)) = x
    BY <1>1, <1>3, WrapWord, WordInt, WrapDown
<1>5. w = write_register(s, r, x + (-1)) /\ u = write_register(s, r, x + 1)
      /\ Add(u, r, -1) = write_register(u, r, y + (-1))
    BY DEF Add
<1> HIDE DEF x, u, w, y
<1>6. Equal(write_register(w, r, x), write_register(s, r, x))
    BY <1>1, <1>5, WriteTwice
<1>7. Equal(write_register(u, r, y + (-1)), write_register(s, r, y + (-1)))
    BY <1>1, <1>4, <1>5, WriteTwice
<1>8. write_register(s, r, y + (-1)) = write_register(s, r, x)
    <2>1. Wrap(x) = Wrap(y + (-1))
        BY <1>1, <1>4, WrapId
    <2> QED
        BY <1>1, <1>4, <2>1, WriteWrapped
<1>9. Equal(write_register(w, r, x), write_register(u, r, y + (-1)))
    BY <1>6, <1>7, <1>8 DEF Equal
<1>10. read_register(Add(u, r, -1), r) = Wrap(y + (-1))
    BY <1>2, ReadAfterAdd DEF y
<1> QED
    BY <1>4, <1>5, <1>9, <1>10, EqualAlike DEF x, u, w

(* A decrement and an increment of two registers commute. *)
LEMMA DownThenUp ==
    ASSUME NEW s, Machine(s), NEW r, Reg(r), r # 14, NEW q, Reg(q), q # 14, r # q
    PROVE  /\ Alike(write_register(Add(s, q, -1), r, Wrap(read_register(s, r) + 1)),
                    Add(Add(s, r, 1), q, -1))
           /\ read_register(Add(Add(s, r, 1), q, -1), q) = Wrap(read_register(s, q) - 1)
<1> DEFINE x == read_register(s, r)
           y == read_register(s, q)
           u == Add(s, r, 1)
           w == Add(s, q, -1)
<1>1. x + 1 \in Int /\ y + (-1) \in Int /\ y - 1 = y + (-1) /\ Wrap(x + 1) \in Int
    BY ReadWord, WordInt, WrapWrap
<1>2. Machine(u) /\ Machine(w)
    BY AddMachine
<1>3. read_register(u, q) = y
    BY ReadAfterAdd
<1>4. w = write_register(s, q, y + (-1)) /\ u = write_register(s, r, x + 1)
      /\ Add(u, q, -1) = write_register(u, q, y + (-1))
    BY <1>3 DEF Add
<1>5. read_register(Add(u, q, -1), q) = Wrap(y - 1)
    BY <1>1, <1>2, <1>3, ReadAfterAdd
<1> HIDE DEF x, y, u, w
<1>6. Equal(write_register(w, r, x + 1), write_register(u, q, y + (-1)))
    BY <1>1, <1>4, WritesCommute
<1>7. write_register(w, r, Wrap(x + 1)) = write_register(w, r, x + 1)
    BY <1>1, WrapWrap, WriteWrapped
<1> QED
    BY <1>4, <1>5, <1>6, <1>7, EqualAlike DEF x, y, u, w

(* The cycle that reads the source, on all its paths. *)
LEMMA GetSrcFollows ==
    ASSUME NEW c0, NEW b, Machine(b), AtGetSrc(c0, b), c0.Instruction = Instr(b), ~ Differ(Instr(b)),
           ~ c0.Delayed_PostInc
    PROVE  Follows(GetSrc(c0), b)
<1> DEFINE c == Defaults(c0)
           i == Instr(b)
           r == SrcReg(i)
           t == DstReg(i)
           e == E1(b)
           p == read_register(e, r)
           q == read_register(e, t)
           inc == SrcMode(i) = 2
           var == IF inc THEN Wrap(p + 1) ELSE q
           dstv == IF inc /\ r = t /\ r < 13 /\ Calculates(Opcode(i)) THEN var ELSE q
           a == [c EXCEPT !.Src_Value = Src(b), !.Dst_Value = dstv]
           u == IF inc THEN fsm_write(a, r, var) ELSE a
           d == Goto(u, "cs_exeprep_get_dst_indirect")
           d1 == [d EXCEPT !.ADDR_Bus = IF t = r THEN var ELSE q]
           d2 == [d EXCEPT !.ADDR_Bus = IF Delays(i) /\ r = t THEN q ELSE Wrap(q - 1),
                           !.Delayed_PostInc = Delays(i) \/ @,
                           !.DPI = IF Delays(i) THEN <<r, IF r = t THEN q ELSE var>> ELSE @]
           ex == Goto(u, "cs_execute")
<1>1. /\ i \in Word /\ Machine(e) /\ Machine(E2(b))
      /\ Reg(r) /\ Reg(t)
      /\ SrcMode(i) \in 0 .. 3 /\ DstMode(i) \in 0 .. 3 /\ Src(b) \in Word
    BY Operands, InstrFields
<1>2. /\ Opcode(i) \in 0 .. 15 /\ Opcode(i) # 13 /\ Opcode(i) # 14
      /\ r # 14
      /\ Opcode(i) \in 0 .. 12 /\ DstMode(i) # 0 => t # 14
      /\ Opcode(i) \in 0 .. 12 /\ inc /\ r = t =>
                  /\ DstMode(i) = 0 /\ r \in {13, 15} => ~ Calculates(Opcode(i))
                  /\ DstMode(i) = 0 => Opcode(i) # 12
                  /\ DstMode(i) = 3 => r \notin {13, 15}
    BY <1>1, Compared DEF AtGetSrc
<1>3. /\ Mirrors(c, e) /\ Calm(c) /\ c.Instruction = i /\ ~ c.Delayed_PostInc
      /\ c.ADDR_Bus = p /\ c.Dst_Value = q
      /\ inc => c.Src_Value = p
    BY MirrorsDefaults, DefaultsAre DEF Mirrors, AtGetSrc
<1>4. /\ Data1(c) = p /\ Data2(c) = q /\ p \in Word /\ q \in Word
    BY <1>1, <1>3, MirrorsRead, ReadWord DEF Data1, Data2
<1>5. DATA_IN(c) = Src(b)
    BY <1>3, <1>4, MirrorsFetch DEF AtGetSrc, Src, Value
<1> HIDE DEF c
<1>6. GetSrc(c0) =
          IF ~ NeedsDst(i) THEN ex
          ELSE IF DstMode(i) # 3 THEN d1
          ELSE fsm_write(d2, t, Wrap(q - 1))
    <2> DEFINE D(j, x, y, sv, dv, data, old) ==
                   LET ic == SrcMode(j) = 2
                       vr == IF ic THEN Wrap(old + 1) ELSE y
                       f == [c EXCEPT !.Src_Value = data,
                                      !.Dst_Value = IF ic /\ SrcReg(j) = DstReg(j) /\ SrcReg(j) < 13 /\ Calculates(Opcode(j)) THEN vr ELSE dv]
                       g == IF ic THEN fsm_write(f, SrcReg(j), vr) ELSE f
                       h == Goto(g, "cs_exeprep_get_dst_indirect")
                   IN  IF ~ NeedsDst(j) THEN Goto(g, "cs_execute")
                       ELSE IF DstMode(j) # 3
                       THEN [h EXCEPT !.ADDR_Bus = IF DstReg(j) = SrcReg(j) THEN vr ELSE y]
                       ELSE fsm_write(
                           [h EXCEPT !.ADDR_Bus = IF Delays(j) /\ SrcReg(j) = DstReg(j) THEN y
                                                  ELSE Wrap(y - 1),
                                     !.Delayed_PostInc = Delays(j) \/ @,
                                     !.DPI = IF Delays(j)
                                             THEN <<SrcReg(j), IF SrcReg(j) = DstReg(j) THEN dv ELSE vr>>
                                             ELSE @],
                           DstReg(j), Wrap(sv - 1))
    <2> HIDE DEF i, p, q, e
    <2>1. GetSrc(c0) = D(c.Instruction, Data1(c), Data2(c),
                         IF Special(DstReg(c.Instruction)) THEN Data2(c) ELSE c.Dst_Value, c.Dst_Value,
                         DATA_IN(c),
                         IF Special(SrcReg(c.Instruction)) THEN Data1(c) ELSE c.Src_Value)
        BY SMT DEF GetSrc, c, amIndirPreDec, amIndirPostInc, ForwardsDst
    <2>2. (IF Special(DstReg(c.Instruction)) THEN Data2(c) ELSE c.Dst_Value) = q
        BY <1>3, <1>4
    <2>3. \A x, y, sv, dv, data, z : SrcMode(i) # 2 => D(i, x, y, sv, dv, data, z) = D(i, x, y, sv, dv, data, p)
        OBVIOUS
    <2>4. SrcMode(i) = 2 => (IF Special(SrcReg(c.Instruction)) THEN Data1(c) ELSE c.Src_Value) = p
        BY <1>3, <1>4
    <2>5. D(i, p, q, q, q, Src(b), p) =
              IF ~ NeedsDst(i) THEN ex
              ELSE IF DstMode(i) # 3 THEN d1
              ELSE fsm_write(d2, t, Wrap(q - 1))
        BY Zenon
    <2> HIDE DEF D
    <2>6. GetSrc(c0) = D(i, p, q, q, q, Src(b), p)
        BY <1>3, <1>4, <1>5, <2>1, <2>2, <2>3, <2>4
    <2> QED
        BY <2>5, <2>6, Zenon
<1>7. inc => var = Wrap(p + 1)
    OBVIOUS
<1>8. /\ SameCore(c, a) /\ Calm(a)
      /\ a.Src_Value = Src(b) /\ a.Dst_Value = dstv /\ ~ a.Delayed_PostInc
    BY <1>3 DEF SameCore, Calm, Fields
<1>9. Mirrors(a, e)
    BY <1>3, <1>8, MirrorsCore
<1>10. /\ inc => E2(b) = Add(e, r, 1)
       /\ ~ inc => E2(b) = e
    BY DEF E2, Post
<1>11. /\ Mirrors(u, E2(b)) /\ DOMAIN u = Fields /\ ~ u.DATA_VALID
       /\ u.Src_Value = Src(b) /\ u.Dst_Value = dstv /\ ~ u.Delayed_PostInc
       /\ ~ inc \/ r \in {13, 15} => Calm(u)
    <2>1. CASE inc
        <3> HIDE DEF a, dstv
        <3>1. Mirrors(fsm_write(a, r, var), Add(e, r, 1))
            BY <1>1, <1>2, <1>7, <1>8, <1>9, <2>1, MirrorsAdd
        <3>2. /\ fsm_write(a, r, var).Src_Value = Src(b) /\ fsm_write(a, r, var).Dst_Value = dstv
              /\ ~ fsm_write(a, r, var).Delayed_PostInc
            BY <1>8, FsmKeeps DEF Calm
        <3>3. /\ ~ fsm_write(a, r, var).DATA_VALID
              /\ r \in {13, 15} => ~ fsm_write(a, r, var).reg_write_en
            BY <1>2, <1>8, FsmIs DEF Calm
        <3> QED
            BY <1>10, <2>1, <3>1, <3>2, <3>3 DEF Mirrors, Calm
    <2>2. CASE ~ inc
        BY <1>8, <1>9, <1>10, <2>2 DEF Calm
    <2> QED
        BY <2>1, <2>2
<1>12. /\ inc => read_register(E2(b), r) = Wrap(p + 1)
       /\ inc /\ r # t => read_register(E2(b), t) = q
       /\ ~ inc => read_register(E2(b), t) = q
    BY <1>1, <1>2, <1>10, ReadAfterAdd
<1> HIDE DEF a
<1>13. CASE ~ NeedsDst(i)
    <2>1. GetSrc(c0) = ex
        BY <1>6, <1>13
    <2>2. SameCore(u, ex) /\ ex.cpu_state = "cs_execute" /\ ex.Src_Value = Src(b) /\ ex.Dst_Value = dstv
        <3> HIDE DEF u, dstv
        <3> QED
            BY <1>11 DEF SameCore, Goto, Fields
    <2>3. Mirrors(ex, E2(b))
        BY <1>11, <2>2, MirrorsCore
    <2>4. Opcode(i) # 15 => E3(b) = E2(b)
        BY <1>13 DEF E3, Pre, NeedsDst, opcBRA, opcMOVE, amDirect, amIndirPreDec
    <2>5. ASSUME Opcode(i) \notin {0, 7, 8, 15} PROVE Dst(b) = dstv
        <3>1. DstMode(i) = 0
            BY <1>13, <2>5 DEF NeedsDst, opcBRA, opcMOVE, amDirect, amIndirPreDec
        <3>2. Dst(b) = read_register(E2(b), t)
            BY <2>4, <2>5, <3>1 DEF Dst, Value
        <3>3. Opcode(i) \in 0 .. 12
            BY <1>2, <2>5
        <3>4. Opcode(i) # 12 => Calculates(Opcode(i))
            BY <3>3, <2>5 DEF Calculates, opcMOVE, opcSWAP, opcBRA, opcCTRL, opcCMP
        <3>5. CASE inc /\ r = t
            <4>1. r < 13
                BY <1>1, <1>2, <3>1, <3>3, <3>4, <3>5 DEF Reg
            <4>2. Opcode(i) # 12
                BY <1>2, <3>1, <3>3, <3>5
            <4> QED
                BY <1>12, <3>2, <3>4, <3>5, <4>1, <4>2
        <3>6. CASE ~ (inc /\ r = t)
            BY <1>12, <3>2, <3>6
        <3> QED
            BY <3>5, <3>6
    <2> HIDE DEF ex, dstv
    <2>6. AtExecute(ex, b)
        BY <1>2, <2>2, <2>3, <2>4, <2>5 DEF AtExecute
    <2> QED
        BY <2>1, <2>2, <2>6 DEF Follows
<1>14. CASE NeedsDst(i) /\ DstMode(i) # 3
    <2>1. GetSrc(c0) = d1
        BY <1>6, <1>14
    <2>2. /\ SameCore(u, d1) /\ d1.cpu_state = "cs_exeprep_get_dst_indirect" /\ d1.Src_Value = Src(b)
          /\ d1.ADDR_Bus = IF t = r THEN var ELSE q
          /\ ~ d1.Delayed_PostInc
        <3> HIDE DEF u, dstv, var
        <3> QED
            BY <1>11 DEF SameCore, Goto, Fields
    <2>3. Mirrors(d1, E2(b))
        BY <1>11, <2>2, MirrorsCore
    <2>4. E3(b) = E2(b)
        BY <1>14 DEF E3, Pre
    <2>5. read_register(E3(b), t) = IF t = r THEN var ELSE q
        BY <1>12, <2>4
    <2> HIDE DEF d1, var
    <2>6. AtGetDst(d1, b)
        BY <1>2, <1>14, <2>2, <2>3, <2>4, <2>5 DEF AtGetDst
    <2> QED
        BY <2>1, <2>2, <2>6 DEF Follows
<1>15. CASE NeedsDst(i) /\ DstMode(i) = 3
    <2> DEFINE w == fsm_write(d2, t, Wrap(q - 1))
    <2>1. GetSrc(c0) = w
        BY <1>6, <1>15
    <2>2. Opcode(i) \in 0 .. 12 /\ t # 14
        BY <1>2, <1>15 DEF NeedsDst, opcBRA
    <2>3. E3(b) = Add(E2(b), t, -1)
        BY <1>15 DEF E3, Pre
    <2>4. /\ SameCore(u, d2) /\ d2.cpu_state = "cs_exeprep_get_dst_indirect" /\ d2.Src_Value = Src(b)
          /\ d2.ADDR_Bus = IF Delays(i) /\ r = t THEN q ELSE Wrap(q - 1)
          /\ d2.Delayed_PostInc <=> Delays(i)
          /\ Delays(i) => d2.DPI[1] = r /\ d2.DPI[2] = IF r = t THEN q ELSE var
        <3> DEFINE y == IF r = t THEN q ELSE var
                   g == IF Delays(i) THEN <<r, y>> ELSE d.DPI
                   l == Delays(i) \/ d.Delayed_PostInc
                   n == IF Delays(i) /\ r = t THEN q ELSE Wrap(q - 1)
        <3>1. SameCore(u, d) /\ d.cpu_state = "cs_exeprep_get_dst_indirect" /\ d.Src_Value = Src(b)
              /\ ~ d.Delayed_PostInc
            <4> HIDE DEF u, dstv, var
            <4> QED
                BY <1>11 DEF SameCore, Goto, Fields
        <3>2. Delays(i) => g[1] = r /\ g[2] = y
            OBVIOUS
        <3>3. l <=> Delays(i)
            BY <3>1
        <3>4. d2 = [d EXCEPT !.ADDR_Bus = n, !.Delayed_PostInc = l, !.DPI = g]
            BY <3>1 DEF SameCore, Fields
        <3> HIDE DEF d, y, g, l, n, d2
        <3>5. /\ SameCore(u, d2) /\ d2.cpu_state = "cs_exeprep_get_dst_indirect" /\ d2.Src_Value = Src(b)
              /\ d2.ADDR_Bus = n /\ d2.Delayed_PostInc = l /\ d2.DPI = g
            BY <3>1, <3>4 DEF SameCore, Fields
        <3> QED
            BY <3>2, <3>3, <3>5 DEF n, y
    <2>5. Mirrors(d2, E2(b)) /\ DOMAIN d2 = Fields
        <3> HIDE DEF u, d2
        <3> QED
            BY <1>11, <2>4, MirrorsCore DEF SameCore
    <2>6. /\ w.cpu_state = "cs_exeprep_get_dst_indirect" /\ w.Src_Value = Src(b)
          /\ w.ADDR_Bus = IF Delays(i) /\ r = t THEN q ELSE Wrap(q - 1)
          /\ w.Delayed_PostInc <=> Delays(i)
          /\ Delays(i) => w.DPI[1] = r /\ w.DPI[2] = IF r = t THEN q ELSE var
        <3> HIDE DEF d2
        <3> QED
            BY <2>4, <2>5, FsmKeeps
    <2>7. Wrap(q - 1) = Wrap(q + (-1)) /\ p + 1 \in Int /\ q \in Int
        BY <1>4, WordInt
    <2>8. CASE ~ Delays(i)
        <3>1. inc /\ r < 13 => ~ (t < 13)
            BY <1>15, <2>8 DEF Delays, amIndirPostInc, amIndirPreDec
        <3>2. inc => r # t
            BY <1>1, <1>2, <1>15, <2>2, <3>1 DEF Reg
        <3>3. read_register(E2(b), t) = q
            BY <1>12, <3>2
        <3>4. Calm(d2) \/ t \in {13, 15}
            <4>1. t \in {13, 15} \/ ~ inc \/ r \in {13, 15}
                BY <1>1, <1>2, <2>2, <3>1 DEF Reg
            <4> QED
                BY <1>11, <2>4, <4>1 DEF Calm, SameCore
        <3>5. Mirrors(w, E3(b))
            <4> HIDE DEF d2
            <4> QED
                BY <1>1, <2>2, <2>3, <2>5, <2>7, <3>3, <3>4, MirrorsAdd
        <3>6. read_register(E3(b), t) = Wrap(q - 1)
            BY <1>1, <2>2, <2>3, <2>7, <3>3, ReadAfterAdd
        <3> HIDE DEF w
        <3>7. AtGetDst(w, b)
            BY <1>2, <1>15, <2>6, <2>8, <3>5, <3>6 DEF AtGetDst
        <3> QED
            BY <2>1, <2>6, <3>7 DEF Follows
    <2>9. CASE Delays(i)
        <3> DEFINE z == Add(e, t, -1)
                   x == fsm_write(c, t, Wrap(q - 1))
        <3>1. inc /\ r < 13 /\ t < 13
            BY <2>9 DEF Delays, amIndirPostInc
        <3>2. Mirrors(x, z) /\ Machine(z)
            BY <1>1, <1>3, <2>2, <2>7, MirrorsAdd, AddMachine
        <3>3. SameCore(x, w)
            <4>1. /\ DOMAIN x = Fields /\ x.SP = c.SP /\ x.SR = c.SR /\ x.PC = c.PC /\ x.reg = c.reg /\ x.mem = c.mem
                  /\ x.reg_write_en /\ x.reg_write[1] = t /\ x.reg_write[2] = Wrap(q - 1) /\ ~ x.DATA_VALID
                BY <1>3, <2>2, <3>1, FsmIs DEF Calm
            <4>2. /\ a.SP = c.SP /\ a.SR = c.SR /\ a.PC = c.PC /\ a.reg = c.reg /\ a.mem = c.mem
                BY <1>8 DEF SameCore
            <4>3. /\ u.SP = a.SP /\ u.SR = a.SR /\ u.PC = a.PC /\ u.reg = a.reg /\ u.mem = a.mem
                BY <1>2, <1>8, <3>1, FsmIs DEF Calm
            <4> HIDE DEF u, d2
            <4>4. /\ d2.SP = u.SP /\ d2.SR = u.SR /\ d2.PC = u.PC /\ d2.reg = u.reg /\ d2.mem = u.mem
                  /\ ~ d2.DATA_VALID
                BY <2>4 DEF SameCore
            <4>5. /\ DOMAIN w = Fields /\ w.SP = d2.SP /\ w.SR = d2.SR /\ w.PC = d2.PC /\ w.reg = d2.reg /\ w.mem = d2.mem
                  /\ w.reg_write_en /\ w.reg_write[1] = t /\ w.reg_write[2] = Wrap(q - 1)
                  /\ w.DATA_VALID = d2.DATA_VALID
                BY <2>2, <2>5, <3>1, FsmIs
            <4> HIDE DEF x, w
            <4> QED
                BY <4>1, <4>2, <4>3, <4>4, <4>5 DEF SameCore
        <3>4. Mirrors(w, z)
            BY <3>2, <3>3, MirrorsCore
        <3>5. E3(b) = Add(Add(e, r, 1), t, -1)
            BY <1>10, <2>3, <3>1
        <3> HIDE DEF w, z, d2
        <3>6. CASE r = t
            <4>1. Alike(write_register(z, r, q), E3(b)) /\ read_register(E3(b), t) = q
                BY <1>1, <1>2, <3>5, <3>6, DownUp DEF z
            <4>2. Completes(w, z, E3(b))
                BY <1>1, <1>4, <2>6, <2>9, <3>1, <3>2, <3>4, <3>6, <4>1 DEF Completes
            <4>3. AtGetDst(w, b)
                BY <1>2, <1>15, <2>6, <2>9, <3>6, <4>1, <4>2 DEF AtGetDst
            <4> QED
                BY <2>1, <2>6, <4>3 DEF Follows, w
        <3>7. CASE r # t
            <4>1. Alike(write_register(z, r, var), E3(b)) /\ read_register(E3(b), t) = Wrap(q - 1)
                BY <1>1, <1>2, <2>2, <3>1, <3>5, <3>7, DownThenUp DEF z
            <4>2. var \in Word
                BY <2>7, <3>1, WrapWord
            <4>3. Completes(w, z, E3(b))
                BY <1>1, <2>6, <2>9, <3>1, <3>2, <3>4, <3>7, <4>1, <4>2 DEF Completes
            <4>4. AtGetDst(w, b)
                BY <1>2, <1>15, <2>6, <2>9, <3>7, <4>1, <4>3 DEF AtGetDst
            <4> QED
                BY <2>1, <2>6, <4>4 DEF Follows, w
        <3> QED
            BY <3>6, <3>7
    <2> QED
        BY <2>8, <2>9
<1> QED
    BY <1>13, <1>14, <1>15

(* The cycle that reads the destination and makes up for a delayed         *)
(* increment.                                                              *)
LEMMA GetDstFollows ==
    ASSUME NEW c0, NEW b, Machine(b), AtGetDst(c0, b), DOMAIN c0 = Fields, c0.Instruction = Instr(b)
    PROVE  AtExecute(GetDst(c0), b) /\ GetDst(c0).cpu_state = "cs_execute"
<1> DEFINE c == Defaults(c0)
           i == Instr(b)
           t == DstReg(i)
           e == E3(b)
           q == read_register(e, t)
           d == [Goto(c, "cs_execute") EXCEPT !.Dst_Value = DATA_IN(c)]
           d1 == [d EXCEPT !.Delayed_PostInc = FALSE]
           g == GetDst(c0)
<1>1. /\ Machine(e) /\ Reg(t) /\ q \in Word
    BY Operands, InstrFields, ReadWord
<1>2. Opcode(i) # 14 /\ Opcode(i) # 15 /\ DstMode(i) # 0
    BY DEF AtGetDst, NeedsDst, opcBRA, amDirect
<1>3. Dst(b) = read_memory(e, q)
    BY <1>2 DEF Dst, Value
<1>4. /\ Calm(c) /\ c.ADDR_Bus = q /\ c.Src_Value = Src(b)
      /\ c.Delayed_PostInc = c0.Delayed_PostInc /\ c.DPI = c0.DPI
    BY DefaultsAre DEF AtGetDst
<1>5. /\ g = IF c.Delayed_PostInc THEN fsm_write(d1, c.DPI[1], c.DPI[2]) ELSE d
    BY Zenon DEF GetDst
<1>6. CASE ~ c0.Delayed_PostInc
    <2>1. Mirrors(c, e)
        BY <1>6, MirrorsDefaults DEF AtGetDst
    <2>2. DATA_IN(c) = Dst(b)
        BY <1>1, <1>3, <1>4, <2>1, MirrorsFetch
    <2> HIDE DEF c
    <2>3. SameCore(c, d) /\ d.cpu_state = "cs_execute" /\ d.Src_Value = Src(b) /\ d.Dst_Value = Dst(b)
        BY <1>4, <2>2 DEF SameCore, Calm, Goto, Fields
    <2>4. Mirrors(d, e)
        BY <2>1, <2>3, MirrorsCore
    <2>5. g = d
        BY <1>4, <1>5, <1>6
    <2> HIDE DEF d, g
    <2> QED
        BY <1>2, <2>3, <2>4, <2>5 DEF AtExecute, g
<1>7. CASE c0.Delayed_PostInc
    <2>1. PICK w : Completes(c0, w, e)
        BY <1>7 DEF AtGetDst
    <2> DEFINE r == c.DPI[1]
               v == c.DPI[2]
               f == fsm_write(d1, r, v)
    <2>2. /\ Machine(w) /\ Mirrors(c, w) /\ Reg(r) /\ r < 13 /\ v \in Word
          /\ Alike(write_register(w, r, v), e)
        BY <1>4, <2>1, MirrorsDefaults DEF Completes
    <2>3. DATA_IN(c) = Dst(b)
        <3>1. MemCell(write_register(w, r, v), Wrap(q)) = MemCell(w, Wrap(q))
            BY <2>2, WriteCells DEF Machine
        <3>2. read_memory(w, q) = read_memory(e, q)
            BY <2>2, <3>1 DEF Alike, Same, read_memory
        <3>3. DATA_IN(c) = read_memory(w, q)
            BY <1>1, <1>4, <2>2, MirrorsFetch
        <3> QED
            BY <1>3, <3>2, <3>3
    <2> HIDE DEF c, r, v
    <2>4. SameCore(c, d1) /\ Calm(d1) /\ d1.cpu_state = "cs_execute" /\ d1.Src_Value = Src(b) /\ d1.Dst_Value = Dst(b)
        BY <1>4, <2>3 DEF SameCore, Calm, Goto, Fields
    <2>5. Mirrors(d1, w)
        BY <2>2, <2>4, MirrorsCore
    <2>6. r # 14 /\ v \in Int /\ Wrap(v) = v
        BY <2>2, WordInt, WrapId
    <2> HIDE DEF d1
    <2>7. Mirrors(f, write_register(w, r, v))
        <3>1. Mirrors(fsm_write(d1, r, Wrap(v)), write_register(w, r, v))
            BY <2>2, <2>4, <2>5, <2>6, MirrorsWrite
        <3> QED
            BY <2>6, <3>1
    <2>8. Mirrors(f, e)
        BY <2>2, <2>7, MirrorsAlike
    <2>9. f.cpu_state = "cs_execute" /\ f.Src_Value = Src(b) /\ f.Dst_Value = Dst(b)
        BY <2>4, FsmKeeps DEF Calm
    <2>10. g = f
        BY <1>4, <1>5, <1>7 DEF r, v
    <2> HIDE DEF f, g
    <2> QED
        BY <1>2, <2>8, <2>9, <2>10 DEF AtExecute, g
<1> QED
    BY <1>6, <1>7

(***************************************************************************)
(* cs_exepost_store_dst_indirect, cs_exepost_sub, WAIT_FOR_DATA            *)
(***************************************************************************)

(* Near is transitive. *)
LEMMA NearTrans ==
    ASSUME NEW s, NEW t, NEW u, Near(s, t), Near(t, u)
    PROVE  Near(s, u)
BY DEF Near, Same

(* When the emulator halts. *)
LEMMA HaltIs ==
    ASSUME NEW b
    PROVE  execute(b).halt <=> Opcode(Instr(b)) = 13 \/ (Opcode(Instr(b)) = 14 /\ Command(Instr(b)) \in {0, 1})
BY DEF execute, Instr

(* The end of an instruction that does not halt. *)
LEMMA EndsAt ==
    ASSUME NEW d, NEW b, NEW s, Machine(s), Mirrors(d, s), Near(s, execute(b).s),
           Opcode(Instr(b)) \notin {13, 14}, d.cpu_state = "cs_fetch"
    PROVE  Follows(d, b)
<1>1. Machine(Visible(d)) /\ Near(Visible(d), s)
    BY MirrorsMachine, AlikeNear DEF Mirrors
<1>2. AtEnd(d, b)
    BY <1>1, NearTrans, HaltIs DEF AtEnd
<1> QED
    BY <1>2 DEF Follows

(* The cycle after a store, which moves the destination pointer. *)
LEMMA StoreFollows ==
    ASSUME NEW c0, NEW b, Machine(b), AtStore(c0, b), c0.Instruction = Instr(b), ~ Differ(Instr(b))
    PROVE  Follows(Store(c0), b)
<1> DEFINE c == Defaults(c0)
           i == Instr(b)
           t == DstReg(i)
           q == Data2(c)
           d == IF DstMode(i) = 2 THEN fsm_write(c, t, Wrap(q + 1)) ELSE c
           g == [Goto(d, "cs_fetch") EXCEPT !.ADDR_Bus = d.PC]
<1>1. PICK s : /\ Machine(s) /\ Mirrors(c0, s)
               /\ Near(Post(s, DstMode(i), t), execute(b).s)
    BY DEF AtStore
<1>2. /\ Mirrors(c, s) /\ Calm(c) /\ c.Instruction = i
    BY <1>1, MirrorsDefaults, DefaultsAre DEF Mirrors
<1>3. Reg(t) /\ t # 14 /\ Opcode(i) \in 0 .. 12
    BY Operands, InstrFields, Compared DEF AtStore
<1>4. q = read_register(s, t)
    BY <1>1, <1>2, <1>3, MirrorsRead DEF Data2
<1>5. Store(c0) = g
    BY <1>2 DEF Store, amIndirPostInc
<1> HIDE DEF c, q
<1>6. Mirrors(d, Post(s, DstMode(i), t)) /\ Machine(Post(s, DstMode(i), t)) /\ ~ d.DATA_VALID
    <2>1. CASE DstMode(i) = 2
        <3>1. Mirrors(fsm_write(c, t, Wrap(q + 1)), Add(s, t, 1))
            BY <1>1, <1>2, <1>3, <1>4, MirrorsAdd
        <3>2. ~ fsm_write(c, t, Wrap(q + 1)).DATA_VALID
            BY <1>2, <1>3, FsmIs DEF Calm
        <3> QED
            BY <1>1, <1>3, <2>1, <3>1, <3>2, StepMachine DEF Post
    <2>2. CASE DstMode(i) # 2
        BY <1>1, <1>2, <2>2 DEF Post, Calm
    <2> QED
        BY <2>1, <2>2
<1> HIDE DEF d
<1>7. SameCore(d, g) /\ g.cpu_state = "cs_fetch"
    BY <1>6 DEF Mirrors, SameCore, Goto, Fields
<1>8. Mirrors(g, Post(s, DstMode(i), t))
    BY <1>6, <1>7, MirrorsCore
<1> HIDE DEF g
<1> QED
    BY <1>1, <1>3, <1>5, <1>6, <1>7, <1>8, EndsAt

(* The next instruction is fetched from y. *)
Jump(c, y) == [Goto(c, "cs_fetch") EXCEPT !.PC = y, !.ADDR_Bus = y]

(* A jump of the CPU mirrors a write of R15. *)
LEMMA JumpMirrors ==
    ASSUME NEW c, NEW s, Machine(s), Mirrors(c, s), Calm(c), NEW x \in Int
    PROVE  /\ Mirrors(Jump(c, Wrap(x)), write_register(s, 15, x)) /\ Machine(write_register(s, 15, x))
           /\ Jump(c, Wrap(x)).cpu_state = "cs_fetch"
<1> DEFINE y == Wrap(x)
           g == Jump(c, y)
           w == fsm_write(c, 15, y)
<1>1. Mirrors(w, write_register(s, 15, x))
    BY StatusReg, MirrorsWrite
<1>2. SameCore(w, g) /\ g.cpu_state = "cs_fetch"
    BY DEF SameCore, fsm_write, Calm, Goto, Fields, Jump
<1>3. Mirrors(g, write_register(s, 15, x))
    BY <1>1, <1>2, MirrorsCore
<1> QED
    BY <1>2, <1>3, WriteMachine

(* The new PC of a branch. *)
LEMMA TargetIs ==
    ASSUME NEW c, NEW s, Machine(s), Mirrors(c, s), Calm(c), NEW i, NEW v \in Word
    PROVE  /\ Target(i, s, v) \in Int
           /\ Wrap(Target(i, s, v)) = IF (i \div 16) % 4 < 2 THEN v ELSE Wrap(c.PC + v)
<1>1. c.PC = read_register(s, PC) /\ c.PC \in Word
    <2>1. reg_read_data(c, 15) = read_register(s, 15)
        BY MirrorsRead, StatusReg
    <2> QED
        BY <2>1, ReadWord, StatusReg DEF reg_read_data, PC
<1>2. c.PC \in Int /\ v \in Int /\ Wrap(v) = v
    BY <1>1, WordInt, WrapId
<1> QED
    BY <1>1, <1>2 DEF Target

(* The last cycle of a subroutine call. *)
LEMMA SubFollows ==
    ASSUME NEW c0, NEW b, Machine(b), AtSub(c0, b), c0.Instruction = Instr(b)
    PROVE  Follows(Sub(c0), b)
<1> DEFINE c == Defaults(c0)
           i == Instr(b)
           y == IF (i \div 16) % 4 < 2 THEN Src(b) ELSE Wrap(c.PC + Src(b))
           g == Jump(c, y)
<1>1. PICK s : /\ Machine(s) /\ Mirrors(c0, s)
               /\ execute(b).s = write_register(s, PC, Target(i, s, Src(b)))
    BY DEF AtSub
<1>2. Mirrors(c, s) /\ Calm(c) /\ c.Instruction = i /\ c.Src_Value = Src(b)
    BY <1>1, MirrorsDefaults, DefaultsAre DEF Mirrors, AtSub
<1>3. Sub(c0) = g
    <2>1. ((i \div 16) % 4 = 1) <=> ((i \div 16) % 4 < 2)
        BY DEF AtSub
    <2> QED
        BY <1>2, <2>1 DEF Sub, Jump
<1> HIDE DEF c
<1>4. Target(i, s, Src(b)) \in Int /\ Wrap(Target(i, s, Src(b))) = y
    BY <1>1, <1>2, Operands, TargetIs
<1>5. Mirrors(g, execute(b).s) /\ Machine(execute(b).s) /\ g.cpu_state = "cs_fetch"
    <2> HIDE DEF y
    <2> QED
        BY <1>1, <1>2, <1>4, JumpMirrors DEF PC
<1>6. Near(execute(b).s, execute(b).s)
    BY DEF Near, Same
<1> HIDE DEF g
<1>7. Opcode(i) = 15
    BY DEF AtSub
<1> QED
    BY <1>3, <1>5, <1>6, <1>7, EndsAt

(* A state that waits for data is repeated. *)
LEMMA WaitMirrors ==
    ASSUME NEW c, NEW s, Mirrors(c, s), c.DATA_VALID
    PROVE  Mirrors([Defaults(c) EXCEPT !.DATA_To_Bus = c.DATA_To_Bus, !.DATA_VALID = TRUE], s)
<1> DEFINE e == Defaults(c)
           d == [e EXCEPT !.DATA_To_Bus = c.DATA_To_Bus, !.DATA_VALID = TRUE]
<1>1. DOMAIN c = Fields /\ Calm(e) /\ Equal(Visible(e), Visible(c)) /\ e.ADDR_Bus = c.ADDR_Bus
      /\ e.SR = c.SR
    BY DefaultsAre DEF Mirrors
<1> HIDE DEF e
<1>2. /\ DOMAIN d = Fields /\ d.SP = e.SP /\ d.SR = e.SR /\ d.PC = e.PC
      /\ d.reg = e.reg /\ d.mem = e.mem /\ d.reg_write_en = e.reg_write_en
      /\ d.DATA_VALID /\ d.ADDR_Bus = c.ADDR_Bus /\ d.DATA_To_Bus = c.DATA_To_Bus
    BY <1>1 DEF Calm, Fields
<1> HIDE DEF d
<1>3. /\ \A k : RegCell(d, k) = RegCell(e, k)
      /\ \A a : MemCell(d, a) = MemCell(e, a)
    BY <1>2 DEF RegCell, MemCell
<1>4. \A k : RegCell(Visible(d), k) = RegCell(Visible(e), k)
    <2>1. /\ RegCell(Visible(d), 13) = RegCell(Visible(e), 13)
          /\ RegCell(Visible(d), 14) = RegCell(Visible(e), 14)
          /\ RegCell(Visible(d), 15) = RegCell(Visible(e), 15)
        BY <1>1, <1>2, VisibleIs DEF Calm
    <2>2. \A k : k \notin {13, 14, 15} => RegCell(Visible(d), k) = RegCell(Visible(e), k)
        BY <1>1, <1>2, <1>3, VisibleIs DEF Calm
    <2> QED
        BY <2>1, <2>2
<1>5. \A a : MemCell(Visible(d), a) = MemCell(Visible(c), a)
    <2>1. \A a : MemCell(Visible(c), a) = IF a = c.ADDR_Bus THEN c.DATA_To_Bus ELSE MemCell(c, a)
        BY <1>1, VisibleIs
    <2>2. \A a : MemCell(Visible(d), a) = IF a = c.ADDR_Bus THEN c.DATA_To_Bus ELSE MemCell(e, a)
        BY <1>2, <1>3, VisibleIs
    <2>3. \A a : MemCell(e, a) = MemCell(Visible(c), a)
        BY <1>1, VisibleIs DEF Equal, Calm
    <2> QED
        BY <2>1, <2>2, <2>3
<1>6. Equal(Visible(c), Visible(d))
    BY <1>1, <1>4, <1>5 DEF Equal
<1> QED
    BY <1>1, <1>2, <1>6, AlikeEqual DEF Mirrors, d, e

(* A state that is repeated is at the same point of the instruction. *)
LEMMA WaitFollows ==
    ASSUME NEW c, NEW b, DOMAIN c = Fields, Follows(c, b), c.Instruction = Instr(b),
           c.cpu_state \in WaitStates, c.cpu_state # "cs_fetch"
    PROVE  Follows(Waiting(c), b)
<1> DEFINE d == Defaults(c)
           i == Instr(b)
           w == Waiting(c)
<1>1. /\ Calm(d) /\ d.cpu_state = c.cpu_state /\ d.ADDR_Bus = c.ADDR_Bus
      /\ d.Src_Value = c.Src_Value /\ d.Dst_Value = c.Dst_Value
      /\ d.Delayed_PostInc = c.Delayed_PostInc /\ d.DPI = c.DPI
    BY DefaultsAre
<1>2. CASE c.cpu_state = "cs_exeprep_get_src_indirect"
    <2>1. w = d
        BY <1>2 DEF Waiting
    <2>2. AtGetSrc(d, b)
        BY <1>1, <1>2, MirrorsDefaults DEF Follows, AtGetSrc
    <2> HIDE DEF d, w
    <2> QED
        BY <1>1, <1>2, <2>1, <2>2 DEF Follows, w
<1>3. CASE c.cpu_state = "cs_exeprep_get_dst_indirect"
    <2>1. w = d
        BY <1>3 DEF Waiting
    <2>2. \A s : Completes(c, s, E3(b)) => Completes(d, s, E3(b))
        BY <1>1, MirrorsDefaults DEF Completes
    <2>3. AtGetDst(d, b)
        BY <1>1, <1>3, <2>2, MirrorsDefaults DEF Follows, AtGetDst
    <2> HIDE DEF d, w
    <2> QED
        BY <1>1, <1>3, <2>1, <2>3 DEF Follows, w
<1>4. CASE c.cpu_state = "cs_exepost_store_dst_indirect"
    <2>1. AtStore(c, b)
        BY <1>4 DEF Follows
    <2>2. PICK s : /\ Machine(s) /\ Mirrors(c, s)
                   /\ Near(Post(s, DstMode(i), DstReg(i)), execute(b).s)
        BY <2>1 DEF AtStore
    <2>3. Mirrors(w, s) /\ w.cpu_state = c.cpu_state /\ (Opcode(i) # 12 => w.DATA_VALID)
        <3>1. CASE Opcode(i) = 12
            <4>1. w = d
                BY <3>1 DEF Waiting, opcCMP
            <4> QED
                BY <1>1, <2>2, <3>1, <4>1, MirrorsDefaults
        <3>2. CASE Opcode(i) # 12
            <4>1. w = [d EXCEPT !.DATA_To_Bus = c.DATA_To_Bus, !.DATA_VALID = TRUE]
                BY <1>4, <3>2 DEF Waiting, opcCMP
            <4>2. c.DATA_VALID
                BY <2>1, <3>2 DEF AtStore
            <4>3. Mirrors(w, s)
                BY <2>2, <4>1, <4>2, WaitMirrors
            <4> HIDE DEF d, w
            <4> QED
                BY <1>1, <4>1, <4>3 DEF Calm, Fields
        <3> QED
            BY <3>1, <3>2
    <2> HIDE DEF d, w
    <2>4. AtStore(w, b)
        BY <2>1, <2>2, <2>3 DEF AtStore
    <2> QED
        BY <1>4, <2>3, <2>4 DEF Follows, w
<1> QED
    BY <1>2, <1>3, <1>4 DEF WaitStates

(***************************************************************************)
(* The flags of the two machines                                           *)
(***************************************************************************)

(* The powers of two of a word. *)
LEMMA Powers ==
    /\ 2^0 = 1 /\ 2^1 = 2 /\ 2^2 = 4 /\ 2^3 = 8 /\ 2^4 = 16 /\ 2^5 = 32 /\ 2^6 = 64 /\ 2^7 = 128
    /\ 2^8 = 256 /\ 2^9 = 512 /\ 2^10 = 1024 /\ 2^11 = 2048 /\ 2^12 = 4096 /\ 2^13 = 8192
    /\ 2^14 = 16384 /\ 2^15 = 32768 /\ 2^16 = 65536
OBVIOUS

(* A bit is 0 or 1, *)
LEMMA BitRange ==
    ASSUME NEW x \in Int
    PROVE  /\ Bit(x, 0) \in 0 .. 1 /\ Bit(x, 1) \in 0 .. 1 /\ Bit(x, 2) \in 0 .. 1 /\ Bit(x, 3) \in 0 .. 1
           /\ Bit(x, 4) \in 0 .. 1 /\ Bit(x, 5) \in 0 .. 1 /\ Bit(x, 6) \in 0 .. 1 /\ Bit(x, 7) \in 0 .. 1
           /\ Bit(x, 8) \in 0 .. 1 /\ Bit(x, 9) \in 0 .. 1 /\ Bit(x, 10) \in 0 .. 1 /\ Bit(x, 11) \in 0 .. 1
           /\ Bit(x, 12) \in 0 .. 1 /\ Bit(x, 13) \in 0 .. 1 /\ Bit(x, 14) \in 0 .. 1 /\ Bit(x, 15) \in 0 .. 1
           /\ Bit(x, 16) \in 0 .. 1
<1>1. \A y \in Int : y % 2 \in 0 .. 1
    OBVIOUS
<1>2. /\ x \div 2^0 \in Int /\ x \div 2^1 \in Int /\ x \div 2^2 \in Int /\ x \div 2^3 \in Int
      /\ x \div 2^4 \in Int /\ x \div 2^5 \in Int /\ x \div 2^6 \in Int /\ x \div 2^7 \in Int
      /\ x \div 2^8 \in Int /\ x \div 2^9 \in Int /\ x \div 2^10 \in Int /\ x \div 2^11 \in Int
      /\ x \div 2^12 \in Int /\ x \div 2^13 \in Int /\ x \div 2^14 \in Int /\ x \div 2^15 \in Int
      /\ x \div 2^16 \in Int
    BY Powers
<1> QED
    BY <1>1, <1>2, Zenon DEF Bit

(* and so is a condition. *)
LEMMA BoolRange == \A p : Bool(p) \in 0 .. 1
BY DEF Bool

IsBit(v) == v \in 0 .. 1

(* The status registers of the two machines after an operation. *)
EmuStatus(sr, x, c, z, n, v) == sr - (sr % 64) + 1 + 2 * x + 4 * c + 8 * z + 16 * n + 32 * v
HwStatus(sr, x, c, z, n, v) == (sr \div 256) * 256 + 32 * v + 16 * n + 8 * z + 4 * c + 2 * x + 1

(* Both status registers are words, and they have the used bits in common. *)
LEMMA StatusAgree ==
    ASSUME NEW sr \in Word, NEW x, NEW c, NEW z, NEW n, NEW v,
           IsBit(x), IsBit(c), IsBit(z), IsBit(n), IsBit(v),
           NEW a, a = EmuStatus(sr, x, c, z, n, v), NEW h, h = HwStatus(sr, x, c, z, n, v)
    PROVE  /\ a \in Word /\ h \in Word
           /\ SetBit(a, 0, 1) = a /\ SetBit(h, 0, 1) = h
           /\ a \div 256 = sr \div 256 /\ h \div 256 = sr \div 256
           /\ Used(14, a) = h /\ Used(14, h) = h
           /\ Bit(a, 1) = x /\ Bit(a, 2) = c /\ Bit(a, 3) = z /\ Bit(a, 4) = n /\ Bit(a, 5) = v
<1>1. PICK q, m, b5, b4, b3, b2, b1, b0 :
           IsStatus(q, m, b5, b4, b3, b2, b1, b0) /\ sr = StatusWord(q, m, b5, b4, b3, b2, b1, b0)
    BY TakeApart
<1>2. /\ sr \div 256 = q
      /\ sr % 64 = 32 * b5 + 16 * b4 + 8 * b3 + 4 * b2 + 2 * b1 + b0
    BY <1>1, Apart
<1>3. IsStatus(q, m, v, n, z, c, x, 1) /\ IsStatus(q, 0, v, n, z, c, x, 1)
    BY <1>1 DEF IsStatus, IsBit
<1>4. a = StatusWord(q, m, v, n, z, c, x, 1)
    BY <1>1, <1>2, <1>3 DEF EmuStatus, StatusWord, IsStatus
<1>5. h = StatusWord(q, 0, v, n, z, c, x, 1)
    BY <1>1, <1>2, <1>3 DEF HwStatus, StatusWord, IsStatus
<1> QED
    BY <1>2, <1>3, <1>4, <1>5, Apart

(* They are the same but for the unused bits. *)
LEMMA StatusNear ==
    ASSUME NEW e, Machine(e), NEW x, NEW c, NEW z, NEW n, NEW v,
           IsBit(x), IsBit(c), IsBit(z), IsBit(n), IsBit(v)
    PROVE  LET sr == read_register(e, 14)
               a == EmuStatus(sr, x, c, z, n, v)
               h == HwStatus(sr, x, c, z, n, v)
           IN  /\ Near(write_register(e, 14, h), write_register(e, 14, a))
               /\ Machine(write_register(e, 14, h)) /\ Machine(write_register(e, 14, a))
               /\ read_register(write_register(e, 14, h), 14) = h
               /\ read_register(write_register(e, 14, a), 14) = a
<1> DEFINE sr == read_register(e, 14)
           a == EmuStatus(sr, x, c, z, n, v)
           h == HwStatus(sr, x, c, z, n, v)
           s == write_register(e, 14, a)
           t == write_register(e, 14, h)
<1>1. sr \in Word
    BY ReadWord, StatusReg
<1>2. a \in Word /\ h \in Word /\ SetBit(a, 0, 1) = a /\ SetBit(h, 0, 1) = h /\ Used(14, a) = h /\ Used(14, h) = h
    BY <1>1, StatusAgree
<1>3. Wrap(a) = a /\ Wrap(h) = h /\ a \in Int /\ h \in Int
    BY <1>2, WrapId, WordInt
<1>4. Index(e, 14) = 14
    BY DEF Index
<1> HIDE DEF sr, a, h
<1>5. Machine(s) /\ Machine(t)
    BY <1>3, WriteMachine
<1>6. /\ \A k : RegCell(s, k) = IF k = 14 THEN a ELSE RegCell(e, k)
      /\ \A k : RegCell(t, k) = IF k = 14 THEN h ELSE RegCell(e, k)
      /\ \A k : MemCell(s, k) = MemCell(e, k) /\ MemCell(t, k) = MemCell(e, k)
    BY <1>2, <1>3, <1>4, WriteCells DEF Machine, Written
<1> HIDE DEF s, t
<1>7. Near(t, s) /\ read_register(s, 14) = a /\ read_register(t, 14) = h
    BY <1>2, <1>6, ReadStatus DEF Near, Same
<1> QED
    BY <1>5, <1>7 DEF s, t, a, h, sr

(* update_status_bits() writes such a status register. *)
LEMMA UpdateIs ==
    ASSUME NEW s, NEW d, NEW s0, NEW s1, NEW keep
    PROVE  LET sr == read_register(s, 14) IN
           update_status_bits(s, d, s0, s1, keep) =
               write_register(s, 14, EmuStatus(sr,
                   IF "X" \in keep THEN Bit(sr, 1) ELSE Bool(Wrap(d) = 65535),
                   IF "C" \in keep THEN Bit(sr, 2) ELSE Bit(d, 16),
                   Bool(Wrap(d) = 0), Bit(d, 15),
                   IF "V" \in keep THEN Bit(sr, 5)
                   ELSE Bool(Bit(s0, 15) = Bit(s1, 15) /\ Bit(d, 15) # Bit(s0, 15))))
BY DEF update_status_bits, EmuStatus, SR

(* What the destination of the emulator gets. *)
LEMMA DestinationNear ==
    ASSUME NEW s, NEW t, Machine(s), Machine(t), Near(s, t), NEW r, Reg(r), NEW mode, mode # 0 => r # 14,
           NEW v \in Int
    PROVE  Near(write_destination(s, mode, r, v, TRUE), write_destination(t, mode, r, v, TRUE))
<1> DEFINE f(u) == write_memory(u, read_register(u, r), v)
<1>1. CASE mode = 0
    BY <1>1, NearWrite DEF write_destination
<1>2. CASE mode # 0
    <2>1. Near(f(s), f(t))
        BY <1>2, NearRead, NearWriteMemory
    <2>2. Machine(f(s)) /\ Machine(f(t))
        BY MemoryMachine
    <2>3. /\ write_destination(s, mode, r, v, TRUE) = IF mode = 2 THEN Add(f(s), r, 1) ELSE f(s)
          /\ write_destination(t, mode, r, v, TRUE) = IF mode = 2 THEN Add(f(t), r, 1) ELSE f(t)
        BY <1>2, Zenon DEF write_destination
    <2> HIDE DEF f
    <2>4. Near(Add(f(s), r, 1), Add(f(t), r, 1))
        BY <1>2, <2>1, <2>2, NearRead, NearWrite DEF Add
    <2> QED
        BY <2>1, <2>3, <2>4
<1> QED
    BY <1>1, <1>2

(* The destination truncates what it gets. *)
LEMMA DestinationWrapped ==
    ASSUME NEW v \in Int
    PROVE  \A s, r, mode :
               /\ write_destination(s, mode, r, Wrap(v), TRUE) = write_destination(s, mode, r, v, TRUE)
               /\ write_destination(s, mode, r, Wrap(v), FALSE) = write_destination(s, mode, r, v, FALSE)
<1>1. \A u, k : write_register(u, k, Wrap(v)) = write_register(u, k, v)
                /\ write_memory(u, k, Wrap(v)) = write_memory(u, k, v)
    BY WrapWrap, WriteWrapped
<1>2. ASSUME NEW s, NEW r, NEW mode
      PROVE  write_destination(s, mode, r, Wrap(v), TRUE) = write_destination(s, mode, r, v, TRUE)
    BY <1>1, Zenon DEF write_destination
<1>3. ASSUME NEW s, NEW r, NEW mode
      PROVE  write_destination(s, mode, r, Wrap(v), FALSE) = write_destination(s, mode, r, v, FALSE)
    BY <1>1, Zenon DEF write_destination
<1> QED
    BY <1>2, <1>3, Zenon

(***************************************************************************)
(* Arithmetic and logic                                                    *)
(***************************************************************************)

(* What the ALU of the CPU makes of the operands. *)
Status(b) == read_register(E3(b), 14)
Alu(b) == AluRes(Opcode(Instr(b)), Src(b), Dst(b), Bit(Status(b), 2), Bit(Status(b), 1))
Flagged(b) == write_register(E3(b), 14, FlagsOf(Opcode(Instr(b)), Src(b), Dst(b), Status(b)))
Finished(b) ==
    IF Opcode(Instr(b)) = 12 THEN Post(Flagged(b), DstMode(Instr(b)), DstReg(Instr(b)))
    ELSE write_destination(Flagged(b), DstMode(Instr(b)), DstReg(Instr(b)), Wrap(Alu(b)), TRUE)

(* A number put together from its bits is an integer. *)
LEMMA NumberInt ==
    ASSUME NEW f, \A k \in 0 .. 15 : f[k] \in Int
    PROVE  Number(f) \in Int
<1>1. /\ f[0] \in Int /\ f[1] \in Int /\ f[2] \in Int /\ f[3] \in Int
      /\ f[4] \in Int /\ f[5] \in Int /\ f[6] \in Int /\ f[7] \in Int
      /\ f[8] \in Int /\ f[9] \in Int /\ f[10] \in Int /\ f[11] \in Int
      /\ f[12] \in Int /\ f[13] \in Int /\ f[14] \in Int /\ f[15] \in Int
    OBVIOUS
<1> DEFINE low == f[0] + 2 * f[1] + 4 * f[2] + 8 * f[3] + 16 * f[4] + 32 * f[5] + 64 * f[6] + 128 * f[7]
           high == f[8] + 2 * f[9] + 4 * f[10] + 8 * f[11] + 16 * f[12] + 32 * f[13] + 64 * f[14] + 128 * f[15]
<1>2. low \in Int /\ high \in Int
    BY <1>1
<1>3. Number(f) = f[0] + 2 * f[1] + 4 * f[2] + 8 * f[3] + 16 * f[4] + 32 * f[5] + 64 * f[6] + 128 * f[7] + 256 * high
    BY Zenon DEF Number
<1> HIDE DEF high
<1>4. f[0] + 2 * f[1] + 4 * f[2] + 8 * f[3] + 16 * f[4] + 32 * f[5] + 64 * f[6] + 128 * f[7] + 256 * high \in Int
    BY <1>1, <1>2
<1> QED
    BY <1>3, <1>4

(* The logic operations yield integers. *)
LEMMA LogicInt ==
    ASSUME NEW x \in Int, NEW y \in Int
    PROVE  And(x, y) \in Int /\ Or(x, y) \in Int /\ Xor(x, y) \in Int
<1> DEFINE f == [k \in 0 .. 15 |-> Bit(x, k) * Bit(y, k)]
           g == [k \in 0 .. 15 |-> Bool(Bit(x, k) + Bit(y, k) > 0)]
           h == [k \in 0 .. 15 |-> Bool(Bit(x, k) # Bit(y, k))]
<1>1. \A k \in 0 .. 15 : Bit(x, k) \in Int /\ Bit(y, k) \in Int
    <2> SUFFICES ASSUME NEW k \in 0 .. 15 PROVE Bit(x, k) \in Int /\ Bit(y, k) \in Int
        OBVIOUS
    <2>1. k = 0 \/ k = 1 \/ k = 2 \/ k = 3 \/ k = 4 \/ k = 5 \/ k = 6 \/ k = 7 \/ k = 8 \/ k = 9 \/ k = 10
          \/ k = 11 \/ k = 12 \/ k = 13 \/ k = 14 \/ k = 15
        OBVIOUS
    <2> QED
        BY <2>1, BitRange
<1>2. \A k \in 0 .. 15 : f[k] \in Int
    BY <1>1
<1>3. \A k \in 0 .. 15 : g[k] \in Int /\ h[k] \in Int
    BY BoolRange
<1>4. And(x, y) = Number(f) /\ Or(x, y) = Number(g) /\ Xor(x, y) = Number(h)
    BY DEF And, Or, Xor
<1> HIDE DEF f, g, h
<1> QED
    BY <1>2, <1>3, <1>4, NumberInt

(* One operator of execute() for each kind of instruction. *)
LEMMA ExecuteIs ==
    ASSUME NEW b
    PROVE  LET i == Instr(b) IN
           /\ Opcode(i) \in {0, 7, 8} => execute(b).s = ExecUnary(E0(b), i)
           /\ Opcode(i) \in {1, 2, 3, 4, 9, 10, 11} => execute(b).s = ExecBinary(E0(b), i)
           /\ Opcode(i) \in {5, 6} => execute(b).s = ExecShift(E0(b), i)
           /\ Opcode(i) = 12 => execute(b).s = ExecCmp(E0(b), i)
           /\ Opcode(i) = 15 => execute(b).s = ExecBranch(E0(b), i)
<1> DEFINE i == Instr(b)
           op == Opcode(i)
           t == E0(b)
<1>1. execute(b).s = CASE op \in {0, 7, 8} -> ExecUnary(t, i)
                       [] op \in {1, 2, 3, 4, 9, 10, 11} -> ExecBinary(t, i)
                       [] op \in {5, 6} -> ExecShift(t, i)
                       [] op = 12 -> ExecCmp(t, i)
                       [] op = 13 -> t
                       [] op = 14 -> IF Command(i) = 3 THEN ExecBank(t, 1)
                                     ELSE IF Command(i) = 4 THEN ExecBank(t, -1) ELSE t
                       [] op = 15 -> ExecBranch(t, i)
    BY DEF execute, Instr, E0
<1> HIDE DEF op, t, i
<1>2. /\ op \in {0, 7, 8} => execute(b).s = ExecUnary(t, i)
      /\ op \in {1, 2, 3, 4, 9, 10, 11} => execute(b).s = ExecBinary(t, i)
      /\ op \in {5, 6} => execute(b).s = ExecShift(t, i)
      /\ op = 12 => execute(b).s = ExecCmp(t, i)
      /\ op = 15 => execute(b).s = ExecBranch(t, i)
    BY <1>1
<1> QED
    BY <1>2 DEF op, t, i

(* The rows of the ALU. *)
LEMMA AluIs ==
    ASSUME NEW o, NEW x, NEW y, NEW c, NEW z
    PROVE  /\ o \in {0, 7, 8} => AluRes(o, x, y, c, z) = Unary(o, x)
           /\ o \in {1, 2, 3, 4, 9, 10, 11} => AluRes(o, x, y, c, z) = Binary(o, y, x, c)
           /\ o = 5 => AluRes(o, x, y, c, z) = ShiftedLeft(x, y, z)
           /\ o = 6 => AluRes(o, x, y, c, z) = ShiftedRight(x, y, c)
           /\ o = 12 => AluRes(o, x, y, c, z) = y
BY DEF AluRes, opcSHL, opcSHR, opcCMP

(* The emulator, on the operands it has read. *)
LEMMA ExecBinaryIs ==
    ASSUME NEW b
    PROVE  LET i == Instr(b)
               d == Binary(Opcode(i), Dst(b), Src(b), Bit(read_register(E3(b), SR), 2))
           IN  ExecBinary(E0(b), i) =
                   write_destination(update_status_bits(E3(b), d, Dst(b), Src(b),
                                                        IF Opcode(i) < 5 THEN {} ELSE {"C", "V"}),
                                     DstMode(i), DstReg(i), d, TRUE)
<1> DEFINE i == Instr(b)
           a == read_source_operand(E0(b), SrcMode(i), SrcReg(i), FALSE)
           y == read_source_operand(E2(b), DstMode(i), DstReg(i), TRUE)
           D(s0, s1, s) == Binary(Opcode(i), s0, s1, Bit(read_register(s, SR), 2))
           R(s0, s1, s) == write_destination(update_status_bits(s, D(s0, s1, s), s0, s1,
                                                        IF Opcode(i) < 5 THEN {} ELSE {"C", "V"}),
                                             DstMode(i), DstReg(i), D(s0, s1, s), TRUE)
<1>1. a.s = E2(b) /\ a.v = Src(b)
    BY SourceIs DEF E1, E2, Src
<1>2. y.s = E3(b) /\ y.v = Dst(b)
    BY SourceIs DEF E3, Dst
<1> DEFINE z == read_source_operand(a.s, DstMode(i), DstReg(i), TRUE)
<1>3. ExecBinary(E0(b), i) = R(z.v, a.v, z.s)
    BY Zenon DEF ExecBinary
<1> HIDE DEF a, R
<1>4. z = y
    BY <1>1
<1> HIDE DEF y, z
<1>5. ExecBinary(E0(b), i) = R(Dst(b), Src(b), E3(b))
    BY <1>1, <1>2, <1>3, <1>4
<1> QED
    BY <1>5, Zenon DEF R

(* ADD to SUBC and AND to XOR end alike on both. *)
LEMMA BinaryFinishes ==
    ASSUME NEW b, Machine(b), ~ Differ(Instr(b)), Opcode(Instr(b)) \in {1, 2, 3, 4, 9, 10, 11}
    PROVE  Near(Finished(b), execute(b).s)
<1> DEFINE i == Instr(b)
           op == Opcode(i)
           e == E3(b)
           r == DstReg(i)
           m == DstMode(i)
           sr == Status(b)
           in1 == Src(b)
           in2 == Dst(b)
           d == Binary(op, in2, in1, Bit(sr, 2))
           keep == IF op < 5 THEN {} ELSE {"C", "V"}
           X == Bool(Wrap(d) = 65535)
           C == IF op < 5 THEN Bit(d, 16) ELSE Bit(sr, 2)
           Z == Bool(Wrap(d) = 0)
           N == Bit(d, 15)
           V == IF op < 5 THEN Bool(Bit(in2, 15) = Bit(in1, 15) /\ Bit(d, 15) # Bit(in2, 15)) ELSE Bit(sr, 5)
           u == update_status_bits(e, d, in2, in1, keep)
<1>1. /\ Machine(e) /\ in1 \in Word /\ in2 \in Word /\ Reg(r) /\ i \in Word
      /\ sr \in Word
    BY Operands, InstrFields, ReadWord, StatusReg DEF Status
<1>2. m # 0 => r # 14
    BY <1>1, Compared
<1>3. execute(b).s = write_destination(u, m, r, d, TRUE)
    BY ExecuteIs, ExecBinaryIs, Zenon DEF Status, SR
<1>4. Alu(b) = d /\ d \in Int
    <2>1. Alu(b) = d
        BY AluIs DEF Alu
    <2>2. Bit(sr, 2) \in 0 .. 1 /\ sr \in Int /\ in1 \in Int /\ in2 \in Int
        BY <1>1, WordInt, BitRange
    <2>3. And(in2, in1) \in Int /\ Or(in2, in1) \in Int /\ Xor(in2, in1) \in Int
        BY <2>2, LogicInt
    <2> HIDE DEF in1, in2, sr
    <2>4. d \in Int
        BY <2>2, <2>3 DEF Binary
    <2> QED
        BY <2>1, <2>4
<1> HIDE DEF d
<1>5. IsBit(X) /\ IsBit(C) /\ IsBit(Z) /\ IsBit(N) /\ IsBit(V)
    <2>1. Bit(d, 15) \in 0 .. 1 /\ Bit(d, 16) \in 0 .. 1 /\ Bit(sr, 2) \in 0 .. 1 /\ Bit(sr, 5) \in 0 .. 1
        BY <1>1, <1>4, WordInt, BitRange
    <2> QED
        BY <2>1, BoolRange DEF IsBit
<1>6. u = write_register(e, 14, EmuStatus(sr, X, C, Z, N, V))
    <2>1. /\ "X" \notin keep
          /\ op < 5 => "C" \notin keep /\ "V" \notin keep
          /\ ~ (op < 5) => "C" \in keep /\ "V" \in keep
        OBVIOUS
    <2> HIDE DEF keep, op, in1, in2
    <2> QED
        BY <2>1, UpdateIs DEF Status
<1>7. Flagged(b) = write_register(e, 14, HwStatus(sr, X, C, Z, N, V))
    <2>1. op < 5 <=> op \in 1 .. 4
        BY <1>1, InstrFields
    <2>2. AluRes(op, in1, in2, Bit(sr, 2), Bit(sr, 1)) = d
        BY <1>4 DEF Alu
    <2>3. op \notin {5, 6, 12}
        OBVIOUS
    <2>4. AluV(op, in1, in2, d) = Bool(Bit(in2, 15) = Bit(in1, 15) /\ Bit(d, 15) # Bit(in2, 15))
        <3>1. (Bit(in1, 15) = Bit(in2, 15) /\ Bit(d, 15) # Bit(in1, 15))
              <=> (Bit(in2, 15) = Bit(in1, 15) /\ Bit(d, 15) # Bit(in2, 15))
            OBVIOUS
        <3> HIDE DEF op, in1, in2
        <3> QED
            BY <2>3, <3>1 DEF AluV, opcCMP, Bool
    <2> HIDE DEF op, in1, in2, sr
    <2>5. FlagsOf(op, in1, in2, sr) = HwStatus(sr, X, C, Z, N, V)
        BY <2>1, <2>2, <2>3, <2>4 DEF FlagsOf, HwStatus, opcSHL, opcSHR, opcCMP
    <2> QED
        BY <2>5 DEF Flagged, op, in1, in2, sr
<1> HIDE DEF u, X, C, Z, N, V
<1>8. Near(Flagged(b), u) /\ Machine(Flagged(b)) /\ Machine(u)
    BY <1>1, <1>5, <1>6, <1>7, StatusNear DEF Status
<1>9. Finished(b) = write_destination(Flagged(b), m, r, d, TRUE)
    <2>1. Opcode(Instr(b)) # 12
        OBVIOUS
    <2>2. Finished(b) = write_destination(Flagged(b), m, r, Wrap(d), TRUE)
        BY <1>4, <2>1 DEF Finished
    <2>3. write_destination(Flagged(b), m, r, Wrap(d), TRUE) = write_destination(Flagged(b), m, r, d, TRUE)
        <3>1. d \in Int
            BY <1>4
        <3> HIDE DEF i, m, r
        <3> QED
            BY <3>1, DestinationWrapped, ZenonT(60)
    <2> QED
        BY <2>2, <2>3, Zenon
<1> QED
    BY <1>1, <1>2, <1>3, <1>4, <1>8, <1>9, DestinationNear

(***************************************************************************)
(* MOVE, SWAP, NOT                                                         *)
(***************************************************************************)

(* The pre-decrement may come first. *)
LEMMA DestinationDown ==
    ASSUME NEW s, NEW r, NEW mode, NEW v
    PROVE  write_destination(s, mode, r, v, FALSE) = write_destination(Pre(s, mode, r), mode, r, v, TRUE)
<1>1. CASE mode = 3
    BY <1>1, Zenon DEF write_destination, Pre
<1>2. CASE mode # 3
    BY <1>2, Zenon DEF write_destination, Pre
<1> QED
    BY <1>1, <1>2

(* Equal states are near. *)
LEMMA EqualNear ==
    ASSUME NEW s, NEW t, Machine(s), Machine(t), Equal(s, t)
    PROVE  Near(s, t)
BY EqualAlike, AlikeNear

(* The flags are written before or after the pre-decrement. *)
LEMMA StatusDown ==
    ASSUME NEW s, Machine(s), NEW r, Reg(r), NEW mode, mode # 0 => r # 14,
           NEW x, NEW c, NEW z, NEW n, NEW v,
           IsBit(x), IsBit(c), IsBit(z), IsBit(n), IsBit(v)
    PROVE  LET sr == read_register(s, 14)
               a == EmuStatus(sr, x, c, z, n, v)
               h == HwStatus(sr, x, c, z, n, v)
           IN  /\ Near(write_register(Pre(s, mode, r), 14, h), Pre(write_register(s, 14, a), mode, r))
               /\ Machine(write_register(Pre(s, mode, r), 14, h))
               /\ Machine(Pre(write_register(s, 14, a), mode, r))
               /\ read_register(Pre(s, mode, r), 14) = sr
<1> DEFINE sr == read_register(s, 14)
           a == EmuStatus(sr, x, c, z, n, v)
           h == HwStatus(sr, x, c, z, n, v)
           w == read_register(s, r)
           t == Add(s, r, -1)
<1>1. sr \in Word /\ w \in Word
    BY ReadWord, StatusReg
<1>2. a \in Word /\ h \in Word /\ SetBit(a, 0, 1) = a /\ a \div 256 = sr \div 256
    BY <1>1, StatusAgree
<1>3. RegCell(s, 14) \div 256 = sr \div 256
    BY MachineStatus, SetBit0, ReadStatus
<1>4. w - 1 \in Int /\ a \in Int /\ Wrap(a) = a
    BY <1>1, <1>2, WordInt, WrapId
<1> HIDE DEF a, h, w
<1>5. CASE mode # 3
    <2>1. Near(write_register(s, 14, h), write_register(s, 14, a)) /\ Machine(write_register(s, 14, h))
          /\ Machine(write_register(s, 14, a))
        BY StatusNear DEF a, h
    <2>2. Pre(s, mode, r) = s /\ Pre(write_register(s, 14, a), mode, r) = write_register(s, 14, a)
        BY <1>5 DEF Pre
    <2> QED
        BY <2>1, <2>2 DEF a, h
<1>6. CASE mode = 3
    <2>1. r # 14
        BY <1>6
    <2>2. Machine(t) /\ read_register(t, 14) = sr
        <3>1. \A q : Reg(q) => read_register(Add(s, r, -1), q) =
                                   IF q = r THEN Wrap(read_register(s, r) + (-1)) ELSE read_register(s, q)
            BY <2>1, ReadAfterAdd
        <3>2. read_register(t, 14) = sr
            BY <2>1, <3>1, StatusReg
        <3> QED
            BY <2>1, <3>2, AddMachine
    <2>3. /\ Near(write_register(t, 14, h), write_register(t, 14, a))
          /\ Machine(write_register(t, 14, h)) /\ Machine(write_register(t, 14, a))
        BY <2>2, StatusNear DEF a, h
    <2>4. t = write_register(s, r, w - 1)
        BY DEF Add, w
    <2>5. read_register(write_register(s, 14, a), r) = w
        BY <1>2, <1>3, <1>4, <2>1, ReadAfterStatus DEF w
    <2>6. Add(write_register(s, 14, a), r, -1) = write_register(write_register(s, 14, a), r, w - 1)
        <3>1. w + (-1) = w - 1
            BY <1>1, WordInt
        <3> HIDE DEF a, w
        <3> QED
            BY <2>5, <3>1 DEF Add
    <2>7. Machine(write_register(s, 14, a))
        BY <1>4, WriteMachine
    <2>8. Machine(write_register(write_register(s, 14, a), r, w - 1))
        BY <1>4, <2>7, WriteMachine
    <2>9. Equal(write_register(write_register(s, r, w - 1), 14, a), write_register(write_register(s, 14, a), r, w - 1))
        BY <1>2, <1>3, <1>4, <2>1, StatusCommutes
    <2>10. Near(write_register(t, 14, a), write_register(write_register(s, 14, a), r, w - 1))
        BY <2>3, <2>4, <2>8, <2>9, EqualNear
    <2>11. Near(write_register(t, 14, h), write_register(write_register(s, 14, a), r, w - 1))
        BY <2>3, <2>10, NearTrans
    <2>12. Pre(s, mode, r) = t
           /\ Pre(write_register(s, 14, a), mode, r) = write_register(write_register(s, 14, a), r, w - 1)
        BY <1>6, <2>6 DEF Pre
    <2> HIDE DEF t
    <2> QED
        BY <2>2, <2>3, <2>8, <2>11, <2>12 DEF a, h
<1> QED
    BY <1>5, <1>6

(* The emulator, on the operand it has read. *)
LEMMA ExecUnaryIs ==
    ASSUME NEW b
    PROVE  LET i == Instr(b)
               d == Unary(Opcode(i), Src(b))
           IN  ExecUnary(E0(b), i) =
                   write_destination(update_status_bits(E2(b), d, Src(b), Src(b), {"C", "V"}),
                                     DstMode(i), DstReg(i), d, FALSE)
<1> DEFINE i == Instr(b)
           a == read_source_operand(E0(b), SrcMode(i), SrcReg(i), FALSE)
           D(s1) == Unary(Opcode(i), s1)
           R(s1, s) == write_destination(update_status_bits(s, D(s1), s1, s1, {"C", "V"}),
                                             DstMode(i), DstReg(i), D(s1), FALSE)
<1>1. a.s = E2(b) /\ a.v = Src(b)
    BY SourceIs DEF E1, E2, Src
<1>3. ExecUnary(E0(b), i) = R(a.v, a.s)
    BY Zenon DEF ExecUnary
<1> HIDE DEF a, R
<1>5. ExecUnary(E0(b), i) = R(Src(b), E2(b))
    BY <1>1, <1>3
<1> QED
    BY <1>5, Zenon DEF R

(* MOVE, SWAP and NOT yield integers. *)
LEMMA UnaryInt ==
    ASSUME NEW x \in Word, NEW o \in {0, 7, 8}
    PROVE  Unary(o, x) \in Int
<1>1. x \in Int
    BY WordInt
<1>2. CASE o = 0
    BY <1>1, <1>2 DEF Unary
<1>3. CASE o = 7
    <2>1. x \div 256 \in Int /\ x % 256 \in Int
        BY <1>1
    <2>2. Unary(o, x) = (x \div 256) + 256 * (x % 256)
        BY <1>3 DEF Unary
    <2> QED
        BY <2>1, <2>2
<1>4. CASE o = 8
    BY <1>1, <1>4 DEF Unary
<1> QED
    BY <1>2, <1>3, <1>4

(* MOVE, SWAP and NOT end alike on both. *)
LEMMA UnaryFinishes ==
    ASSUME NEW b, Machine(b), ~ Differ(Instr(b)), Opcode(Instr(b)) \in {0, 7, 8}
    PROVE  Near(Finished(b), execute(b).s)
<1> DEFINE i == Instr(b)
           op == Opcode(i)
           e == E2(b)
           r == DstReg(i)
           m == DstMode(i)
           sr == read_register(E2(b), 14)
           in1 == Src(b)
           d == Unary(op, in1)
           keep == {"C", "V"}
           X == Bool(Wrap(d) = 65535)
           C == Bit(sr, 2)
           Z == Bool(Wrap(d) = 0)
           N == Bit(d, 15)
           V == Bit(sr, 5)
           a == EmuStatus(sr, X, C, Z, N, V)
           h == HwStatus(sr, X, C, Z, N, V)
           u == write_register(e, 14, a)
<1>1. /\ Machine(e) /\ in1 \in Word /\ Reg(r) /\ i \in Word
      /\ sr \in Word
    BY Operands, InstrFields, ReadWord, StatusReg
<1>2. m # 0 => r # 14
    BY <1>1, Compared
<1>3. execute(b).s = write_destination(update_status_bits(e, d, in1, in1, keep), m, r, d, FALSE)
    BY ExecuteIs, ExecUnaryIs, Zenon
<1>4. Alu(b) = d /\ d \in Int
    <2>1. Alu(b) = d
        BY AluIs DEF Alu
    <2> QED
        BY <1>1, <2>1, UnaryInt
<1> HIDE DEF d
<1>5. IsBit(X) /\ IsBit(C) /\ IsBit(Z) /\ IsBit(N) /\ IsBit(V)
    <2>1. Bit(d, 15) \in 0 .. 1 /\ Bit(sr, 2) \in 0 .. 1 /\ Bit(sr, 5) \in 0 .. 1
        BY <1>1, <1>4, WordInt, BitRange
    <2> QED
        BY <2>1, BoolRange DEF IsBit
<1>6. update_status_bits(e, d, in1, in1, keep) = u
    <2>1. "X" \notin keep /\ "C" \in keep /\ "V" \in keep
        OBVIOUS
    <2> HIDE DEF keep, op, in1
    <2> QED
        BY <2>1, UpdateIs
<1> HIDE DEF X, Z, N
<1>7. /\ Near(write_register(Pre(e, m, r), 14, h), Pre(u, m, r))
      /\ Machine(write_register(Pre(e, m, r), 14, h)) /\ Machine(Pre(u, m, r))
      /\ read_register(Pre(e, m, r), 14) = sr
    BY <1>1, <1>2, <1>5, StatusDown
<1>8. Status(b) = sr /\ E3(b) = Pre(e, m, r)
    BY <1>7 DEF Status, E3
<1>9. Flagged(b) = write_register(E3(b), 14, h)
    <2>2. AluRes(op, in1, Dst(b), Bit(sr, 2), Bit(sr, 1)) = d
        BY <1>4, <1>8 DEF Alu
    <2>3. op \notin {5, 6, 12} /\ op \notin 1 .. 4
        OBVIOUS
    <2> HIDE DEF op, in1, sr, h
    <2>5. FlagsOf(op, in1, Dst(b), sr) = h
        BY <2>2, <2>3 DEF FlagsOf, HwStatus, h, opcSHL, opcSHR, opcCMP, X, Z, N
    <2> QED
        BY <1>8, <2>5 DEF Flagged, op, in1
<1> HIDE DEF u
<1>10. Near(Flagged(b), Pre(u, m, r)) /\ Machine(Flagged(b))
    BY <1>7, <1>8, <1>9
<1>11. Finished(b) = write_destination(Flagged(b), m, r, d, TRUE)
    <2>1. Opcode(Instr(b)) # 12
        OBVIOUS
    <2>2. Finished(b) = write_destination(Flagged(b), m, r, Wrap(d), TRUE)
        BY <1>4, <2>1 DEF Finished
    <2>3. write_destination(Flagged(b), m, r, Wrap(d), TRUE) = write_destination(Flagged(b), m, r, d, TRUE)
        <3>1. d \in Int
            BY <1>4
        <3> HIDE DEF i, m, r
        <3> QED
            BY <3>1, DestinationWrapped, ZenonT(60)
    <2> QED
        BY <2>2, <2>3, Zenon
<1>12. execute(b).s = write_destination(Pre(u, m, r), m, r, d, TRUE)
    BY <1>3, <1>6, DestinationDown, Zenon
<1> QED
    BY <1>1, <1>2, <1>4, <1>7, <1>10, <1>11, <1>12, DestinationNear

(***************************************************************************)
(* CMP                                                                     *)
(***************************************************************************)

(* One flag of the status register is set. *)
LEMMA SetFlag ==
    ASSUME NEW q, NEW m, NEW v, NEW n, NEW z, NEW c, NEW x, NEW one, IsStatus(q, m, v, n, z, c, x, one),
           NEW sr, sr = StatusWord(q, m, v, n, z, c, x, one), NEW y, IsBit(y)
    PROVE  /\ SetBit(sr, 1, y) = StatusWord(q, m, v, n, z, c, y, one)
           /\ SetBit(sr, 2, y) = StatusWord(q, m, v, n, z, y, x, one)
           /\ SetBit(sr, 3, y) = StatusWord(q, m, v, n, y, c, x, one)
           /\ SetBit(sr, 4, y) = StatusWord(q, m, v, y, z, c, x, one)
           /\ SetBit(sr, 5, y) = StatusWord(q, m, y, n, z, c, x, one)
           /\ IsStatus(q, m, v, n, z, c, y, one) /\ IsStatus(q, m, v, n, z, y, x, one)
           /\ IsStatus(q, m, v, n, y, c, x, one) /\ IsStatus(q, m, v, y, z, c, x, one)
           /\ IsStatus(q, m, y, n, z, c, x, one)
<1>1. /\ Bit(sr, 5) = v /\ Bit(sr, 4) = n /\ Bit(sr, 3) = z /\ Bit(sr, 2) = c /\ Bit(sr, 1) = x
    BY Apart
<1>2. SetBit(sr, 1, y) = sr + (y - x) * 2 /\ SetBit(sr, 2, y) = sr + (y - c) * 4
      /\ SetBit(sr, 3, y) = sr + (y - z) * 8 /\ SetBit(sr, 4, y) = sr + (y - n) * 16
      /\ SetBit(sr, 5, y) = sr + (y - v) * 32
    BY <1>1, Powers DEF SetBit
<1> QED
    BY <1>2 DEF StatusWord, IsStatus, IsBit

(* Three flags, set one after the other. *)
LEMMA CmpFlags ==
    ASSUME NEW sr \in Word, NEW z, NEW n, NEW v, IsBit(z), IsBit(n), IsBit(v)
    PROVE  LET g == SetBit(SetBit(SetBit(sr, 3, z), 4, n), 5, v) IN
           /\ g \in Word /\ g \div 256 = sr \div 256
           /\ Used(14, g) = HwStatus(sr, Bit(sr, 1), Bit(sr, 2), z, n, v)
<1>1. PICK q, m, b5, b4, b3, b2, b1, b0 :
           IsStatus(q, m, b5, b4, b3, b2, b1, b0) /\ sr = StatusWord(q, m, b5, b4, b3, b2, b1, b0)
    BY TakeApart
<1> DEFINE g3 == SetBit(sr, 3, z)
           g4 == SetBit(g3, 4, n)
           g == SetBit(g4, 5, v)
<1>2. g3 = StatusWord(q, m, b5, b4, z, b2, b1, b0) /\ IsStatus(q, m, b5, b4, z, b2, b1, b0)
    BY <1>1, SetFlag
<1> HIDE DEF g3
<1>3. g4 = StatusWord(q, m, b5, n, z, b2, b1, b0) /\ IsStatus(q, m, b5, n, z, b2, b1, b0)
    BY <1>2, SetFlag
<1> HIDE DEF g4
<1>4. g = StatusWord(q, m, v, n, z, b2, b1, b0) /\ IsStatus(q, m, v, n, z, b2, b1, b0)
    BY <1>3, SetFlag
<1>5. sr \div 256 = q /\ Bit(sr, 1) = b1 /\ Bit(sr, 2) = b2
    BY <1>1, Apart
<1> HIDE DEF g
<1>6. g \in Word /\ g \div 256 = q /\ Used(14, g) = StatusWord(q, 0, v, n, z, b2, b1, 1)
    BY <1>4, Apart
<1>7. HwStatus(sr, b1, b2, z, n, v) = StatusWord(q, 0, v, n, z, b2, b1, 1)
    BY <1>1, <1>4, <1>5 DEF HwStatus, StatusWord, IsStatus
<1> QED
    BY <1>5, <1>6, <1>7 DEF g, g4, g3

(* Two values of the status register that only differ in unused bits. *)
LEMMA TwoStatus ==
    ASSUME NEW s, Machine(s), NEW g \in Word, NEW h \in Word, Used(14, g) = Used(14, h)
    PROVE  /\ Near(write_register(s, 14, h), write_register(s, 14, g))
           /\ Machine(write_register(s, 14, h)) /\ Machine(write_register(s, 14, g))
<1> DEFINE t == write_register(s, 14, h)
           u == write_register(s, 14, g)
<1>1. Wrap(g) = g /\ Wrap(h) = h /\ g \in Int /\ h \in Int
    BY WrapId, WordInt
<1>2. Machine(t) /\ Machine(u)
    BY <1>1, WriteMachine
<1>3. Index(s, 14) = 14
    BY DEF Index
<1>4. /\ \A k : RegCell(u, k) = IF k = 14 THEN SetBit(g, 0, 1) ELSE RegCell(s, k)
      /\ \A k : RegCell(t, k) = IF k = 14 THEN SetBit(h, 0, 1) ELSE RegCell(s, k)
      /\ \A k : MemCell(u, k) = MemCell(s, k) /\ MemCell(t, k) = MemCell(s, k)
    BY <1>1, <1>3, WriteCells DEF Machine, Written
<1>5. Used(14, SetBit(g, 0, 1)) = Used(14, SetBit(h, 0, 1))
    BY SetBit0
<1> HIDE DEF t, u
<1>6. Near(t, u)
    BY <1>4, <1>5 DEF Near, Same
<1> QED
    BY <1>2, <1>6 DEF t, u

(* The flags are written before or after the post-increment. *)
LEMMA StatusUp ==
    ASSUME NEW s, Machine(s), NEW r, Reg(r), NEW mode, mode # 0 => r # 14,
           NEW g \in Word, NEW h \in Word, Used(14, g) = Used(14, h),
           g \div 256 = RegCell(s, 14) \div 256
    PROVE  /\ Near(Post(write_register(s, 14, h), mode, r), write_register(Post(s, mode, r), 14, g))
           /\ Machine(Post(write_register(s, 14, h), mode, r))
           /\ Machine(write_register(Post(s, mode, r), 14, g))
<1> DEFINE t == write_register(s, 14, h)
           u == write_register(s, 14, g)
           w == read_register(s, r)
<1>1. Near(t, u) /\ Machine(t) /\ Machine(u)
    BY TwoStatus
<1>2. CASE mode # 2
    BY <1>1, <1>2 DEF Post
<1>3. CASE mode = 2
    <2>1. r # 14
        BY <1>3
    <2>2. Wrap(g) = g /\ g \in Int /\ SetBit(g, 0, 1) \div 256 = g \div 256
        BY WrapId, WordInt, SetBit0
    <2>3. w \in Word /\ w + 1 \in Int
        BY ReadWord, WordInt
    <2>4. read_register(u, r) = w
        BY <2>1, <2>2, ReadAfterStatus
    <2>5. read_register(t, r) = w
        BY <1>1, <2>1, <2>4, NearRead
    <2> HIDE DEF t, u, w
    <2>6. Near(write_register(t, r, w + 1), write_register(u, r, w + 1))
          /\ Machine(write_register(t, r, w + 1)) /\ Machine(write_register(u, r, w + 1))
        BY <1>1, <2>3, NearWrite, WriteMachine
    <2>7. Machine(write_register(s, r, w + 1))
        BY <2>3, WriteMachine
    <2>8. Machine(write_register(write_register(s, r, w + 1), 14, g))
        BY <2>2, <2>7, WriteMachine
    <2>9. Equal(write_register(write_register(s, r, w + 1), 14, g), write_register(u, r, w + 1))
        BY <2>1, <2>2, <2>3, StatusCommutes DEF u
    <2>10. Near(write_register(u, r, w + 1), write_register(write_register(s, r, w + 1), 14, g))
        <3>1. Equal(write_register(u, r, w + 1), write_register(write_register(s, r, w + 1), 14, g))
            BY <2>9 DEF Equal
        <3> QED
            BY <2>6, <2>8, <3>1, EqualNear
    <2>11. Near(write_register(t, r, w + 1), write_register(write_register(s, r, w + 1), 14, g))
        BY <2>6, <2>10, NearTrans
    <2>12. Post(t, mode, r) = write_register(t, r, w + 1) /\ Post(s, mode, r) = write_register(s, r, w + 1)
        BY <1>3, <2>5 DEF Post, Add, w
    <2> QED
        BY <2>6, <2>8, <2>11, <2>12 DEF t
<1> QED
    BY <1>2, <1>3

(* The emulator, on the operands it has read. *)
LEMMA ExecCmpIs ==
    ASSUME NEW b
    PROVE  LET i == Instr(b)
               p == Post(E3(b), DstMode(i), DstReg(i))
           IN  ExecCmp(E0(b), i) =
                   write_register(p, 14,
                       SetBit(SetBit(SetBit(read_register(p, 14), 3, Bool(Src(b) = Dst(b))),
                                     4, Bool(Src(b) > Dst(b))),
                              5, Bool(Signed(Src(b)) > Signed(Dst(b)))))
<1> DEFINE i == Instr(b)
           p == Post(E3(b), DstMode(i), DstReg(i))
           a == read_source_operand(E0(b), SrcMode(i), SrcReg(i), FALSE)
           y == read_source_operand(E2(b), DstMode(i), DstReg(i), FALSE)
           R(s0, s1, s) == write_register(s, 14,
                              SetBit(SetBit(SetBit(read_register(s, 14), 3, Bool(s1 = s0)), 4, Bool(s1 > s0)),
                                     5, Bool(Signed(s1) > Signed(s0))))
<1>1. a.s = E2(b) /\ a.v = Src(b)
    BY SourceIs DEF E1, E2, Src
<1>2. y.s = p /\ y.v = Dst(b)
    BY SourceIs DEF E3, Dst
<1> DEFINE z == read_source_operand(a.s, DstMode(i), DstReg(i), FALSE)
<1>3. ExecCmp(E0(b), i) = R(z.v, a.v, z.s)
    BY Zenon DEF ExecCmp, SR
<1> HIDE DEF a, R
<1>4. z = y
    BY <1>1
<1> HIDE DEF y, z, p
<1>5. ExecCmp(E0(b), i) = R(Dst(b), Src(b), p)
    BY <1>1, <1>2, <1>3, <1>4
<1> QED
    BY <1>5, Zenon DEF R, p

(* The post-increment leaves the status register alone. *)
LEMMA PostStatus ==
    ASSUME NEW s, Machine(s), NEW r, Reg(r), NEW mode, mode # 0 => r # 14
    PROVE  read_register(Post(s, mode, r), 14) = read_register(s, 14)
<1>1. CASE mode # 2
    BY <1>1 DEF Post
<1>2. CASE mode = 2
    <2>1. \A k : Reg(k) => read_register(Add(s, r, 1), k) =
                               IF k = r THEN Wrap(read_register(s, r) + 1) ELSE read_register(s, k)
        BY <1>2, ReadAfterAdd
    <2> QED
        BY <1>2, <2>1, StatusReg DEF Post
<1> QED
    BY <1>1, <1>2

(* CMP ends alike on both. *)
LEMMA CmpFinishes ==
    ASSUME NEW b, Machine(b), ~ Differ(Instr(b)), Opcode(Instr(b)) = 12
    PROVE  Near(Finished(b), execute(b).s)
<1> DEFINE i == Instr(b)
           e == E3(b)
           r == DstReg(i)
           m == DstMode(i)
           sr == Status(b)
           z == Bool(Src(b) = Dst(b))
           n == Bool(Src(b) > Dst(b))
           v == Bool(Signed(Src(b)) > Signed(Dst(b)))
           g == SetBit(SetBit(SetBit(sr, 3, z), 4, n), 5, v)
           h == HwStatus(sr, Bit(sr, 1), Bit(sr, 2), z, n, v)
<1>1. /\ Machine(e) /\ Src(b) \in Word /\ Dst(b) \in Word /\ Reg(r) /\ i \in Word /\ sr \in Word
    BY Operands, InstrFields, ReadWord, StatusReg DEF Status
<1>2. m # 0 => r # 14
    BY <1>1, Compared
<1>3. execute(b).s = write_register(Post(e, m, r), 14, g)
    <2>1. read_register(Post(e, m, r), 14) = sr
        BY <1>1, <1>2, PostStatus DEF Status
    <2> QED
        BY <2>1, ExecuteIs, ExecCmpIs, Zenon
<1>4. IsBit(z) /\ IsBit(n) /\ IsBit(v) /\ IsBit(Bit(sr, 1)) /\ IsBit(Bit(sr, 2))
    BY <1>1, BoolRange, BitRange, WordInt DEF IsBit
<1>5. FlagsOf(12, Src(b), Dst(b), sr) = h
    BY DEF FlagsOf, AluV, HwStatus, opcSHL, opcSHR, opcCMP
<1> HIDE DEF z, n, v
<1>6. g \in Word /\ g \div 256 = sr \div 256 /\ Used(14, g) = h
    BY <1>1, <1>4, CmpFlags
<1>7. h \in Word /\ Used(14, h) = h
    BY <1>1, <1>4, StatusAgree
<1>8. RegCell(e, 14) \div 256 = sr \div 256
    BY <1>1, MachineStatus, SetBit0, ReadStatus DEF Status
<1>9. Flagged(b) = write_register(e, 14, h)
    BY <1>5 DEF Flagged
<1>10. Finished(b) = Post(write_register(e, 14, h), m, r)
    BY <1>9 DEF Finished
<1> HIDE DEF g, h
<1>11. Near(Post(write_register(e, 14, h), m, r), write_register(Post(e, m, r), 14, g))
    BY <1>1, <1>2, <1>6, <1>7, <1>8, StatusUp
<1> QED
    BY <1>3, <1>10, <1>11

(***************************************************************************)
(* Shifts.  The emulator shifts in a loop, bit by bit, and the CPU looks up*)
(* a table.  The loop runs 17 rounds at most, which are gone through one by*)
(* one.                                                                    *)
(***************************************************************************)

(* The rows of the tables of alu_shifter.vhd, by their power of two. *)
LeftRow(p, d, x) == Wrap(d * p) + x * (p - 1)
RightRow(p, q, d, x) == d \div p + x * (65536 - q)

(* The tables consist of these rows. *)
LEMMA Rows ==
    ASSUME NEW d, NEW x
    PROVE  /\ \A n \in 0 .. 15 : ShiftedLeft(n, d, x) = LeftRow(2^n, d, x)
           /\ \A n \in 0 .. 15 : ShiftedRight(n, d, x) = RightRow(2^n, 2^(16 - n), d, x)
           /\ \A n \in {16, 17} : ShiftedLeft(n, d, x) = 65535 * x /\ ShiftedRight(n, d, x) = 65535 * x
BY DEF ShiftedLeft, LeftRow, ShiftedRight, RightRow

(* The first row is the operand. *)
LEMMA NoShift ==
    ASSUME NEW d \in Int, 0 <= d, d < 65536, NEW x \in Int, x = 0 \/ x = 1
    PROVE  ShiftedLeft(0, d, x) = d /\ ShiftedRight(0, d, x) = d
<1>1. ShiftedLeft(0, d, x) = LeftRow(1, d, x) /\ ShiftedRight(0, d, x) = RightRow(1, 65536, d, x)
    BY Rows, 2^0 = 1, 2^16 = 65536
<1>2. LeftRow(1, d, x) = d
    BY DEF LeftRow, Wrap
<1>3. RightRow(1, 65536, d, x) = d
    BY DEF RightRow
<1> QED
    BY <1>1, <1>2, <1>3

(* One round of the loop goes from one row to the next, and shifts out the  *)
(* bit that the other table names.                                          *)
Round == 1 .. 17

(* To the left, *)
LEMMA LeftRounds ==
    ASSUME NEW d \in Int, 0 <= d, d < 65536, NEW x \in Int, x = 0 \/ x = 1
    PROVE  \A k \in Round :
              /\ ShiftedLeft(k, d, x) = Wrap(2 * ShiftedLeft(k - 1, d, x) + x)
              /\ Bit(ShiftedLeft(k - 1, d, x), 15) = IF k = 17 THEN x ELSE Bit(d, 16 - k)
<1>1. /\ ShiftedLeft(1, d, x) = Wrap(2 * ShiftedLeft(0, d, x) + x)
      /\ Bit(ShiftedLeft(0, d, x), 15) = Bit(d, 15)
    <2>1. LeftRow(2, d, x) = Wrap(2 * LeftRow(1, d, x) + x) /\ Bit(LeftRow(1, d, x), 15) = Bit(d, 15)
        BY 2^15 = 32768 DEF LeftRow, Wrap, Bit
    <2>2. ShiftedLeft(1, d, x) = LeftRow(2, d, x) /\ ShiftedLeft(0, d, x) = LeftRow(1, d, x)
        BY Rows, 2^0 = 1, 2^1 = 2
    <2> QED
        BY <2>1, <2>2
<1>2. /\ ShiftedLeft(2, d, x) = Wrap(2 * ShiftedLeft(1, d, x) + x)
      /\ Bit(ShiftedLeft(1, d, x), 15) = Bit(d, 14)
    <2>1. LeftRow(4, d, x) = Wrap(2 * LeftRow(2, d, x) + x) /\ Bit(LeftRow(2, d, x), 15) = Bit(d, 14)
        BY 2^15 = 32768, 2^14 = 16384 DEF LeftRow, Wrap, Bit
    <2>2. ShiftedLeft(2, d, x) = LeftRow(4, d, x) /\ ShiftedLeft(1, d, x) = LeftRow(2, d, x)
        BY Rows, 2^1 = 2, 2^2 = 4
    <2> QED
        BY <2>1, <2>2
<1>3. /\ ShiftedLeft(3, d, x) = Wrap(2 * ShiftedLeft(2, d, x) + x)
      /\ Bit(ShiftedLeft(2, d, x), 15) = Bit(d, 13)
    <2>1. LeftRow(8, d, x) = Wrap(2 * LeftRow(4, d, x) + x) /\ Bit(LeftRow(4, d, x), 15) = Bit(d, 13)
        BY 2^15 = 32768, 2^13 = 8192 DEF LeftRow, Wrap, Bit
    <2>2. ShiftedLeft(3, d, x) = LeftRow(8, d, x) /\ ShiftedLeft(2, d, x) = LeftRow(4, d, x)
        BY Rows, 2^2 = 4, 2^3 = 8
    <2> QED
        BY <2>1, <2>2
<1>4. /\ ShiftedLeft(4, d, x) = Wrap(2 * ShiftedLeft(3, d, x) + x)
      /\ Bit(ShiftedLeft(3, d, x), 15) = Bit(d, 12)
    <2>1. LeftRow(16, d, x) = Wrap(2 * LeftRow(8, d, x) + x) /\ Bit(LeftRow(8, d, x), 15) = Bit(d, 12)
        BY 2^15 = 32768, 2^12 = 4096 DEF LeftRow, Wrap, Bit
    <2>2. ShiftedLeft(4, d, x) = LeftRow(16, d, x) /\ ShiftedLeft(3, d, x) = LeftRow(8, d, x)
        BY Rows, 2^3 = 8, 2^4 = 16
    <2> QED
        BY <2>1, <2>2
<1>5. /\ ShiftedLeft(5, d, x) = Wrap(2 * ShiftedLeft(4, d, x) + x)
      /\ Bit(ShiftedLeft(4, d, x), 15) = Bit(d, 11)
    <2>1. LeftRow(32, d, x) = Wrap(2 * LeftRow(16, d, x) + x) /\ Bit(LeftRow(16, d, x), 15) = Bit(d, 11)
        BY 2^15 = 32768, 2^11 = 2048 DEF LeftRow, Wrap, Bit
    <2>2. ShiftedLeft(5, d, x) = LeftRow(32, d, x) /\ ShiftedLeft(4, d, x) = LeftRow(16, d, x)
        BY Rows, 2^4 = 16, 2^5 = 32
    <2> QED
        BY <2>1, <2>2
<1>6. /\ ShiftedLeft(6, d, x) = Wrap(2 * ShiftedLeft(5, d, x) + x)
      /\ Bit(ShiftedLeft(5, d, x), 15) = Bit(d, 10)
    <2>1. LeftRow(64, d, x) = Wrap(2 * LeftRow(32, d, x) + x) /\ Bit(LeftRow(32, d, x), 15) = Bit(d, 10)
        BY 2^15 = 32768, 2^10 = 1024 DEF LeftRow, Wrap, Bit
    <2>2. ShiftedLeft(6, d, x) = LeftRow(64, d, x) /\ ShiftedLeft(5, d, x) = LeftRow(32, d, x)
        BY Rows, 2^5 = 32, 2^6 = 64
    <2> QED
        BY <2>1, <2>2
<1>7. /\ ShiftedLeft(7, d, x) = Wrap(2 * ShiftedLeft(6, d, x) + x)
      /\ Bit(ShiftedLeft(6, d, x), 15) = Bit(d, 9)
    <2>1. LeftRow(128, d, x) = Wrap(2 * LeftRow(64, d, x) + x) /\ Bit(LeftRow(64, d, x), 15) = Bit(d, 9)
        BY 2^15 = 32768, 2^9 = 512 DEF LeftRow, Wrap, Bit
    <2>2. ShiftedLeft(7, d, x) = LeftRow(128, d, x) /\ ShiftedLeft(6, d, x) = LeftRow(64, d, x)
        BY Rows, 2^6 = 64, 2^7 = 128
    <2> QED
        BY <2>1, <2>2
<1>8. /\ ShiftedLeft(8, d, x) = Wrap(2 * ShiftedLeft(7, d, x) + x)
      /\ Bit(ShiftedLeft(7, d, x), 15) = Bit(d, 8)
    <2>1. LeftRow(256, d, x) = Wrap(2 * LeftRow(128, d, x) + x) /\ Bit(LeftRow(128, d, x), 15) = Bit(d, 8)
        BY 2^15 = 32768, 2^8 = 256 DEF LeftRow, Wrap, Bit
    <2>2. ShiftedLeft(8, d, x) = LeftRow(256, d, x) /\ ShiftedLeft(7, d, x) = LeftRow(128, d, x)
        BY Rows, 2^7 = 128, 2^8 = 256
    <2> QED
        BY <2>1, <2>2
<1>9. /\ ShiftedLeft(9, d, x) = Wrap(2 * ShiftedLeft(8, d, x) + x)
      /\ Bit(ShiftedLeft(8, d, x), 15) = Bit(d, 7)
    <2>1. LeftRow(512, d, x) = Wrap(2 * LeftRow(256, d, x) + x) /\ Bit(LeftRow(256, d, x), 15) = Bit(d, 7)
        BY 2^15 = 32768, 2^7 = 128 DEF LeftRow, Wrap, Bit
    <2>2. ShiftedLeft(9, d, x) = LeftRow(512, d, x) /\ ShiftedLeft(8, d, x) = LeftRow(256, d, x)
        BY Rows, 2^8 = 256, 2^9 = 512
    <2> QED
        BY <2>1, <2>2
<1>10. /\ ShiftedLeft(10, d, x) = Wrap(2 * ShiftedLeft(9, d, x) + x)
      /\ Bit(ShiftedLeft(9, d, x), 15) = Bit(d, 6)
    <2>1. LeftRow(1024, d, x) = Wrap(2 * LeftRow(512, d, x) + x) /\ Bit(LeftRow(512, d, x), 15) = Bit(d, 6)
        BY 2^15 = 32768, 2^6 = 64 DEF LeftRow, Wrap, Bit
    <2>2. ShiftedLeft(10, d, x) = LeftRow(1024, d, x) /\ ShiftedLeft(9, d, x) = LeftRow(512, d, x)
        BY Rows, 2^9 = 512, 2^10 = 1024
    <2> QED
        BY <2>1, <2>2
<1>11. /\ ShiftedLeft(11, d, x) = Wrap(2 * ShiftedLeft(10, d, x) + x)
      /\ Bit(ShiftedLeft(10, d, x), 15) = Bit(d, 5)
    <2>1. LeftRow(2048, d, x) = Wrap(2 * LeftRow(1024, d, x) + x) /\ Bit(LeftRow(1024, d, x), 15) = Bit(d, 5)
        BY 2^15 = 32768, 2^5 = 32 DEF LeftRow, Wrap, Bit
    <2>2. ShiftedLeft(11, d, x) = LeftRow(2048, d, x) /\ ShiftedLeft(10, d, x) = LeftRow(1024, d, x)
        BY Rows, 2^10 = 1024, 2^11 = 2048
    <2> QED
        BY <2>1, <2>2
<1>12. /\ ShiftedLeft(12, d, x) = Wrap(2 * ShiftedLeft(11, d, x) + x)
      /\ Bit(ShiftedLeft(11, d, x), 15) = Bit(d, 4)
    <2>1. LeftRow(4096, d, x) = Wrap(2 * LeftRow(2048, d, x) + x) /\ Bit(LeftRow(2048, d, x), 15) = Bit(d, 4)
        BY 2^15 = 32768, 2^4 = 16 DEF LeftRow, Wrap, Bit
    <2>2. ShiftedLeft(12, d, x) = LeftRow(4096, d, x) /\ ShiftedLeft(11, d, x) = LeftRow(2048, d, x)
        BY Rows, 2^11 = 2048, 2^12 = 4096
    <2> QED
        BY <2>1, <2>2
<1>13. /\ ShiftedLeft(13, d, x) = Wrap(2 * ShiftedLeft(12, d, x) + x)
      /\ Bit(ShiftedLeft(12, d, x), 15) = Bit(d, 3)
    <2>1. LeftRow(8192, d, x) = Wrap(2 * LeftRow(4096, d, x) + x) /\ Bit(LeftRow(4096, d, x), 15) = Bit(d, 3)
        BY 2^15 = 32768, 2^3 = 8 DEF LeftRow, Wrap, Bit
    <2>2. ShiftedLeft(13, d, x) = LeftRow(8192, d, x) /\ ShiftedLeft(12, d, x) = LeftRow(4096, d, x)
        BY Rows, 2^12 = 4096, 2^13 = 8192
    <2> QED
        BY <2>1, <2>2
<1>14. /\ ShiftedLeft(14, d, x) = Wrap(2 * ShiftedLeft(13, d, x) + x)
      /\ Bit(ShiftedLeft(13, d, x), 15) = Bit(d, 2)
    <2>1. LeftRow(16384, d, x) = Wrap(2 * LeftRow(8192, d, x) + x) /\ Bit(LeftRow(8192, d, x), 15) = Bit(d, 2)
        BY 2^15 = 32768, 2^2 = 4 DEF LeftRow, Wrap, Bit
    <2>2. ShiftedLeft(14, d, x) = LeftRow(16384, d, x) /\ ShiftedLeft(13, d, x) = LeftRow(8192, d, x)
        BY Rows, 2^13 = 8192, 2^14 = 16384
    <2> QED
        BY <2>1, <2>2
<1>15. /\ ShiftedLeft(15, d, x) = Wrap(2 * ShiftedLeft(14, d, x) + x)
      /\ Bit(ShiftedLeft(14, d, x), 15) = Bit(d, 1)
    <2>1. LeftRow(32768, d, x) = Wrap(2 * LeftRow(16384, d, x) + x) /\ Bit(LeftRow(16384, d, x), 15) = Bit(d, 1)
        BY 2^15 = 32768, 2^1 = 2 DEF LeftRow, Wrap, Bit
    <2>2. ShiftedLeft(15, d, x) = LeftRow(32768, d, x) /\ ShiftedLeft(14, d, x) = LeftRow(16384, d, x)
        BY Rows, 2^14 = 16384, 2^15 = 32768
    <2> QED
        BY <2>1, <2>2
<1>16. /\ ShiftedLeft(16, d, x) = Wrap(2 * ShiftedLeft(15, d, x) + x)
      /\ Bit(ShiftedLeft(15, d, x), 15) = Bit(d, 0)
    <2>1. 65535 * x = Wrap(2 * LeftRow(32768, d, x) + x) /\ Bit(LeftRow(32768, d, x), 15) = Bit(d, 0)
        BY 2^15 = 32768, 2^0 = 1 DEF LeftRow, Wrap, Bit
    <2>2. ShiftedLeft(16, d, x) = 65535 * x /\ ShiftedLeft(15, d, x) = LeftRow(32768, d, x)
        BY Rows, 2^15 = 32768
    <2> QED
        BY <2>1, <2>2
<1>17. /\ ShiftedLeft(17, d, x) = Wrap(2 * ShiftedLeft(16, d, x) + x)
      /\ Bit(ShiftedLeft(16, d, x), 15) = x
    <2>1. 65535 * x = Wrap(2 * (65535 * x) + x) /\ Bit(65535 * x, 15) = x
        BY 2^15 = 32768 DEF LeftRow, Wrap, Bit
    <2>2. ShiftedLeft(17, d, x) = 65535 * x /\ ShiftedLeft(16, d, x) = 65535 * x
        BY Rows
    <2> QED
        BY <2>1, <2>2
<1> QED
    BY <1>1, <1>2, <1>3, <1>4, <1>5, <1>6, <1>7, <1>8, <1>9, <1>10, <1>11, <1>12, <1>13, <1>14, <1>15, <1>16, <1>17 DEF Round

(* and to the right. *)
LEMMA RightRounds ==
    ASSUME NEW d \in Int, 0 <= d, d < 65536, NEW x \in Int, x = 0 \/ x = 1
    PROVE  \A k \in Round :
              /\ ShiftedRight(k, d, x) = ShiftedRight(k - 1, d, x) \div 2 + 32768 * x
              /\ ShiftedRight(k - 1, d, x) % 2 = IF k = 17 THEN x ELSE Bit(d, k - 1)
<1>1. /\ ShiftedRight(1, d, x) = ShiftedRight(0, d, x) \div 2 + 32768 * x
      /\ ShiftedRight(0, d, x) % 2 = Bit(d, 0)
    <2>1. RightRow(2, 32768, d, x) = RightRow(1, 65536, d, x) \div 2 + 32768 * x /\ RightRow(1, 65536, d, x) % 2 = Bit(d, 0)
        BY 2^0 = 1 DEF RightRow, Bit
    <2>2. ShiftedRight(1, d, x) = RightRow(2, 32768, d, x) /\ ShiftedRight(0, d, x) = RightRow(1, 65536, d, x)
        BY Rows, 2^0 = 1, 2^1 = 2, 2^16 = 65536, 2^15 = 32768
    <2> QED
        BY <2>1, <2>2
<1>2. /\ ShiftedRight(2, d, x) = ShiftedRight(1, d, x) \div 2 + 32768 * x
      /\ ShiftedRight(1, d, x) % 2 = Bit(d, 1)
    <2>1. RightRow(4, 16384, d, x) = RightRow(2, 32768, d, x) \div 2 + 32768 * x /\ RightRow(2, 32768, d, x) % 2 = Bit(d, 1)
        BY 2^1 = 2 DEF RightRow, Bit
    <2>2. ShiftedRight(2, d, x) = RightRow(4, 16384, d, x) /\ ShiftedRight(1, d, x) = RightRow(2, 32768, d, x)
        BY Rows, 2^1 = 2, 2^2 = 4, 2^15 = 32768, 2^14 = 16384
    <2> QED
        BY <2>1, <2>2
<1>3. /\ ShiftedRight(3, d, x) = ShiftedRight(2, d, x) \div 2 + 32768 * x
      /\ ShiftedRight(2, d, x) % 2 = Bit(d, 2)
    <2>1. RightRow(8, 8192, d, x) = RightRow(4, 16384, d, x) \div 2 + 32768 * x /\ RightRow(4, 16384, d, x) % 2 = Bit(d, 2)
        BY 2^2 = 4 DEF RightRow, Bit
    <2>2. ShiftedRight(3, d, x) = RightRow(8, 8192, d, x) /\ ShiftedRight(2, d, x) = RightRow(4, 16384, d, x)
        BY Rows, 2^2 = 4, 2^3 = 8, 2^14 = 16384, 2^13 = 8192
    <2> QED
        BY <2>1, <2>2
<1>4. /\ ShiftedRight(4, d, x) = ShiftedRight(3, d, x) \div 2 + 32768 * x
      /\ ShiftedRight(3, d, x) % 2 = Bit(d, 3)
    <2>1. RightRow(16, 4096, d, x) = RightRow(8, 8192, d, x) \div 2 + 32768 * x /\ RightRow(8, 8192, d, x) % 2 = Bit(d, 3)
        BY 2^3 = 8 DEF RightRow, Bit
    <2>2. ShiftedRight(4, d, x) = RightRow(16, 4096, d, x) /\ ShiftedRight(3, d, x) = RightRow(8, 8192, d, x)
        BY Rows, 2^3 = 8, 2^4 = 16, 2^13 = 8192, 2^12 = 4096
    <2> QED
        BY <2>1, <2>2
<1>5. /\ ShiftedRight(5, d, x) = ShiftedRight(4, d, x) \div 2 + 32768 * x
      /\ ShiftedRight(4, d, x) % 2 = Bit(d, 4)
    <2>1. RightRow(32, 2048, d, x) = RightRow(16, 4096, d, x) \div 2 + 32768 * x /\ RightRow(16, 4096, d, x) % 2 = Bit(d, 4)
        BY 2^4 = 16 DEF RightRow, Bit
    <2>2. ShiftedRight(5, d, x) = RightRow(32, 2048, d, x) /\ ShiftedRight(4, d, x) = RightRow(16, 4096, d, x)
        BY Rows, 2^4 = 16, 2^5 = 32, 2^12 = 4096, 2^11 = 2048
    <2> QED
        BY <2>1, <2>2
<1>6. /\ ShiftedRight(6, d, x) = ShiftedRight(5, d, x) \div 2 + 32768 * x
      /\ ShiftedRight(5, d, x) % 2 = Bit(d, 5)
    <2>1. RightRow(64, 1024, d, x) = RightRow(32, 2048, d, x) \div 2 + 32768 * x /\ RightRow(32, 2048, d, x) % 2 = Bit(d, 5)
        BY 2^5 = 32 DEF RightRow, Bit
    <2>2. ShiftedRight(6, d, x) = RightRow(64, 1024, d, x) /\ ShiftedRight(5, d, x) = RightRow(32, 2048, d, x)
        BY Rows, 2^5 = 32, 2^6 = 64, 2^11 = 2048, 2^10 = 1024
    <2> QED
        BY <2>1, <2>2
<1>7. /\ ShiftedRight(7, d, x) = ShiftedRight(6, d, x) \div 2 + 32768 * x
      /\ ShiftedRight(6, d, x) % 2 = Bit(d, 6)
    <2>1. RightRow(128, 512, d, x) = RightRow(64, 1024, d, x) \div 2 + 32768 * x /\ RightRow(64, 1024, d, x) % 2 = Bit(d, 6)
        BY 2^6 = 64 DEF RightRow, Bit
    <2>2. ShiftedRight(7, d, x) = RightRow(128, 512, d, x) /\ ShiftedRight(6, d, x) = RightRow(64, 1024, d, x)
        BY Rows, 2^6 = 64, 2^7 = 128, 2^10 = 1024, 2^9 = 512
    <2> QED
        BY <2>1, <2>2
<1>8. /\ ShiftedRight(8, d, x) = ShiftedRight(7, d, x) \div 2 + 32768 * x
      /\ ShiftedRight(7, d, x) % 2 = Bit(d, 7)
    <2>1. RightRow(256, 256, d, x) = RightRow(128, 512, d, x) \div 2 + 32768 * x /\ RightRow(128, 512, d, x) % 2 = Bit(d, 7)
        BY 2^7 = 128 DEF RightRow, Bit
    <2>2. ShiftedRight(8, d, x) = RightRow(256, 256, d, x) /\ ShiftedRight(7, d, x) = RightRow(128, 512, d, x)
        BY Rows, 2^7 = 128, 2^8 = 256, 2^9 = 512
    <2> QED
        BY <2>1, <2>2
<1>9. /\ ShiftedRight(9, d, x) = ShiftedRight(8, d, x) \div 2 + 32768 * x
      /\ ShiftedRight(8, d, x) % 2 = Bit(d, 8)
    <2>1. RightRow(512, 128, d, x) = RightRow(256, 256, d, x) \div 2 + 32768 * x /\ RightRow(256, 256, d, x) % 2 = Bit(d, 8)
        BY 2^8 = 256 DEF RightRow, Bit
    <2>2. ShiftedRight(9, d, x) = RightRow(512, 128, d, x) /\ ShiftedRight(8, d, x) = RightRow(256, 256, d, x)
        BY Rows, 2^8 = 256, 2^9 = 512, 2^7 = 128
    <2> QED
        BY <2>1, <2>2
<1>10. /\ ShiftedRight(10, d, x) = ShiftedRight(9, d, x) \div 2 + 32768 * x
      /\ ShiftedRight(9, d, x) % 2 = Bit(d, 9)
    <2>1. RightRow(1024, 64, d, x) = RightRow(512, 128, d, x) \div 2 + 32768 * x /\ RightRow(512, 128, d, x) % 2 = Bit(d, 9)
        BY 2^9 = 512 DEF RightRow, Bit
    <2>2. ShiftedRight(10, d, x) = RightRow(1024, 64, d, x) /\ ShiftedRight(9, d, x) = RightRow(512, 128, d, x)
        BY Rows, 2^9 = 512, 2^10 = 1024, 2^7 = 128, 2^6 = 64
    <2> QED
        BY <2>1, <2>2
<1>11. /\ ShiftedRight(11, d, x) = ShiftedRight(10, d, x) \div 2 + 32768 * x
      /\ ShiftedRight(10, d, x) % 2 = Bit(d, 10)
    <2>1. RightRow(2048, 32, d, x) = RightRow(1024, 64, d, x) \div 2 + 32768 * x /\ RightRow(1024, 64, d, x) % 2 = Bit(d, 10)
        BY 2^10 = 1024 DEF RightRow, Bit
    <2>2. ShiftedRight(11, d, x) = RightRow(2048, 32, d, x) /\ ShiftedRight(10, d, x) = RightRow(1024, 64, d, x)
        BY Rows, 2^10 = 1024, 2^11 = 2048, 2^6 = 64, 2^5 = 32
    <2> QED
        BY <2>1, <2>2
<1>12. /\ ShiftedRight(12, d, x) = ShiftedRight(11, d, x) \div 2 + 32768 * x
      /\ ShiftedRight(11, d, x) % 2 = Bit(d, 11)
    <2>1. RightRow(4096, 16, d, x) = RightRow(2048, 32, d, x) \div 2 + 32768 * x /\ RightRow(2048, 32, d, x) % 2 = Bit(d, 11)
        BY 2^11 = 2048 DEF RightRow, Bit
    <2>2. ShiftedRight(12, d, x) = RightRow(4096, 16, d, x) /\ ShiftedRight(11, d, x) = RightRow(2048, 32, d, x)
        BY Rows, 2^11 = 2048, 2^12 = 4096, 2^5 = 32, 2^4 = 16
    <2> QED
        BY <2>1, <2>2
<1>13. /\ ShiftedRight(13, d, x) = ShiftedRight(12, d, x) \div 2 + 32768 * x
      /\ ShiftedRight(12, d, x) % 2 = Bit(d, 12)
    <2>1. RightRow(8192, 8, d, x) = RightRow(4096, 16, d, x) \div 2 + 32768 * x /\ RightRow(4096, 16, d, x) % 2 = Bit(d, 12)
        BY 2^12 = 4096 DEF RightRow, Bit
    <2>2. ShiftedRight(13, d, x) = RightRow(8192, 8, d, x) /\ ShiftedRight(12, d, x) = RightRow(4096, 16, d, x)
        BY Rows, 2^12 = 4096, 2^13 = 8192, 2^4 = 16, 2^3 = 8
    <2> QED
        BY <2>1, <2>2
<1>14. /\ ShiftedRight(14, d, x) = ShiftedRight(13, d, x) \div 2 + 32768 * x
      /\ ShiftedRight(13, d, x) % 2 = Bit(d, 13)
    <2>1. RightRow(16384, 4, d, x) = RightRow(8192, 8, d, x) \div 2 + 32768 * x /\ RightRow(8192, 8, d, x) % 2 = Bit(d, 13)
        BY 2^13 = 8192 DEF RightRow, Bit
    <2>2. ShiftedRight(14, d, x) = RightRow(16384, 4, d, x) /\ ShiftedRight(13, d, x) = RightRow(8192, 8, d, x)
        BY Rows, 2^13 = 8192, 2^14 = 16384, 2^3 = 8, 2^2 = 4
    <2> QED
        BY <2>1, <2>2
<1>15. /\ ShiftedRight(15, d, x) = ShiftedRight(14, d, x) \div 2 + 32768 * x
      /\ ShiftedRight(14, d, x) % 2 = Bit(d, 14)
    <2>1. RightRow(32768, 2, d, x) = RightRow(16384, 4, d, x) \div 2 + 32768 * x /\ RightRow(16384, 4, d, x) % 2 = Bit(d, 14)
        BY 2^14 = 16384 DEF RightRow, Bit
    <2>2. ShiftedRight(15, d, x) = RightRow(32768, 2, d, x) /\ ShiftedRight(14, d, x) = RightRow(16384, 4, d, x)
        BY Rows, 2^14 = 16384, 2^15 = 32768, 2^2 = 4, 2^1 = 2
    <2> QED
        BY <2>1, <2>2
<1>16. /\ ShiftedRight(16, d, x) = ShiftedRight(15, d, x) \div 2 + 32768 * x
      /\ ShiftedRight(15, d, x) % 2 = Bit(d, 15)
    <2>1. 65535 * x = RightRow(32768, 2, d, x) \div 2 + 32768 * x /\ RightRow(32768, 2, d, x) % 2 = Bit(d, 15)
        BY 2^15 = 32768 DEF RightRow, Bit
    <2>2. ShiftedRight(16, d, x) = 65535 * x /\ ShiftedRight(15, d, x) = RightRow(32768, 2, d, x)
        BY Rows, 2^15 = 32768, 2^1 = 2, 2^0 = 1
    <2> QED
        BY <2>1, <2>2
<1>17. /\ ShiftedRight(17, d, x) = ShiftedRight(16, d, x) \div 2 + 32768 * x
      /\ ShiftedRight(16, d, x) % 2 = x
    <2>1. 65535 * x = (65535 * x) \div 2 + 32768 * x /\ (65535 * x) % 2 = x
        OBVIOUS
    <2>2. ShiftedRight(17, d, x) = 65535 * x /\ ShiftedRight(16, d, x) = 65535 * x
        BY Rows
    <2> QED
        BY <2>1, <2>2
<1> QED
    BY <1>1, <1>2, <1>3, <1>4, <1>5, <1>6, <1>7, <1>8, <1>9, <1>10, <1>11, <1>12, <1>13, <1>14, <1>15, <1>16, <1>17 DEF Round

(* One round of the loop, and the row of the table after k of them. *)
NextRound(left, y, x) == IF left THEN Wrap(2 * y + x) ELSE y \div 2 + 32768 * x
Row(left, k, d, x) == IF left THEN ShiftedLeft(k, d, x) ELSE ShiftedRight(k, d, x)
Body(n, d, left, x, f) == [k \in 0 .. n |-> IF k = 0 THEN d ELSE NextRound(left, f[k - 1], x)]

(* The loop is a recursive function, *)
LEMMA ShiftedChoose ==
    ASSUME NEW n, NEW d, NEW left, NEW x
    PROVE  Shifted(n, d, left, x) = CHOOSE f : f = Body(n, d, left, x, f)
BY DEF Shifted, Body, NextRound

(* and satisfies its equation if some function does. *)
LEMMA ShiftedExists ==
    ASSUME NEW n, NEW d, NEW left, NEW x, NEW g, g = Body(n, d, left, x, g)
    PROVE  LET after == Shifted(n, d, left, x) IN after = Body(n, d, left, x, after)
BY ShiftedChoose, Zenon

(* The rows of the table do, for each round. *)
LEMMA NextRow ==
    ASSUME NEW left, NEW k \in Round, NEW d \in Word, NEW x \in Int, x = 0 \/ x = 1
    PROVE  Row(left, k, d, x) = NextRound(left, Row(left, k - 1, d, x), x) /\ Row(left, 0, d, x) = d
<1>1. /\ ShiftedLeft(k, d, x) = Wrap(2 * ShiftedLeft(k - 1, d, x) + x)
      /\ ShiftedRight(k, d, x) = ShiftedRight(k - 1, d, x) \div 2 + 32768 * x
    BY WordRange, LeftRounds, RightRounds
<1>2. ShiftedLeft(0, d, x) = d /\ ShiftedRight(0, d, x) = d
    BY WordRange, NoShift
<1>3. CASE left
    BY <1>1, <1>2, <1>3 DEF Row, NextRound
<1>4. CASE ~ left
    BY <1>1, <1>2, <1>4 DEF Row, NextRound
<1> QED
    BY <1>3, <1>4

(* Two sequences of rounds that start alike and step alike are the same. *)
LEMMA SameRounds ==
    ASSUME NEW n \in Int, n <= 17, NEW f, NEW g, f[0] = g[0],
           \A k \in 1 .. n : f[k - 1] = g[k - 1] => f[k] = g[k]
    PROVE  \A k \in 0 .. n : f[k] = g[k]
<1>1. \A k \in 0 .. 16 : k + 1 <= n /\ f[k] = g[k] => f[k + 1] = g[k + 1]
    <2> SUFFICES ASSUME NEW k \in 0 .. 16, k + 1 <= n, f[k] = g[k] PROVE f[k + 1] = g[k + 1]
        OBVIOUS
    <2>1. k + 1 \in 1 .. n /\ (k + 1) - 1 = k
        OBVIOUS
    <2> QED
        BY <2>1
<1>2. /\ 1 <= n => f[1] = g[1]
      /\ 2 <= n => f[2] = g[2]
      /\ 3 <= n => f[3] = g[3]
      /\ 4 <= n => f[4] = g[4]
      /\ 5 <= n => f[5] = g[5]
      /\ 6 <= n => f[6] = g[6]
    BY <1>1
<1>3. /\ 7 <= n => f[7] = g[7]
      /\ 8 <= n => f[8] = g[8]
      /\ 9 <= n => f[9] = g[9]
      /\ 10 <= n => f[10] = g[10]
      /\ 11 <= n => f[11] = g[11]
      /\ 12 <= n => f[12] = g[12]
    BY <1>1, <1>2
<1>4. /\ 13 <= n => f[13] = g[13]
      /\ 14 <= n => f[14] = g[14]
      /\ 15 <= n => f[15] = g[15]
      /\ 16 <= n => f[16] = g[16]
      /\ 17 <= n => f[17] = g[17]
    BY <1>1, <1>3
<1> QED
    BY <1>2, <1>3, <1>4

(* The loop computes the last row and the one before it. *)
LEMMA Loop ==
    ASSUME NEW left, NEW n \in Round, NEW d \in Word, NEW x \in Int, x = 0 \/ x = 1
    PROVE  /\ Shifted(n, d, left, x)[n] = Row(left, n, d, x)
           /\ Shifted(n, d, left, x)[n - 1] = Row(left, n - 1, d, x)
<1> DEFINE g == [k \in 0 .. n |-> Row(left, k, d, x)]
           after == Shifted(n, d, left, x)
<1>0. n \in Int /\ 1 <= n /\ n <= 17 /\ 0 <= n
    BY DEF Round
<1>1. g[0] = d
    BY <1>0, NextRow
<1>2. ASSUME NEW k \in 1 .. n PROVE g[k] = NextRound(left, g[k - 1], x)
    <2>1. k \in Round
        BY <1>0 DEF Round
    <2>2. Row(left, k, d, x) = NextRound(left, Row(left, k - 1, d, x), x)
        BY <2>1, NextRow
    <2>3. k \in 0 .. n /\ k - 1 \in 0 .. n
        BY <1>0
    <2>4. g[k] = Row(left, k, d, x) /\ g[k - 1] = Row(left, k - 1, d, x)
        BY <2>3
    <2> HIDE DEF g
    <2> QED
        BY <2>2, <2>4
<1>3. g = [k \in 0 .. n |-> g[k]] /\ \A k \in 0 .. n : g[k] = Row(left, k, d, x)
    OBVIOUS
<1> HIDE DEF g
<1>4. g = Body(n, d, left, x, g)
    <2>1. \A k \in 0 .. n : g[k] = IF k = 0 THEN d ELSE NextRound(left, g[k - 1], x)
        <3>1. ASSUME NEW k \in 0 .. n, k # 0 PROVE k \in 1 .. n
            BY <1>0, <3>1
        <3> QED
            BY <1>1, <1>2, <3>1
    <2>2. [k \in 0 .. n |-> g[k]] = [k \in 0 .. n |-> IF k = 0 THEN d ELSE NextRound(left, g[k - 1], x)]
        BY <2>1, Zenon
    <2> QED
        BY <1>3, <2>2, Zenon DEF Body
<1>5. after = Body(n, d, left, x, after)
    BY <1>4, ShiftedExists, Zenon
<1> HIDE DEF after
<1>6. /\ after[0] = d
      /\ \A k \in 1 .. n : after[k] = NextRound(left, after[k - 1], x)
    <2>1. \A k \in 0 .. n : after[k] = IF k = 0 THEN d ELSE NextRound(left, after[k - 1], x)
        BY <1>5 DEF Body
    <2>2. 0 \in 0 .. n /\ \A k \in 1 .. n : k \in 0 .. n /\ k # 0
        BY <1>0
    <2> QED
        BY <2>1, <2>2, Zenon
<1>7. \A k \in 1 .. n : after[k - 1] = g[k - 1] => after[k] = g[k]
    BY <1>2, <1>6, Zenon
<1>8. after[0] = g[0]
    BY <1>1, <1>6
<1>9. \A k \in 0 .. n : after[k] = g[k]
    BY <1>0, <1>7, <1>8, SameRounds
<1>10. n \in 0 .. n /\ n - 1 \in 0 .. n
    BY <1>0
<1> QED
    BY <1>3, <1>9, <1>10, Zenon DEF after

(* Loop and table agree on the result and on the bit shifted out. *)
LEMMA ShiftTables ==
    ASSUME NEW count \in Word, count # 0, NEW d \in Word, NEW x, IsBit(x), NEW y
    PROVE  LET n == Rounds(count) IN
           /\ Shifted(n, d, TRUE, x)[n] = ShiftedLeft(count, d, x)
           /\ Bit(Shifted(n, d, TRUE, x)[n - 1], 15) = LeftOut(count, d, y, x)
           /\ Shifted(n, d, FALSE, x)[n] = ShiftedRight(count, d, x)
           /\ Shifted(n, d, FALSE, x)[n - 1] % 2 = RightOut(count, d, x, y)
<1> DEFINE n == Rounds(count)
<1>1. x \in Int /\ (x = 0 \/ x = 1) /\ count \in Int /\ 1 <= count
    BY WordRange DEF IsBit
<1>2. n \in Round /\ n \in Int /\ n <= 17 /\ (count <= 17 => n = count) /\ (count > 17 => n = 17)
    BY <1>1 DEF Rounds, Round
<1> HIDE DEF n
<1>3. /\ Shifted(n, d, TRUE, x)[n] = ShiftedLeft(n, d, x)
      /\ Shifted(n, d, TRUE, x)[n - 1] = ShiftedLeft(n - 1, d, x)
      /\ Shifted(n, d, FALSE, x)[n] = ShiftedRight(n, d, x)
      /\ Shifted(n, d, FALSE, x)[n - 1] = ShiftedRight(n - 1, d, x)
    <2>1. \A k : Row(TRUE, k, d, x) = ShiftedLeft(k, d, x) /\ Row(FALSE, k, d, x) = ShiftedRight(k, d, x)
        BY DEF Row
    <2>2. \A left : /\ Shifted(n, d, left, x)[n] = Row(left, n, d, x)
                    /\ Shifted(n, d, left, x)[n - 1] = Row(left, n - 1, d, x)
        BY <1>1, <1>2, Loop
    <2> QED
        BY <2>1, <2>2, Zenon
<1>4. /\ Bit(ShiftedLeft(n - 1, d, x), 15) = IF n = 17 THEN x ELSE Bit(d, 16 - n)
      /\ ShiftedRight(n - 1, d, x) % 2 = IF n = 17 THEN x ELSE Bit(d, n - 1)
    BY <1>1, <1>2, WordRange, LeftRounds, RightRounds
<1>5. /\ ShiftedLeft(n, d, x) = ShiftedLeft(count, d, x) /\ ShiftedRight(n, d, x) = ShiftedRight(count, d, x)
      /\ LeftOut(count, d, y, x) = IF n = 17 THEN x ELSE Bit(d, 16 - n)
      /\ RightOut(count, d, x, y) = IF n = 17 THEN x ELSE Bit(d, n - 1)
    <2>1. CASE count <= 16
        <3>1. n = count /\ n # 17 /\ count # 0
            BY <1>1, <1>2, <2>1
        <3> QED
            BY <2>1, <3>1 DEF LeftOut, RightOut
    <2>2. CASE ~ (count <= 16)
        <3>1. n = 17 /\ count # 0 /\ count > 15 /\ 17 > 15
            BY <1>1, <1>2, <2>2
        <3> QED
            BY <2>2, <3>1 DEF LeftOut, RightOut, ShiftedLeft, ShiftedRight
    <2> QED
        BY <2>1, <2>2
<1>6. /\ Bit(Shifted(n, d, TRUE, x)[n - 1], 15) = Bit(ShiftedLeft(n - 1, d, x), 15)
      /\ Shifted(n, d, FALSE, x)[n - 1] % 2 = ShiftedRight(n - 1, d, x) % 2
    BY <1>3, Zenon
<1> QED
    BY <1>3, <1>4, <1>5, <1>6, Zenon DEF n

(* A store commutes with a write of the flags, *)
LEMMA MemoryCommutes ==
    ASSUME NEW s, Machine(s), NEW a, NEW v \in Int, NEW w \in Int
    PROVE  Equal(write_register(write_memory(s, a, v), 14, w), write_memory(write_register(s, 14, w), a, v))
<1> DEFINE t == write_memory(s, a, v)
           u == write_register(s, 14, w)
<1>1. Index(s, 14) = 14 /\ Index(t, 14) = 14
    BY DEF Index
<1>2. DOMAIN t = {"reg", "mem"} /\ DOMAIN u = {"reg", "mem"}
    BY WriteCells, MemoryCells DEF Machine
<1>3. /\ \A k : RegCell(t, k) = RegCell(s, k)
      /\ \A k : MemCell(t, k) = IF k = Wrap(a) THEN Wrap(v) ELSE MemCell(s, k)
      /\ \A k : RegCell(u, k) = IF k = 14 THEN Written(14, w) ELSE RegCell(s, k)
      /\ \A k : MemCell(u, k) = MemCell(s, k)
    BY <1>1, WriteCells, MemoryCells DEF Machine
<1> HIDE DEF t, u
<1>4. /\ \A k : RegCell(write_register(t, 14, w), k) = IF k = 14 THEN Written(14, w) ELSE RegCell(t, k)
      /\ \A k : MemCell(write_register(t, 14, w), k) = MemCell(t, k)
    BY <1>1, <1>2, WriteCells
<1>5. /\ \A k : RegCell(write_memory(u, a, v), k) = RegCell(u, k)
      /\ \A k : MemCell(write_memory(u, a, v), k) = IF k = Wrap(a) THEN Wrap(v) ELSE MemCell(u, k)
    BY <1>2, MemoryCells
<1>6. Equal(write_register(t, 14, w), write_memory(u, a, v))
    BY <1>3, <1>4, <1>5 DEF Equal
<1> QED
    BY <1>6 DEF t, u

(* and one of what is there changes nothing. *)
LEMMA StoreBack ==
    ASSUME NEW s, Machine(s), NEW a \in Int
    PROVE  Equal(write_memory(s, a, read_memory(s, a)), s)
<1>1. read_memory(s, a) = MemCell(s, Wrap(a)) /\ Wrap(MemCell(s, Wrap(a))) = MemCell(s, Wrap(a))
    BY ReadMemoryWord, WrapId DEF read_memory
<1> QED
    BY <1>1, MemoryCells DEF Equal, Machine

(* The emulator, on the operands it has read. *)
LEMMA ExecShiftIs ==
    ASSUME NEW b
    PROVE  LET i == Instr(b) IN
           ExecShift(E0(b), i) = Shift(E3(b), Opcode(i) = 5, Src(b), Dst(b), DstMode(i), DstReg(i))
<1> DEFINE i == Instr(b)
           a == read_source_operand(E0(b), SrcMode(i), SrcReg(i), FALSE)
           y == read_source_operand(E2(b), DstMode(i), DstReg(i), TRUE)
           R(s0, s1, s) == Shift(s, Opcode(i) = 5, s1, s0, DstMode(i), DstReg(i))
<1>1. a.s = E2(b) /\ a.v = Src(b)
    BY SourceIs DEF E1, E2, Src
<1>2. y.s = E3(b) /\ y.v = Dst(b)
    BY SourceIs DEF E3, Dst
<1> DEFINE z == read_source_operand(a.s, DstMode(i), DstReg(i), TRUE)
<1>3. ExecShift(E0(b), i) = R(z.v, a.v, z.s)
    BY Zenon DEF ExecShift
<1> HIDE DEF a, R
<1>4. z = y
    BY <1>1
<1> HIDE DEF y, z
<1>5. ExecShift(E0(b), i) = R(Dst(b), Src(b), E3(b))
    BY <1>1, <1>2, <1>3, <1>4
<1> QED
    BY <1>5, Zenon DEF R

(* What the emulator writes when it shifts: the flag that was shifted out, *)
(* the result, and the flags of the result.                                *)
ShiftWrites(s, k, last, res, mode, r) ==
    update_status_bits(write_destination(write_register(s, 14, SetBit(read_register(s, 14), k, last)), mode, r, res, FALSE),
                       res, 0, 0, {"X", "C", "V"})

ShiftStatus(sr, k, last, z, n) ==
    HwStatus(sr, IF k = 1 THEN last ELSE Bit(sr, 1), IF k = 2 THEN last ELSE Bit(sr, 2), z, n, Bit(sr, 5))

FlagOut(sr, k, last) == SetBit(sr, k, last)
Kept(g, z, n) == EmuStatus(g, Bit(g, 1), Bit(g, 2), z, n, Bit(g, 5))

(* The status register of a shift, in the order of the emulator. *)
LEMMA ShiftFlags ==
    ASSUME NEW sr \in Word, NEW k, k = 1 \/ k = 2, NEW last, IsBit(last), NEW z, IsBit(z), NEW n, IsBit(n)
    PROVE  /\ FlagOut(sr, k, last) \in Word
           /\ FlagOut(sr, k, last) \div 256 = sr \div 256
           /\ SetBit(sr, 0, 1) = sr => SetBit(FlagOut(sr, k, last), 0, 1) = FlagOut(sr, k, last)
           /\ Kept(FlagOut(sr, k, last), z, n) \in Word
           /\ Kept(FlagOut(sr, k, last), z, n) \div 256 = sr \div 256
           /\ SetBit(Kept(FlagOut(sr, k, last), z, n), 0, 1) = Kept(FlagOut(sr, k, last), z, n)
           /\ ShiftStatus(sr, k, last, z, n) \in Word
           /\ Used(14, Kept(FlagOut(sr, k, last), z, n)) = Used(14, ShiftStatus(sr, k, last, z, n))
<1>1. PICK q, m, b5, b4, b3, b2, b1, b0 :
           IsStatus(q, m, b5, b4, b3, b2, b1, b0) /\ sr = StatusWord(q, m, b5, b4, b3, b2, b1, b0)
    BY TakeApart
<1> DEFINE g == SetBit(sr, k, last)
           x == IF k = 1 THEN last ELSE Bit(sr, 1)
           c == IF k = 2 THEN last ELSE Bit(sr, 2)
           a == EmuStatus(g, Bit(g, 1), Bit(g, 2), z, n, Bit(g, 5))
           h == HwStatus(sr, x, c, z, n, Bit(sr, 5))
<1>2. sr \div 256 = q /\ Bit(sr, 1) = b1 /\ Bit(sr, 2) = b2 /\ Bit(sr, 5) = b5
      /\ SetBit(sr, 0, 1) = StatusWord(q, m, b5, b4, b3, b2, b1, 1)
    BY <1>1, Apart
<1>3. g = StatusWord(q, m, b5, b4, b3, c, x, b0) /\ IsStatus(q, m, b5, b4, b3, c, x, b0)
    <2>1. CASE k = 1
        BY <1>1, <1>2, <2>1, SetFlag
    <2>2. CASE k = 2
        BY <1>1, <1>2, <2>2, SetFlag
    <2> QED
        BY <2>1, <2>2
<1> HIDE DEF g, x, c
<1>4. /\ g \in Word /\ g \div 256 = q /\ Bit(g, 1) = x /\ Bit(g, 2) = c /\ Bit(g, 5) = b5
      /\ SetBit(g, 0, 1) = StatusWord(q, m, b5, b4, b3, c, x, 1)
    BY <1>3, Apart
<1>5. IsBit(x) /\ IsBit(c) /\ IsBit(b5)
    BY <1>1, <1>3 DEF IsBit, IsStatus
<1>6. a = EmuStatus(g, x, c, z, n, b5) /\ h = HwStatus(sr, x, c, z, n, b5)
    BY <1>2, <1>4
<1>7. /\ a \in Word /\ SetBit(a, 0, 1) = a /\ a \div 256 = g \div 256
      /\ Used(14, a) = HwStatus(g, x, c, z, n, b5)
    BY <1>4, <1>5, <1>6, StatusAgree
<1>8. h \in Word /\ Used(14, h) = h
    BY <1>5, <1>6, StatusAgree
<1>9. HwStatus(g, x, c, z, n, b5) = h
    BY <1>2, <1>4, <1>6 DEF HwStatus
<1>10. SetBit(sr, 0, 1) = sr => SetBit(g, 0, 1) = g
    <2>1. ASSUME SetBit(sr, 0, 1) = sr PROVE b0 = 1
        BY <1>1, <1>2, <2>1 DEF StatusWord, IsStatus
    <2> QED
        BY <1>3, <1>4, <2>1
<1>11. h = ShiftStatus(sr, k, last, z, n)
    BY DEF ShiftStatus, x, c
<1>12. g = FlagOut(sr, k, last) /\ a = Kept(g, z, n)
    BY DEF g, FlagOut, Kept
<1> HIDE DEF a, h
<1> QED
    BY <1>2, <1>4, <1>7, <1>8, <1>9, <1>10, <1>11, <1>12

(* Writing the bit first and the flags last ends as writing all flags at   *)
(* once.                                                                   *)
LEMMA ShiftWritesNear ==
    ASSUME NEW s, Machine(s), NEW k \in {1, 2}, NEW last, IsBit(last), NEW res \in Int,
           NEW mode \in {0, 1}, NEW r, Reg(r), r # 14
    PROVE  LET sr == read_register(s, 14)
               h == ShiftStatus(sr, k, last, Bool(Wrap(res) = 0), Bit(res, 15))
           IN  Near(write_destination(write_register(s, 14, h), mode, r, res, TRUE),
                    ShiftWrites(s, k, last, res, mode, r))
<1>a. PICK sr, z, n : sr = read_register(s, 14) /\ z = Bool(Wrap(res) = 0) /\ n = Bit(res, 15)
    OBVIOUS
<1> DEFINE h == ShiftStatus(sr, k, last, z, n)
           g == SetBit(sr, k, last)
           a == EmuStatus(g, Bit(g, 1), Bit(g, 2), z, n, Bit(g, 5))
           u == write_register(s, 14, g)
           v == write_register(u, 14, a)
           w == write_register(s, 14, h)
           D(x) == write_destination(x, mode, r, res, TRUE)
<1>1. sr \in Word /\ SetBit(sr, 0, 1) = sr
    BY <1>a, ReadWord, StatusReg, ReadStatus, MachineStatus, SetBit0
<1>2. IsBit(z) /\ IsBit(n)
    BY <1>a, BoolRange, BitRange DEF IsBit
<1>0. g = FlagOut(sr, k, last) /\ a = Kept(g, z, n) /\ h = ShiftStatus(sr, k, last, z, n)
    BY DEF FlagOut, Kept
<1> HIDE DEF g, a, h
<1>3. /\ g \in Word /\ a \in Word /\ h \in Word
      /\ g \div 256 = sr \div 256 /\ a \div 256 = sr \div 256
      /\ SetBit(a, 0, 1) = a /\ SetBit(g, 0, 1) = g
      /\ Used(14, a) = Used(14, h)
    BY <1>0, <1>1, <1>2, ShiftFlags
<1> USE DEF g, a, h
<1>4. ShiftWrites(s, k, last, res, mode, r) =
          LET t == write_destination(u, mode, r, res, FALSE) IN
          write_register(t, 14, EmuStatus(read_register(t, 14), Bit(read_register(t, 14), 1), Bit(read_register(t, 14), 2),
                                          z, n, Bit(read_register(t, 14), 5)))
    <2> DEFINE t == write_destination(u, mode, r, res, FALSE)
               keep == {"X", "C", "V"}
    <2>1. "X" \in keep /\ "C" \in keep /\ "V" \in keep
        OBVIOUS
    <2>2. ShiftWrites(s, k, last, res, mode, r) = update_status_bits(t, res, 0, 0, keep)
        BY <1>a, Zenon DEF ShiftWrites
    <2> HIDE DEF t, keep
    <2>3. update_status_bits(t, res, 0, 0, keep) =
              write_register(t, 14, EmuStatus(read_register(t, 14), Bit(read_register(t, 14), 1), Bit(read_register(t, 14), 2),
                                              z, n, Bit(read_register(t, 14), 5)))
        BY <1>a, <2>1, UpdateIs
    <2> QED
        BY <2>2, <2>3, Zenon DEF t
<1> HIDE DEF a, g, h
<1>5. a \in Int /\ g \in Int /\ h \in Int /\ Wrap(a) = a /\ Wrap(g) = g
    BY <1>3, WordInt, WrapId
<1>6. Machine(u) /\ Machine(v)
    BY <1>5, WriteMachine
<1>7. RegCell(u, 14) = g
    <2>1. Index(s, 14) = 14
        BY DEF Index
    <2> QED
        BY <1>3, <1>5, <2>1, WriteCells DEF Machine, Written
<1>8. Near(w, v) /\ Machine(w)
    <2>1. Near(w, write_register(s, 14, a)) /\ Machine(w) /\ Machine(write_register(s, 14, a))
        BY <1>3, TwoStatus
    <2>2. Equal(write_register(s, 14, a), v)
        BY StatusTwice DEF Equal
    <2> QED
        BY <1>6, <2>1, <2>2, EqualNear, NearTrans
<1> HIDE DEF u
<1>9. /\ Machine(D(u)) /\ Machine(D(v)) /\ Equal(write_register(D(u), 14, a), D(v))
      /\ read_register(D(u), 14) = g
      /\ write_destination(u, mode, r, res, FALSE) = D(u)
    <2>0. write_destination(u, mode, r, res, FALSE) = D(u)
        <3>1. mode # 3
            OBVIOUS
        <3> QED
            BY <3>1, Zenon DEF write_destination
    <2>1. CASE mode = 0
        <3>1. D(u) = write_register(u, r, res) /\ D(v) = write_register(v, r, res)
            BY <2>1 DEF write_destination
        <3>2. Equal(write_register(write_register(u, r, res), 14, a), write_register(v, r, res))
            BY <1>3, <1>5, <1>6, <1>7, StatusCommutes
        <3>3. read_register(write_register(u, r, res), 14) = read_register(u, 14)
            BY <1>6, ReadAfterWrite, StatusReg
        <3>4. read_register(u, 14) = g
            BY <1>3, <1>7, ReadStatus
        <3> HIDE DEF v, D
        <3> QED
            BY <1>6, <2>0, <3>1, <3>2, <3>3, <3>4, WriteMachine
    <2>2. CASE mode = 1
        <3> DEFINE p == read_register(u, r)
        <3>1. p = read_register(v, r)
            BY <1>3, <1>5, <1>6, <1>7, ReadAfterStatus
        <3>2. D(u) = write_memory(u, p, res) /\ D(v) = write_memory(v, p, res)
            BY <2>2, <3>1 DEF write_destination
        <3> HIDE DEF p
        <3>3. Equal(write_register(write_memory(u, p, res), 14, a), write_memory(v, p, res))
            BY <1>5, <1>6, MemoryCommutes
        <3>4. RegCell(write_memory(u, p, res), 14) = g
            BY <1>6, <1>7, MemoryCells DEF Machine
        <3>5. read_register(write_memory(u, p, res), 14) = g
            BY <1>3, <3>4, ReadStatus
        <3> HIDE DEF v, D
        <3> QED
            BY <1>6, <2>0, <3>2, <3>3, <3>5, MemoryMachine
    <2> QED
        BY <2>1, <2>2
<1>10. ShiftWrites(s, k, last, res, mode, r) = write_register(D(u), 14, a)
    BY <1>4, <1>9 DEF a
<1> HIDE DEF v, w
<1>11. Near(D(w), D(v))
    BY <1>6, <1>8, DestinationNear
<1> HIDE DEF D
<1>12. Near(D(v), write_register(D(u), 14, a))
    <2>1. Equal(D(v), write_register(D(u), 14, a))
        BY <1>9 DEF Equal
    <2>2. Machine(write_register(D(u), 14, a))
        BY <1>5, <1>9, WriteMachine
    <2> QED
        BY <1>9, <2>1, <2>2, EqualNear
<1>13. Near(D(w), write_register(D(u), 14, a))
    BY <1>11, <1>12, NearTrans
<1> QED
    BY <1>a, <1>10, <1>13 DEF D, w, h

(* The rows of the tables are integers. *)
LEMMA RowsInt ==
    ASSUME NEW count \in Word, NEW d \in Word, NEW x, IsBit(x)
    PROVE  ShiftedLeft(count, d, x) \in Int /\ ShiftedRight(count, d, x) \in Int
<1>1. count \in Int /\ 0 <= count /\ d \in Int /\ x \in Int
    BY WordRange DEF IsBit
<1>2. CASE count > 15
    BY <1>1, <1>2 DEF ShiftedLeft, ShiftedRight
<1>3. CASE ~ (count > 15)
    <2> DEFINE p == 2^count
               q == 2^(16 - count)
    <2>1. p \in Int /\ p > 0 /\ q \in Int
        <3> DEFINE Pow(n) == 2^n
        <3>1. \/ count = 0 \/ count = 1 \/ count = 2 \/ count = 3 \/ count = 4 \/ count = 5 \/ count = 6 \/ count = 7
              \/ count = 8 \/ count = 9 \/ count = 10 \/ count = 11 \/ count = 12 \/ count = 13 \/ count = 14 \/ count = 15
            BY <1>1, <1>3
        <3>2. /\ Pow(0) = 1 /\ Pow(1) = 2 /\ Pow(2) = 4 /\ Pow(3) = 8 /\ Pow(4) = 16 /\ Pow(5) = 32
              /\ Pow(6) = 64 /\ Pow(7) = 128 /\ Pow(8) = 256 /\ Pow(9) = 512 /\ Pow(10) = 1024
              /\ Pow(11) = 2048 /\ Pow(12) = 4096 /\ Pow(13) = 8192 /\ Pow(14) = 16384
              /\ Pow(15) = 32768 /\ Pow(16) = 65536
            OBVIOUS
        <3> HIDE DEF Pow
        <3>3. Pow(count) \in Int /\ Pow(count) > 0
            BY <3>1, <3>2
        <3>4. Pow(16 - count) \in Int
            <4>1. \/ 16 - count = 16 \/ 16 - count = 15 \/ 16 - count = 14 \/ 16 - count = 13 \/ 16 - count = 12
                  \/ 16 - count = 11 \/ 16 - count = 10 \/ 16 - count = 9 \/ 16 - count = 8 \/ 16 - count = 7
                  \/ 16 - count = 6 \/ 16 - count = 5 \/ 16 - count = 4 \/ 16 - count = 3 \/ 16 - count = 2
                  \/ 16 - count = 1
                BY <3>1
            <4> HIDE <3>1
            <4> QED
                BY <3>2, <4>1
        <3> QED
            BY <3>3, <3>4 DEF Pow
    <2>2. count \in 0 .. 15
        BY <1>1, <1>3
    <2>3. ShiftedLeft(count, d, x) = LeftRow(p, d, x) /\ ShiftedRight(count, d, x) = RightRow(p, q, d, x)
        BY <1>1, <1>3 DEF ShiftedLeft, ShiftedRight, LeftRow, RightRow
    <2> HIDE DEF p, q
    <2>4. d * p \in Int /\ x * (p - 1) \in Int /\ d \div p \in Int /\ x * (65536 - q) \in Int
        BY <1>1, <2>1
    <2>5. LeftRow(p, d, x) \in Int
        BY <2>4, WrapWord, WordInt DEF LeftRow
    <2>6. RightRow(p, q, d, x) \in Int
        BY <2>4 DEF RightRow
    <2> QED
        BY <2>3, <2>5, <2>6
<1> QED
    BY <1>2, <1>3

(* The bits that are shifted out. *)
LEMMA OutBits ==
    ASSUME NEW count \in Word, NEW d \in Word, NEW x, IsBit(x), NEW c, IsBit(c)
    PROVE  IsBit(LeftOut(count, d, c, x)) /\ IsBit(RightOut(count, d, c, x))
<1>1. \A k \in 0 .. 15 : IsBit(Bit(d, k))
    <2>1. \A k \in 0 .. 15 : k = 0 \/ k = 1 \/ k = 2 \/ k = 3 \/ k = 4 \/ k = 5 \/ k = 6 \/ k = 7 \/ k = 8
              \/ k = 9 \/ k = 10 \/ k = 11 \/ k = 12 \/ k = 13 \/ k = 14 \/ k = 15
        OBVIOUS
    <2> QED
        BY <2>1, WordInt, BitRange DEF IsBit
<1>2. count # 0 /\ count <= 16 => 16 - count \in 0 .. 15 /\ count - 1 \in 0 .. 15
    BY WordRange
<1> QED
    BY <1>1, <1>2 DEF LeftOut, RightOut

(* The flags of the CPU after a shift. *)
LEMMA ShiftFlagsOf ==
    ASSUME NEW count, NEW d, NEW sr
    PROVE  /\ FlagsOf(5, count, d, sr) =
                  ShiftStatus(sr, 2, LeftOut(count, d, Bit(sr, 2), Bit(sr, 1)),
                              Bool(Wrap(ShiftedLeft(count, d, Bit(sr, 1))) = 0),
                              Bit(ShiftedLeft(count, d, Bit(sr, 1)), 15))
           /\ FlagsOf(6, count, d, sr) =
                  ShiftStatus(sr, 1, RightOut(count, d, Bit(sr, 2), Bit(sr, 1)),
                              Bool(Wrap(ShiftedRight(count, d, Bit(sr, 2))) = 0),
                              Bit(ShiftedRight(count, d, Bit(sr, 2)), 15))
<1> DEFINE R5 == AluRes(5, count, d, Bit(sr, 2), Bit(sr, 1))
           R6 == AluRes(6, count, d, Bit(sr, 2), Bit(sr, 1))
<1>1. R5 = ShiftedLeft(count, d, Bit(sr, 1)) /\ R6 = ShiftedRight(count, d, Bit(sr, 2))
    BY AluIs
<1>2. /\ FlagsOf(5, count, d, sr) = ShiftStatus(sr, 2, LeftOut(count, d, Bit(sr, 2), Bit(sr, 1)), Bool(Wrap(R5) = 0), Bit(R5, 15))
      /\ FlagsOf(6, count, d, sr) = ShiftStatus(sr, 1, RightOut(count, d, Bit(sr, 2), Bit(sr, 1)), Bool(Wrap(R6) = 0), Bit(R6, 15))
    BY DEF FlagsOf, ShiftStatus, HwStatus, opcSHL, opcSHR, opcCMP
<1> QED
    BY <1>1, <1>2

(* A count of 0 writes the flags, and what is there. *)
LEMMA ShiftZero ==
    ASSUME NEW s, Machine(s), NEW mode \in {0, 1}, NEW r, Reg(r), r # 14,
           NEW d, d = Value(s, mode, r), NEW sr, sr = read_register(s, 14)
    PROVE  Near(write_destination(write_register(s, 14,
                    HwStatus(sr, Bit(sr, 1), Bit(sr, 2), Bool(Wrap(d) = 0), Bit(d, 15), Bit(sr, 5))),
                    mode, r, d, TRUE),
                update_status_bits(s, d, 0, 0, {"X", "C", "V"}))
<1>1. d \in Word /\ sr \in Word
    BY StepMachine, ReadWord, StatusReg
<1> DEFINE h == HwStatus(sr, Bit(sr, 1), Bit(sr, 2), Bool(Wrap(d) = 0), Bit(d, 15), Bit(sr, 5))
           a == EmuStatus(sr, Bit(sr, 1), Bit(sr, 2), Bool(Wrap(d) = 0), Bit(d, 15), Bit(sr, 5))
           w == write_register(s, 14, h)
           v == write_register(s, 14, a)
<1>2. update_status_bits(s, d, 0, 0, {"X", "C", "V"}) = v
    <2> DEFINE keep == {"X", "C", "V"}
    <2>1. "X" \in keep /\ "C" \in keep /\ "V" \in keep
        OBVIOUS
    <2> HIDE DEF keep
    <2>2. update_status_bits(s, d, 0, 0, keep) = v
        BY <2>1, UpdateIs
    <2> QED
        BY <2>2 DEF keep
<1>3. IsBit(Bit(sr, 1)) /\ IsBit(Bit(sr, 2)) /\ IsBit(Bit(sr, 5)) /\ IsBit(Bit(d, 15)) /\ IsBit(Bool(Wrap(d) = 0))
    BY <1>1, WordInt, BitRange, BoolRange DEF IsBit
<1>4. Near(w, v) /\ Machine(w) /\ Machine(v)
    BY <1>3, StatusNear
<1>5. h \in Word /\ h \div 256 = sr \div 256 /\ SetBit(h, 0, 1) = h
    BY <1>1, <1>3, StatusAgree
<1>6. sr \div 256 = RegCell(s, 14) \div 256
    BY ReadStatus, MachineStatus, SetBit0
<1> HIDE DEF h, a
<1>7. Wrap(h) = h /\ h \in Int
    BY <1>5, WrapId, WordInt
<1>8. read_register(w, r) = read_register(s, r)
    BY <1>5, <1>6, <1>7, ReadAfterStatus
<1>9. Near(write_destination(w, mode, r, d, TRUE), w)
    <2>1. CASE mode = 0
        <3>1. write_destination(w, mode, r, d, TRUE) = write_register(w, r, read_register(w, r))
            BY <1>8, <2>1 DEF write_destination, Value
        <3>2. Equal(write_register(w, r, read_register(w, r)), w)
            BY <1>4, WriteBack
        <3>3. Machine(write_register(w, r, read_register(w, r)))
            BY <1>4, ReadWord, WordInt, WriteMachine
        <3> HIDE DEF w
        <3> QED
            BY <1>4, <3>1, <3>2, <3>3, EqualNear
    <2>2. CASE mode = 1
        <3> DEFINE p == read_register(w, r)
        <3>1. d = read_memory(s, p)
            BY <1>8, <2>2 DEF Value
        <3>2. read_memory(w, p) = read_memory(s, p)
            BY WriteCells DEF read_memory, Machine
        <3>3. write_destination(w, mode, r, d, TRUE) = write_memory(w, p, read_memory(w, p))
            BY <2>2, <3>1, <3>2 DEF write_destination
        <3>4. p \in Int
            BY <1>4, ReadWord, WordInt
        <3> HIDE DEF p, w
        <3>5. Equal(write_memory(w, p, read_memory(w, p)), w)
            BY <1>4, <3>4, StoreBack
        <3>6. Machine(write_memory(w, p, read_memory(w, p)))
            BY <1>1, <1>4, <3>1, <3>2, WordInt, MemoryMachine
        <3> QED
            BY <1>4, <3>3, <3>5, <3>6, EqualNear
    <2> QED
        BY <2>1, <2>2
<1>10. Near(write_destination(w, mode, r, d, TRUE), v)
    BY <1>4, <1>9, NearTrans
<1> QED
    BY <1>2, <1>10 DEF w, h

LoopLeft(count, d, x) == Shifted(Rounds(count), d, TRUE, x)
LoopRight(count, d, c) == Shifted(Rounds(count), d, FALSE, c)

(* The same with the direction fixed. *)
LEMMA LoopTables ==
    ASSUME NEW count \in Word, count # 0, NEW d \in Word, NEW x, IsBit(x), NEW c, IsBit(c)
    PROVE  /\ LoopLeft(count, d, x)[Rounds(count)] = ShiftedLeft(count, d, x)
           /\ Bit(LoopLeft(count, d, x)[Rounds(count) - 1], 15) = LeftOut(count, d, c, x)
           /\ LoopRight(count, d, c)[Rounds(count)] = ShiftedRight(count, d, c)
           /\ LoopRight(count, d, c)[Rounds(count) - 1] % 2 = RightOut(count, d, c, x)
BY ShiftTables, Zenon DEF LoopLeft, LoopRight

ShiftLeft(s, count, d, mode, r) == Shift(s, TRUE, count, d, mode, r)
ShiftRight(s, count, d, mode, r) == Shift(s, FALSE, count, d, mode, r)

(* A count of 0 only updates the flags, *)
LEMMA NoLoop ==
    ASSUME NEW s, NEW d, NEW mode, NEW r
    PROVE  /\ ShiftLeft(s, 0, d, mode, r) = update_status_bits(s, d, 0, 0, {"X", "C", "V"})
           /\ ShiftRight(s, 0, d, mode, r) = update_status_bits(s, d, 0, 0, {"X", "C", "V"})
BY Zenon DEF Shift, ShiftLeft, ShiftRight

(* any other runs the loop: to the left, *)
LEMMA LoopLeftIs ==
    ASSUME NEW s, NEW count, NEW d, NEW mode, NEW r, count # 0
    PROVE  ShiftLeft(s, count, d, mode, r) =
               ShiftWrites(s, 2, Bit(LoopLeft(count, d, Bit(read_register(s, 14), 1))[Rounds(count) - 1], 15),
                           LoopLeft(count, d, Bit(read_register(s, 14), 1))[Rounds(count)], mode, r)
<1>1. Shift(s, TRUE, count, d, mode, r) =
          ShiftWrites(s, 2, Bit(Shifted(Rounds(count), d, TRUE, Bit(read_register(s, 14), 1))[Rounds(count) - 1], 15),
                      Shifted(Rounds(count), d, TRUE, Bit(read_register(s, 14), 1))[Rounds(count)], mode, r)
    BY DEF Shift, ShiftWrites, SR
<1> QED
    BY <1>1, Zenon DEF ShiftLeft, LoopLeft

(* and to the right. *)
LEMMA LoopRightIs ==
    ASSUME NEW s, NEW count, NEW d, NEW mode, NEW r, count # 0
    PROVE  ShiftRight(s, count, d, mode, r) =
               ShiftWrites(s, 1, LoopRight(count, d, Bit(read_register(s, 14), 2))[Rounds(count) - 1] % 2,
                           LoopRight(count, d, Bit(read_register(s, 14), 2))[Rounds(count)], mode, r)
<1>1. Shift(s, FALSE, count, d, mode, r) =
          ShiftWrites(s, 1, Shifted(Rounds(count), d, FALSE, Bit(read_register(s, 14), 2))[Rounds(count) - 1] % 2,
                      Shifted(Rounds(count), d, FALSE, Bit(read_register(s, 14), 2))[Rounds(count)], mode, r)
    BY DEF Shift, ShiftWrites, SR
<1> QED
    BY <1>1, Zenon DEF ShiftRight, LoopRight

(* A shift on the two machines, on any operands: to the left *)
LEMMA LeftEnds ==
    ASSUME NEW s, Machine(s), NEW mode \in {0, 1}, NEW r, Reg(r), r # 14, NEW count \in Word,
           NEW d, d = Value(s, mode, r), NEW sr, sr = read_register(s, 14)
    PROVE  Near(write_destination(write_register(s, 14, FlagsOf(5, count, d, sr)),
                                  mode, r, ShiftedLeft(count, d, Bit(sr, 1)), TRUE),
                ShiftLeft(s, count, d, mode, r))
<1> DEFINE x == Bit(sr, 1)
           c == Bit(sr, 2)
           res == ShiftedLeft(count, d, x)
           out == LeftOut(count, d, c, x)
           n == Rounds(count)
           z == Bool(Wrap(res) = 0)
           m == Bit(res, 15)
           D(y, v) == write_destination(write_register(s, 14, y), mode, r, v, TRUE)
<1>1. d \in Word /\ sr \in Word
    BY StepMachine, ReadWord, StatusReg
<1>2. IsBit(x) /\ IsBit(c)
    BY <1>1, WordInt, BitRange DEF IsBit
<1>3. FlagsOf(5, count, d, sr) = ShiftStatus(sr, 2, out, z, m)
    BY ShiftFlagsOf
<1>4. CASE count = 0
    <2>1. res = d /\ out = c
        BY <1>1, <1>2, <1>4, NoShift, WordRange DEF LeftOut, IsBit
    <2>2. ShiftLeft(s, count, d, mode, r) = update_status_bits(s, d, 0, 0, {"X", "C", "V"})
        BY <1>4, NoLoop
    <2>3. FlagsOf(5, count, d, sr) = HwStatus(sr, x, c, Bool(Wrap(d) = 0), Bit(d, 15), Bit(sr, 5))
        <3>1. ShiftStatus(sr, 2, out, z, m) = HwStatus(sr, x, out, z, m, Bit(sr, 5))
            BY DEF ShiftStatus
        <3> HIDE DEF res, out
        <3> QED
            BY <1>3, <2>1, <3>1
    <2>4. Near(D(HwStatus(sr, x, c, Bool(Wrap(d) = 0), Bit(d, 15), Bit(sr, 5)), d),
               update_status_bits(s, d, 0, 0, {"X", "C", "V"}))
        BY ShiftZero
    <2> HIDE DEF D, x, c
    <2>5. Near(D(FlagsOf(5, count, d, sr), res), ShiftLeft(s, count, d, mode, r))
        BY <2>1, <2>2, <2>3, <2>4
    <2> QED
        BY <2>5 DEF D, x
<1>5. CASE count # 0
    <2>1. /\ LoopLeft(count, d, x)[n] = res
          /\ Bit(LoopLeft(count, d, x)[n - 1], 15) = out
        BY <1>1, <1>2, <1>5, LoopTables
    <2>2. ShiftLeft(s, count, d, mode, r) =
              ShiftWrites(s, 2, Bit(LoopLeft(count, d, x)[n - 1], 15), LoopLeft(count, d, x)[n], mode, r)
        BY <1>5, LoopLeftIs
    <2>3. ShiftLeft(s, count, d, mode, r) = ShiftWrites(s, 2, out, res, mode, r)
        BY <2>1, <2>2, Zenon
    <2>4. res \in Int
        BY <1>1, <1>2, RowsInt
    <2>5. IsBit(out)
        BY <1>1, <1>2, OutBits
    <2> HIDE DEF res, out
    <2>6. Near(D(ShiftStatus(sr, 2, out, z, m), res), ShiftWrites(s, 2, out, res, mode, r))
        BY <2>4, <2>5, ShiftWritesNear
    <2> HIDE DEF D, z, m
    <2>7. Near(D(FlagsOf(5, count, d, sr), res), ShiftLeft(s, count, d, mode, r))
        BY <1>3, <2>3, <2>6
    <2> QED
        BY <2>7 DEF D, res, x
<1> QED
    BY <1>4, <1>5

(* and to the right. *)
LEMMA RightEnds ==
    ASSUME NEW s, Machine(s), NEW mode \in {0, 1}, NEW r, Reg(r), r # 14, NEW count \in Word,
           NEW d, d = Value(s, mode, r), NEW sr, sr = read_register(s, 14)
    PROVE  Near(write_destination(write_register(s, 14, FlagsOf(6, count, d, sr)),
                                  mode, r, ShiftedRight(count, d, Bit(sr, 2)), TRUE),
                ShiftRight(s, count, d, mode, r))
<1> DEFINE x == Bit(sr, 1)
           c == Bit(sr, 2)
           res == ShiftedRight(count, d, c)
           out == RightOut(count, d, c, x)
           n == Rounds(count)
           z == Bool(Wrap(res) = 0)
           m == Bit(res, 15)
           D(y, v) == write_destination(write_register(s, 14, y), mode, r, v, TRUE)
<1>1. d \in Word /\ sr \in Word
    BY StepMachine, ReadWord, StatusReg
<1>2. IsBit(x) /\ IsBit(c)
    BY <1>1, WordInt, BitRange DEF IsBit
<1>3. FlagsOf(6, count, d, sr) = ShiftStatus(sr, 1, out, z, m)
    BY ShiftFlagsOf
<1>4. CASE count = 0
    <2>1. res = d /\ out = x
        BY <1>1, <1>2, <1>4, NoShift, WordRange DEF RightOut, IsBit
    <2>2. ShiftRight(s, count, d, mode, r) = update_status_bits(s, d, 0, 0, {"X", "C", "V"})
        BY <1>4, NoLoop
    <2>3. FlagsOf(6, count, d, sr) = HwStatus(sr, x, c, Bool(Wrap(d) = 0), Bit(d, 15), Bit(sr, 5))
        <3>1. ShiftStatus(sr, 1, out, z, m) = HwStatus(sr, out, c, z, m, Bit(sr, 5))
            BY DEF ShiftStatus
        <3> HIDE DEF res, out
        <3> QED
            BY <1>3, <2>1, <3>1
    <2>4. Near(D(HwStatus(sr, x, c, Bool(Wrap(d) = 0), Bit(d, 15), Bit(sr, 5)), d),
               update_status_bits(s, d, 0, 0, {"X", "C", "V"}))
        BY ShiftZero
    <2> HIDE DEF D, x, c
    <2>5. Near(D(FlagsOf(6, count, d, sr), res), ShiftRight(s, count, d, mode, r))
        BY <2>1, <2>2, <2>3, <2>4
    <2> QED
        BY <2>5 DEF D, c
<1>5. CASE count # 0
    <2>1. /\ LoopRight(count, d, c)[n] = res
          /\ LoopRight(count, d, c)[n - 1] % 2 = out
        BY <1>1, <1>2, <1>5, LoopTables
    <2>2. ShiftRight(s, count, d, mode, r) =
              ShiftWrites(s, 1, LoopRight(count, d, c)[n - 1] % 2, LoopRight(count, d, c)[n], mode, r)
        BY <1>5, LoopRightIs
    <2>3. ShiftRight(s, count, d, mode, r) = ShiftWrites(s, 1, out, res, mode, r)
        BY <2>1, <2>2, Zenon
    <2>4. res \in Int
        BY <1>1, <1>2, RowsInt
    <2>5. IsBit(out)
        BY <1>1, <1>2, OutBits
    <2> HIDE DEF res, out
    <2>6. Near(D(ShiftStatus(sr, 1, out, z, m), res), ShiftWrites(s, 1, out, res, mode, r))
        BY <2>4, <2>5, ShiftWritesNear
    <2> HIDE DEF D, z, m
    <2>7. Near(D(FlagsOf(6, count, d, sr), res), ShiftRight(s, count, d, mode, r))
        BY <1>3, <2>3, <2>6
    <2> QED
        BY <2>7 DEF D, res, c
<1> QED
    BY <1>4, <1>5

(* SHL and SHR end alike on both. *)
LEMMA ShiftFinishes ==
    ASSUME NEW b, Machine(b), ~ Differ(Instr(b)), Opcode(Instr(b)) \in {5, 6}
    PROVE  Near(Finished(b), execute(b).s)
<1> DEFINE i == Instr(b)
           op == Opcode(i)
           s == E3(b)
           r == DstReg(i)
           m == DstMode(i)
           sr == Status(b)
           c == Src(b)
           d == Dst(b)
<1>1. /\ Machine(s) /\ c \in Word /\ d \in Word /\ Reg(r) /\ i \in Word
      /\ r # 14 /\ m \in {0, 1} /\ op # 12
    BY Operands, InstrFields, Compared
<1>2. d = Value(s, m, r) /\ sr = read_register(s, 14)
    BY DEF Dst, Status
<1>3. execute(b).s = Shift(s, op = 5, c, d, m, r)
    BY ExecuteIs, ExecShiftIs, Zenon
<1>4. Finished(b) = write_destination(write_register(s, 14, FlagsOf(op, c, d, sr)), m, r, Wrap(Alu(b)), TRUE)
    BY <1>1 DEF Finished, Flagged
<1>5. IsBit(Bit(sr, 1)) /\ IsBit(Bit(sr, 2))
    BY <1>1, <1>2, ReadWord, StatusReg, WordInt, BitRange DEF IsBit
<1> HIDE DEF s, r, m, c, d, sr
<1>6. CASE op = 5
    <2>1. Alu(b) = ShiftedLeft(c, d, Bit(sr, 1)) /\ Alu(b) \in Int
        BY <1>1, <1>5, <1>6, AluIs, RowsInt DEF Alu, c, d, sr
    <2>2. Near(write_destination(write_register(s, 14, FlagsOf(5, c, d, sr)), m, r, Alu(b), TRUE),
               ShiftLeft(s, c, d, m, r))
        BY <1>1, <1>2, <2>1, LeftEnds
    <2>3. Finished(b) = write_destination(write_register(s, 14, FlagsOf(5, c, d, sr)), m, r, Alu(b), TRUE)
        <3>1. write_destination(write_register(s, 14, FlagsOf(5, c, d, sr)), m, r, Wrap(Alu(b)), TRUE) =
              write_destination(write_register(s, 14, FlagsOf(5, c, d, sr)), m, r, Alu(b), TRUE)
            BY <2>1, DestinationWrapped, ZenonT(60)
        <3> QED
            BY <1>4, <1>6, <3>1, Zenon
    <2>4. execute(b).s = ShiftLeft(s, c, d, m, r)
        <3>1. (op = 5) = TRUE
            BY <1>6
        <3> QED
            BY <1>3, <3>1, Zenon DEF ShiftLeft
    <2> QED
        BY <2>2, <2>3, <2>4, Zenon
<1>7. CASE op = 6
    <2>1. Alu(b) = ShiftedRight(c, d, Bit(sr, 2)) /\ Alu(b) \in Int
        BY <1>1, <1>5, <1>7, AluIs, RowsInt DEF Alu, c, d, sr
    <2>2. Near(write_destination(write_register(s, 14, FlagsOf(6, c, d, sr)), m, r, Alu(b), TRUE),
               ShiftRight(s, c, d, m, r))
        BY <1>1, <1>2, <2>1, RightEnds
    <2>3. Finished(b) = write_destination(write_register(s, 14, FlagsOf(6, c, d, sr)), m, r, Alu(b), TRUE)
        <3>1. write_destination(write_register(s, 14, FlagsOf(6, c, d, sr)), m, r, Wrap(Alu(b)), TRUE) =
              write_destination(write_register(s, 14, FlagsOf(6, c, d, sr)), m, r, Alu(b), TRUE)
            BY <2>1, DestinationWrapped, ZenonT(60)
        <3> QED
            BY <1>4, <1>7, <3>1, Zenon
    <2>4. execute(b).s = ShiftRight(s, c, d, m, r)
        <3>1. (op = 5) = FALSE
            BY <1>7
        <3> QED
            BY <1>3, <3>1, Zenon DEF ShiftRight
    <2> QED
        BY <2>2, <2>3, <2>4, Zenon
<1> QED
    BY <1>6, <1>7

(***************************************************************************)
(* cs_execute                                                              *)
(***************************************************************************)

(* A branch of the emulator: the state with the return address pushed. *)
Pushed(s) ==
    LET u == Add(s, SP, -1) IN write_memory(u, read_register(u, SP), read_register(u, PC))

Taken(i, s) == Bit(read_register(s, 14), i % 8) # Bit(i, 3)
Left(i, s) == IF (i \div 16) % 4 \in {1, 3} THEN Pushed(s) ELSE s

(* The emulator, on the operand it has read. *)
LEMMA ExecBranchIs ==
    ASSUME NEW b
    PROVE  ExecBranch(E0(b), Instr(b)) =
               IF Taken(Instr(b), E2(b))
               THEN write_register(Left(Instr(b), E2(b)), PC,
                                   Target(Instr(b), Left(Instr(b), E2(b)), Src(b)))
               ELSE E2(b)
<1> DEFINE i == Instr(b)
           a == read_source_operand(E0(b), SrcMode(i), SrcReg(i), FALSE)
           R(s, v) == IF Taken(i, s) THEN write_register(Left(i, s), PC, Target(i, Left(i, s), v)) ELSE s
<1>1. a.s = E2(b) /\ a.v = Src(b)
    BY SourceIs DEF E1, E2, Src
<1>2. ExecBranch(E0(b), i) = R(a.s, a.v)
    BY Zenon DEF ExecBranch, Taken, Left, Pushed, Target, SR
<1> HIDE DEF a, R
<1>3. ExecBranch(E0(b), i) = R(E2(b), Src(b))
    BY <1>1, <1>2
<1> QED
    BY <1>3, Zenon DEF R

(* The cycle of cs_execute of a branch, on all its paths. *)
LEMMA BranchFollows ==
    ASSUME NEW c, NEW b, Machine(b), Calm(c), Mirrors(c, E2(b)), c.Src_Value = Src(b),
           c.Instruction = Instr(b), Opcode(Instr(b)) = 15
    PROVE  Follows(Branch(c), b)
<1> DEFINE i == Instr(b)
           s == E2(b)
           v == Src(b)
           mode == (i \div 16) % 4
           y == IF mode < 2 THEN v ELSE Wrap(c.PC + v)
           taken == Bit(c.SR, i % 8) # Bit(i, 3)
           d == [Goto(c, "cs_exepost_sub") EXCEPT
                     !.SP = Wrap(@ - 1), !.ADDR_Bus = Wrap(c.SP - 1),
                     !.DATA_To_Bus = c.PC, !.DATA_VALID = TRUE]
           g == [Goto(c, "cs_fetch") EXCEPT !.ADDR_Bus = c.PC]
<1>1. Machine(s) /\ v \in Word /\ i \in Word /\ mode \in {0, 1, 2, 3}
    <2>1. Machine(s) /\ v \in Word /\ i \in Word
        BY Operands
    <2> QED
        BY <2>1, WordRange
<1>2. taken <=> Taken(i, s)
    BY DEF Taken, Mirrors
<1>3. execute(b).s = IF Taken(i, s) THEN write_register(Left(i, s), PC, Target(i, Left(i, s), v)) ELSE s
    BY ExecuteIs, ExecBranchIs
<1>4. \A t : Near(t, t)
    BY DEF Near, Same
<1>5. /\ ~ taken => Branch(c) = g
      /\ taken /\ mode \in {0, 2} => Branch(c) = Jump(c, y)
      /\ taken /\ mode \in {1, 3} => Branch(c) = d
    BY DEF Branch, Jump
<1>6. CASE ~ taken
    <2>1. SameCore(c, g) /\ g.cpu_state = "cs_fetch"
        BY DEF SameCore, Calm, Goto, Fields
    <2>2. Mirrors(g, s)
        BY <2>1, MirrorsCore
    <2> HIDE DEF g
    <2>3. execute(b).s = s
        BY <1>2, <1>3, <1>6
    <2> QED
        BY <1>1, <1>4, <1>5, <1>6, <2>1, <2>2, <2>3, EndsAt
<1>7. CASE taken /\ mode \in {0, 2}
    <2> DEFINE x == Target(i, s, v)
    <2>1. execute(b).s = write_register(s, 15, x)
        BY <1>2, <1>3, <1>7 DEF Left, PC
    <2>2. x \in Int /\ Wrap(x) = y
        BY <1>1, TargetIs
    <2> HIDE DEF x, y
    <2>3. /\ Mirrors(Jump(c, y), execute(b).s) /\ Machine(execute(b).s)
          /\ Jump(c, y).cpu_state = "cs_fetch"
        BY <1>1, <2>1, <2>2, JumpMirrors
    <2> QED
        BY <1>4, <1>5, <1>7, <2>3, EndsAt
<1>8. CASE taken /\ mode \in {1, 3}
    <2> DEFINE u == Add(s, 13, -1)
               a == Wrap(c.SP - 1)
               w == fsm_write(c, 13, a)
               t == write_memory(u, a, c.PC)
    <2>1. c.SP = read_register(s, 13) /\ c.PC = read_register(s, 15)
        <3>1. reg_read_data(c, 13) = read_register(s, 13) /\ reg_read_data(c, 15) = read_register(s, 15)
            BY <1>1, MirrorsRead, StatusReg
        <3> QED
            BY <3>1 DEF reg_read_data
    <2>2. c.SP \in Word /\ c.PC \in Word /\ a \in Word
        <3>1. c.SP \in Word /\ c.PC \in Word
            BY <1>1, <2>1, ReadWord, StatusReg
        <3> QED
            BY <3>1, WordInt, WrapWord
    <2>3. read_register(s, 13) + -1 = c.SP - 1
        BY <2>1, <2>2, WordInt
    <2>4. Mirrors(w, u) /\ Machine(u)
        <3>1. a = Wrap(read_register(s, 13) + -1)
            BY <2>3
        <3>2. PICK k \in Int, r \in Int : k = -1 /\ r = 13
            OBVIOUS
        <3>3. Reg(r) /\ r # 14
            BY <3>2, StatusReg
        <3> HIDE DEF a, s
        <3>4. Machine(Add(s, r, k))
            BY <1>1, <3>3, AddMachine
        <3>5. Mirrors(fsm_write(c, r, a), Add(s, r, k))
            <4>1. a = Wrap(read_register(s, r) + k)
                BY <3>1, <3>2
            <4>2. Machine(s) /\ Mirrors(c, s)
                BY <1>1 DEF s
            <4> QED
                BY <3>3, <4>1, <4>2, MirrorsAdd
        <3> QED
            BY <3>2, <3>4, <3>5
    <2>5. read_register(u, 13) = a /\ read_register(u, 15) = c.PC
        <3>1. \A q : Reg(q) => read_register(u, q) = IF q = 13 THEN Wrap(read_register(s, 13) + -1) ELSE read_register(s, q)
            BY <1>1, ReadAfterAdd, StatusReg
        <3> QED
            BY <2>1, <2>3, <3>1, StatusReg
    <2>6. Pushed(s) = t
        <3> HIDE DEF a
        <3> QED
            BY <2>5 DEF Pushed, SP, PC
    <2>7. /\ DOMAIN d = Fields /\ d.SP = w.SP /\ d.SR = w.SR /\ d.PC = w.PC /\ d.reg = w.reg /\ d.mem = w.mem
          /\ d.reg_write_en = w.reg_write_en /\ d.reg_write = w.reg_write
          /\ d.DATA_VALID /\ d.ADDR_Bus = a /\ d.DATA_To_Bus = c.PC
          /\ d.Src_Value = v /\ d.cpu_state = "cs_exepost_sub"
        <3> HIDE DEF a, v
        <3>1. d = [c EXCEPT !.cpu_state = "cs_exepost_sub", !.SP = a, !.ADDR_Bus = a, !.DATA_To_Bus = c.PC, !.DATA_VALID = TRUE]
            BY DEF Goto, Calm, Fields, a
        <3>2. w = [c EXCEPT !.SP = a]
            BY DEF fsm_write
        <3> QED
            BY <3>1, <3>2, ZenonT(60) DEF Calm, Fields, v
    <2>8. ~ w.DATA_VALID
        BY DEF fsm_write, Calm, Fields
    <2> HIDE DEF d, a, w, u
    <2>9. Mirrors(d, t) /\ Machine(t)
        BY <2>2, <2>4, <2>7, <2>8, WordInt, MirrorsStore, MemoryMachine
    <2>10. execute(b).s = write_register(t, PC, Target(i, t, v))
        <3>1. Left(i, s) = t
            BY <1>8, <2>6 DEF Left
        <3> HIDE DEF t
        <3> QED
            BY <1>2, <1>3, <1>8, <3>1
    <2>11. AtSub(d, b)
        BY <1>8, <2>7, <2>9, <2>10 DEF AtSub
    <2> QED
        BY <1>5, <1>8, <2>7, <2>11 DEF Follows
<1> QED
    BY <1>1, <1>6, <1>7, <1>8

(* The ALU computes an integer of sixteen bits and a carry, *)
LEMMA AluInt ==
    ASSUME NEW o \in 0 .. 12, NEW x \in Word, NEW y \in Word, NEW c, IsBit(c), NEW z, IsBit(z)
    PROVE  AluRes(o, x, y, c, z) \in Int
<1>1. x \in Int /\ y \in Int /\ c \in Int
    BY WordInt DEF IsBit
<1>2. CASE o \in {0, 7, 8}
    BY <1>2, AluIs, UnaryInt
<1>3. CASE o \in {1, 2, 3, 4, 9, 10, 11}
    <2>1. Binary(o, y, x, c) \in Int
        BY <1>1, <1>3, LogicInt DEF Binary
    <2> QED
        BY <1>3, <2>1, AluIs
<1>4. CASE o \in {5, 6}
    BY <1>4, AluIs, RowsInt
<1>5. CASE o = 12
    BY <1>1, <1>5, AluIs
<1> QED
    BY <1>2, <1>3, <1>4, <1>5

(* and flags that keep the bank. *)
LEMMA FlagsWord ==
    ASSUME NEW o \in 0 .. 12, NEW x \in Word, NEW y \in Word, NEW sr \in Word
    PROVE  /\ FlagsOf(o, x, y, sr) \in Word
           /\ SetBit(FlagsOf(o, x, y, sr), 0, 1) = FlagsOf(o, x, y, sr)
           /\ FlagsOf(o, x, y, sr) \div 256 = sr \div 256
<1> DEFINE c == Bit(sr, 2)
           z == Bit(sr, 1)
           res == AluRes(o, x, y, c, z)
           X == IF o \in {5, 12} THEN z ELSE IF o = 6 THEN RightOut(x, y, c, z) ELSE Bool(Wrap(res) = 65535)
           C == IF o = 5 THEN LeftOut(x, y, c, z) ELSE IF o \in 1 .. 4 THEN Bit(res, 16) ELSE c
           Z == IF o = 12 THEN Bool(x = y) ELSE Bool(Wrap(res) = 0)
           N == IF o = 12 THEN Bool(x > y) ELSE Bit(res, 15)
           V == IF o \in (1 .. 4) \cup {12} THEN AluV(o, x, y, res) ELSE Bit(sr, 5)
<1>1. IsBit(c) /\ IsBit(z) /\ IsBit(Bit(sr, 5))
    BY WordInt, BitRange DEF IsBit
<1>2. FlagsOf(o, x, y, sr) = HwStatus(sr, X, C, Z, N, V)
    BY DEF FlagsOf, HwStatus, opcSHL, opcSHR, opcCMP
<1> HIDE DEF c, z
<1>3. res \in Int
    BY <1>1, AluInt
<1> HIDE DEF res
<1>4. IsBit(Bit(res, 15)) /\ IsBit(Bit(res, 16))
    BY <1>3, BitRange DEF IsBit
<1>5. \A p : IsBit(Bool(p))
    BY BoolRange DEF IsBit
<1>6. IsBit(LeftOut(x, y, c, z)) /\ IsBit(RightOut(x, y, c, z))
    BY <1>1, OutBits
<1>7. IsBit(X) /\ IsBit(C) /\ IsBit(Z) /\ IsBit(N)
    BY <1>1, <1>4, <1>5, <1>6
<1>8. IsBit(V)
    BY <1>1, <1>5 DEF AluV
<1> HIDE DEF X, C, Z, N, V
<1>9. PICK h : h = HwStatus(sr, X, C, Z, N, V)
    OBVIOUS
<1>10. h \in Word /\ SetBit(h, 0, 1) = h /\ h \div 256 = sr \div 256
    BY <1>7, <1>8, <1>9, StatusAgree
<1> QED
    BY <1>2, <1>9, <1>10

(* MOVE, SWAP and NOT do not look at the destination. *)
LEMMA DstIgnored ==
    ASSUME NEW o \in {0, 7, 8}, NEW x, NEW y, NEW w, NEW sr, NEW c, NEW z
    PROVE  /\ AluRes(o, x, y, c, z) = AluRes(o, x, w, c, z)
           /\ FlagsOf(o, x, y, sr) = FlagsOf(o, x, w, sr)
<1>1. \A v, p, q : AluRes(o, x, v, p, q) = Unary(o, x)
    BY AluIs
<1>2. o \notin {5, 6, 12} /\ o \notin 1 .. 4
    OBVIOUS
<1> QED
    BY <1>1, <1>2 DEF FlagsOf, opcSHL, opcSHR, opcCMP

(* Every instruction with a result ends alike on both. *)
LEMMA AluFinishes ==
    ASSUME NEW b, Machine(b), ~ Differ(Instr(b)), Opcode(Instr(b)) \in 0 .. 12
    PROVE  Near(Finished(b), execute(b).s)
<1>1. CASE Opcode(Instr(b)) \in {0, 7, 8}
    BY <1>1, UnaryFinishes
<1>2. CASE Opcode(Instr(b)) \in {1, 2, 3, 4, 9, 10, 11}
    BY <1>2, BinaryFinishes
<1>3. CASE Opcode(Instr(b)) \in {5, 6}
    BY <1>3, ShiftFinishes
<1>4. CASE Opcode(Instr(b)) = 12
    BY <1>4, CmpFinishes
<1> QED
    BY <1>1, <1>2, <1>3, <1>4

(* The flags of an instruction keep the registers. *)
LEMMA FlaggedIs ==
    ASSUME NEW b, Machine(b), Opcode(Instr(b)) \in 0 .. 12
    PROVE  /\ Machine(Flagged(b)) /\ Wrap(Alu(b)) \in Word /\ Alu(b) \in Int
           /\ \A q : Reg(q) /\ q # 14 => read_register(Flagged(b), q) = read_register(E3(b), q)
<1> DEFINE h == FlagsOf(Opcode(Instr(b)), Src(b), Dst(b), Status(b))
<1>1. Machine(E3(b)) /\ Src(b) \in Word /\ Dst(b) \in Word /\ Status(b) \in Word
    BY Operands, ReadWord, StatusReg DEF Status
<1>2. h \in Word /\ SetBit(h, 0, 1) = h /\ h \div 256 = Status(b) \div 256
    BY <1>1, FlagsWord
<1>3. Status(b) \div 256 = RegCell(E3(b), 14) \div 256
    BY <1>1, ReadStatus, MachineStatus, SetBit0 DEF Status
<1>4. Alu(b) \in Int
    <2>1. IsBit(Bit(Status(b), 1)) /\ IsBit(Bit(Status(b), 2))
        BY <1>1, WordInt, BitRange DEF IsBit
    <2> QED
        BY <1>1, <2>1, AluInt DEF Alu
<1>5. Flagged(b) = write_register(E3(b), 14, h)
    BY DEF Flagged
<1> HIDE DEF h
<1>6. h \in Int /\ Wrap(h) = h
    BY <1>2, WordInt, WrapId
<1> QED
    BY <1>1, <1>2, <1>3, <1>4, <1>5, <1>6, WriteMachine, WrapWord, ReadAfterStatus

(* The CPU when it has clocked in the flags. *)
LEMMA FlagsMirror ==
    ASSUME NEW c, NEW b, Machine(b), Opcode(Instr(b)) \in 0 .. 12, Calm(c), Mirrors(c, E3(b)),
           NEW f, f = [c EXCEPT !.SR = FlagsOf(Opcode(Instr(b)), Src(b), Dst(b), Status(b))]
    PROVE  Mirrors(f, Flagged(b)) /\ Calm(f)
<1> DEFINE h == FlagsOf(Opcode(Instr(b)), Src(b), Dst(b), Status(b))
<1>1. Machine(E3(b)) /\ Src(b) \in Word /\ Dst(b) \in Word /\ Status(b) \in Word
    BY Operands, ReadWord, StatusReg DEF Status
<1>2. h \in Word /\ SetBit(h, 0, 1) = h
    BY <1>1, FlagsWord
<1>3. Flagged(b) = write_register(E3(b), 14, h) /\ f = [c EXCEPT !.SR = h]
    BY DEF Flagged
<1> HIDE DEF h
<1>4. h \in Int /\ Wrap(h) = h
    BY <1>2, WordInt, WrapId
<1>5. /\ DOMAIN f = Fields /\ f.SR = SetBit(Wrap(h), 0, 1) /\ f.SP = c.SP /\ f.PC = c.PC
      /\ f.reg = c.reg /\ f.mem = c.mem /\ ~ f.reg_write_en /\ ~ f.DATA_VALID
    BY <1>2, <1>3, <1>4 DEF Calm, Fields
<1>6. Mirrors(f, write_register(E3(b), 14, h))
    BY <1>1, <1>4, <1>5, MirrorsStatus
<1> QED
    BY <1>3, <1>5, <1>6 DEF Calm

(* The result goes to a register, *)
LEMMA DirectFollows ==
    ASSUME NEW g, NEW b, Machine(b), ~ Differ(Instr(b)), Opcode(Instr(b)) \in 0 .. 12, DstMode(Instr(b)) = 0,
           Calm(g), Mirrors(g, Flagged(b)), g.cpu_state = "cs_fetch",
           NEW d, d = IF DstReg(Instr(b)) = 14 /\ Opcode(Instr(b)) = 12 THEN g
                      ELSE fsm_write(g, DstReg(Instr(b)), Wrap(Alu(b)))
    PROVE  Follows(d, b)
<1> DEFINE i == Instr(b)
           r == DstReg(i)
           s == Flagged(b)
           res == Wrap(Alu(b))
<1>1. Reg(r) /\ Opcode(i) \notin {13, 14}
    BY Operands, InstrFields
<1>2. /\ Machine(s) /\ res \in Word /\ res \in Int /\ Wrap(res) = res
      /\ r # 14 => read_register(s, r) = read_register(E3(b), r)
    BY <1>1, FlaggedIs, WordInt, WrapId
<1>3. Near(Finished(b), execute(b).s)
    BY AluFinishes
<1>4. /\ Opcode(i) = 12 => Finished(b) = s
      /\ Opcode(i) # 12 => Finished(b) = write_register(s, r, res)
    BY DEF Finished, Post, write_destination
<1>5. CASE r = 14 /\ Opcode(i) = 12
    BY <1>1, <1>2, <1>3, <1>4, <1>5, EndsAt
<1>6. CASE r = 14 /\ Opcode(i) # 12
    <2>1. d = [g EXCEPT !.SR = SetBit(res, 0, 1)]
        BY <1>6 DEF fsm_write
    <2> HIDE DEF res, s
    <2>2. /\ DOMAIN d = Fields /\ d.SR = SetBit(Wrap(res), 0, 1) /\ d.SP = g.SP /\ d.PC = g.PC
          /\ d.reg = g.reg /\ d.mem = g.mem /\ ~ d.reg_write_en /\ ~ d.DATA_VALID
          /\ d.cpu_state = "cs_fetch"
        BY <1>2, <2>1 DEF Calm, Fields
    <2>3. Mirrors(d, write_register(s, 14, res))
        BY <1>2, <2>2, MirrorsStatus DEF s
    <2>4. Machine(write_register(s, 14, res)) /\ Finished(b) = write_register(s, 14, res)
        BY <1>2, <1>4, <1>6, WriteMachine
    <2> QED
        BY <1>1, <1>3, <2>2, <2>3, <2>4, EndsAt
<1>7. CASE r # 14
    <2>1. d = fsm_write(g, r, res)
        BY <1>7
    <2>2. Machine(write_register(s, r, res))
        BY <1>2, WriteMachine
    <2>3. Near(write_register(s, r, res), execute(b).s)
        <3>1. CASE Opcode(i) # 12
            BY <1>3, <1>4, <3>1
        <3>2. CASE Opcode(i) = 12
            <4>1. Alu(b) = Dst(b) /\ Dst(b) = read_register(E3(b), r) /\ Dst(b) \in Word
                BY <3>2, AluIs, Operands DEF Alu, Dst, Value
            <4>2. res = read_register(s, r)
                BY <1>2, <1>7, <4>1, WrapId
            <4> HIDE DEF res, s
            <4>3. Equal(write_register(s, r, res), s)
                BY <1>1, <1>2, <1>7, <4>2, WriteBack
            <4>4. Near(write_register(s, r, res), s)
                BY <1>2, <2>2, <4>3, EqualNear
            <4> QED
                BY <1>3, <1>4, <3>2, <4>4, NearTrans
        <3> QED
            BY <3>1, <3>2
    <2> HIDE DEF res
    <2>4. Mirrors(d, write_register(s, r, res))
        BY <1>1, <1>2, <1>7, <2>1, MirrorsWrite
    <2>5. d.cpu_state = "cs_fetch"
        BY <2>1, FsmKeeps DEF Calm
    <2> QED
        BY <1>1, <2>2, <2>3, <2>4, <2>5, EndsAt
<1> QED
    BY <1>5, <1>6, <1>7

(* or to memory. *)
LEMMA IndirectFollows ==
    ASSUME NEW f, NEW b, Machine(b), ~ Differ(Instr(b)), Opcode(Instr(b)) \in 0 .. 12, DstMode(Instr(b)) # 0,
           Calm(f), Mirrors(f, Flagged(b)),
           NEW d, Opcode(Instr(b)) = 12 => d = Goto(f, "cs_exepost_store_dst_indirect"),
           Opcode(Instr(b)) # 12 => d = [Goto(f, "cs_exepost_store_dst_indirect") EXCEPT
                                             !.ADDR_Bus = read_register(E3(b), DstReg(Instr(b))),
                                             !.DATA_To_Bus = Wrap(Alu(b)), !.DATA_VALID = TRUE]
    PROVE  Follows(d, b)
<1> DEFINE i == Instr(b)
           r == DstReg(i)
           m == DstMode(i)
           s == Flagged(b)
           res == Wrap(Alu(b))
           a == read_register(s, r)
<1>1. Reg(r) /\ r # 14
    BY Operands, InstrFields, Compared
<1>2. Machine(s) /\ res \in Word /\ read_register(E3(b), r) = a /\ a \in Word
    <2>1. Machine(s) /\ res \in Word /\ read_register(E3(b), r) = a
        BY <1>1, FlaggedIs
    <2> QED
        BY <1>1, <2>1, ReadWord
<1>3. Near(Finished(b), execute(b).s)
    BY AluFinishes
<1>4. CASE Opcode(i) = 12
    <2>1. SameCore(f, d) /\ d.cpu_state = "cs_exepost_store_dst_indirect"
        BY <1>4 DEF SameCore, Calm, Goto, Fields
    <2>2. Mirrors(d, s)
        BY <2>1, MirrorsCore
    <2>3. Finished(b) = Post(s, m, r)
        BY <1>4 DEF Finished
    <2>4. AtStore(d, b)
        BY <1>2, <1>3, <1>4, <2>2, <2>3 DEF AtStore
    <2> QED
        BY <2>1, <2>4 DEF Follows
<1>5. CASE Opcode(i) # 12
    <2> DEFINE t == write_memory(s, a, res)
    <2>1. Finished(b) = Post(t, m, r)
        BY <1>5 DEF Finished, Post, write_destination
    <2>2. d = [Goto(f, "cs_exepost_store_dst_indirect") EXCEPT !.ADDR_Bus = a, !.DATA_To_Bus = res, !.DATA_VALID = TRUE]
        BY <1>2, <1>5
    <2> HIDE DEF a, res, s
    <2>3. /\ DOMAIN d = Fields /\ d.SP = f.SP /\ d.SR = f.SR /\ d.PC = f.PC /\ d.reg = f.reg /\ d.mem = f.mem
          /\ d.reg_write_en = f.reg_write_en /\ d.reg_write = f.reg_write
          /\ d.DATA_VALID /\ d.ADDR_Bus = a /\ d.DATA_To_Bus = res
          /\ d.cpu_state = "cs_exepost_store_dst_indirect"
        BY <2>2 DEF Goto, Calm, Fields
    <2>4. Mirrors(d, t)
        BY <1>2, <2>3, MirrorsStore DEF Calm, s
    <2>5. Machine(t)
        BY <1>2, WordInt, MemoryMachine
    <2>6. AtStore(d, b)
        BY <1>3, <2>1, <2>3, <2>4, <2>5 DEF AtStore
    <2> QED
        BY <2>3, <2>6 DEF Follows
<1> QED
    BY <1>4, <1>5

(* The cycle of cs_execute, on all its paths. *)
LEMMA ExecuteFollows ==
    ASSUME NEW c0, NEW b, Machine(b), AtExecute(c0, b), DOMAIN c0 = Fields, c0.Instruction = Instr(b),
           ~ Differ(Instr(b))
    PROVE  Follows(Execute(c0), b)
<1> DEFINE c == Defaults(c0)
           i == Instr(b)
           op == Opcode(i)
           r == DstReg(i)
           v == c.Dst_Value
           res == Wrap(AluRes(op, Src(b), v, Bit(c.SR, 2), Bit(c.SR, 1)))
           f == [c EXCEPT !.SR = FlagsOf(op, Src(b), v, c.SR)]
           direct == [Goto(f, "cs_fetch") EXCEPT !.ADDR_Bus = IF r = 15 THEN res ELSE c.PC]
           indirect == Goto(f, "cs_exepost_store_dst_indirect")
           stored == [indirect EXCEPT !.ADDR_Bus = Data2(c), !.DATA_To_Bus = res, !.DATA_VALID = TRUE]
<1>1. /\ Calm(c) /\ c.Instruction = i /\ c.Src_Value = Src(b) /\ c.Dst_Value = c0.Dst_Value
    BY DefaultsAre DEF AtExecute
<1>2. /\ op = 15 => Mirrors(c, E2(b))
      /\ op # 15 => Mirrors(c, E3(b))
    BY MirrorsDefaults DEF AtExecute
<1>3. Machine(E3(b)) /\ Reg(r) /\ op \in (0 .. 12) \cup {15}
    BY Operands, InstrFields, Compared DEF AtExecute
<1>4. /\ op = 15 => Execute(c0) = Branch(c)
      /\ op # 15 /\ DstMode(i) = 0 => Execute(c0) = IF r = 14 /\ op = 12 THEN direct ELSE fsm_write(direct, r, res)
      /\ op # 15 /\ DstMode(i) # 0 => Execute(c0) = IF op = 12 THEN indirect ELSE stored
    BY <1>1, Zenon DEF Execute, opcBRA, amDirect, opcCMP
<1>5. CASE op = 15
    BY <1>1, <1>2, <1>4, <1>5, BranchFollows
<1>6. CASE op # 15
    <2>1. op \in 0 .. 12 /\ Mirrors(c, E3(b)) /\ c.SR = Status(b)
        BY <1>2, <1>3, <1>6 DEF Mirrors, Status
    <2>2. res = Wrap(Alu(b)) /\ FlagsOf(op, Src(b), v, c.SR) = FlagsOf(op, Src(b), Dst(b), Status(b))
        <3>1. CASE op \in {0, 7, 8}
            BY <2>1, <3>1, DstIgnored DEF Alu
        <3>2. CASE op \notin {0, 7, 8}
            BY <1>1, <1>6, <2>1, <3>2 DEF AtExecute, Alu
        <3> QED
            BY <3>1, <3>2
    <2>3. Data2(c) = read_register(E3(b), r)
        BY <1>1, <1>3, <2>1, MirrorsRead DEF Data2
    <2> HIDE DEF c, v, res, op
    <2>4. f = [c EXCEPT !.SR = FlagsOf(op, Src(b), Dst(b), Status(b))]
        BY <2>2
    <2> HIDE DEF f
    <2>5. Mirrors(f, Flagged(b)) /\ Calm(f)
        BY <1>1, <2>1, <2>4, FlagsMirror DEF op
    <2>6. CASE DstMode(i) = 0
        <3>1. SameCore(f, direct) /\ Calm(direct) /\ direct.cpu_state = "cs_fetch"
            BY <2>5 DEF SameCore, Calm, Goto, Fields
        <3>2. Mirrors(direct, Flagged(b))
            BY <2>5, <3>1, MirrorsCore
        <3> HIDE DEF direct
        <3>3. Execute(c0) = IF DstReg(Instr(b)) = 14 /\ Opcode(Instr(b)) = 12 THEN direct
                            ELSE fsm_write(direct, DstReg(Instr(b)), Wrap(Alu(b)))
            BY <1>4, <1>6, <2>2, <2>6 DEF op
        <3> QED
            BY <2>1, <2>6, <3>1, <3>2, <3>3, DirectFollows DEF op
    <2>7. CASE DstMode(i) # 0
        <3>1. /\ op = 12 => Execute(c0) = indirect
              /\ op # 12 => Execute(c0) = [indirect EXCEPT !.ADDR_Bus = read_register(E3(b), r), !.DATA_To_Bus = Wrap(Alu(b)), !.DATA_VALID = TRUE]
            BY <1>4, <1>6, <2>2, <2>3, <2>7
        <3> QED
            BY <2>1, <2>5, <2>7, <3>1, IndirectFollows DEF op
    <2> QED
        BY <2>6, <2>7
<1> QED
    BY <1>5, <1>6

(***************************************************************************)
(* What an instruction leaves behind, whatever it is and whatever the      *)
(* machine state                                                           *)
(***************************************************************************)

(* An increment is delayed, and a store is on the bus, only in states that *)
(* are left for one that ends it.                                          *)
BusFree(c) ==
    /\ DOMAIN c = Fields
    /\ c.cpu_state = "cs_fetch" => c.ADDR_Bus = c.PC
    /\ c.Delayed_PostInc => c.cpu_state = "cs_exeprep_get_dst_indirect"
    /\ c.DATA_VALID => c.cpu_state \in {"cs_exepost_store_dst_indirect", "cs_exepost_sub"}

Free(c, i) == BusFree(c) /\ c.Instruction = i

(* A step that neither delays an increment nor stores. *)
Quiet(c, state, i) ==
    /\ DOMAIN c = Fields
    /\ c.cpu_state = state /\ c.Instruction = i
    /\ ~ c.Delayed_PostInc /\ ~ c.DATA_VALID

(* A write of a register is quiet, too. *)
LEMMA WriteQuiet ==
    ASSUME NEW c, NEW state, NEW i, Quiet(c, state, i), NEW r, NEW v
    PROVE  Quiet(fsm_write(c, r, v), state, i)
BY FsmKeeps DEF Quiet

(* The fetch leaves nothing behind, *)
LEMMA FetchFrees ==
    ASSUME NEW c, BusFree(c), c.cpu_state = "cs_fetch"
    PROVE  BusFree(Fetch(c))
BY DefaultsAre DEF BusFree, Fetch, Fields, Calm

(* and neither does any other cycle, nor does it change the instruction. *)
LEMMA DecodeFrees ==
    ASSUME NEW c0, BusFree(c0), c0.cpu_state = "cs_decode"
    PROVE  Free(Decode(c0), c0.Instruction)
<1> DEFINE c == Defaults(c0)
           i == c.Instruction
           d == [c EXCEPT !.Src_Value = Data1(c), !.Dst_Value = Data2(c)]
           src == [Goto(d, "cs_exeprep_get_src_indirect") EXCEPT !.ADDR_Bus = Data1(c)]
           dst == [Goto(d, "cs_exeprep_get_dst_indirect") EXCEPT !.ADDR_Bus = Data2(c)]
           src1 == [src EXCEPT !.ADDR_Bus = Wrap(@ - 1),
                               !.Dst_Value = IF DstReg(i) = SrcReg(i) THEN Wrap(Data1(c) - 1) ELSE @]
           dst1 == [dst EXCEPT !.ADDR_Bus = Wrap(@ - 1)]
<1>0. i = c0.Instruction
    BY DefaultsAre DEF BusFree, Calm
<1>1. Quiet(c, "cs_decode", i)
    BY DefaultsAre DEF Free, BusFree, Quiet, Calm
<1> HIDE DEF c, i
<1>2. Quiet(d, "cs_decode", i)
    BY <1>1 DEF Quiet, Fields
<1>3. Quiet(src, "cs_exeprep_get_src_indirect", i) /\ Quiet(src1, "cs_exeprep_get_src_indirect", i)
    BY <1>1 DEF Quiet, Goto, Fields
<1>4. Quiet(dst, "cs_exeprep_get_dst_indirect", i) /\ Quiet(dst1, "cs_exeprep_get_dst_indirect", i)
    BY <1>1 DEF Quiet, Goto, Fields
<1>5. Quiet(Goto(d, "cs_execute"), "cs_execute", i)
    BY <1>2 DEF Quiet, Goto, Fields
<1>6. Free(Control(d), i)
    BY <1>2 DEF Quiet, Free, BusFree, Control, Goto, Fields
<1> HIDE DEF d, src, dst, src1, dst1
<1>7. \A r, v : /\ Quiet(fsm_write(src1, r, v), "cs_exeprep_get_src_indirect", i)
                /\ Quiet(fsm_write(dst1, r, v), "cs_exeprep_get_dst_indirect", i)
    BY <1>3, <1>4, WriteQuiet
<1>8. \/ Decode(c0) = Control(d)
      \/ \E r, v : Decode(c0) = fsm_write(src1, r, v)
      \/ Decode(c0) = src
      \/ \E r, v : Decode(c0) = fsm_write(dst1, r, v)
      \/ Decode(c0) = dst
      \/ Decode(c0) = Goto(d, "cs_execute")
    BY Zenon DEF Decode, c, i, d, src, dst, src1, dst1
<1> QED
    BY <1>0, <1>3, <1>4, <1>5, <1>6, <1>7, <1>8 DEF Quiet, Free, BusFree

(* The source may leave an increment to the next cycle, *)
LEMMA GetSrcFrees ==
    ASSUME NEW c0, BusFree(c0), c0.cpu_state = "cs_exeprep_get_src_indirect"
    PROVE  Free(GetSrc(c0), c0.Instruction)
<1> DEFINE c == Defaults(c0)
           i == c.Instruction
           inc == SrcMode(i) = amIndirPostInc
           old == IF Special(SrcReg(i)) THEN Data1(c) ELSE c.Src_Value
           varResult == IF inc THEN Wrap(old + 1) ELSE Data2(c)
           a == [c EXCEPT !.Src_Value = DATA_IN(c),
                          !.Dst_Value = IF inc /\ ForwardsDst(c) THEN varResult ELSE @]
           b == IF inc THEN fsm_write(a, SrcReg(i), varResult) ELSE a
           d == Goto(b, "cs_exeprep_get_dst_indirect")
           d1 == [d EXCEPT !.ADDR_Bus = IF DstReg(i) = SrcReg(i) THEN varResult ELSE Data2(c)]
           d2 == [d EXCEPT
                      !.ADDR_Bus = IF Delays(i) /\ SrcReg(i) = DstReg(i) THEN Data2(c)
                                   ELSE Wrap(Data2(c) - 1),
                      !.Delayed_PostInc = Delays(i) \/ @,
                      !.DPI = IF Delays(i)
                              THEN <<SrcReg(i), IF SrcReg(i) = DstReg(i) THEN c.Dst_Value ELSE varResult>>
                              ELSE @]
<1>0. i = c0.Instruction
    BY DefaultsAre DEF BusFree, Calm
<1>1. Quiet(c, "cs_exeprep_get_src_indirect", i)
    BY DefaultsAre DEF Free, BusFree, Quiet, Calm
<1> HIDE DEF c, i, varResult, inc
<1>2. Quiet(a, "cs_exeprep_get_src_indirect", i)
    BY <1>1 DEF Quiet, Fields
<1> HIDE DEF a
<1>3. Quiet(b, "cs_exeprep_get_src_indirect", i)
    BY <1>2, WriteQuiet
<1> HIDE DEF b
<1>4. Quiet(Goto(b, "cs_execute"), "cs_execute", i) /\ Quiet(d, "cs_exeprep_get_dst_indirect", i)
    BY <1>3 DEF Quiet, Goto, Fields
<1> HIDE DEF d
<1>5. Free(d1, i) /\ Free(d2, i) /\ d2.cpu_state = "cs_exeprep_get_dst_indirect"
    BY <1>4 DEF Quiet, Free, BusFree, Fields
<1> HIDE DEF d1, d2
<1>6. \A r, v : Free(fsm_write(d2, r, v), i)
    BY <1>5, FsmKeeps DEF Free, BusFree
<1>7. \/ GetSrc(c0) = Goto(b, "cs_execute")
      \/ GetSrc(c0) = d1
      \/ \E r, v : GetSrc(c0) = fsm_write(d2, r, v)
    BY SMT DEF GetSrc, c, i, inc, varResult, a, b, d, d1, d2
<1> QED
    BY <1>0, <1>4, <1>5, <1>6, <1>7 DEF Quiet, Free, BusFree

(* which does it. *)
LEMMA GetDstFrees ==
    ASSUME NEW c0, BusFree(c0), c0.cpu_state = "cs_exeprep_get_dst_indirect"
    PROVE  Free(GetDst(c0), c0.Instruction)
<1> DEFINE c == Defaults(c0)
           i == c.Instruction
           d == [Goto(c, "cs_execute") EXCEPT !.Dst_Value = DATA_IN(c)]
           d1 == [d EXCEPT !.Delayed_PostInc = FALSE]
<1>0. i = c0.Instruction
    BY DefaultsAre DEF BusFree, Calm
<1>1. DOMAIN c = Fields /\ ~ c.DATA_VALID /\ c.Instruction = i
    BY DefaultsAre DEF Free, BusFree, Calm
<1> HIDE DEF c, i
<1>2. ~ c.Delayed_PostInc => Quiet(d, "cs_execute", i)
    BY <1>1 DEF Quiet, Goto, Fields
<1>3. Quiet(d1, "cs_execute", i)
    BY <1>1 DEF Quiet, Goto, Fields
<1> HIDE DEF d, d1
<1>4. \A r, v : Quiet(fsm_write(d1, r, v), "cs_execute", i)
    BY <1>3, WriteQuiet
<1>5. \/ ~ c.Delayed_PostInc /\ GetDst(c0) = d
      \/ \E r, v : GetDst(c0) = fsm_write(d1, r, v)
    BY Zenon DEF GetDst, c, d, d1
<1> QED
    BY <1>0, <1>2, <1>4, <1>5 DEF Quiet, Free, BusFree

(* The result may be left on the bus for the next cycle, *)
LEMMA ExecuteFrees ==
    ASSUME NEW c0, BusFree(c0), c0.cpu_state = "cs_execute"
    PROVE  Free(Execute(c0), c0.Instruction)
<1> DEFINE c == Defaults(c0)
           i == c.Instruction
           op == Opcode(i)
           r == DstReg(i)
           res == Wrap(AluRes(op, c.Src_Value, c.Dst_Value, Bit(c.SR, 2), Bit(c.SR, 1)))
           f == [c EXCEPT !.SR = FlagsOf(op, c.Src_Value, c.Dst_Value, c.SR)]
           direct == [Goto(f, "cs_fetch") EXCEPT !.ADDR_Bus = IF r = 15 THEN res ELSE c.PC]
           indirect == Goto(f, "cs_exepost_store_dst_indirect")
           stores == [indirect EXCEPT !.ADDR_Bus = Data2(c), !.DATA_To_Bus = res, !.DATA_VALID = TRUE]
<1>0. i = c0.Instruction
    BY DefaultsAre DEF BusFree, Calm
<1>1. Quiet(c, "cs_execute", i)
    BY DefaultsAre DEF Free, BusFree, Quiet, Calm
<1> HIDE DEF c, i, res
<1>2. Free(Branch(c), i)
    BY <1>1 DEF Quiet, Free, BusFree, Branch, Goto, Fields
<1>3. Quiet(f, "cs_execute", i) /\ f.PC = c.PC
    BY <1>1 DEF Quiet, Fields
<1> HIDE DEF f
<1>4. /\ Quiet(direct, "cs_fetch", i) /\ direct.PC = c.PC
      /\ direct.ADDR_Bus = IF r = 15 THEN res ELSE c.PC
    BY <1>3 DEF Quiet, Goto, Fields
<1>5. Free(indirect, i) /\ Free(stores, i)
    BY <1>3 DEF Quiet, Free, BusFree, Goto, Fields
<1> HIDE DEF direct, indirect, stores
<1>6. Free(fsm_write(direct, r, res), i)
    BY <1>4, FsmKeeps DEF Free, BusFree, Quiet
<1>7. r = 14 => Free(direct, i)
    BY <1>4 DEF Free, BusFree, Quiet
<1>8. \/ Execute(c0) = Branch(c)
      \/ r = 14 /\ Execute(c0) = direct
      \/ Execute(c0) = fsm_write(direct, r, res)
      \/ Execute(c0) = indirect
      \/ Execute(c0) = stores
    BY Zenon DEF Execute, c, i, res, f, direct, indirect, stores
<1> QED
    BY <1>0, <1>2, <1>5, <1>6, <1>7, <1>8

(* which takes it off, *)
LEMMA StoreFrees ==
    ASSUME NEW c0, BusFree(c0), c0.cpu_state = "cs_exepost_store_dst_indirect"
    PROVE  Free(Store(c0), c0.Instruction)
<1> DEFINE c == Defaults(c0)
           i == c.Instruction
           r == DstReg(c.Instruction)
           d == IF DstMode(c.Instruction) = amIndirPostInc THEN fsm_write(c, r, Wrap(Data2(c) + 1)) ELSE c
<1>0. i = c0.Instruction
    BY DefaultsAre DEF BusFree, Calm
<1>1. Quiet(c, "cs_exepost_store_dst_indirect", i)
    BY DefaultsAre DEF Free, BusFree, Quiet, Calm
<1>2. Quiet(d, "cs_exepost_store_dst_indirect", i)
    BY <1>1, WriteQuiet
<1> HIDE DEF c, i, d
<1>3. Free([Goto(d, "cs_fetch") EXCEPT !.ADDR_Bus = d.PC], i)
    BY <1>2 DEF Quiet, Free, BusFree, Goto, Fields
<1> QED
    BY <1>0, <1>3 DEF Store, c, d

(* or this one. *)
LEMMA SubFrees ==
    ASSUME NEW c, BusFree(c), c.cpu_state = "cs_exepost_sub"
    PROVE  Free(Sub(c), c.Instruction)
BY DefaultsAre DEF Free, BusFree, Sub, Goto, Fields, Calm

(* A state that is repeated keeps what it has. *)
LEMMA WaitFrees ==
    ASSUME NEW c, BusFree(c), c.cpu_state \in WaitStates
    PROVE  Free(Waiting(c), c.Instruction)
BY DefaultsAre DEF Free, BusFree, Waiting, WaitStates, Fields, Calm

(***************************************************************************)
(* The invariant                                                           *)
(***************************************************************************)

(* The CPU agrees with the emulator at every state of an instruction. *)
InStep ==
    /\ Machine(before) /\ BusFree(cpu)
    /\ ~ fetched => cpu.cpu_state = "cs_fetch" /\ Mirrors(cpu, before)
    /\ fetched => cpu.Instruction = Instr(before)
    /\ fetched /\ ~ Differ(Instr(before)) => Follows(cpu, before)

(* The CPU starts in the machine state in which the instruction begins. *)
LEMMA InitMirrors ==
    ASSUME NEW s, Machine(s)
    PROVE  Mirrors(InitialCPU(s), s)
<1> DEFINE c == InitialCPU(s)
<1>1. /\ DOMAIN c = Fields /\ c.SP = read_register(s, 13) /\ c.SR = read_register(s, 14)
      /\ c.PC = read_register(s, 15) /\ c.reg = s.reg /\ c.mem = s.mem
      /\ ~ c.reg_write_en /\ ~ c.DATA_VALID
    BY DEF InitialCPU, Fields
<1> HIDE DEF c
<1>2. /\ \A k : RegCell(c, k) = RegCell(s, k)
      /\ \A a : MemCell(c, a) = MemCell(s, a)
    BY <1>1 DEF RegCell, MemCell
<1>3. read_register(s, 13) = RegCell(s, 13) /\ read_register(s, 15) = RegCell(s, 15)
    BY DEF read_register, Index, SR
<1>4. Same(Visible(c), s)
    BY <1>1, <1>2, <1>3, VisibleIs DEF Same
<1>5. read_register(Visible(c), 14) = SetBit(read_register(s, 14), 0, 1)
    BY <1>1, VisibleIs, ReadStatus
<1>6. SetBit(read_register(s, 14), 0, 1) = read_register(s, 14)
    BY ReadStatus, MachineStatus, SetBit0
<1>7. Mirrors(c, s)
    BY <1>1, <1>4, <1>5, <1>6 DEF Mirrors, Alike
<1> QED
    BY <1>7 DEF c

(* So it starts in step, *)
LEMMA InitInStep == Init => InStep
<1> SUFFICES ASSUME Init PROVE InStep
    OBVIOUS
<1>1. Machine(before)
    BY StartsAssumption, StartMachine DEF Init
<1>2. Mirrors(cpu, before) /\ BusFree(cpu)
    <2>1. BusFree(InitialCPU(before))
        BY DEF InitialCPU, BusFree, Fields
    <2> QED
        BY <1>1, <2>1, InitMirrors DEF Init
<1>3. ~ fetched /\ cpu.cpu_state = "cs_fetch"
    BY DEF Init, InitialCPU
<1> QED
    BY <1>1, <1>2, <1>3 DEF InStep

(* The steps of the CPU after the fetch. *)
LEMMA AdvanceInStep ==
    ASSUME NEW c, NEW b, NEW state, NEW d, Machine(b), BusFree(c), c.Instruction = Instr(b), c.cpu_state = state,
           ~ Differ(Instr(b)) => Follows(c, b),
           \/ state = "cs_decode" /\ d = Decode(c)
           \/ state = "cs_exeprep_get_src_indirect" /\ d = GetSrc(c)
           \/ state = "cs_exeprep_get_dst_indirect" /\ d = GetDst(c)
           \/ state = "cs_execute" /\ d = Execute(c)
           \/ state = "cs_exepost_store_dst_indirect" /\ d = Store(c)
           \/ state = "cs_exepost_sub" /\ d = Sub(c)
    PROVE  /\ BusFree(d) /\ d.Instruction = Instr(b)
           /\ ~ Differ(Instr(b)) => Follows(d, b)
<1>0. DOMAIN c = Fields
    BY DEF BusFree
<1>1. CASE state = "cs_decode" /\ d = Decode(c)
    <2>1. ~ c.Delayed_PostInc
        BY <1>1 DEF BusFree
    <2>2. ~ Differ(Instr(b)) => Mirrors(c, E0(b))
        BY <1>1 DEF Follows
    <2> QED
        BY <1>1, <2>1, <2>2, DecodeFrees, DecodeFollows DEF Free
<1>2. CASE state = "cs_exeprep_get_src_indirect" /\ d = GetSrc(c)
    <2>1. ~ c.Delayed_PostInc
        BY <1>2 DEF BusFree
    <2>2. ~ Differ(Instr(b)) => AtGetSrc(c, b)
        BY <1>2 DEF Follows
    <2> QED
        BY <1>2, <2>1, <2>2, GetSrcFrees, GetSrcFollows DEF Free
<1>3. CASE state = "cs_exeprep_get_dst_indirect" /\ d = GetDst(c)
    <2>1. ~ Differ(Instr(b)) => AtGetDst(c, b)
        BY <1>3 DEF Follows
    <2>2. ~ Differ(Instr(b)) => AtExecute(d, b) /\ d.cpu_state = "cs_execute"
        BY <1>0, <1>3, <2>1, GetDstFollows
    <2>3. ~ Differ(Instr(b)) => Follows(d, b)
        BY <2>2 DEF Follows
    <2> QED
        BY <1>3, <2>3, GetDstFrees DEF Free
<1>4. CASE state = "cs_execute" /\ d = Execute(c)
    <2>1. ~ Differ(Instr(b)) => AtExecute(c, b)
        BY <1>4 DEF Follows
    <2> QED
        BY <1>0, <1>4, <2>1, ExecuteFrees, ExecuteFollows DEF Free
<1>5. CASE state = "cs_exepost_store_dst_indirect" /\ d = Store(c)
    <2>1. ~ Differ(Instr(b)) => AtStore(c, b)
        BY <1>5 DEF Follows
    <2> QED
        BY <1>5, <2>1, StoreFrees, StoreFollows DEF Free
<1>6. CASE state = "cs_exepost_sub" /\ d = Sub(c)
    <2>1. ~ Differ(Instr(b)) => AtSub(c, b)
        BY <1>6 DEF Follows
    <2> QED
        BY <1>6, <2>1, SubFrees, SubFollows DEF Free
<1> QED
    BY <1>1, <1>2, <1>3, <1>4, <1>5, <1>6

(* fetches in step, *)
LEMMA FetchInStep ==
    ASSUME NEW c, NEW b, Machine(b), BusFree(c), c.cpu_state = "cs_fetch", Mirrors(c, b)
    PROVE  /\ BusFree(Fetch(c)) /\ Fetch(c).Instruction = Instr(b)
           /\ Follows(Fetch(c), b)
<1>1. c.ADDR_Bus = c.PC
    BY DEF BusFree
<1>2. Fetch(c).Instruction = Instr(b) /\ Mirrors(Fetch(c), E0(b)) /\ Fetch(c).cpu_state = "cs_decode"
    BY <1>1, FetchFollows
<1> QED
    BY <1>2, FetchFrees DEF Follows

(* and stays in step with every cycle. *)
LEMMA StepInStep == InStep /\ [Next]_vars => InStep'
<1> SUFFICES ASSUME InStep, [Next]_vars PROVE InStep'
    OBVIOUS
<1>1. CASE FetchStep
    <2>1. ~ fetched /\ fetched' /\ before' = before /\ cpu' = Fetch(cpu) /\ cpu.cpu_state = "cs_fetch"
        BY <1>1 DEF FetchStep
    <2>2. Machine(before) /\ BusFree(cpu) /\ Mirrors(cpu, before)
        BY <2>1 DEF InStep
    <2>3. BusFree(cpu') /\ (cpu').Instruction = Instr(before) /\ Follows(cpu', before)
        BY <2>1, <2>2, FetchInStep
    <2> QED
        BY <2>1, <2>2, <2>3 DEF InStep
<1>2. ASSUME NEW state, NEW d, Step(state, d), state # "cs_fetch",
             \/ state = "cs_decode" /\ d = Decode(cpu)
             \/ state = "cs_exeprep_get_src_indirect" /\ d = GetSrc(cpu)
             \/ state = "cs_exeprep_get_dst_indirect" /\ d = GetDst(cpu)
             \/ state = "cs_execute" /\ d = Execute(cpu)
             \/ state = "cs_exepost_store_dst_indirect" /\ d = Store(cpu)
             \/ state = "cs_exepost_sub" /\ d = Sub(cpu)
      PROVE  InStep'
    <2>1. cpu.cpu_state = state /\ cpu' = d /\ before' = before /\ fetched' = fetched
        BY <1>2 DEF Step
    <2>2. fetched
        BY <1>2, <2>1 DEF InStep
    <2>3. /\ Machine(before) /\ BusFree(cpu) /\ cpu.Instruction = Instr(before)
          /\ ~ Differ(Instr(before)) => Follows(cpu, before)
        BY <2>2 DEF InStep
    <2>4. /\ BusFree(d) /\ d.Instruction = Instr(before)
          /\ ~ Differ(Instr(before)) => Follows(d, before)
        BY <1>2, <2>1, <2>3, AdvanceInStep
    <2> QED
        BY <2>1, <2>2, <2>3, <2>4 DEF InStep
<1>3. CASE Wait
    <2>1. /\ cpu.cpu_state \in WaitStates /\ (cpu.cpu_state = "cs_fetch" => ~ fetched)
          /\ cpu' = Waiting(cpu) /\ before' = before /\ fetched' = fetched
        BY <1>3 DEF Wait
    <2>2. Machine(before) /\ BusFree(cpu) /\ DOMAIN cpu = Fields
        BY DEF InStep, BusFree
    <2>3. BusFree(Waiting(cpu)) /\ Waiting(cpu).Instruction = cpu.Instruction
        BY <2>1, <2>2, WaitFrees DEF Free
    <2>4. CASE ~ fetched
        <3>1. Waiting(cpu) = Defaults(cpu) /\ Mirrors(cpu, before) /\ cpu.cpu_state = "cs_fetch"
            BY <2>4 DEF InStep, Waiting
        <3>2. Mirrors(Waiting(cpu), before) /\ Waiting(cpu).cpu_state = "cs_fetch"
            BY <2>2, <3>1, MirrorsDefaults, DefaultsAre
        <3> QED
            BY <2>1, <2>2, <2>3, <2>4, <3>2 DEF InStep
    <2>5. CASE fetched
        <3>1. cpu.Instruction = Instr(before) /\ (~ Differ(Instr(before)) => Follows(cpu, before))
            BY <2>5 DEF InStep
        <3>2. ~ Differ(Instr(before)) => Follows(Waiting(cpu), before)
            BY <2>1, <2>2, <2>5, <3>1, WaitFollows
        <3> QED
            BY <2>1, <2>2, <2>3, <2>5, <3>1, <3>2 DEF InStep
    <2> QED
        BY <2>4, <2>5
<1>4. CASE UNCHANGED vars
    BY <1>4 DEF vars, InStep
<1>5. CASE Step("cs_decode", Decode(cpu))
    BY <1>2, <1>5
<1>6. CASE Step("cs_exeprep_get_src_indirect", GetSrc(cpu))
    BY <1>2, <1>6
<1>7. CASE Step("cs_exeprep_get_dst_indirect", GetDst(cpu))
    BY <1>2, <1>7
<1>8. CASE Step("cs_execute", Execute(cpu))
    BY <1>2, <1>8
<1>9. CASE Step("cs_exepost_store_dst_indirect", Store(cpu))
    BY <1>2, <1>9
<1>10. CASE Step("cs_exepost_sub", Sub(cpu))
    BY <1>2, <1>10
<1> QED
    BY <1>1, <1>3, <1>4, <1>5, <1>6, <1>7, <1>8, <1>9, <1>10 DEF Next, Advance, Rest

(* The unused bits apart, the states are the same. *)
LEMMA NearIsSame ==
    ASSUME NEW s, NEW t, Near(s, t)
    PROVE  SameState(s, t)
BY DEF Near, Same, SameState, Used, SR

(* The invariant implies the agreement. *)
LEMMA InStepAgrees == InStep => AgreesWithEmulator
<1> SUFFICES ASSUME InStep, Done, ~ Differ(cpu.Instruction)
             PROVE  /\ (cpu.cpu_state = "cs_halt") = execute(before).halt
                    /\ SameState(Visible(cpu), execute(before).s)
    BY DEF AgreesWithEmulator
<1>1. fetched /\ cpu.cpu_state \in {"cs_fetch", "cs_halt"}
    BY DEF Done
<1>2. AtEnd(cpu, before)
    BY <1>1 DEF InStep, Follows
<1>3. SameState(Visible(cpu), execute(before).s)
    BY <1>2, NearIsSame DEF AtEnd
<1>4. (cpu.cpu_state = "cs_halt") = execute(before).halt
    <2> DEFINE op == Opcode(Instr(before))
               m == Command(Instr(before))
    <2>1. execute(before).halt = (op = 13 \/ (op = 14 /\ m \in {0, 1}))
        BY Zenon DEF execute, Instr
    <2>2. (cpu.cpu_state = "cs_halt") <=> execute(before).halt
        BY <1>2 DEF AtEnd
    <2> HIDE DEF op, m
    <2> QED
        BY <2>1, <2>2, Zenon
<1> QED
    BY <1>3, <1>4

(* The invariant holds throughout. *)
LEMMA AlwaysInStep == Spec => []InStep
BY InitInStep, StepInStep, PTL DEF Spec

(* On every path through the states of an instruction, whatever it is and  *)
(* whatever the machine state, the address of the next fetch is the PC     *)
(* that the instruction leaves.                                            *)
THEOREM CpuFetchesAtPC == Spec => []FetchesAtPC
<1>1. InStep => FetchesAtPC
    BY DEF InStep, BusFree, FetchesAtPC
<1> QED
    BY <1>1, AlwaysInStep, PTL

(* Every instruction ends with its delayed increment done and its store    *)
(* off the bus.                                                            *)
THEOREM CpuNothingPending == Spec => []NothingPending
<1>1. InStep => NothingPending
    BY DEF InStep, BusFree, NothingPending, Done
<1> QED
    BY <1>1, AlwaysInStep, PTL

(* Hardware and emulator are the same machine, for every instruction that  *)
(* Differ does not list and from every machine state: the CPU leaves the   *)
(* registers, flags and memory that execute() computes, and halts when the *)
(* emulator does, however long the memory makes it wait.                   *)
THEOREM CpuAgreesWithEmulator == Spec => []AgreesWithEmulator
BY InStepAgrees, AlwaysInStep, PTL

=============================================================================
