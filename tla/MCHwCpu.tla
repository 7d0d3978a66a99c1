------------------------------ MODULE MCHwCpu ------------------------------
(***************************************************************************)
(* HwCpu for TLC: the machine states in which an instruction starts.  The  *)
(* program lies at 16#9100, R14 selects a bank whose number makes @R14 an  *)
(* address in RAM, and no register points into the I/O area.               *)
(***************************************************************************)
EXTENDS HwCpu, TLC

Program == 37120
Selected == 36864                       \* R14: bank 16#90, no flags

(* Registers that were not set hold distinct addresses in RAM. *)
MCRegBase(k) == CASE k = SP -> 45056 [] k = SR -> Selected + 1 [] k = PC -> Program
                  [] OTHER -> 40961 + 5 * (k % 16)

(* Small numbers at even addresses, large ones at odd ones. *)
MCMemBase(a) == IF a % 2 = 0 THEN (a \div 2) % 7 ELSE 65535 - (a % 8)

MCStart(reg, instruction) == [reg |-> reg, mem |-> Program :> instruction]

Encode(op, sreg, smode, dreg, dmode) == 4096 * op + 256 * sreg + 64 * smode + 4 * dreg + dmode

Operations == 0 .. 12

(* Every operation on boundary values, in R0 and R1, under all flags that  *)
(* an operation reads or keeps (bits 1, 2 and 5).                          *)
Values == {0, 1, 2, 15, 16, 17, 255, 32767, 32768, 65535}
Window0 == 16 * 144

Arithmetic ==
    {MCStart((Window0 :> a) @@ (Window0 + 1 :> b) @@ (SR :> Selected + 1 + f), Encode(op, 0, 0, 1, 0)) :
        a \in Values, b \in Values, f \in {0, 2, 4, 6, 32, 38}, op \in Operations}

(* Every pair of operands. *)
Registers == {0, 1, 8, 13, 14, 15}
Modes == {amDirect, amIndirect, amIndirPostInc, amIndirPreDec}

Operands ==
    {MCStart(SR :> Selected + 1 + f, Encode(op, r, m, q, n)) :
        op \in Operations, r \in Registers, q \in Registers, m \in Modes, n \in Modes, f \in {0, 6}}

(* Shifts by a count in R0, of every kind of destination. *)
Shifts ==
    {MCStart((Window0 :> a) @@ (SR :> Selected + 1 + f), Encode(op, 0, 0, q, n)) :
        op \in {opcSHL, opcSHR}, a \in Values, q \in Registers, n \in Modes, f \in {0, 6}}

(* Every branch, with all flags clear and all flags set. *)
Branches ==
    {MCStart(SR :> Selected + 1 + f, Encode(opcBRA, r, m, 0, 0) + low) :
        r \in Registers, m \in Modes, low \in 0 .. 63, f \in {0, 62}}

(* HALT, RTI outside an interrupt, INCRB, DECRB *)
Controls ==
    {MCStart(SR :> 256 * bank + 5, Encode(opcCTRL, 0, 0, 0, 0) + 64 * command) :
        bank \in {0, 1, 254, 255}, command \in {0, 1, 3, 4}}

MCStarts == {Arithmetic, Operands, Shifts, Branches, Controls}
=============================================================================
