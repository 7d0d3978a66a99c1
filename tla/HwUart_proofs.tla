---------------------------- MODULE HwUart_proofs ----------------------------
(***************************************************************************)
(* Theorems about HwUart: the handshakes of the UART deliver each          *)
(* character and each byte once and in order, and drop none, for every     *)
(* depth of the ring buffer and any number of characters.                  *)
(***************************************************************************)
EXTENDS HwUart, TLAPS

Indices == 0 .. RAM_DEPTH - 1

(* The characters that have left the ring. *)
Popped == accepted - FillCount

(* How far a cell is from the tail. *)
Distance(t, j) == IF j < t THEN j - t + RAM_DEPTH ELSE j - t
Offset(j) == Distance(tail, j)

(* The receiver only begins a character when there is room for it. *)
ReceiverInv ==
    /\ accepted <= MaxChars
    /\ rx # "idle" => ~full /\ accepted < MaxChars

(* The transmit flag is up in one cycle only, the fetch after the store,   *)
(* and a program that has seen the transmitter ready still finds it so.    *)
SendInv ==
    /\ byte_tx_ready => cpu = "fetch" /\ tx_ready /\ ~seen.tx
    /\ seen.tx => tx_ready
    /\ cpu = "store" => instr = "write"
    /\ instr = "write" /\ cpu \in {"execute", "store"} => seen.tx

(* The ring is told to advance in one cycle only, the execution of the     *)
(* instruction that has read the character.                                *)
ReadInv ==
    /\ reading <=> (cpu = "execute" /\ instr = "read")
    /\ rd_valid => cpu = "fetch"
    /\ cpu = "get_src" => instr \in {"read", "status"}
    /\ cpu = "get_src" /\ instr = "read" => seen.rx
    /\ reading => ~empty /\ ~seen.rx

(* The cells from the tail on hold the characters that are still to be     *)
(* read, the first one is in the output register when the program has      *)
(* seen that there is one, and the program has got all that have left.     *)
RingInv ==
    /\ \A j \in Indices : Offset(j) < FillCount => ram[j] = Popped + 1 + Offset(j)
    /\ seen.rx => ~empty /\ rd_data = Popped + 1
    /\ taken = IF reading THEN Popped + 1 ELSE Popped

IInv ==
    /\ TypeOK /\ ReceiverInv /\ SendInv /\ ReadInv /\ RingInv
    /\ R8 = taken /\ SentInOrder

-----------------------------------------------------------------------------
(* Arithmetic of the ring *)

LEMMA RingArith ==
    ASSUME TypeOK
    PROVE  /\ FillCount \in 0 .. RAM_DEPTH - 1
           /\ Incr(head) \in Indices /\ Incr(tail) \in Indices
           /\ empty <=> FillCount = 0
           /\ full <=> FillCount = RAM_DEPTH - 1
           /\ Popped \in Int
           /\ \A j \in Indices : Offset(j) \in Indices
           /\ \A j \in Indices : Offset(j) = FillCount => j = head
           /\ Offset(head) = FillCount
           /\ \A j \in Indices : Offset(j) = 0 <=> j = tail
BY DepthAssumption DEF TypeOK, FillCount, Incr, empty, full, Popped, Offset, Distance, Indices

LEMMA DistanceMoves ==
    ASSUME NEW h \in Indices, NEW t \in Indices
    PROVE  /\ Distance(t, h) \in Indices
           /\ Distance(t, h) < RAM_DEPTH - 1 => Distance(t, Incr(h)) = Distance(t, h) + 1
           /\ h # t => Distance(Incr(t), h) = Distance(t, h) - 1
           /\ Distance(Incr(t), t) = RAM_DEPTH - 1
           /\ Distance(t, t) = 0
           /\ Incr(h) \in Indices /\ Incr(h) # h
BY DepthAssumption DEF Distance, Incr, Indices

(* The indices move by one cell: the ring grows and shrinks by one. *)
LEMMA RingMoves ==
    ASSUME TypeOK, head' \in {head, Incr(head)}, tail' \in {tail, Incr(tail)},
           head' # head => ~full, tail' # tail => ~empty
    PROVE  /\ FillCount' = FillCount + (IF head' = head THEN 0 ELSE 1)
                                     - (IF tail' = tail THEN 0 ELSE 1)
           /\ \A j \in Indices :
                  IF tail' = tail THEN Offset(j)' = Offset(j)
                  ELSE IF j = tail THEN Offset(j)' = RAM_DEPTH - 1
                  ELSE Offset(j)' = Offset(j) - 1
<1>1. RAM_DEPTH \in Nat /\ RAM_DEPTH >= 2 /\ head \in Indices /\ tail \in Indices
    BY DepthAssumption DEF TypeOK, Indices
<1>2. FillCount = Distance(tail, head) /\ FillCount' = Distance(tail', head')
    BY DEF FillCount, Distance
<1>3. head' # head => Distance(tail, head) < RAM_DEPTH - 1
    BY <1>1, <1>2, DistanceMoves DEF full, Indices
<1>4. tail' # tail => head # tail
    BY <1>1, <1>2, DistanceMoves DEF empty
<1>5. Distance(tail', head) = Distance(tail, head) - (IF tail' = tail THEN 0 ELSE 1)
    BY <1>1, <1>4, DistanceMoves DEF Indices
<1>6. Distance(tail', head') = Distance(tail', head) + (IF head' = head THEN 0 ELSE 1)
    <2>1. tail' \in Indices /\ Distance(tail, head) \in Indices
        BY <1>1, DistanceMoves
    <2>2. head' # head => Distance(tail', head) < RAM_DEPTH - 1
        BY <1>1, <1>3, <1>5, <2>1 DEF Indices
    <2>3. Distance(tail', head) \in Indices
        BY <1>1, <2>1, DistanceMoves
    <2> QED
        BY <1>1, <2>1, <2>2, <2>3, DistanceMoves DEF Indices
<1>7. ASSUME NEW j \in Indices
      PROVE  IF tail' = tail THEN Offset(j)' = Offset(j)
             ELSE IF j = tail THEN Offset(j)' = RAM_DEPTH - 1
             ELSE Offset(j)' = Offset(j) - 1
    <2>1. IF tail' = tail THEN Distance(tail', j) = Distance(tail, j)
          ELSE IF j = tail THEN Distance(tail', j) = RAM_DEPTH - 1
          ELSE Distance(tail', j) = Distance(tail, j) - 1
        BY <1>1, DistanceMoves
    <2> QED
        BY <2>1 DEF Offset
<1>8. Distance(tail, head) \in Int
    BY <1>1, DistanceMoves DEF Indices
<1> QED
    BY <1>2, <1>5, <1>6, <1>7, <1>8

-----------------------------------------------------------------------------
(* What the lines do in one cycle *)

LEMMA LinesStep ==
    ASSUME TypeOK, Clock
    PROVE  /\ reading' <=> (~rd_valid /\ ~rd_valid' /\ (reading \/ Addressed("read")))
           /\ rd_valid' <=> (reading /\ ~empty)
           /\ byte_tx_ready' <=> (tx_ready' /\ (uart_we \/ byte_tx_ready))
           /\ tx_ready /\ byte_tx_ready => ~tx_ready'
           /\ tx_ready /\ ~byte_tx_ready => tx_ready'
           /\ reading' \in BOOLEAN /\ rd_valid' \in BOOLEAN
           /\ byte_tx_ready' \in BOOLEAN /\ tx_ready' \in BOOLEAN
<1>1. reading' <=> (~rd_valid /\ ~rd_valid' /\ (reading \/ Addressed("read")))
    BY Zenon DEF Clock, HandleReading
<1>2. rd_valid' <=> (reading /\ ~empty)
    BY Zenon DEF Clock, RingBuffer, rd_en
<1>3. byte_tx_ready' <=> (tx_ready' /\ (uart_we \/ byte_tx_ready))
    BY Zenon DEF Clock, HandleTxReady
<1>4. tx_ready' \in IF tx_ready THEN {~byte_tx_ready} ELSE BOOLEAN
    BY Zenon DEF Clock, Transmit
<1>5. reading' \in BOOLEAN /\ rd_valid' \in BOOLEAN /\ byte_tx_ready' \in BOOLEAN
    BY Zenon DEF Clock, HandleReading, HandleTxReady, RingBuffer
<1>6. tx_ready \in BOOLEAN /\ byte_tx_ready \in BOOLEAN
    BY Zenon DEF TypeOK
<1>7. CASE tx_ready
    <2>1. tx_ready' = ~byte_tx_ready
        BY <1>4, <1>7, Zenon
    <2>2. tx_ready' <=> ~byte_tx_ready
        BY <2>1, Zenon
    <2>3. tx_ready' \in BOOLEAN
        BY <2>1, Zenon
    <2> QED
        BY <1>1, <1>2, <1>3, <1>5, <2>2, <2>3, Zenon
<1>8. CASE ~tx_ready
    <2>1. tx_ready' \in BOOLEAN
        BY <1>4, <1>8, Zenon
    <2> QED
        BY <1>1, <1>2, <1>3, <1>5, <1>8, <2>1, Zenon
<1> QED
    BY <1>7, <1>8, Zenon

(* What the CPU does in one cycle, when no wait state holds it in get_src. *)
LEMMA CpuCases ==
    ASSUME TypeOK, ReadInv, Clock
    PROVE  \/ /\ cpu = "fetch" /\ cpu' \in {"fetch", "decode"}
              /\ UNCHANGED <<instr, seen, R8, taken, written>>
           \/ /\ cpu = "decode" /\ UNCHANGED <<seen, R8, taken, written>>
              /\ \/ instr' = "other" /\ cpu' = "execute"
                 \/ instr' = "status" /\ cpu' = "get_src"
                 \/ instr' = "read" /\ cpu' = "get_src" /\ seen.rx
                 \/ instr' = "write" /\ cpu' = "execute" /\ seen.tx
           \/ /\ cpu = "get_src" /\ cpu' = "execute" /\ instr = "status"
              /\ seen' = Status /\ UNCHANGED <<instr, R8, taken, written>>
           \/ /\ cpu = "get_src" /\ cpu' = "execute" /\ instr = "read"
              /\ seen' = [seen EXCEPT !.rx = FALSE] /\ R8' = rd_data /\ taken' = taken + 1
              /\ UNCHANGED <<instr, written>>
           \/ /\ cpu = "execute" /\ cpu' = IF instr = "write" THEN "store" ELSE "fetch"
              /\ UNCHANGED <<instr, seen, R8, taken, written>>
           \/ /\ cpu = "store" /\ cpu' = "fetch"
              /\ seen' = [seen EXCEPT !.tx = FALSE] /\ written' = written + 1
              /\ UNCHANGED <<instr, R8, taken>>
<1>1. cpu = "get_src" => ~uart_cpu_ws /\ instr \in {"read", "status"}
    BY DEF ReadInv, uart_cpu_ws
<1> QED
    BY <1>1 DEF Clock, CpuStep, Goto, Decode

(* The bits of the status register, as the program keeps them. *)
LEMMA SeenStep ==
    ASSUME TypeOK
    PROVE  /\ seen \in [rx : BOOLEAN, tx : BOOLEAN]
           /\ Status \in [rx : BOOLEAN, tx : BOOLEAN]
           /\ Status.rx <=> ~empty
           /\ Status.tx <=> tx_ready
           /\ [seen EXCEPT !.rx = FALSE] \in [rx : BOOLEAN, tx : BOOLEAN]
           /\ [seen EXCEPT !.tx = FALSE] \in [rx : BOOLEAN, tx : BOOLEAN]
           /\ ~[seen EXCEPT !.rx = FALSE].rx
           /\ [seen EXCEPT !.rx = FALSE].tx = seen.tx
           /\ ~[seen EXCEPT !.tx = FALSE].tx
           /\ [seen EXCEPT !.tx = FALSE].rx = seen.rx
BY DEF TypeOK, Status, empty

-----------------------------------------------------------------------------
(* The handshakes: each flag is up in the cycle it is meant for. *)

LEMMA Handshakes ==
    ASSUME TypeOK, SendInv, ReadInv, Clock
    PROVE  /\ reading' <=> (cpu = "get_src" /\ instr = "read")
           /\ rd_valid' <=> reading
           /\ byte_tx_ready' <=> cpu = "store"
           /\ tx_ready /\ ~byte_tx_ready => tx_ready'
           /\ cpu = "store" => tx_ready /\ ~byte_tx_ready
<1>1. Addressed("read") <=> (cpu \in {"get_src", "execute"} /\ instr = "read")
    BY Zenon DEF Addressed
<1>2. uart_we <=> cpu = "store"
    BY Zenon DEF uart_we
<1>3. rd_valid' <=> reading
    BY LinesStep, Zenon DEF ReadInv
<1>4. rd_valid => cpu = "fetch"
    BY Zenon DEF ReadInv
<1>5. reading <=> (cpu = "execute" /\ instr = "read")
    BY Zenon DEF ReadInv
<1>6. reading' <=> (~rd_valid /\ ~reading /\ (reading \/ Addressed("read")))
    BY <1>3, LinesStep, Zenon
<1>7. cpu = "get_src" => cpu # "execute" /\ cpu # "fetch" /\ cpu # "store"
    OBVIOUS
<1>8. reading' <=> (cpu = "get_src" /\ instr = "read")
    BY <1>1, <1>4, <1>5, <1>6, <1>7, Zenon
<1>9. cpu = "store" => tx_ready /\ ~byte_tx_ready
    <2>1. cpu = "store" => cpu # "fetch" /\ cpu \in {"execute", "store"}
        OBVIOUS
    <2> QED
        BY <2>1, Zenon DEF SendInv
<1>10. byte_tx_ready' <=> cpu = "store"
    BY <1>2, <1>9, LinesStep, Zenon DEF SendInv
<1> QED
    BY <1>3, <1>8, <1>9, <1>10, LinesStep, Zenon

(* The ring: a character that was received is stored, one that was read    *)
(* leaves.                                                                 *)
LEMMA RingStep ==
    ASSUME TypeOK, ReceiverInv, ReadInv, Clock
    PROVE  /\ FillCount' = FillCount + (IF rx = "enable" THEN 1 ELSE 0)
                                     - (IF reading THEN 1 ELSE 0)
           /\ \A j \in Indices :
                  IF ~reading THEN Offset(j)' = Offset(j)
                  ELSE IF j = tail THEN Offset(j)' = RAM_DEPTH - 1
                  ELSE Offset(j)' = Offset(j) - 1
           /\ accepted' = accepted + (IF rx = "enable" THEN 1 ELSE 0)
           /\ ram' = [ram EXCEPT ![head] = IF rx = "enable" THEN accepted + 1 ELSE Junk]
           /\ rd_data' = ram[tail]
           /\ head' \in Indices /\ tail' \in Indices
<1>1. wr_en <=> rx = "enable"
    <2>1. rx = "enable" => rx # "idle"
        OBVIOUS
    <2> QED
        BY <2>1, Zenon DEF ReceiverInv, wr_en, rx_enable
<1>2. head' = (IF rx = "enable" THEN Incr(head) ELSE head) /\ (rx = "enable" => ~full)
    BY <1>1, Zenon DEF Clock, RingBuffer, wr_en
<1>3. tail' = (IF reading THEN Incr(tail) ELSE tail) /\ (reading => ~empty)
    BY Zenon DEF Clock, RingBuffer, rd_en, ReadInv
<1>4. head \in Indices /\ tail \in Indices
    BY DEF TypeOK, Indices
<1>5. Incr(head) # head /\ Incr(tail) # tail /\ Incr(head) \in Indices /\ Incr(tail) \in Indices
    BY <1>4, DistanceMoves
<1>6. (head' = head <=> rx # "enable") /\ (tail' = tail <=> ~reading)
    BY <1>2, <1>3, <1>5, Zenon
<1>7. head' \in {head, Incr(head)} /\ tail' \in {tail, Incr(tail)}
    BY <1>2, <1>3, Zenon
<1>8. (head' # head => ~full) /\ (tail' # tail => ~empty)
    BY <1>2, <1>3, <1>6, Zenon
<1>9. /\ FillCount' = FillCount + (IF head' = head THEN 0 ELSE 1)
                                - (IF tail' = tail THEN 0 ELSE 1)
      /\ \A j \in Indices :
             IF tail' = tail THEN Offset(j)' = Offset(j)
             ELSE IF j = tail THEN Offset(j)' = RAM_DEPTH - 1
             ELSE Offset(j)' = Offset(j) - 1
    BY <1>7, <1>8, RingMoves
<1>10. accepted' = (IF rx = "enable" THEN accepted + 1 ELSE accepted)
    BY <1>1, Zenon DEF Clock, RingBuffer
<1>11. /\ ram' = [ram EXCEPT ![head] = IF rx = "enable" THEN accepted + 1 ELSE Junk]
       /\ rd_data' = ram[tail]
    BY Zenon DEF Clock, RingBuffer, rx_enable
<1>12. (IF head' = head THEN 0 ELSE 1) = (IF rx = "enable" THEN 1 ELSE 0)
    BY <1>6, Zenon
<1>13. (IF tail' = tail THEN 0 ELSE 1) = (IF reading THEN 1 ELSE 0)
    BY <1>6, Zenon
<1>14. FillCount' = FillCount + (IF rx = "enable" THEN 1 ELSE 0) - (IF reading THEN 1 ELSE 0)
    BY <1>9, <1>12, <1>13, Zenon
<1>15. \A j \in Indices : IF ~reading THEN Offset(j)' = Offset(j)
                          ELSE IF j = tail THEN Offset(j)' = RAM_DEPTH - 1
                          ELSE Offset(j)' = Offset(j) - 1
    BY <1>6, <1>9, Zenon
<1>16. accepted' = accepted + (IF rx = "enable" THEN 1 ELSE 0)
    BY <1>10 DEF TypeOK
<1>17. head' \in Indices /\ tail' \in Indices
    BY <1>4, <1>5, <1>7
<1> QED
    BY <1>11, <1>14, <1>15, <1>16, <1>17, Zenon

-----------------------------------------------------------------------------
(* Each part of the invariant after one cycle *)

LEMMA ReceiverStep ==
    ASSUME TypeOK, ReceiverInv, ReadInv, Clock
    PROVE  ReceiverInv'
<1>1. /\ FillCount \in Int /\ accepted \in Nat /\ MaxChars \in Nat
      /\ RAM_DEPTH \in Nat
    BY RingArith, DepthAssumption, BoundsAssumption DEF TypeOK
<1>2. /\ FillCount' = FillCount + (IF rx = "enable" THEN 1 ELSE 0) - (IF reading THEN 1 ELSE 0)
      /\ accepted' = accepted + (IF rx = "enable" THEN 1 ELSE 0)
    BY RingStep, Zenon
<1>3. accepted' <= MaxChars
    BY <1>1, <1>2 DEF ReceiverInv
<1>4. ASSUME rx' # "idle" PROVE ~full' /\ accepted' < MaxChars
    <2>1. rx # "enable" /\ (rx # "idle" \/ (~cts /\ accepted < MaxChars))
        BY <1>4 DEF Clock, Receive
    <2>2. ~full /\ accepted < MaxChars
        BY <2>1, Zenon DEF ReceiverInv, cts
    <2>3. FillCount' <= FillCount /\ accepted' = accepted
        <3> HIDE DEF FillCount
        <3>1. CASE reading
            BY <1>1, <1>2, <2>1, <3>1
        <3>2. CASE ~reading
            BY <1>1, <1>2, <2>1, <3>2
        <3> QED
            BY <3>1, <3>2
    <2>4. FillCount' \in Int
        <3>1. CASE reading
            BY <1>1, <1>2, <3>1
        <3>2. CASE ~reading
            BY <1>1, <1>2, <3>2
        <3> QED
            BY <3>1, <3>2
    <2>5. ~(FillCount >= RAM_DEPTH - 1)
        BY <2>2, Zenon DEF full
    <2>6. ~(FillCount' >= RAM_DEPTH - 1)
        BY <1>1, <2>3, <2>4, <2>5
    <2> QED
        BY <2>2, <2>3, <2>6 DEF full
<1> QED
    BY <1>3, <1>4, Zenon DEF ReceiverInv

LEMMA SendStep ==
    ASSUME TypeOK, SendInv, ReadInv, Clock
    PROVE  SendInv'
<1>1. byte_tx_ready' => cpu' = "fetch" /\ tx_ready' /\ ~seen'.tx
    <2>1. ASSUME byte_tx_ready' PROVE cpu = "store"
        BY <2>1, Handshakes, Zenon
    <2>2. ASSUME cpu = "store" PROVE cpu' = "fetch" /\ seen' = [seen EXCEPT !.tx = FALSE]
        BY <2>2, CpuCases
    <2>3. ASSUME cpu = "store" PROVE tx_ready'
        BY <2>3, Handshakes, Zenon
    <2> QED
        BY <2>1, <2>2, <2>3, SeenStep, Zenon
<1>2. seen'.tx => tx_ready'
    <2>1. \/ seen' = seen
          \/ cpu = "get_src" /\ (seen' = Status \/ seen' = [seen EXCEPT !.rx = FALSE])
          \/ seen' = [seen EXCEPT !.tx = FALSE]
        BY CpuCases
    <2>2. seen.tx => tx_ready /\ ~byte_tx_ready
        BY Zenon DEF SendInv
    <2>3. cpu = "get_src" => ~byte_tx_ready
        <3>1. cpu = "get_src" => cpu # "fetch"
            OBVIOUS
        <3> QED
            BY <3>1, Zenon DEF SendInv
    <2>4. seen'.tx => tx_ready /\ ~byte_tx_ready
        BY <2>1, <2>2, <2>3, SeenStep, Zenon
    <2> QED
        BY <2>4, Handshakes, Zenon
<1>3. cpu' = "store" => instr' = "write"
    BY CpuCases
<1>4. ASSUME instr' = "write", cpu' \in {"execute", "store"} PROVE seen'.tx
    <2>1. seen' = seen /\ (seen.tx \/ (instr = "write" /\ cpu \in {"execute", "store"}))
        BY <1>4, CpuCases
    <2> QED
        BY <2>1, Zenon DEF SendInv
<1> QED
    BY <1>1, <1>2, <1>3, <1>4, Zenon DEF SendInv

LEMMA ReadStep ==
    ASSUME TypeOK, ReceiverInv, SendInv, ReadInv, RingInv, Clock
    PROVE  ReadInv'
<1>1. reading' <=> (cpu = "get_src" /\ instr = "read")
    BY Handshakes, Zenon
<1>2. (cpu = "get_src" /\ instr = "read") <=> (cpu' = "execute" /\ instr' = "read")
    BY CpuCases
<1>3. reading => cpu' = "fetch"
    <2>1. ASSUME cpu = "execute", instr = "read" PROVE cpu' = "fetch"
        BY <2>1, CpuCases
    <2> QED
        BY <2>1, Zenon DEF ReadInv
<1>4. cpu' = "get_src" => instr' \in {"read", "status"}
    BY CpuCases
<1>5. cpu' = "get_src" /\ instr' = "read" => seen'.rx
    <2>1. cpu' = "get_src" /\ instr' = "read" => seen' = seen /\ seen.rx
        BY CpuCases
    <2> QED
        BY <2>1, Zenon
<1>6. ASSUME cpu = "get_src", instr = "read" PROVE ~empty' /\ ~seen'.rx
    <2>1. seen' = [seen EXCEPT !.rx = FALSE]
        BY <1>6, CpuCases
    <2>2. ~reading
        <3>1. cpu # "execute"
            BY <1>6
        <3> QED
            BY <3>1, Zenon DEF ReadInv
    <2>3. ~empty
        BY <1>6, Zenon DEF ReadInv, RingInv
    <2>4. FillCount' = FillCount + (IF rx = "enable" THEN 1 ELSE 0) - 0
        BY <2>2, RingStep, Zenon
    <2>5. FillCount \in Nat /\ FillCount # 0
        BY <2>3, RingArith, DepthAssumption
    <2>6. FillCount' # 0
        BY <2>4, <2>5
    <2> QED
        BY <2>1, <2>6, SeenStep, Zenon DEF empty
<1> QED
    BY <1>1, <1>2, <1>3, <1>4, <1>5, <1>6, Handshakes, Zenon DEF ReadInv

(* One character leaves with each read that is executed. *)
LEMMA PoppedStep ==
    ASSUME TypeOK, ReceiverInv, ReadInv, Clock
    PROVE  /\ Popped \in Int /\ Popped' \in Int /\ FillCount \in Nat /\ accepted \in Nat
           /\ Popped' = IF reading THEN Popped + 1 ELSE Popped
           /\ Popped = accepted - FillCount
<1>1. FillCount \in Nat /\ accepted \in Nat
    BY RingArith, DepthAssumption DEF TypeOK
<1>2. /\ FillCount' = FillCount + (IF rx = "enable" THEN 1 ELSE 0) - (IF reading THEN 1 ELSE 0)
      /\ accepted' = accepted + (IF rx = "enable" THEN 1 ELSE 0)
    BY RingStep, Zenon
<1>3. Popped = accepted - FillCount /\ Popped' = accepted' - FillCount'
    BY Zenon DEF Popped
<1>4. CASE reading
    BY <1>1, <1>2, <1>3, <1>4
<1>5. CASE ~reading
    BY <1>1, <1>2, <1>3, <1>5
<1> QED
    BY <1>1, <1>3, <1>4, <1>5

LEMMA CellsStep ==
    ASSUME TypeOK, ReceiverInv, ReadInv, RingInv, Clock,
           NEW j \in Indices, Offset(j)' < FillCount'
    PROVE  ram'[j] = Popped' + 1 + Offset(j)'
<1> DEFINE W == IF rx = "enable" THEN 1 ELSE 0
<1>1. /\ RAM_DEPTH \in Nat /\ FillCount \in 0 .. RAM_DEPTH - 1 /\ head \in Indices
      /\ Offset(j) \in Indices /\ W \in {0, 1} /\ FillCount' \in Int
    <2>1. W \in {0, 1}
        BY Zenon
    <2>2. FillCount \in Int
        BY RingArith
    <2>3. FillCount' = FillCount + W - (IF reading THEN 1 ELSE 0)
        BY RingStep, Zenon
    <2> HIDE DEF W
    <2>4. FillCount' \in Int
        <3>1. CASE reading
            BY <2>1, <2>2, <2>3, <3>1
        <3>2. CASE ~reading
            BY <2>1, <2>2, <2>3, <3>2
        <3> QED
            BY <3>1, <3>2
    <2> QED
        BY <2>1, <2>4, RingArith, DepthAssumption DEF TypeOK, Indices
<1>2. /\ FillCount' = FillCount + W - (IF reading THEN 1 ELSE 0)
      /\ accepted' = accepted + W
    BY RingStep, Zenon
<1>3. FillCount' <= RAM_DEPTH - 1
    <2>1. rx = "enable" => ~(FillCount >= RAM_DEPTH - 1)
        <3>1. rx = "enable" => rx # "idle"
            OBVIOUS
        <3> QED
            BY <3>1, Zenon DEF ReceiverInv, full
    <2>2. W = 1 => rx = "enable"
        BY SMT
    <2> HIDE DEF W
    <2>3. CASE reading
        BY <1>1, <1>2, <2>3
    <2>4. CASE ~reading
        BY <1>1, <1>2, <2>1, <2>2, <2>4
    <2> QED
        BY <2>3, <2>4
<1>4. Offset(j)' = Offset(j) - (IF reading THEN 1 ELSE 0)
    <2>1. IF ~reading THEN Offset(j)' = Offset(j)
          ELSE IF j = tail THEN Offset(j)' = RAM_DEPTH - 1
          ELSE Offset(j)' = Offset(j) - 1
        BY RingStep, Zenon
    <2>2. Offset(j)' # RAM_DEPTH - 1
        BY <1>1, <1>3
    <2>3. CASE reading
        BY <2>1, <2>2, <2>3
    <2>4. CASE ~reading
        BY <1>1, <2>1, <2>4 DEF Indices
    <2> QED
        BY <2>3, <2>4
<1> HIDE DEF W
<1>5. Offset(j) < FillCount + W
    <2>1. CASE reading
        BY <1>1, <1>2, <1>4, <2>1 DEF Indices
    <2>2. CASE ~reading
        BY <1>1, <1>2, <1>4, <2>2 DEF Indices
    <2> QED
        BY <2>1, <2>2
<1>6. Popped' + 1 + Offset(j)' = Popped + 1 + Offset(j)
    <2>1. CASE reading
        BY <1>1, <1>4, <2>1, PoppedStep DEF Indices
    <2>2. CASE ~reading
        BY <1>1, <1>4, <2>2, PoppedStep DEF Indices
    <2> QED
        BY <2>1, <2>2
<1>7. ram \in [Indices -> 0 .. MaxChars + 1]
    BY DEF TypeOK, Indices
<1>8. ram' = [ram EXCEPT ![head] = IF rx = "enable" THEN accepted + 1 ELSE Junk]
    BY RingStep, Zenon
<1>9. CASE Offset(j) = FillCount
    <2>1. j = head
        BY <1>9, RingArith
    <2>2. W = 1
        BY <1>1, <1>5, <1>9
    <2>3. rx = "enable"
        BY <2>2 DEF W
    <2>4. ram'[j] = accepted + 1
        BY <1>1, <1>7, <1>8, <2>1, <2>3
    <2> QED
        BY <1>6, <1>9, <2>4, PoppedStep
<1>10. CASE Offset(j) # FillCount
    <2>1. Offset(j) < FillCount
        BY <1>1, <1>5, <1>10 DEF Indices
    <2>2. j # head
        BY <1>10, RingArith
    <2>3. ram'[j] = ram[j]
        BY <1>7, <1>8, <2>2
    <2>4. ram[j] = Popped + 1 + Offset(j)
        BY <2>1, Zenon DEF RingInv
    <2> QED
        BY <1>6, <2>3, <2>4
<1> QED
    BY <1>9, <1>10

LEMMA RingInvStep ==
    ASSUME TypeOK, ReceiverInv, SendInv, ReadInv, RingInv, R8 = taken, Clock
    PROVE  RingInv' /\ R8' = taken'
<1>1. reading' <=> (cpu = "get_src" /\ instr = "read")
    BY Handshakes, Zenon
<1>2. reading => cpu = "execute"
    BY Zenon DEF ReadInv
<1>3. \A j \in Indices : Offset(j)' < FillCount' => ram'[j] = Popped' + 1 + Offset(j)'
    BY CellsStep, Zenon
<1>4. ASSUME seen'.rx PROVE ~empty' /\ rd_data' = Popped' + 1
    <2>1. \/ seen' = seen
          \/ cpu = "get_src" /\ seen' = Status
          \/ seen' = [seen EXCEPT !.rx = FALSE]
          \/ seen' = [seen EXCEPT !.tx = FALSE]
        BY CpuCases
    <2>2. seen.rx \/ (cpu = "get_src" /\ ~empty)
        BY <1>4, <2>1, SeenStep, Zenon
    <2>3. cpu = "get_src" => cpu # "execute"
        OBVIOUS
    <2>4. ~empty /\ ~reading
        BY <1>2, <2>2, <2>3, Zenon DEF RingInv, ReadInv
    <2>5. Popped' = Popped
        BY <2>4, PoppedStep, Zenon
    <2>6. FillCount \in Nat /\ FillCount # 0 /\ tail \in Indices /\ Offset(tail) = 0
        BY <2>4, RingArith, DepthAssumption DEF TypeOK, Indices
    <2>7. ram[tail] = Popped + 1
        <3>1. Offset(tail) < FillCount
            BY <2>6
        <3>2. ram[tail] = Popped + 1 + Offset(tail)
            BY <2>6, <3>1, Zenon DEF RingInv
        <3> QED
            BY <2>6, <3>2, PoppedStep
    <2>8. rd_data' = Popped' + 1
        BY <2>5, <2>7, RingStep, Zenon
    <2>9. FillCount' = FillCount + (IF rx = "enable" THEN 1 ELSE 0) - 0
        BY <2>4, RingStep, Zenon
    <2>10. FillCount' # 0
        BY <2>6, <2>9
    <2> QED
        BY <2>8, <2>10, Zenon DEF empty
<1>5. taken' = (IF reading' THEN Popped' + 1 ELSE Popped') /\ R8' = taken'
    <2>1. taken = IF reading THEN Popped + 1 ELSE Popped
        BY Zenon DEF RingInv
    <2>2. CASE cpu = "get_src" /\ instr = "read"
        <3>1. R8' = rd_data /\ taken' = taken + 1
            BY <2>2, CpuCases
        <3>2. cpu # "execute"
            BY <2>2
        <3>3. ~reading /\ seen.rx
            BY <1>2, <2>2, <3>2, Zenon DEF ReadInv
        <3>4. rd_data = Popped + 1
            BY <3>3, Zenon DEF RingInv
        <3>5. Popped' = Popped /\ taken = Popped
            BY <2>1, <3>3, PoppedStep, Zenon
        <3>6. reading'
            BY <1>1, <2>2, Zenon
        <3> QED
            BY <3>1, <3>4, <3>5, <3>6, Zenon
    <2>3. CASE ~(cpu = "get_src" /\ instr = "read")
        <3>1. R8' = R8 /\ taken' = taken
            BY <2>3, CpuCases
        <3>2. ~reading'
            BY <1>1, <2>3, Zenon
        <3>3. taken = Popped'
            BY <2>1, PoppedStep, Zenon
        <3> QED
            BY <3>1, <3>2, <3>3, Zenon
    <2> QED
        BY <2>2, <2>3, Zenon
<1> QED
    BY <1>3, <1>4, <1>5, Zenon DEF RingInv

LEMMA SentStep ==
    ASSUME TypeOK, SendInv, ReadInv, SentInOrder, Clock
    PROVE  SentInOrder'
<1>1. /\ byte_tx_ready' <=> cpu = "store"
      /\ cpu = "store" => ~byte_tx_ready
    BY Handshakes, Zenon
<1>2. sent' = IF tx_ready /\ byte_tx_ready THEN written ELSE sent
    BY Zenon DEF Clock, Transmit, tx_enable
<1>3. byte_tx_ready => tx_ready
    BY Zenon DEF SendInv
<1>4. cpu = "store" => written' = written + 1
    BY CpuCases
<1>5. cpu # "store" => written' = written
    BY CpuCases
<1>6. written = IF byte_tx_ready THEN sent + 1 ELSE sent
    BY Zenon DEF SentInOrder
<1>7. sent' = written
    BY <1>2, <1>3, <1>6, Zenon
<1>8. written' = IF byte_tx_ready' THEN sent' + 1 ELSE sent'
    BY <1>1, <1>4, <1>5, <1>7, Zenon
<1> QED
    BY <1>8, Zenon DEF SentInOrder

LEMMA TypeStep ==
    ASSUME TypeOK, ReceiverInv, SendInv, ReadInv, Clock
    PROVE  TypeOK'
<1>1. cpu' \in {"fetch", "decode", "get_src", "execute", "store"}
    BY CpuCases
<1>2. instr' \in {"other", "status", "read", "write"}
    BY CpuCases DEF TypeOK
<1>3. seen' \in [rx : BOOLEAN, tx : BOOLEAN]
    <2>1. seen' \in {seen, Status, [seen EXCEPT !.rx = FALSE], [seen EXCEPT !.tx = FALSE]}
        BY CpuCases
    <2> QED
        BY <2>1, SeenStep, Zenon
<1>4. rx' \in {"idle", "active", "enable"}
    BY DEF Clock, Receive
<1>5. accepted \in 0 .. MaxChars /\ MaxChars \in Nat
    BY BoundsAssumption DEF TypeOK, ReceiverInv
<1>6. rx = "enable" => accepted < MaxChars
    <2>1. rx = "enable" => rx # "idle"
        OBVIOUS
    <2> QED
        BY <2>1, Zenon DEF ReceiverInv
<1>7. accepted' \in Nat
    <2>1. CASE rx = "enable"
        BY <1>5, <2>1, RingStep
    <2>2. CASE rx # "enable"
        BY <1>5, <2>2, RingStep
    <2> QED
        BY <2>1, <2>2
<1>8. ram' \in [0 .. RAM_DEPTH - 1 -> 0 .. MaxChars + 1] /\ rd_data' \in 0 .. MaxChars + 1
    <2>1. /\ ram' = [ram EXCEPT ![head] = IF rx = "enable" THEN accepted + 1 ELSE Junk]
          /\ rd_data' = ram[tail]
        BY RingStep, Zenon
    <2>2. (IF rx = "enable" THEN accepted + 1 ELSE Junk) \in 0 .. MaxChars + 1
        BY <1>5, <1>6 DEF Junk
    <2>3. /\ ram \in [0 .. RAM_DEPTH - 1 -> 0 .. MaxChars + 1]
          /\ tail \in 0 .. RAM_DEPTH - 1
        BY Zenon DEF TypeOK
    <2> QED
        BY <2>1, <2>2, <2>3, Zenon
<1>9. head' \in 0 .. RAM_DEPTH - 1 /\ tail' \in 0 .. RAM_DEPTH - 1
    BY RingStep, Zenon DEF Indices
<1>10. R8' \in 0 .. MaxChars + 1
    BY CpuCases DEF TypeOK
<1>11. taken' \in Nat /\ written' \in Nat
    BY CpuCases DEF TypeOK
<1>12. sent' \in Nat
    <2>1. sent' \in {written, sent}
        BY Zenon DEF Clock, Transmit
    <2> QED
        BY <2>1 DEF TypeOK
<1> QED
    BY <1>1, <1>2, <1>3, <1>4, <1>7, <1>8, <1>9, <1>10, <1>11, <1>12, LinesStep, Zenon
    DEF TypeOK

-----------------------------------------------------------------------------
LEMMA InitInv == Init => IInv
<1> SUFFICES ASSUME Init PROVE IInv
    OBVIOUS
<1>1. /\ head = 0 /\ tail = 0 /\ accepted = 0 /\ taken = 0 /\ written = 0 /\ sent = 0
      /\ R8 = 0 /\ rd_data = 0 /\ cpu = "fetch" /\ instr = "other" /\ rx = "idle"
      /\ ram = [i \in 0 .. RAM_DEPTH - 1 |-> 0]
    BY DEF Init, Junk
<1>2. /\ rd_valid = FALSE /\ reading = FALSE /\ byte_tx_ready = FALSE /\ tx_ready = TRUE
      /\ seen = [rx |-> FALSE, tx |-> FALSE]
    BY DEF Init
<1>3. ~seen.rx /\ ~seen.tx /\ seen \in [rx : BOOLEAN, tx : BOOLEAN]
    BY <1>2
<1>4. ~rd_valid /\ ~reading /\ ~byte_tx_ready /\ tx_ready
    BY <1>2, Zenon
<1>5. rd_valid \in BOOLEAN /\ reading \in BOOLEAN /\ byte_tx_ready \in BOOLEAN /\ tx_ready \in BOOLEAN
    BY <1>2, Zenon
<1>6. /\ ram \in [0 .. RAM_DEPTH - 1 -> 0 .. MaxChars + 1]
      /\ 0 \in 0 .. RAM_DEPTH - 1 /\ 0 \in 0 .. MaxChars + 1 /\ 0 \in Nat
    BY <1>1, DepthAssumption, BoundsAssumption
<1>7. TypeOK
    BY <1>1, <1>3, <1>5, <1>6 DEF TypeOK
<1>8. FillCount = 0 /\ Popped = 0
    BY <1>1 DEF FillCount, Popped
<1>9. ReceiverInv
    BY <1>1, BoundsAssumption DEF ReceiverInv
<1>10. SendInv
    BY <1>1, <1>3, <1>4 DEF SendInv
<1>11. ReadInv
    BY <1>1, <1>3, <1>4 DEF ReadInv
<1>12. RingInv
    <2>1. ASSUME NEW j \in Indices PROVE ~(Offset(j) < FillCount)
        BY <1>7, <1>8, <2>1, RingArith, DepthAssumption DEF Indices
    <2>2. taken = IF reading THEN Popped + 1 ELSE Popped
        BY <1>1, <1>4, <1>8, Zenon
    <2> QED
        BY <1>3, <2>1, <2>2, Zenon DEF RingInv
<1>13. SentInOrder
    <2>1. written = IF byte_tx_ready THEN sent + 1 ELSE sent
        BY <1>1, <1>4, Zenon
    <2> QED
        BY <2>1, Zenon DEF SentInOrder
<1> QED
    BY <1>1, <1>7, <1>9, <1>10, <1>11, <1>12, <1>13, Zenon DEF IInv

LEMMA NextInv == IInv /\ [Next]_vars => IInv'
<1> SUFFICES ASSUME IInv, [Next]_vars PROVE IInv'
    OBVIOUS
<1>1. CASE Clock
    BY <1>1, TypeStep, ReceiverStep, SendStep, ReadStep, RingInvStep, SentStep, Zenon DEF IInv
<1>2. CASE UNCHANGED vars
    <2>1. /\ UNCHANGED <<cpu, instr, seen, R8, rx, ram, head, tail, rd_data, accepted>>
          /\ UNCHANGED <<rd_valid, reading, byte_tx_ready, tx_ready, taken, written, sent>>
        BY <1>2, Zenon DEF vars
    <2>2. TypeOK'
        <3>1. /\ cpu' \in {"fetch", "decode", "get_src", "execute", "store"}
              /\ instr' \in {"other", "status", "read", "write"}
              /\ rx' \in {"idle", "active", "enable"}
              /\ ram' \in [0 .. RAM_DEPTH - 1 -> 0 .. MaxChars + 1]
              /\ head' \in 0 .. RAM_DEPTH - 1 /\ tail' \in 0 .. RAM_DEPTH - 1
              /\ R8' \in 0 .. MaxChars + 1 /\ rd_data' \in 0 .. MaxChars + 1
              /\ accepted' \in Nat /\ taken' \in Nat /\ written' \in Nat /\ sent' \in Nat
            BY <2>1 DEF IInv, TypeOK
        <3>2. /\ seen' \in [rx : BOOLEAN, tx : BOOLEAN] /\ rd_valid' \in BOOLEAN
              /\ reading' \in BOOLEAN /\ byte_tx_ready' \in BOOLEAN /\ tx_ready' \in BOOLEAN
            <4>1. TypeOK
                BY Zenon DEF IInv
            <4>2. /\ seen \in [rx : BOOLEAN, tx : BOOLEAN] /\ rd_valid \in BOOLEAN
                  /\ reading \in BOOLEAN /\ byte_tx_ready \in BOOLEAN /\ tx_ready \in BOOLEAN
                BY <4>1, Zenon DEF TypeOK
            <4> QED
                BY <2>1, <4>2, Zenon
        <3> QED
            BY <3>1, <3>2, Zenon DEF TypeOK
    <2>3. FillCount' = FillCount /\ (full' <=> full) /\ (empty' <=> empty) /\ Popped' = Popped
        BY <2>1, Zenon DEF FillCount, full, empty, Popped
    <2>4. \A j \in Indices : Offset(j)' = Offset(j)
        BY <2>1, Zenon DEF Offset, Distance
    <2>5. ReceiverInv'
        BY <2>1, <2>3, Zenon DEF IInv, ReceiverInv
    <2>6. SendInv' /\ SentInOrder'
        BY <2>1, Zenon DEF IInv, SendInv, SentInOrder
    <2>7. ReadInv'
        BY <2>1, <2>3, Zenon DEF IInv, ReadInv
    <2>8. RingInv'
        BY <2>1, <2>3, <2>4, Zenon DEF IInv, RingInv
    <2> QED
        BY <2>1, <2>2, <2>5, <2>6, <2>7, <2>8, Zenon DEF IInv
<1> QED
    BY <1>1, <1>2, Zenon DEF Next

LEMMA Invariance == Spec => []IInv
BY InitInv, NextInv, PTL DEF Spec

(* The numbers of characters and bytes and the indices of the ring stay in *)
(* their ranges, for every depth of ring_buffer.                           *)
THEOREM UartTypeOK == Spec => []TypeOK
BY Invariance, PTL DEF IInv

(* The program gets every character that bus_uart accepted once and in     *)
(* order: the wait state, rd_valid and the index of the ring agree on      *)
(* which character a read takes.                                           *)
THEOREM UartReadsInOrder == Spec => []ReadsInOrder
<1>1. IInv => ReadsInOrder
    <2> SUFFICES ASSUME IInv PROVE ReadsInOrder
        OBVIOUS
    <2>1. TypeOK /\ ReadInv /\ RingInv /\ R8 = taken
        BY Zenon DEF IInv
    <2>2. FillCount \in Nat /\ accepted \in Nat /\ (empty <=> FillCount = 0)
        BY <2>1, RingArith, DepthAssumption DEF TypeOK
    <2>3. Popped = accepted - FillCount
        BY Zenon DEF Popped
    <2>4. CASE reading
        <3>1. taken = Popped + 1 /\ ~empty
            BY <2>1, <2>4, Zenon DEF RingInv, ReadInv
        <3>2. taken <= accepted
            BY <2>2, <2>3, <3>1
        <3> QED
            BY <2>1, <3>2, Zenon DEF ReadsInOrder
    <2>5. CASE ~reading
        <3>1. taken = Popped
            BY <2>1, <2>5, Zenon DEF RingInv
        <3>2. taken <= accepted
            BY <2>2, <2>3, <3>1
        <3> QED
            BY <2>1, <3>2, Zenon DEF ReadsInOrder
    <2> QED
        BY <2>4, <2>5
<1> QED
    BY <1>1, Invariance, PTL

(* Every byte the program writes is taken by the transmitter exactly once: *)
(* byte_tx_ready, which handle_tx_ready clears at once, is never up for a  *)
(* second byte or for the same one again.                                  *)
THEOREM UartSentInOrder == Spec => []SentInOrder
BY Invariance, PTL DEF IInv

(* CTS is raised early enough: a character that the far end began while it *)
(* was down finds a free cell of the ring.                                 *)
THEOREM UartNothingDropped == Spec => []NothingDropped
<1>1. rx = "enable" => rx # "idle"
    OBVIOUS
<1>2. IInv => NothingDropped
    BY <1>1, Zenon DEF IInv, ReceiverInv, NothingDropped, rx_enable
<1> QED
    BY <1>2, Invariance, PTL
=============================================================================
