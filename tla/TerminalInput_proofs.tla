----------------------- MODULE TerminalInput_proofs -----------------------
(***************************************************************************)
(* Theorems about the terminal input of the emulator: the ring buffer of   *)
(* emulator/fifo.c (module Fifo) for every capacity, every set of values   *)
(* and every set of threads, and the threads around it (module EmuUart).   *)
(***************************************************************************)
EXTENDS Fifo, EmuUart, SequenceTheorems, TLAPS

(***************************************************************************)
(* Fifo                                                                    *)
(***************************************************************************)
(* Advancing a slot index stays in the ring and is one step of Slot. *)
LEMMA AdvanceSlot ==
    ASSUME NEW s \in Slots
    PROVE  /\ Advance(s) \in Slots
           /\ Advance(s) = Slot(s, 1)
BY SizeAssumption DEF Slots, Advance, Slot

(* Slot composes with Advance: the k-th cell after the next one. *)
LEMMA SlotAdvance ==
    ASSUME NEW s \in Slots, NEW k \in 0 .. Size - 1
    PROVE  /\ Slot(s, k) \in Slots
           /\ Slot(Advance(s), k) = Slot(s, k + 1)
           /\ Slot(s, k + 1) = Advance(Slot(s, k))
BY SizeAssumption DEF Slots, Advance, Slot

(* Distinct offsets below the capacity are distinct cells. *)
LEMMA SlotInjective ==
    ASSUME NEW s \in Slots, NEW k \in 0 .. Size - 1, NEW m \in 0 .. Size - 1, k # m
    PROVE  Slot(s, k) # Slot(s, m)
BY SizeAssumption DEF Slots, Slot

(* fifo_init establishes the inductive invariant. *)
LEMMA InitIndInv == fifo_init => IndInv
<1> SUFFICES ASSUME fifo_init PROVE IndInv
    OBVIOUS
<1> USE SizeAssumption, DataAssumption, ThreadAssumption DEF fifo_init
<1>1. TypeOK
    BY DEF TypeOK, Slots
<1>2. MutexInv
    BY DEF MutexInv, Inside, Pushing, Pulling, Ending
<1>3. RingInv
    BY DEF RingInv, Free, First, Slot
<1>4. StoredInv
    BY DEF StoredInv
<1>5. PendingInv
    BY DEF PendingInv, Pushing
<1>6. IdleArg
    BY DEF IdleArg
<1> QED
    BY <1>1, <1>2, <1>3, <1>4, <1>5, <1>6 DEF IndInv

(* The thread inside fifo.c is alone there, so the in-flight adjustments   *)
(* of First and Free depend on its program counter only.                   *)
LEMMA AloneInside ==
    ASSUME TypeOK, MutexInv, NEW t \in Threads, pc[t] \in Inside
    PROVE  /\ mutex = t
           /\ \A u \in Threads : u # t => pc[u] \notin Inside
           /\ First = IF pc[t] = "pull_tail" THEN Advance(tail) ELSE tail
           /\ Free  = IF pc[t] = "push_head" THEN Advance(head) ELSE head
BY DEF MutexInv, First, Free, Inside, Pushing, Pulling

LEMMA NobodyInside ==
    ASSUME TypeOK, MutexInv, mutex = NoThread
    PROVE  /\ \A u \in Threads : pc[u] \notin Inside
           /\ First = tail
           /\ Free = head
BY ThreadAssumption DEF MutexInv, First, Free, Inside, Pushing, Pulling

(* Every step of a thread preserves the type invariant. *)
LEMMA StepTypeOK ==
    ASSUME IndInv, NEW t \in Threads, Step(t)
    PROVE  TypeOK'
<1> USE SizeAssumption, DataAssumption, ThreadAssumption
        DEF IndInv, TypeOK, Inside, Entered, Pushing, Pulling, Ending
<1>1. CASE \E d \in Data : CallPush(t, d)
    BY <1>1 DEF CallPush, Goto
<1>2. CASE CallPull(t) \/ CallClear(t)
    BY <1>2 DEF CallPull, CallClear, Goto
<1>3. CASE Lock(t)
    BY <1>3 DEF Lock, Goto
<1>4. CASE PushStore(t)
    BY <1>4 DEF PushStore, PendingInv
<1>5. CASE PushCount(t)
    BY <1>5 DEF PushCount, Goto, PendingInv
<1>6. CASE PushHead(t)
    BY <1>6, AdvanceSlot DEF PushHead, Goto
<1>7. CASE PullFetch(t)
    <2>1. CASE count # 0
        <3>1. First = tail
            BY <1>7, AloneInside DEF PullFetch
        <3>2. Slot(First, 0) = tail
            BY <3>1 DEF Slot, Slots
        <3>3. data[tail] \in Data
            BY <2>1, <3>2 DEF StoredInv
        <3> QED
            BY <1>7, <2>1, <3>3 DEF PullFetch
    <2>2. CASE count = 0
        BY <1>7, <2>2 DEF PullFetch
    <2> QED
        BY <2>1, <2>2
<1>8. CASE PullCount(t)
    BY <1>8 DEF PullCount, Goto, PendingInv
<1>9. CASE PullTail(t)
    BY <1>9, AdvanceSlot DEF PullTail, Goto
<1>10. CASE ClearBody(t)
    BY <1>10 DEF ClearBody, Goto, Slots
<1>11. CASE Unlock(t)
    BY <1>11 DEF Unlock
<1> QED
    BY <1>1, <1>2, <1>3, <1>4, <1>5, <1>6, <1>7, <1>8, <1>9, <1>10, <1>11 DEF Step

(* The mutex keeps every other thread out of the bodies. *)
LEMMA StepMutexInv ==
    ASSUME IndInv, NEW t \in Threads, Step(t)
    PROVE  MutexInv'
<1> USE ThreadAssumption DEF IndInv, TypeOK, MutexInv, Inside, Pushing, Pulling, Ending
<1>1. CASE \E d \in Data : CallPush(t, d)
    BY <1>1 DEF CallPush, Goto
<1>2. CASE CallPull(t) \/ CallClear(t)
    BY <1>2 DEF CallPull, CallClear, Goto
<1>3. CASE Lock(t)
    BY <1>3 DEF Lock, Goto
<1>4. CASE PushStore(t) \/ PushCount(t) \/ PushHead(t)
    BY <1>4 DEF PushStore, PushCount, PushHead, Goto
<1>5. CASE PullFetch(t) \/ PullCount(t) \/ PullTail(t)
    BY <1>5 DEF PullFetch, PullCount, PullTail, Goto
<1>6. CASE ClearBody(t)
    BY <1>6 DEF ClearBody, Goto
<1>7. CASE Unlock(t)
    BY <1>7 DEF Unlock
<1> QED
    BY <1>1, <1>2, <1>3, <1>4, <1>5, <1>6, <1>7 DEF Step

(* First and Free after a step of t: every other thread is still outside. *)
LEMMA StepEnds ==
    ASSUME IndInv, NEW t \in Threads, Step(t), pc[t] \in Inside
    PROVE  /\ First' = IF pc'[t] = "pull_tail" THEN Advance(tail') ELSE tail'
           /\ Free'  = IF pc'[t] = "push_head" THEN Advance(head') ELSE head'
<1>1. \A u \in Threads : u # t => pc[u] \notin Inside
    BY AloneInside DEF IndInv
<1>2. \A u \in Threads : u # t => pc'[u] = pc[u]
    BY DEF Step, IndInv, TypeOK, CallPush, CallPull, CallClear, Lock, PushStore, PushCount,
           PushHead, PullFetch, PullCount, PullTail, ClearBody, Unlock, Goto
<1> QED
    BY <1>1, <1>2 DEF First, Free, Advance, Inside, Pushing, Pulling

(* Calls and Lock move no index and touch no cell. *)
LEMMA OutsideStep ==
    ASSUME IndInv, NEW t \in Threads, Step(t), pc[t] \notin Inside
    PROVE  /\ UNCHANGED <<data, head, tail, count, retval>>
           /\ First' = First
           /\ Free' = Free
           /\ pc'[t] \in Entered \cup {"push_store", "pull_fetch", "clear_body"}
           /\ pc' = [pc EXCEPT ![t] = pc'[t]]
           /\ \/ arg' = arg /\ (pc'[t] # "push_lock")
              \/ pc'[t] = "push_lock" /\ \E d \in Data : arg' = [arg EXCEPT ![t] = d]
           /\ pc'[t] = "push_store" => pc[t] = "push_lock"
<1> USE DEF IndInv, TypeOK, Inside, Pushing, Pulling, Ending, Entered
<1>1. CASE \E d \in Data : CallPush(t, d)
    BY <1>1 DEF CallPush, Goto, First, Free, Advance
<1>2. CASE CallPull(t) \/ CallClear(t)
    BY <1>2 DEF CallPull, CallClear, Goto, First, Free, Advance
<1>3. CASE Lock(t)
    BY <1>3 DEF Lock, Goto, First, Free, Advance
<1> QED
    BY <1>1, <1>2, <1>3 DEF Step, PushStore, PushCount, PushHead, PullFetch, PullCount,
       PullTail, ClearBody, Unlock, Goto

(* head, tail and count agree after every step. *)
LEMMA StepRingInv ==
    ASSUME IndInv, NEW t \in Threads, Step(t)
    PROVE  RingInv'
<1> USE SizeAssumption DEF IndInv
<1>0. TypeOK /\ head \in Slots /\ tail \in Slots /\ count \in 0 .. Size /\ pc \in [Threads -> {"idle"} \cup Entered \cup Inside]
    BY DEF TypeOK
<1>1. CASE pc[t] \notin Inside
    BY <1>1, OutsideStep DEF RingInv, Slot
<1>2. CASE pc[t] \in Inside
    <2>1. /\ First' = IF pc'[t] = "pull_tail" THEN Advance(tail') ELSE tail'
          /\ Free'  = IF pc'[t] = "push_head" THEN Advance(head') ELSE head'
          /\ First = IF pc[t] = "pull_tail" THEN Advance(tail) ELSE tail
          /\ Free  = IF pc[t] = "push_head" THEN Advance(head) ELSE head
        BY <1>2, StepEnds, AloneInside
    <2>2. CASE PushStore(t)
        BY <1>0, <2>1, <2>2 DEF PushStore, RingInv, Slot
    <2>3. CASE PushCount(t)
        BY <1>0, <2>1, <2>3 DEF PushCount, Goto, RingInv, PendingInv, Slot, Advance, Slots
    <2>4. CASE PushHead(t)
        BY <1>0, <2>1, <2>4 DEF PushHead, Goto, RingInv, Slot
    <2>5. CASE PullFetch(t)
        BY <1>0, <2>1, <2>5 DEF PullFetch, RingInv, Slot
    <2>6. CASE PullCount(t)
        BY <1>0, <2>1, <2>6 DEF PullCount, Goto, RingInv, PendingInv, Slot, Advance, Slots
    <2>7. CASE PullTail(t)
        BY <1>0, <2>1, <2>7 DEF PullTail, Goto, RingInv, Slot
    <2>8. CASE ClearBody(t)
        BY <1>0, <2>1, <2>8 DEF ClearBody, Goto, RingInv, Slot
    <2>9. CASE Unlock(t)
        BY <1>0, <2>1, <2>9 DEF Unlock, RingInv, Slot, Ending
    <2> QED
        BY <1>2, <2>2, <2>3, <2>4, <2>5, <2>6, <2>7, <2>8, <2>9
           DEF Step, CallPush, CallPull, CallClear, Lock, Goto, Inside, Pushing, Pulling, Ending
<1> QED
    BY <1>1, <1>2

(* What was stored stays stored until it is pulled. *)
LEMMA StepStoredInv ==
    ASSUME IndInv, NEW t \in Threads, Step(t)
    PROVE  StoredInv'
<1> USE SizeAssumption DEF IndInv
<1>0. /\ TypeOK /\ head \in Slots /\ tail \in Slots /\ count \in 0 .. Size
      /\ pc \in [Threads -> {"idle"} \cup Entered \cup Inside] /\ data \in [Slots -> Data \cup Junk]
    BY DEF TypeOK
<1>1. CASE pc[t] \notin Inside
    BY <1>1, OutsideStep DEF StoredInv, Slot
<1>2. CASE pc[t] \in Inside
    <2>1. /\ First' = IF pc'[t] = "pull_tail" THEN Advance(tail') ELSE tail'
          /\ First = IF pc[t] = "pull_tail" THEN Advance(tail) ELSE tail
          /\ Free  = IF pc[t] = "push_head" THEN Advance(head) ELSE head
        BY <1>2, StepEnds, AloneInside
    <2>2. CASE PushStore(t)
        <3>1. First' = First /\ First = tail /\ Free = head /\ count' = count
            BY <1>0, <2>1, <2>2 DEF PushStore
        <3>2. CASE count < Size
            <4>1. \A k \in 0 .. count - 1 : Slot(tail, k) # head
                <5>1. TAKE k \in 0 .. count - 1
                <5>2. Slot(tail, k) # Slot(tail, count)
                    BY <1>0, <3>2, SlotInjective
                <5> QED
                    BY <3>1, <5>2 DEF RingInv
            <4>2. \A k \in 0 .. count - 1 : Slot(tail, k) \in Slots
                BY <1>0, <3>2, SlotAdvance
            <4> QED
                BY <1>0, <2>2, <3>1, <3>2, <4>1, <4>2 DEF StoredInv, PushStore, Slot
        <3>3. CASE ~(count < Size)
            BY <1>0, <2>2, <3>1, <3>3 DEF StoredInv, PushStore, Slot
        <3> QED
            BY <3>2, <3>3
    <2>3. CASE PushCount(t)
        <3>1. First' = First /\ First = tail /\ Slot(tail, count) = head
            BY <1>0, <2>1, <2>3 DEF PushCount, Goto, RingInv
        <3>2. data[head] \in Data /\ data' = data /\ count' = count + 1
            BY <1>0, <2>3 DEF PushCount, Goto, PendingInv, Pushing
        <3> QED
            BY <1>0, <3>1, <3>2 DEF StoredInv, Slot
    <2>4. CASE PullCount(t)
        <3>1. /\ First' = Advance(tail) /\ First = tail
              /\ data' = data /\ count' = count - 1 /\ count > 0
            BY <1>0, <2>1, <2>4 DEF PullCount, Goto, PendingInv
        <3>2. \A k \in 0 .. count - 2 : Slot(Advance(tail), k) = Slot(tail, k + 1)
            BY <1>0, <3>1, SlotAdvance
        <3>3. \A k \in 0 .. count - 2 : data[Slot(Advance(tail), k)] \in Data
            BY <1>0, <3>1, <3>2 DEF StoredInv
        <3> QED
            BY <1>0, <3>1, <3>3 DEF StoredInv, Slot
    <2>5. CASE ClearBody(t)
        BY <2>5 DEF ClearBody, StoredInv
    <2>6. CASE PushHead(t) \/ PullFetch(t) \/ PullTail(t) \/ Unlock(t)
        <3>1. First' = First /\ data' = data /\ count' = count
            BY <1>0, <2>1, <2>6 DEF PushHead, PullFetch, PullTail, Unlock, Goto, Ending
        <3> QED
            BY <3>1 DEF StoredInv, Slot
    <2> QED
        BY <1>2, <2>2, <2>3, <2>4, <2>5, <2>6
           DEF Step, CallPush, CallPull, CallClear, Lock, Goto, Inside, Pushing, Pulling, Ending
<1> QED
    BY <1>1, <1>2

(* The facts a call under way relies on are not disturbed by other threads. *)
LEMMA StepPendingInv ==
    ASSUME IndInv, NEW t \in Threads, Step(t)
    PROVE  PendingInv'
<1> USE SizeAssumption DEF IndInv, TypeOK
<1>1. CASE pc[t] \notin Inside
    BY <1>1, OutsideStep DEF PendingInv, Entered, Inside, Pushing, Pulling
<1>2. CASE pc[t] \in Inside
    <2>1. \A u \in Threads : u # t => pc[u] \notin Inside
        BY <1>2, AloneInside
    <2> USE DEF Pushing, Pulling, Ending, Inside, Entered
    <2>2. CASE PushStore(t)
        BY <2>1, <2>2 DEF PushStore, PendingInv
    <2>3. CASE PushCount(t)
        BY <2>1, <2>3 DEF PushCount, Goto, PendingInv
    <2>4. CASE PushHead(t)
        BY <2>1, <2>4 DEF PushHead, Goto, PendingInv
    <2>5. CASE PullFetch(t)
        BY <2>1, <2>5 DEF PullFetch, PendingInv
    <2>6. CASE PullCount(t)
        BY <2>1, <2>6 DEF PullCount, Goto, PendingInv
    <2>7. CASE PullTail(t)
        BY <2>1, <2>7 DEF PullTail, Goto, PendingInv
    <2>8. CASE ClearBody(t)
        BY <2>1, <2>8 DEF ClearBody, Goto, PendingInv
    <2>9. CASE Unlock(t)
        BY <2>1, <2>9 DEF Unlock, PendingInv
    <2> QED
        BY <1>2, <2>2, <2>3, <2>4, <2>5, <2>6, <2>7, <2>8, <2>9
           DEF Step, CallPush, CallPull, CallClear, Lock, Goto
<1> QED
    BY <1>1, <1>2

(* Unlock forgets the locals of the call that ends. *)
LEMMA StepIdleArg ==
    ASSUME IndInv, NEW t \in Threads, Step(t)
    PROVE  IdleArg'
<1> USE DEF IndInv, TypeOK, IdleArg, Pushing, Pulling, Ending
<1>1. CASE \E d \in Data : CallPush(t, d)
    BY <1>1 DEF CallPush, Goto
<1>2. CASE CallPull(t) \/ CallClear(t) \/ Lock(t)
    BY <1>2 DEF CallPull, CallClear, Lock, Goto
<1>3. CASE PushStore(t) \/ PushCount(t) \/ PushHead(t)
    BY <1>3 DEF PushStore, PushCount, PushHead, Goto
<1>4. CASE PullFetch(t) \/ PullCount(t) \/ PullTail(t)
    BY <1>4 DEF PullFetch, PullCount, PullTail, Goto
<1>5. CASE ClearBody(t) \/ Unlock(t)
    BY <1>5 DEF ClearBody, Unlock, Goto
<1> QED
    BY <1>1, <1>2, <1>3, <1>4, <1>5 DEF Step

(* A step in which nobody moves changes nothing. *)
LEMMA StutterIndInv == IndInv /\ UNCHANGED vars => IndInv'
BY DEF IndInv, vars, TypeOK, MutexInv, RingInv, StoredInv, PendingInv, IdleArg, First, Free, Slot, Advance

(* For every capacity and every number of threads the ring of fifo.c is    *)
(* well formed after every interleaved step: one thread inside, head, tail *)
(* and count in agreement, and only pushed values between tail and head.   *)
THEOREM FifoIndInv == Spec => []IndInv
<1>1. fifo_init => IndInv
    BY InitIndInv
<1>2. IndInv /\ [Next]_vars => IndInv'
    <2> SUFFICES ASSUME IndInv, [Next]_vars PROVE IndInv'
        OBVIOUS
    <2>1. CASE UNCHANGED vars
        BY <2>1, StutterIndInv
    <2>2. ASSUME NEW t \in Threads, Step(t) PROVE IndInv'
        BY <2>2, StepTypeOK, StepMutexInv, StepRingInv, StepStoredInv, StepPendingInv, StepIdleArg DEF IndInv
    <2> QED
        BY <2>1, <2>2 DEF Next
<1> QED
    BY <1>1, <1>2, PTL DEF Spec

-----------------------------------------------------------------------------
(* The call record of the abstract queue changes for the stepping thread   *)
(* only.                                                                   *)
LEMMA CallsOfOthers ==
    ASSUME IndInv, NEW t \in Threads, Step(t)
    PROVE  \A u \in Threads : u # t => CallOf(u)' = CallOf(u)
BY DEF IndInv, TypeOK, CallOf, OpOf, Step, CallPush, CallPull, CallClear, Lock, PushStore,
       PushCount, PushHead, PullFetch, PullCount, PullTail, ClearBody, Unlock, Goto

(* A queue that keeps its first cell, its length and its cells is the same. *)
LEMMA SameQueue ==
    ASSUME First' = First, count' = count,
           \A k \in 0 .. count - 1 : data'[Slot(First, k)] = data[Slot(First, k)],
           count \in Nat
    PROVE  QueueOf' = QueueOf
<1>1. QueueOf' = [i \in 1 .. count |-> data'[Slot(First, i - 1)]]
    BY DEF QueueOf, Slot
<1>2. \A i \in 1 .. count : data'[Slot(First, i - 1)] = data[Slot(First, i - 1)]
    OBVIOUS
<1> QED
    BY <1>1, <1>2 DEF QueueOf

LEMMA QueueIsSeq ==
    ASSUME IndInv
    PROVE  /\ QueueOf \in Seq(Data)
           /\ Len(QueueOf) = count
           /\ \A i \in 1 .. count : QueueOf[i] = data[Slot(First, i - 1)]
<1>1. count \in Nat
    BY SizeAssumption DEF IndInv, TypeOK
<1>2. \A i \in 1 .. count : data[Slot(First, i - 1)] \in Data
    BY <1>1 DEF IndInv, StoredInv
<1> QED
    BY <1>1, <1>2 DEF QueueOf

(* Raising count after the store appends the stored value. *)
LEMMA PushAppends ==
    ASSUME IndInv, NEW t \in Threads, PushCount(t)
    PROVE  QueueOf' = Append(QueueOf, arg[t]) /\ count < Size
<1>0. /\ head \in Slots /\ tail \in Slots /\ count \in 0 .. Size
      /\ pc \in [Threads -> {"idle"} \cup Entered \cup Inside]
    BY DEF IndInv, TypeOK
<1>1. First' = tail /\ First = tail /\ Slot(tail, count) = head
    BY <1>0, StepEnds, AloneInside
       DEF IndInv, PushCount, Goto, RingInv, Step, Inside, Pushing
<1>2. data[head] = arg[t] /\ data' = data /\ count' = count + 1 /\ count < Size
    BY DEF IndInv, PushCount, Goto, PendingInv
<1>3. QueueOf' = [i \in 1 .. count + 1 |-> data[Slot(tail, i - 1)]]
    BY <1>1, <1>2 DEF QueueOf, Slot
<1>4. /\ QueueOf \in Seq(Data) /\ Len(QueueOf) = count
      /\ \A i \in 1 .. count : QueueOf[i] = data[Slot(tail, i - 1)]
    BY <1>1, QueueIsSeq
<1>5. /\ arg[t] \in Data
      /\ Append(QueueOf, arg[t]) \in Seq(Data)
      /\ Len(Append(QueueOf, arg[t])) = count + 1
      /\ \A i \in 1 .. count : Append(QueueOf, arg[t])[i] = QueueOf[i]
      /\ Append(QueueOf, arg[t])[count + 1] = arg[t]
    <2>1. arg[t] \in Data
        BY DEF IndInv, PendingInv, PushCount, Goto, Pushing
    <2> QED
        BY <1>4, <2>1, AppendProperties
<1>6. \A i \in 1 .. count + 1 : data[Slot(tail, i - 1)] = Append(QueueOf, arg[t])[i]
    <2>1. TAKE i \in 1 .. count + 1
    <2>2. CASE i = count + 1
        BY <1>0, <1>1, <1>2, <1>5, <2>2 DEF Slots
    <2>3. CASE i # count + 1
        BY <1>0, <1>4, <1>5, <2>3
    <2> QED
        BY <2>2, <2>3
<1>7. Append(QueueOf, arg[t]) = [i \in 1 .. count + 1 |-> Append(QueueOf, arg[t])[i]]
    BY <1>5, LenProperties
<1> QED
    BY <1>2, <1>3, <1>6, <1>7

(* Lowering count after the fetch removes the fetched value. *)
LEMMA PullRemoves ==
    ASSUME IndInv, NEW t \in Threads, PullCount(t)
    PROVE  /\ QueueOf # << >>
           /\ retval[t] = Head(QueueOf)
           /\ QueueOf' = Tail(QueueOf)
<1>0. /\ head \in Slots /\ tail \in Slots /\ count \in 0 .. Size
      /\ pc \in [Threads -> {"idle"} \cup Entered \cup Inside]
    BY DEF IndInv, TypeOK
<1>1. First' = Advance(tail) /\ First = tail
    BY <1>0, StepEnds, AloneInside
       DEF IndInv, PullCount, Goto, Step, Inside, Pulling
<1>2. retval[t] = data[tail] /\ data' = data /\ count' = count - 1 /\ count > 0
    BY DEF IndInv, PullCount, Goto, PendingInv
<1>3. /\ QueueOf \in Seq(Data) /\ Len(QueueOf) = count
      /\ \A i \in 1 .. count : QueueOf[i] = data[Slot(tail, i - 1)]
    BY <1>1, QueueIsSeq
<1>4. QueueOf' = [i \in 1 .. count - 1 |-> data[Slot(Advance(tail), i - 1)]]
    BY <1>1, <1>2 DEF QueueOf, Slot
<1>5. \A i \in 1 .. count - 1 : data[Slot(Advance(tail), i - 1)] = QueueOf[i + 1]
    <2>1. TAKE i \in 1 .. count - 1
    <2>2. Slot(Advance(tail), i - 1) = Slot(tail, i)
        <3>1. i - 1 \in 0 .. Size - 1 /\ (i - 1) + 1 = i
            BY <1>0, SizeAssumption
        <3> QED
            BY <1>0, <3>1, SlotAdvance
    <2>3. QueueOf[i + 1] = data[Slot(tail, i)]
        BY <1>0, <1>3, SizeAssumption
    <2> QED
        BY <2>2, <2>3
<1>6. QueueOf # << >> /\ Head(QueueOf) = data[tail]
    <2>1. Slot(tail, 0) = tail /\ 1 \in 1 .. count
        BY <1>0, <1>2, SizeAssumption DEF Slot, Slots
    <2>2. QueueOf[1] = data[tail]
        BY <1>3, <2>1
    <2> QED
        BY <1>2, <1>3, <2>2
<1>7. /\ Tail(QueueOf) \in Seq(Data)
      /\ Len(Tail(QueueOf)) = count - 1
      /\ \A i \in 1 .. count - 1 : Tail(QueueOf)[i] = QueueOf[i + 1]
    BY <1>3, <1>6, HeadTailProperties
<1>8. Tail(QueueOf) = [i \in 1 .. count - 1 |-> Tail(QueueOf)[i]]
    BY <1>7, LenProperties
<1> QED
    BY <1>2, <1>4, <1>5, <1>6, <1>7, <1>8

(* Where the abstract queue is untouched by a step of t: everywhere but at *)
(* the steps that change count.                                            *)
LEMMA QuietQueue ==
    ASSUME IndInv, NEW t \in Threads, Step(t),
           ~PushCount(t), ~PullCount(t), ~ClearBody(t)
    PROVE  QueueOf' = QueueOf
<1> USE SizeAssumption
<1>0. /\ head \in Slots /\ tail \in Slots /\ count \in 0 .. Size /\ count \in Nat
      /\ data \in [Slots -> Data \cup Junk]
      /\ pc \in [Threads -> {"idle"} \cup Entered \cup Inside]
    BY DEF IndInv, TypeOK
<1>1. CASE pc[t] \notin Inside
    BY <1>0, <1>1, OutsideStep, SameQueue
<1>2. CASE pc[t] \in Inside
    <2>1. /\ First' = IF pc'[t] = "pull_tail" THEN Advance(tail') ELSE tail'
          /\ First = IF pc[t] = "pull_tail" THEN Advance(tail) ELSE tail
          /\ Free  = IF pc[t] = "push_head" THEN Advance(head) ELSE head
        BY <1>2, StepEnds, AloneInside DEF IndInv
    <2>2. CASE PushStore(t) /\ count < Size
        <3>1. First' = First /\ First = tail /\ Free = head /\ count' = count
            BY <1>0, <2>1, <2>2 DEF PushStore
        <3>2. \A k \in 0 .. count - 1 : Slot(tail, k) # head
            <4>1. TAKE k \in 0 .. count - 1
            <4>2. Slot(tail, k) # Slot(tail, count)
                BY <1>0, <2>2, SlotInjective
            <4> QED
                BY <3>1, <4>2 DEF IndInv, RingInv
        <3>3. \A k \in 0 .. count - 1 : data'[Slot(First, k)] = data[Slot(First, k)]
            <4>1. \A k \in 0 .. count - 1 : Slot(tail, k) \in Slots
                BY <1>0, <2>2, SlotAdvance
            <4> QED
                BY <1>0, <2>2, <3>1, <3>2, <4>1 DEF PushStore
        <3> QED
            BY <1>0, <3>1, <3>3, SameQueue
    <2>3. CASE \/ PushStore(t) /\ ~(count < Size)
               \/ PushHead(t) \/ PullFetch(t) \/ PullTail(t) \/ Unlock(t)
        <3>1. First' = First /\ data' = data /\ count' = count
            BY <1>0, <2>1, <2>3 DEF PushStore, PushHead, PullFetch, PullTail, Unlock, Goto, Ending
        <3> QED
            BY <1>0, <3>1, SameQueue
    <2> QED
        BY <1>2, <2>2, <2>3
           DEF Step, CallPush, CallPull, CallClear, Lock, Goto, Inside, Pushing, Pulling, Ending
<1> QED
    BY <1>1, <1>2

(* The call records as one function, changed at t only. *)
LEMMA CallsStep ==
    ASSUME IndInv, NEW t \in Threads, Step(t)
    PROVE  [u \in Threads |-> CallOf(u)]' = [[u \in Threads |-> CallOf(u)] EXCEPT ![t] = CallOf(t)']
BY CallsOfOthers

(* Every step of a thread is a step of the abstract queue or invisible.    *)
LEMMA StepRefines ==
    ASSUME IndInv, NEW t \in Threads, Step(t)
    PROVE  Queue!QNext \/ UNCHANGED Queue!qvars
<1> DEFINE calls == [u \in Threads |-> CallOf(u)]
<1>0. calls' = [calls EXCEPT ![t] = CallOf(t)'] /\ calls[t] = CallOf(t)
    BY CallsStep
<1>t. /\ pc \in [Threads -> {"idle"} \cup Entered \cup Inside]
      /\ arg \in [Threads -> Data \cup {0}] /\ retval \in [Threads -> Data \cup {0}]
      /\ count \in 0 .. Size
    BY DEF IndInv, TypeOK
<1> USE DEF Queue!QNext, Queue!qvars, Queue!Idle
<1>1. CASE \E d \in Data : CallPush(t, d)
    <2>1. PICK d \in Data : CallPush(t, d)
        BY <1>1
    <2>2. QueueOf' = QueueOf
        BY <2>1, QuietQueue DEF CallPush, PushCount, PullCount, ClearBody, Goto
    <2>3. CallOf(t)' = [op |-> "push", arg |-> d, st |-> "open", res |-> 0] /\ CallOf(t).op = "none"
        BY <1>t, <2>1 DEF CallPush, Goto, CallOf, OpOf, DoneAt, Ending, Pushing, Pulling
    <2>4. Queue!Invoke(t, "push", d)
        BY <1>0, <2>2, <2>3 DEF Queue!Invoke
    <2> QED
        BY <2>4
<1>2. CASE CallPull(t)
    <2>1. QueueOf' = QueueOf
        BY <1>2, QuietQueue DEF CallPull, PushCount, PullCount, ClearBody, Goto
    <2>2. /\ CallOf(t).op = "none"
          /\ CallOf(t)' = [op |-> "pull", arg |-> 0, st |-> "open", res |-> 0]
        BY <1>t, <1>2 DEF CallPull, Goto, IndInv, CallOf, OpOf, DoneAt, Ending, Pushing, Pulling, IdleArg
    <2>3. Queue!Invoke(t, "pull", 0)
        BY <1>0, <2>1, <2>2 DEF Queue!Invoke
    <2> QED
        BY <2>3
<1>3. CASE CallClear(t)
    <2>1. QueueOf' = QueueOf
        BY <1>3, QuietQueue DEF CallClear, PushCount, PullCount, ClearBody, Goto
    <2>2. /\ CallOf(t).op = "none"
          /\ CallOf(t)' = [op |-> "clear", arg |-> 0, st |-> "open", res |-> 0]
        BY <1>t, <1>3 DEF CallClear, Goto, IndInv, CallOf, OpOf, DoneAt, Ending, Pushing, Pulling, IdleArg
    <2>3. Queue!Invoke(t, "clear", 0)
        BY <1>0, <2>1, <2>2 DEF Queue!Invoke
    <2> QED
        BY <2>3
<1>4. CASE Lock(t)
    <2>1. QueueOf' = QueueOf
        BY <1>4, QuietQueue DEF Lock, PushCount, PullCount, ClearBody, Goto
    <2>2. CallOf(t)' = CallOf(t)
        BY <1>t, <1>4 DEF Lock, Goto, CallOf, OpOf, DoneAt, Ending, Pushing, Pulling
    <2> QED
        BY <1>0, <2>1, <2>2
<1>5. CASE PushStore(t)
    <2>1. QueueOf' = QueueOf
        BY <1>5, QuietQueue DEF PushStore, PushCount, PullCount, ClearBody, Goto
    <2>2. CASE count < Size
        <3>1. CallOf(t)' = CallOf(t)
            BY <1>t, <1>5, <2>2 DEF PushStore, CallOf, OpOf, DoneAt, Ending, Pushing, Pulling
        <3> QED
            BY <1>0, <2>1, <3>1
    <2>3. CASE ~(count < Size)
        <3>1. /\ CallOf(t).op = "push" /\ CallOf(t).st = "open"
              /\ CallOf(t)' = [op |-> CallOf(t).op, arg |-> CallOf(t).arg, st |-> "done", res |-> 0]
            BY <1>t, <1>5, <2>3 DEF PushStore, CallOf, OpOf, DoneAt, Ending, Pushing, Pulling
        <3>2. ~(Len(QueueOf) < Size)
            BY <2>3, QueueIsSeq
        <3>3. Queue!Push(t)
            BY <1>0, <2>1, <3>1, <3>2 DEF Queue!Push, Queue!Effect
        <3> QED
            BY <3>3
    <2> QED
        BY <2>2, <2>3
<1>6. CASE PushCount(t)
    <2>1. /\ CallOf(t).op = "push" /\ CallOf(t).st = "open" /\ CallOf(t).arg = arg[t]
          /\ CallOf(t)' = [op |-> CallOf(t).op, arg |-> CallOf(t).arg, st |-> "done", res |-> 0]
        BY <1>t, <1>6 DEF PushCount, Goto, CallOf, OpOf, DoneAt, Ending, Pushing, Pulling
    <2>2. QueueOf' = Append(QueueOf, arg[t]) /\ Len(QueueOf) < Size
        BY <1>6, PushAppends, QueueIsSeq
    <2>3. Queue!Push(t)
        BY <1>0, <2>1, <2>2 DEF Queue!Push, Queue!Effect
    <2> QED
        BY <2>3
<1>7. CASE PushHead(t)
    <2>1. QueueOf' = QueueOf
        BY <1>7, QuietQueue DEF PushHead, PushCount, PullCount, ClearBody, Goto
    <2>2. CallOf(t)' = CallOf(t)
        BY <1>t, <1>7 DEF PushHead, Goto, CallOf, OpOf, DoneAt, Ending, Pushing, Pulling
    <2> QED
        BY <1>0, <2>1, <2>2
<1>8. CASE PullFetch(t)
    <2>1. QueueOf' = QueueOf
        BY <1>8, QuietQueue DEF PullFetch, PushCount, PullCount, ClearBody, Goto
    <2>2. CASE count # 0
        <3>1. CallOf(t)' = CallOf(t)
            BY <1>t, <1>8, <2>2 DEF PullFetch, CallOf, OpOf, DoneAt, Ending, Pushing, Pulling
        <3> QED
            BY <1>0, <2>1, <3>1
    <2>3. CASE count = 0
        <3>1. /\ CallOf(t).op = "pull" /\ CallOf(t).st = "open"
              /\ CallOf(t)' = [op |-> CallOf(t).op, arg |-> CallOf(t).arg, st |-> "done", res |-> 0]
            BY <1>t, <1>8, <2>3 DEF PullFetch, CallOf, OpOf, DoneAt, Ending, Pushing, Pulling
        <3>2. QueueOf = << >>
            BY <2>3, QueueIsSeq, EmptySeq
        <3>3. Queue!Pull(t)
            BY <1>0, <2>1, <3>1, <3>2 DEF Queue!Pull, Queue!Effect
        <3> QED
            BY <3>3
    <2> QED
        BY <2>2, <2>3
<1>9. CASE PullCount(t)
    <2>1. /\ CallOf(t).op = "pull" /\ CallOf(t).st = "open"
          /\ CallOf(t)' = [op |-> CallOf(t).op, arg |-> CallOf(t).arg, st |-> "done", res |-> retval[t]]
        BY <1>t, <1>9 DEF PullCount, Goto, CallOf, OpOf, DoneAt, Ending, Pushing, Pulling
    <2>2. QueueOf # << >> /\ retval[t] = Head(QueueOf) /\ QueueOf' = Tail(QueueOf)
        BY <1>9, PullRemoves
    <2>3. Queue!Pull(t)
        BY <1>0, <2>1, <2>2 DEF Queue!Pull, Queue!Effect
    <2> QED
        BY <2>3
<1>10. CASE PullTail(t)
    <2>1. QueueOf' = QueueOf
        BY <1>10, QuietQueue DEF PullTail, PushCount, PullCount, ClearBody, Goto
    <2>2. CallOf(t)' = CallOf(t)
        BY <1>t, <1>10 DEF PullTail, Goto, CallOf, OpOf, DoneAt, Ending, Pushing, Pulling
    <2> QED
        BY <1>0, <2>1, <2>2
<1>11. CASE ClearBody(t)
    <2>1. /\ CallOf(t).op = "clear" /\ CallOf(t).st = "open"
          /\ CallOf(t)' = [op |-> CallOf(t).op, arg |-> CallOf(t).arg, st |-> "done", res |-> 0]
        BY <1>t, <1>11 DEF ClearBody, Goto, CallOf, OpOf, DoneAt, Ending, Pushing, Pulling
    <2>2. QueueOf' = << >>
        BY <1>11 DEF ClearBody, QueueOf
    <2>3. Queue!Clear(t)
        BY <1>0, <2>1, <2>2 DEF Queue!Clear, Queue!Effect
    <2> QED
        BY <2>3
<1>12. CASE Unlock(t)
    <2>1. QueueOf' = QueueOf
        BY <1>12, QuietQueue DEF Unlock, PushCount, PullCount, ClearBody, Goto, Ending
    <2>2. /\ CallOf(t).st = "done"
          /\ CallOf(t)' = Queue!Idle
        BY <1>t, <1>12 DEF Unlock, CallOf, OpOf, DoneAt, Ending, Pushing, Pulling
    <2>3. Queue!Return(t)
        BY <1>0, <2>1, <2>2 DEF Queue!Return
    <2> QED
        BY <2>3
<1> QED
    BY <1>1, <1>2, <1>3, <1>4, <1>5, <1>6, <1>7, <1>8, <1>9, <1>10, <1>11, <1>12 DEF Step

(* fifo.c implements the bounded queue, for every capacity, every set of   *)
(* values and every number of threads.                                     *)
THEOREM FifoRefinement == Spec => ImplementsQueue
<1>1. fifo_init => Queue!QInit
    <2> SUFFICES ASSUME fifo_init PROVE Queue!QInit
        OBVIOUS
    <2>1. QueueOf = << >>
        BY DEF fifo_init, QueueOf
    <2>2. \A t \in Threads : CallOf(t) = Queue!Idle
        BY DEF fifo_init, Queue!Idle, CallOf, OpOf, DoneAt, Ending, Pushing, Pulling
    <2> QED
        BY <2>1, <2>2 DEF Queue!QInit
<1>2. IndInv /\ [Next]_vars => [Queue!QNext]_(Queue!qvars)
    <2> SUFFICES ASSUME IndInv, [Next]_vars PROVE [Queue!QNext]_(Queue!qvars)
        OBVIOUS
    <2>1. CASE UNCHANGED vars
        <3>1. QueueOf' = QueueOf
            BY <2>1 DEF vars, QueueOf, First, Slot, Advance
        <3>2. \A t \in Threads : CallOf(t)' = CallOf(t)
            BY <2>1 DEF vars, CallOf, OpOf
        <3> QED
            BY <3>1, <3>2 DEF Queue!qvars
    <2>2. ASSUME NEW t \in Threads, Step(t) PROVE [Queue!QNext]_(Queue!qvars)
        BY <2>2, StepRefines
    <2> QED
        BY <2>1, <2>2 DEF Next
<1> QED
    BY <1>1, <1>2, FifoIndInv, PTL DEF Spec, ImplementsQueue, Queue!QSpec

(***************************************************************************)
(* EmuUart                                                                 *)
(***************************************************************************)
(* main or the user: what is typed stays below the bound, and main never   *)
(* takes a label of another thread.                                        *)
LEMMA MainTypes == ASSUME TerminalTypeOK, Main \/ TypeKey PROVE TerminalTypeOK'
<1> USE DEF TerminalTypeOK, UartLabels
<1>1. CASE Main
    <2>1. main' \in {"window", "wait", "free", "return", "exited"}
        BY <1>1 DEF Main, MainGoto
    <2>2. shutdown' \in BOOLEAN
        BY <1>1 DEF Main
    <2>3. uart_status' \in {"undef", "init", "rundown"} /\ fifo' \in {"allocated", "freed"}
        BY <1>1 DEF Main
    <2> QED
        BY <1>1, <2>1, <2>2, <2>3 DEF Main, input
<1>2. CASE TypeKey
    BY <1>2, MaxKeysAssumption DEF TypeKey, threads, flags
<1> QED
    BY <1>1, <1>2

(* A UART thread takes what the kernel holds over into the buffer of       *)
(* stdin, one character less: the buffer never holds more than the bound.  *)
LEMMA UartTypes == ASSUME TerminalTypeOK, NEW u \in Uarts, Uart(u) PROVE TerminalTypeOK'
<1> USE DEF TerminalTypeOK, UartLabels, UartGoto, flags, input
<1>1. CASE UartFlag(u)
    <2>1. uart' \in [Uarts -> UartLabels]
        BY <1>1 DEF UartFlag
    <2>2. uart_running' \in BOOLEAN
        BY <1>1 DEF UartFlag
    <2> QED
        BY <1>1, <2>1, <2>2 DEF UartFlag
<1>2. CASE Poll(u)
    BY <1>2 DEF Poll
<1>3. CASE Getchar(u)
    BY <1>3, MaxKeysAssumption DEF Getchar, Fetch
<1>4. CASE Push(u)
    BY <1>4 DEF Push
<1> QED
    BY <1>1, <1>2, <1>3, <1>4 DEF Uart

(* The CPU thread and a line read by the shell.                            *)
LEMMA ShellTypes ==
    ASSUME TerminalTypeOK, main_loop_Starts \/ RUN \/ OtherCommand \/ QUIT \/ Run
    PROVE  TerminalTypeOK'
<1> USE DEF TerminalTypeOK, UartLabels, UartGoto, ShellGoto, ReadLine, flags, input
<1>0. ReadLine => tty' \in 0 .. MaxKeys /\ stdio' \in 0 .. MaxKeys
    BY MaxKeysAssumption
<1> HIDE DEF ReadLine
<1>1. CASE main_loop_Starts
    BY <1>1 DEF main_loop_Starts
<1>2. CASE RUN \/ OtherCommand
    BY <1>0, <1>2 DEF RUN, OtherCommand, threads
<1>3. CASE QUIT
    BY <1>0, <1>3 DEF QUIT
<1>4. CASE RunStart
    BY <1>4 DEF RunStart
<1>5. CASE Execute
    BY <1>5 DEF Execute
<1>6. CASE RunEnd
    BY <1>6 DEF RunEnd
<1> QED
    BY <1>1, <1>2, <1>3, <1>4, <1>5, <1>6 DEF Run

(* The variables of the terminal input keep their types for every number   *)
(* of UART threads and characters: run() and uart_getchar_thread never     *)
(* make more of the characters than were typed.                            *)
THEOREM TerminalTypes == TerminalSpec => []TerminalTypeOK
<1>1. TerminalInit => TerminalTypeOK
    <2>1. TerminalInit => uart \in [Uarts -> UartLabels]
        BY DEF TerminalInit, UartLabels
    <2>2. TerminalInit => tty \in 0 .. MaxKeys /\ stdio \in 0 .. MaxKeys
        BY MaxKeysAssumption DEF TerminalInit
    <2> QED
        BY <2>1, <2>2 DEF TerminalInit, TerminalTypeOK
<1>2. TerminalTypeOK /\ [TerminalNext]_terminal_vars => TerminalTypeOK'
    <2>1. TerminalTypeOK /\ TerminalNext => TerminalTypeOK'
        BY MainTypes, UartTypes, ShellTypes DEF TerminalNext
    <2>2. TerminalTypeOK /\ UNCHANGED terminal_vars => TerminalTypeOK'
        BY DEF TerminalTypeOK, terminal_vars
    <2> QED
        BY <2>1, <2>2
<1> QED
    BY <1>1, <1>2, PTL DEF TerminalSpec
===========================================================================
