-------------------------------- MODULE Fifo --------------------------------
(***************************************************************************)
(* The ring buffer of the emulator (emulator/fifo.c): the threads of the   *)
(* emulator push and pull through it, every operation runs under the SDL   *)
(* mutex of the FIFO, and each statement of its body is a step of its own  *)
(* here, because readers outside of fifo.c look at fifo->count without     *)
(* the mutex (uart.c:84, uart.c:105, vga.c:117).                           *)
(***************************************************************************)
EXTENDS Integers, Sequences

CONSTANTS
    Size,       \* capacity handed to fifo_init
    Data,       \* the values that are pushed
    Junk,       \* what malloc may leave in a cell that was never written
    Threads,    \* the threads that hold a pointer to the FIFO
    NoThread    \* the mutex is free

ASSUME SizeAssumption == Size \in Nat \ {0}
ASSUME DataAssumption == Data \subseteq Int /\ Junk \subseteq Int
ASSUME ThreadAssumption == NoThread \notin Threads

VARIABLES
    data,       \* fifo->data; malloc does not initialise it
    head,       \* fifo->head, the cell the next push writes
    tail,       \* fifo->tail, the cell the next pull reads
    count,      \* fifo->count
    mutex,      \* owner of fifo->mutex
    pc,         \* pc[t]: where thread t is in fifo.c
    arg,        \* arg[t]: the argument of the push under way
    retval      \* retval[t]: the local retval of the pull under way

vars == <<data, head, tail, count, mutex, pc, arg, retval>>

Slots == 0 .. Size - 1

(* Mutant: the wrap-around one cell late. *)
AdvanceLate(x) == IF x < Size THEN x + 1 ELSE 0

(* if (x < size - 1) x++; else x = 0; *)
Advance(x) == IF x < Size - 1 THEN x + 1 ELSE 0

Entered == {"push_lock", "pull_lock", "clear_lock"}
Pushing == {"push_store", "push_count", "push_head"}
Pulling == {"pull_fetch", "pull_count", "pull_tail"}
Ending  == {"push_unlock", "pull_unlock", "clear_unlock"}
Inside  == Pushing \cup Pulling \cup Ending \cup {"clear_body"}

fifo_init ==
    /\ data \in [Slots -> Junk]
    /\ head = 0 /\ tail = 0 /\ count = 0
    /\ mutex = NoThread
    /\ pc = [t \in Threads |-> "idle"]
    /\ arg = [t \in Threads |-> 0]
    /\ retval = [t \in Threads |-> 0]

Goto(t, from, to) == pc[t] = from /\ pc' = [pc EXCEPT ![t] = to]

(***************************************************************************)
(* Calls and the mutex                                                     *)
(***************************************************************************)
CallPush(t, d) ==
    /\ Goto(t, "idle", "push_lock")
    /\ arg' = [arg EXCEPT ![t] = d]
    /\ UNCHANGED <<data, head, tail, count, mutex, retval>>

CallPull(t) ==
    /\ Goto(t, "idle", "pull_lock")
    /\ UNCHANGED <<data, head, tail, count, mutex, arg, retval>>

CallClear(t) ==
    /\ Goto(t, "idle", "clear_lock")
    /\ UNCHANGED <<data, head, tail, count, mutex, arg, retval>>

Lock(t) ==
    /\ mutex = NoThread
    /\ mutex' = t
    /\ \/ Goto(t, "push_lock", "push_store")
       \/ Goto(t, "pull_lock", "pull_fetch")
       \/ Goto(t, "clear_lock", "clear_body")
    /\ UNCHANGED <<data, head, tail, count, arg, retval>>

Unlock(t) ==
    /\ pc[t] \in Ending
    /\ pc' = [pc EXCEPT ![t] = "idle"]
    /\ mutex' = NoThread
    /\ arg' = [arg EXCEPT ![t] = 0]
    /\ retval' = [retval EXCEPT ![t] = 0]
    /\ UNCHANGED <<data, head, tail, count>>

(***************************************************************************)
(* fifo_push                                                               *)
(***************************************************************************)
PushStore(t) ==
    /\ pc[t] = "push_store"
    /\ IF count < Size
       THEN /\ pc' = [pc EXCEPT ![t] = "push_count"]
            /\ data' = [data EXCEPT ![head] = arg[t]]
       ELSE /\ pc' = [pc EXCEPT ![t] = "push_unlock"]
            /\ data' = data
    /\ UNCHANGED <<head, tail, count, mutex, arg, retval>>

PushCount(t) ==
    /\ Goto(t, "push_count", "push_head")
    /\ count' = count + 1
    /\ UNCHANGED <<data, head, tail, mutex, arg, retval>>

PushHead(t) ==
    /\ Goto(t, "push_head", "push_unlock")
    /\ head' = Advance(head)
    /\ UNCHANGED <<data, tail, count, mutex, arg, retval>>

(***************************************************************************)
(* fifo_pull                                                               *)
(***************************************************************************)
PullFetch(t) ==
    /\ pc[t] = "pull_fetch"
    /\ IF count # 0
       THEN /\ pc' = [pc EXCEPT ![t] = "pull_count"]
            /\ retval' = [retval EXCEPT ![t] = data[tail]]
       ELSE /\ pc' = [pc EXCEPT ![t] = "pull_unlock"]
            /\ retval' = [retval EXCEPT ![t] = 0]
    /\ UNCHANGED <<data, head, tail, count, mutex, arg>>

PullCount(t) ==
    /\ Goto(t, "pull_count", "pull_tail")
    /\ count' = count - 1
    /\ UNCHANGED <<data, head, tail, mutex, arg, retval>>

PullTail(t) ==
    /\ Goto(t, "pull_tail", "pull_unlock")
    /\ tail' = Advance(tail)
    /\ UNCHANGED <<data, head, count, mutex, arg, retval>>

(***************************************************************************)
(* fifo_clear                                                              *)
(***************************************************************************)
ClearBody(t) ==
    /\ Goto(t, "clear_body", "clear_unlock")
    /\ head' = 0 /\ tail' = 0 /\ count' = 0
    /\ UNCHANGED <<data, mutex, arg, retval>>

Step(t) ==
    \/ \E d \in Data : CallPush(t, d)
    \/ CallPull(t)
    \/ CallClear(t)
    \/ Lock(t)
    \/ PushStore(t) \/ PushCount(t) \/ PushHead(t)
    \/ PullFetch(t) \/ PullCount(t) \/ PullTail(t)
    \/ ClearBody(t)
    \/ Unlock(t)

Next == \E t \in Threads : Step(t)

Spec == fifo_init /\ [][Next]_vars

-----------------------------------------------------------------------------
TypeOK ==
    /\ data \in [Slots -> Data \cup Junk]
    /\ head \in Slots
    /\ tail \in Slots
    /\ count \in 0 .. Size
    /\ mutex \in Threads \cup {NoThread}
    /\ pc \in [Threads -> {"idle"} \cup Entered \cup Inside]
    /\ arg \in [Threads -> Data \cup {0}]
    /\ retval \in [Threads -> Data \cup {0}]

(* A slot counted from s, wrapping around once. *)
Slot(s, k) == IF s + k < Size THEN s + k ELSE s + k - Size

(* While a pull has lowered count but not yet moved tail, the oldest value *)
(* is one cell further; while a push has raised count but not moved head,  *)
(* the next free cell is one further.                                      *)
First == IF \E t \in Threads : pc[t] = "pull_tail" THEN Advance(tail) ELSE tail
Free  == IF \E t \in Threads : pc[t] = "push_head" THEN Advance(head) ELSE head

(* The mutex admits one thread into the bodies of fifo.c. *)
MutexInv == \A t \in Threads : pc[t] \in Inside <=> mutex = t

(* head, tail and count of the ring agree after every interleaved step.    *)
RingInv == Free = Slot(First, count)

(* Every value between tail and head was stored by a push: a pull never    *)
(* hands out a cell that malloc left uninitialised.                        *)
StoredInv == \A k \in 0 .. count - 1 : data[Slot(First, k)] \in Data

(* The parts of the calls under way that the later steps rely on. *)
PendingInv ==
    \A t \in Threads :
        /\ pc[t] \in {"push_lock"} \cup Pushing => arg[t] \in Data
        /\ pc[t] = "push_count" => count < Size /\ data[head] = arg[t]
        /\ pc[t] = "push_head" => count > 0
        /\ pc[t] = "pull_count" => count > 0 /\ retval[t] = data[tail]
        /\ pc[t] = "pull_tail" => count < Size

(* Locals of fifo_push and fifo_pull exist while their call is under way.  *)
IdleArg ==
    \A t \in Threads :
        /\ arg[t] # 0 => pc[t] \in {"push_lock", "push_unlock"} \cup Pushing
        /\ retval[t] # 0 => pc[t] \in {"pull_unlock"} \cup Pulling

IndInv == TypeOK /\ MutexInv /\ RingInv /\ StoredInv /\ PendingInv /\ IdleArg

-----------------------------------------------------------------------------
(* The calls of fifo.c as calls of the abstract queue: they take effect    *)
(* when count changes, or when a push finds the ring full or a pull finds  *)
(* it empty.                                                               *)
OpOf(p) ==
    IF p \in {"push_lock", "push_unlock"} \cup Pushing THEN "push"
    ELSE IF p \in {"pull_lock", "pull_unlock"} \cup Pulling THEN "pull"
    ELSE IF p \in {"clear_lock", "clear_body", "clear_unlock"} THEN "clear"
    ELSE "none"

DoneAt == Ending \cup {"push_head", "pull_tail"}

CallOf(t) ==
    [op   |-> OpOf(pc[t]),
     arg  |-> arg[t],
     st   |-> IF pc[t] \in DoneAt THEN "done" ELSE "open",
     res  |-> IF pc[t] \in {"pull_tail", "pull_unlock"} THEN retval[t] ELSE 0]

QueueOf == [i \in 1 .. count |-> data[Slot(First, i - 1)]]

Queue == INSTANCE BoundedQueue WITH q <- QueueOf, call <- [t \in Threads |-> CallOf(t)]

(* fifo.c implements the bounded queue: whatever the threads interleave,   *)
(* values leave in the order in which they entered, none twice, none       *)
(* invented, and only a push that meets a full ring is dropped.            *)
ImplementsQueue == Queue!QSpec
=============================================================================
