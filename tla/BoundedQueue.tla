---------------------------- MODULE BoundedQueue ----------------------------
(***************************************************************************)
(* What a FIFO of the emulator promises to the threads that share it: one  *)
(* queue of at most Size values, every call takes effect at one instant    *)
(* between its invocation and its return.  A push on a full queue is       *)
(* dropped silently, a pull on an empty queue returns 0.                   *)
(* Abstract specification of emulator/fifo.c; module Fifo implements it.   *)
(***************************************************************************)
EXTENDS Integers, Sequences

CONSTANTS
    Size,       \* capacity handed to fifo_init
    Data,       \* the values that are pushed
    Threads     \* the threads that hold a pointer to the FIFO

VARIABLES
    q,          \* the queued values, oldest first
    call        \* call[t]: the pending call of thread t and its outcome

qvars == <<q, call>>

Idle == [op |-> "none", arg |-> 0, st |-> "open", res |-> 0]

QInit == q = << >> /\ call = [t \in Threads |-> Idle]

(* A thread may only have one call under way. *)
Invoke(t, op, arg) ==
    /\ call[t].op = "none"
    /\ call' = [call EXCEPT ![t] = [op |-> op, arg |-> arg, st |-> "open", res |-> 0]]
    /\ UNCHANGED q

Effect(t, newq, res) ==
    /\ q' = newq
    /\ call' = [call EXCEPT ![t] = [op |-> call[t].op, arg |-> call[t].arg,
                                    st |-> "done", res |-> res]]

Push(t) ==
    /\ call[t].op = "push" /\ call[t].st = "open"
    /\ Effect(t, IF Len(q) < Size THEN Append(q, call[t].arg) ELSE q, 0)

Pull(t) ==
    /\ call[t].op = "pull" /\ call[t].st = "open"
    /\ IF q # << >> THEN Effect(t, Tail(q), Head(q)) ELSE Effect(t, q, 0)

Clear(t) ==
    /\ call[t].op = "clear" /\ call[t].st = "open"
    /\ Effect(t, << >>, 0)

Return(t) ==
    /\ call[t].st = "done"
    /\ call' = [call EXCEPT ![t] = Idle]
    /\ UNCHANGED q

QNext ==
    \E t \in Threads :
        \/ \E d \in Data : Invoke(t, "push", d)
        \/ Invoke(t, "pull", 0)
        \/ Invoke(t, "clear", 0)
        \/ Push(t)
        \/ Pull(t)
        \/ Clear(t)
        \/ Return(t)

QSpec == QInit /\ [][QNext]_qvars
=============================================================================
