-------------------------------- MODULE Fifo --------------------------------
(***************************************************************************)
(* rpc/fifo.h with the ScopedLock of rpc/slock.h: the bounded queue that   *)
(* the threads of the RPC library share, one mutex and two condition       *)
(* variables.                                                              *)
(*                                                                         *)
(* The mutex m_ is held from the first statement of enq, deq and size to   *)
(* the last, except inside pthread_cond_wait: what a thread does between   *)
(* getting the mutex and giving it back, by returning or by waiting, is    *)
(* one step.  A thread is in the set of a condition variable while it      *)
(* waits there; taken out of it, by a signal or by a spurious wake-up, it  *)
(* competes for the mutex with the threads that have just called.          *)
(***************************************************************************)
EXTENDS Naturals, Sequences, FiniteSets

CONSTANTS
    max_,           \* fifo::max_, 0 for no limit
    Items,          \* what is queued
    Producers,      \* the threads that call enq
    Consumers       \* the threads that call deq

ASSUME FifoAssumption ==
    /\ max_ \in Nat
    /\ IsFiniteSet(Producers) /\ IsFiniteSet(Consumers)

VARIABLES
    q_,             \* fifo::q_
    call,           \* the call each thread is in, or what its last one returned
    non_empty_c_,   \* the threads that wait for an element
    has_space_c_    \* the threads that wait for room

fifoVars == <<q_, call, non_empty_c_, has_space_c_>>

Threads == Producers \cup Consumers

-----------------------------------------------------------------------------
(* Calls. *)

EnqCall == [op : {"enq"}, item : Items, blocking : BOOLEAN]
DeqCall == [op : {"deq"}]

Returned(v) == [op |-> "returned", value |-> v]
Return == {Returned(v) : v \in {<<"none">>, <<"true">>, <<"false">>}}
          \cup {Returned(<<"item", x>>) : x \in Items}

Init ==
    /\ q_ = << >>
    /\ call = [t \in Threads |-> Returned(<<"none">>)]
    /\ non_empty_c_ = {}
    /\ has_space_c_ = {}

Begin(t, c) ==
    /\ call[t].op = "returned"
    /\ call' = [call EXCEPT ![t] = c]
    /\ UNCHANGED <<q_, non_empty_c_, has_space_c_>>

\* A thread in the call op that does not wait and so can get the mutex.
Running(t, op) == call[t].op = op /\ t \notin non_empty_c_ \cup has_space_c_

\* Mutant: one element too many.
HasSpaceOneMore == max_ = 0 \/ Len(q_) <= max_

HasSpace == max_ = 0 \/ Len(q_) < max_

-----------------------------------------------------------------------------
(* pthread_cond_signal takes one waiter out of the set, if there is one. *)

Signalled(waiting) ==
    IF waiting = {} THEN {{}} ELSE {waiting \ {t} : t \in waiting}

\* Mutant: enq signals only when the queue was empty before.
EnqPushSignalsFirst(t) ==
    /\ Running(t, "enq") /\ HasSpace
    /\ q_' = Append(q_, call[t].item)
    /\ call' = [call EXCEPT ![t] = Returned(<<"true">>)]
    /\ IF q_ = << >> THEN non_empty_c_' \in Signalled(non_empty_c_)
       ELSE UNCHANGED non_empty_c_
    /\ UNCHANGED has_space_c_

\* Mutant: enq does not signal.
EnqPushNoSignal(t) ==
    /\ Running(t, "enq") /\ HasSpace
    /\ q_' = Append(q_, call[t].item)
    /\ call' = [call EXCEPT ![t] = Returned(<<"true">>)]
    /\ UNCHANGED <<non_empty_c_, has_space_c_>>

enq_push(t) ==
    /\ Running(t, "enq") /\ HasSpace
    /\ q_' = Append(q_, call[t].item)
    /\ call' = [call EXCEPT ![t] = Returned(<<"true">>)]
    /\ non_empty_c_' \in Signalled(non_empty_c_)
    /\ UNCHANGED has_space_c_

\* Mutant: enq does not look at its argument blocking.
EnqWaitAlways(t) ==
    /\ Running(t, "enq") /\ ~ HasSpace
    /\ has_space_c_' = has_space_c_ \cup {t}
    /\ UNCHANGED <<q_, call, non_empty_c_>>

enq_wait(t) ==
    /\ Running(t, "enq") /\ ~ HasSpace /\ call[t].blocking
    /\ has_space_c_' = has_space_c_ \cup {t}
    /\ UNCHANGED <<q_, call, non_empty_c_>>

\* Mutant: a non-blocking enq may be refused by a queue with room.
EnqRefuseAlways(t) ==
    /\ Running(t, "enq") /\ ~ call[t].blocking
    /\ call' = [call EXCEPT ![t] = Returned(<<"false">>)]
    /\ UNCHANGED <<q_, non_empty_c_, has_space_c_>>

enq_refuse(t) ==
    /\ Running(t, "enq") /\ ~ HasSpace /\ ~ call[t].blocking
    /\ call' = [call EXCEPT ![t] = Returned(<<"false">>)]
    /\ UNCHANGED <<q_, non_empty_c_, has_space_c_>>

deq_wait(t) ==
    /\ Running(t, "deq") /\ q_ = << >>
    /\ non_empty_c_' = non_empty_c_ \cup {t}
    /\ UNCHANGED <<q_, call, has_space_c_>>

\* Mutant: deq compares the size before the pop with the limit.
DeqPopSignalsLate(t) ==
    /\ Running(t, "deq") /\ q_ # << >>
    /\ q_' = Tail(q_)
    /\ call' = [call EXCEPT ![t] = Returned(<<"item", Head(q_)>>)]
    /\ IF max_ # 0 /\ Len(q_') + 1 < max_ THEN has_space_c_' \in Signalled(has_space_c_)
       ELSE UNCHANGED has_space_c_
    /\ UNCHANGED non_empty_c_

deq_pop(t) ==
    /\ Running(t, "deq") /\ q_ # << >>
    /\ q_' = Tail(q_)
    /\ call' = [call EXCEPT ![t] = Returned(<<"item", Head(q_)>>)]
    /\ IF max_ # 0 /\ Len(q_') < max_ THEN has_space_c_' \in Signalled(has_space_c_)
       ELSE UNCHANGED has_space_c_
    /\ UNCHANGED non_empty_c_

\* POSIX lets pthread_cond_wait return without a signal.
spurious_wakeup(t) ==
    /\ t \in non_empty_c_ \cup has_space_c_
    /\ non_empty_c_' = non_empty_c_ \ {t}
    /\ has_space_c_' = has_space_c_ \ {t}
    /\ UNCHANGED <<q_, call>>

\* A thread's turn with the mutex.
enq(t) == enq_push(t) \/ enq_wait(t) \/ enq_refuse(t)
deq(t) == deq_pop(t) \/ deq_wait(t)

Next ==
    \/ \E t \in Producers, c \in EnqCall : Begin(t, c)
    \/ \E t \in Consumers, c \in DeqCall : Begin(t, c)
    \/ \E t \in Threads : enq(t) \/ deq(t) \/ spurious_wakeup(t)

Spec == Init /\ [][Next]_fifoVars

\* A thread that wants the mutex gets it in the end: it is held for a few
\* statements at a time.  Nothing makes a thread call, wake up spuriously, or
\* be the one that a signal chooses.
Fairness == \A t \in Threads : WF_fifoVars(enq(t)) /\ WF_fifoVars(deq(t))

FairSpec == Spec /\ Fairness

-----------------------------------------------------------------------------
(* Properties. *)

\* A queue within its limit; producers are in enq and consumers in deq, and a
\* thread waits on the condition variable of the call it is in.
TypeOK ==
    /\ q_ \in Seq(Items)
    /\ max_ # 0 => Len(q_) <= max_
    /\ call \in [Threads -> EnqCall \cup DeqCall \cup Return]
    /\ \A t \in Threads : call[t].op = "enq" => t \in Producers
    /\ \A t \in Threads : call[t].op = "deq" => t \in Consumers
    /\ non_empty_c_ \subseteq {t \in Consumers : call[t].op = "deq"}
    /\ has_space_c_ \subseteq {t \in Producers : call[t].op = "enq"}

\* No wake-up is lost to the threads in deq: while one of them sleeps, at least
\* as many are awake as there are elements, though each enq signals one thread
\* only, and another may take the element before the one it woke.
NoLostElement ==
    non_empty_c_ # {} => Len(q_) <= Cardinality({t \in Threads : Running(t, "deq")})

\* The same of the threads in enq and the free places.  A non-blocking enq may
\* take the place that a sleeper was woken for.
NoLostSpace ==
    has_space_c_ # {} => max_ - Len(q_) <= Cardinality({t \in Threads : Running(t, "enq")})

\* A non-blocking enq returns, whatever the other threads do.
NonBlockingReturns ==
    \A t \in Producers :
        call[t].op = "enq" /\ ~ call[t].blocking ~> call[t].op = "returned"

Queue == INSTANCE BoundedQueue WITH queue <- q_

\* To its callers the lock, the condition variables and the waiting are one
\* atomic queue, which refuses only when it is full, and which always serves
\* somebody when it can.
QueueSpec == Queue!Spec

=============================================================================
