---------------------------- MODULE BoundedQueue ----------------------------
(***************************************************************************)
(* What fifo<T> promises to the threads that share one: a queue of at most *)
(* max_ elements (any number when max_ is 0).  A call takes effect at one  *)
(* moment between its start and its return.                                *)
(***************************************************************************)
EXTENDS Naturals, Sequences

CONSTANTS
    max_,           \* the limit, 0 for none
    Items,          \* what is queued
    Producers,      \* the threads that call enq
    Consumers       \* the threads that call deq

VARIABLES
    queue,          \* the elements, oldest first
    call            \* the call of each thread, or what its last one returned

bqVars == <<queue, call>>

Threads == Producers \cup Consumers

EnqCall == [op : {"enq"}, item : Items, blocking : BOOLEAN]
DeqCall == [op : {"deq"}]

\* The result of a call; "none" before the first one.
Returned(v) == [op |-> "returned", value |-> v]
Return == {Returned(v) : v \in {<<"none">>, <<"true">>, <<"false">>}}
          \cup {Returned(<<"item", x>>) : x \in Items}

HasRoom == max_ = 0 \/ Len(queue) < max_

Init ==
    /\ queue = << >>
    /\ call = [t \in Threads |-> Returned(<<"none">>)]

Start(t) ==
    /\ call[t].op = "returned"
    /\ \E c \in (IF t \in Producers THEN EnqCall ELSE {})
                \cup (IF t \in Consumers THEN DeqCall ELSE {}) :
          call' = [call EXCEPT ![t] = c]
    /\ UNCHANGED queue

Put(t) ==
    /\ call[t].op = "enq" /\ HasRoom
    /\ queue' = Append(queue, call[t].item)
    /\ call' = [call EXCEPT ![t] = Returned(<<"true">>)]

Refuse(t) ==
    /\ call[t].op = "enq" /\ ~ HasRoom /\ ~ call[t].blocking
    /\ call' = [call EXCEPT ![t] = Returned(<<"false">>)]
    /\ UNCHANGED queue

Take(t) ==
    /\ call[t].op = "deq" /\ queue # << >>
    /\ queue' = Tail(queue)
    /\ call' = [call EXCEPT ![t] = Returned(<<"item", Head(queue)>>)]

Next == \E t \in Threads : Start(t) \/ Put(t) \/ Refuse(t) \/ Take(t)

\* Some put goes through while there is room and somebody wants it, and some
\* take while there is an element.  Which thread is served is left open.
Fairness ==
    /\ WF_bqVars(\E t \in Threads : Put(t))
    /\ WF_bqVars(\E t \in Threads : Take(t))

Spec == Init /\ [][Next]_bqVars /\ Fairness

=============================================================================
