---------------------------- MODULE FifoProofs ------------------------------
(***************************************************************************)
(* Theorems about the queue, for every limit, every finite set of threads  *)
(* and every set of items.                                                 *)
(***************************************************************************)
EXTENDS Fifo, FiniteSetTheorems, TLAPS

\* The threads in the call op that are not asleep.
Awake(op) == {t \in Threads : Running(t, op)}

\* What the proof carries from step to step: each part rests on the others,
\* since a wake-up makes up for an element only if the woken thread is in deq.
FInv == TypeOK /\ NoLostElement /\ NoLostSpace

-----------------------------------------------------------------------------
(* Counting. *)

\* Sets of threads can be counted.
LEMMA AwakeFinite ==
    ASSUME NEW op
    PROVE  IsFiniteSet(Awake(op)) /\ Cardinality(Awake(op)) \in Nat
<1>1. IsFiniteSet(Threads)
  BY FifoAssumption, FS_Union DEF Threads
<1>2. Awake(op) \in SUBSET Threads
  BY DEF Awake
<1> QED
  BY <1>1, <1>2, FS_Subset, FS_CardinalityType

\* So can they after a step.
LEMMA AwakeFinitePrime ==
    ASSUME NEW op
    PROVE  IsFiniteSet(Awake(op)') /\ Cardinality(Awake(op)') \in Nat
<1>1. IsFiniteSet(Threads)
  BY FifoAssumption, FS_Union DEF Threads
<1>2. Awake(op)' \in SUBSET Threads
  BY DEF Awake
<1> QED
  BY <1>1, <1>2, FS_Subset, FS_CardinalityType

\* One thread more is one thread more.
LEMMA CountMore ==
    ASSUME NEW S, NEW T, IsFiniteSet(S), NEW x, x \notin S, T = S \cup {x}
    PROVE  Cardinality(T) = Cardinality(S) + 1
BY FS_AddElement

\* One thread less is one thread less.
LEMMA CountLess ==
    ASSUME NEW S, NEW T, IsFiniteSet(S), NEW x, x \in S, T = S \ {x}
    PROVE  Cardinality(T) = Cardinality(S) - 1
BY FS_RemoveElement

\* A signal leaves the set as it is, if nobody waits, or takes out one thread.
LEMMA SignalFacts ==
    ASSUME NEW S, NEW T, T \in Signalled(S)
    PROVE  (S = {} /\ T = {}) \/ \E w \in S : T = S \ {w}
BY DEF Signalled

\* The operation a thread is in, by the set its call belongs to.
LEMMA CallOps ==
    /\ \A c \in EnqCall : c.op = "enq" /\ c.item \in Items /\ c.blocking \in BOOLEAN
    /\ \A c \in DeqCall : c.op = "deq"
    /\ \A c \in Return : c.op = "returned"
BY DEF EnqCall, DeqCall, Return, Returned

\* Results of calls.
LEMMA ReturnFacts ==
    /\ Returned(<<"none">>) \in Return
    /\ Returned(<<"true">>) \in Return
    /\ Returned(<<"false">>) \in Return
    /\ \A x \in Items : Returned(<<"item", x>>) \in Return
    /\ \A v : Returned(v).op = "returned"
BY DEF Return, Returned

\* The two properties, before and after a step, with the counted sets named.
LEMMA CountForm ==
    /\ NoLostElement <=> (non_empty_c_ # {} => Len(q_) <= Cardinality(Awake("deq")))
    /\ NoLostSpace <=> (has_space_c_ # {} => max_ - Len(q_) <= Cardinality(Awake("enq")))
    /\ NoLostElement' <=> (non_empty_c_' # {} => Len(q_') <= Cardinality(Awake("deq")'))
    /\ NoLostSpace' <=> (has_space_c_' # {} => max_ - Len(q_') <= Cardinality(Awake("enq")'))
BY DEF NoLostElement, NoLostSpace, Awake

-----------------------------------------------------------------------------
(* One lemma per step.  A thread is in one call, so that it is counted at most *)
(* once, and asleep on the condition variable of that call only.               *)

\* A thread that starts a call is awake in it.
LEMMA BeginStep ==
    ASSUME FInv, NEW t \in Threads, NEW c, Begin(t, c),
           (t \in Producers /\ c \in EnqCall) \/ (t \in Consumers /\ c \in DeqCall)
    PROVE  FInv'
<1>1. call' \in [Threads -> EnqCall \cup DeqCall \cup Return] /\ t \notin non_empty_c_ \cup has_space_c_
  BY CallOps DEF Begin, FInv, TypeOK
<1>2. TypeOK'
  BY <1>1, CallOps DEF Begin, FInv, TypeOK, Threads
<1>3. Awake("deq") \subseteq Awake("deq")' /\ Awake("enq") \subseteq Awake("enq")'
  BY <1>1, CallOps DEF Awake, Running, Begin, FInv, TypeOK
<1>4. /\ Cardinality(Awake("deq")) <= Cardinality(Awake("deq")')
      /\ Cardinality(Awake("enq")) <= Cardinality(Awake("enq")')
  BY <1>3, AwakeFinite, AwakeFinitePrime, FS_Subset
<1>5. q_' = q_ /\ non_empty_c_' = non_empty_c_ /\ has_space_c_' = has_space_c_ /\ Len(q_) \in Nat
  BY DEF Begin, FInv, TypeOK
<1>6. NoLostElement' /\ NoLostSpace'
  BY <1>4, <1>5, CountForm, AwakeFinite, AwakeFinitePrime, FifoAssumption DEF FInv
<1> QED
  BY <1>2, <1>6 DEF FInv

\* The new element has the thread that its signal wakes, or nobody sleeps; the
\* place it takes was the caller's own.
LEMMA EnqPushStep ==
    ASSUME FInv, NEW t \in Threads, enq_push(t)
    PROVE  FInv'
<1>1. call[t] \in EnqCall /\ t \notin non_empty_c_ \cup has_space_c_
  BY CallOps DEF enq_push, Running, FInv, TypeOK
<1>2. /\ call' = [call EXCEPT ![t] = Returned(<<"true">>)]
      /\ call' \in [Threads -> EnqCall \cup DeqCall \cup Return]
  BY ReturnFacts DEF enq_push, FInv, TypeOK
<1>3. /\ q_ \in Seq(Items) /\ q_' = Append(q_, call[t].item) /\ q_' \in Seq(Items)
      /\ Len(q_) \in Nat /\ Len(q_') = Len(q_) + 1 /\ (max_ = 0 \/ Len(q_) < max_)
  BY <1>1, CallOps DEF enq_push, HasSpace, FInv, TypeOK
<1>4. has_space_c_' = has_space_c_ /\ non_empty_c_' \subseteq non_empty_c_
  BY SignalFacts DEF enq_push
<1>5. TypeOK'
  BY <1>1, <1>2, <1>3, <1>4, ReturnFacts, FifoAssumption DEF FInv, TypeOK, Threads
<1>6. t \in Awake("enq") /\ Awake("enq")' = Awake("enq") \ {t}
  BY <1>1, <1>2, <1>4, CallOps, ReturnFacts DEF Awake, Running, FInv, TypeOK, enq_push
<1>7. NoLostSpace'
  BY <1>3, <1>4, <1>6, CountLess, CountForm, AwakeFinite, FifoAssumption DEF FInv
<1>8. CASE non_empty_c_' = {}
  BY <1>5, <1>7, <1>8, CountForm DEF FInv
<1>9. CASE non_empty_c_' # {}
  <2>1. PICK w \in non_empty_c_ : non_empty_c_' = non_empty_c_ \ {w}
    BY <1>9, SignalFacts DEF enq_push
  <2>2. w # t /\ w \in Threads /\ call[w].op = "deq" /\ w \notin has_space_c_
    BY <1>1 DEF FInv, TypeOK, Threads
  <2>3. w \notin Awake("deq") /\ Awake("deq")' = Awake("deq") \cup {w}
    BY <1>1, <1>2, <1>4, <2>1, <2>2, CallOps, ReturnFacts DEF Awake, Running, FInv, TypeOK
  <2>4. Cardinality(Awake("deq")') = Cardinality(Awake("deq")) + 1
    BY <2>3, CountMore, AwakeFinite
  <2>5. NoLostElement'
    BY <1>3, <2>1, <2>4, CountForm, AwakeFinite DEF FInv
  <2> QED
    BY <1>5, <1>7, <2>5 DEF FInv
<1> QED
  BY <1>8, <1>9

\* A thread waits for room, or is refused, only when there is none: nobody
\* needs it.
LEMMA EnqFullStep ==
    ASSUME FInv, NEW t \in Threads, enq_wait(t) \/ enq_refuse(t)
    PROVE  FInv'
<1>1. call[t] \in EnqCall /\ t \notin non_empty_c_ \cup has_space_c_ /\ call[t].op = "enq"
  BY CallOps DEF enq_wait, enq_refuse, Running, FInv, TypeOK
<1>2. /\ q_' = q_ /\ non_empty_c_' = non_empty_c_ /\ Len(q_) \in Nat
      /\ max_ # 0 /\ ~ (Len(q_) < max_)
  BY DEF enq_wait, enq_refuse, HasSpace, FInv, TypeOK
<1>3. \/ call' = call /\ has_space_c_' = has_space_c_ \cup {t}
      \/ call' = [call EXCEPT ![t] = Returned(<<"false">>)] /\ has_space_c_' = has_space_c_
  BY DEF enq_wait, enq_refuse
<1>4. call' \in [Threads -> EnqCall \cup DeqCall \cup Return]
  BY <1>3, ReturnFacts DEF FInv, TypeOK
<1>5. TypeOK'
  BY <1>1, <1>2, <1>3, <1>4, ReturnFacts DEF FInv, TypeOK, Threads
<1>6. Awake("deq")' = Awake("deq")
  BY <1>1, <1>2, <1>3, CallOps, ReturnFacts DEF Awake, Running, FInv, TypeOK
<1>7. NoLostElement' /\ NoLostSpace'
  BY <1>2, <1>6, CountForm, AwakeFinitePrime, FifoAssumption DEF FInv
<1> QED
  BY <1>5, <1>7 DEF FInv

\* A thread waits for an element only when there is none.
LEMMA DeqWaitStep ==
    ASSUME FInv, NEW t \in Threads, deq_wait(t)
    PROVE  FInv'
<1>1. call[t].op = "deq" /\ t \notin non_empty_c_ \cup has_space_c_
  BY DEF deq_wait, Running
<1>2. /\ q_' = q_ /\ call' = call /\ has_space_c_' = has_space_c_
      /\ non_empty_c_' = non_empty_c_ \cup {t} /\ Len(q_) = 0
  BY DEF deq_wait, FInv, TypeOK
<1>3. TypeOK'
  BY <1>1, <1>2 DEF FInv, TypeOK
<1>4. Awake("enq")' = Awake("enq")
  BY <1>1, <1>2 DEF Awake, Running
<1>5. NoLostElement' /\ NoLostSpace'
  BY <1>2, <1>4, CountForm, AwakeFinitePrime DEF FInv
<1> QED
  BY <1>3, <1>5 DEF FInv

\* The element that goes was the caller's own; the place has the thread that the
\* signal wakes, or nobody waits for room.  deq signals whenever there is a
\* limit, for the queue was within it.
LEMMA DeqPopStep ==
    ASSUME FInv, NEW t \in Threads, deq_pop(t)
    PROVE  FInv'
<1>1. call[t].op = "deq" /\ t \notin non_empty_c_ \cup has_space_c_
  BY DEF deq_pop, Running
<1>2. /\ q_ \in Seq(Items) /\ q_ # << >> /\ q_' = Tail(q_) /\ q_' \in Seq(Items)
      /\ Head(q_) \in Items
      /\ Len(q_) \in Nat /\ Len(q_') \in Nat /\ Len(q_') = Len(q_) - 1
      /\ (max_ = 0 \/ Len(q_) <= max_)
  BY DEF deq_pop, FInv, TypeOK
<1>3. /\ call' = [call EXCEPT ![t] = Returned(<<"item", Head(q_)>>)]
      /\ call' \in [Threads -> EnqCall \cup DeqCall \cup Return]
  BY <1>2, ReturnFacts DEF deq_pop, FInv, TypeOK
<1>4. non_empty_c_' = non_empty_c_ /\ has_space_c_' \subseteq has_space_c_
  BY SignalFacts DEF deq_pop
<1>5. TypeOK'
  BY <1>1, <1>2, <1>3, <1>4, ReturnFacts, FifoAssumption DEF FInv, TypeOK
<1>6. t \in Awake("deq") /\ Awake("deq")' = Awake("deq") \ {t}
  BY <1>1, <1>3, <1>4, CallOps, ReturnFacts DEF Awake, Running, FInv, TypeOK, deq_pop
<1>7. NoLostElement'
  BY <1>2, <1>4, <1>6, CountLess, CountForm, AwakeFinite DEF FInv
<1>8. CASE has_space_c_' = {} \/ max_ = 0
  <2>1. NoLostSpace'
    BY <1>2, <1>8, CountForm, AwakeFinitePrime
  <2> QED
    BY <1>5, <1>7, <2>1 DEF FInv
<1>9. CASE has_space_c_' # {} /\ max_ # 0
  <2>0. has_space_c_' \in Signalled(has_space_c_)
    BY <1>2, <1>9, FifoAssumption DEF deq_pop
  <2>1. PICK w \in has_space_c_ : has_space_c_' = has_space_c_ \ {w}
    BY <1>9, <2>0, SignalFacts
  <2>2. w # t /\ w \in Threads /\ call[w].op = "enq" /\ w \notin non_empty_c_
    BY <1>1 DEF FInv, TypeOK, Threads
  <2>3. w \notin Awake("enq") /\ Awake("enq")' = Awake("enq") \cup {w}
    BY <1>1, <1>3, <1>4, <2>1, <2>2, CallOps, ReturnFacts DEF Awake, Running, FInv, TypeOK
  <2>4. Cardinality(Awake("enq")') = Cardinality(Awake("enq")) + 1
    BY <2>3, CountMore, AwakeFinite
  <2>5. NoLostSpace'
    BY <1>2, <2>1, <2>4, CountForm, AwakeFinite, FifoAssumption DEF FInv
  <2> QED
    BY <1>5, <1>7, <2>5 DEF FInv
<1> QED
  BY <1>8, <1>9

\* A spurious wake-up only adds to the threads that are awake.
LEMMA WakeupStep ==
    ASSUME FInv, NEW t \in Threads, spurious_wakeup(t)
    PROVE  FInv'
<1>1. /\ q_' = q_ /\ call' = call /\ Len(q_) \in Nat
      /\ non_empty_c_' = non_empty_c_ \ {t} /\ has_space_c_' = has_space_c_ \ {t}
  BY DEF spurious_wakeup, FInv, TypeOK
<1>2. TypeOK'
  BY <1>1 DEF FInv, TypeOK
<1>3. Awake("deq") \subseteq Awake("deq")' /\ Awake("enq") \subseteq Awake("enq")'
  BY <1>1 DEF Awake, Running
<1>4. /\ Cardinality(Awake("deq")) <= Cardinality(Awake("deq")')
      /\ Cardinality(Awake("enq")) <= Cardinality(Awake("enq")')
  BY <1>3, AwakeFinite, AwakeFinitePrime, FS_Subset
<1>5. NoLostElement' /\ NoLostSpace'
  BY <1>1, <1>4, CountForm, AwakeFinite, AwakeFinitePrime, FifoAssumption DEF FInv
<1> QED
  BY <1>2, <1>5 DEF FInv

-----------------------------------------------------------------------------
(* The theorems. *)

\* The queue starts empty, with every thread outside.
LEMMA InitFInv == Init => FInv
<1> SUFFICES ASSUME Init PROVE FInv
  OBVIOUS
<1>1. TypeOK
  BY ReturnFacts, CallOps, FifoAssumption DEF Init, TypeOK
<1>2. NoLostElement /\ NoLostSpace
  BY DEF Init, NoLostElement, NoLostSpace
<1> QED
  BY <1>1, <1>2 DEF FInv

\* Every step keeps the invariant.
LEMMA NextFInv == FInv /\ [Next]_fifoVars => FInv'
<1> SUFFICES ASSUME FInv, [Next]_fifoVars PROVE FInv'
  OBVIOUS
<1>1. CASE UNCHANGED fifoVars
  BY <1>1 DEF fifoVars, FInv, TypeOK, NoLostElement, NoLostSpace, Running
<1>2. ASSUME NEW t \in Producers, NEW c \in EnqCall, Begin(t, c) PROVE FInv'
  BY <1>2, BeginStep DEF Threads
<1>3. ASSUME NEW t \in Consumers, NEW c \in DeqCall, Begin(t, c) PROVE FInv'
  BY <1>3, BeginStep DEF Threads
<1>4. ASSUME NEW t \in Threads, enq(t) \/ deq(t) \/ spurious_wakeup(t) PROVE FInv'
  BY <1>4, EnqPushStep, EnqFullStep, DeqPopStep, DeqWaitStep, WakeupStep DEF enq, deq
<1> QED
  BY <1>1, <1>2, <1>3, <1>4 DEF Next

\* The queue stays within its limit, and threads sleep only where their own call
\* put them, whatever the scheduler does and whoever is woken.
THEOREM FifoTypeCorrect == Spec => []TypeOK
<1>1. FInv => TypeOK
  BY DEF FInv
<1> QED
  BY <1>1, InitFInv, NextFInv, PTL DEF Spec

\* No wake-up is lost to deq: one signal per element is enough for any number of
\* threads and for spurious wake-ups, though a thread that was not woken may take
\* the element.
THEOREM NoElementForgotten == Spec => []NoLostElement
<1>1. FInv => NoLostElement
  BY DEF FInv
<1> QED
  BY <1>1, InitFInv, NextFInv, PTL DEF Spec

\* No wake-up is lost to enq: deq's one signal per place is enough, also when
\* blocking and non-blocking calls compete.
THEOREM NoSpaceForgotten == Spec => []NoLostSpace
<1>1. FInv => NoLostSpace
  BY DEF FInv
<1> QED
  BY <1>1, InitFInv, NextFInv, PTL DEF Spec

\* Every step of a thread with the mutex is one atomic operation of a bounded
\* queue, or none that a caller can see.
THEOREM ImplementsQueue == Spec => Queue!Init /\ [][Queue!Next]_(Queue!bqVars)
<1>1. Init => Queue!Init
  BY DEF Init, Queue!Init, Threads, Queue!Threads, Returned, Queue!Returned
<1>2. ASSUME [Next]_fifoVars PROVE [Queue!Next]_(Queue!bqVars)
  <2>1. CASE UNCHANGED fifoVars
    BY <2>1 DEF fifoVars, Queue!bqVars
  <2>2. ASSUME NEW t \in Producers, NEW c \in EnqCall, Begin(t, c) PROVE Queue!Next
    BY <2>2 DEF Begin, Queue!Next, Queue!Start, Queue!Threads, EnqCall, Queue!EnqCall
  <2>3. ASSUME NEW t \in Consumers, NEW c \in DeqCall, Begin(t, c) PROVE Queue!Next
    BY <2>3 DEF Begin, Queue!Next, Queue!Start, Queue!Threads, DeqCall, Queue!DeqCall
  <2>4. ASSUME NEW t \in Threads, enq_push(t) PROVE Queue!Next
    BY <2>4 DEF enq_push, Running, HasSpace, Returned, Threads, Queue!Next, Queue!Put,
                Queue!HasRoom, Queue!Returned, Queue!Threads
  <2>5. ASSUME NEW t \in Threads, enq_refuse(t) PROVE Queue!Next
    BY <2>5 DEF enq_refuse, Running, HasSpace, Returned, Threads, Queue!Next, Queue!Refuse,
                Queue!HasRoom, Queue!Returned, Queue!Threads
  <2>6. ASSUME NEW t \in Threads, deq_pop(t) PROVE Queue!Next
    BY <2>6 DEF deq_pop, Running, Returned, Threads, Queue!Next, Queue!Take,
                Queue!Returned, Queue!Threads
  <2>7. ASSUME NEW t \in Threads, enq_wait(t) \/ deq_wait(t) \/ spurious_wakeup(t)
        PROVE  UNCHANGED Queue!bqVars
    BY <2>7 DEF enq_wait, deq_wait, spurious_wakeup, Queue!bqVars
  <2> QED
    BY <1>2, <2>1, <2>2, <2>3, <2>4, <2>5, <2>6, <2>7 DEF Next, enq, deq
<1> QED
  BY <1>1, <1>2, PTL DEF Spec

=============================================================================
