--------------------------- MODULE ThrPoolProofs ----------------------------
(***************************************************************************)
(* Theorems about the thread pool, for every number of clients and         *)
(* workers, every set of jobs and every limit of the queue.                *)
(***************************************************************************)
EXTENDS ThrPool, FifoProofs

-----------------------------------------------------------------------------
(* The inductive invariant: where a job is, and how many null jobs there are. *)

\* The client c is in addJob with the job j.
Adding(c, j) == call[c].op = "enq" /\ call[c].item = j

\* The job is in the queue.
Queued(j) == \E i \in 1 .. Len(q_) : q_[i] = j

\* The last takeJob of the worker w gave it x.
HasTaken(w, x) == call[w] = Returned(<<"item", x>>)

\* The worker has taken the job and not finished it.
Holds(w, j) == worker[w] \in {"taking", "running"} /\ HasTaken(w, j)

\* The workers that have taken a null job.  They never take another.
Killed == {w \in Workers : HasTaken(w, NullJob)}

\* The null jobs in the queue: those added less those that were taken.
NullsQueued ==
    kills - (IF call[Owner].op = "enq" THEN 1 ELSE 0) - Cardinality(Killed)

\* The threads between and in their calls, by the state of the pool.
ThreadsAgree ==
    /\ \A c \in Clients : call[c].op = "enq" => call[c].item \in Jobs
    /\ call[Owner].op = "enq" => call[Owner].item = NullJob /\ call[Owner].blocking
    /\ \A w \in Workers : worker[w] # "taking" => call[w].op = "returned"
    /\ \A w \in Workers : worker[w] = "taking" => call[w].op = "deq" \/ \E x \in Items : HasTaken(w, x)
    /\ \A w \in Workers : worker[w] = "running" => \E j \in Jobs : HasTaken(w, j)
    /\ \A w \in Workers : worker[w] = "exited" => HasTaken(w, NullJob)
    /\ \A w \in Workers : HasTaken(w, NullJob) => worker[w] \in {"taking", "exited"}
    /\ pool = "open" => kills = 0 /\ call[Owner].op = "returned"
    /\ pool # "open" => \A c \in Clients : call[c].op = "returned"
    /\ pool = "destroyed" =>
          /\ kills = nthreads_ /\ call[Owner].op = "returned"
          /\ \A w \in Workers : worker[w] = "exited"

\* What is true of a job by where it is.
JobPlaced(j) ==
    /\ \A c \in Clients : Adding(c, j) => answer[j] = "none" /\ j \in wrappers
    /\ Queued(j) => answer[j] = "true" /\ ran[j] = 0 /\ j \in wrappers
    /\ \A w \in Workers : Holds(w, j) => answer[j] = "true" /\ ran[j] = 0 /\ j \in wrappers /\ ~ Queued(j)
    /\ answer[j] = "true" => ran[j] = 1 \/ Queued(j) \/ \E w \in Workers : Holds(w, j)
    /\ ran[j] = 1 => answer[j] = "true" /\ j \notin wrappers
    /\ answer[j] = "false" => j \in wrappers
    /\ j \in wrappers => \/ answer[j] \in {"true", "false"}
                         \/ \E c \in Clients : Adding(c, j)

\* A job is in one place only.
JobOnce(j) ==
    /\ \A c, d \in Clients : Adding(c, j) /\ Adding(d, j) => c = d
    /\ \A i, k \in 1 .. Len(q_) : q_[i] = j /\ q_[k] = j => i = k
    /\ \A v, w \in Workers : Holds(v, j) /\ Holds(w, j) => v = w

\* The null jobs are the last elements of the queue, as many as were added and
\* not taken, and there is nothing else once the first was taken.
NullsLast ==
    /\ NullsQueued \in 0 .. Len(q_)
    /\ \A i \in 1 .. Len(q_) : q_[i] = NullJob <=> i > Len(q_) - NullsQueued
    /\ Killed # {} => NullsQueued = Len(q_)

PInv ==
    /\ FInv
    /\ PoolTypeOK
    /\ ThreadsAgree
    /\ \A j \in Jobs : JobPlaced(j) /\ JobOnce(j)
    /\ NullsLast

-----------------------------------------------------------------------------
(* Facts about threads and calls. *)

\* A thread is a client, the owner or a worker, and only one of these.
LEMMA Roles ==
    /\ Clients \subseteq Producers /\ Owner \in Producers /\ Workers = Consumers
    /\ Clients \subseteq Threads /\ Owner \in Threads /\ Workers \subseteq Threads
    /\ Owner \notin Clients /\ Owner \notin Workers /\ Clients \cap Workers = {}
    /\ \A t \in Threads : t \in Clients \/ t = Owner \/ t \in Workers
    /\ Jobs \subseteq Items /\ NullJob \in Items /\ NullJob \notin Jobs
    /\ \A x \in Items : x \in Jobs \/ x = NullJob
BY PoolAssumption DEF Threads, Workers

\* What a call returned tells what it was.
LEMMA ResultFacts ==
    /\ \A v : Returned(v).op = "returned" /\ Returned(v).value = v
    /\ \A x, y : Returned(<<"item", x>>) = Returned(<<"item", y>>) => x = y
    /\ \A x : /\ Returned(<<"item", x>>) # Returned(<<"none">>)
              /\ Returned(<<"item", x>>) # Returned(<<"true">>)
              /\ Returned(<<"item", x>>) # Returned(<<"false">>)
<1>1. \A v : Returned(v).op = "returned" /\ Returned(v).value = v
  BY DEF Returned
<1>2. \A x, y : <<"item", x>> = <<"item", y>> => x = y
  OBVIOUS
<1>3. \A x : /\ <<"item", x>>[1] = "item" /\ <<"none">>[1] = "none"
             /\ <<"true">>[1] = "true" /\ <<"false">>[1] = "false"
  OBVIOUS
<1>4. \A x : <<"item", x>> # <<"none">> /\ <<"item", x>> # <<"true">> /\ <<"item", x>> # <<"false">>
  BY <1>3
<1>5. \A u, v : Returned(u) = Returned(v) => u = v
  BY <1>1
<1>6. \A x, y : Returned(<<"item", x>>) = Returned(<<"item", y>>) => x = y
  BY <1>2, <1>5, Zenon
<1>7. \A x : /\ Returned(<<"item", x>>) # Returned(<<"none">>)
             /\ Returned(<<"item", x>>) # Returned(<<"true">>)
             /\ Returned(<<"item", x>>) # Returned(<<"false">>)
  BY <1>4, <1>5, Zenon
<1> QED
  BY <1>1, <1>6, <1>7

\* The worker's job is the one it has taken.
LEMMA TakenIs ==
    ASSUME NEW w, NEW x, HasTaken(w, x)
    PROVE  TakenJob(w) = x /\ call[w].op = "returned"
<1>1. call[w].value = <<"item", x>>
  BY ResultFacts DEF HasTaken
<1>2. call[w].op = "returned"
  BY ResultFacts DEF HasTaken
<1> QED
  BY <1>1, <1>2 DEF TakenJob

\* The workers can be counted, and so can those that were killed.
LEMMA KilledFinite ==
    /\ IsFiniteSet(Killed) /\ Cardinality(Killed) \in Nat
    /\ nthreads_ \in Nat /\ Cardinality(Killed) <= nthreads_
<1>1. IsFiniteSet(Workers) /\ Killed \in SUBSET Workers
  BY FifoAssumption DEF Workers, Killed
<1> QED
  BY <1>1, FS_Subset, FS_CardinalityType DEF nthreads_

\* Every step of the pool is a step of the queue or leaves the queue alone.
LEMMA QueueStep == PInv /\ [PoolNext]_vars => [Next]_fifoVars
<1> SUFFICES ASSUME PInv, [PoolNext]_vars PROVE [Next]_fifoVars
  OBVIOUS
<1>1. CASE UNCHANGED vars
  BY <1>1 DEF vars
<1>2. ASSUME NEW c \in Clients, NEW j \in Jobs, addObjJob(c, j) PROVE Next
  <2>1. [op |-> "enq", item |-> j, blocking |-> blockadd_] \in EnqCall
    BY Roles DEF EnqCall, PInv, PoolTypeOK
  <2> QED
    BY <1>2, <2>1, Roles DEF addObjJob, Next
<1>3. ASSUME NEW c \in Clients, addJob(c) PROVE Next
  BY <1>3, Roles DEF addJob, Next
<1>4. ASSUME NEW w \in Workers, call_takeJob(w) PROVE Next
  <2>1. [op |-> "deq"] \in DeqCall
    BY DEF DeqCall
  <2> QED
    BY <1>4, <2>1, Roles DEF call_takeJob, Next
<1>5. ASSUME NEW w \in Workers, takeJob(w) PROVE Next
  BY <1>5, Roles DEF takeJob, Next
<1>6. ASSUME NEW w \in Workers, test_job(w) \/ func(w) PROVE UNCHANGED fifoVars
  BY <1>6 DEF test_job, func
<1>7. ASSUME kill PROVE Next
  <2>1. [op |-> "enq", item |-> NullJob, blocking |-> TRUE] \in EnqCall
    BY Roles DEF EnqCall
  <2> QED
    BY <1>7, <2>1, Roles DEF kill, Next
<1>8. ASSUME add_kill PROVE Next
  BY <1>8, Roles DEF add_kill, Next
<1>9. ASSUME begin_destroy \/ destroy \/ gone PROVE UNCHANGED fifoVars
  BY <1>9 DEF begin_destroy, destroy, gone, vars
<1>10. ASSUME NEW t \in Threads, spurious_wakeup(t) PROVE Next
  BY <1>10 DEF Next
<1> QED
  BY <1>1, <1>2, <1>3, <1>4, <1>5, <1>6, <1>7, <1>8, <1>9, <1>10 DEF PoolNext

-----------------------------------------------------------------------------
(* One lemma per step of the pool.  What the queue keeps, FInv, is cited. *)

\* What a step of the pool does to calls and queue alone keeps the queue's part.
LEMMA QueueKept == PInv /\ [PoolNext]_vars => FInv'
BY QueueStep, NextFInv DEF PInv

\* Waiting and waking change none of what the pool's part is about.
LEMMA PoolFrame ==
    ASSUME PInv, FInv', UNCHANGED <<q_, call, poolVars>>
    PROVE  PInv'
<1>1. TypeOK'
  BY DEF FInv
<1>2. PoolTypeOK' /\ ThreadsAgree'
  BY <1>1 DEF PInv, PoolTypeOK, ThreadsAgree, HasTaken, poolVars
<1>3. \A j \in Jobs : JobPlaced(j)' /\ JobOnce(j)'
  BY DEF PInv, JobPlaced, JobOnce, Adding, Queued, Holds, HasTaken, poolVars
<1>4. NullsLast'
  BY DEF PInv, NullsLast, NullsQueued, Killed, HasTaken, poolVars
<1> QED
  BY <1>2, <1>3, <1>4 DEF PInv

\* addObjJob: the job goes from nowhere to its caller.
LEMMA AddObjStep ==
    ASSUME PInv, FInv', NEW c \in Clients, NEW j \in Jobs, addObjJob(c, j)
    PROVE  PInv'
<1> DEFINE new == [op |-> "enq", item |-> j, blocking |-> blockadd_]
<1>1. /\ call \in [Threads -> EnqCall \cup DeqCall \cup Return]
      /\ call[c].op = "returned" /\ call' = [call EXCEPT ![c] = new]
      /\ q_' = q_ /\ wrappers' = wrappers \cup {j}
      /\ pool = "open" /\ answer[j] = "none" /\ j \notin wrappers
      /\ UNCHANGED <<blockadd_, answer, ran, worker, pool, kills>>
  BY DEF addObjJob, Begin, PInv, FInv, TypeOK
<1>2. /\ call'[c].op = "enq" /\ call'[c].item = j
      /\ \A t \in Threads : t # c => call'[t] = call[t]
      /\ \A w \in Workers : call'[w] = call[w]
      /\ call'[Owner] = call[Owner]
  BY <1>1, Roles
<1>3. TypeOK'
  BY DEF FInv
<1>4. PoolTypeOK'
  BY <1>1, <1>3 DEF PInv, PoolTypeOK
<1>5. ThreadsAgree'
  BY <1>1, <1>2, Roles DEF PInv, ThreadsAgree, HasTaken
<1>6. ASSUME NEW k \in Jobs PROVE JobPlaced(k)' /\ JobOnce(k)'
  <2>1. JobPlaced(k) /\ JobOnce(k) /\ JobPlaced(j)
    BY DEF PInv
  <2>2. Queued(k)' = Queued(k) /\ \A w \in Workers : Holds(w, k)' = Holds(w, k)
    BY <1>1, <1>2 DEF Queued, Holds, HasTaken
  <2>3. \A d \in Clients : Adding(d, k)' <=> (IF d = c THEN k = j ELSE Adding(d, k))
    BY <1>2, Roles DEF Adding
  <2>4. \A d \in Clients : ~ Adding(d, j) /\ ~ Adding(c, k)
    BY <1>1, <2>1 DEF JobPlaced, Adding
  <2>5. JobPlaced(k)'
    BY <1>1, <2>1, <2>2, <2>3, <2>4 DEF JobPlaced
  <2>6. JobOnce(k)'
    BY <1>1, <2>1, <2>2, <2>3, <2>4 DEF JobOnce
  <2> QED
    BY <2>5, <2>6
<1>7. NullsLast'
  <2>1. Killed' = Killed /\ NullsQueued' = NullsQueued
    BY <1>1, <1>2 DEF Killed, HasTaken, NullsQueued
  <2> QED
    BY <1>1, <2>1 DEF PInv, NullsLast
<1> QED
  BY <1>4, <1>5, <1>6, <1>7 DEF PInv

\* A pool that is open has no null jobs, in the queue or at a worker.
LEMMA OpenHasNoNulls ==
    ASSUME PInv, pool = "open"
    PROVE  Killed = {} /\ NullsQueued = 0
<1>1. kills = 0 /\ call[Owner].op = "returned" /\ NullsQueued \in Nat
  BY DEF PInv, ThreadsAgree, NullsLast
<1>2. Cardinality(Killed) = 0
  BY <1>1, KilledFinite DEF NullsQueued
<1> QED
  BY <1>1, <1>2, KilledFinite, FS_EmptySet DEF NullsQueued

\* addJob finds room: the job goes from its caller to the end of the queue.
LEMMA AddPushStep ==
    ASSUME PInv, FInv', NEW c \in Clients, addJob(c), enq_push(c)
    PROVE  PInv'
<1> DEFINE j == call[c].item
<1>1. /\ call \in [Threads -> EnqCall \cup DeqCall \cup Return]
      /\ call[c].op = "enq" /\ call' = [call EXCEPT ![c] = Returned(<<"true">>)]
      /\ q_ \in Seq(Items) /\ q_' = Append(q_, j) /\ j \in Jobs
      /\ UNCHANGED <<blockadd_, wrappers, ran, worker, pool, kills>>
  BY DEF addJob, enq_push, Running, PInv, ThreadsAgree, FInv, TypeOK
<1>2. /\ call'[c] = Returned(<<"true">>) /\ call'[c].op = "returned" /\ call'[c].value[1] = "true"
      /\ \A t \in Threads : t # c => call'[t] = call[t]
      /\ \A w \in Workers : call'[w] = call[w]
      /\ call'[Owner] = call[Owner]
  BY <1>1, Roles, ResultFacts
<1>3. answer' = [answer EXCEPT ![j] = "true"] /\ answer \in [Jobs -> {"none", "true", "false"}]
  <2>1. answer' = IF call'[c].op = "returned" THEN [answer EXCEPT ![j] = call'[c].value[1]] ELSE answer
    BY DEF addJob
  <2> QED
    BY <1>2, <2>1 DEF PInv, PoolTypeOK
<1>4. pool = "open"
  BY <1>1 DEF PInv, ThreadsAgree
<1>5. TypeOK'
  BY DEF FInv
<1>6. PoolTypeOK'
  BY <1>1, <1>3, <1>5 DEF PInv, PoolTypeOK
<1>7. ThreadsAgree'
  <2>1. \A d \in Clients : call'[d].op = "enq" => call'[d] = call[d]
    BY <1>2, Roles
  <2>2. UNCHANGED <<worker, pool, kills>>
    BY <1>1
  <2> QED
    BY <1>2, <1>4, <2>1, <2>2 DEF PInv, ThreadsAgree, HasTaken
<1>8. /\ Len(q_) \in Nat /\ Len(q_') = Len(q_) + 1
      /\ \A i \in 1 .. Len(q_) : q_'[i] = q_[i]
      /\ q_'[Len(q_) + 1] = j
  BY <1>1, Roles
<1>9. ASSUME NEW k \in Jobs PROVE JobPlaced(k)' /\ JobOnce(k)'
  <2>1. JobPlaced(k) /\ JobOnce(k) /\ JobPlaced(j) /\ JobOnce(j)
    BY <1>1 DEF PInv
  <2>2. \A w \in Workers : Holds(w, k)' = Holds(w, k)
    BY <1>1, <1>2 DEF Holds, HasTaken
  <2>3. Queued(k)' <=> Queued(k) \/ k = j
    BY <1>8 DEF Queued
  <2>4. \A d \in Clients : Adding(d, k)' <=> d # c /\ Adding(d, k)
    BY <1>2, Roles DEF Adding
  <2>5. \A d \in Clients : d # c => ~ Adding(d, j)
    BY <1>1, <2>1 DEF JobOnce, Adding
  <2>6. Adding(c, j) /\ (k # j => ~ Adding(c, k))
    BY <1>1 DEF Adding
  <2>7. answer[j] = "none" /\ ran[j] # 1 /\ j \in wrappers /\ ~ Queued(j) /\ \A w \in Workers : ~ Holds(w, j)
    BY <2>1, <2>6 DEF JobPlaced
  <2>8. ran[j] = 0 /\ answer'[j] = "true" /\ (k # j => answer'[k] = answer[k])
    BY <1>1, <1>3, <2>7 DEF PInv, PoolTypeOK
  <2>9. JobPlaced(k)'
    <3>1. CASE k = j
      BY <1>1, <2>2, <2>3, <2>4, <2>5, <2>7, <2>8, <3>1 DEF JobPlaced
    <3>2. CASE k # j
      BY <1>1, <2>1, <2>2, <2>3, <2>4, <2>6, <2>8, <3>2 DEF JobPlaced
    <3> QED
      BY <3>1, <3>2
  <2>10. \A i, l \in 1 .. Len(q_') : q_'[i] = k /\ q_'[l] = k => i = l
    BY <1>8, <2>1, <2>7 DEF JobOnce, Queued
  <2>11. JobOnce(k)'
    BY <2>1, <2>2, <2>4, <2>10 DEF JobOnce
  <2> QED
    BY <2>9, <2>11
<1>10. NullsLast'
  <2>1. Killed' = Killed /\ NullsQueued' = NullsQueued
    BY <1>1, <1>2 DEF Killed, HasTaken, NullsQueued
  <2>2. Killed = {} /\ NullsQueued = 0
    BY <1>4, OpenHasNoNulls
  <2>3. \A i \in 1 .. Len(q_) : q_[i] # NullJob
    BY <1>8, <2>2 DEF PInv, NullsLast
  <2>4. \A i \in 1 .. Len(q_') : q_'[i] # NullJob
    BY <1>1, <1>8, <2>3, Roles
  <2> QED
    BY <1>8, <2>1, <2>2, <2>4 DEF NullsLast
<1> QED
  BY <1>6, <1>7, <1>9, <1>10 DEF PInv

\* addJob is refused: the job goes from its caller to nowhere, its wrapper stays.
LEMMA AddRefuseStep ==
    ASSUME PInv, FInv', NEW c \in Clients, addJob(c), enq_refuse(c)
    PROVE  PInv'
<1> DEFINE j == call[c].item
<1>1. /\ call \in [Threads -> EnqCall \cup DeqCall \cup Return]
      /\ call[c].op = "enq" /\ call' = [call EXCEPT ![c] = Returned(<<"false">>)]
      /\ q_' = q_ /\ j \in Jobs
      /\ UNCHANGED <<blockadd_, wrappers, ran, worker, pool, kills>>
  BY DEF addJob, enq_refuse, Running, PInv, ThreadsAgree, FInv, TypeOK
<1>2. /\ call'[c] = Returned(<<"false">>) /\ call'[c].op = "returned" /\ call'[c].value[1] = "false"
      /\ \A t \in Threads : t # c => call'[t] = call[t]
      /\ \A w \in Workers : call'[w] = call[w]
      /\ call'[Owner] = call[Owner]
  BY <1>1, Roles, ResultFacts
<1>3. answer' = [answer EXCEPT ![j] = "false"] /\ answer \in [Jobs -> {"none", "true", "false"}]
  <2>1. answer' = IF call'[c].op = "returned" THEN [answer EXCEPT ![j] = call'[c].value[1]] ELSE answer
    BY DEF addJob
  <2> QED
    BY <1>2, <2>1 DEF PInv, PoolTypeOK
<1>4. pool = "open"
  BY <1>1 DEF PInv, ThreadsAgree
<1>5. TypeOK'
  BY DEF FInv
<1>6. PoolTypeOK'
  BY <1>1, <1>3, <1>5 DEF PInv, PoolTypeOK
<1>7. ThreadsAgree'
  <2>1. \A d \in Clients : call'[d].op = "enq" => call'[d] = call[d]
    BY <1>2, Roles
  <2>2. UNCHANGED <<worker, pool, kills>>
    BY <1>1
  <2> QED
    BY <1>2, <1>4, <2>1, <2>2 DEF PInv, ThreadsAgree, HasTaken
<1>8. ASSUME NEW k \in Jobs PROVE JobPlaced(k)' /\ JobOnce(k)'
  <2>1. JobPlaced(k) /\ JobOnce(k) /\ JobPlaced(j) /\ JobOnce(j)
    BY <1>1 DEF PInv
  <2>2. Queued(k)' = Queued(k) /\ \A w \in Workers : Holds(w, k)' = Holds(w, k)
    BY <1>1, <1>2 DEF Holds, HasTaken, Queued
  <2>3. \A d \in Clients : Adding(d, k)' <=> d # c /\ Adding(d, k)
    BY <1>2, Roles DEF Adding
  <2>4. \A d \in Clients : d # c => ~ Adding(d, j)
    BY <1>1, <2>1 DEF JobOnce, Adding
  <2>5. Adding(c, j) /\ (k # j => ~ Adding(c, k))
    BY <1>1 DEF Adding
  <2>6. answer[j] = "none" /\ ran[j] # 1 /\ j \in wrappers /\ ~ Queued(j) /\ \A w \in Workers : ~ Holds(w, j)
    BY <2>1, <2>5 DEF JobPlaced
  <2>7. answer'[j] = "false" /\ (k # j => answer'[k] = answer[k])
    BY <1>1, <1>3
  <2>8. JobPlaced(k)'
    <3>1. CASE k = j
      BY <1>1, <2>2, <2>3, <2>4, <2>6, <2>7, <3>1 DEF JobPlaced
    <3>2. CASE k # j
      BY <1>1, <2>1, <2>2, <2>3, <2>5, <2>7, <3>2 DEF JobPlaced
    <3> QED
      BY <3>1, <3>2
  <2>9. JobOnce(k)'
    BY <1>1, <2>1, <2>2, <2>3 DEF JobOnce
  <2> QED
    BY <2>8, <2>9
<1>9. NullsLast'
  <2>1. Killed' = Killed /\ NullsQueued' = NullsQueued
    BY <1>1, <1>2 DEF Killed, HasTaken, NullsQueued
  <2> QED
    BY <1>1, <2>1 DEF PInv, NullsLast
<1> QED
  BY <1>6, <1>7, <1>8, <1>9 DEF PInv

\* A worker that calls takeJob has no job.
LEMMA CallTakeStep ==
    ASSUME PInv, FInv', NEW w \in Workers, call_takeJob(w)
    PROVE  PInv'
<1>1. /\ call \in [Threads -> EnqCall \cup DeqCall \cup Return]
      /\ call[w].op = "returned" /\ call' = [call EXCEPT ![w] = [op |-> "deq"]]
      /\ worker[w] = "loop" /\ worker' = [worker EXCEPT ![w] = "taking"]
      /\ worker \in [Workers -> {"loop", "taking", "running", "exited"}]
      /\ UNCHANGED <<q_, blockadd_, wrappers, answer, ran, pool, kills>>
  BY DEF call_takeJob, Begin, PInv, FInv, TypeOK, PoolTypeOK
<1>2. /\ call'[w].op = "deq" /\ worker'[w] = "taking"
      /\ \A t \in Threads : t # w => call'[t] = call[t]
      /\ \A c \in Clients : call'[c] = call[c]
      /\ \A v \in Workers : v # w => worker'[v] = worker[v] /\ call'[v] = call[v]
      /\ call'[Owner] = call[Owner]
  BY <1>1, Roles
<1>3. \A x : ~ HasTaken(w, x)' /\ ~ Holds(w, x) /\ ~ Holds(w, x)'
  BY <1>1, <1>2, ResultFacts DEF Holds, HasTaken
<1>4. ~ HasTaken(w, NullJob)
  BY <1>1 DEF PInv, ThreadsAgree
<1>5. \A v \in Workers : \A x : v # w => (HasTaken(v, x)' <=> HasTaken(v, x)) /\ (Holds(v, x)' <=> Holds(v, x))
  BY <1>2 DEF Holds, HasTaken
<1>6. PoolTypeOK'
  BY <1>1 DEF PInv, PoolTypeOK, FInv
<1>7. ThreadsAgree'
  <2>1. pool' # "destroyed"
    BY <1>1 DEF PInv, ThreadsAgree
  <2> QED
    BY <1>1, <1>2, <1>3, <1>5, <2>1 DEF PInv, ThreadsAgree
<1>8. ASSUME NEW k \in Jobs PROVE JobPlaced(k)' /\ JobOnce(k)'
  <2>1. JobPlaced(k) /\ JobOnce(k)
    BY DEF PInv
  <2>2. (Queued(k)' <=> Queued(k)) /\ \A v \in Workers : Holds(v, k)' <=> Holds(v, k)
    BY <1>1, <1>3, <1>5 DEF Queued
  <2>3. \A d \in Clients : Adding(d, k)' = Adding(d, k)
    BY <1>2 DEF Adding
  <2>4. JobPlaced(k)'
    BY <1>1, <2>1, <2>2, <2>3 DEF JobPlaced
  <2>5. JobOnce(k)'
    BY <1>1, <2>1, <2>2, <2>3 DEF JobOnce
  <2> QED
    BY <2>4, <2>5
<1>9. NullsLast'
  <2>1. Killed' = Killed
    BY <1>3, <1>4, <1>5 DEF Killed
  <2>2. NullsQueued' = NullsQueued
    BY <1>1, <1>2, <2>1 DEF NullsQueued
  <2> QED
    BY <1>1, <2>1, <2>2 DEF PInv, NullsLast
<1> QED
  BY <1>6, <1>7, <1>8, <1>9 DEF PInv

\* takeJob finds an element: it goes from the head of the queue to the worker.
\* If it is a null job then the queue had nothing else.
LEMMA TakeStep ==
    ASSUME PInv, FInv', NEW w \in Workers, takeJob(w), deq_pop(w)
    PROVE  PInv'
<1> DEFINE x == Head(q_)
<1>1. /\ call \in [Threads -> EnqCall \cup DeqCall \cup Return]
      /\ call[w].op = "deq" /\ call' = [call EXCEPT ![w] = Returned(<<"item", x>>)]
      /\ q_ \in Seq(Items) /\ q_ # << >> /\ q_' = Tail(q_)
      /\ UNCHANGED <<blockadd_, wrappers, answer, ran, worker, pool, kills>>
  BY DEF takeJob, deq_pop, Running, PInv, FInv, TypeOK, poolVars
<1>2. /\ Len(q_) \in Nat /\ Len(q_') \in Nat /\ Len(q_') = Len(q_) - 1 /\ x = q_[1] /\ x \in Items
      /\ \A i \in 1 .. Len(q_') : q_'[i] = q_[i + 1]
      /\ 1 \in 1 .. Len(q_)
  BY <1>1
<1>3. /\ call'[w] = Returned(<<"item", x>>) /\ call'[w].op = "returned"
      /\ \A t \in Threads : t # w => call'[t] = call[t]
      /\ \A c \in Clients : call'[c] = call[c]
      /\ \A v \in Workers : v # w => call'[v] = call[v]
      /\ call'[Owner] = call[Owner]
  BY <1>1, Roles, ResultFacts
<1>4. \A y : ~ HasTaken(w, y) /\ (HasTaken(w, y)' <=> y = x)
  BY <1>1, <1>3, ResultFacts DEF HasTaken
<1>5. \A v \in Workers : \A y : v # w => (HasTaken(v, y)' <=> HasTaken(v, y))
  BY <1>3 DEF HasTaken
<1>6. worker[w] = "taking"
  BY <1>1 DEF PInv, ThreadsAgree
<1>7. PoolTypeOK'
  BY <1>1 DEF PInv, PoolTypeOK, FInv
<1>8. ThreadsAgree'
  <2>1. pool' # "destroyed"
    BY <1>1, <1>6 DEF PInv, ThreadsAgree
  <2>2. UNCHANGED <<worker, pool, kills>> /\ x \in Items
    BY <1>1, <1>2
  <2>3. \A v \in Workers :
           /\ worker'[v] # "taking" => call'[v].op = "returned"
           /\ worker'[v] = "taking" => call'[v].op = "deq" \/ \E y \in Items : HasTaken(v, y)'
           /\ worker'[v] = "running" => \E j \in Jobs : HasTaken(v, j)'
           /\ worker'[v] = "exited" => HasTaken(v, NullJob)'
           /\ HasTaken(v, NullJob)' => worker'[v] \in {"taking", "exited"}
    <3>1. \A v \in Workers : v # w => call'[v] = call[v] /\ worker'[v] = worker[v]
      BY <1>3, <2>2
    <3>2. worker'[w] = "taking" /\ \E y \in Items : HasTaken(w, y)'
      BY <1>4, <1>6, <2>2
    <3> QED
      BY <1>5, <3>1, <3>2 DEF PInv, ThreadsAgree
  <2> QED
    BY <1>3, <2>1, <2>2, <2>3 DEF PInv, ThreadsAgree
<1>9. ASSUME NEW k \in Jobs PROVE JobPlaced(k)' /\ JobOnce(k)'
  <2>1. JobPlaced(k) /\ JobOnce(k)
    BY DEF PInv
  <2>2. \A v \in Workers : Holds(v, k)' <=> Holds(v, k) \/ (v = w /\ k = x)
    BY <1>1, <1>4, <1>5, <1>6 DEF Holds
  <2>3. Queued(x)
    BY <1>2 DEF Queued
  <2>4. Queued(k)' <=> Queued(k) /\ k # x
    <3>1. CASE k = x
      BY <1>2, <2>1, <3>1 DEF Queued, JobOnce
    <3>2. CASE k # x
      <4>1. ASSUME Queued(k) PROVE Queued(k)'
        <5>1. PICK i \in 1 .. Len(q_) : q_[i] = k
          BY <4>1 DEF Queued
        <5>2. i - 1 \in 1 .. Len(q_') /\ q_'[i - 1] = k
          BY <1>2, <3>2, <5>1
        <5> QED
          BY <5>2 DEF Queued
      <4>2. ASSUME Queued(k)' PROVE Queued(k)
        BY <1>2, <4>2 DEF Queued
      <4> QED
        BY <3>2, <4>1, <4>2
    <3> QED
      BY <3>1, <3>2
  <2>5. \A d \in Clients : Adding(d, k)' = Adding(d, k)
    BY <1>3 DEF Adding
  <2>6. JobPlaced(k)'
    <3>1. CASE k = x
      BY <1>1, <2>1, <2>2, <2>3, <2>4, <2>5, <3>1 DEF JobPlaced
    <3>2. CASE k # x
      BY <1>1, <2>1, <2>2, <2>4, <2>5, <3>2 DEF JobPlaced
    <3> QED
      BY <3>1, <3>2
  <2>7. \A v \in Workers : k = x => ~ Holds(v, k)
    BY <2>1, <2>3 DEF JobPlaced
  <2>8. \A i, l \in 1 .. Len(q_') : q_'[i] = k /\ q_'[l] = k => i = l
    BY <1>2, <2>1 DEF JobOnce
  <2>9. JobOnce(k)'
    BY <2>1, <2>2, <2>5, <2>7, <2>8 DEF JobOnce
  <2> QED
    BY <2>6, <2>9
<1>10. NullsLast'
  <2> DEFINE n == NullsQueued
  <2>1. /\ n \in 0 .. Len(q_)
        /\ \A i \in 1 .. Len(q_) : q_[i] = NullJob <=> i > Len(q_) - n
        /\ Killed # {} => n = Len(q_)
    BY DEF PInv, NullsLast
  <2>2. CASE x = NullJob
    <3>1. n = Len(q_)
      BY <1>2, <2>1, <2>2
    <3>2. w \notin Killed /\ Killed' = Killed \cup {w}
      BY <1>4, <1>5, <2>2 DEF Killed
    <3>3. Cardinality(Killed') = Cardinality(Killed) + 1
      BY <3>2, KilledFinite, CountMore
    <3>4. NullsQueued' = n - 1
      BY <1>1, <1>3, <3>3, KilledFinite, SMTT(30) DEF NullsQueued, PInv, PoolTypeOK
    <3>5. \A i \in 1 .. Len(q_') : q_'[i] = NullJob
      BY <1>2, <2>1, <3>1
    <3> QED
      BY <1>2, <2>1, <3>1, <3>4, <3>5 DEF NullsLast
  <2>3. CASE x # NullJob
    <3>1. n < Len(q_)
      BY <1>2, <2>1, <2>3
    <3>2. Killed' = Killed /\ Killed = {}
      BY <1>4, <1>5, <2>1, <2>3, <3>1 DEF Killed
    <3>3. NullsQueued' = n
      BY <1>1, <1>3, <3>2 DEF NullsQueued
    <3> QED
      BY <1>2, <2>1, <3>1, <3>2, <3>3 DEF NullsLast
  <2> QED
    BY <2>2, <2>3
<1> QED
  BY <1>7, <1>8, <1>9, <1>10 DEF PInv

\* A worker looks at what it took: it holds the job, or leaves with a null job.
LEMMA TestStep ==
    ASSUME PInv, FInv', NEW w \in Workers, test_job(w)
    PROVE  PInv'
<1>1. /\ worker[w] = "taking" /\ call[w].op = "returned"
      /\ worker' = [worker EXCEPT ![w] = IF TakenJob(w) = NullJob THEN "exited" ELSE "running"]
      /\ worker \in [Workers -> {"loop", "taking", "running", "exited"}]
      /\ UNCHANGED <<q_, call, blockadd_, wrappers, answer, ran, pool, kills>>
  BY DEF test_job, fifoVars, PInv, PoolTypeOK
<1>2. PICK x \in Items : HasTaken(w, x)
  BY <1>1 DEF PInv, ThreadsAgree
<1>3. TakenJob(w) = x
  BY <1>2, TakenIs
<1>4. \A y : HasTaken(w, y) <=> y = x
  BY <1>2, ResultFacts DEF HasTaken
<1>5. \A v, y : HasTaken(v, y)' <=> HasTaken(v, y)
  BY <1>1 DEF HasTaken
<1>6. /\ worker'[w] = IF x = NullJob THEN "exited" ELSE "running"
      /\ \A v \in Workers : v # w => worker'[v] = worker[v]
  BY <1>1, <1>3
<1>7. PoolTypeOK'
  BY <1>1 DEF PInv, PoolTypeOK, FInv
<1>8. ThreadsAgree'
  <2>1. pool' # "destroyed"
    BY <1>1 DEF PInv, ThreadsAgree
  <2>2. \A v \in Workers :
           /\ worker'[v] # "taking" => call'[v].op = "returned"
           /\ worker'[v] = "taking" => call'[v].op = "deq" \/ \E y \in Items : HasTaken(v, y)'
           /\ worker'[v] = "running" => \E j \in Jobs : HasTaken(v, j)'
           /\ worker'[v] = "exited" => HasTaken(v, NullJob)'
           /\ HasTaken(v, NullJob)' => worker'[v] \in {"taking", "exited"}
    <3>1. call' = call
      BY <1>1
    <3>2. x # NullJob => x \in Jobs
      BY Roles
    <3>3. \A v \in Workers : v # w => worker'[v] = worker[v]
      BY <1>6
    <3>4. call[w].op = "returned"
      BY <1>1
    <3> QED
      BY <1>4, <1>5, <1>6, <3>1, <3>2, <3>3, <3>4 DEF PInv, ThreadsAgree
  <2>3. UNCHANGED <<call, pool, kills>>
    BY <1>1
  <2> QED
    BY <2>1, <2>2, <2>3 DEF PInv, ThreadsAgree
<1>9. ASSUME NEW k \in Jobs PROVE JobPlaced(k)' /\ JobOnce(k)'
  <2>1. JobPlaced(k) /\ JobOnce(k)
    BY DEF PInv
  <2>2. \A v \in Workers : Holds(v, k)' <=> Holds(v, k)
    BY <1>1, <1>4, <1>5, <1>6, Roles DEF Holds
  <2>3. Queued(k)' <=> Queued(k)
    BY <1>1 DEF Queued
  <2>4. \A d \in Clients : Adding(d, k)' <=> Adding(d, k)
    BY <1>1 DEF Adding
  <2>5. JobPlaced(k)'
    BY <1>1, <2>1, <2>2, <2>3, <2>4 DEF JobPlaced
  <2>6. JobOnce(k)'
    BY <1>1, <2>1, <2>2, <2>4 DEF JobOnce
  <2> QED
    BY <2>5, <2>6
<1>10. NullsLast'
  <2>1. Killed' = Killed
    BY <1>5 DEF Killed
  <2>2. NullsQueued' = NullsQueued
    BY <1>1, <2>1 DEF NullsQueued
  <2> QED
    BY <1>1, <2>1, <2>2 DEF PInv, NullsLast
<1> QED
  BY <1>7, <1>8, <1>9, <1>10 DEF PInv

\* The method is called and the wrapper deleted: the job is nowhere any more.
LEMMA FuncStep ==
    ASSUME PInv, FInv', NEW w \in Workers, func(w)
    PROVE  PInv'
<1>1. /\ worker[w] = "running"
      /\ ran' = [ran EXCEPT ![TakenJob(w)] = @ + 1]
      /\ wrappers' = wrappers \ {TakenJob(w)}
      /\ worker' = [worker EXCEPT ![w] = "loop"]
      /\ worker \in [Workers -> {"loop", "taking", "running", "exited"}]
      /\ ran \in [Jobs -> 0 .. 1]
      /\ UNCHANGED <<q_, call, blockadd_, answer, pool, kills>>
  BY DEF func, fifoVars, PInv, PoolTypeOK
<1>2. PICK j \in Jobs : HasTaken(w, j)
  BY <1>1 DEF PInv, ThreadsAgree
<1>3. TakenJob(w) = j /\ call[w].op = "returned"
  BY <1>2, TakenIs
<1>4. \A y : HasTaken(w, y) <=> y = j
  BY <1>2, ResultFacts DEF HasTaken
<1>5. \A v, y : HasTaken(v, y)' <=> HasTaken(v, y)
  BY <1>1 DEF HasTaken
<1>6. worker'[w] = "loop" /\ \A v \in Workers : v # w => worker'[v] = worker[v]
  BY <1>1
<1>7. Holds(w, j) /\ JobPlaced(j) /\ JobOnce(j)
  BY <1>1, <1>2 DEF Holds, PInv
<1>8. answer[j] = "true" /\ ran[j] = 0 /\ j \in wrappers /\ ~ Queued(j)
  BY <1>7 DEF JobPlaced
<1>9. ran'[j] = 1 /\ \A k \in Jobs : k # j => ran'[k] = ran[k]
  BY <1>1, <1>3, <1>8
<1>10. PoolTypeOK'
  <2>1. ran' \in [Jobs -> 0 .. 1]
    BY <1>1, <1>3, <1>8
  <2> QED
    BY <1>1, <2>1 DEF PInv, PoolTypeOK, FInv
<1>11. ThreadsAgree'
  <2>1. pool' # "destroyed"
    BY <1>1 DEF PInv, ThreadsAgree
  <2>2. ~ HasTaken(w, NullJob)
    BY <1>4, Roles
  <2>3. \A v \in Workers :
           /\ worker'[v] # "taking" => call'[v].op = "returned"
           /\ worker'[v] = "taking" => call'[v].op = "deq" \/ \E y \in Items : HasTaken(v, y)'
           /\ worker'[v] = "running" => \E k \in Jobs : HasTaken(v, k)'
           /\ worker'[v] = "exited" => HasTaken(v, NullJob)'
           /\ HasTaken(v, NullJob)' => worker'[v] \in {"taking", "exited"}
    <3>1. call' = call
      BY <1>1
    <3> QED
      BY <1>3, <1>5, <1>6, <2>2, <3>1 DEF PInv, ThreadsAgree
  <2>4. UNCHANGED <<call, pool, kills>>
    BY <1>1
  <2> QED
    BY <2>1, <2>3, <2>4 DEF PInv, ThreadsAgree
<1>12. ASSUME NEW k \in Jobs PROVE JobPlaced(k)' /\ JobOnce(k)'
  <2>1. JobPlaced(k) /\ JobOnce(k)
    BY DEF PInv
  <2>2. \A v \in Workers : Holds(v, k)' <=> Holds(v, k) /\ k # j
    <3>1. \A v \in Workers : v # w => (Holds(v, k)' <=> Holds(v, k))
      BY <1>5, <1>6 DEF Holds
    <3>2. ~ Holds(w, k)' /\ (k # j => ~ Holds(w, k))
      BY <1>4, <1>6 DEF Holds
    <3>3. \A v \in Workers : v # w /\ k = j => ~ Holds(v, k)
      BY <1>7 DEF JobOnce
    <3> QED
      BY <3>1, <3>2, <3>3
  <2>3. Queued(k)' <=> Queued(k)
    BY <1>1 DEF Queued
  <2>4. \A d \in Clients : Adding(d, k)' <=> Adding(d, k)
    BY <1>1 DEF Adding
  <2>5. JobPlaced(k)'
    <3>1. CASE k = j
      <4>1. \A d \in Clients : ~ Adding(d, j)
        BY <1>7, <1>8 DEF JobPlaced
      <4>2. answer' = answer /\ j \notin wrappers'
        BY <1>1, <1>3
      <4> QED
        BY <1>8, <1>9, <2>2, <2>3, <2>4, <3>1, <4>1, <4>2 DEF JobPlaced
    <3>2. CASE k # j
      <4>1. answer' = answer /\ (k \in wrappers' <=> k \in wrappers)
        BY <1>1, <1>3, <3>2
      <4> QED
        BY <1>9, <2>1, <2>2, <2>3, <2>4, <3>2, <4>1 DEF JobPlaced
    <3> QED
      BY <3>1, <3>2
  <2>6. JobOnce(k)'
    BY <1>1, <2>1, <2>2, <2>4 DEF JobOnce
  <2> QED
    BY <2>5, <2>6
<1>13. NullsLast'
  <2>1. Killed' = Killed
    BY <1>5 DEF Killed
  <2>2. NullsQueued' = NullsQueued
    BY <1>1, <2>1 DEF NullsQueued
  <2> QED
    BY <1>1, <2>1, <2>2 DEF PInv, NullsLast
<1> QED
  BY <1>10, <1>11, <1>12, <1>13 DEF PInv

\* The owner's steps leave the jobs where they are.
LEMMA JobsFrame ==
    ASSUME PInv, UNCHANGED <<wrappers, answer, ran, worker>>,
           \A t \in Clients \cup Workers : call'[t] = call[t],
           \A j \in Jobs : Queued(j)' <=> Queued(j),
           \A j \in Jobs : \A i, k \in 1 .. Len(q_') : q_'[i] = j /\ q_'[k] = j => i = k
    PROVE  \A j \in Jobs : JobPlaced(j)' /\ JobOnce(j)'
<1> SUFFICES ASSUME NEW j \in Jobs PROVE JobPlaced(j)' /\ JobOnce(j)'
  OBVIOUS
<1>1. JobPlaced(j) /\ JobOnce(j)
  BY DEF PInv
<1>2. \A w \in Workers : Holds(w, j)' <=> Holds(w, j)
  BY DEF Holds, HasTaken
<1>3. \A c \in Clients : Adding(c, j)' <=> Adding(c, j)
  BY DEF Adding
<1>4. JobPlaced(j)'
  BY <1>1, <1>2, <1>3 DEF JobPlaced
<1>5. JobOnce(j)'
  BY <1>1, <1>2, <1>3 DEF JobOnce
<1> QED
  BY <1>4, <1>5

\* The destructor starts when no client is in a call, and ends when every worker
\* has left.
LEMMA PoolStateStep ==
    ASSUME PInv, FInv', begin_destroy \/ destroy
    PROVE  PInv'
<1>1. /\ UNCHANGED <<q_, call, blockadd_, wrappers, answer, ran, worker, kills>>
      /\ pool' \in {"closing", "destroyed"}
  BY DEF begin_destroy, destroy, fifoVars
<1>2. \A c \in Clients : call[c].op = "returned"
  BY DEF begin_destroy, destroy, PInv, ThreadsAgree
<1>3. pool' = "destroyed" => /\ kills = nthreads_ /\ call[Owner].op = "returned"
                             /\ \A w \in Workers : worker[w] = "exited"
  BY DEF begin_destroy, destroy
<1>4. PoolTypeOK'
  BY <1>1 DEF PInv, PoolTypeOK, FInv
<1>5. ThreadsAgree'
  BY <1>1, <1>2, <1>3 DEF PInv, ThreadsAgree, HasTaken
<1>6. \A j \in Jobs : JobPlaced(j)' /\ JobOnce(j)'
  BY <1>1, JobsFrame DEF Queued, PInv, JobOnce
<1>7. NullsLast'
  BY <1>1 DEF PInv, NullsLast, NullsQueued, Killed, HasTaken
<1> QED
  BY <1>4, <1>5, <1>6, <1>7 DEF PInv

\* The owner starts to add a null job: one more was added, but not yet queued.
LEMMA KillStep ==
    ASSUME PInv, FInv', kill
    PROVE  PInv'
<1> DEFINE new == [op |-> "enq", item |-> NullJob, blocking |-> TRUE]
<1>1. /\ call \in [Threads -> EnqCall \cup DeqCall \cup Return]
      /\ call[Owner].op = "returned" /\ call' = [call EXCEPT ![Owner] = new]
      /\ pool = "closing" /\ kills < nthreads_ /\ kills' = kills + 1
      /\ kills \in 0 .. nthreads_
      /\ UNCHANGED <<q_, blockadd_, wrappers, answer, ran, worker, pool>>
  BY DEF kill, Begin, PInv, FInv, TypeOK, PoolTypeOK
<1>2. /\ call'[Owner].op = "enq" /\ call'[Owner].item = NullJob /\ call'[Owner].blocking
      /\ \A t \in Clients \cup Workers : call'[t] = call[t]
  BY <1>1, Roles
<1>3. \A w \in Workers : \A x : HasTaken(w, x)' <=> HasTaken(w, x)
  BY <1>2 DEF HasTaken
<1>4. PoolTypeOK'
  <2>1. kills' \in 0 .. nthreads_
    BY <1>1, KilledFinite
  <2> QED
    BY <1>1, <2>1 DEF PInv, PoolTypeOK, FInv
<1>5. ThreadsAgree'
  BY <1>1, <1>2, <1>3 DEF PInv, ThreadsAgree
<1>6. \A j \in Jobs : JobPlaced(j)' /\ JobOnce(j)'
  BY <1>1, <1>2, JobsFrame DEF Queued, PInv, JobOnce
<1>7. NullsLast'
  <2>1. Killed' = Killed
    BY <1>3 DEF Killed
  <2>2. NullsQueued' = NullsQueued
    BY <1>1, <1>2, <2>1, KilledFinite DEF NullsQueued
  <2> QED
    BY <1>1, <2>1, <2>2 DEF PInv, NullsLast
<1> QED
  BY <1>4, <1>5, <1>6, <1>7 DEF PInv

\* The null job gets its place, behind everything else.
LEMMA AddKillStep ==
    ASSUME PInv, FInv', add_kill, enq_push(Owner)
    PROVE  PInv'
<1>1. /\ call \in [Threads -> EnqCall \cup DeqCall \cup Return]
      /\ call[Owner].op = "enq" /\ call' = [call EXCEPT ![Owner] = Returned(<<"true">>)]
      /\ q_ \in Seq(Items) /\ q_' = Append(q_, NullJob)
      /\ kills \in 0 .. nthreads_
      /\ UNCHANGED <<blockadd_, wrappers, answer, ran, worker, pool, kills>>
  BY DEF add_kill, poolVars, enq_push, Running, PInv, ThreadsAgree, FInv, TypeOK, PoolTypeOK
<1>2. /\ call'[Owner].op = "returned"
      /\ \A t \in Clients \cup Workers : call'[t] = call[t]
  BY <1>1, Roles, ResultFacts
<1>3. \A w \in Workers : \A x : HasTaken(w, x)' <=> HasTaken(w, x)
  BY <1>2 DEF HasTaken
<1>4. /\ Len(q_) \in Nat /\ Len(q_') = Len(q_) + 1
      /\ \A i \in 1 .. Len(q_) : q_'[i] = q_[i]
      /\ q_'[Len(q_) + 1] = NullJob
  BY <1>1, Roles
<1>5. PoolTypeOK'
  BY <1>1 DEF PInv, PoolTypeOK, FInv
<1>6. ThreadsAgree'
  BY <1>1, <1>2, <1>3 DEF PInv, ThreadsAgree
<1>7. \A j \in Jobs : JobPlaced(j)' /\ JobOnce(j)'
  <2>1. ASSUME NEW j \in Jobs
        PROVE  /\ Queued(j)' <=> Queued(j)
               /\ \A i, k \in 1 .. Len(q_') : q_'[i] = j /\ q_'[k] = j => i = k
    <3>1. j # NullJob /\ JobOnce(j)
      BY Roles DEF PInv
    <3> QED
      BY <1>4, <3>1 DEF Queued, JobOnce
  <2>2. UNCHANGED <<wrappers, answer, ran, worker>>
    BY <1>1
  <2> QED
    BY <1>2, <2>1, <2>2, JobsFrame
<1>8. NullsLast'
  <2>1. Killed' = Killed
    BY <1>3 DEF Killed
  <2>2. NullsQueued' = NullsQueued + 1
    BY <1>1, <1>2, <2>1, KilledFinite DEF NullsQueued
  <2>3. NullsLast
    BY DEF PInv
  <2> QED
    BY <1>4, <2>1, <2>2, <2>3 DEF NullsLast
<1> QED
  BY <1>5, <1>6, <1>7, <1>8 DEF PInv

-----------------------------------------------------------------------------
(* The theorems. *)

\* A new pool has no jobs, and every worker is about to take one.
LEMMA InitPInv == PoolInit => PInv
<1> SUFFICES ASSUME PoolInit PROVE PInv
  OBVIOUS
<1>1. FInv
  BY InitFInv DEF PoolInit
<1>2. /\ q_ = << >> /\ Len(q_) = 0 /\ \A t \in Threads : call[t] = Returned(<<"none">>)
      /\ \A w \in Workers : worker[w] = "loop"
      /\ \A j \in Jobs : answer[j] = "none" /\ ran[j] = 0
      /\ wrappers = {} /\ pool = "open" /\ kills = 0
  BY DEF PoolInit, Init
<1>3. \A t \in Threads : \A x : call[t].op = "returned" /\ ~ HasTaken(t, x)
  BY <1>2, ResultFacts DEF HasTaken
<1>4. PoolTypeOK
  BY <1>1, KilledFinite DEF PoolInit, PoolTypeOK, FInv
<1>5. ThreadsAgree
  BY <1>2, <1>3, Roles DEF ThreadsAgree
<1>6. \A j \in Jobs : JobPlaced(j) /\ JobOnce(j)
  BY <1>2, <1>3, Roles DEF JobPlaced, JobOnce, Adding, Queued, Holds
<1>7. Killed = {}
  BY <1>3, Roles DEF Killed
<1>8. NullsQueued = 0
  BY <1>2, <1>3, <1>7, Roles, FS_EmptySet DEF NullsQueued
<1> QED
  BY <1>1, <1>2, <1>4, <1>5, <1>6, <1>7, <1>8 DEF PInv, NullsLast

\* Every step keeps the invariant.
LEMMA NextPInv == PInv /\ [PoolNext]_vars => PInv'
<1> SUFFICES ASSUME PInv, [PoolNext]_vars PROVE PInv'
  OBVIOUS
<1>0. FInv'
  BY QueueKept
<1>1. CASE UNCHANGED vars
  BY <1>0, <1>1, PoolFrame DEF vars, fifoVars
<1>2. ASSUME NEW c \in Clients, NEW j \in Jobs, addObjJob(c, j) PROVE PInv'
  BY <1>0, <1>2, AddObjStep
<1>3. ASSUME NEW c \in Clients, addJob(c) PROVE PInv'
  <2>1. CASE enq_push(c)
    BY <1>0, <1>3, <2>1, AddPushStep
  <2>2. CASE enq_refuse(c)
    BY <1>0, <1>3, <2>2, AddRefuseStep
  <2>3. CASE enq_wait(c)
    <3>1. UNCHANGED <<q_, call>> /\ call[c].op = "enq"
      BY <2>3 DEF enq_wait, Running
    <3>2. UNCHANGED poolVars
      BY <1>3, <3>1 DEF addJob, poolVars
    <3> QED
      BY <1>0, <3>1, <3>2, PoolFrame
  <2> QED
    BY <1>3, <2>1, <2>2, <2>3 DEF addJob, enq
<1>4. ASSUME NEW w \in Workers, call_takeJob(w) PROVE PInv'
  BY <1>0, <1>4, CallTakeStep
<1>5. ASSUME NEW w \in Workers, takeJob(w) PROVE PInv'
  <2>1. CASE deq_pop(w)
    BY <1>0, <1>5, <2>1, TakeStep
  <2>2. CASE deq_wait(w)
    BY <1>0, <1>5, <2>2, PoolFrame DEF takeJob, deq_wait
  <2> QED
    BY <1>5, <2>1, <2>2 DEF takeJob, deq
<1>6. ASSUME NEW w \in Workers, test_job(w) PROVE PInv'
  BY <1>0, <1>6, TestStep
<1>7. ASSUME NEW w \in Workers, func(w) PROVE PInv'
  BY <1>0, <1>7, FuncStep
<1>8. CASE begin_destroy \/ destroy
  BY <1>0, <1>8, PoolStateStep
<1>9. CASE kill
  BY <1>0, <1>9, KillStep
<1>10. CASE add_kill
  <2>1. CASE enq_push(Owner)
    BY <1>0, <1>10, <2>1, AddKillStep
  <2>2. CASE enq_wait(Owner)
    BY <1>0, <1>10, <2>2, PoolFrame DEF add_kill, enq_wait
  <2>3. ~ enq_refuse(Owner)
    BY DEF enq_refuse, Running, PInv, ThreadsAgree
  <2> QED
    BY <1>10, <2>1, <2>2, <2>3 DEF add_kill, enq
<1>11. CASE gone
  BY <1>0, <1>11, PoolFrame DEF gone, vars, fifoVars
<1>12. ASSUME NEW t \in Threads, spurious_wakeup(t), UNCHANGED poolVars PROVE PInv'
  BY <1>0, <1>12, PoolFrame DEF spurious_wakeup
<1> QED
  BY <1>1, <1>2, <1>3, <1>4, <1>5, <1>6, <1>7, <1>8, <1>9, <1>10, <1>11, <1>12 DEF PoolNext

\* When the destructor is done every worker has taken a null job, so that none
\* is left in the queue, and so nothing is.
LEMMA DestroyedFacts ==
    ASSUME PInv, pool = "destroyed"
    PROVE  /\ q_ = << >>
           /\ \A t \in Threads : call[t].op = "returned"
           /\ \A j \in Jobs : ~ Queued(j) /\ (\A w \in Workers : ~ Holds(w, j))
                                          /\ (\A c \in Clients : ~ Adding(c, j))
<1>1. /\ kills = nthreads_ /\ call[Owner].op = "returned"
      /\ \A w \in Workers : worker[w] = "exited" /\ HasTaken(w, NullJob) /\ call[w].op = "returned"
      /\ \A c \in Clients : call[c].op = "returned"
  BY DEF PInv, ThreadsAgree
<1>2. Killed = Workers /\ Workers # {}
  BY <1>1, PoolAssumption DEF Killed
<1>3. NullsQueued = 0
  BY <1>1, <1>2, KilledFinite DEF NullsQueued, nthreads_
<1>4. Len(q_) = 0 /\ q_ \in Seq(Items)
  BY <1>2, <1>3 DEF PInv, NullsLast, FInv, TypeOK
<1>5. q_ = << >>
  BY <1>4
<1>6. \A t \in Threads : call[t].op = "returned"
  BY <1>1, Roles
<1> QED
  BY <1>1, <1>4, <1>5, <1>6 DEF Queued, Holds, Adding

\* The pool's state has its types, and no method is called twice.
THEOREM PoolTypeCorrect == PoolSpec => []PoolTypeOK
<1>1. PInv => PoolTypeOK
  BY DEF PInv
<1> QED
  BY <1>1, InitPInv, NextPInv, PTL DEF PoolSpec

\* Joining the workers is enough: when the destructor destroys the queue no
\* thread is in it, and no job and no null job is left.
THEOREM QueueUnusedWhenDeleted == PoolSpec => []FifoUnusedWhenDeleted
<1>1. PInv => FifoUnusedWhenDeleted
  BY DestroyedFacts DEF FifoUnusedWhenDeleted
<1> QED
  BY <1>1, InitPInv, NextPInv, PTL DEF PoolSpec

\* The destructor loses no job that addObjJob accepted, and none is run that it
\* refused, however many workers and clients there are.
THEOREM DestructorLosesNoJob == PoolSpec => []AcceptedJobsRan
<1>1. PInv => AcceptedJobsRan
  <2> SUFFICES ASSUME PInv, pool = "destroyed", NEW j \in Jobs
               PROVE  ran[j] = IF answer[j] = "true" THEN 1 ELSE 0
    BY DEF AcceptedJobsRan
  <2>1. JobPlaced(j) /\ ran[j] \in 0 .. 1
    BY DEF PInv, PoolTypeOK
  <2> QED
    BY <2>1, DestroyedFacts DEF JobPlaced
<1> QED
  BY <1>1, InitPInv, NextPInv, PTL DEF PoolSpec

\* A worker never reads a deleted wrapper, and the ones that are never deleted
\* are those of refused jobs.
THEOREM WrappersLive == PoolSpec => []WrapperLifetime
<1>1. PInv => WrapperLifetime
  <2> SUFFICES ASSUME PInv PROVE WrapperLifetime
    OBVIOUS
  <2>1. ASSUME NEW w \in Workers, worker[w] = "running" PROVE TakenJob(w) \in wrappers
    <3>1. PICK j \in Jobs : HasTaken(w, j)
      BY <2>1 DEF PInv, ThreadsAgree
    <3>2. Holds(w, j) /\ JobPlaced(j) /\ TakenJob(w) = j
      BY <2>1, <3>1, TakenIs DEF Holds, PInv
    <3> QED
      BY <3>2 DEF JobPlaced
  <2>2. ASSUME pool = "destroyed" PROVE wrappers = {j \in Jobs : answer[j] = "false"}
    <3>1. wrappers \subseteq Jobs
      BY DEF PInv, PoolTypeOK
    <3>2. ASSUME NEW j \in Jobs PROVE j \in wrappers <=> answer[j] = "false"
      <4>1. JobPlaced(j) /\ ran[j] \in 0 .. 1
        BY DEF PInv, PoolTypeOK
      <4> QED
        BY <2>2, <4>1, DestroyedFacts DEF JobPlaced
    <3> QED
      BY <3>1, <3>2
  <2> QED
    BY <2>1, <2>2 DEF WrapperLifetime
<1> QED
  BY <1>1, InitPInv, NextPInv, PTL DEF PoolSpec

\* The pool uses its queue as the queue is meant to be used, so that what is
\* proved of the queue holds of it in the pool: no wake-up is lost to a worker or
\* to a client that waits.
THEOREM PoolImplementsFifo == PoolSpec => Spec /\ []NoLostElement /\ []NoLostSpace
<1>1. PoolInit => Init
  BY DEF PoolInit
<1>2. PInv => NoLostElement /\ NoLostSpace
  BY DEF PInv, FInv
<1> QED
  BY <1>1, <1>2, InitPInv, NextPInv, QueueStep, PTL DEF PoolSpec, Spec

=============================================================================
