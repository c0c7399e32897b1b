------------------------------ MODULE ThrPool -------------------------------
(***************************************************************************)
(* rpc/thr_pool.h on the queue of Fifo: worker threads that run the jobs   *)
(* which clients add.  The template addObjJob is in the repository;        *)
(* addJob, takeJob, the worker's loop, the constructor and the destructor  *)
(* are in the library librpc.a, and are modelled from how the header uses  *)
(* them: the destructor adds one job without a function for each worker,   *)
(* joins them all and destroys the queue.                                  *)
(*                                                                         *)
(* A job stands for one call of addObjJob, and also names the wrapper that *)
(* the call allocates.                                                     *)
(***************************************************************************)
EXTENDS Fifo

CONSTANTS
    Clients,        \* the threads that call addObjJob
    Owner,          \* the thread that destroys the pool
    Jobs,           \* the calls of addObjJob
    NullJob         \* a job_t whose f is NULL

Workers == Consumers
nthreads_ == Cardinality(Workers)

ASSUME PoolAssumption ==
    /\ Producers = Clients \cup {Owner} /\ Owner \notin Clients
    /\ Producers \cap Workers = {} /\ Workers # {}
    /\ Items = Jobs \cup {NullJob} /\ NullJob \notin Jobs

VARIABLES
    blockadd_,      \* ThrPool::blockadd_
    wrappers,       \* the objfunc_wrappers that have not been deleted
    answer,         \* what addObjJob said of each job
    ran,            \* how often the method of each job has been called
    worker,         \* where each worker is in its loop
    pool,           \* how far the destructor is
    kills           \* jobs without a function that it has added

poolVars == <<blockadd_, wrappers, answer, ran, worker, pool, kills>>
vars == <<fifoVars, poolVars>>

PoolInit ==
    /\ Init
    /\ blockadd_ \in BOOLEAN
    /\ wrappers = {}
    /\ answer = [j \in Jobs |-> "none"]
    /\ ran = [j \in Jobs |-> 0]
    /\ worker = [w \in Workers |-> "loop"]
    /\ pool = "open"
    /\ kills = 0

-----------------------------------------------------------------------------
(* Adding jobs. *)

\* A new wrapper, then addJob, which is enq(j, blockadd_).  A pool that is being
\* destroyed gets no calls: that is up to its owner.
addObjJob(c, j) ==
    /\ pool = "open"
    /\ answer[j] = "none" /\ j \notin wrappers
    /\ wrappers' = wrappers \cup {j}
    /\ Begin(c, [op |-> "enq", item |-> j, blocking |-> blockadd_])
    /\ UNCHANGED <<blockadd_, answer, ran, worker, pool, kills>>

\* Mutant: the result of enq is not passed on.
AddJobSaysTrue(c) ==
    /\ enq(c)
    /\ answer' = IF call'[c].op = "returned"
                 THEN [answer EXCEPT ![call[c].item] = "true"] ELSE answer
    /\ UNCHANGED <<blockadd_, wrappers, ran, worker, pool, kills>>

\* The turn of a client in enq.  Nobody deletes the wrapper of a refused job.
addJob(c) ==
    /\ enq(c)
    /\ answer' = IF call'[c].op = "returned"
                 THEN [answer EXCEPT ![call[c].item] = call'[c].value[1]] ELSE answer
    /\ UNCHANGED <<blockadd_, wrappers, ran, worker, pool, kills>>

-----------------------------------------------------------------------------
(* do_worker: take a job, leave the loop if it has no function, run it. *)

call_takeJob(w) ==
    /\ worker[w] = "loop"
    /\ Begin(w, [op |-> "deq"])
    /\ worker' = [worker EXCEPT ![w] = "taking"]
    /\ UNCHANGED <<blockadd_, wrappers, answer, ran, pool, kills>>

takeJob(w) == deq(w) /\ UNCHANGED poolVars

TakenJob(w) == call[w].value[2]

\* takeJob is FALSE for a job without a function.
test_job(w) ==
    /\ worker[w] = "taking" /\ call[w].op = "returned"
    /\ worker' = [worker EXCEPT ![w] = IF TakenJob(w) = NullJob THEN "exited" ELSE "running"]
    /\ UNCHANGED <<fifoVars, blockadd_, wrappers, answer, ran, pool, kills>>

\* Mutant: the wrapper is not deleted.
FuncNoDelete(w) ==
    /\ worker[w] = "running"
    /\ ran' = [ran EXCEPT ![TakenJob(w)] = @ + 1]
    /\ worker' = [worker EXCEPT ![w] = "loop"]
    /\ UNCHANGED <<fifoVars, blockadd_, wrappers, answer, pool, kills>>

\* objfunc_wrapper::func: the method is called with what the wrapper holds, and
\* the wrapper is deleted when it returns.
func(w) ==
    /\ worker[w] = "running"
    /\ ran' = [ran EXCEPT ![TakenJob(w)] = @ + 1]
    /\ wrappers' = wrappers \ {TakenJob(w)}
    /\ worker' = [worker EXCEPT ![w] = "loop"]
    /\ UNCHANGED <<fifoVars, blockadd_, answer, pool, kills>>

-----------------------------------------------------------------------------
(* ~ThrPool. *)

\* The caller sees to it that no addObjJob is under way.
begin_destroy ==
    /\ pool = "open"
    /\ \A c \in Clients : call[c].op = "returned"
    /\ pool' = "closing"
    /\ UNCHANGED <<fifoVars, blockadd_, wrappers, answer, ran, worker, kills>>

kill ==
    /\ pool = "closing" /\ kills < nthreads_
    /\ Begin(Owner, [op |-> "enq", item |-> NullJob, blocking |-> TRUE])
    /\ kills' = kills + 1
    /\ UNCHANGED <<blockadd_, wrappers, answer, ran, worker, pool>>

add_kill == enq(Owner) /\ UNCHANGED poolVars

\* Mutant: the queue is destroyed without joining the workers.
DestroyUnjoined ==
    /\ pool = "closing" /\ kills = nthreads_ /\ call[Owner].op = "returned"
    /\ pool' = "destroyed"
    /\ UNCHANGED <<fifoVars, blockadd_, wrappers, answer, ran, worker, kills>>

\* pthread_join of every worker, then ~fifo.
destroy ==
    /\ pool = "closing" /\ kills = nthreads_ /\ call[Owner].op = "returned"
    /\ \A w \in Workers : worker[w] = "exited"
    /\ pool' = "destroyed"
    /\ UNCHANGED <<fifoVars, blockadd_, wrappers, answer, ran, worker, kills>>

\* Nothing more happens to a pool that is gone.
gone == pool = "destroyed" /\ UNCHANGED vars

PoolNext ==
    \/ \E c \in Clients : addJob(c) \/ \E j \in Jobs : addObjJob(c, j)
    \/ \E w \in Workers : call_takeJob(w) \/ takeJob(w) \/ test_job(w) \/ func(w)
    \/ begin_destroy \/ kill \/ add_kill \/ destroy \/ gone
    \/ \E t \in Threads : spurious_wakeup(t) /\ UNCHANGED poolVars

\* Threads that can go on do, and the methods that jobs call return.  Nothing
\* makes clients add jobs or the owner destroy the pool.
PoolFairness ==
    /\ \A c \in Clients : WF_vars(addJob(c))
    /\ \A w \in Workers :
          WF_vars(call_takeJob(w) \/ takeJob(w) \/ test_job(w) \/ func(w))
    /\ WF_vars(kill \/ add_kill \/ destroy)

PoolSpec == PoolInit /\ [][PoolNext]_vars /\ PoolFairness

-----------------------------------------------------------------------------
(* Properties. *)

\* The state of the pool, and of the threads between their calls.
PoolTypeOK ==
    /\ TypeOK
    /\ blockadd_ \in BOOLEAN
    /\ wrappers \subseteq Jobs
    /\ answer \in [Jobs -> {"none", "true", "false"}]
    /\ ran \in [Jobs -> 0 .. 1]
    /\ worker \in [Workers -> {"loop", "taking", "running", "exited"}]
    /\ pool \in {"open", "closing", "destroyed"}
    /\ kills \in 0 .. nthreads_

\* The comment in ~fifo: it is deleted only when no threads are using it.  When
\* the destructor gets there no thread is in a call and no element is left.
FifoUnusedWhenDeleted ==
    pool = "destroyed" =>
        /\ q_ = << >>
        /\ \A t \in Threads : call[t].op = "returned"

\* The destructor loses no job: the jobs it adds are behind all others.  When it
\* is done, the method of every accepted job has been called exactly once, and
\* of no refused one.
AcceptedJobsRan ==
    pool = "destroyed" => \A j \in Jobs : ran[j] = IF answer[j] = "true" THEN 1 ELSE 0

\* A wrapper is there until its job has run: a worker never reads one that is
\* deleted.  Only the wrappers of refused jobs are never deleted.
WrapperLifetime ==
    /\ \A w \in Workers : worker[w] = "running" => TakenJob(w) \in wrappers
    /\ pool = "destroyed" => wrappers = {j \in Jobs : answer[j] = "false"}

\* An accepted job is run, even if no other call ever reaches the pool.
AcceptedJobsRun == \A j \in Jobs : answer[j] = "true" ~> ran[j] = 1

\* The destructor returns: every worker meets one of its jobs and leaves.
DestructorReturns == pool = "closing" ~> pool = "destroyed"

=============================================================================
