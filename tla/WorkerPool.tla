------------------------------ MODULE WorkerPool ------------------------------
(***************************************************************************)
(* The coroutines of list_all_objects that share the prefix queue: the     *)
(* workers (Worker::work), the scaling coroutine that starts and retires   *)
(* them (WorkerManager::scaling_worker), and the main thread, which waits  *)
(* for the work to end in WorkerManager::~WorkerManager.                   *)
(*                                                                         *)
(* One step is one access to state another coroutine can see: a critical   *)
(* section of queue_mutex, or one load or store of an atomic of Metrics.   *)
(* The coroutines run on a thread pool, so steps interleave freely.        *)
(*                                                                         *)
(* Abstractions.  The heap of PrefixQueueEntry is the set of the prefixes  *)
(* in its entries with the depth of each; HeapPool has the heap, and       *)
(* implements this module.  A bucket is a constant: its prefixes and the   *)
(* pages the server lists for each.  list_one, the retries included, is    *)
(* one step with the outcomes its callers can tell apart (ListOutcomes,    *)
(* which PrefixListing implements).  total_objects_found is only printed   *)
(* and is left out.                                                        *)
(***************************************************************************)
EXTENDS WorkerScaling, FiniteSets, Sequences

CONSTANTS
  Prefix,   \* the prefixes ("directories") of the bucket
  Root,     \* the empty prefix, where the listing starts
  Pages,    \* Pages[p][i]: the CommonPrefixes on the i-th page listed for p
  Worker,   \* one element for each worker coroutine that may exist at a time
  Window,   \* samples in the rolling mean (60 in the code)
  Faults    \* which of "exhausted", "repeated", "throw" a listing may meet

ASSUME BucketAssumption ==
  /\ IsFiniteSet(Prefix)
  /\ Root \in Prefix
  /\ Pages \in [Prefix -> Seq(SUBSET Prefix)]
  /\ \A p \in Prefix : Len(Pages[p]) >= 1
  \* With Delimiter "/" a prefix is rolled up on one page of one parent.
  /\ \A p, q \in Prefix : \A i \in DOMAIN Pages[p], j \in DOMAIN Pages[q] :
       Pages[p][i] \cap Pages[q][j] # {} => p = q /\ i = j
  /\ \A p \in Prefix : \A i \in DOMAIN Pages[p] : Root \notin Pages[p][i]

ASSUME PoolAssumption ==
  /\ IsFiniteSet(Worker)
  /\ Window \in Nat \ {0}
  /\ Faults \subseteq {"exhausted", "repeated", "throw"}

VARIABLES
  \* Shared state of the WorkerManager and Metrics
  queue,                \* the prefixes waiting in shared_prefix_queue
  depth,                \* depth[p]: the depth the entry holding p was queued with
  total_queue_length,
  total_ops,
  active_workers,
  target_workers,
  \* Worker coroutines
  wpc,                  \* where each worker is; "idle": there is no such coroutine
  job,                  \* the prefix a worker lists and the number of the page it is at
  seen_active,          \* local current_active of should_terminate_early
  \* Scaling coroutine
  spc,
  previous_ops,
  samples,              \* the window of ops_accumulator
  ops_sum,              \* and the running sum it keeps
  desired,              \* local desired_workers (or the loaded active_workers)
  \* Main thread, in ~WorkerManager
  mpc,
  \* What can be seen from outside
  pushed,               \* <<p, i>>: the objects of that page went to write_stack
  given_up,             \* prefixes reported on stderr as skipped or failed
  crashed               \* prefixes whose worker ended by an exception

metrics == <<total_queue_length, total_ops, active_workers, target_workers>>
shared  == <<queue, depth, metrics>>
workers == <<wpc, job, seen_active>>
scaler  == <<spc, previous_ops, samples, ops_sum, desired>>
outcome == <<pushed, given_up, crashed>>
vars    == <<shared, workers, scaler, mpc, outcome>>

WorkerPc == {"idle", "spawned", "next", "list", "write", "add", "empty",
             "count", "done", "early", "compare", "exit"}
ScalerPc == {"arm", "wait", "check", "align", "realign", "calculate",
             "retarget", "spawn", "aborted", "returned"}
ManagerPc == {"poll", "cancelScaler", "cancelWriter", "join", "joined"}

\* A worker between active_workers++ and active_workers--.
Active == WorkerPc \ {"idle", "spawned"}
\* A worker inside process_prefix.
Busy   == {"list", "write", "add", "empty", "count"}

Job   == [prefix : Prefix, page : Nat]
NoJob == [prefix |-> Root, page |-> 0]
Page(w) == <<job[w].prefix, job[w].page>>

Goto(w, to) == wpc' = [wpc EXCEPT ![w] = to]
Drop(w)     == job' = [job EXCEPT ![w] = NoJob]

\* queue_mutex is free.  It is held over two steps only in process_prefix.
MutexFree == \A w \in Worker : wpc[w] # "count"
-----------------------------------------------------------------------------
(* The constructor of WorkerManager, once both coroutines are spawned.     *)
Init ==
  /\ queue = {Root}
  /\ depth = [p \in Prefix |-> 0]
  /\ total_queue_length = 1
  /\ total_ops = 0
  /\ active_workers = 0
  /\ target_workers = 1
  /\ wpc = [w \in Worker |-> "idle"]
  /\ job = [w \in Worker |-> NoJob]
  /\ seen_active = [w \in Worker |-> 0]
  /\ spc = "arm"
  /\ previous_ops = 0
  /\ samples = <<>>
  /\ ops_sum = 0
  /\ desired = 0
  /\ mpc = "poll"
  /\ pushed = {}
  /\ given_up = {}
  /\ crashed = {}
-----------------------------------------------------------------------------
(* Workers                                                                 *)

(* The coroutine spawn_worker starts to run.                               *)
Start(w) ==
  /\ wpc[w] = "spawned"
  /\ active_workers' = active_workers + 1
  /\ Goto(w, "next")
  /\ UNCHANGED <<queue, depth, total_queue_length, total_ops, target_workers,
                 job, seen_active, scaler, mpc, outcome>>

\* An item of the heap's top entry: the heap orders entries by depth.
Top(p) == p \in queue /\ \A q \in queue : depth[p] <= depth[q]

(* Worker::get_next_prefix, one critical section of queue_mutex.           *)
GetNextPrefix(w) ==
  /\ wpc[w] = "next"
  /\ MutexFree
  /\ \/ /\ queue = {}
        /\ Goto(w, "done")
        /\ UNCHANGED <<queue, total_queue_length, job>>
     \/ \E p \in Prefix :
          /\ Top(p)
          /\ queue' = queue \ {p}
          /\ total_queue_length' = total_queue_length - 1
          /\ job' = [job EXCEPT ![w] = [prefix |-> p, page |-> 1]]
          /\ Goto(w, "list")
  /\ UNCHANGED <<depth, total_ops, active_workers, target_workers,
                 seen_active, scaler, mpc, outcome>>

(* process_prefix: list_one returned a page of the listing.                *)
ListPage(w) ==
  /\ wpc[w] = "list"
  /\ Goto(w, "write")
  /\ UNCHANGED <<shared, job, seen_active, scaler, mpc, outcome>>

(* list_one ran out of retries and returned an empty result.               *)
ListExhausted(w) ==
  /\ "exhausted" \in Faults
  /\ wpc[w] = "list"
  /\ given_up' = given_up \cup {job[w].prefix}
  /\ Goto(w, "empty")
  /\ UNCHANGED <<shared, job, seen_active, scaler, mpc, pushed, crashed>>

(* The page names as its successor the token it was asked for with: the    *)
(* prefix is skipped, the page's contents too.  The first request carries  *)
(* no token.                                                               *)
ListRepeated(w) ==
  /\ "repeated" \in Faults
  /\ wpc[w] = "list"
  /\ job[w].page > 1
  /\ given_up' = given_up \cup {job[w].prefix}
  /\ Goto(w, "done")
  /\ Drop(w)
  /\ UNCHANGED <<shared, seen_active, scaler, mpc, pushed, crashed>>

(* Mutant: the decrement of active_workers is not bound to the scope.      *)
ListThrows_NoScopeExit(w) ==
  /\ "throw" \in Faults
  /\ wpc[w] = "list"
  /\ crashed' = crashed \cup {job[w].prefix}
  /\ Goto(w, "idle")
  /\ Drop(w)
  /\ UNCHANGED <<shared, seen_active, scaler, mpc, pushed, given_up>>

(* Parsing the answer throws.  The exception unwinds work(), and detached, *)
(* the completion token of spawn_worker, discards it.                      *)
ListThrows(w) ==
  /\ "throw" \in Faults
  /\ wpc[w] = "list"
  /\ crashed' = crashed \cup {job[w].prefix}
  /\ Goto(w, "exit")
  /\ Drop(w)
  /\ UNCHANGED <<shared, seen_active, scaler, mpc, pushed, given_up>>

(* write_objects: one push to the lock-free stack of the writer coroutine. *)
WriteObjects(w) ==
  /\ wpc[w] = "write"
  /\ pushed' = pushed \cup {Page(w)}
  /\ Goto(w, "add")
  /\ UNCHANGED <<shared, job, seen_active, scaler, mpc, given_up, crashed>>

MorePages(w) == wpc[w] = "add" /\ job[w].page < Len(Pages[job[w].prefix])

(* Mutant: only the last page's CommonPrefixes are kept.                   *)
NewPrefixes_LastPage(w) ==
  IF wpc[w] = "add" /\ ~MorePages(w) THEN Pages[job[w].prefix][job[w].page] ELSE {}

NewPrefixes(w) == IF wpc[w] = "add" THEN Pages[job[w].prefix][job[w].page] ELSE {}

(* Mutant: one is added for each new entry of the heap, not each prefix.   *)
Growth_PerEntry(w) == IF NewPrefixes(w) = {} THEN 0 ELSE 1

\* prefixes.size()
Growth(w) == Cardinality(NewPrefixes(w))

(* The critical section that ends each round of process_prefix.           *)
(* total_queue_length and total_ops are read without the mutex, so each    *)
(* update is a step of its own; the heap is read only with the mutex.      *)
AddPrefixes(w) ==
  /\ wpc[w] \in {"add", "empty"}
  /\ MutexFree
  /\ total_queue_length' = total_queue_length + Growth(w)
  /\ queue' = queue \cup NewPrefixes(w)
  /\ depth' = [p \in Prefix |->
                 IF p \in NewPrefixes(w) THEN depth[job[w].prefix] + 1 ELSE depth[p]]
  /\ IF MorePages(w) THEN job' = [job EXCEPT ![w].page = @ + 1] ELSE Drop(w)
  /\ Goto(w, "count")
  /\ UNCHANGED <<total_ops, active_workers, target_workers, seen_active, scaler,
                 mpc, outcome>>

(* total_ops++, the end of the critical section, and the test of           *)
(* continuation_token after it.                                            *)
CountOp(w) ==
  /\ wpc[w] = "count"
  /\ total_ops' = total_ops + 1
  /\ Goto(w, IF job[w] = NoJob THEN "done" ELSE "list")
  /\ UNCHANGED <<queue, depth, total_queue_length, active_workers, target_workers,
                 job, seen_active, scaler, mpc, outcome>>

(* Mutant: only the surplus of workers is looked at.                       *)
IsDone_Never(w) ==
  /\ wpc[w] = "done"
  /\ Goto(w, "early")
  /\ UNCHANGED <<shared, job, seen_active, scaler, mpc, outcome>>

(* is_done, the first operand of the test in work().                       *)
IsDone(w) ==
  /\ wpc[w] = "done"
  /\ Goto(w, IF total_queue_length = 0 THEN "exit" ELSE "early")
  /\ UNCHANGED <<shared, job, seen_active, scaler, mpc, outcome>>

(* should_terminate_early loads active_workers, then target_workers.       *)
LoadActive(w) ==
  /\ wpc[w] = "early"
  /\ seen_active' = [seen_active EXCEPT ![w] = active_workers]
  /\ Goto(w, "compare")
  /\ UNCHANGED <<shared, job, scaler, mpc, outcome>>

CompareTarget(w) ==
  /\ wpc[w] = "compare"
  /\ Goto(w, IF seen_active[w] > target_workers THEN "exit" ELSE "next")
  /\ seen_active' = [seen_active EXCEPT ![w] = 0]
  /\ UNCHANGED <<shared, job, scaler, mpc, outcome>>

(* The scope_exit of spawn_worker, on return and on an exception.          *)
Leave(w) ==
  /\ wpc[w] = "exit"
  /\ active_workers' = active_workers - 1
  /\ Goto(w, "idle")
  /\ UNCHANGED <<queue, depth, total_queue_length, total_ops, target_workers,
                 job, seen_active, scaler, mpc, outcome>>

\* Every step of a worker but its push to the stack of the writer coroutine.
QueueStep(w) ==
  \/ Start(w)
  \/ GetNextPrefix(w)
  \/ ListPage(w)
  \/ ListExhausted(w)
  \/ ListRepeated(w)
  \/ ListThrows(w)
  \/ AddPrefixes(w)
  \/ CountOp(w)
  \/ IsDone(w)
  \/ LoadActive(w)
  \/ CompareTarget(w)
  \/ Leave(w)

WorkerStep(w) == WriteObjects(w) \/ QueueStep(w)
-----------------------------------------------------------------------------
(* The scaling coroutine                                                   *)

(* async_wait puts a handler into the cancellation slot.                   *)
ScalerArm ==
  /\ spc = "arm"
  /\ spc' = "wait"
  /\ UNCHANGED <<shared, workers, previous_ops, samples, ops_sum, desired, mpc, outcome>>

(* The timer expires: a sample of the operations since the last one.       *)
ScalerTick ==
  /\ spc = "wait"
  /\ LET new_ops == total_ops - previous_ops
         full    == Len(samples) = Window
     IN  /\ samples' = Append(IF full THEN Tail(samples) ELSE samples, new_ops)
         /\ ops_sum' = ops_sum + new_ops - (IF full THEN Head(samples) ELSE 0)
  /\ previous_ops' = total_ops
  /\ spc' = "check"
  /\ UNCHANGED <<shared, workers, desired, mpc, outcome>>

(* Is there anything waiting in the queue?                                 *)
ScalerCheck ==
  /\ spc = "check"
  /\ spc' = IF total_queue_length = 0 THEN "align" ELSE "calculate"
  /\ UNCHANGED <<shared, workers, previous_ops, samples, ops_sum, desired, mpc, outcome>>

(* target_workers = active_workers.load(): a load, then a store.           *)
ScalerAlign ==
  /\ spc = "align"
  /\ desired' = active_workers
  /\ spc' = "realign"
  /\ UNCHANGED <<shared, workers, previous_ops, samples, ops_sum, mpc, outcome>>

ScalerRealign ==
  /\ spc = "realign"
  /\ target_workers' = desired
  /\ desired' = 0
  /\ spc' = "arm"
  /\ UNCHANGED <<queue, depth, total_queue_length, total_ops, active_workers,
                 workers, previous_ops, samples, ops_sum, mpc, outcome>>

(* Load active_workers, calculate, and compare with the current target.    *)
ScalerCalculate ==
  /\ spc = "calculate"
  /\ \E d \in Wanted(active_workers, ops_sum, Len(samples)) :
       IF d # target_workers
       THEN desired' = d /\ spc' = "retarget"
       ELSE desired' = 0 /\ spc' = "arm"
  /\ UNCHANGED <<shared, workers, previous_ops, samples, ops_sum, mpc, outcome>>

ScalerRetarget ==
  /\ spc = "retarget"
  /\ target_workers' = desired
  /\ spc' = "spawn"
  /\ UNCHANGED <<queue, depth, total_queue_length, total_ops, active_workers,
                 workers, previous_ops, samples, ops_sum, desired, mpc, outcome>>

Idle == {w \in Worker : wpc[w] = "idle"}

\* Bound of the model: no more coroutines than elements of Worker.
WorkersToSpawn ==
  IF active_workers >= desired THEN 0
  ELSE IF desired - active_workers <= Cardinality(Idle)
       THEN desired - active_workers
       ELSE Cardinality(Idle)

(* Load active_workers as current_running and spawn up to the target.      *)
ScalerSpawn ==
  /\ spc = "spawn"
  /\ \E spawned \in SUBSET Idle :
       /\ Cardinality(spawned) = WorkersToSpawn
       /\ wpc' = [w \in Worker |-> IF w \in spawned THEN "spawned" ELSE wpc[w]]
  /\ desired' = 0
  /\ spc' = "arm"
  /\ UNCHANGED <<shared, job, seen_active, previous_ops, samples, ops_sum, mpc, outcome>>

(* The wait completes with operation_aborted.                              *)
ScalerAborted ==
  /\ spc = "aborted"
  /\ spc' = "returned"
  /\ UNCHANGED <<shared, workers, previous_ops, samples, ops_sum, desired, mpc, outcome>>

ScalerStep ==
  \/ ScalerArm
  \/ ScalerTick
  \/ ScalerCheck
  \/ ScalerAlign
  \/ ScalerRealign
  \/ ScalerCalculate
  \/ ScalerRetarget
  \/ ScalerSpawn
  \/ ScalerAborted
-----------------------------------------------------------------------------
(* The main thread in ~WorkerManager                                       *)

(* Mutant: active_workers is not looked at.                                *)
ManagerPoll_QueueOnly ==
  /\ mpc = "poll"
  /\ MutexFree
  /\ total_queue_length = 0
  /\ mpc' = "cancelScaler"
  /\ UNCHANGED <<shared, workers, scaler, outcome>>

(* One look at the queue that ends the waiting loop: a critical section of *)
(* queue_mutex.  A look that does not end it changes nothing.              *)
ManagerPoll ==
  /\ mpc = "poll"
  /\ MutexFree
  /\ total_queue_length = 0
  /\ active_workers = 0
  /\ mpc' = "cancelScaler"
  /\ UNCHANGED <<shared, workers, scaler, outcome>>

(* emit() reaches a coroutine only while it waits on its timer: otherwise  *)
(* there is no handler in the slot, and the signal leaves no trace.        *)
ManagerCancelScaler ==
  /\ mpc = "cancelScaler"
  /\ mpc' = "cancelWriter"
  /\ spc' = IF spc = "wait" THEN "aborted" ELSE spc
  /\ UNCHANGED <<shared, workers, previous_ops, samples, ops_sum, desired, outcome>>

(* The signal to the writer coroutine, whose side is in OutputWriter.      *)
ManagerCancelWriter ==
  /\ mpc = "cancelWriter"
  /\ mpc' = "join"
  /\ UNCHANGED <<shared, workers, scaler, outcome>>

(* pool->join() returns when no coroutine is left on the pool.             *)
ManagerJoin ==
  /\ mpc = "join"
  /\ spc = "returned"
  /\ Idle = Worker
  /\ mpc' = "joined"
  /\ UNCHANGED <<shared, workers, scaler, outcome>>

ManagerStep ==
  \/ ManagerPoll
  \/ ManagerCancelScaler
  \/ ManagerCancelWriter
  \/ ManagerJoin

(* The process has left main.                                              *)
Terminated == mpc = "joined" /\ UNCHANGED vars

Next ==
  \/ \E w \in Worker : WorkerStep(w)
  \/ ScalerStep
  \/ ManagerStep
  \/ Terminated

Spec == Init /\ [][Next]_vars

(* The pool runs every coroutine that is ready, timers expire, a request   *)
(* ends within its 300 seconds, and the main thread polls every second.    *)
Fairness ==
  /\ \A w \in Worker : WF_vars(WorkerStep(w))
  /\ WF_vars(ScalerStep)
  /\ WF_vars(ManagerStep)

FairSpec == Spec /\ Fairness
-----------------------------------------------------------------------------
(* Every variable has its type.  total_queue_length and active_workers are *)
(* unsigned in the code, and a decrement of zero would wrap.               *)
TypeOK ==
  /\ queue \subseteq Prefix
  /\ depth \in [Prefix -> Nat]
  /\ total_queue_length \in Nat
  /\ total_ops \in Nat
  /\ active_workers \in Nat
  /\ target_workers \in Nat
  /\ wpc \in [Worker -> WorkerPc]
  /\ job \in [Worker -> Job]
  /\ seen_active \in [Worker -> Nat]
  /\ spc \in ScalerPc
  /\ previous_ops \in 0..total_ops
  /\ samples \in Seq(Nat)
  /\ ops_sum \in Int
  /\ desired \in Nat
  /\ mpc \in ManagerPc
  /\ pushed \subseteq Prefix \X Nat
  /\ given_up \subseteq Prefix
  /\ crashed \subseteq Prefix

(* total_queue_length, which is_done and the scaling coroutine read        *)
(* without the mutex, is the number of prefixes in the heap.               *)
QueueLengthExact == total_queue_length = Cardinality(queue)

(* active_workers counts the workers between Start and Leave, however they *)
(* left: by return, by early termination or by an exception.               *)
ActiveExact == active_workers = Cardinality({w \in Worker : wpc[w] \in Active})

(* The main thread stops waiting only when no prefix waits and none is in  *)
(* the hands of a worker.                                                  *)
ShutdownWhenDone ==
  mpc # "poll" => queue = {} /\ \A w \in Worker : wpc[w] \notin Busy

\* The prefixes the pages written so far name.
Known == {Root} \cup UNION {Pages[pg[1]][pg[2]] : pg \in pushed}

Written(p) == \A i \in DOMAIN Pages[p] : <<p, i>> \in pushed

(* When the main thread stops waiting, every prefix that a page written    *)
(* out names has itself been written out in full, unless its listing was   *)
(* given up or ended by an exception: no prefix is forgotten.              *)
CompleteListing ==
  mpc # "poll" => \A p \in Known : Written(p) \/ p \in given_up \cup crashed

(* The pages entered in the queue: all those written but the ones that the *)
(* worker that wrote them has still to enter.                              *)
Entered == pushed \ {Page(w) : w \in {v \in Worker : wpc[v] = "add"}}

\* The prefixes of which a worker has still to enter a page.
Open == {job[w].prefix : w \in {v \in Worker : \/ wpc[v] \in {"list", "write", "add"}
                                               \/ wpc[v] = "count" /\ job[v] # NoJob}}

\* The pages of worker w's prefix that are written.
PagesOf(w) == IF wpc[w] = "add" THEN 1..job[w].page ELSE 1..(job[w].page - 1)

\* Root, and the prefixes named by the pages entered in the queue.
Named(p) == p = Root \/ \E pg \in Entered : p \in Pages[pg[1]][pg[2]]

Holds(w, p) == job[w] # NoJob /\ job[w].prefix = p

JobInv ==
  \A w \in Worker :
    /\ wpc[w] \in Busy \ {"count"} => job[w] # NoJob
    /\ job[w] # NoJob => wpc[w] \in Busy /\ job[w].page \in DOMAIN Pages[job[w].prefix]
    /\ wpc[w] = "empty" => job[w].prefix \in given_up

OneOwner ==
  \A p \in Prefix : \A w \in Worker :
    Holds(w, p) => p \notin queue /\ \A v \in Worker : Holds(v, p) => v = w

NamedInv ==
  /\ \A p \in queue : Named(p)
  /\ \A w \in Worker : job[w] # NoJob => Named(job[w].prefix)
  /\ \A pg \in pushed : Named(pg[1])

PushedInv ==
  /\ \A pg \in pushed : pg[2] \in DOMAIN Pages[pg[1]]
  /\ \A w \in Worker : job[w] # NoJob =>
       \A i \in DOMAIN Pages[job[w].prefix] : <<job[w].prefix, i>> \in pushed <=> i \in PagesOf(w)
  /\ \A p \in queue : \A i \in DOMAIN Pages[p] : <<p, i>> \notin pushed

Accounted ==
  \A p \in Prefix : Named(p) =>
    \/ p \in queue
    \/ \E w \in Worker : Holds(w, p)
    \/ Written(p)
    \/ p \in given_up \cup crashed

(* The life of a prefix, from the page that names it to its last page.  A  *)
(* prefix is in the queue or in the hands of one worker, never both or of  *)
(* two; the pages of it that are written are those before the one its      *)
(* worker is at; and a prefix that was named and is no longer in either    *)
(* place was written in full, or given up, or its worker crashed.          *)
Bookkeeping ==
  /\ JobInv
  /\ OneOwner
  /\ NamedInv
  /\ PushedInv
  /\ Accounted

(* No page of the listing goes to the writer twice.                        *)
OncePerPage ==
  [][\A w \in Worker : wpc[w] = "write" /\ wpc'[w] = "add" => Page(w) \notin pushed]_vars

(* The pool walks the bucket as BucketWalk promises.                       *)
Walk == INSTANCE BucketWalk WITH waiting <- queue, open <- Open,
                                 listed <- Entered, ended <- mpc # "poll"
WalksBucket == Walk!Spec

(* There is only so much to do: each prefix taken and each page entered    *)
(* leaves less, so that in the end nothing is left but to stop or, if the  *)
(* pool stalls, to wait.                                                   *)
FiniteWork == Walk!AlwaysNearer

Spawned == {w \in Worker : wpc[w] = "spawned"}

\* Where ScalingLoop, which has no steps to arm the timer and to return, is.
LoopPosition ==
  CASE spc = "arm"                     -> "wait"
    [] spc \in {"aborted", "returned"} -> "gone"
    [] OTHER                           -> spc

(* Of all this the scaling coroutine sees numbers, and what it does with   *)
(* them is ScalingLoop, for as many workers as there may be.               *)
Loop == INSTANCE ScalingLoop WITH
  Loads <- Nat, MaxWorkers <- Cardinality(Worker),
  waiting <- total_queue_length > 0, active <- active_workers,
  spawned <- Cardinality(Spawned), target <- target_workers, spc <- LoopPosition
ScalesByNumbers == Loop!Spec

\* The levels of the bucket's tree of prefixes, and the level of each prefix.
Level[n \in 0..Cardinality(Prefix)] ==
  IF n = 0 THEN {Root}
  ELSE UNION {UNION {Pages[p][i] : i \in DOMAIN Pages[p]} : p \in Level[n - 1]}
TreeDepth == [p \in Prefix |-> CHOOSE n \in 0..Cardinality(Prefix) : p \in Level[n]]

(* The listing is breadth-first: a worker never takes a prefix while one   *)
(* closer to the root of the bucket is waiting.                            *)
BreadthFirst ==
  [][\A w \in Worker : wpc[w] = "next" /\ wpc'[w] = "list" =>
       \A q \in queue : TreeDepth[job'[w].prefix] <= TreeDepth[q]]_vars

\* Prefixes wait, no worker exists or is about to, and the target is what
\* calculate_desired_workers returns while nothing happens.
Stalled ==
  /\ mpc = "poll"
  /\ total_queue_length > 0
  /\ Idle = Worker
  /\ target_workers = IdleFloor

(* The listing ends, unless it stalls for good: workers that are gone are  *)
(* replaced in every other state.                                          *)
EndsUnlessStalled == <>(mpc # "poll") \/ <>[]Stalled

(* "Always keep at least one worker": the last worker never leaves while   *)
(* prefixes wait (worker_manager.cpp:230).                                 *)
NeverDownToZero ==
  [][active_workers = 1 /\ active_workers' = 0 => total_queue_length = 0]_vars

(* "Wait for all work to complete": the wait ends (worker_manager.cpp:103) *)
WaitEnds == <>(mpc # "poll")

(* "Cancel scaling and writer coroutines": the scaling coroutine returns   *)
(* once it was cancelled (worker_manager.cpp:138).                         *)
ScalerStops == (mpc = "cancelWriter") ~> (spc = "returned")

(* "This tool lists all objects in the specified bucket": what is missing  *)
(* at the end was at least reported (list_all_objects/README.md:3).        *)
NothingLostSilently ==
  mpc = "joined" => \A p \in Known : Written(p) \/ p \in given_up
=============================================================================
