------------------------------- MODULE HeapPool -------------------------------
(***************************************************************************)
(* WorkerPool with its queue as the code has it: a heap of                 *)
(* PrefixQueueEntry, one entry for each page that named prefixes, shared   *)
(* by the workers and the main thread under queue_mutex.  Prefixes are     *)
(* taken from the entry on top; an entry that was emptied stays until      *)
(* somebody finds it on top and pops it.  The depth of new entries is that *)
(* of the prefix the worker holds, a local of Worker::work.                *)
(*                                                                         *)
(* queue and depth of WorkerPool become history variables: no action here  *)
(* reads them.  std::priority_queue does not say which of the entries of   *)
(* the least depth is on top, so any may be.                               *)
(***************************************************************************)
EXTENDS WorkerPool

VARIABLES
  heap,       \* shared_prefix_queue
  at_depth,   \* local depth of process_prefix; 0 for workers without a prefix
  reported    \* entries the destructor reported as left in the heap

heapVars == <<heap, at_depth, reported>>
hvars    == <<vars, heapVars>>

\* PrefixQueueEntry.  The page that named the paths tells entries apart.
Entry == [from : Prefix \X Nat, depth : Nat, paths : SUBSET Prefix]

RootEntry == [from |-> <<Root, 0>>, depth |-> 0, paths |-> {Root}]

Emptied(e) == e.paths = {}

(* Mutant: the heap is ordered by std::less, the deepest entry on top.     *)
OnTop_Deepest(e, h) == e \in h /\ \A f \in h : e.depth >= f.depth

\* e may be the top of a heap of the entries h: the heap is ordered by std::greater.
OnTop(e, h) == e \in h /\ \A f \in h : e.depth <= f.depth

(* Mutant: entries are not looked at, the heap stays as it is.             *)
Cleaned_Never(h) == {h}

(* What may be left of h when emptied entries are popped off its top until *)
(* the top entry has a path or none is left.                               *)
Cleaned(h) ==
  {rest \in SUBSET h :
     /\ \A e \in h \ rest : Emptied(e) /\ \A f \in rest : e.depth <= f.depth
     /\ rest = {} \/ \E t \in rest : OnTop(t, rest) /\ ~Emptied(t)}

\* process_prefix has returned for the workers that hold no prefix any more.
KeepDepths ==
  at_depth' = [w \in Worker |-> IF job'[w] = NoJob THEN 0 ELSE at_depth[w]]
-----------------------------------------------------------------------------
HInit ==
  /\ Init
  /\ heap = {RootEntry}
  /\ at_depth = [w \in Worker |-> 0]
  /\ reported = {}

\* Worker w takes path p out of the entry t on top of what was left of the heap.
Take(w, t, p, rest) ==
  /\ heap' = (rest \ {t}) \cup {[t EXCEPT !.paths = @ \ {p}]}
  /\ queue' = queue \ {p}
  /\ total_queue_length' = total_queue_length - 1
  /\ job' = [job EXCEPT ![w] = [prefix |-> p, page |-> 1]]
  /\ at_depth' = [at_depth EXCEPT ![w] = t.depth]
  /\ Goto(w, "list")

(* Mutant: total_queue_length is decremented whenever the heap is looked   *)
(* at, also when nothing is left to take.                                  *)
PopPrefix_Underflow(w) ==
  /\ wpc[w] = "next"
  /\ MutexFree
  /\ \E rest \in Cleaned(heap) :
       \/ /\ rest = {}
          /\ heap' = {}
          /\ total_queue_length' = total_queue_length - 1
          /\ Goto(w, "done")
          /\ UNCHANGED <<queue, job, at_depth>>
       \/ \E t \in rest, p \in Prefix : OnTop(t, rest) /\ p \in t.paths /\ Take(w, t, p, rest)
  /\ UNCHANGED <<depth, total_ops, active_workers, target_workers,
                 seen_active, scaler, mpc, outcome, reported>>

(* Mutant: pop_back is missing, the path stays in its entry.               *)
PopPrefix_NoPop(w) ==
  /\ wpc[w] = "next"
  /\ MutexFree
  /\ \E rest \in Cleaned(heap) :
       \/ /\ rest = {}
          /\ heap' = {}
          /\ Goto(w, "done")
          /\ UNCHANGED <<total_queue_length, job, at_depth>>
       \/ \E t \in rest, p \in Prefix :
            /\ OnTop(t, rest) /\ p \in t.paths
            /\ heap' = rest
            /\ total_queue_length' = total_queue_length - 1
            /\ job' = [job EXCEPT ![w] = [prefix |-> p, page |-> 1]]
            /\ at_depth' = [at_depth EXCEPT ![w] = t.depth]
            /\ Goto(w, "list")
  /\ UNCHANGED <<queue, depth, total_ops, active_workers, target_workers,
                 seen_active, scaler, mpc, outcome, reported>>

(* Mutant: no loop, an emptied entry on top is popped and nothing taken.   *)
PopPrefix_OneLook(w) ==
  /\ wpc[w] = "next"
  /\ MutexFree
  /\ \/ /\ \A t \in heap : OnTop(t, heap) => Emptied(t)
        /\ heap' = {t \in heap : ~OnTop(t, heap)}
        /\ Goto(w, "done")
        /\ UNCHANGED <<queue, total_queue_length, job, at_depth>>
     \/ \E t \in heap, p \in Prefix : OnTop(t, heap) /\ p \in t.paths /\ Take(w, t, p, heap)
  /\ UNCHANGED <<depth, total_ops, active_workers, target_workers,
                 seen_active, scaler, mpc, outcome, reported>>

(* Worker::get_next_prefix, one critical section of queue_mutex.           *)
PopPrefix(w) ==
  /\ wpc[w] = "next"
  /\ MutexFree
  /\ \E rest \in Cleaned(heap) :
       \/ /\ rest = {}
          /\ heap' = {}
          /\ Goto(w, "done")
          /\ UNCHANGED <<queue, total_queue_length, job, at_depth>>
       \/ \E t \in rest, p \in Prefix : OnTop(t, rest) /\ p \in t.paths /\ Take(w, t, p, rest)
  /\ UNCHANGED <<depth, total_ops, active_workers, target_workers,
                 seen_active, scaler, mpc, outcome, reported>>

(* Mutant: new entries are put at the depth of their parent.               *)
NewEntry_SameDepth(w) ==
  [from |-> Page(w), depth |-> at_depth[w], paths |-> NewPrefixes(w)]

NewEntry(w) == [from |-> Page(w), depth |-> at_depth[w] + 1, paths |-> NewPrefixes(w)]

(* The critical section that ends each round of process_prefix: an entry   *)
(* is made only of prefixes, if there are any.                             *)
EmplacePrefixes(w) ==
  /\ AddPrefixes(w)
  /\ heap' = IF NewPrefixes(w) = {} THEN heap ELSE heap \cup {NewEntry(w)}
  /\ KeepDepths
  /\ UNCHANGED reported

\* The steps of a worker that do not touch the heap.
LocalStep(w) ==
  \/ Start(w)
  \/ ListPage(w)
  \/ ListExhausted(w)
  \/ ListRepeated(w)
  \/ ListThrows(w)
  \/ WriteObjects(w)
  \/ CountOp(w)
  \/ IsDone(w)
  \/ LoadActive(w)
  \/ CompareTarget(w)
  \/ Leave(w)

HWorker(w) ==
  \/ PopPrefix(w)
  \/ EmplacePrefixes(w)
  \/ LocalStep(w) /\ KeepDepths /\ UNCHANGED <<heap, reported>>

(* Mutant: active_workers is not looked at.                                *)
ManagerLook_QueueOnly ==
  /\ mpc = "poll"
  /\ MutexFree
  /\ \E rest \in Cleaned(heap) :
       IF total_queue_length = 0
       THEN heap' = {} /\ reported' = rest /\ mpc' = "cancelScaler"
       ELSE heap' = rest /\ UNCHANGED <<reported, mpc>>
  /\ UNCHANGED <<shared, workers, scaler, outcome, at_depth>>

(* One look of ~WorkerManager at the heap: emptied entries are popped, and *)
(* if both counters are 0 what is left is reported, popped, and the wait   *)
(* ends.                                                                   *)
ManagerLook ==
  /\ mpc = "poll"
  /\ MutexFree
  /\ \E rest \in Cleaned(heap) :
       IF total_queue_length = 0 /\ active_workers = 0
       THEN heap' = {} /\ reported' = rest /\ mpc' = "cancelScaler"
       ELSE heap' = rest /\ UNCHANGED <<reported, mpc>>
  /\ UNCHANGED <<shared, workers, scaler, outcome, at_depth>>

HManager ==
  \/ ManagerLook
  \/ (ManagerCancelScaler \/ ManagerCancelWriter \/ ManagerJoin) /\ UNCHANGED heapVars

HNext ==
  \/ \E w \in Worker : HWorker(w)
  \/ ScalerStep /\ UNCHANGED heapVars
  \/ HManager
  \/ Terminated /\ UNCHANGED heapVars

HSpec == HInit /\ [][HNext]_hvars
-----------------------------------------------------------------------------
(* The heap against the prefixes queued: an entry for each page at most,   *)
(* each prefix that waits in one entry, at the depth it was queued with,   *)
(* and every worker goes on at the depth its prefix had.                   *)
HeapBooks ==
  /\ heap \subseteq Entry
  /\ at_depth \in [Worker -> Nat]
  /\ \A e, f \in heap : e # f => e.paths \cap f.paths = {}
  /\ queue = UNION {e.paths : e \in heap}
  /\ \A e \in heap : \A p \in e.paths : depth[p] = e.depth
  /\ \A w \in Worker : job[w] # NoJob => at_depth[w] = depth[job[w].prefix]

(* "After cleanup, queue should be empty" (worker_manager.cpp:119): the    *)
(* destructor never finds an entry to report, although workers leave       *)
(* emptied entries anywhere in the heap.                                   *)
NoneLeftInHeap == reported = {}

(* The heap with its emptied entries is the queue of WorkerPool: each step *)
(* is one of the pool or none, so that what is shown of it holds here.     *)
ImplementsPool == Spec
=============================================================================
