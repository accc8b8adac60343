----------------------------- MODULE ProcessProofs -----------------------------
(***************************************************************************)
(* What TLAPS proves of what is built on WorkerPool, for every bucket,     *)
(* every number of workers and every fault: of HeapPool, that the heap     *)
(* with its emptied entries is the queue of WorkerPool, and that the       *)
(* destructor never finds an entry left in it; and of ListAllObjects, the  *)
(* composition of pool and writer.  What is known of the pool alone is     *)
(* taken from WorkerPoolProofs: neither makes a step of the pool that it   *)
(* would not make by itself.                                               *)
(***************************************************************************)
EXTENDS HeapPool, ListAllObjects, WorkerPoolProofs

HInv == Struct /\ Counters /\ HeapBooks /\ NoneLeftInHeap

(* At the start the heap has the root's entry.                             *)
LEMMA HeapInit == HInit => HInv
<1> SUFFICES ASSUME HInit PROVE HInv
  OBVIOUS
<1>1. Struct /\ Counters
  BY StructInit, CountersInit DEF HInit
<1>2. RootEntry \in Entry
  BY BucketAssumption DEF RootEntry, Entry
<1>3. HeapBooks /\ NoneLeftInHeap
  BY <1>2, BucketAssumption DEF HInit, Init, HeapBooks, NoneLeftInHeap, RootEntry
<1> QED
  BY <1>1, <1>3 DEF HInv

(* What is popped off the heap has no paths: the clean-up loses nothing,   *)
(* and if anything is left, the entry on top has a path.                   *)
LEMMA CleanedKeeps ==
  ASSUME NEW rest \in Cleaned(heap)
  PROVE  /\ rest \subseteq heap
         /\ \A e \in heap : e.paths # {} => e \in rest
         /\ UNION {e.paths : e \in rest} = UNION {e.paths : e \in heap}
         /\ rest # {} => \E t \in rest : t.paths # {}
<1>1. rest \subseteq heap /\ \A e \in heap \ rest : e.paths = {}
  BY DEF Cleaned, Emptied
<1>2. rest # {} => \E t \in rest : t.paths # {}
  BY DEF Cleaned, Emptied
<1>3. \A x : (\E e \in heap : x \in e.paths) <=> (\E e \in rest : x \in e.paths)
  BY <1>1
<1>4. UNION {e.paths : e \in rest} = UNION {e.paths : e \in heap}
  BY <1>3
<1> QED
  BY <1>1, <1>2, <1>4

(* A look that only cleans up keeps the books.                             *)
LEMMA CleanedBooks ==
  ASSUME HeapBooks, NEW rest \in Cleaned(heap), heap' = rest,
         UNCHANGED <<queue, depth, job, at_depth>>
  PROVE  HeapBooks'
BY CleanedKeeps DEF HeapBooks

(* An entry that is on top with a path yields one of the least depth.      *)
LEMMA TopOfHeap ==
  ASSUME HInv, NEW rest \in Cleaned(heap), NEW t \in rest, NEW p \in t.paths, OnTop(t, rest)
  PROVE  Top(p)
<1>1. t \in heap /\ \A e \in heap : e.paths # {} => e \in rest
  BY CleanedKeeps
<1>2. p \in queue /\ depth[p] = t.depth
  BY <1>1 DEF HInv, HeapBooks
<1>3. ASSUME NEW q \in queue PROVE depth[p] <= depth[q]
  <2>1. PICK e \in heap : q \in e.paths
    BY DEF HInv, HeapBooks
  <2>2. e \in rest /\ depth[q] = e.depth
    BY <1>1, <2>1 DEF HInv, HeapBooks
  <2> QED
    BY <1>2, <2>2 DEF OnTop
<1> QED
  BY <1>2, <1>3 DEF Top

(* Taking a path out of the entry on top keeps the books.                  *)
LEMMA TakeBooks ==
  ASSUME HInv, NEW w \in Worker, NEW rest \in Cleaned(heap), NEW t \in rest, NEW p \in t.paths,
         Take(w, t, p, rest), UNCHANGED depth
  PROVE  HeapBooks'
<1> USE DEF HInv, HeapBooks
<1> DEFINE left == [t EXCEPT !.paths = t.paths \ {p}]
<1>1. rest \subseteq heap /\ UNION {e.paths : e \in rest} = queue
  BY CleanedKeeps
<1>2. t \in Entry /\ left \in Entry /\ left.paths = t.paths \ {p} /\ left.depth = t.depth
  BY <1>1 DEF Entry
<1>3. heap' = (rest \ {t}) \cup {left} /\ queue' = queue \ {p}
  BY DEF Take
<1>4. heap' \subseteq Entry
  BY <1>1, <1>2, <1>3
<1>5. \A e, f \in heap' : e # f => e.paths \cap f.paths = {}
  <2>1. \A e \in rest \ {t} : e.paths \cap left.paths = {}
    BY <1>1, <1>2
  <2> QED
    BY <1>1, <1>3, <2>1
<1>6. queue' = UNION {e.paths : e \in heap'}
  <2>1. ASSUME NEW x \in queue' PROVE \E e \in heap' : x \in e.paths
    <3>1. PICK e \in rest : x \in e.paths
      BY <1>1, <1>3, <2>1
    <3> QED
      BY <1>2, <1>3, <3>1
  <2>2. ASSUME NEW e \in heap', NEW x \in e.paths PROVE x \in queue'
    <3>1. CASE e = left
      BY <1>1, <1>2, <1>3, <3>1
    <3>2. CASE e \in rest \ {t}
      BY <1>1, <1>3, <3>2
    <3> QED
      BY <1>3, <3>1, <3>2
  <2> QED
    BY <2>1, <2>2
<1>7. \A e \in heap' : \A x \in e.paths : depth'[x] = e.depth
  BY <1>1, <1>2, <1>3
<1>8. depth[p] = t.depth /\ t.depth \in Nat /\ p \in Prefix
  BY <1>1, <1>2 DEF Entry
<1>9. /\ at_depth' \in [Worker -> Nat]
      /\ \A v \in Worker : job'[v] # NoJob => at_depth'[v] = depth'[job'[v].prefix]
  <2>1. job \in [Worker -> Job] /\ job' = [job EXCEPT ![w] = [prefix |-> p, page |-> 1]]
        /\ at_depth' = [at_depth EXCEPT ![w] = t.depth]
    BY DEF Take, Struct, StructType
  <2> QED
    BY <1>8, <2>1
<1> QED
  BY <1>4, <1>5, <1>6, <1>7, <1>9

(* get_next_prefix takes what GetNextPrefix may take, and finds nothing    *)
(* only if nothing waits.                                                  *)
LEMMA PopIsGet ==
  ASSUME HInv, NEW w \in Worker, PopPrefix(w)
  PROVE  GetNextPrefix(w) /\ HeapBooks' /\ NoneLeftInHeap'
<1>1. PICK rest \in Cleaned(heap) :
        \/ /\ rest = {}
           /\ heap' = {}
           /\ Goto(w, "done")
           /\ UNCHANGED <<queue, total_queue_length, job, at_depth>>
        \/ \E t \in rest, p \in Prefix : OnTop(t, rest) /\ p \in t.paths /\ Take(w, t, p, rest)
  BY DEF PopPrefix
<1>2. /\ wpc[w] = "next" /\ MutexFree
      /\ UNCHANGED <<depth, total_ops, active_workers, target_workers, seen_active, scaler, mpc,
                     outcome, reported>>
  BY DEF PopPrefix
<1>3. CASE /\ rest = {}
           /\ heap' = {}
           /\ Goto(w, "done")
           /\ UNCHANGED <<queue, total_queue_length, job, at_depth>>
  <2>1. queue = {}
    BY <1>3, CleanedKeeps DEF HInv, HeapBooks
  <2>2. HeapBooks'
    BY <1>2, <1>3, CleanedBooks DEF HInv
  <2> QED
    BY <1>2, <1>3, <2>1, <2>2 DEF GetNextPrefix, HInv, NoneLeftInHeap
<1>4. CASE \E t \in rest, p \in Prefix : OnTop(t, rest) /\ p \in t.paths /\ Take(w, t, p, rest)
  <2>1. PICK t \in rest, p \in Prefix : OnTop(t, rest) /\ p \in t.paths /\ Take(w, t, p, rest)
    BY <1>4
  <2>2. Top(p)
    BY <2>1, TopOfHeap
  <2>3. HeapBooks'
    BY <1>2, <2>1, TakeBooks
  <2> QED
    BY <1>2, <2>1, <2>2, <2>3 DEF Take, GetNextPrefix, HInv, NoneLeftInHeap
<1> QED
  BY <1>1, <1>3, <1>4

(* A new entry has prefixes that were unknown, one level below their       *)
(* parent.                                                                 *)
LEMMA EmplaceBooks ==
  ASSUME HInv, NEW w \in Worker, EmplacePrefixes(w)
  PROVE  HeapBooks'
<1> USE DEF HInv, HeapBooks
<1> DEFINE New == NewPrefixes(w)
<1>1. /\ queue' = queue \cup New
      /\ depth' = [p \in Prefix |-> IF p \in New THEN depth[job[w].prefix] + 1 ELSE depth[p]]
      /\ heap' = IF New = {} THEN heap ELSE heap \cup {NewEntry(w)}
      /\ at_depth' = [v \in Worker |-> IF job'[v] = NoJob THEN 0 ELSE at_depth[v]]
  BY DEF EmplacePrefixes, AddPrefixes, KeepDepths
<1>2. /\ queue \subseteq Prefix /\ depth \in [Prefix -> Nat] /\ job \in [Worker -> Job]
  BY DEF Struct, StructType, Counters, TypeOK
<1>3. /\ New \subseteq Prefix
      /\ queue \cap New = {}
      /\ \A v \in Worker : job[v] # NoJob => job[v].prefix \notin New
      /\ New # {} => job[w] # NoJob
  <2>1. CASE wpc[w] # "add"
    BY <2>1 DEF NewPrefixes
  <2>2. CASE wpc[w] = "add"
    <3>1. New = Pages[job[w].prefix][job[w].page]
      BY <2>2 DEF NewPrefixes
    <3>2. ASSUME NEW x \in New
          PROVE  /\ x \in Prefix /\ x \notin queue /\ job[w] # NoJob
                 /\ \A v \in Worker : ~Holds(v, x)
      <4> HIDE DEF HInv
      <4>1. Struct
        BY DEF HInv
      <4> QED
        BY <2>2, <3>1, <4>1, NewAreUnknown
    <3>3. \A v \in Worker : job[v] # NoJob => job[v].prefix \notin New
      BY <3>2 DEF Holds
    <3> HIDE DEF New
    <3> QED
      BY <3>2, <3>3
  <2> QED
    BY <2>1, <2>2
<1>4. \A v \in Worker : job'[v] # NoJob => job[v] # NoJob /\ job'[v].prefix = job[v].prefix
  <2>1. \/ wpc[w] = "add" /\ job' = [job EXCEPT ![w].page = @ + 1]
        \/ job' = [job EXCEPT ![w] = NoJob]
    BY DEF EmplacePrefixes, AddPrefixes, MorePages, Drop
  <2>2. wpc[w] = "add" => job[w] # NoJob
    BY DEF Struct, Bookkeeping, JobInv, Busy
  <2>3. \A v \in Worker \ {w} : job'[v] = job[v]
    BY <1>2, <2>1
  <2>4. job'[w] # NoJob => job[w] # NoJob /\ job'[w].prefix = job[w].prefix
    BY <1>2, <2>1, <2>2 DEF Job
  <2> QED
    BY <2>3, <2>4
<1>5. /\ at_depth' \in [Worker -> Nat]
      /\ \A v \in Worker : job'[v] # NoJob => at_depth'[v] = depth'[job'[v].prefix]
  <2>1. \A v \in Worker : job[v].prefix \in Prefix
    BY <1>2 DEF Job
  <2> QED
    BY <1>1, <1>2, <1>3, <1>4, <2>1
<1>6. CASE New = {}
  <2>1. heap' = heap /\ queue' = queue /\ depth' = depth
    BY <1>1, <1>2, <1>6
  <2> QED
    BY <1>5, <2>1
<1>7. CASE New # {}
  <2> DEFINE new == NewEntry(w)
  <2>1. heap' = heap \cup {new} /\ new.paths = New /\ new.depth = at_depth[w] + 1
    BY <1>1, <1>7 DEF NewEntry
  <2>2. new \in Entry
    <3>1. Page(w) \in Prefix \X Nat /\ at_depth[w] + 1 \in Nat
      BY <1>2 DEF Page, Job
    <3> QED
      BY <1>3, <3>1 DEF NewEntry, Entry
  <2>3. \A e \in heap : e.paths \subseteq queue
    OBVIOUS
  <2>4. \A e \in heap : e.paths \cap new.paths = {}
    BY <1>3, <2>1, <2>3
  <2>5. \A e, f \in heap' : e # f => e.paths \cap f.paths = {}
    BY <2>1, <2>4
  <2>6. queue' = UNION {e.paths : e \in heap'}
    BY <1>1, <2>1
  <2>7. ASSUME NEW e \in heap', NEW x \in e.paths PROVE depth'[x] = e.depth
    <3>1. CASE e = new
      <4>1. x \in New /\ x \in Prefix /\ depth'[x] = depth[job[w].prefix] + 1
        BY <1>1, <1>3, <2>1, <2>7, <3>1
      <4> QED
        BY <1>3, <1>7, <2>1, <3>1, <4>1
    <3>2. CASE e \in heap
      <4>1. x \in queue /\ x \notin New /\ x \in Prefix /\ depth[x] = e.depth
        BY <1>2, <1>3, <2>3, <2>7, <3>2
      <4> QED
        BY <1>1, <4>1
    <3> QED
      BY <2>1, <3>1, <3>2
  <2>8. heap' \subseteq Entry
    BY <2>1, <2>2
  <2> QED
    BY <1>5, <2>5, <2>6, <2>7, <2>8
<1> QED
  BY <1>6, <1>7

(* A step of a worker that does not touch the heap: at most its prefix is  *)
(* done with.                                                              *)
LEMMA LocalBooks ==
  ASSUME HInv, NEW w \in Worker, LocalStep(w), KeepDepths, UNCHANGED <<heap, reported>>
  PROVE  HeapBooks'
<1>1. UNCHANGED <<queue, depth>> /\ (UNCHANGED job \/ job' = [job EXCEPT ![w] = NoJob])
  BY DEF LocalStep, Start, ListPage, ListExhausted, ListRepeated, ListThrows, WriteObjects, CountOp,
       IsDone, LoadActive, CompareTarget, Leave, Drop, shared
<1>2. \A v \in Worker : job'[v] # NoJob => job'[v] = job[v]
  BY <1>1 DEF HInv, Struct, StructType
<1> QED
  BY <1>1, <1>2 DEF HInv, HeapBooks, KeepDepths

(* A look of the destructor ends the wait exactly if ManagerPoll may, and  *)
(* then there is nothing left in the heap.                                 *)
LEMMA LookIsPoll ==
  ASSUME HInv, ManagerLook
  PROVE  (ManagerPoll \/ UNCHANGED vars) /\ HeapBooks' /\ NoneLeftInHeap'
<1>1. PICK rest \in Cleaned(heap) :
        IF total_queue_length = 0 /\ active_workers = 0
        THEN heap' = {} /\ reported' = rest /\ mpc' = "cancelScaler"
        ELSE heap' = rest /\ UNCHANGED <<reported, mpc>>
  BY DEF ManagerLook
<1>2. mpc = "poll" /\ MutexFree /\ UNCHANGED <<shared, workers, scaler, outcome, at_depth>>
  BY DEF ManagerLook
<1>3. UNCHANGED <<queue, depth, job, at_depth>>
  BY <1>2 DEF shared, workers
<1>4. CASE total_queue_length = 0 /\ active_workers = 0
  <2>1. queue = {}
    BY <1>4, FiniteSets, FS_EmptySet DEF HInv, Struct, Counters, QueueLengthExact
  <2>2. rest = {}
    BY <2>1, CleanedKeeps DEF HInv, HeapBooks
  <2>3. HeapBooks'
    BY <1>1, <1>3, <1>4, <2>2, CleanedBooks DEF HInv
  <2> QED
    BY <1>1, <1>2, <1>4, <2>2, <2>3 DEF ManagerPoll, NoneLeftInHeap
<1>5. CASE ~(total_queue_length = 0 /\ active_workers = 0)
  <2>1. HeapBooks'
    BY <1>1, <1>3, <1>5, CleanedBooks DEF HInv
  <2> QED
    BY <1>1, <1>2, <1>5, <2>1 DEF HInv, NoneLeftInHeap, vars
<1> QED
  BY <1>4, <1>5
-----------------------------------------------------------------------------
(* Every step is one of the pool, or none of it, and keeps the heap's      *)
(* books.                                                                  *)
LEMMA HeapStep ==
  ASSUME HInv, [HNext]_hvars
  PROVE  [Next]_vars /\ HeapBooks' /\ NoneLeftInHeap'
<1>1. ASSUME NEW w \in Worker, HWorker(w)
      PROVE  Next /\ HeapBooks' /\ NoneLeftInHeap'
  <2>1. CASE PopPrefix(w)
    BY <2>1, PopIsGet DEF Next, WorkerStep, QueueStep
  <2>2. CASE EmplacePrefixes(w)
    BY <2>2, EmplaceBooks DEF EmplacePrefixes, Next, WorkerStep, QueueStep, HInv, NoneLeftInHeap
  <2>3. CASE LocalStep(w) /\ KeepDepths /\ UNCHANGED <<heap, reported>>
    BY <2>3, LocalBooks DEF LocalStep, Next, WorkerStep, QueueStep, HInv, NoneLeftInHeap
  <2> QED
    BY <1>1, <2>1, <2>2, <2>3 DEF HWorker
<1>2. CASE ManagerLook
  BY <1>2, LookIsPoll DEF Next, ManagerStep
<1>3. CASE \/ ScalerStep /\ UNCHANGED heapVars
           \/ (ManagerCancelScaler \/ ManagerCancelWriter \/ ManagerJoin) /\ UNCHANGED heapVars
           \/ Terminated /\ UNCHANGED heapVars
           \/ UNCHANGED hvars
  <2>1. UNCHANGED <<queue, depth, job, heapVars>>
    BY <1>3 DEF ScalerStep, ScalerArm, ScalerTick, ScalerCheck, ScalerAlign, ScalerRealign,
         ScalerCalculate, ScalerRetarget, ScalerSpawn, ScalerAborted, ManagerCancelScaler,
         ManagerCancelWriter, ManagerJoin, Terminated, hvars, vars, shared, workers
  <2>2. HeapBooks' /\ NoneLeftInHeap'
    BY <2>1 DEF heapVars, HInv, HeapBooks, NoneLeftInHeap
  <2>3. [Next]_vars
    BY <1>3 DEF Next, ManagerStep, hvars
  <2> QED
    BY <2>2, <2>3
<1> QED
  BY <1>1, <1>2, <1>3 DEF HNext, HManager

LEMMA HeapInvariant == HSpec => []HInv
<1>1. HInv /\ [HNext]_hvars => HInv'
  BY HeapStep, StructNext, CountersNext DEF HInv
<1> QED
  BY HeapInit, <1>1, PTL DEF HSpec

(* Whatever entries were emptied where, the heap has the prefixes that     *)
(* wait, each once and at its depth.                                       *)
THEOREM HeapBooksAreKept == HSpec => []HeapBooks
BY HeapInvariant, PTL DEF HInv

(* The ERROR branch of the destructor is never taken.                      *)
THEOREM HeapIsEmptyAtTheEnd == HSpec => []NoneLeftInHeap
BY HeapInvariant, PTL DEF HInv

(* The pool with the heap of the code implements WorkerPool: all that is   *)
(* proved of WorkerPool holds of it.                                       *)
THEOREM HeapImplementsPool == HSpec => ImplementsPool
<1>1. HInit => Init
  BY DEF HInit
<1>2. HInv /\ [HNext]_hvars => [Next]_vars
  BY HeapStep
<1> QED
  BY <1>1, <1>2, HeapInvariant, PTL DEF HSpec, ImplementsPool, Spec
-----------------------------------------------------------------------------
\* The invariant of the pool by itself.
PoolInv == Struct /\ Counters /\ ShutdownWhenDone

(* Every step of the process is a step of the pool, or none of it.         *)
LEMMA PoolStep == [AllNext]_allVars => [Next]_vars
BY DEF AllNext, allVars, Main, StartStats, OpenOutput, Destructor, CancelWriter, Join,
     LeaveScope, JoinStats, Stats, AllWorker, WorkerWrites, AllScaler, AllWriter, Exited,
     Next, WorkerStep, ManagerStep

(* The pool keeps its books in the composition.                            *)
LEMMA PoolInvariant == AllSpec => []PoolInv
<1>1. AllInit => PoolInv
  BY StructInit, CountersInit DEF AllInit, PoolInv, Init, ShutdownWhenDone
<1>2. PoolInv /\ [AllNext]_allVars => PoolInv'
  BY PoolStep, StructNext, CountersNext, ShutdownNext DEF PoolInv
<1> QED
  BY <1>1, <1>2, PTL DEF AllSpec
-----------------------------------------------------------------------------
\* What was pushed is in one of the writer's four places, if it has any text.
AllPlaced == Out!Chunks = pushed \ NoObjects

\* The signal is the step of the main thread from "cancelWriter" to "join".
Signalled == stopping <=> mpc \in {"join", "joined"}

\* A writer that has returned was told to, and main joins no other.
Returned ==
  /\ aborted => stopping
  /\ opc = "returned" => aborted
  /\ mpc = "joined" => opc = "returned"

OutInv ==
  /\ opc \in Out!WriterPc
  /\ opc = "writing" <=> str # {}
  /\ AllPlaced
  /\ Out!OnePlace
  /\ Out!ReturnsDrained
  /\ Signalled
  /\ Returned

LEMMA OutInit == AllInit => OutInv
BY DEF AllInit, Init, Out!Init, OutInv, AllPlaced, Out!Chunks, Out!OnePlace, Out!ReturnsDrained,
     Signalled, Returned, Out!WriterPc

(* A worker that writes has a page that was never written before, and the  *)
(* writer was not told to stop.                                            *)
LEMMA FreshPage ==
  ASSUME PoolInv, OutInv, NEW w \in Worker, wpc[w] = "write"
  PROVE  /\ Page(w) \in Prefix \X Nat
         /\ Page(w) \notin pushed
         /\ ~stopping
<1>1. job[w] \in Job /\ job[w] # NoJob /\ job[w].page \in DOMAIN Pages[job[w].prefix]
  BY DEF PoolInv, Struct, StructType, Bookkeeping, JobInv, Busy
<1>2. Page(w) \notin pushed
  BY <1>1 DEF PoolInv, Struct, StructType, Bookkeeping, PushedInv, PagesOf, Page, Job
<1>3. ~stopping
  BY DEF PoolInv, ShutdownWhenDone, OutInv, Signalled, Busy
<1> QED
  BY <1>1, <1>2, <1>3 DEF Page, Job

(* The steps of the writer move a chunk from one place to the next.        *)
LEMMA WriterOut ==
  ASSUME OutInv, Out!Writer, UNCHANGED vars
  PROVE  OutInv'
<1>1. /\ opc' \in Out!WriterPc
      /\ opc' = "writing" <=> str' # {}
      /\ Out!Chunks' = Out!Chunks
      /\ Out!OnePlace'
      /\ Out!ReturnsDrained'
  <2>1. CASE Out!Pop
    BY <2>1 DEF OutInv, Out!Pop, Out!Chunks, Out!OnePlace, Out!ReturnsDrained, Out!WriterPc
  <2>2. CASE Out!WriteOk \/ Out!WriteError
    BY <2>2 DEF OutInv, Out!WriteOk, Out!WriteError, Out!Chunks, Out!OnePlace,
         Out!ReturnsDrained, Out!WriterPc
  <2>3. CASE Out!Arm \/ Out!Expire \/ Out!Drained
    BY <2>3 DEF OutInv, Out!Arm, Out!Expire, Out!Drained, Out!Chunks, Out!OnePlace,
         Out!ReturnsDrained, Out!WriterPc
  <2> QED
    BY <2>1, <2>2, <2>3 DEF Out!Writer
<1>2. UNCHANGED <<pushed, mpc, stopping, aborted>>
  BY DEF vars, outcome, Out!Writer, Out!Arm, Out!Expire, Out!Pop, Out!WriteOk, Out!WriteError,
       Out!Drained
<1>3. Returned'
  BY <1>2 DEF OutInv, Returned, Out!Writer, Out!Arm, Out!Expire, Out!Pop, Out!WriteOk,
       Out!WriteError, Out!Drained
<1> QED
  BY <1>1, <1>2, <1>3 DEF OutInv, AllPlaced, Signalled

(* A push puts a new chunk on the stack of a writer that has not returned. *)
LEMMA PushOut ==
  ASSUME PoolInv, OutInv, NEW w \in Worker, WorkerWrites(w)
  PROVE  OutInv'
<1>1. wpc[w] = "write" /\ pushed' = pushed \cup {Page(w)} /\ UNCHANGED mpc
  BY DEF WorkerWrites, WriteObjects
<1>2. Page(w) \notin pushed /\ ~stopping
  BY <1>1, FreshPage
<1>3. opc # "returned"
  BY <1>2 DEF OutInv, Returned
<1>4. CASE Page(w) \in NoObjects
  BY <1>1, <1>4 DEF WorkerWrites, output, OutInv, AllPlaced, Out!Chunks, Out!OnePlace,
       Out!ReturnsDrained, Signalled, Returned
<1>5. CASE Page(w) \notin NoObjects
  <2>1. Out!Push(Page(w)) /\ Page(w) \notin Out!Chunks
    BY <1>2, <1>5 DEF WorkerWrites, OutInv, AllPlaced
  <2> QED
    BY <1>1, <1>3, <1>5, <2>1 DEF Out!Push, OutInv, AllPlaced, Out!Chunks, Out!OnePlace,
         Out!ReturnsDrained, Signalled, Returned
<1> QED
  BY <1>4, <1>5

(* The destructor stops the writer once, and joins it when it is gone.     *)
LEMMA DestructorOut ==
  ASSUME PoolInv, OutInv, Destructor
  PROVE  OutInv'
<1>1. UNCHANGED pushed
  BY DEF Destructor, CancelWriter, Join, ManagerPoll, ManagerCancelScaler, ManagerCancelWriter,
       ManagerJoin, outcome
<1>2. CASE CancelWriter
  <2>1. mpc = "cancelWriter" /\ mpc' = "join"
    BY <1>2 DEF CancelWriter, ManagerCancelWriter
  <2>2. Out!Emit
    BY <1>2 DEF CancelWriter
  <2> QED
    BY <1>1, <2>1, <2>2 DEF Out!Emit, OutInv, AllPlaced, Out!Chunks, Out!OnePlace, Out!ReturnsDrained,
         Signalled, Returned, Out!WriterPc
<1>3. CASE ~CancelWriter
  <2>1. UNCHANGED output
    BY <1>3 DEF Destructor, Join
  <2>2. \/ mpc \in {"poll", "cancelScaler"} /\ mpc' \in {"cancelScaler", "cancelWriter"}
        \/ mpc = "join" /\ mpc' = "joined" /\ opc = "returned"
    BY <1>3 DEF Destructor, Join, ManagerPoll, ManagerCancelScaler, ManagerJoin
  <2> QED
    BY <1>1, <2>1, <2>2 DEF output, OutInv, AllPlaced, Out!Chunks, Out!OnePlace, Out!ReturnsDrained,
         Signalled, Returned
<1> QED
  BY <1>2, <1>3

(* Only the worker's push, the destructor and the writer touch the output. *)
LEMMA OutNext ==
  ASSUME PoolInv, OutInv, [AllNext]_allVars
  PROVE  OutInv'
<1>1. ASSUME NEW w \in Worker, AllWorker(w)
      PROVE  OutInv'
  <2>1. CASE WorkerWrites(w)
    BY <2>1, PushOut
  <2>2. CASE QueueStep(w) /\ UNCHANGED output
    <3>1. UNCHANGED <<pushed, mpc>>
      BY <2>2 DEF QueueStep, Start, GetNextPrefix, ListPage, ListExhausted, ListRepeated, ListThrows,
           AddPrefixes, CountOp, IsDone, LoadActive, CompareTarget, Leave, outcome
    <3> QED
      BY <2>2, <3>1 DEF output, OutInv, AllPlaced, Out!Chunks, Out!OnePlace, Out!ReturnsDrained,
           Signalled, Returned
  <2> QED
    BY <1>1, <2>1, <2>2 DEF AllWorker
<1>2. CASE AllScaler
  <2>1. UNCHANGED <<pushed, mpc, output>>
    BY <1>2 DEF AllScaler, ScalerStep, ScalerArm, ScalerTick, ScalerCheck, ScalerAlign,
         ScalerRealign, ScalerCalculate, ScalerRetarget, ScalerSpawn, ScalerAborted, outcome
  <2> QED
    BY <2>1 DEF output, OutInv, AllPlaced, Out!Chunks, Out!OnePlace, Out!ReturnsDrained,
         Signalled, Returned
<1>3. CASE StartStats \/ OpenOutput \/ LeaveScope \/ JoinStats \/ Stats \/ Exited \/ UNCHANGED allVars
  <2>1. UNCHANGED <<pushed, mpc, output>>
    BY <1>3 DEF StartStats, OpenOutput, LeaveScope, JoinStats, Stats, Exited, allVars, vars, outcome
  <2> QED
    BY <2>1 DEF output, OutInv, AllPlaced, Out!Chunks, Out!OnePlace, Out!ReturnsDrained,
         Signalled, Returned
<1>4. CASE AllWriter
  BY <1>4, WriterOut DEF AllWriter
<1> QED
  BY <1>1, <1>2, <1>3, <1>4, DestructorOut DEF AllNext, Main

LEMMA AllInvariant == AllSpec => [](PoolInv /\ OutInv)
<1>1. PoolInv /\ OutInv /\ [AllNext]_allVars => OutInv'
  BY OutNext
<1> QED
  BY OutInit, <1>1, PoolInvariant, PTL DEF AllSpec
-----------------------------------------------------------------------------
(* No page is in the output file twice, or in it and reported as failed,   *)
(* for every bucket: the pool pushes a page once, the writer keeps it.     *)
THEOREM OnePlaceEach == AllSpec => []PagesInOnePlace
BY AllInvariant, PTL DEF OutInv, PagesInOnePlace

(* The writer does not return while there is text left to write.           *)
THEOREM ReturnsWithNothingLeft == AllSpec => []WriterReturnsDrained
BY AllInvariant, PTL DEF OutInv, WriterReturnsDrained

(* After the signal to the writer no worker is left that could push.       *)
THEOREM NothingAfterSignal == AllSpec => NoPushAfterSignal
<1>1. PoolInv /\ OutInv /\ [AllNext]_allVars => [stopping => UNCHANGED pushed]_allVars
  <2> SUFFICES ASSUME PoolInv, OutInv, AllNext, stopping
               PROVE  UNCHANGED pushed
    OBVIOUS
  <2>1. \A w \in Worker : ~WorkerWrites(w)
    BY FreshPage DEF WorkerWrites, WriteObjects
  <2>2. ASSUME NEW w \in Worker, QueueStep(w)
        PROVE  UNCHANGED pushed
    BY <2>2 DEF QueueStep, Start, GetNextPrefix, ListPage, ListExhausted, ListRepeated, ListThrows,
         AddPrefixes, CountOp, IsDone, LoadActive, CompareTarget, Leave, outcome
  <2>3. ASSUME ScalerStep
        PROVE  UNCHANGED pushed
    BY <2>3 DEF ScalerStep, ScalerArm, ScalerTick, ScalerCheck, ScalerAlign, ScalerRealign,
         ScalerCalculate, ScalerRetarget, ScalerSpawn, ScalerAborted, outcome
  <2>4. ASSUME Main \/ Stats \/ AllWriter \/ Exited
        PROVE  UNCHANGED pushed
    BY <2>4 DEF Main, StartStats, OpenOutput, LeaveScope, JoinStats, Destructor, CancelWriter, Join,
         ManagerPoll, ManagerCancelScaler, ManagerCancelWriter, ManagerJoin, Stats, AllWriter, Exited,
         allVars, vars, outcome
  <2> QED
    BY <2>1, <2>2, <2>3, <2>4 DEF AllNext, AllWorker, AllScaler
<1> QED
  BY <1>1, AllInvariant, PTL DEF AllSpec, NoPushAfterSignal

(* When main exits after a listing the file has every page of every prefix *)
(* that was named, but for those that were reported or whose worker ended  *)
(* by an exception: what the pool has pushed the writer has dealt with.    *)
THEOREM OutputIsComplete == AllSpec => []OutputComplete
<1>1. PoolInv /\ OutInv /\ CompleteListing => OutputComplete
  <2> SUFFICES ASSUME PoolInv, OutInv, CompleteListing, mpc = "joined", NEW p \in Known,
                      ~Excused(p)
               PROVE  InOutput(p)
    BY DEF OutputComplete
  <2>1. Written(p)
    BY DEF CompleteListing, Excused
  <2>2. pushed \ NoObjects = written \cup failed
    BY DEF OutInv, AllPlaced, Out!Chunks, Out!ReturnsDrained, Returned
  <2> QED
    BY <2>1, <2>2 DEF Written, InOutput, Excused
<1>2. AllSpec => Spec
  <2>1. AllInit => Init
    BY DEF AllInit
  <2> QED
    BY <2>1, PoolStep, PTL DEF AllSpec, Spec
<1> QED
  BY <1>1, <1>2, AllInvariant, ListingComplete, PTL

(* The composition implements OutputWriter: the workers push every chunk   *)
(* once and the main thread signals only when nothing more will come.      *)
THEOREM WriterIsUsedAsAssumed == AllSpec => Out!Spec
<1>1. AllInit => Out!Init
  BY DEF AllInit
<1>2. PoolInv /\ OutInv /\ [AllNext]_allVars => [Out!Next]_output
  <2> SUFFICES ASSUME PoolInv, OutInv, AllNext
               PROVE  Out!Next \/ UNCHANGED output
    BY DEF allVars
  <2>1. ASSUME NEW w \in Worker, WorkerWrites(w), Page(w) \notin NoObjects
        PROVE  Out!Next
    <3>1. Page(w) \in Prefix \X Nat /\ Page(w) \notin pushed /\ ~stopping
      BY <2>1, FreshPage DEF WorkerWrites, WriteObjects
    <3>2. Out!Push(Page(w)) /\ Page(w) \notin Out!Chunks
      BY <2>1, <3>1 DEF WorkerWrites, OutInv, AllPlaced
    <3> QED
      BY <3>1, <3>2 DEF Out!Next
  <2>2. ASSUME NEW w \in Worker, WorkerWrites(w), Page(w) \in NoObjects
        PROVE  UNCHANGED output
    BY <2>2 DEF WorkerWrites
  <2>3. CASE Destructor
    BY <2>3 DEF Destructor, CancelWriter, Join, Out!Next
  <2>4. CASE AllWriter
    BY <2>4 DEF AllWriter, Out!Next
  <2>5. CASE StartStats \/ OpenOutput \/ LeaveScope \/ JoinStats \/ Stats \/ AllScaler \/ Exited
    BY <2>5 DEF StartStats, OpenOutput, LeaveScope, JoinStats, Stats, AllScaler, Exited, allVars
  <2> QED
    BY <2>1, <2>2, <2>3, <2>4, <2>5 DEF AllNext, Main, AllWorker
<1> QED
  BY <1>1, <1>2, AllInvariant, PTL DEF AllSpec, Out!Spec, Out!vars, output
=============================================================================
