--------------------------- MODULE WorkerPoolProofs ---------------------------
(***************************************************************************)
(* What TLAPS proves of WorkerPool, for every bucket, every number of      *)
(* workers and every scaling configuration.                                *)
(***************************************************************************)
EXTENDS WorkerPool, NaturalLemmas, TLAPS, FiniteSetTheorems

USE DEF NoJob, Holds

\* The types of the variables that Bookkeeping is about.
StructType ==
  /\ queue \subseteq Prefix
  /\ wpc \in [Worker -> WorkerPc]
  /\ job \in [Worker -> Job]
  /\ pushed \subseteq Prefix \X Nat
  /\ given_up \subseteq Prefix
  /\ crashed \subseteq Prefix

(* A page of the bucket names prefixes, never the root.                    *)
LEMMA PageNames ==
  ASSUME NEW p \in Prefix, NEW i \in DOMAIN Pages[p]
  PROVE  /\ DOMAIN Pages[p] = 1..Len(Pages[p])
         /\ Len(Pages[p]) \in Nat
         /\ i \in Nat /\ i >= 1
         /\ Pages[p][i] \subseteq Prefix
         /\ Root \notin Pages[p][i]
<1>1. Pages[p] \in Seq(SUBSET Prefix)
  BY BucketAssumption
<1> QED
  BY <1>1, BucketAssumption

(* Every prefix has a first page.                                          *)
LEMMA FirstPage ==
  ASSUME NEW p \in Prefix
  PROVE  DOMAIN Pages[p] = 1..Len(Pages[p]) /\ Len(Pages[p]) \in Nat /\ 1 \in DOMAIN Pages[p]
<1>1. Pages[p] \in Seq(SUBSET Prefix) /\ Len(Pages[p]) >= 1
  BY BucketAssumption
<1> QED
  BY <1>1

(* A prefix is named by one page of the bucket.                            *)
LEMMA NamedOnce ==
  ASSUME NEW p \in Prefix, NEW i \in DOMAIN Pages[p],
         NEW q \in Prefix, NEW j \in DOMAIN Pages[q],
         NEW x, x \in Pages[p][i], x \in Pages[q][j]
  PROVE  p = q /\ i = j
BY BucketAssumption
-----------------------------------------------------------------------------
(* Bookkeeping and the types it needs.                                     *)
Struct == StructType /\ Bookkeeping

(* At the start the root waits and nobody holds a prefix.                  *)
LEMMA StructInit == Init => Struct
<1> SUFFICES ASSUME Init PROVE Struct
  OBVIOUS
<1> USE DEF Init
<1>1. StructType
  BY BucketAssumption DEF StructType, WorkerPc, Job
<1>2. JobInv /\ OneOwner /\ PushedInv
  BY DEF JobInv, OneOwner, PushedInv, Busy
<1>3. NamedInv
  BY DEF NamedInv, Named
<1>4. Accounted
  BY DEF Accounted, Named, Entered
<1> QED
  BY <1>1, <1>2, <1>3, <1>4 DEF Struct, Bookkeeping

(* A step that moves no prefix and enters no page keeps the books.         *)
LEMMA QuietStep ==
  ASSUME Struct,
         UNCHANGED <<queue, job, pushed>>,
         given_up \subseteq given_up', given_up' \subseteq Prefix,
         crashed \subseteq crashed', crashed' \subseteq Prefix,
         wpc' \in [Worker -> WorkerPc],
         \A w \in Worker : wpc'[w] = "add" <=> wpc[w] = "add",
         \A w \in Worker : wpc'[w] \in Busy \ {"count"} => job[w] # NoJob,
         \A w \in Worker : job[w] # NoJob => wpc'[w] \in Busy,
         \A w \in Worker : wpc'[w] = "empty" => job[w].prefix \in given_up'
  PROVE  Struct'
<1> USE DEF Struct, Bookkeeping
<1>1. StructType'
  BY DEF StructType
<1>2. Entered' = Entered
  BY DEF Entered, Page
<1>3. \A p : Named(p)' <=> Named(p)
  BY <1>2 DEF Named
<1>4. JobInv'
  BY DEF JobInv
<1>5. OneOwner'
  BY DEF OneOwner
<1>6. NamedInv'
  BY <1>3 DEF NamedInv
<1>7. PushedInv'
  <2>1. \A w \in Worker : PagesOf(w)' = PagesOf(w)
    BY DEF PagesOf
  <2> QED
    BY <2>1 DEF PushedInv
<1>8. Accounted'
  BY <1>3 DEF Accounted, Written
<1> QED
  BY <1>1, <1>4, <1>5, <1>6, <1>7, <1>8

(* get_next_prefix hands a prefix of the queue to a worker.                *)
LEMMA TakeStep ==
  ASSUME Struct, NEW w \in Worker, GetNextPrefix(w)
  PROVE  Struct'
<1> USE DEF Struct, Bookkeeping
<1>1. CASE queue = {} /\ Goto(w, "done") /\ UNCHANGED <<queue, total_queue_length, job>>
  <2>1. /\ UNCHANGED <<queue, job, pushed, given_up, crashed>>
        /\ wpc[w] = "next" /\ wpc' = [wpc EXCEPT ![w] = "done"]
    BY <1>1 DEF GetNextPrefix, Goto, outcome
  <2>2. wpc' \in [Worker -> WorkerPc]
    BY <2>1 DEF StructType, WorkerPc
  <2>3. job[w] = NoJob
    BY <2>1 DEF JobInv, Busy
  <2> QED
    BY <2>1, <2>2, <2>3, QuietStep DEF StructType, JobInv, Busy
<1>2. CASE ~(queue = {} /\ Goto(w, "done") /\ UNCHANGED <<queue, total_queue_length, job>>)
  <2>1. PICK p \in Prefix : /\ p \in queue
                           /\ queue' = queue \ {p}
                           /\ job' = [job EXCEPT ![w] = [prefix |-> p, page |-> 1]]
                           /\ wpc' = [wpc EXCEPT ![w] = "list"]
    BY <1>2 DEF GetNextPrefix, Goto, Top
  <2>2. wpc[w] = "next" /\ UNCHANGED <<pushed, given_up, crashed>>
    BY DEF GetNextPrefix, outcome
  <2>3. job[w] = NoJob
    BY <2>2 DEF JobInv, Busy
  <2>4. StructType'
    BY <2>1, <2>2 DEF StructType, WorkerPc, Job
  <2>5. Entered' = Entered
    BY <2>1, <2>2 DEF Entered, Page, StructType
  <2>6. \A x : Named(x)' <=> Named(x)
    BY <2>5 DEF Named
  <2>7. JobInv'
    BY <2>1, <2>2, FirstPage DEF JobInv, StructType, Busy, Job
  <2>8. OneOwner'
    BY <2>1, <2>2, <2>3 DEF OneOwner, StructType, Job
  <2>9. NamedInv'
    BY <2>1, <2>2, <2>6 DEF NamedInv, StructType, Job
  <2>10. PushedInv'
    <3>1. \A pg \in pushed' : pg[2] \in DOMAIN Pages[pg[1]]
      BY <2>2 DEF PushedInv
    <3>2. ASSUME NEW v \in Worker, job'[v] # NoJob, NEW i \in DOMAIN Pages[job'[v].prefix]
          PROVE  <<job'[v].prefix, i>> \in pushed' <=> i \in PagesOf(v)'
      <4>1. CASE v = w
        <5>1. job'[v].prefix = p /\ PagesOf(v)' = {}
          BY <4>1, <2>1 DEF PagesOf, StructType
        <5> QED
          BY <5>1, <3>2, <2>1, <2>2 DEF PushedInv
      <4>2. CASE v # w
        <5>1. job'[v] = job[v] /\ PagesOf(v)' = PagesOf(v)
          BY <4>2, <2>1 DEF PagesOf, StructType
        <5> QED
          BY <5>1, <3>2, <2>2 DEF PushedInv
      <4> QED
        BY <4>1, <4>2
    <3>3. \A q \in queue' : \A i \in DOMAIN Pages[q] : <<q, i>> \notin pushed'
      BY <2>1, <2>2 DEF PushedInv
    <3> QED
      BY <3>1, <3>2, <3>3 DEF PushedInv
  <2>11. Accounted'
    <3> SUFFICES ASSUME NEW q \in Prefix, Named(q)'
                 PROVE  \/ q \in queue'
                        \/ \E v \in Worker : job'[v] # NoJob /\ job'[v].prefix = q
                        \/ Written(q)'
                        \/ q \in given_up' \cup crashed'
      BY DEF Accounted
    <3>1. CASE q = p
      <4>1. job'[w] # NoJob /\ job'[w].prefix = q
        BY <3>1, <2>1 DEF StructType
      <4> QED
        BY <4>1
    <3>2. CASE q # p
      <4>1. \A v \in Worker : job[v] # NoJob => job'[v] = job[v]
        BY <2>1, <2>3 DEF StructType
      <4> QED
        BY <3>2, <4>1, <2>1, <2>2, <2>6 DEF Accounted, Written
    <3> QED
      BY <3>1, <3>2
  <2> QED
    BY <2>4, <2>7, <2>8, <2>9, <2>10, <2>11
<1> QED
  BY <1>1, <1>2

(* A prefix leaves the hands of its worker, reported or crashed.           *)
LEMMA LoseStep ==
  ASSUME Struct, NEW w \in Worker,
         wpc[w] \in {"list", "empty"},
         Drop(w),
         UNCHANGED <<queue, pushed>>,
         given_up \subseteq given_up', given_up' \subseteq Prefix,
         crashed \subseteq crashed', crashed' \subseteq Prefix,
         job[w].prefix \in given_up' \cup crashed',
         NEW to \in {"done", "exit", "count"}, Goto(w, to)
  PROVE  Struct'
<1> USE DEF Struct, Bookkeeping, Drop, Goto
<1>1. StructType'
  BY BucketAssumption DEF StructType, WorkerPc, Job
<1>2. \A v \in Worker \ {w} : job'[v] = job[v] /\ wpc'[v] = wpc[v]
  BY DEF StructType
<1>3. job'[w] = NoJob /\ wpc'[w] \notin Busy \ {"count"} /\ wpc'[w] # "add"
  BY DEF StructType, Busy
<1>4. Entered' = Entered
  BY <1>2, <1>3 DEF Entered, Page
<1>5. \A x : Named(x)' <=> Named(x)
  BY <1>4 DEF Named
<1>6. JobInv'
  BY <1>2, <1>3 DEF JobInv, Busy
<1>7. OneOwner'
  BY <1>2, <1>3 DEF OneOwner
<1>8. NamedInv'
  BY <1>2, <1>3, <1>5 DEF NamedInv
<1>9. PushedInv'
  <2>1. \A v \in Worker \ {w} : PagesOf(v)' = PagesOf(v)
    BY <1>2 DEF PagesOf
  <2> QED
    BY <2>1, <1>2, <1>3 DEF PushedInv
<1>10. Accounted'
  BY <1>2, <1>5 DEF Accounted, Written
<1> QED
  BY <1>1, <1>6, <1>7, <1>8, <1>9, <1>10

(* write_objects: the page is written that the worker is at.               *)
LEMMA WriteStep ==
  ASSUME Struct, NEW w \in Worker, WriteObjects(w)
  PROVE  Struct' /\ Page(w) \notin pushed /\ Entered' = Entered
<1> USE DEF Struct, Bookkeeping
<1> DEFINE p == job[w].prefix
           k == job[w].page
<1>1. /\ wpc[w] = "write"
      /\ wpc' = [wpc EXCEPT ![w] = "add"]
      /\ pushed' = pushed \cup {<<p, k>>}
      /\ UNCHANGED <<queue, job, given_up, crashed>>
  BY DEF WriteObjects, Goto, Page, shared
<1>2. job[w] # NoJob /\ p \in Prefix /\ k \in DOMAIN Pages[p] /\ k \in Nat
  BY <1>1 DEF JobInv, Busy, StructType, Job
<1>3. <<p, k>> \notin pushed
  BY <1>1, <1>2 DEF PushedInv, PagesOf
<1>4. StructType'
  BY <1>1, <1>2 DEF StructType, WorkerPc
<1>5. Entered' = Entered
  <2>1. {Page(v) : v \in {u \in Worker : wpc[u] = "add"}}' =
          {Page(v) : v \in {u \in Worker : wpc[u] = "add"}} \cup {<<p, k>>}
    BY <1>1 DEF Page, StructType
  <2> QED
    BY <2>1, <1>1, <1>3 DEF Entered
<1>6. \A x : Named(x)' <=> Named(x)
  BY <1>5 DEF Named
<1>7. JobInv'
  BY <1>1 DEF JobInv, StructType, Busy
<1>8. OneOwner'
  BY <1>1 DEF OneOwner
<1>9. NamedInv'
  BY <1>1, <1>2, <1>6 DEF NamedInv
<1>10. PushedInv'
  <2>1. \A pg \in pushed' : pg[2] \in DOMAIN Pages[pg[1]]
    BY <1>1, <1>2 DEF PushedInv
  <2>2. ASSUME NEW v \in Worker, job[v] # NoJob, NEW i \in DOMAIN Pages[job[v].prefix]
        PROVE  <<job[v].prefix, i>> \in pushed' <=> i \in PagesOf(v)'
    <3>1. job[v].prefix \in Prefix /\ i \in Nat /\ i >= 1 /\ job[v].page \in Nat
      BY <2>2, PageNames DEF StructType, Job
    <3>2. CASE v = w
      <4>1. PagesOf(v)' = 1..k /\ PagesOf(v) = 1..(k - 1)
        BY <3>2, <1>1 DEF PagesOf, StructType
      <4> QED
        BY <4>1, <3>1, <3>2, <2>2, <1>1, <1>2 DEF PushedInv
    <3>3. CASE v # w
      <4>1. PagesOf(v)' = PagesOf(v)
        BY <3>3, <1>1 DEF PagesOf, StructType
      <4>2. job[v].prefix # p
        BY <3>3, <2>2, <1>2 DEF OneOwner
      <4> QED
        BY <4>1, <4>2, <2>2, <1>1 DEF PushedInv
    <3> QED
      BY <3>2, <3>3
  <2>3. \A q \in queue : \A i \in DOMAIN Pages[q] : <<q, i>> \notin pushed'
    BY <1>1, <1>2 DEF PushedInv, OneOwner
  <2> QED
    BY <2>1, <2>2, <2>3, <1>1 DEF PushedInv
<1>11. Accounted'
  BY <1>1, <1>6 DEF Accounted, Written
<1> QED
  BY <1>3, <1>4, <1>5, <1>7, <1>8, <1>9, <1>10, <1>11 DEF Page

(* The page a worker is at is entered: the prefixes it names were not      *)
(* known before.                                                           *)
LEMMA NewAreUnknown ==
  ASSUME Struct, NEW w \in Worker, wpc[w] = "add", NEW x \in Pages[job[w].prefix][job[w].page]
  PROVE  /\ job[w] # NoJob /\ job[w].prefix \in Prefix
         /\ job[w].page \in DOMAIN Pages[job[w].prefix]
         /\ x \in Prefix /\ x # Root /\ ~Named(x)
         /\ x \notin queue
         /\ \A v \in Worker : ~Holds(v, x)
         /\ \A i : <<x, i>> \notin pushed
<1> USE DEF Struct, Bookkeeping
<1>1. /\ job[w] # NoJob /\ job[w].prefix \in Prefix
      /\ job[w].page \in DOMAIN Pages[job[w].prefix]
  BY DEF JobInv, Busy, StructType, Job
<1>2. x \in Prefix /\ x # Root
  BY <1>1, PageNames
<1>3. ~Named(x)
  <2> SUFFICES ASSUME NEW pg \in Entered, x \in Pages[pg[1]][pg[2]] PROVE FALSE
    BY <1>2 DEF Named
  <2>1. pg \in pushed /\ pg # Page(w)
    BY DEF Entered
  <2>2. pg[1] \in Prefix /\ pg[2] \in DOMAIN Pages[pg[1]] /\ pg = <<pg[1], pg[2]>>
    BY <2>1 DEF PushedInv, StructType
  <2>3. pg[1] = job[w].prefix /\ pg[2] = job[w].page
    BY <2>2, <1>1, NamedOnce
  <2> QED
    BY <2>1, <2>2, <2>3 DEF Page
<1>4. x \notin queue /\ \A v \in Worker : ~Holds(v, x)
  BY <1>3 DEF NamedInv
<1>5. \A i : <<x, i>> \notin pushed
  BY <1>3 DEF NamedInv
<1> QED
  BY <1>1, <1>2, <1>3, <1>4, <1>5

(* The critical section of process_prefix, after a page was written.       *)
LEMMA EnterStep ==
  ASSUME Struct, NEW w \in Worker, AddPrefixes(w), wpc[w] = "add"
  PROVE  Struct' /\ Entered' = Entered \cup {Page(w)}
<1> USE DEF Struct, Bookkeeping
<1> DEFINE p == job[w].prefix
           k == job[w].page
           New == Pages[p][k]
<1>1. /\ queue' = queue \cup New
      /\ wpc' = [wpc EXCEPT ![w] = "count"]
      /\ UNCHANGED <<pushed, given_up, crashed>>
  BY DEF AddPrefixes, NewPrefixes, Goto, outcome
<1>2. /\ job[w] # NoJob /\ p \in Prefix /\ k \in DOMAIN Pages[p]
      /\ k \in Nat /\ k >= 1 /\ Len(Pages[p]) \in Nat
      /\ DOMAIN Pages[p] = 1..Len(Pages[p])
      /\ New \subseteq Prefix
  <2>1. job[w] # NoJob /\ p \in Prefix /\ k \in DOMAIN Pages[p]
    BY DEF JobInv, Busy, StructType, Job
  <2> QED
    BY <2>1, PageNames
<1>3. \/ k < Len(Pages[p]) /\ job' = [job EXCEPT ![w].page = k + 1]
      \/ k = Len(Pages[p]) /\ job' = [job EXCEPT ![w] = NoJob]
  BY <1>2 DEF AddPrefixes, MorePages, Drop, StructType
<1>4. \A v \in Worker \ {w} : job'[v] = job[v] /\ wpc'[v] = wpc[v]
  BY <1>1, <1>3 DEF StructType
<1>5. /\ wpc'[w] = "count"
      /\ \/ k < Len(Pages[p]) /\ job'[w] = [prefix |-> p, page |-> k + 1]
         \/ k = Len(Pages[p]) /\ job'[w] = NoJob
  BY <1>1, <1>3 DEF StructType, Job
<1>6. StructType'
  <2>1. ASSUME NEW v \in Worker PROVE job'[v] \in Job
    <3>1. CASE v = w
      BY <3>1, <1>2, <1>5, BucketAssumption DEF Job
    <3>2. CASE v # w
      BY <3>2, <1>4 DEF StructType
    <3> QED
      BY <3>1, <3>2
  <2>2. job' \in [Worker -> Job]
    BY <2>1, <1>3 DEF StructType
  <2> QED
    BY <2>2, <1>1, <1>2 DEF StructType, WorkerPc
<1>7. Entered' = Entered \cup {Page(w)}
  <2>1. Page(w) \in pushed
    BY <1>2 DEF PushedInv, PagesOf, Page
  <2>2. \A v \in Worker \ {w} : wpc[v] = "add" => Page(v) # Page(w) /\ Page(v)' = Page(v)
    BY <1>2, <1>4 DEF OneOwner, JobInv, Busy, Page
  <2> QED
    BY <2>1, <2>2, <1>1, <1>4, <1>5 DEF Entered
<1>8. \A x : Named(x)' <=> Named(x) \/ x \in New
  <2>1. Page(w)[1] = p /\ Page(w)[2] = k
    BY DEF Page
  <2>2. ASSUME NEW x, Named(x)' PROVE Named(x) \/ x \in New
    BY <2>1, <2>2, <1>7 DEF Named
  <2>3. ASSUME NEW x, Named(x) \/ x \in New PROVE Named(x)'
    BY <2>1, <2>3, <1>7 DEF Named
  <2> QED
    BY <2>2, <2>3
<1>9. \A x \in New : /\ x \in Prefix /\ ~Named(x) /\ x \notin queue
                     /\ \A v \in Worker : ~Holds(v, x)
                     /\ \A i : <<x, i>> \notin pushed
  BY NewAreUnknown
<1>10. \A v \in Worker : \A x : Holds(v, x)' => Holds(v, x)
  BY <1>2, <1>4, <1>5
<1>11. JobInv'
  BY <1>1, <1>2, <1>4, <1>5 DEF JobInv, Busy
<1>12. OneOwner'
  BY <1>1, <1>9, <1>10 DEF OneOwner
<1>13. NamedInv'
  BY <1>1, <1>8, <1>10 DEF NamedInv, StructType
<1>14. PushedInv'
  <2>1. ASSUME NEW v \in Worker, job'[v] # NoJob, NEW i \in DOMAIN Pages[job'[v].prefix]
        PROVE  <<job'[v].prefix, i>> \in pushed' <=> i \in PagesOf(v)'
    <3>1. CASE v = w
      <4>1. job'[v].prefix = p /\ PagesOf(v)' = 1..k /\ PagesOf(v) = 1..k
        BY <3>1, <2>1, <1>2, <1>5 DEF PagesOf
      <4> QED
        BY <4>1, <3>1, <2>1, <1>1, <1>2 DEF PushedInv
    <3>2. CASE v # w
      <4>1. job'[v] = job[v] /\ PagesOf(v)' = PagesOf(v)
        BY <3>2, <1>4 DEF PagesOf
      <4> QED
        BY <4>1, <2>1, <1>1 DEF PushedInv
    <3> QED
      BY <3>1, <3>2
  <2>2. \A q \in queue' : \A i \in DOMAIN Pages[q] : <<q, i>> \notin pushed'
    BY <1>1, <1>9 DEF PushedInv
  <2> QED
    BY <2>1, <2>2, <1>1 DEF PushedInv
<1>15. Accounted'
  <2> SUFFICES ASSUME NEW q \in Prefix, Named(q)', q \notin queue',
                      \A v \in Worker : ~Holds(v, q)'
               PROVE  Written(q)' \/ q \in given_up' \cup crashed'
    BY DEF Accounted
  <2>1. Named(q) /\ q \notin queue
    BY <1>1, <1>8
  <2>2. CASE q = p
    <3>1. k = Len(Pages[p])
      BY <2>2, <1>2, <1>5
    <3>2. \A i \in DOMAIN Pages[p] : <<p, i>> \in pushed
      BY <3>1, <1>2 DEF PushedInv, PagesOf
    <3> QED
      BY <3>2, <2>2, <1>1 DEF Written
  <2>3. CASE q # p
    <3>1. \A v \in Worker : ~Holds(v, q)
      BY <2>3, <1>4
    <3> QED
      BY <3>1, <2>1, <1>1 DEF Accounted, Written
  <2> QED
    BY <2>2, <2>3
<1> QED
  BY <1>6, <1>7, <1>11, <1>12, <1>13, <1>14, <1>15

(* A worker moves on without touching queue, books or reports.             *)
LEMMA MoveStep ==
  ASSUME Struct, NEW w \in Worker,
         NEW to \in WorkerPc \ {"add", "empty"}, Goto(w, to),
         UNCHANGED <<queue, job, pushed, given_up, crashed>>,
         wpc[w] # "add",
         to \in Busy \ {"count"} => job[w] # NoJob,
         job[w] # NoJob => to \in Busy
  PROVE  Struct'
<1> USE DEF Struct, Bookkeeping
<1>1. wpc' = [wpc EXCEPT ![w] = to] /\ wpc' \in [Worker -> WorkerPc]
  BY DEF Goto, StructType
<1>2. wpc'[w] = to /\ \A v \in Worker \ {w} : wpc'[v] = wpc[v]
  BY <1>1 DEF StructType
<1>3. \A v \in Worker : wpc'[v] = "add" <=> wpc[v] = "add"
  BY <1>2
<1>4. \A v \in Worker : /\ wpc'[v] \in Busy \ {"count"} => job[v] # NoJob
                        /\ job[v] # NoJob => wpc'[v] \in Busy
                        /\ wpc'[v] = "empty" => job[v].prefix \in given_up'
  BY <1>2 DEF JobInv
<1> QED
  BY <1>1, <1>3, <1>4, QuietStep DEF StructType

(* Every step of a worker keeps the books.                                 *)
LEMMA WorkerStruct ==
  ASSUME Struct, NEW w \in Worker, WorkerStep(w)
  PROVE  Struct'
<1> USE DEF Struct, Bookkeeping
<1>1. CASE Start(w)
  BY <1>1, MoveStep DEF Start, WorkerPc, Busy, JobInv, outcome
<1>2. CASE GetNextPrefix(w)
  BY <1>2, TakeStep
<1>3. CASE ListPage(w)
  BY <1>3, MoveStep DEF ListPage, WorkerPc, Busy, JobInv, outcome, shared
<1>4. CASE ListExhausted(w)
  <2>1. /\ wpc[w] = "list" /\ wpc' = [wpc EXCEPT ![w] = "empty"]
        /\ given_up' = given_up \cup {job[w].prefix}
        /\ UNCHANGED <<queue, job, pushed, crashed>>
    BY <1>4 DEF ListExhausted, Goto, shared
  <2>2. job[w] # NoJob /\ job[w].prefix \in Prefix
    BY <2>1 DEF JobInv, Busy, StructType, Job
  <2>3. wpc' \in [Worker -> WorkerPc]
    BY <2>1 DEF StructType, WorkerPc
  <2>4. wpc'[w] = "empty" /\ \A v \in Worker \ {w} : wpc'[v] = wpc[v]
    BY <2>1 DEF StructType
  <2>5. \A v \in Worker : /\ wpc'[v] = "add" <=> wpc[v] = "add"
                          /\ wpc'[v] \in Busy \ {"count"} => job[v] # NoJob
                          /\ job[v] # NoJob => wpc'[v] \in Busy
                          /\ wpc'[v] = "empty" => job[v].prefix \in given_up'
    BY <2>1, <2>2, <2>4 DEF JobInv, Busy
  <2> QED
    BY <2>1, <2>2, <2>3, <2>5, QuietStep DEF StructType
<1>5. CASE ListRepeated(w)
  <2>1. job[w].prefix \in Prefix
    BY DEF StructType, Job
  <2> QED
    BY <1>5, <2>1, LoseStep DEF ListRepeated, StructType, shared
<1>6. CASE ListThrows(w)
  <2>1. job[w].prefix \in Prefix
    BY DEF StructType, Job
  <2> QED
    BY <1>6, <2>1, LoseStep DEF ListThrows, StructType, shared
<1>7. CASE WriteObjects(w)
  BY <1>7, WriteStep
<1>8. CASE AddPrefixes(w)
  <2>1. CASE wpc[w] = "add"
    BY <1>8, <2>1, EnterStep
  <2>2. CASE wpc[w] = "empty"
    <3>1. /\ queue' = queue /\ Drop(w) /\ Goto(w, "count")
          /\ UNCHANGED <<pushed, given_up, crashed>>
      BY <1>8, <2>2 DEF AddPrefixes, NewPrefixes, MorePages, outcome
    <3>2. job[w].prefix \in given_up
      BY <2>2 DEF JobInv
    <3> QED
      BY <2>2, <3>1, <3>2, LoseStep DEF StructType
  <2> QED
    BY <1>8, <2>1, <2>2 DEF AddPrefixes
<1>9. CASE CountOp(w)
  BY <1>9, MoveStep DEF CountOp, WorkerPc, Busy, outcome
<1>10. CASE IsDone(w)
  BY <1>10, MoveStep DEF IsDone, WorkerPc, Busy, JobInv, outcome, shared
<1>11. CASE LoadActive(w)
  BY <1>11, MoveStep DEF LoadActive, WorkerPc, Busy, JobInv, outcome, shared
<1>12. CASE CompareTarget(w)
  BY <1>12, MoveStep DEF CompareTarget, WorkerPc, Busy, JobInv, outcome, shared
<1>13. CASE Leave(w)
  BY <1>13, MoveStep DEF Leave, WorkerPc, Busy, JobInv, outcome
<1> QED
  BY <1>1, <1>2, <1>3, <1>4, <1>5, <1>6, <1>7, <1>8, <1>9, <1>10, <1>11, <1>12, <1>13
     DEF WorkerStep, QueueStep

(* Where nothing but the scaler's and the manager's own state changes.     *)
LEMMA StructUnchanged ==
  ASSUME Struct, UNCHANGED <<queue, wpc, job, pushed, given_up, crashed>>
  PROVE  Struct'
BY QuietStep DEF Struct, Bookkeeping, StructType, JobInv

(* Spawning fills a free place of Worker; the other steps of the scaling   *)
(* coroutine leave the books alone.                                        *)
LEMMA ScalerStruct ==
  ASSUME Struct, ScalerStep
  PROVE  Struct'
<1>1. CASE ScalerSpawn
  <2>1. PICK spawned \in SUBSET Idle :
          wpc' = [w \in Worker |-> IF w \in spawned THEN "spawned" ELSE wpc[w]]
    BY <1>1 DEF ScalerSpawn
  <2>2. UNCHANGED <<queue, job, pushed, given_up, crashed>>
    BY <1>1 DEF ScalerSpawn, shared, outcome
  <2>3. wpc' \in [Worker -> WorkerPc]
    BY <2>1 DEF Struct, StructType, WorkerPc
  <2>4. \A w \in Worker : \/ wpc'[w] = wpc[w]
                          \/ wpc[w] = "idle" /\ wpc'[w] = "spawned"
    BY <2>1 DEF Idle
  <2>5. \A v \in Worker : /\ wpc'[v] = "add" <=> wpc[v] = "add"
                          /\ wpc'[v] \in Busy \ {"count"} => job[v] # NoJob
                          /\ job[v] # NoJob => wpc'[v] \in Busy
                          /\ wpc'[v] = "empty" => job[v].prefix \in given_up'
    BY <2>2, <2>4 DEF Struct, Bookkeeping, JobInv, Busy
  <2> QED
    BY <2>2, <2>3, <2>5, QuietStep DEF Struct, StructType
<1>2. CASE ~ScalerSpawn
  BY <1>2, StructUnchanged
     DEF ScalerStep, ScalerArm, ScalerTick, ScalerCheck, ScalerAlign, ScalerRealign,
         ScalerCalculate, ScalerRetarget, ScalerAborted, shared, workers, outcome
<1> QED
  BY <1>1, <1>2

(* So does the main thread.                                                *)
LEMMA ManagerStruct ==
  ASSUME Struct, ManagerStep
  PROVE  Struct'
BY StructUnchanged DEF ManagerStep, ManagerPoll, ManagerCancelScaler, ManagerCancelWriter,
     ManagerJoin, shared, workers, outcome

(* Every step keeps the books.                                             *)
LEMMA StructNext == Struct /\ [Next]_vars => Struct'
<1> SUFFICES ASSUME Struct, [Next]_vars PROVE Struct'
  OBVIOUS
<1>1. ASSUME NEW w \in Worker, WorkerStep(w) PROVE Struct'
  BY <1>1, WorkerStruct
<1>2. CASE ScalerStep
  BY <1>2, ScalerStruct
<1>3. CASE ManagerStep
  BY <1>3, ManagerStruct
<1>4. CASE UNCHANGED vars
  BY <1>4, StructUnchanged DEF vars, shared, workers, outcome
<1> QED
  BY <1>1, <1>2, <1>3, <1>4 DEF Next, Terminated

(* The books are kept in every state.                                      *)
LEMMA StructInvariant == Spec => []Struct
BY StructInit, StructNext, PTL DEF Spec

(* A waiting prefix is in nobody's hands, a prefix in hand is in one       *)
(* worker's, its pages are written up to where that worker is, and a       *)
(* prefix that is in neither place was dealt with.                         *)
THEOREM BooksAreKept == Spec => []Bookkeeping
BY StructInvariant, PTL DEF Struct

(* A page is pushed to the write stack at most once.                       *)
THEOREM PagesPushedOnce == Spec => OncePerPage
<1>1. Struct /\ [Next]_vars =>
        [\A w \in Worker : wpc[w] = "write" /\ wpc'[w] = "add" => Page(w) \notin pushed]_vars
  <2> SUFFICES ASSUME Struct, NEW w \in Worker, wpc[w] = "write", wpc'[w] = "add"
               PROVE  Page(w) \notin pushed
    OBVIOUS
  <2>1. job[w] # NoJob /\ job[w].page \in DOMAIN Pages[job[w].prefix] /\ job[w].page \in Nat
    BY DEF Struct, Bookkeeping, JobInv, Busy, StructType, Job
  <2> QED
    BY <2>1 DEF Struct, Bookkeeping, PushedInv, PagesOf, Page
<1> QED
  BY <1>1, StructInvariant, PTL DEF Spec, OncePerPage
-----------------------------------------------------------------------------
(* The counters                                                            *)

(* calculate_desired_workers never asks for less than one worker.          *)
LEMMA DesiredIsPositive ==
  ASSUME NEW n \in Nat \ {0}, NEW active \in Nat, NEW sum \in Int
  PROVE  DesiredWorkers(active, sum, n) \in Nat \ {0}
<1>1. \A a \in Int : CeilDiv(a, n) \in Int /\ CeilDiv(a, 100) \in Int
  BY DEF CeilDiv
<1>2. active * ScaleUp \in Int /\ active * ScaleDown \in Int
  BY ScalingAssumption
<1>3. \A a, b \in Int : Max2(a, b) \in Int /\ Max2(a, b) >= a /\ Max2(a, b) >= b
  BY DEF Max2
<1>4. Scaled(active, ScaleUp, sum, n) \in Int /\ Scaled(active, ScaleDown, sum, n) \in Int
  BY <1>1, <1>2, <1>3 DEF Scaled
<1>5. CASE sum < n
  <2>1. Max2(active, IdleFloor) \in Int /\ Max2(active, IdleFloor) >= IdleFloor
    BY <1>3, ScalingAssumption
  <2> QED
    BY <1>5, <2>1, ScalingAssumption DEF DesiredWorkers
<1>6. CASE ~(sum < n)
  <2> DEFINE d == CASE active * n < sum         -> Scaled(active, ScaleUp, sum, n)
                    [] 2 * active * n > 3 * sum -> Scaled(active, ScaleDown, sum, n)
                    [] OTHER                    -> active
  <2>1. d \in Int
    BY <1>4
  <2>2. Max2(1, d) \in Int /\ Max2(1, d) >= 1
    <3> HIDE DEF d
    <3> QED
      BY <2>1, <1>3
  <2>3. DesiredWorkers(active, sum, n) = Max2(1, d)
    BY <1>6 DEF DesiredWorkers
  <2> QED
    BY <2>2, <2>3
<1> QED
  BY <1>5, <1>6

ActiveSet == {w \in Worker : wpc[w] \in Active}

(* The sets whose elements the two counters count are finite.              *)
LEMMA FiniteSets ==
  ASSUME StructType
  PROVE  /\ IsFiniteSet(queue) /\ Cardinality(queue) \in Nat
         /\ IsFiniteSet(ActiveSet) /\ Cardinality(ActiveSet) \in Nat
<1>1. IsFiniteSet(queue)
  BY BucketAssumption, FS_Subset DEF StructType
<1>2. IsFiniteSet(ActiveSet)
  BY PoolAssumption, FS_Subset DEF ActiveSet
<1> QED
  BY <1>1, <1>2, FS_CardinalityType

\* The scaling coroutine has a sample when it computes their mean.
Sampled == spc \in {"check", "calculate"} => samples # <<>>

Counters ==
  /\ TypeOK
  /\ Sampled
  /\ QueueLengthExact
  /\ ActiveExact

(* Both counters are right at the start.                                   *)
LEMMA CountersInit == Init => Counters
<1> SUFFICES ASSUME Init PROVE Counters
  OBVIOUS
<1> USE DEF Init
<1>1. TypeOK
  BY BucketAssumption DEF TypeOK, WorkerPc, ScalerPc, ManagerPc, Job
<1>2. QueueLengthExact
  BY FS_Singleton DEF QueueLengthExact
<1>3. ActiveExact
  <2>1. ActiveSet = {}
    BY DEF ActiveSet, Active
  <2> QED
    BY <2>1, FS_EmptySet DEF ActiveExact, ActiveSet
<1> QED
  BY <1>1, <1>2, <1>3 DEF Counters, Sampled

(* total_queue_length follows the heap, in every step.                     *)
LEMMA QueueLengthNext ==
  ASSUME Struct, Struct', QueueLengthExact, [Next]_vars
  PROVE  QueueLengthExact'
<1>1. ASSUME NEW w \in Worker, GetNextPrefix(w) PROVE QueueLengthExact'
  <2>1. CASE UNCHANGED <<queue, total_queue_length>>
    BY <2>1 DEF QueueLengthExact
  <2>2. CASE ~UNCHANGED <<queue, total_queue_length>>
    <3>1. PICK p \in queue : queue' = queue \ {p} /\ total_queue_length' = total_queue_length - 1
      BY <1>1, <2>2 DEF GetNextPrefix, Top
    <3> QED
      BY <3>1, FiniteSets, FS_RemoveElement DEF Struct, QueueLengthExact
  <2> QED
    BY <2>1, <2>2
<1>2. ASSUME NEW w \in Worker, AddPrefixes(w) PROVE QueueLengthExact'
  <2>1. /\ queue' = queue \cup NewPrefixes(w)
        /\ total_queue_length' = total_queue_length + Cardinality(NewPrefixes(w))
    BY <1>2 DEF AddPrefixes, Growth
  <2>2. NewPrefixes(w) \subseteq Prefix /\ queue \cap NewPrefixes(w) = {}
    BY NewAreUnknown DEF NewPrefixes
  <2>3. IsFiniteSet(NewPrefixes(w)) /\ Cardinality(NewPrefixes(w)) \in Nat
    BY <2>2, BucketAssumption, FS_Subset, FS_CardinalityType
  <2>4. Cardinality(queue \cup NewPrefixes(w)) =
          Cardinality(queue) + Cardinality(NewPrefixes(w)) - Cardinality(queue \cap NewPrefixes(w))
    BY <2>3, FiniteSets, FS_Union DEF Struct
  <2>5. Cardinality(queue \cap NewPrefixes(w)) = 0
    BY <2>2, FS_EmptySet
  <2> QED
    BY <2>1, <2>3, <2>4, <2>5, FiniteSets DEF Struct, QueueLengthExact
<1>3. CASE UNCHANGED <<queue, total_queue_length>>
  BY <1>3 DEF QueueLengthExact
<1>4. ASSUME NEW w \in Worker, WorkerStep(w), ~GetNextPrefix(w), ~AddPrefixes(w)
      PROVE  UNCHANGED <<queue, total_queue_length>>
  BY <1>4 DEF WorkerStep, QueueStep, Start, ListPage, ListExhausted, ListRepeated, ListThrows,
       WriteObjects, CountOp, IsDone, LoadActive, CompareTarget, Leave, shared, metrics
<1>5. ScalerStep => UNCHANGED <<queue, total_queue_length>>
  BY DEF ScalerStep, ScalerArm, ScalerTick, ScalerCheck, ScalerAlign, ScalerRealign,
       ScalerCalculate, ScalerRetarget, ScalerSpawn, ScalerAborted, shared, metrics
<1>6. ManagerStep => UNCHANGED <<queue, total_queue_length>>
  BY DEF ManagerStep, ManagerPoll, ManagerCancelScaler, ManagerCancelWriter, ManagerJoin,
       shared, metrics
<1> QED
  BY <1>1, <1>2, <1>3, <1>4, <1>5, <1>6 DEF Next, Terminated, vars, shared, metrics

(* active_workers follows the coroutines, in every step.                   *)
LEMMA ActiveNext ==
  ASSUME Struct, Struct', ActiveExact, [Next]_vars
  PROVE  ActiveExact'
<1> USE DEF ActiveExact
<1>1. ASSUME NEW w \in Worker, Start(w) PROVE ActiveExact'
  <2>1. ActiveSet' = ActiveSet \cup {w} /\ w \notin ActiveSet
    BY <1>1 DEF Start, Goto, ActiveSet, Active, WorkerPc, Struct, StructType
  <2>2. active_workers' = active_workers + 1
    BY <1>1 DEF Start
  <2> QED
    BY <2>1, <2>2, FiniteSets, FS_AddElement DEF Struct, ActiveSet
<1>2. ASSUME NEW w \in Worker, Leave(w) PROVE ActiveExact'
  <2>1. ActiveSet' = ActiveSet \ {w} /\ w \in ActiveSet
    BY <1>2 DEF Leave, Goto, ActiveSet, Active, WorkerPc, Struct, StructType
  <2>2. active_workers' = active_workers - 1
    BY <1>2 DEF Leave
  <2> QED
    BY <2>1, <2>2, FiniteSets, FS_RemoveElement DEF Struct, ActiveSet
<1>3. ASSUME active_workers' = active_workers,
             \A v \in Worker : wpc'[v] \in Active <=> wpc[v] \in Active
      PROVE  ActiveExact'
  <2>1. ActiveSet' = ActiveSet
    BY <1>3 DEF ActiveSet
  <2> QED
    BY <1>3, <2>1 DEF ActiveSet
<1>4. ASSUME NEW w \in Worker, WorkerStep(w), ~Start(w), ~Leave(w)
      PROVE  ActiveExact'
  <2>1. active_workers' = active_workers
    BY <1>4 DEF WorkerStep, QueueStep, GetNextPrefix, ListPage, ListExhausted, ListRepeated,
         ListThrows, WriteObjects, AddPrefixes, CountOp, IsDone, LoadActive, CompareTarget,
         shared, metrics
  <2>2. wpc[w] \in Active
    BY <1>4 DEF WorkerStep, QueueStep, GetNextPrefix, ListPage, ListExhausted, ListRepeated,
         ListThrows, WriteObjects, AddPrefixes, CountOp, IsDone, LoadActive, CompareTarget,
         Active, WorkerPc
  <2>3. \E to \in Active : wpc' = [wpc EXCEPT ![w] = to]
    BY <1>4 DEF WorkerStep, QueueStep, GetNextPrefix, ListPage, ListExhausted, ListRepeated,
         ListThrows, WriteObjects, AddPrefixes, CountOp, IsDone, LoadActive, CompareTarget,
         Goto, Active, WorkerPc
  <2>4. \A v \in Worker : wpc'[v] \in Active <=> wpc[v] \in Active
    BY <2>2, <2>3 DEF Struct, StructType
  <2> QED
    BY <2>1, <2>4, <1>3
<1>5. CASE ScalerStep
  <2>1. active_workers' = active_workers
    BY <1>5 DEF ScalerStep, ScalerArm, ScalerTick, ScalerCheck, ScalerAlign, ScalerRealign,
         ScalerCalculate, ScalerRetarget, ScalerSpawn, ScalerAborted, shared, metrics
  <2>2. \A v \in Worker : wpc'[v] \in Active <=> wpc[v] \in Active
    BY <1>5 DEF ScalerStep, ScalerArm, ScalerTick, ScalerCheck, ScalerAlign, ScalerRealign,
         ScalerCalculate, ScalerRetarget, ScalerSpawn, ScalerAborted, workers, Idle, Active
  <2> QED
    BY <2>1, <2>2, <1>3
<1>6. CASE ManagerStep \/ UNCHANGED vars
  BY <1>6, <1>3 DEF ManagerStep, ManagerPoll, ManagerCancelScaler, ManagerCancelWriter,
       ManagerJoin, vars, shared, metrics, workers
<1> QED
  BY <1>1, <1>2, <1>4, <1>5, <1>6 DEF Next, Terminated

(* The steps of the workers keep the types.                                *)
LEMMA TypeNextWorker ==
  ASSUME Struct, Struct', Counters, NEW w \in Worker, WorkerStep(w),
         total_queue_length' \in Nat, active_workers' \in Nat
  PROVE  TypeOK' /\ Sampled'
<1> USE DEF Counters
<1>1. /\ queue' \subseteq Prefix /\ wpc' \in [Worker -> WorkerPc] /\ job' \in [Worker -> Job]
      /\ pushed' \subseteq Prefix \X Nat /\ given_up' \subseteq Prefix
      /\ crashed' \subseteq Prefix
  BY DEF Struct, StructType
<1>2. /\ UNCHANGED <<spc, previous_ops, samples, ops_sum, desired, mpc, target_workers>>
  BY DEF WorkerStep, QueueStep, Start, GetNextPrefix, ListPage, ListExhausted, ListRepeated,
       ListThrows, WriteObjects, AddPrefixes, CountOp, IsDone, LoadActive, CompareTarget,
       Leave, shared, metrics, scaler
<1>3. depth' \in [Prefix -> Nat]
  <2>1. CASE AddPrefixes(w)
    <3>1. depth[job[w].prefix] + 1 \in Nat
      BY DEF TypeOK, Job
    <3> QED
      BY <2>1, <3>1 DEF AddPrefixes, TypeOK
  <2>2. CASE ~AddPrefixes(w)
    <3>1. depth' = depth
      BY <2>2 DEF WorkerStep, QueueStep, Start, GetNextPrefix, ListPage, ListExhausted,
           ListRepeated, ListThrows, WriteObjects, CountOp, IsDone, LoadActive, CompareTarget,
           Leave, shared
    <3> QED
      BY <3>1 DEF TypeOK
  <2> QED
    BY <2>1, <2>2
<1>4. total_ops' = total_ops \/ total_ops' = total_ops + 1
  BY DEF WorkerStep, QueueStep, Start, GetNextPrefix, ListPage, ListExhausted, ListRepeated,
       ListThrows, WriteObjects, AddPrefixes, CountOp, IsDone, LoadActive, CompareTarget,
       Leave, shared, metrics
<1>5. total_ops' \in Nat /\ previous_ops' \in 0..total_ops'
  BY <1>2, <1>4 DEF TypeOK
<1>6. seen_active' \in [Worker -> Nat]
  <2>1. CASE LoadActive(w) \/ CompareTarget(w)
    BY <2>1 DEF LoadActive, CompareTarget, TypeOK
  <2>2. CASE ~(LoadActive(w) \/ CompareTarget(w))
    <3>1. seen_active' = seen_active
      BY <2>2 DEF WorkerStep, QueueStep, Start, GetNextPrefix, ListPage, ListExhausted,
           ListRepeated, ListThrows, WriteObjects, AddPrefixes, CountOp, IsDone, Leave
    <3> QED
      BY <3>1 DEF TypeOK
  <2> QED
    BY <2>1, <2>2
<1> QED
  BY <1>1, <1>2, <1>3, <1>5, <1>6 DEF TypeOK, Sampled

(* The steps of the scaling coroutine keep the types.                      *)
LEMMA TypeNextScaler ==
  ASSUME Struct, Struct', Counters, ScalerStep
  PROVE  TypeOK' /\ Sampled'
<1> USE DEF Counters
<1>1. /\ queue' \subseteq Prefix /\ wpc' \in [Worker -> WorkerPc] /\ job' \in [Worker -> Job]
      /\ pushed' \subseteq Prefix \X Nat /\ given_up' \subseteq Prefix
      /\ crashed' \subseteq Prefix
  BY DEF Struct, StructType
<1>2. UNCHANGED <<depth, total_queue_length, total_ops, active_workers, seen_active, mpc>>
  BY DEF ScalerStep, ScalerArm, ScalerTick, ScalerCheck, ScalerAlign, ScalerRealign,
       ScalerCalculate, ScalerRetarget, ScalerSpawn, ScalerAborted, shared, metrics, workers
<1>3. spc' \in ScalerPc
  BY DEF ScalerStep, ScalerArm, ScalerTick, ScalerCheck, ScalerAlign, ScalerRealign,
       ScalerCalculate, ScalerRetarget, ScalerSpawn, ScalerAborted, ScalerPc
<1>4. CASE ScalerTick
  <2> DEFINE new == total_ops - previous_ops
             full == Len(samples) = Window
             base == IF full THEN Tail(samples) ELSE samples
  <2>1. new \in Nat
    BY DEF TypeOK
  <2>2. base \in Seq(Nat)
    <3>1. full => samples # <<>>
      BY PoolAssumption
    <3> QED
      BY <3>1 DEF TypeOK
  <2>3. samples' = Append(base, new)
    BY <1>4 DEF ScalerTick
  <2>4. samples' \in Seq(Nat) /\ samples' # <<>>
    <3> HIDE DEF base, new
    <3> QED
      BY <2>1, <2>2, <2>3
  <2>5. ops_sum' \in Int
    <3>1. full => Head(samples) \in Nat
      <4>1. full => samples # <<>>
        BY PoolAssumption
      <4> QED
        BY <4>1 DEF TypeOK
    <3> QED
      BY <1>4, <3>1 DEF ScalerTick, TypeOK
  <2>6. previous_ops' \in 0..total_ops'
    BY <1>4, <1>2 DEF ScalerTick, TypeOK
  <2>7. UNCHANGED <<target_workers, desired>>
    BY <1>4 DEF ScalerTick, shared, metrics
  <2> QED
    BY <1>1, <1>2, <1>3, <2>4, <2>5, <2>6, <2>7 DEF TypeOK, Sampled
<1>5. CASE ~ScalerTick
  <2>1. UNCHANGED <<previous_ops, samples, ops_sum>>
    BY <1>5 DEF ScalerStep, ScalerArm, ScalerCheck, ScalerAlign, ScalerRealign,
         ScalerCalculate, ScalerRetarget, ScalerSpawn, ScalerAborted
  <2>2. desired' \in Nat
    <3>1. CASE ScalerCalculate
      <4>1. Len(samples) \in Nat \ {0}
        BY <3>1 DEF ScalerCalculate, Sampled, TypeOK
      <4>2. PICK error \in Errors :
              desired' \in {AskedWith(active_workers, ops_sum, Len(samples), error), 0}
        BY <3>1 DEF ScalerCalculate, Wanted
      <4>3. 4 * ops_sum + error \in Int /\ 4 * Len(samples) \in Nat \ {0}
        BY <4>1 DEF TypeOK, Errors
      <4>4. AskedWith(active_workers, ops_sum, Len(samples), error) \in Nat
        BY <4>3, DesiredIsPositive DEF TypeOK, AskedWith
      <4> QED
        BY <4>2, <4>4
    <3>2. CASE ~ScalerCalculate
      BY <1>5, <3>2 DEF ScalerStep, ScalerArm, ScalerCheck, ScalerAlign, ScalerRealign,
           ScalerRetarget, ScalerSpawn, ScalerAborted, TypeOK
    <3> QED
      BY <3>1, <3>2
  <2>3. target_workers' \in Nat
    BY <1>5 DEF ScalerStep, ScalerArm, ScalerCheck, ScalerAlign, ScalerRealign,
         ScalerCalculate, ScalerRetarget, ScalerSpawn, ScalerAborted, shared, metrics, TypeOK
  <2>4. Sampled'
    BY <1>5, <2>1 DEF ScalerStep, ScalerArm, ScalerCheck, ScalerAlign, ScalerRealign,
         ScalerCalculate, ScalerRetarget, ScalerSpawn, ScalerAborted, Sampled
  <2> QED
    BY <1>1, <1>2, <1>3, <2>1, <2>2, <2>3, <2>4 DEF TypeOK
<1> QED
  BY <1>4, <1>5

(* Every step keeps counters and types.                                    *)
LEMMA CountersNext ==
  ASSUME Struct, Struct', Counters, [Next]_vars
  PROVE  Counters'
<1> USE DEF Counters
<1>1. QueueLengthExact' /\ ActiveExact'
  BY QueueLengthNext, ActiveNext
<1>2. total_queue_length' \in Nat /\ active_workers' \in Nat
  <2>1. IsFiniteSet(queue') /\ IsFiniteSet(ActiveSet')
    BY BucketAssumption, PoolAssumption, FS_Subset DEF Struct, StructType, ActiveSet
  <2> QED
    BY <1>1, <2>1, FS_CardinalityType DEF QueueLengthExact, ActiveExact, ActiveSet
<1>3. TypeOK' /\ Sampled'
  <2>1. ASSUME NEW w \in Worker, WorkerStep(w) PROVE TypeOK' /\ Sampled'
    BY <1>2, <2>1, TypeNextWorker
  <2>2. CASE ScalerStep
    BY <2>2, TypeNextScaler
  <2>3. CASE ManagerStep
    BY <2>3 DEF ManagerStep, ManagerPoll, ManagerCancelScaler, ManagerCancelWriter,
         ManagerJoin, shared, metrics, workers, scaler, outcome, TypeOK, Sampled,
         ManagerPc, ScalerPc
  <2>4. CASE UNCHANGED vars
    BY <2>4 DEF vars, shared, metrics, workers, scaler, outcome, TypeOK, Sampled
  <2> QED
    BY <2>1, <2>2, <2>3, <2>4 DEF Next, Terminated
<1> QED
  BY <1>1, <1>3

(* Books, counters and types are right in every state.                     *)
LEMMA CountersInvariant == Spec => [](Struct /\ Counters)
<1>1. Struct /\ Counters /\ [Next]_vars => (Struct /\ Counters)'
  BY StructNext, CountersNext
<1> QED
  BY StructInit, CountersInit, <1>1, PTL DEF Spec

(* Type correctness, and with it that neither unsigned counter wraps.      *)
THEOREM TypeCorrect == Spec => []TypeOK
BY CountersInvariant, PTL DEF Counters

(* total_queue_length is the number of waiting prefixes.                   *)
THEOREM QueueLengthCorrect == Spec => []QueueLengthExact
BY CountersInvariant, PTL DEF Counters

(* active_workers is the number of workers at work.                        *)
THEOREM ActiveCorrect == Spec => []ActiveExact
BY CountersInvariant, PTL DEF Counters
-----------------------------------------------------------------------------
(* The end of the listing                                                  *)

(* If no worker is at work, none holds a prefix.                           *)
LEMMA NobodyBusy ==
  ASSUME Struct, Counters, active_workers = 0
  PROVE  \A w \in Worker : wpc[w] \notin Busy
<1>1. ActiveSet = {}
  BY FiniteSets, FS_EmptySet DEF Struct, Counters, ActiveExact, ActiveSet
<1> QED
  BY <1>1 DEF ActiveSet, Active, Busy, WorkerPc

(* What the manager sees when it stops waiting stays so: no prefix can     *)
(* appear any more.                                                        *)
LEMMA ShutdownNext ==
  ASSUME Struct, Counters, ShutdownWhenDone, [Next]_vars
  PROVE  ShutdownWhenDone'
<1> SUFFICES ASSUME mpc' # "poll"
             PROVE  queue' = {} /\ \A w \in Worker : wpc'[w] \notin Busy
  BY DEF ShutdownWhenDone
<1>1. CASE ManagerPoll
  <2>1. UNCHANGED <<queue, wpc>> /\ total_queue_length = 0 /\ active_workers = 0
    BY <1>1 DEF ManagerPoll, shared, workers
  <2>2. queue = {}
    BY <2>1, FiniteSets, FS_EmptySet DEF Struct, Counters, QueueLengthExact
  <2> QED
    BY <2>1, <2>2, NobodyBusy
<1>2. CASE ~ManagerPoll
  <2>1. mpc # "poll"
    BY <1>2 DEF Next, WorkerStep, QueueStep, Start, GetNextPrefix, ListPage, ListExhausted,
         ListRepeated, ListThrows, WriteObjects, AddPrefixes, CountOp, IsDone, LoadActive,
         CompareTarget, Leave, ScalerStep, ScalerArm, ScalerTick, ScalerCheck, ScalerAlign,
         ScalerRealign, ScalerCalculate, ScalerRetarget, ScalerSpawn, ScalerAborted,
         ManagerStep, ManagerCancelScaler, ManagerCancelWriter, ManagerJoin, Terminated, vars
  <2>2. queue = {} /\ \A w \in Worker : wpc[w] \notin Busy
    BY <2>1 DEF ShutdownWhenDone
  <2>3. ASSUME NEW w \in Worker, WorkerStep(w)
        PROVE  queue' = {} /\ \E to \in WorkerPc \ Busy : wpc' = [wpc EXCEPT ![w] = to]
    BY <2>2, <2>3 DEF WorkerStep, QueueStep, Start, GetNextPrefix, ListPage, ListExhausted,
         ListRepeated, ListThrows, WriteObjects, AddPrefixes, CountOp, IsDone, LoadActive,
         CompareTarget, Leave, Goto, Top, shared, Busy, WorkerPc
  <2>4. ASSUME ScalerStep \/ ManagerStep \/ UNCHANGED vars
        PROVE  queue' = {} /\ \A w \in Worker : wpc'[w] \in {wpc[w], "spawned"}
    BY <1>2, <2>2, <2>4 DEF Struct, StructType,
         ScalerStep, ScalerArm, ScalerTick, ScalerCheck, ScalerAlign,
         ScalerRealign, ScalerCalculate, ScalerRetarget, ScalerSpawn, ScalerAborted,
         ManagerStep, ManagerCancelScaler, ManagerCancelWriter, ManagerJoin,
         shared, workers, vars
  <2>5. ASSUME NEW w \in Worker, WorkerStep(w)
        PROVE  \A v \in Worker : wpc'[v] \notin Busy
    BY <2>2, <2>3, <2>5 DEF Struct, StructType
  <2>6. ASSUME ScalerStep \/ ManagerStep \/ UNCHANGED vars
        PROVE  \A v \in Worker : wpc'[v] \notin Busy
    BY <2>2, <2>4, <2>6 DEF Busy
  <2> QED
    BY <2>3, <2>4, <2>5, <2>6 DEF Next, Terminated
<1> QED
  BY <1>1, <1>2

(* The whole inductive invariant holds in every state.                     *)
LEMMA Invariants == Spec => [](Struct /\ Counters /\ ShutdownWhenDone)
<1>1. Init => ShutdownWhenDone
  BY DEF Init, ShutdownWhenDone
<1>2. Struct /\ Counters /\ ShutdownWhenDone /\ [Next]_vars
        => (Struct /\ Counters /\ ShutdownWhenDone)'
  BY StructNext, CountersNext, ShutdownNext
<1> QED
  BY StructInit, CountersInit, <1>1, <1>2, PTL DEF Spec

(* The main thread does not stop waiting before the work is done.          *)
THEOREM ShutdownCorrect == Spec => []ShutdownWhenDone
BY Invariants, PTL

(* When it stops, no prefix was forgotten.                                 *)
THEOREM ListingComplete == Spec => []CompleteListing
<1>1. Struct /\ ShutdownWhenDone => CompleteListing
  <2> SUFFICES ASSUME Struct, ShutdownWhenDone, mpc # "poll", NEW p \in Known
               PROVE  Written(p) \/ p \in given_up \cup crashed
    BY DEF CompleteListing
  <2>1. queue = {} /\ \A w \in Worker : wpc[w] \notin Busy
    BY DEF ShutdownWhenDone
  <2>2. \A w \in Worker : ~Holds(w, p)
    BY <2>1 DEF Struct, Bookkeeping, JobInv
  <2>3. Entered = pushed
    BY <2>1 DEF Entered, Busy
  <2>4. Named(p)
    BY <2>3 DEF Known, Named
  <2>5. p \in Prefix
    <3>1. ASSUME NEW pg \in pushed PROVE Pages[pg[1]][pg[2]] \subseteq Prefix
      BY PageNames DEF Struct, StructType, Bookkeeping, PushedInv
    <3> QED
      BY <3>1, BucketAssumption DEF Known
  <2> QED
    BY <2>1, <2>2, <2>4, <2>5 DEF Struct, Bookkeeping, Accounted
<1> QED
  BY <1>1, Invariants, PTL
-----------------------------------------------------------------------------
(* The pool implements BucketWalk                                          *)

\* Worker w has still to enter a page of its prefix.
AtPage(w) == wpc[w] \in {"list", "write", "add"} \/ (wpc[w] = "count" /\ job[w] # NoJob)

\* Nobody but worker w moves.
OnlyMoves(w) == \A v \in Worker \ {w} : wpc'[v] = wpc[v] /\ job'[v] = job[v]

(* How the set of open prefixes follows the worker that moves.             *)
LEMMA OpenMoves ==
  ASSUME Struct, NEW w \in Worker, OnlyMoves(w)
  PROVE  /\ AtPage(w) /\ AtPage(w)' /\ job'[w].prefix = job[w].prefix => Open' = Open
         /\ AtPage(w) /\ ~AtPage(w)' =>
              job[w].prefix \in Open /\ Open' = Open \ {job[w].prefix}
         /\ ~AtPage(w) /\ AtPage(w)' => Open' = Open \cup {job'[w].prefix}
         /\ ~AtPage(w) /\ ~AtPage(w)' => Open' = Open
<1>1. \A x : x \in Open <=> \E v \in Worker : AtPage(v) /\ job[v].prefix = x
  BY DEF Open, AtPage
<1>2. \A x : x \in Open' <=> \E v \in Worker : AtPage(v)' /\ job'[v].prefix = x
  BY DEF Open, AtPage
<1>3. \A v \in Worker \ {w} : AtPage(v)' <=> AtPage(v)
  BY DEF AtPage, OnlyMoves
<1>4. \A v \in Worker : AtPage(v) => Holds(v, job[v].prefix)
  BY DEF AtPage, Struct, Bookkeeping, JobInv, Busy
<1>5. \A v \in Worker \ {w} : AtPage(v) /\ AtPage(w) => job[v].prefix # job[w].prefix
  <2>1. job[w].prefix \in Prefix
    BY DEF Struct, StructType, Job
  <2> QED
    BY <1>4, <2>1 DEF Struct, Bookkeeping, OneOwner
<1> DEFINE Others == {job[v].prefix : v \in {u \in Worker \ {w} : AtPage(u)}}
<1>6. /\ Open = Others \cup (IF AtPage(w) THEN {job[w].prefix} ELSE {})
      /\ Open' = Others \cup (IF AtPage(w)' THEN {job'[w].prefix} ELSE {})
  BY <1>1, <1>2, <1>3 DEF OnlyMoves
<1>7. AtPage(w) => job[w].prefix \notin Others
  BY <1>5
<1> HIDE DEF Others
<1> QED
  BY <1>6, <1>7

(* The steps of a worker, as steps of BucketWalk.                          *)
LEMMA WorkerWalks ==
  ASSUME Struct, Struct', ShutdownWhenDone, NEW w \in Worker, WorkerStep(w)
  PROVE  [Walk!Next]_(Walk!vars)
<1> USE DEF Goto
<1>1. wpc \in [Worker -> WorkerPc] /\ job \in [Worker -> Job] /\ job' \in [Worker -> Job]
  BY DEF Struct, StructType
<1>2. OnlyMoves(w) /\ mpc' = mpc
  BY <1>1 DEF WorkerStep, QueueStep, Start, GetNextPrefix, ListPage, ListExhausted,
       ListRepeated, ListThrows, WriteObjects, AddPrefixes, CountOp, IsDone, LoadActive,
       CompareTarget, Leave, Drop, OnlyMoves, workers
<1>3. ASSUME UNCHANGED pushed, wpc[w] # "add", wpc'[w] # "add" PROVE Entered' = Entered
  BY <1>2, <1>3 DEF OnlyMoves, Entered, Page
<1>4. wpc[w] \in Busy => mpc = "poll"
  BY DEF ShutdownWhenDone
<1>5. UNCHANGED <<queue, Open, Entered>> => UNCHANGED Walk!vars
  BY <1>2 DEF Walk!vars
<1>6. CASE GetNextPrefix(w)
  <2>1. wpc[w] = "next" /\ pushed' = pushed
    BY <1>6 DEF GetNextPrefix, outcome
  <2>2. ~AtPage(w)
    BY <2>1 DEF AtPage
  <2>3. CASE UNCHANGED <<queue, job>> /\ wpc'[w] = "done"
    <3>1. ~AtPage(w)'
      BY <2>3 DEF AtPage
    <3> QED
      BY <1>2, <1>3, <1>5, <2>1, <2>2, <2>3, <3>1, OpenMoves
  <2>4. CASE ~(UNCHANGED <<queue, job>> /\ wpc'[w] = "done")
    <3>1. PICK p \in Prefix : /\ p \in queue
                             /\ queue' = queue \ {p}
                             /\ job' = [job EXCEPT ![w] = [prefix |-> p, page |-> 1]]
                             /\ wpc' = [wpc EXCEPT ![w] = "list"]
      BY <1>1, <1>6, <2>4 DEF GetNextPrefix, Top
    <3>2. wpc'[w] = "list" /\ job'[w].prefix = p /\ AtPage(w)'
      BY <1>1, <3>1 DEF AtPage
    <3>3. Open' = Open \cup {p} /\ Entered' = Entered
      BY <1>2, <1>3, <2>1, <2>2, <3>2, OpenMoves
    <3>4. mpc = "poll"
      BY <3>1 DEF ShutdownWhenDone
    <3>5. Walk!Begin(p)
      BY <1>2, <3>1, <3>3, <3>4 DEF Walk!Begin
    <3> QED
      BY <3>5 DEF Walk!Next
  <2> QED
    BY <2>3, <2>4
<1>7. CASE ListExhausted(w) \/ ListRepeated(w) \/ ListThrows(w)
  <2>1. /\ wpc[w] = "list" /\ wpc'[w] \in {"empty", "done", "exit"}
        /\ UNCHANGED <<queue, pushed>>
    BY <1>1, <1>7 DEF ListExhausted, ListRepeated, ListThrows, shared
  <2>2. AtPage(w) /\ ~AtPage(w)'
    BY <2>1 DEF AtPage
  <2>3. job[w].prefix \in Open /\ Open' = Open \ {job[w].prefix} /\ Entered' = Entered
    BY <1>2, <1>3, <2>1, <2>2, OpenMoves
  <2>4. mpc = "poll"
    BY <1>4, <2>1 DEF Busy
  <2>5. Walk!GiveUp(job[w].prefix) /\ job[w].prefix \in Prefix
    BY <1>1, <1>2, <2>1, <2>3, <2>4 DEF Walk!GiveUp, Job
  <2> QED
    BY <2>5 DEF Walk!Next
<1>8. CASE WriteObjects(w)
  <2>1. wpc[w] = "write" /\ wpc'[w] = "add" /\ UNCHANGED <<queue, job>>
    BY <1>1, <1>8 DEF WriteObjects, shared
  <2>2. AtPage(w) /\ AtPage(w)'
    BY <2>1 DEF AtPage
  <2> QED
    BY <1>2, <1>5, <1>8, <2>1, <2>2, WriteStep, OpenMoves
<1>9. CASE AddPrefixes(w) /\ wpc[w] = "empty"
  <2>1. UNCHANGED <<queue, pushed>> /\ wpc'[w] = "count" /\ job'[w] = NoJob
    BY <1>1, <1>9 DEF AddPrefixes, NewPrefixes, MorePages, Drop, outcome
  <2>2. ~AtPage(w) /\ ~AtPage(w)'
    BY <1>9, <2>1 DEF AtPage
  <2> QED
    BY <1>2, <1>3, <1>5, <1>9, <2>1, <2>2, OpenMoves
<1>10. CASE AddPrefixes(w) /\ wpc[w] = "add"
  <2> DEFINE p == job[w].prefix
             k == job[w].page
  <2>1. p \in Prefix /\ k \in DOMAIN Pages[p] /\ job[w] # NoJob
    BY <1>1, <1>10 DEF Struct, Bookkeeping, JobInv, Busy, Job
  <2>2. k \in Nat /\ k >= 1 /\ Len(Pages[p]) \in Nat /\ DOMAIN Pages[p] = 1..Len(Pages[p])
    BY <2>1, PageNames
  <2>3. /\ Entered' = Entered \cup {<<p, k>>}
        /\ queue' = queue \cup Pages[p][k]
        /\ wpc'[w] = "count"
    BY <1>1, <1>10, EnterStep DEF AddPrefixes, NewPrefixes, Page
  <2>4. /\ <<p, k>> \notin Entered
        /\ \A j \in 1..(k - 1) : <<p, j>> \in Entered
    <3>1. \A v \in Worker \ {w} : wpc[v] = "add" => job[v].prefix # p
      BY <2>1 DEF Struct, Bookkeeping, JobInv, OneOwner, Busy
    <3>2. \A j \in 1..(k - 1) : <<p, j>> \in pushed
      BY <1>10, <2>1, <2>2 DEF Struct, Bookkeeping, PushedInv, PagesOf
    <3> QED
      BY <1>10, <2>2, <3>1, <3>2 DEF Entered, Page
  <2>5. p \in Open /\ Open' = IF k = Len(Pages[p]) THEN Open \ {p} ELSE Open
    <3>1. AtPage(w)
      BY <1>10 DEF AtPage
    <3>2. CASE k = Len(Pages[p])
      <4>1. job'[w] = NoJob
        BY <1>1, <1>10, <2>1, <2>2, <3>2 DEF AddPrefixes, MorePages, Drop
      <4>2. ~AtPage(w)'
        BY <2>3, <4>1 DEF AtPage
      <4> QED
        BY <1>2, <3>1, <3>2, <4>2, OpenMoves
    <3>3. CASE k # Len(Pages[p])
      <4>1. job' = [job EXCEPT ![w].page = k + 1]
        BY <1>10, <2>1, <2>2, <3>3 DEF AddPrefixes, MorePages
      <4>2. job'[w].prefix = p /\ job'[w] # NoJob
        <5>1. job'[w] = [prefix |-> p, page |-> k + 1]
          BY <1>1, <4>1 DEF Job
        <5> QED
          BY <2>2, <5>1
      <4>3. AtPage(w)'
        BY <2>3, <4>2 DEF AtPage
      <4>4. p \in Open
        BY <3>1 DEF Open, AtPage
      <4> QED
        BY <1>2, <3>1, <3>3, <4>2, <4>3, <4>4, OpenMoves
    <3> QED
      BY <3>2, <3>3
  <2>6. mpc = "poll"
    BY <1>4, <1>10 DEF Busy
  <2>7. Walk!List(p, k)
    BY <1>2, <2>3, <2>4, <2>5, <2>6 DEF Walk!List
  <2> QED
    BY <2>1, <2>7 DEF Walk!Next
<1>11. CASE \/ Start(w) \/ ListPage(w) \/ CountOp(w) \/ IsDone(w)
            \/ LoadActive(w) \/ CompareTarget(w) \/ Leave(w)
  <2>1. /\ UNCHANGED <<queue, job, pushed>>
        /\ wpc[w] # "add" /\ wpc'[w] # "add"
    BY <1>1, <1>11 DEF Start, ListPage, CountOp, IsDone, LoadActive, CompareTarget, Leave,
         shared, outcome
  <2>2. AtPage(w)' <=> AtPage(w)
    BY <1>1, <1>11, <2>1 DEF Start, ListPage, CountOp, IsDone, LoadActive, CompareTarget,
         Leave, AtPage
  <2> QED
    BY <1>2, <1>3, <1>5, <2>1, <2>2, OpenMoves
<1> QED
  BY <1>6, <1>7, <1>8, <1>9, <1>10, <1>11 DEF WorkerStep, QueueStep, AddPrefixes

(* The steps of the scaling coroutine and the main thread: BucketWalk sees *)
(* the end of the wait.                                                    *)
LEMMA OthersWalk ==
  ASSUME Struct, Counters, ShutdownWhenDone, ScalerStep \/ ManagerStep \/ UNCHANGED vars
  PROVE  [Walk!Next]_(Walk!vars)
<1>1. UNCHANGED <<queue, job, pushed>>
  BY DEF ScalerStep, ScalerArm, ScalerTick, ScalerCheck, ScalerAlign,
       ScalerRealign, ScalerCalculate, ScalerRetarget, ScalerSpawn, ScalerAborted,
       ManagerStep, ManagerPoll, ManagerCancelScaler, ManagerCancelWriter, ManagerJoin,
       shared, workers, outcome, vars
<1>2. \A v \in Worker : wpc'[v] = wpc[v] \/ (wpc[v] = "idle" /\ wpc'[v] = "spawned")
  BY DEF ScalerStep, ScalerArm, ScalerTick, ScalerCheck, ScalerAlign,
       ScalerRealign, ScalerCalculate, ScalerRetarget, ScalerSpawn, ScalerAborted,
       ManagerStep, ManagerPoll, ManagerCancelScaler, ManagerCancelWriter, ManagerJoin,
       Idle, workers, vars
<1>3. Open' = Open /\ Entered' = Entered
  BY <1>1, <1>2 DEF Open, Entered, Page
<1>4. CASE ManagerPoll
  <2>1. mpc = "poll" /\ mpc' # "poll"
    BY <1>4 DEF ManagerPoll
  <2>2. queue = {}
    BY <1>4, FiniteSets, FS_EmptySet DEF ManagerPoll, Struct, Counters, QueueLengthExact
  <2>3. Open = {}
    <3>1. \A w \in Worker : wpc[w] \notin Busy
      BY <1>4, NobodyBusy DEF ManagerPoll
    <3> QED
      BY <3>1 DEF Open, Busy
  <2>4. Walk!End
    BY <1>1, <1>3, <2>1, <2>2, <2>3 DEF Walk!End
  <2> QED
    BY <2>4 DEF Walk!Next
<1>5. CASE ~ManagerPoll
  <2>1. (mpc' # "poll") <=> (mpc # "poll")
    BY <1>5 DEF ScalerStep, ScalerArm, ScalerTick, ScalerCheck, ScalerAlign,
         ScalerRealign, ScalerCalculate, ScalerRetarget, ScalerSpawn, ScalerAborted,
         ManagerStep, ManagerCancelScaler, ManagerCancelWriter, ManagerJoin, vars
  <2> QED
    BY <1>1, <1>3, <2>1 DEF Walk!vars
<1> QED
  BY <1>4, <1>5

(* Every step of the pool is one of BucketWalk, or none.                   *)
LEMMA StepsWalk ==
  ASSUME Struct, Counters, ShutdownWhenDone, Struct', [Next]_vars
  PROVE  [Walk!Next]_(Walk!vars)
<1>1. ASSUME NEW w \in Worker, WorkerStep(w) PROVE [Walk!Next]_(Walk!vars)
  BY <1>1, WorkerWalks
<1>2. CASE ScalerStep \/ ManagerStep \/ UNCHANGED vars
  BY <1>2, OthersWalk
<1> QED
  BY <1>1, <1>2 DEF Next, Terminated

(* The pool walks the bucket: no step of it is one that BucketWalk does    *)
(* not allow.                                                              *)
THEOREM PoolWalksBucket == Spec => WalksBucket
<1>1. Init => Walk!Init
  BY DEF Init, Walk!Init, Open, Entered
<1>2. /\ Struct /\ Counters /\ ShutdownWhenDone /\ Struct' /\ [Next]_vars
      => [Walk!Next]_(Walk!vars)
  BY StepsWalk
<1> QED
  BY <1>1, <1>2, Invariants, PTL DEF Spec, WalksBucket, Walk!Spec
-----------------------------------------------------------------------------
(* The end of the walk                                                     *)

(* What there is left to do is finite.                                     *)
LEMMA LeftIsFinite ==
  ASSUME StructType
  PROVE  IsFiniteSet(Walk!Unopened) /\ IsFiniteSet(Walk!Unlisted) /\ IsFiniteSet(Open)
<1>1. IsFiniteSet(Walk!Unopened)
  <2>1. Walk!Unopened \subseteq Prefix
    BY DEF Walk!Unopened
  <2> QED
    BY <2>1, BucketAssumption, FS_Subset
<1>2. IsFiniteSet(Open)
  <2>1. Open \subseteq Prefix
    <3>1. ASSUME NEW w \in Worker, \/ wpc[w] \in {"list", "write", "add"}
                                   \/ wpc[w] = "count" /\ job[w] # NoJob
          PROVE  job[w].prefix \in Prefix
      BY DEF StructType, Job
    <3> QED
      BY <3>1 DEF Open
  <2> QED
    BY <2>1, BucketAssumption, FS_Subset
<1>3. IsFiniteSet(Walk!Unlisted)
  <2> DEFINE PagesOfPrefix(p) == {p} \X DOMAIN Pages[p]
             Sets == {PagesOfPrefix(p) : p \in Prefix}
  <2>1. ASSUME NEW p \in Prefix PROVE IsFiniteSet(PagesOfPrefix(p))
    <3>1. DOMAIN Pages[p] = 1..Len(Pages[p]) /\ Len(Pages[p]) \in Nat
      BY FirstPage
    <3>2. IsFiniteSet(DOMAIN Pages[p])
      BY <3>1, FS_Interval
    <3> QED
      BY <3>2, FS_Singleton, FS_Product
  <2>2. IsFiniteSet(Sets)
    <3> DEFINE f == [p \in Prefix |-> PagesOfPrefix(p)]
    <3>1. f \in Surjection(Prefix, Sets)
      BY DEF Surjection
    <3> QED
      BY <3>1, BucketAssumption, FS_Surjection
  <2>3. IsFiniteSet(UNION Sets)
    BY <2>1, <2>2, FS_UNION
  <2>4. Walk!Unlisted \subseteq UNION Sets
    BY DEF Walk!Unlisted
  <2> QED
    BY <2>3, <2>4, FS_Subset
<1> QED
  BY <1>1, <1>2, <1>3

(* A prefix is still to be opened while it waits or no page named it.      *)
LEMMA UnopenedMeans ==
  /\ \A x : x \in Walk!Unopened <=> x \in Prefix /\ (x \in queue \/ ~Named(x))
  /\ \A x : x \in Walk!Unopened' <=> x \in Prefix /\ (x \in queue' \/ ~Named(x)')
BY DEF Walk!Unopened, Named

LEMMA UnlistedMeans ==
  ASSUME NEW p \in Prefix, NEW i \in DOMAIN Pages[p], <<p, i>> \notin Entered,
         Entered' = Entered \cup {<<p, i>>}
  PROVE  <<p, i>> \in Walk!Unlisted /\ Walk!Unlisted' = Walk!Unlisted \ {<<p, i>>}
BY DEF Walk!Unlisted

(* Opening a prefix: it is one of those that were still to be opened.      *)
LEMMA OpeningIsWork ==
  ASSUME Struct, NEW p \in Prefix, Walk!Begin(p)
  PROVE  /\ p \in Walk!Unopened /\ Walk!Unopened' = Walk!Unopened \ {p}
         /\ Walk!Unlisted' = Walk!Unlisted
         /\ Open' = Open \cup {p}
         /\ mpc = "poll" /\ mpc' = "poll"
<1>1. p \in queue /\ queue' = queue \ {p} /\ Open' = Open \cup {p}
      /\ Entered' = Entered /\ mpc = "poll" /\ mpc' = "poll"
  BY DEF Walk!Begin
<1>2. Named(p)
  BY <1>1 DEF Struct, Bookkeeping, NamedInv
<1>3. \A x : Named(x)' <=> Named(x)
  BY <1>1 DEF Named
<1>4. Walk!Unlisted' = Walk!Unlisted
  BY <1>1 DEF Walk!Unlisted
<1>5. p \in Walk!Unopened /\ Walk!Unopened' = Walk!Unopened \ {p}
  BY <1>1, <1>2, <1>3, UnopenedMeans
<1> QED
  BY <1>1, <1>4, <1>5

(* Listing a page: it was still to be listed, and the prefixes it names    *)
(* were still to be opened, because no other page names them.              *)
LEMMA ListingIsWork ==
  ASSUME Struct, NEW p \in Prefix, NEW i \in DOMAIN Pages[p], Walk!List(p, i)
  PROVE  /\ Walk!Unopened' \subseteq Walk!Unopened
         /\ <<p, i>> \in Walk!Unlisted /\ Walk!Unlisted' = Walk!Unlisted \ {<<p, i>>}
         /\ Open' \subseteq Open
         /\ mpc = "poll" /\ mpc' = "poll"
<1>1. <<p, i>> \notin Entered /\ Entered' = Entered \cup {<<p, i>>}
      /\ queue' = queue \cup Pages[p][i] /\ Open' \subseteq Open
      /\ mpc = "poll" /\ mpc' = "poll"
  BY DEF Walk!List
<1>2. ASSUME NEW pg \in Entered
      PROVE  pg[1] \in Prefix /\ pg[2] \in DOMAIN Pages[pg[1]] /\ pg = <<pg[1], pg[2]>>
  BY DEF Entered, Struct, StructType, Bookkeeping, PushedInv
<1>3. ASSUME NEW x \in Pages[p][i] PROVE ~Named(x)
  <2>1. x # Root
    BY PageNames
  <2>2. ASSUME NEW pg \in Entered, x \in Pages[pg[1]][pg[2]] PROVE FALSE
    <3>1. p = pg[1] /\ i = pg[2]
      BY <1>2, <2>2, NamedOnce
    <3> QED
      BY <1>1, <1>2, <3>1
  <2> QED
    BY <2>1, <2>2 DEF Named
<1>4. \A x : Named(x) => Named(x)'
  BY <1>1 DEF Named
<1>5. Walk!Unopened' \subseteq Walk!Unopened
  <2> SUFFICES ASSUME NEW x \in Walk!Unopened' PROVE x \in Walk!Unopened
    OBVIOUS
  <2>1. x \in Prefix /\ (x \in queue' \/ ~Named(x)')
    BY UnopenedMeans
  <2> QED
    BY <1>1, <1>3, <1>4, <2>1, UnopenedMeans
<1> QED
  BY <1>1, <1>5, UnlistedMeans

(* Giving a prefix up and ending the walk leave the rest as it is.         *)
LEMMA EndingIsWork ==
  ASSUME \/ \E p \in Prefix : Walk!GiveUp(p)
         \/ Walk!End
  PROVE  /\ Walk!Unopened' = Walk!Unopened
         /\ Walk!Unlisted' = Walk!Unlisted
         /\ mpc = "poll"
         /\ \/ \E p \in Open : Open' = Open \ {p} /\ mpc' = "poll"
            \/ Open' = Open /\ mpc' # "poll"
<1>1. queue' = queue /\ Entered' = Entered
  BY DEF Walk!GiveUp, Walk!End
<1>2. Walk!Unopened' = Walk!Unopened /\ Walk!Unlisted' = Walk!Unlisted
  BY <1>1 DEF Walk!Unopened, Walk!Unlisted
<1> QED
  BY <1>2 DEF Walk!GiveUp, Walk!End

LEMMA OneElementLess ==
  ASSUME NEW S, IsFiniteSet(S), NEW x \in S
  PROVE  /\ IsFiniteSet(S \ {x})
         /\ Cardinality(S) \in Nat /\ Cardinality(S \ {x}) \in Nat
         /\ Cardinality(S \ {x}) = Cardinality(S) - 1
BY FS_RemoveElement, FS_CardinalityType

LEMMA NoElementMore ==
  ASSUME NEW S, IsFiniteSet(S), NEW T, T \subseteq S
  PROVE  /\ Cardinality(S) \in Nat /\ Cardinality(T) \in Nat
         /\ Cardinality(T) <= Cardinality(S)
BY FS_Subset, FS_CardinalityType

LEMMA OneElementMore ==
  ASSUME NEW S, IsFiniteSet(S), NEW x
  PROVE  /\ Cardinality(S) \in Nat /\ Cardinality(S \cup {x}) \in Nat
         /\ Cardinality(S \cup {x}) <= Cardinality(S) + 1
<1>1. Cardinality(S \cup {x}) = IF x \in S THEN Cardinality(S) ELSE Cardinality(S) + 1
  BY FS_AddElement
<1>2. Cardinality(S) \in Nat
  BY FS_CardinalityType
<1> QED
  BY <1>1, <1>2

(* The walk counts as the pool does.                                       *)
LEMMA SameCount == \A S : Walk!Cardinality(S) = Cardinality(S)
BY DEF Walk!Cardinality, Cardinality

(* A step of the walk leaves less to do.                                   *)
LEMMA WorkDone ==
  ASSUME Struct, Walk!Next
  PROVE  Walk!WorkLeft' \in 0..(Walk!WorkLeft - 1)
<1> DEFINE u == Walk!Unopened
           l == Walk!Unlisted
           un == Walk!Unopened'
           ln == Walk!Unlisted'
           on == Open'
           cu == Cardinality(u)
           cl == Cardinality(l)
           co == Cardinality(Open)
           du == Cardinality(un)
           dl == Cardinality(ln)
           do == Cardinality(on)
           e  == IF mpc # "poll" THEN 0 ELSE 1
           f  == IF mpc' # "poll" THEN 0 ELSE 1
<1>1. Walk!WorkLeft = 2 * cu + cl + co + e /\ Walk!WorkLeft' = 2 * du + dl + do + f
  BY SameCount DEF Walk!WorkLeft
<1>2. IsFiniteSet(u) /\ IsFiniteSet(l) /\ IsFiniteSet(Open)
  BY LeftIsFinite DEF Struct
<1>3. /\ cu \in Nat /\ cl \in Nat /\ co \in Nat /\ e \in {0, 1} /\ f \in {0, 1}
  BY <1>2, FS_CardinalityType
<1> SUFFICES /\ du \in Nat /\ dl \in Nat /\ do \in Nat
             /\ 2 * du + dl + do + f < 2 * cu + cl + co + e
  <2> HIDE DEF cu, cl, co, du, dl, do, e, f
  <2> QED
    BY <1>1, <1>3
<1>4. ASSUME NEW p \in Prefix, Walk!Begin(p)
      PROVE  /\ du \in Nat /\ dl \in Nat /\ do \in Nat
             /\ 2 * du + dl + do + f < 2 * cu + cl + co + e
  <2>1. p \in u /\ un = u \ {p} /\ ln = l /\ on = Open \cup {p} /\ e = f
    BY <1>4, OpeningIsWork
  <2>2. du \in Nat /\ du = cu - 1
    BY <1>2, <2>1, OneElementLess
  <2>3. dl \in Nat /\ dl = cl
    BY <1>3, <2>1
  <2>4. do \in Nat /\ do <= co + 1
    BY <1>2, <2>1, OneElementMore
  <2> HIDE DEF cu, cl, co, du, dl, do, e, f
  <2> QED
    BY <1>3, <2>1, <2>2, <2>3, <2>4
<1>5. ASSUME NEW p \in Prefix, NEW i \in DOMAIN Pages[p], Walk!List(p, i)
      PROVE  /\ du \in Nat /\ dl \in Nat /\ do \in Nat
             /\ 2 * du + dl + do + f < 2 * cu + cl + co + e
  <2>1. un \subseteq u /\ <<p, i>> \in l /\ ln = l \ {<<p, i>>} /\ on \subseteq Open /\ e = f
    BY <1>5, ListingIsWork
  <2>2. du \in Nat /\ du <= cu
    BY <1>2, <2>1, NoElementMore
  <2>3. dl \in Nat /\ dl = cl - 1
    BY <1>2, <2>1, OneElementLess
  <2>4. do \in Nat /\ do <= co
    BY <1>2, <2>1, NoElementMore
  <2> HIDE DEF cu, cl, co, du, dl, do, e, f
  <2> QED
    BY <1>3, <2>1, <2>2, <2>3, <2>4
<1>6. ASSUME (\E p \in Prefix : Walk!GiveUp(p)) \/ Walk!End
      PROVE  /\ du \in Nat /\ dl \in Nat /\ do \in Nat
             /\ 2 * du + dl + do + f < 2 * cu + cl + co + e
  <2>1. /\ un = u /\ ln = l
        /\ \/ \E p \in Open : on = Open \ {p} /\ e = f
           \/ on = Open /\ f = 0 /\ e = 1
    BY <1>6, EndingIsWork
  <2>2. du = cu /\ dl = cl
    BY <2>1
  <2>3. do \in Nat /\ ((do = co - 1 /\ e = f) \/ (do = co /\ f = 0 /\ e = 1))
    BY <1>2, <1>3, <2>1, OneElementLess
  <2> HIDE DEF cu, cl, co, du, dl, do, e, f
  <2> QED
    BY <1>3, <2>2, <2>3
<1> QED
  BY <1>4, <1>5, <1>6 DEF Walk!Next

(* Nothing is done twice, so that there is an end of work: every step by   *)
(* which the pool gets on leaves less to do, whatever fails on the way.    *)
THEOREM WorkRunsOut == Spec => FiniteWork
<1>1. /\ Struct /\ Counters /\ ShutdownWhenDone /\ Struct' /\ [Next]_vars
      => [Walk!WorkLeft' \in 0..(Walk!WorkLeft - 1)]_(Walk!vars)
  <2> SUFFICES ASSUME Struct, Counters, ShutdownWhenDone, Struct', [Next]_vars
               PROVE  [Walk!WorkLeft' \in 0..(Walk!WorkLeft - 1)]_(Walk!vars)
    OBVIOUS
  <2>1. [Walk!Next]_(Walk!vars)
    BY StepsWalk
  <2> QED
    BY <2>1, WorkDone
<1> QED
  BY <1>1, Invariants, PTL DEF Spec, FiniteWork, Walk!AlwaysNearer
-----------------------------------------------------------------------------
(* The prefixes named on the pages of those in S, and the deepest level    *)
(* the bucket could have.                                                  *)
Children(S) == UNION {UNION {Pages[p][i] : i \in DOMAIN Pages[p]} : p \in S}
Deepest     == Cardinality(Prefix)

LEMMA ChildOf ==
  ASSUME NEW S \in SUBSET Prefix, NEW x
  PROVE  x \in Children(S) <=> \E p \in S : \E i \in DOMAIN Pages[p] : x \in Pages[p][i]
BY DEF Children

LEMMA ChildrenArePrefixes == ASSUME NEW S \in SUBSET Prefix PROVE Children(S) \in SUBSET Prefix
BY ChildOf, PageNames

LEMMA DeepestIsNumber == Deepest \in Nat
BY BucketAssumption, FS_CardinalityType DEF Deepest

(* The recursion that defines the levels does define them.                 *)
LEMMA Levels ==
  /\ Level \in [0..Deepest -> SUBSET Prefix]
  /\ Level[0] = {Root}
  /\ \A n \in 1..Deepest : Level[n] = Children(Level[n - 1])
<1> DEFINE step == [nS \in (1..Deepest) \X SUBSET Prefix |-> Children(nS[2])]
<1>1. step \in [(1..Deepest) \X SUBSET Prefix -> SUBSET Prefix]
  BY ChildrenArePrefixes
<1>2. \A n \in 1..Deepest : \A S \in SUBSET Prefix : step[<<n, S>>] = Children(S)
  OBVIOUS
<1>3. {Root} \in SUBSET Prefix
  BY BucketAssumption
<1> HIDE DEF step
<1>4. PICK f \in [0..Deepest -> SUBSET Prefix] : Recurs(f, Deepest, {Root}, step)
  BY <1>1, <1>3, DeepestIsNumber, Recursion
<1>5. \A n \in 1..Deepest : f[n] = Children(f[n - 1])
  <2> TAKE n \in 1..Deepest
  <2>1. f[n - 1] \in SUBSET Prefix
    BY DeepestIsNumber
  <2> QED
    BY <1>2, <1>4, <2>1 DEF Recurs
<1>6. f = [n \in 0..Deepest |-> IF n = 0 THEN {Root} ELSE Children(f[n - 1])]
  <2>1. f[0] = {Root}
    BY <1>4 DEF Recurs
  <2> QED
    BY <1>5, <2>1, DeepestIsNumber
<1> DEFINE Is(g) == g = [n \in 0..Deepest |-> IF n = 0 THEN {Root} ELSE Children(g[n - 1])]
<1>7. Level = CHOOSE g : Is(g)
  BY DEF Level, Children, Deepest
<1> HIDE DEF Is
<1>8. Is(Level)
  BY <1>6, <1>7 DEF Is
<1>9. Level = [n \in 0..Deepest |-> IF n = 0 THEN {Root} ELSE Children(Level[n - 1])]
  BY <1>8 DEF Is
<1>10. Level[0] = {Root} /\ \A n \in 1..Deepest : Level[n] = Children(Level[n - 1])
  <2>1. ASSUME NEW g, NEW h, g = [n \in 0..Deepest |-> IF n = 0 THEN {Root} ELSE Children(h[n - 1])]
        PROVE  g[0] = {Root} /\ \A n \in 1..Deepest : g[n] = Children(h[n - 1])
    BY <2>1, DeepestIsNumber
  <2> QED
    BY <1>9, <2>1
<1>11. \A n \in 0..Deepest : Level[n] \in SUBSET Prefix
  <2> DEFINE Typed == {n \in 0..Deepest : Level[n] \in SUBSET Prefix}
  <2>1. 0 \in Typed
    BY <1>3, <1>10, DeepestIsNumber
  <2>2. \A n \in 1..Deepest : n - 1 \in Typed => n \in Typed
    BY <1>10, ChildrenArePrefixes, DeepestIsNumber
  <2> QED
    BY <2>1, <2>2, BoundedInduction, DeepestIsNumber
<1> QED
  BY <1>9, <1>10, <1>11

(* Each prefix is on one level at most: it is named by one page of one     *)
(* parent, and the root by none.                                           *)
LEMMA OneLevel ==
  ASSUME NEW m \in 0..Deepest, NEW n \in 0..Deepest, NEW p, p \in Level[m], p \in Level[n]
  PROVE  m = n
<1> USE DeepestIsNumber
<1>1. \A k \in 1..Deepest : Root \notin Level[k]
  <2> TAKE k \in 1..Deepest
  <2>1. Level[k - 1] \in SUBSET Prefix /\ Level[k] = Children(Level[k - 1])
    BY Levels
  <2> QED
    BY <2>1, ChildOf, PageNames
<1> DEFINE Alone(i) == \A j \in 0..Deepest : \A x : x \in Level[i] /\ x \in Level[j] => i = j
           S == {i \in 0..Deepest : Alone(i)}
<1>2. 0 \in S
  BY <1>1, Levels
<1>3. ASSUME NEW i \in 1..Deepest, i - 1 \in S PROVE i \in S
  <2> SUFFICES ASSUME NEW j \in 0..Deepest, NEW x, x \in Level[i], x \in Level[j] PROVE i = j
    OBVIOUS
  <2>1. j # 0
    BY <1>1, Levels
  <2>2. /\ Level[i - 1] \in SUBSET Prefix /\ Level[i] = Children(Level[i - 1])
        /\ Level[j - 1] \in SUBSET Prefix /\ Level[j] = Children(Level[j - 1])
    BY <2>1, Levels
  <2>3. PICK q \in Level[i - 1] : \E k \in DOMAIN Pages[q] : x \in Pages[q][k]
    BY <2>2, ChildOf
  <2>4. PICK r \in Level[j - 1] : \E k \in DOMAIN Pages[r] : x \in Pages[r][k]
    BY <2>2, ChildOf
  <2>5. q = r
    BY <2>2, <2>3, <2>4, NamedOnce
  <2>6. i - 1 = j - 1
    BY <1>3, <2>1, <2>3, <2>4, <2>5
  <2> QED
    BY <2>6
<1>4. m \in S
  <2> HIDE DEF S
  <2> QED
    BY <1>2, <1>3, BoundedInduction
<1> QED
  BY <1>4

(* A level that has a prefix has one of every level above it, and so many  *)
(* levels need as many prefixes: below it there is room for another.       *)
LEMMA RoomBelow ==
  ASSUME NEW n \in 0..Deepest, Level[n] # {}
  PROVE  n + 1 \in 0..Deepest
<1> USE DeepestIsNumber
<1> DEFINE S == {k \in 0..n : Level[n - k] # {}}
<1>1. 0 \in S
  OBVIOUS
<1>2. ASSUME NEW k \in 1..n, k - 1 \in S PROVE k \in S
  <2>1. n - k + 1 \in 1..Deepest /\ n - k \in 0..Deepest /\ n - (k - 1) = n - k + 1
        /\ (n - k + 1) - 1 = n - k
    OBVIOUS
  <2>2. Level[n - k + 1] = Children(Level[n - k]) /\ Level[n - k] \in SUBSET Prefix
    BY <2>1, Levels
  <2>3. Level[n - k] # {}
    BY <1>2, <2>1, <2>2, ChildOf
  <2> QED
    BY <2>3
<1>3. \A i \in 0..n : n - i \in 0..n /\ n - (n - i) = i
  OBVIOUS
<1>4. ASSUME NEW i \in 0..n PROVE Level[i] # {}
  <2>1. n - i \in S
    <3> HIDE DEF S
    <3> QED
      BY <1>1, <1>2, <1>3, BoundedInduction
  <2> QED
    BY <1>3, <2>1
<1> DEFINE f == [i \in 0..n |-> CHOOSE p \in Prefix : p \in Level[i]]
<1>5. \A i \in 0..n : f[i] \in Prefix /\ f[i] \in Level[i]
  BY <1>4, Levels
<1>6. f \in Injection(0..n, Prefix)
  <2>1. f \in [0..n -> Prefix]
    BY <1>5
  <2> HIDE DEF f
  <2>2. ASSUME NEW i \in 0..n, NEW j \in 0..n, f[i] = f[j] PROVE i = j
    BY <1>5, <2>2, OneLevel
  <2> QED
    BY <2>1, <2>2 DEF Injection, IsInjective
<1>7. IsFiniteSet(0..n) /\ Cardinality(0..n) = n + 1
  BY FS_Interval
<1>8. n + 1 <= Deepest
  <2> HIDE DEF f
  <2> QED
    BY <1>6, <1>7, BucketAssumption, FS_Injection DEF Deepest
<1> QED
  BY <1>8

(* A prefix that waits or is held was queued with the depth it has in the  *)
(* tree.                                                                   *)
AtLevel(p) == depth[p] \in 0..Deepest /\ p \in Level[depth[p]]
DepthIsLevel ==
  /\ depth \in [Prefix -> Nat]
  /\ \A p \in queue : AtLevel(p)
  /\ \A w \in Worker : job[w] # NoJob => AtLevel(job[w].prefix)

LEMMA DepthOfLevel ==
  ASSUME NEW p \in Prefix, AtLevel(p)
  PROVE  TreeDepth[p] = depth[p]
<1>1. TreeDepth[p] = CHOOSE n \in 0..Deepest : p \in Level[n]
  BY DEF TreeDepth, Deepest
<1>2. TreeDepth[p] \in 0..Deepest /\ p \in Level[TreeDepth[p]]
  BY <1>1 DEF AtLevel
<1> QED
  BY <1>2, OneLevel DEF AtLevel

(* A step that queues nothing and changes no depth keeps the depths.       *)
LEMMA DepthsKept ==
  ASSUME DepthIsLevel, UNCHANGED depth, queue' \subseteq queue,
         \A w \in Worker : job'[w] # NoJob => job'[w].prefix \in queue \/ job'[w] = job[w]
  PROVE  DepthIsLevel'
<1>1. \A p : AtLevel(p) => AtLevel(p)'
  BY DEF AtLevel
<1> QED
  BY <1>1 DEF DepthIsLevel

(* What a page names is one level below the prefix it was listed for, and  *)
(* was neither waiting nor held before.                                    *)
LEMMA DepthsAdded ==
  ASSUME Struct, DepthIsLevel, NEW w \in Worker, AddPrefixes(w), wpc[w] = "add"
  PROVE  DepthIsLevel'
<1> USE DeepestIsNumber
<1> DEFINE p == job[w].prefix
           New == Pages[p][job[w].page]
<1>1. /\ queue' = queue \cup New
      /\ depth' = [x \in Prefix |-> IF x \in New THEN depth[p] + 1 ELSE depth[x]]
      /\ job' = [job EXCEPT ![w].page = @ + 1] \/ job' = [job EXCEPT ![w] = NoJob]
  BY DEF AddPrefixes, NewPrefixes, Drop
<1>2. /\ job[w] # NoJob /\ p \in Prefix /\ job[w].page \in DOMAIN Pages[p]
      /\ New \subseteq Prefix
  <2>1. job[w] # NoJob /\ p \in Prefix /\ job[w].page \in DOMAIN Pages[p]
    BY DEF Struct, Bookkeeping, JobInv, Busy, StructType, Job
  <2> QED
    BY <2>1, PageNames
<1>3. AtLevel(p) /\ depth[p] \in Nat
  BY <1>2 DEF DepthIsLevel
<1>4. ASSUME NEW x \in New PROVE AtLevel(x)'
  <2>1. depth'[x] = depth[p] + 1 /\ depth[p] \in 0..Deepest /\ p \in Level[depth[p]]
    BY <1>1, <1>2, <1>3 DEF AtLevel
  <2>2. depth[p] + 1 \in 0..Deepest /\ depth[p] + 1 \in 1..Deepest /\ (depth[p] + 1) - 1 = depth[p]
    BY <2>1, RoomBelow
  <2>3. /\ Level[depth[p] + 1] = Children(Level[depth[p]])
        /\ Level[depth[p]] \in SUBSET Prefix
    BY <2>1, <2>2, Levels
  <2>4. x \in Level[depth[p] + 1]
    BY <1>2, <2>1, <2>3, ChildOf
  <2> QED
    BY <2>1, <2>2, <2>4 DEF AtLevel
<1>5. ASSUME NEW x \in Prefix, x \notin New, AtLevel(x) PROVE AtLevel(x)'
  BY <1>1, <1>5 DEF AtLevel
<1>6. \A x \in New : x \notin queue /\ \A v \in Worker : ~Holds(v, x)
  BY NewAreUnknown
<1>7. \A x \in queue' : AtLevel(x)'
  BY <1>1, <1>4, <1>5 DEF DepthIsLevel, Struct, StructType
<1>8. ASSUME NEW v \in Worker, job'[v] # NoJob PROVE AtLevel(job[v].prefix)'
  <2>1. job[v] \in Job /\ job[v] # NoJob /\ job'[v].prefix = job[v].prefix
    BY <1>1, <1>2, <1>8 DEF Struct, StructType, Job
  <2>2. job[v].prefix \in Prefix /\ job[v].prefix \notin New
    BY <1>6, <2>1 DEF Job
  <2>3. AtLevel(job[v].prefix)
    BY <2>1 DEF DepthIsLevel
  <2> DEFINE x == job[v].prefix
  <2>4. depth'[x] = depth[x] /\ depth[x] \in 0..Deepest /\ x \in Level[depth[x]]
    BY <1>1, <2>2, <2>3 DEF AtLevel
  <2> QED
    BY <2>1, <2>4 DEF AtLevel
<1>9. depth' \in [Prefix -> Nat]
  BY <1>1, <1>3 DEF DepthIsLevel
<1> QED
  BY <1>7, <1>8, <1>9 DEF DepthIsLevel

(* Every step keeps the depths.                                            *)
LEMMA DepthNext == Struct /\ DepthIsLevel /\ [Next]_vars => DepthIsLevel'
<1> SUFFICES ASSUME Struct, DepthIsLevel, [Next]_vars PROVE DepthIsLevel'
  OBVIOUS
<1> USE DEF Struct, StructType
<1>1. ASSUME NEW w \in Worker, WorkerStep(w) PROVE DepthIsLevel'
  <2>1. CASE GetNextPrefix(w)
    <3>1. /\ UNCHANGED depth /\ queue' \subseteq queue
          /\ \/ job' = job
             \/ \E p \in queue : job' = [job EXCEPT ![w] = [prefix |-> p, page |-> 1]]
      BY <2>1 DEF GetNextPrefix, Top
    <3> QED
      BY <3>1, DepthsKept
  <2>2. CASE AddPrefixes(w) /\ wpc[w] = "add"
    BY <2>2, DepthsAdded
  <2>3. CASE AddPrefixes(w) /\ wpc[w] # "add"
    <3>1. NewPrefixes(w) = {} /\ ~MorePages(w)
      BY <2>3 DEF NewPrefixes, MorePages
    <3>2. UNCHANGED queue /\ job' = [job EXCEPT ![w] = NoJob]
      BY <2>3, <3>1 DEF AddPrefixes, Drop
    <3>3. depth' = [p \in Prefix |-> depth[p]]
      BY <2>3, <3>1 DEF AddPrefixes
    <3>4. UNCHANGED depth
      BY <3>3 DEF DepthIsLevel
    <3> QED
      BY <3>2, <3>4, DepthsKept
  <2>4. CASE ListRepeated(w) \/ ListThrows(w)
    <3>1. UNCHANGED <<queue, depth>> /\ job' = [job EXCEPT ![w] = NoJob]
      BY <2>4 DEF ListRepeated, ListThrows, Drop, shared
    <3> QED
      BY <3>1, DepthsKept
  <2>5. CASE \/ Start(w) \/ ListPage(w) \/ ListExhausted(w) \/ WriteObjects(w) \/ CountOp(w)
             \/ IsDone(w) \/ LoadActive(w) \/ CompareTarget(w) \/ Leave(w)
    <3>1. UNCHANGED <<queue, depth, job>>
      BY <2>5 DEF Start, ListPage, ListExhausted, WriteObjects, CountOp, IsDone, LoadActive,
           CompareTarget, Leave, shared
    <3> QED
      BY <3>1, DepthsKept
  <2> QED
    BY <1>1, <2>1, <2>2, <2>3, <2>4, <2>5 DEF WorkerStep, QueueStep
<1>2. CASE ScalerStep \/ ManagerStep \/ Terminated \/ UNCHANGED vars
  <2>1. UNCHANGED <<queue, depth, job>>
    BY <1>2 DEF ScalerStep, ScalerArm, ScalerTick, ScalerCheck, ScalerAlign, ScalerRealign,
         ScalerCalculate, ScalerRetarget, ScalerSpawn, ScalerAborted, ManagerStep, ManagerPoll,
         ManagerCancelScaler, ManagerCancelWriter, ManagerJoin, Terminated, vars, shared, workers
  <2> QED
    BY <2>1, DepthsKept
<1> QED
  BY <1>1, <1>2 DEF Next

(* A worker takes a prefix off the top of the heap, where the depths are   *)
(* least; and the depths are the levels of the tree.                       *)
LEMMA TakesTheShallowest ==
  ASSUME Struct, DepthIsLevel, [Next]_vars, NEW w \in Worker,
         wpc[w] = "next", wpc'[w] = "list", NEW q \in queue
  PROVE  TreeDepth[job'[w].prefix] <= TreeDepth[q]
<1> USE DEF Struct, StructType
<1>1. GetNextPrefix(w)
  <2>1. ASSUME NEW v \in Worker, WorkerStep(v) PROVE v = w /\ GetNextPrefix(w)
    <3>1. CASE GetNextPrefix(v)
      BY <3>1 DEF GetNextPrefix, Goto
    <3>2. CASE \/ Start(v) \/ ListPage(v) \/ ListExhausted(v) \/ ListRepeated(v) \/ ListThrows(v)
               \/ WriteObjects(v) \/ AddPrefixes(v) \/ CountOp(v) \/ IsDone(v) \/ LoadActive(v)
               \/ CompareTarget(v) \/ Leave(v)
      BY <3>2 DEF Start, ListPage, ListExhausted, ListRepeated, ListThrows, WriteObjects,
           AddPrefixes, CountOp, IsDone, LoadActive, CompareTarget, Leave, Goto
    <3> QED
      BY <2>1, <3>1, <3>2 DEF WorkerStep, QueueStep
  <2>2. CASE ScalerStep \/ ManagerStep \/ Terminated \/ UNCHANGED vars
    BY <2>2 DEF ScalerStep, ScalerArm, ScalerTick, ScalerCheck, ScalerAlign, ScalerRealign,
         ScalerCalculate, ScalerRetarget, ScalerSpawn, ScalerAborted, ManagerStep, ManagerPoll,
         ManagerCancelScaler, ManagerCancelWriter, ManagerJoin, Terminated, vars, workers
  <2> QED
    BY <2>1, <2>2 DEF Next
<1>2. PICK p \in Prefix : Top(p) /\ job' = [job EXCEPT ![w] = [prefix |-> p, page |-> 1]]
  BY <1>1 DEF GetNextPrefix, Goto
<1>3. job'[w].prefix = p /\ p \in queue /\ depth[p] <= depth[q]
  BY <1>2 DEF Top
<1>4. TreeDepth[p] = depth[p] /\ TreeDepth[q] = depth[q]
  BY <1>3, DepthOfLevel DEF DepthIsLevel
<1> QED
  BY <1>3, <1>4

(* The listing is breadth-first, whatever the bucket looks like.           *)
THEOREM ListsBreadthFirst == Spec => BreadthFirst
<1>1. Init => DepthIsLevel
  <2> SUFFICES ASSUME Init PROVE DepthIsLevel
    OBVIOUS
  <2>1. depth = [p \in Prefix |-> 0] /\ queue = {Root} /\ \A w \in Worker : job[w] = NoJob
    BY DEF Init
  <2>2. AtLevel(Root)
    BY <2>1, Levels, DeepestIsNumber, BucketAssumption DEF AtLevel
  <2> QED
    BY <2>1, <2>2 DEF DepthIsLevel
<1>2. Spec => []DepthIsLevel
  BY <1>1, DepthNext, StructInvariant, PTL DEF Spec
<1>3. Struct /\ DepthIsLevel /\ [Next]_vars =>
        [\A w \in Worker : wpc[w] = "next" /\ wpc'[w] = "list" =>
           \A q \in queue : TreeDepth[job'[w].prefix] <= TreeDepth[q]]_vars
  BY TakesTheShallowest
<1> QED
  BY <1>2, <1>3, StructInvariant, PTL DEF Spec, BreadthFirst
-----------------------------------------------------------------------------
(* The numbers                                                             *)

(* The loop counts and calculates as the pool does.                        *)
LEMMA SameNumbers == \A w, sum, n : Loop!Wanted(w, sum, n) = Wanted(w, sum, n)
BY DEF Loop!Wanted, Loop!AskedWith, Loop!DesiredWorkers, Loop!Scaled, Loop!CeilDiv, Loop!Max2,
       Loop!Errors, Wanted, AskedWith, DesiredWorkers, Scaled, CeilDiv, Max2, Errors

(* Two finite sets with nothing in common.                                *)
LEMMA DisjointSum ==
  ASSUME NEW S, NEW T, IsFiniteSet(S), IsFiniteSet(T), S \cap T = {}
  PROVE  /\ IsFiniteSet(S \cup T)
         /\ Cardinality(S) \in Nat /\ Cardinality(T) \in Nat
         /\ Cardinality(S \cup T) = Cardinality(S) + Cardinality(T)
<1>1. Cardinality(S \cap T) = 0
  BY FS_EmptySet
<1>2. IsFiniteSet(S \cup T) /\ Cardinality(S \cup T) = Cardinality(S) + Cardinality(T) - 0
  BY <1>1, FS_Union
<1> QED
  BY <1>2, FS_CardinalityType

(* A worker is idle, spawned, or counted in active_workers.                *)
LEMMA WorkersAre ==
  ASSUME Struct, Counters
  PROVE  /\ IsFiniteSet(Spawned) /\ IsFiniteSet(Idle)
         /\ Cardinality(Spawned) \in Nat /\ Cardinality(Idle) \in Nat
         /\ Cardinality(Worker) \in Nat
         /\ Cardinality(Idle) = Cardinality(Worker) - active_workers - Cardinality(Spawned)
<1>1. IsFiniteSet(Worker) /\ IsFiniteSet(Spawned) /\ IsFiniteSet(Idle) /\ IsFiniteSet(ActiveSet)
  BY PoolAssumption, FS_Subset DEF Spawned, Idle, ActiveSet
<1>2. /\ ActiveSet \cap Spawned = {}
      /\ (ActiveSet \cup Spawned) \cap Idle = {}
      /\ (ActiveSet \cup Spawned) \cup Idle = Worker
  BY DEF ActiveSet, Spawned, Idle, Active, WorkerPc, Struct, StructType
<1>3. /\ IsFiniteSet(ActiveSet \cup Spawned)
      /\ Cardinality(ActiveSet) \in Nat /\ Cardinality(Spawned) \in Nat
      /\ Cardinality(ActiveSet \cup Spawned) = Cardinality(ActiveSet) + Cardinality(Spawned)
  BY <1>1, <1>2, DisjointSum
<1>4. /\ Cardinality(Idle) \in Nat
      /\ Cardinality((ActiveSet \cup Spawned) \cup Idle) = Cardinality(ActiveSet \cup Spawned)
                                                           + Cardinality(Idle)
  BY <1>1, <1>2, <1>3, DisjointSum
<1>5. active_workers = Cardinality(ActiveSet)
  BY DEF Counters, ActiveExact, ActiveSet
<1>6. Cardinality(Worker) = Cardinality(ActiveSet) + Cardinality(Spawned) + Cardinality(Idle)
  BY <1>2, <1>3, <1>4
<1> QED
  BY <1>1, <1>3, <1>4, <1>5, <1>6

(* A step that changes nothing the scaling coroutine keeps, nor how many   *)
(* workers there are, is Turn or no step.                                  *)
LEMMA OnlyTheQueue ==
  ASSUME UNCHANGED <<active_workers, target_workers, Spawned, LoopPosition, samples, ops_sum, desired>>
  PROVE  [Loop!Next]_(Loop!vars)
<1>1. UNCHANGED Cardinality(Spawned)
  OBVIOUS
<1>2. CASE UNCHANGED (total_queue_length > 0)
  BY <1>1, <1>2 DEF Loop!vars, Loop!pool, Loop!mean
<1>3. CASE ~UNCHANGED (total_queue_length > 0)
  <2>1. (total_queue_length > 0)' = ~(total_queue_length > 0)
    BY <1>3
  <2>2. Loop!Turn
    BY <1>1, <2>1 DEF Loop!Turn, Loop!mean
  <2> QED
    BY <2>2 DEF Loop!Next
<1> QED
  BY <1>2, <1>3

(* What a worker does to the numbers.                                      *)
LEMMA WorkerCounts ==
  ASSUME Struct, Counters, NEW w \in Worker, WorkerStep(w)
  PROVE  [Loop!Next]_(Loop!vars)
<1>1. CASE Start(w)
  <2>1. Spawned' = Spawned \ {w} /\ w \in Spawned
    BY <1>1 DEF Start, Goto, Spawned, Struct, StructType
  <2>2. Cardinality(Spawned)' = Cardinality(Spawned) - 1 /\ Cardinality(Spawned) > 0
    BY <2>1, WorkersAre, FS_RemoveElement, FS_EmptySet
  <2>3. UNCHANGED <<total_queue_length, target_workers, LoopPosition, samples, ops_sum, desired>>
        /\ active_workers' = active_workers + 1
    BY <1>1 DEF Start, scaler, LoopPosition
  <2> QED
    BY <2>2, <2>3 DEF Loop!Next, Loop!Start, Loop!mean
<1>2. CASE Leave(w)
  <2>1. w \in ActiveSet
    BY <1>2 DEF Leave, ActiveSet, Active, WorkerPc
  <2>2. active_workers > 0
    BY <2>1, FiniteSets, FS_EmptySet DEF Struct, Counters, ActiveExact, ActiveSet
  <2>3. UNCHANGED <<total_queue_length, target_workers, LoopPosition, samples, ops_sum, desired>>
        /\ active_workers' = active_workers - 1
    BY <1>2 DEF Leave, scaler, LoopPosition
  <2>4. UNCHANGED Spawned
    BY <1>2 DEF Leave, Goto, Spawned, Struct, StructType
  <2> QED
    BY <2>2, <2>3, <2>4 DEF Loop!Next, Loop!Leave, Loop!mean
<1>3. CASE ~(Start(w) \/ Leave(w))
  <2>1. UNCHANGED <<active_workers, target_workers, LoopPosition, samples, ops_sum, desired>>
    BY <1>3 DEF WorkerStep, QueueStep, GetNextPrefix, ListPage, ListExhausted, ListRepeated,
         ListThrows, WriteObjects, AddPrefixes, CountOp, IsDone, LoadActive, CompareTarget,
         shared, metrics, scaler, LoopPosition
  <2>2. wpc[w] # "spawned" /\ \E to \in Active : wpc' = [wpc EXCEPT ![w] = to]
    BY <1>3 DEF WorkerStep, QueueStep, GetNextPrefix, ListPage, ListExhausted, ListRepeated,
         ListThrows, WriteObjects, AddPrefixes, CountOp, IsDone, LoadActive, CompareTarget,
         Goto, Active, WorkerPc
  <2>3. UNCHANGED Spawned
    BY <2>2 DEF Spawned, Active, Struct, StructType
  <2> QED
    BY <2>1, <2>3, OnlyTheQueue
<1> QED
  BY <1>1, <1>2, <1>3

(* What the scaling coroutine spawns is what the loop does.                *)
LEMMA SpawnCounts ==
  ASSUME Struct, Counters, ScalerSpawn
  PROVE  Loop!Spawn
<1>1. PICK new \in SUBSET Idle :
        /\ Cardinality(new) = WorkersToSpawn
        /\ wpc' = [w \in Worker |-> IF w \in new THEN "spawned" ELSE wpc[w]]
  BY DEF ScalerSpawn
<1>2. Spawned' = Spawned \cup new /\ Spawned \cap new = {}
  BY <1>1 DEF Spawned, Idle
<1>3. IsFiniteSet(Spawned) /\ IsFiniteSet(new)
  BY WorkersAre, FS_Subset
<1>4. Cardinality(Spawned)' = Cardinality(Spawned) + WorkersToSpawn
  BY <1>1, <1>2, <1>3, DisjointSum
<1>5. WorkersToSpawn = Loop!Missing
  BY WorkersAre DEF WorkersToSpawn, Loop!Missing
<1>6. LoopPosition = "spawn" /\ LoopPosition' = "wait" /\ desired' = 0
      /\ UNCHANGED <<total_queue_length, active_workers, target_workers, samples, ops_sum>>
  BY DEF ScalerSpawn, LoopPosition, shared, metrics
<1> QED
  BY <1>4, <1>5, <1>6 DEF Loop!Spawn, Loop!mean

(* What the scaling coroutine does to the numbers.                         *)
LEMMA ScalerCounts ==
  ASSUME Struct, Counters, ScalerStep
  PROVE  [Loop!Next]_(Loop!vars)
<1> USE DEF shared, metrics, workers, Loop!pool, Loop!mean
<1>1. ASSUME UNCHANGED <<shared, workers>>
      PROVE  UNCHANGED <<total_queue_length, active_workers, target_workers, Spawned>>
             /\ UNCHANGED (total_queue_length > 0) /\ UNCHANGED Cardinality(Spawned)
  BY <1>1 DEF Spawned
<1>2. CASE ScalerArm \/ ScalerAborted
  <2>1. UNCHANGED <<LoopPosition, samples, ops_sum, desired>>
    BY <1>2 DEF ScalerArm, ScalerAborted, LoopPosition
  <2>2. UNCHANGED <<shared, workers>>
    BY <1>2 DEF ScalerArm, ScalerAborted
  <2> QED
    BY <1>1, <2>1, <2>2, OnlyTheQueue
<1>3. CASE ScalerTick
  <2> DEFINE new  == total_ops - previous_ops
             full == Len(samples) = Window
  <2>1. new \in Nat
    BY DEF Counters, TypeOK
  <2>2. /\ samples' = Append(IF full THEN Tail(samples) ELSE samples, new)
        /\ ops_sum' = ops_sum + new - (IF full THEN Head(samples) ELSE 0)
    BY <1>3 DEF ScalerTick
  <2>3. LoopPosition = "wait" /\ LoopPosition' = "check" /\ UNCHANGED desired
    BY <1>3 DEF ScalerTick, LoopPosition
  <2>4. UNCHANGED <<shared, workers>>
    BY <1>3 DEF ScalerTick
  <2> HIDE DEF new
  <2>5. Loop!Tick
    BY <1>1, <2>1, <2>2, <2>3, <2>4 DEF Loop!Tick
  <2> QED
    BY <2>5 DEF Loop!Next
<1>4. CASE ScalerCheck
  <2>1. UNCHANGED <<samples, ops_sum, desired>> /\ UNCHANGED <<shared, workers>>
    BY <1>4 DEF ScalerCheck
  <2>2. LoopPosition = "check"
        /\ LoopPosition' = IF total_queue_length > 0 THEN "calculate" ELSE "align"
    BY <1>4 DEF ScalerCheck, LoopPosition, Counters, TypeOK
  <2>3. Loop!Check
    BY <1>1, <2>1, <2>2 DEF Loop!Check
  <2> QED
    BY <2>3 DEF Loop!Next
<1>5. CASE ScalerAlign
  <2>1. /\ UNCHANGED <<samples, ops_sum>> /\ UNCHANGED <<shared, workers>>
        /\ LoopPosition = "align" /\ LoopPosition' = "realign" /\ desired' = active_workers
    BY <1>5 DEF ScalerAlign, LoopPosition
  <2>2. Loop!Align
    BY <1>1, <2>1 DEF Loop!Align
  <2> QED
    BY <2>2 DEF Loop!Next
<1>6. CASE ScalerRealign
  <2>1. /\ UNCHANGED <<total_queue_length, active_workers, Spawned, samples, ops_sum>>
        /\ LoopPosition = "realign" /\ LoopPosition' = "wait"
        /\ target_workers' = desired /\ desired' = 0
    BY <1>6 DEF ScalerRealign, LoopPosition, Spawned
  <2>2. Loop!Realign
    BY <2>1 DEF Loop!Realign
  <2> QED
    BY <2>2 DEF Loop!Next
<1>7. CASE ScalerCalculate
  <2>1. UNCHANGED <<samples, ops_sum>> /\ UNCHANGED <<shared, workers>>
    BY <1>7 DEF ScalerCalculate
  <2>2. /\ LoopPosition = "calculate"
        /\ \E d \in Loop!Wanted(active_workers, ops_sum, Len(samples)) :
             IF d # target_workers
             THEN desired' = d /\ LoopPosition' = "retarget"
             ELSE desired' = 0 /\ LoopPosition' = "wait"
    BY <1>7, SameNumbers DEF ScalerCalculate, LoopPosition
  <2>3. Loop!Calculate
    BY <1>1, <2>1, <2>2 DEF Loop!Calculate
  <2> QED
    BY <2>3 DEF Loop!Next
<1>8. CASE ScalerRetarget
  <2>1. /\ UNCHANGED <<total_queue_length, active_workers, Spawned, samples, ops_sum, desired>>
        /\ LoopPosition = "retarget" /\ LoopPosition' = "spawn" /\ target_workers' = desired
    BY <1>8 DEF ScalerRetarget, LoopPosition, Spawned
  <2>2. Loop!Retarget
    BY <2>1 DEF Loop!Retarget
  <2> QED
    BY <2>2 DEF Loop!Next
<1>9. CASE ScalerSpawn
  BY <1>9, SpawnCounts DEF Loop!Next
<1> QED
  BY <1>2, <1>3, <1>4, <1>5, <1>6, <1>7, <1>8, <1>9 DEF ScalerStep

(* The main thread's signal ends the loop, or finds it on its way to the   *)
(* timer and is lost; nothing else is of concern to it.                    *)
LEMMA OthersCount ==
  ASSUME ManagerStep \/ UNCHANGED vars
  PROVE  [Loop!Next]_(Loop!vars)
<1> USE DEF shared, metrics, workers, scaler
<1>1. UNCHANGED <<total_queue_length, active_workers, target_workers, Spawned,
                  samples, ops_sum, desired>>
  BY DEF ManagerStep, ManagerPoll, ManagerCancelScaler, ManagerCancelWriter, ManagerJoin,
       vars, Spawned
<1>2. CASE UNCHANGED spc
  BY <1>1, <1>2, OnlyTheQueue DEF LoopPosition
<1>3. CASE ~UNCHANGED spc
  <2>1. spc = "wait" /\ spc' = "aborted"
    BY <1>3 DEF ManagerStep, ManagerPoll, ManagerCancelScaler, ManagerCancelWriter,
         ManagerJoin, vars
  <2>2. LoopPosition = "wait" /\ LoopPosition' = "gone"
    BY <2>1 DEF LoopPosition
  <2>3. Loop!Cancel
    BY <1>1, <2>2 DEF Loop!Cancel, Loop!pool, Loop!mean
  <2> QED
    BY <2>3 DEF Loop!Next
<1> QED
  BY <1>2, <1>3

(* The scaling coroutine of the pool does what ScalingLoop does with the   *)
(* numbers it sees: what is proved of the loop is so of the pool.          *)
THEOREM PoolScalesByNumbers == Spec => ScalesByNumbers
<1>1. Init => Loop!Init
  <2> SUFFICES ASSUME Init PROVE Loop!Init
    OBVIOUS
  <2>1. Spawned = {}
    BY DEF Init, Spawned
  <2>2. Cardinality(Spawned) = 0
    BY <2>1, FS_EmptySet
  <2> QED
    BY <2>2 DEF Init, Loop!Init, LoopPosition
<1>2. Struct /\ Counters /\ [Next]_vars => [Loop!Next]_(Loop!vars)
  <2> SUFFICES ASSUME Struct, Counters, [Next]_vars PROVE [Loop!Next]_(Loop!vars)
    OBVIOUS
  <2>1. ASSUME NEW w \in Worker, WorkerStep(w) PROVE [Loop!Next]_(Loop!vars)
    BY <2>1, WorkerCounts
  <2>2. CASE ScalerStep
    BY <2>2, ScalerCounts
  <2>3. CASE ManagerStep \/ UNCHANGED vars
    BY <2>3, OthersCount
  <2> QED
    BY <2>1, <2>2, <2>3 DEF Next, Terminated
<1> QED
  BY <1>1, <1>2, CountersInvariant, PTL DEF Spec, ScalesByNumbers, Loop!Spec
=============================================================================
