# s3cpp: a verification development

TLA+ modules, TLC configurations and TLAPS proofs for s3cpp, a C++ client for S3
built on Boost.Asio coroutines, and for `list_all_objects`, the tool that lists a
whole bucket with it. Paths are relative to the repository; line numbers of
definitions are in `PROJECT.json` under `map`.

## 1. The system

`list_all_objects` walks the "directories" of a bucket (requests carry
`Delimiter=/`). Worker coroutines take prefixes from a shared heap, list each page
by page, push the text of the objects to a lock-free stack, and add the
sub-prefixes of each page to the heap. A scaling coroutine spawns and retires
workers, a writer coroutine empties the stack into the output file, and the main
thread waits in the destructor of `WorkerManager` until the work is done. All
coroutines run on one `thread_pool`, so they are truly concurrent.

| Component | State | Operations | Talks to |
|---|---|---|---|
| Worker (`worker.cpp`) | prefix and token of its listing; shared: `prefix_queue`, `queue_mutex`, `Metrics` | `work`, `get_next_prefix`, `process_prefix`, `list_one`, `is_done`, `should_terminate_early`, `write_objects` | other workers through heap and counters; the writer through `write_stack`; the client |
| WorkerManager (`worker_manager.cpp`) | `target_workers`, `active_workers`, the samples of the rolling mean | constructor, `scaling_worker`, `calculate_desired_workers`, `spawn_worker`, destructor | workers through `Metrics` and `co_spawn`; scaler and writer through two cancellation signals |
| Writer (`writer_coroutine`) | `write_stack`, the chunk in hand | wait 10 ms, pop, `async_write`, return when aborted | workers, main thread, the file |
| DnsCache (`dns_cache.cpp`) | `current_endpoints`, `being_updated`, `last_error` | constructor, `update`, `get_endpoint` | every request of a session |
| Client listings (`list_objects.cpp`) | none | build the query, `parse_list_objects` | Session; the worker |
| Session (`session.cpp`, `session_extra.cpp`) | the stream of a request | resolve, connect, TLS, send, receive, parse | DnsCache, iam, the network |
| Request signing (`lib/aws/iam`) | none | canonical request, string to sign, signature, URL encoding | Session |
| `list_buckets` (`list_buckets.cpp`) | none | build the query, `parse_list_buckets` | Session; no caller in the repository |
| `main` and the statistics thread (`list_all_objects.cpp`) | the `jthread` and its stop token | start the thread, open the output file, construct and destroy the `WorkerManager`, stop and join the thread | WorkerManager; the thread reads `Metrics` |
| Data types (`types.hpp`) | none | `Object`, `Bucket` out of XML, their members as JSON | the parsers, `write_objects` |

What is hard here, and what must be true of it:

* *Detecting the end.* The counter of waiting prefixes is 0 each time the last one
  is taken, although its sub-prefixes are still to come; only `active_workers`
  tells this from the end. Workers spawned late, workers that leave early and
  workers that die by an exception all move that counter. The main thread must
  stop waiting neither before the work is done nor never.
* *Counters read without the mutex.* `total_queue_length` is updated inside the
  critical sections of the heap and read outside of them; it is unsigned.
* *The heap keeps emptied entries.* Taking the last prefix out of an entry leaves the entry
  in the heap; workers and the destructor pop it only when they find it on top. Whoever
  looks must not take an emptied top for an empty heap, and the destructor must not
  report prefixes that are not there.
* *No prefix forgotten, no page twice*, with retries, pages that fail for good, and
  several workers adding entries of different depths out of order.
* *Cancellation.* A signal reaches a coroutine only while it has a handler in the
  slot, that is, while it waits on its timer.
* *The writer* may be told to stop while chunks are on the stack.
* *The DNS cache* lets one coroutine update while the others go on with old
  endpoints; the flag must be released whatever the outcome, and two objects
  (`current_endpoints`, `last_error`) are not written together. A failed update replaces
  endpoints that still worked by a null pointer, which nobody refreshes: all workers
  share that fate, whatever they retry.
* *Retries* must ask for the same page again, and a page that names itself as its
  successor must not keep a worker busy for ever.
* *Parsing.* An element that is not there and an empty one look the same to the code; the
  optionals of the data types, the token that ends a listing and the one bucket taken of each
  `Buckets` element all rest on that. An object must not get lost between the answer and
  the output.
* *Signing.* What is signed must be what is sent, over encodings, headers that are set,
  replaced or left alone, and in the one order that works.
* *Scaling.* The arithmetic must not ask for fewer workers than operations or alternate
  between two numbers, with a mean that is a double and may be on either side of a bound;
  what it asks for is compared with the target and turned into coroutines in later steps,
  while workers start and leave.
* *The exit.* `main` leaves through three joins: of the pool with its two cancelled
  coroutines, and of the statistics thread, also when there is no output file.

`PROJECT.json` lists these hazards one by one, each at its line, with the
properties that would catch it going wrong.

## 2. The modules

| Module | What it models |
|---|---|
| `WorkerScaling` | `calculate_desired_workers`, as integer arithmetic |
| `ScalingLoop` | the scaling coroutine over numbers: of the workers only how many, of the queue only whether prefixes wait |
| `BucketWalk` | abstract: what a traversal promises, with no workers |
| `WorkerPool` | workers, scaling coroutine and main thread around the queue and `Metrics` |
| `HeapPool` | `WorkerPool` with the heap of `PrefixQueueEntry` in place of the set of prefixes |
| `OutputWriter` | `write_stack`, writer coroutine, its signal |
| `ListAllObjects` | the process: `main`, statistics thread, `WorkerPool` and `OutputWriter` |
| `ListOutcomes` | abstract: what the pool takes for granted of a worker at one prefix |
| `PrefixListing` | one worker at one prefix: pages, retries, network steps, what the parser does to it |
| `DnsCache` | `get_endpoint` and `update`, any number of callers |
| `SessionRequests` | the retries of several workers over one `DnsCache` |
| `ResponseParsing` | from the body of an answer to the results and to the text that is written |
| `RequestSigning` | target, headers and signature of a request, against what a server computes |
| `WorkerPoolProofs` | the theorems about `WorkerPool` |
| `ProcessProofs` | those about what is built on it: `HeapPool` and `ListAllObjects` |
| `PrefixListingProofs`, `SigningProofs`, `ParsingProofs`, `ScalingProofs` | those about `PrefixListing`, `RequestSigning`, `ResponseParsing`, and `ScalingLoop` with `WorkerScaling` |
| `SessionProofs` | those about `DnsCache` and `SessionRequests` |
| `NaturalLemmas` | induction and recursion over the numbers, for the proofs |
| `MCWorkerPool`, `MCHeapPool`, `MCListAllObjects`, `MCRequestSigning`, `MCResponseParsing` | the buckets, dates and documents of TLC's instances |

### How state and actions correspond to the code

**`WorkerPool`.** One step is one access to state that another coroutine can see: a
critical section of `queue_mutex`, or one load or store of an atomic. `wpc[w]` is
the place of a coroutine in `Worker::work`: `Start` (`active_workers++`),
`GetNextPrefix`, `ListPage` and its three ways to fail, `WriteObjects`,
`AddPrefixes` and `CountOp` (the critical section at the end of a round of
`process_prefix`), `IsDone`, `LoadActive` and `CompareTarget` (the two loads of
`should_terminate_early`), `Leave` (the `scope_exit`). `spc` is the place in
`scaling_worker`, `mpc` that in the destructor.

* The heap of entries is the set of the prefixes in them, each with its depth. The order
  among prefixes of the same depth is open. `HeapPool` has the entries.
* `AddPrefixes` and `CountOp` are two steps under one lock, because
  `total_queue_length` and `total_ops` are read without it. `MutexFree` is false
  between them.
* `list_one` with its retries is one step with the outcomes its caller can tell
  apart: a page, an empty result after the last retry, a page that names itself as
  successor, an exception. `PrefixListing` is that step in detail and implements
  `ListOutcomes`, which states these outcomes for a whole prefix.
* A bucket is a constant, `Pages[p][i]` being the prefixes named on the i-th page
  of `p`. With `Delimiter=/` a prefix is rolled up on one page of one parent; this
  is `BucketAssumption`. Buckets that change during the listing are not modelled.
* Emitting a signal while its slot is being changed by another thread is a data
  race in the code. The model gives it the two outcomes the slot allows: delivered
  (the coroutine waits on its timer) or lost.
* Doubles: a mean is kept as the fraction `ops_sum / Len(samples)` and a factor as
  a percentage. The rolling mean of the code is corrected a little by each sample, so that it
  may differ from the fraction by what was rounded away. `Wanted` has all that
  `calculate_desired_workers` may make of that: with the mean, just below it, and just above
  it, which counts where the mean would be equal to one of the bounds it is compared with.
  For the factors 1.2 and 0.8, the defaults of the command line, the rounded-up product of the
  code equals that of the model for every number of workers up to 3000.

**`ScalingLoop`.** The steps of `scaling_worker` are those of `WorkerPool`: `Tick` (the timer
and the sample), `Check`, `Align` and `Realign` (the branch for an empty queue), `Calculate`
with the comparison with the target, `Retarget`, `Spawn`, and `Cancel` by the signal. `Start`,
`Leave` and `Turn` (the queue empties, or fills again) are what the workers may do to the
numbers between any two of them, for whatever reason. There may be as many workers here as
the arithmetic needs to show what it does; `WorkerPool` has as many as TLC can interleave.

**`HeapPool`.** The heap is a set of entries, told apart by the page that named their
paths; any entry of least depth may be on top, since `std::priority_queue` does not say which.
`Cleaned(h)` is what the loops of `get_next_prefix` and of the destructor, which pop emptied
entries off the top, may leave of `h`. `PopPrefix`, `EmplacePrefixes` and `ManagerLook` stand for
the three actions of `WorkerPool` that touch the heap; all others are taken over. `at_depth` is the local `depth` of `process_prefix`. `queue` and `depth` are kept as
history variables, which no action of `HeapPool` reads.

**`OutputWriter`.** `Arm`, `Expire`, `Pop`, `WriteOk`/`WriteError`, `Drained` are the
writer's loop, `Push` the last line of `write_objects`, `Emit` the signal. The order
in which the stack yields chunks is open. Its `Next` assumes of the workers that they push
each chunk once (`Chunks` are those pushed so far) and none after the signal.

**`ListAllObjects`.** Joins the two where they meet: a worker's push, the signal, and
`pool->join()`, which waits for the writer too. It adds `main`: the start of the statistics
thread, the opening of the output file, which may fail, and the stop and join of the thread on
both ways out. A page without objects pushes nothing (`NoObjects`).

**`PrefixListing`.** A continuation token (V2) or marker (V1) is the number of the page
it asks for; `Stages` are the network steps of a request with and without TLS. Each
step may fail with an error code; the stream's expiry after 300 s is one of them. An
answer is a listing with `IsTruncated`, the next token and the echo of the old one, or
something that is not a listing; the HTTP status is not looked at by the code. Between
rounds `token` keeps its value while `list_one` holds the moved-from parameter; the
next round overwrites it before it is read.

**`DnsCache`.** One step is one lock-protected read or write of `current_endpoints`, one
operation on an atomic, or one end of `async_resolve`. Endpoints are known by their time
of creation, so that age and order can be compared; `system_clock` is taken not to be
set back, and `async_resolve` to end.

**`SessionRequests`.** Each caller is a worker in `list_one_impl`: an attempt calls
`get_endpoint`, step by step as in `DnsCache`; with endpoints the rest of the request is one
step that may fail, which `PrefixListing` has in detail; without, the error goes up and
the attempt is repeated after the sleep, until the retries are used up.

**`ResponseParsing`.** `Parse` is `parse_list_objects` or `parse_list_buckets` on one document,
`WriteObjects` the text of `write_objects` in either format. A document is its elements, with
texts of the kinds the code treats differently: empty or missing, an enumerator or no
enumerator, a number, a number with text after it, no number.

**`RequestSigning`.** `Build` is `method_impl` up to the request it constructs, over the queries
of `list_objects`, `list_objects_v2` and `list_buckets` and the path and body of `put`;
`Prepare` is `prepare_request` with `canonicalize_request` and `sign_request`. A text is known by
what URL encoding does to it, a path by the kind of each character, a header by the sequence of
its values. The second half of the module is the server's: it decodes and encodes the
target it got, takes every value of every header and parameter, and signs again.

### Composition and abstraction

    HeapPool  =>  WorkerPool  =>  BucketWalk
                      |       =>  ScalingLoop
                ListAllObjects  =>  OutputWriter
    PrefixListing  =>  ListOutcomes      (what WorkerPool assumes of list_one)
    SessionRequests  =>  DnsCache

Each arrow is a refinement that is proved, and most are also checked by TLC. The one that is
not is `ScalesByNumbers`, that `WorkerPool` implements `ScalingLoop`: the loads of the loop
are all numbers there, which TLC cannot enumerate.

`WorkerPool` implements `BucketWalk` (`WalksBucket`): a prefix is *waiting* while
it is in the heap, *open* while a worker has still to enter a page of it, a page is
*listed* once its sub-prefixes are in the heap, and the walk has *ended* when the main
thread stops waiting. `BucketWalk` knows no counters: that its `End` needs both sets
empty is what the two counters have to deliver.

`HeapPool` implements `WorkerPool` (`ImplementsPool`) with the history variables as its queue.
`ListAllObjects` is a conjunction of actions of `WorkerPool` and `OutputWriter`; that it uses the
writer as `OutputWriter` assumes is the theorem `WriterIsUsedAsAssumed`.

## 3. The runs

| Run | Configuration | Checks |
|---|---|---|
| `pool` | `HeapPool`: 2 workers, a bucket of 3 levels and 4 prefixes of which one has 2 pages, all faults; 1.5 million states | types, counters, books of prefixes and of the heap, end detection, breadth-first, `ImplementsPool`, `WalksBucket`, `FiniteWork` |
| `pool_live` | 2 workers, flat bucket with a root of two pages, all faults, fairness | `EndsUnlessStalled` |
| `whole` | 2 workers, a chain of two prefixes, an empty page, failing writes, an output file that may not open, fairness | output complete at exit, one place per page, writer drained, no push after the signal, exit once both signals were delivered |
| `session` | 3 callers, TTL 0, clock to 2, 1 retry, failing requests, fairness; 0.5 million states | one updater, reasons, never older, stale only during an update, flag released, a barren cache stays barren, every call of `list_one` ends |
| `listing` | 4 pages, 5 retries, TLS, all faults, fairness | pages in order, full persistence, `ImplementsOutcomes`, `AlwaysNearer`, `Returns` |
| `parsing` | documents of up to two objects, prefixes or buckets, with all kinds of text | `EveryObjectWritten`, `TokenIffTruncated`, `BucketsIfOneEach` |
| `signing` | all calls over three kinds of text, paths of 2 characters, headers given or not, once or twice, two dates | `SignatureAccepted`, `MandatorySigned`, `BodyCovered` |
| `scaling` | window of 3, loads of 0, 1, 5 and 12 operations, up to 14 workers, factors 1.2 and 0.5 | `KeepsUp`, `NoSwing` |
| `pool_zero`, `pool_stall`, `pool_cancel`, `pool_loss` | small instances | one statement of a comment or of the README each, which the code does not keep (section 5) |

Why the bounds are enough:

* Two workers and the scaler make all the races on the counters: both hold a prefix,
  one adds while the other finds the heap empty, both count themselves as the surplus,
  one is spawned and not yet running while the other is the last to leave. The bucket has a
  prefix with a second page, siblings and a level below one of them, so entries of
  different depth are in the heap at once, and prefixes are added while a sibling is being
  listed. `Worker` also bounds how many coroutines exist: the code spawns more, the model
  as many as are free. What is proved (section 4) holds for every number.
* `Window` is 1 or 2 in the runs of the pool, 1 in `whole` and 3 in `scaling`,
  instead of 60, so that samples leave the window within a run. `IdleFloor` is 2 where the target has to be reachable by the workers there are, and
  10, the code's value, in the runs about the targets themselves.
* `session` lets endpoints go stale twice, with TTL 0 at each tick, and lets each caller meet
  each phase of an update of another; a third caller meets what two have left behind.
* `listing` has a first, two middle and a last page (the repeated token is possible from
  the second on) and the code's own number of retries.
* `scaling` has every window of up to 3 samples of loads below, at and above one operation
  per interval and above the idle floor of 10, in any order, so that means fall below, on and
  above each bound; any number of workers up to 14, active or not yet started; and a factor for
  scaling down far below the two thirds the band of 1.5 allows for.
* `parsing` needs two of each repeated element: order, the first of several, none.
* `signing` needs no long texts: encoding is by character, and a path of two has a first
  character, which is a slash, and one of each kind after it.
* `whole` has the smallest bucket with a second level and a page without objects; a larger
  one, or faults of the listing, add only states of the pool that `pool` has already.

Deadlock is checked in every run; a process that has exited, and a prefix or a document that
is done, stutter explicitly.

Fairness is weak and on whole coroutines, which the thread pool justifies: it runs every
coroutine that is ready, timers expire, a request ends by itself or by the expiry of its
stream, a resolver call ends, and the main thread polls every second. No worker is obliged to
call `list_one`, the clock need not advance, and no fairness is put on the choice
between success and failure.

Symmetry of the workers is used in `pool` only, which checks no liveness property.

Each property of a passing run has a mutant: a change of one definition, as a plausible
bug would make it, that the run then reports. The mutated forms stand before the
definitions they replace, under a comment that starts with "Mutant".

## 4. The proofs

TLAPS checks all theorems of the eight proof modules. They hold for every value of the
constants that meets the named assumptions: `BucketAssumption`, `PoolAssumption`,
`ScalingAssumption`, `ProcessAssumption`, `CacheAssumption`, `RetryAssumption`,
`ListingAssumption`, `SigningAssumption`, `ParsingAssumption` and `LoopAssumption`. All but one
say of what range a constant is; `BucketAssumption` says in addition that the bucket is finite,
that every prefix has at least one page and that each prefix is named on one page only. Where a
theorem needs more, its statement says so (`NeverSwings`). Every
safety invariant and every action property of a passing run is stated by a theorem. The types
of `PrefixListing` are only proved, not checked by a run besides.

**`NaturalLemmas`** - The library's induction theorems take a predicate as a parameter, which
these provers cannot instantiate. Here the predicate is a set of numbers and the step of a
recursion a function on pairs: `LeastNumber`, `NumberInduction` and `Recursion` follow from the
well-foundedness of the order. The models' recursive functions (the levels of a bucket,
the lines of an output) are reasoned about through them.

**`WorkerPoolProofs`** - any finite bucket, any finite set of workers, any faults.

1. `BooksAreKept`: `Bookkeeping` is inductive, together with the types of the sets it
   talks about. `OncePerPage` and `CompleteListing` are not inductive by themselves:
   to know that a page about to be pushed is not on the stack already, one must know that
   its prefix has one owner, that the prefix was named before it was taken, and that
   what is written of it is exactly what comes before its owner's page. To know in turn that
   a prefix just named is not owned by anybody, `NamedOnce` uses the assumption on
   buckets: the page that names it was entered for the first time. `Bookkeeping` is the
   conjunction of these parts. `pool` checks it with TLC.
2. `PagesPushedOnce` follows from it.
3. `QueueLengthCorrect`, `ActiveCorrect`, `TypeCorrect`: the two counters follow the
   heap and the coroutines in every step, so neither wraps below zero. The cardinality
   arguments use the finite-set library.
4. `ShutdownCorrect`: once the destructor saw both counters at 0, nothing waits, nobody
   is busy, and no step changes that, those of workers spawned late included.
5. `ListingComplete` combines 1 and 4.
6. `PoolWalksBucket`: every step is one of `BucketWalk` or a stutter under it, by
   cases on the action, with `OpenMoves` saying how the set of open prefixes follows the
   worker that moves.
7. `WorkRunsOut`: each of those steps lowers `WorkLeft`, which counts the prefixes still to
   be opened twice, the pages still to be listed, the open prefixes, and the end itself. Opening
   a prefix takes it off the first count because it had been named, and listing a page
   adds nothing to it because that page was the only one to name its prefixes. So the pool
   can do no work for ever; what may go on for ever is looking: of workers into an empty
   queue, of the scaling coroutine at its counters, and of the destructor (`pool_stall`).
8. `ListsBreadthFirst`: the levels of the bucket's tree are disjoint (`OneLevel`), since a
   prefix has one parent, and no path is longer than there are prefixes (`RoomBelow`), so that
   each prefix reached has a level. Each prefix in the queue was entered with its level as
   depth (`DepthIsLevel`, inductive), and the heap yields the least.
9. `PoolScalesByNumbers`: every step is one of `ScalingLoop` or a stutter, by cases on the
   action. That as many coroutines are spawned as the loop says needs that each worker
   is idle, spawned or counted in `active_workers` (`WorkersAre`), which is 3.

**`ProcessProofs`**, on top of it, in two parts. *The heap*: `HeapBooksAreKept` needs
`Bookkeeping` of the pool: that a page just listed makes a new entry, disjoint from the others,
is that it was entered for the first time and that its prefixes are named nowhere else. Given
the books, `Cleaned` loses no prefix, so that each look at the heap is one at the queue
(`HeapImplementsPool`), and an empty queue leaves nothing to report (`HeapIsEmptyAtTheEnd`).

*The process*: the invariant says that the chunks in the writer's four places are the pages
pushed that have objects. With `PagesPushedOnce` and `ShutdownCorrect` (nobody is left to push
once the destructor goes on) the process is shown to use the writer as `OutputWriter` assumes,
and `OutputIsComplete` puts `ListingComplete`, the drained writer and `pool->join()` together.

**`PrefixListingProofs`** - any number of pages and retries, with and without TLS, any
faults. The invariant ties the page asked for to the pages written, the requests to the
retries, and what the parser accepted to the three answers that do not make it throw.
`OutcomesImplemented` follows from it: a step of `list_one` that ends is one of the four
outcomes, all others stutter. `EndComesNearer` is the part of `Returns` that needs no fairness:
pages, retries and network steps make up a number that every step lowers. Since the only state
without a step is the end (`listing` checks for deadlock), all that `Returns` adds is that
steps are taken.

**`SessionProofs`** - any finite number of callers, any TTL, any number of retries. *The
cache*: at most one caller is between `compare_exchange_strong` and the end of its scope;
whoever finds no endpoints finds a reason in `last_error` (the constructor or an update
set it, and nothing ever clears it); and what the updater holds was created after
what it replaces. The last part needs the first: with two updaters an older
answer might be stored last. *Its callers*: `SessionUsesCache` carries every theorem
about the cache over to a session. `BarrenStays`: from a cache without endpoints nobody
gets as far as the update, because the only way there is past the test for null.

**`SigningProofs`** - paths of every length, all calls. `prepare_request` puts the hash among the
headers before `canonicalize_request` chooses those that are signed; the second call to
`WithHash` finds it there. `NothingMandatoryMissing` and `BodyIsCovered` follow from that order.
`ServerAccepts`, an equivalence, compares what the server reads with what was signed, part by
part: each parameter is in the query once (`QueryOfCall`), so that the server's reading of
the target gives back the texts the caller gave, encoded once, unless one was put there
without encoding (`QueryAgrees`); of the path the two encodings agree because it starts with
a slash (`TargetEncoded`); of the headers the first values are all values if each has one
(`SentAsSigned`), and those that `prepare_request` sets have one (`SetSingle`).

**`ParsingProofs`** - answers of every length. `ParsedAlways`: a result is what `Parse` makes of
the answer. `WrittenWhole`: as plain text the lines are the keys, by induction along the
recursion over the objects; as JSON no two members have the same name, so that none
is overwritten and each object is read back. `TokenTells` is by cases on the elements.
`BucketsReturned`, an equivalence, counts: the buckets of an answer are the concatenation of
those of its elements, which has as many as there are elements, in the same places, only if
each has one.

**`ScalingProofs`** - windows of every length, all loads, any number of workers. The invariant
is that of the types, and that there is a sample whenever the mean is needed. The rest is
arithmetic, of the mean and of the mean with either error. `KeepsUpAlways` holds for any
factors: the clamp to the ceiling of the mean is what carries it. `NeverSwings` needs a factor
for scaling up of at most 133 %: with 134 %, three workers and a mean of 3.01 become five,
which is more than 1.5 times the mean, and the next interval takes one back. The default is
120 %. Both are about what is asked for. How many workers there are after some intervals, under
a load that stays as it is, is stated nowhere, because the code does not guarantee it: workers
leave by a comparison of their own, an interval with an empty queue sets the target to
whatever is active, and nobody is spawned while the number wanted is the target already
(section 5, 1 and 2).

Only model-checked: what needs fairness, which this prover cannot reach: `EndsUnlessStalled`,
`ExitsOnceSignalled`, `FlagReleased`, `EveryListEnds` and `Returns`.

## 5. Where code and comments disagree

1. **The pool may scale to zero with work waiting** (`pool_zero`). The comment at
   `worker_manager.cpp:230` says that one worker is always kept. That holds for the target.
   `should_terminate_early` loads `active_workers` and compares later: two workers that
   both load 2 with the target at 1 both leave.
2. **The wait of the destructor may never end** (`pool_stall`). Workers are spawned only
   when the number wanted differs from `target_workers`. When all workers are gone while
   prefixes wait, and the target is 10 already, which is what an idle pool wants, nobody is
   spawned again. An exception of `parse_list_objects` in the last worker is one way
   there. `EndsUnlessStalled` shows that, with exceptions and without, this is the only
   state the pool can be stuck in.
3. **A cancellation signal may be lost** (`pool_cancel`): emitted while
   the coroutine is not at its timer it leaves no trace, the coroutine goes on and
   `pool->join()` does not return. The run shows it of the scaling coroutine; the writer,
   whose handler is in its slot only during its wait of 10 ms, loses it in the same way.
   `ExitsOnceSignalled` shows that this is the only obstacle to the exit.
4. **A prefix may be missing without a message** (`pool_loss`): the exception of a
   malformed answer is discarded by `boost::asio::detached`.

Traits that are no run of their own:

* How many workers are missing is computed from `active_workers`, which leaves out coroutines that
  were spawned and have not run yet (`worker_manager.cpp:186-193`). If one has not by the next
  interval, and the target changes in it, it is spawned again, beyond the target up to which the
  comment at line 188 says workers are spawned. That takes a pool whose threads are busy
  for an interval (1 s by default), and the surplus leaves by `should_terminate_early`. The
  models count as the code does; no property bounds the surplus.
* Of the tokens of a prefix only the last is remembered (`worker.cpp:194`, `206`). A server that
  goes round between two tokens or more would keep a worker at the prefix for ever. The server
  of `PrefixListing` does not: it names the next page, repeats the token it was asked with, or
  sends what is not a listing, and `AlwaysNearer` and `Returns` hold for these answers.
* `start-after` is put into the query without being encoded, so that a caller who does not
  encode it gets a request whose signature does not match (`SignatureAccepted` says exactly
  when a signature matches).
* A failed update of the `DnsCache` replaces usable endpoints by `nullptr`, and a null pointer
  is never refreshed. Unless some caller still has older endpoints in hand and updates with
  them, every later request of the session fails (`BarrenForGood`).
* An object without `Size`, or with an unknown checksum algorithm, makes the whole page throw,
  and with it its prefix crash; one without `Key` is an empty line (`EveryObjectWritten`
  covers it).
* `parse_list_buckets` takes the first `Bucket` of each `Buckets` element, so that it returns the
  buckets of an answer only when there is one in each (`BucketsIfOneEach`). Nothing calls it.

## 6. What is not modelled

* The text of queries, headers and XML as such: what `RequestSigning`, `PrefixListing` and
  `ResponseParsing` distinguish of it is said above. Blanks around header values, the order
  of sorted names and the form of dates; SHA-256 and HMAC, which are taken to be free of
  collisions.
* Members of answers that nothing reads: `Delimiter`, `EncodingType`, `MaxKeys`, `Name`, `Prefix`,
  `StartAfter`, `BucketArn`.
* The parsing of options in `main`, and what the statistics thread prints, `total_objects_found`
  included.
* The stream of a `Session` and its buffers between two steps of a request; the compile-time
  helpers of `meta.hpp`.
* Errors of a timer other than its cancellation, which `writer_coroutine` and `scaling_worker`
  rethrow (`worker_manager.cpp:67`, `159`), and a target that `canonicalize_request` cannot
  parse, for which it throws (`canonicalize.cpp:35`): the targets are the library's own.
* Servers that go round between several tokens (section 5).
* Memory and the life of objects; exceptions thrown by allocation.

## 7. Plan

Done, in this order: the pool and its end (`WorkerPool`, its books, counters and proofs),
the abstract walk and the refinement, the writer and the composition with it, the cache and
its proofs, the listing of one prefix and its proofs, the scaling arithmetic, request signing;
then the heap of entries and its refinement, the outcomes of `list_one` as an abstract
specification, the session over the cache, `main` with the statistics thread, parsing and the
text that is written, the scaling coroutine over numbers; the proofs of the writer, the whole process, the heap, the
session and the headers that are signed; then induction over numbers, and with it the proofs
of the breadth-first order, the parsers and the signature as a whole; that the listing of a prefix and the
work of the pool are finite; and that the pool scales as `ScalingLoop` does.

Next, if anything: the measures of `AlwaysNearer` and `FiniteWork` for a caller of the
session, whose attempts are bounded by the retries, and for the writer between two pushes.
