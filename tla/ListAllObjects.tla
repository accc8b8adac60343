---------------------------- MODULE ListAllObjects ----------------------------
(***************************************************************************)
(* The process list_all_objects: main with its statistics thread, the pool *)
(* of WorkerPool and the writer coroutine of OutputWriter.  Pool and       *)
(* writer meet in three places: a worker's push to the write stack, the    *)
(* signal of ~WorkerManager to the writer, and pool->join(), which waits   *)
(* for the writer too.  Nothing of either exists before main has opened    *)
(* the output file; the statistics thread is there from the start, and is  *)
(* the last thing main waits for.                                          *)
(*                                                                         *)
(* Abstractions.  The options are the CONSTANTS.  The statistics thread    *)
(* only reads what it prints: its loop, its sleep and its stop are kept.   *)
(***************************************************************************)
EXTENDS WorkerPool

CONSTANTS
  NoObjects,   \* the pages <<p, i>> whose text is empty: nothing to push
  WriteFails,  \* BOOLEAN: may a write to the output file fail?
  OpenFails    \* BOOLEAN: may the output file fail to open?

ASSUME ProcessAssumption == WriteFails \in BOOLEAN /\ OpenFails \in BOOLEAN

VARIABLES
  write_stack, str, written, failed, opc, aborted, stopping,   \* OutputWriter
  main,             \* where main is
  stats_thread,     \* where the statistics thread is
  stop_requested    \* its stop_token

Out == INSTANCE OutputWriter WITH Chunk <- Prefix \X Nat

output  == <<write_stack, str, written, failed, opc, aborted, stopping>>
process == <<main, stats_thread, stop_requested>>
allVars == <<vars, output, process>>

MainPc  == {"start", "open", "manager", "stopping", "exited"}
StatsPc == {"none", "running", "returned"}
-----------------------------------------------------------------------------
AllInit ==
  /\ Init
  /\ Out!Init
  /\ main = "start"
  /\ stats_thread = "none"
  /\ stop_requested = FALSE

(* The statistics thread                                                   *)

(* while (!token.stop_requested()).  A round that finds no request sleeps   *)
(* for a second, prints, and is back where it was.                         *)
Stats ==
  /\ stats_thread = "running"
  /\ stop_requested
  /\ stats_thread' = "returned"
  /\ UNCHANGED <<vars, output, main, stop_requested>>

(* main                                                                    *)

StartStats ==
  /\ main = "start"
  /\ main' = "open"
  /\ stats_thread' = "running"
  /\ UNCHANGED <<vars, output, stop_requested>>

(* The output file is open, the WorkerManager is constructed.              *)
OpenOutput ==
  /\ main = "open"
  /\ main' = "manager"
  /\ UNCHANGED <<vars, output, stats_thread, stop_requested>>

(* Mutant: the process ends at once, by abort or _exit.                    *)
LeaveScope_Abandon ==
  /\ \/ main = "open" /\ OpenFails
     \/ main = "manager" /\ mpc = "joined"
  /\ main' = "stopping"
  /\ UNCHANGED <<vars, output, stats_thread, stop_requested>>

(* return 1 without an output file, or ~WorkerManager has returned: the    *)
(* destructor of stats_thread requests its stop.                           *)
LeaveScope ==
  /\ \/ main = "open" /\ OpenFails
     \/ main = "manager" /\ mpc = "joined"
  /\ main' = "stopping"
  /\ stop_requested' = TRUE
  /\ UNCHANGED <<vars, output, stats_thread>>

JoinStats ==
  /\ main = "stopping"
  /\ stats_thread = "returned"
  /\ main' = "exited"
  /\ UNCHANGED <<vars, output, stats_thread, stop_requested>>

(* The coroutines of the pool and ~WorkerManager                           *)

WorkerWrites(w) ==
  /\ WriteObjects(w)
  /\ IF Page(w) \in NoObjects THEN UNCHANGED output ELSE Out!Push(Page(w))

CancelWriter == ManagerCancelWriter /\ Out!Emit

Join ==
  /\ ManagerJoin
  /\ opc = "returned"
  /\ UNCHANGED output

\* The WorkerManager exists.
Managed == main = "manager" /\ UNCHANGED process

AllWriter == Managed /\ Out!Writer /\ UNCHANGED vars

Destructor ==
  /\ Managed
  /\ \/ (ManagerPoll \/ ManagerCancelScaler) /\ UNCHANGED output
     \/ CancelWriter
     \/ Join

\* The main thread.
Main == StartStats \/ OpenOutput \/ Destructor \/ LeaveScope \/ JoinStats

AllWorker(w) == Managed /\ (WorkerWrites(w) \/ (QueueStep(w) /\ UNCHANGED output))

AllScaler == Managed /\ ScalerStep /\ UNCHANGED output

Exited == main = "exited" /\ UNCHANGED allVars

AllNext ==
  \/ Main
  \/ Stats
  \/ \E w \in Worker : AllWorker(w)
  \/ AllScaler
  \/ AllWriter
  \/ Exited

AllSpec == AllInit /\ [][AllNext]_allVars

(* Threads and ready coroutines run, timers expire, requests and writes    *)
(* end.                                                                    *)
AllFairSpec ==
  /\ AllSpec
  /\ WF_allVars(Main)
  /\ WF_allVars(Stats)
  /\ \A w \in Worker : WF_allVars(AllWorker(w))
  /\ WF_allVars(AllScaler)
  /\ WF_allVars(AllWriter)
-----------------------------------------------------------------------------
\* The output file has all of prefix p.
InOutput(p) == \A i \in DOMAIN Pages[p] : <<p, i>> \in written \cup NoObjects

\* Something on stderr, or an exception, says why it may not.
Excused(p) ==
  p \in given_up \cup crashed \/ \E i \in DOMAIN Pages[p] : <<p, i>> \in failed

(* When the process exits after a listing, the output file has every page  *)
(* of every prefix that was named, but for prefixes given up or crashed    *)
(* and pages whose write failed: main leaves with no text on the stack or  *)
(* in a write.                                                             *)
OutputComplete ==
  main = "exited" /\ mpc = "joined" => \A p \in Known : InOutput(p) \/ Excused(p)

(* No page is in the output file twice, or in it and reported as failed.   *)
PagesInOnePlace == Out!OnePlace

(* The writer returns only with nothing left to write: the signal does not *)
(* cut the output off.                                                     *)
WriterReturnsDrained == Out!ReturnsDrained

(* No worker pushes once the writer was told to stop: its last look at the *)
(* stack, after the signal, is the last that is needed.                    *)
NoPushAfterSignal == [][stopping => UNCHANGED pushed]_allVars

(* The process exits, without an output file or after both signals found   *)
(* their coroutines waiting: neither late workers, just spawned when the   *)
(* manager looked, nor the statistics thread keeps it.                     *)
ExitsOnceSignalled ==
  \/ main = "stopping"
  \/ mpc = "join" /\ spc \in {"aborted", "returned"} /\ aborted
  ~> main = "exited"
=============================================================================
