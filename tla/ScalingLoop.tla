----------------------------- MODULE ScalingLoop -----------------------------
(***************************************************************************)
(* The scaling coroutine over numbers.  Of the workers there is only how   *)
(* many are active and how many were spawned and have not started; of the  *)
(* queue, whether prefixes wait.  They change between any two of its steps *)
(* as they do in WorkerPool, which implements this module; here there may  *)
(* be as many workers as its arithmetic needs to show what it does.        *)
(***************************************************************************)
EXTENDS WorkerScaling, Sequences

CONSTANTS
  Window,       \* samples in the rolling mean (60 in the code)
  Loads,        \* operations in an interval
  MaxWorkers    \* bound of the model: worker coroutines at a time

ASSUME LoopAssumption ==
  /\ Window \in Nat \ {0}
  /\ Loads \subseteq Nat
  /\ MaxWorkers \in Nat

VARIABLES
  waiting,   \* total_queue_length > 0
  active,    \* active_workers
  spawned,   \* coroutines spawned that have not started
  target,    \* target_workers
  spc,       \* where the scaling coroutine is
  samples,   \* the window of ops_accumulator
  ops_sum,   \* and the running sum it keeps
  desired    \* local desired_workers (or the loaded active_workers)

pool == <<waiting, active, spawned>>
mean == <<samples, ops_sum>>
vars == <<pool, target, spc, mean, desired>>

LoopPc == {"wait", "check", "align", "realign", "calculate", "retarget", "spawn", "gone"}

Init ==
  /\ waiting = TRUE
  /\ active = 0
  /\ spawned = 0
  /\ target = 1
  /\ spc = "wait"
  /\ samples = <<>>
  /\ ops_sum = 0
  /\ desired = 0
-----------------------------------------------------------------------------
(* The scaling coroutine                                                   *)

Tick ==
  /\ spc = "wait"
  /\ \E new_ops \in Loads :
       LET full == Len(samples) = Window
       IN  /\ samples' = Append(IF full THEN Tail(samples) ELSE samples, new_ops)
           /\ ops_sum' = ops_sum + new_ops - (IF full THEN Head(samples) ELSE 0)
  /\ spc' = "check"
  /\ UNCHANGED <<pool, target, desired>>

(* Without a prefix waiting the target is aligned, and nothing calculated. *)
Check ==
  /\ spc = "check"
  /\ spc' = IF waiting THEN "calculate" ELSE "align"
  /\ UNCHANGED <<pool, target, mean, desired>>

Align ==
  /\ spc = "align"
  /\ desired' = active
  /\ spc' = "realign"
  /\ UNCHANGED <<pool, target, mean>>

Realign ==
  /\ spc = "realign"
  /\ target' = desired
  /\ desired' = 0
  /\ spc' = "wait"
  /\ UNCHANGED <<pool, mean>>

(* Only a number other than the target is a reason to spawn.               *)
Calculate ==
  /\ spc = "calculate"
  /\ \E d \in Wanted(active, ops_sum, Len(samples)) :
       IF d # target
       THEN desired' = d /\ spc' = "retarget"
       ELSE desired' = 0 /\ spc' = "wait"
  /\ UNCHANGED <<pool, target, mean>>

Retarget ==
  /\ spc = "retarget"
  /\ target' = desired
  /\ spc' = "spawn"
  /\ UNCHANGED <<pool, mean, desired>>

\* Up to the target, but those spawned already are not counted.
Missing ==
  IF active >= desired THEN 0
  ELSE IF desired - active <= MaxWorkers - active - spawned THEN desired - active
  ELSE MaxWorkers - active - spawned

Spawn ==
  /\ spc = "spawn"
  /\ spawned' = spawned + Missing
  /\ desired' = 0
  /\ spc' = "wait"
  /\ UNCHANGED <<waiting, active, target, mean>>

(* The signal finds the coroutine at its timer.                            *)
Cancel ==
  /\ spc = "wait"
  /\ spc' = "gone"
  /\ UNCHANGED <<pool, target, mean, desired>>
-----------------------------------------------------------------------------
(* The workers                                                             *)

Start ==
  /\ spawned > 0
  /\ spawned' = spawned - 1
  /\ active' = active + 1
  /\ UNCHANGED <<waiting, target, spc, mean, desired>>

(* For whatever reason: no work, too many workers, an exception.           *)
Leave ==
  /\ active > 0
  /\ active' = active - 1
  /\ UNCHANGED <<waiting, spawned, target, spc, mean, desired>>

(* The last prefix is taken, or prefixes are added to an empty queue.      *)
Turn ==
  /\ waiting' = ~waiting
  /\ UNCHANGED <<active, spawned, target, spc, mean, desired>>

Next ==
  \/ Tick
  \/ Check
  \/ Align
  \/ Realign
  \/ Calculate
  \/ Retarget
  \/ Spawn
  \/ Cancel
  \/ Start
  \/ Leave
  \/ Turn

Spec == Init /\ [][Next]_vars
-----------------------------------------------------------------------------
\* The target, once the coroutine has stored what it calculated.
Chosen == IF spc = "retarget" THEN desired ELSE target

(* What is calculated leaves the target at one at least and not below the  *)
(* mean of the operations, whatever the factors: one for scaling down may  *)
(* be smaller than the band of one and a half allows for.                  *)
KeepsUp ==
  [][spc = "calculate" /\ spc' # spc => Chosen' >= 1 /\ Chosen' * Len(samples) >= ops_sum]_vars

(* Workers just asked for would not be sent away again by the same mean:   *)
(* what scaling up rounds up to is in the band.                            *)
NoSwing ==
  [][spc = "calculate" /\ spc' = "retarget" /\ desired' > active =>
       \A error \in Errors :
         AskedWith(active, ops_sum, Len(samples), error) = desired' =>
           AskedWith(desired', ops_sum, Len(samples), error) >= desired']_vars
=============================================================================
