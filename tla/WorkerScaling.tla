---------------------------- MODULE WorkerScaling ----------------------------
(***************************************************************************)
(* The arithmetic of the scaling coroutine of list_all_objects: how many   *)
(* workers WorkerManager::calculate_desired_workers asks for, given how    *)
(* many are active and the rolling mean of the operations per scaling      *)
(* interval.  The code computes in doubles.  Here a mean is a fraction     *)
(* sum / n, with n > 0, and a scaling factor a percentage, so that every   *)
(* comparison is one of integers; what rounding can make of the mean is in *)
(* Wanted.                                                                 *)
(***************************************************************************)
EXTENDS Integers

CONSTANTS
  ScaleUp,     \* scale_up_factor, in percent (the command line's default: 120)
  ScaleDown,   \* scale_down_factor, in percent (the command line's default: 80)
  IdleFloor    \* workers wanted while there is less than one operation per interval (10)

ASSUME ScalingAssumption ==
  /\ ScaleUp \in Nat
  /\ ScaleDown \in Nat
  /\ IdleFloor \in Nat \ {0}

Max2(a, b) == IF a >= b THEN a ELSE b

CeilDiv(a, b) == (a + b - 1) \div b

(* ceil(max(workers * factor, mean)): both branches that change the number *)
(* of workers compute this, each with its own factor.                      *)
Scaled(workers, percent, sum, n) ==
  Max2(CeilDiv(workers * percent, 100), CeilDiv(sum, n))

(* Mutant: without operations the number of workers is left as it is.      *)
DesiredWorkers_NoIdle(workers, sum, n) == workers

(* Mutant: scaling down looks only at the factor.                          *)
DesiredWorkers_DownByFactor(workers, sum, n) ==
  IF sum < n THEN Max2(workers, IdleFloor)
  ELSE IF workers * n < sum THEN Scaled(workers, ScaleUp, sum, n)
  ELSE IF 2 * workers * n > 3 * sum THEN Max2(1, CeilDiv(workers * ScaleDown, 100))
  ELSE workers

(* Mutant: scaling down already when there are more workers than operations. *)
DesiredWorkers_NoBand(workers, sum, n) ==
  IF sum < n THEN Max2(workers, IdleFloor)
  ELSE IF workers * n < sum THEN Scaled(workers, ScaleUp, sum, n)
  ELSE IF workers * n > sum THEN Max2(1, CeilDiv(workers * ScaleDown, 100) - 1)
  ELSE workers

(* calculate_desired_workers.  The four cases are those of the code, in    *)
(* its order: hardly any operations, fewer workers than operations, more   *)
(* than one and a half workers per operation, neither.                     *)
DesiredWorkers(workers, sum, n) ==
  IF sum < n
  THEN Max2(workers, IdleFloor)
  ELSE Max2(1, CASE workers * n < sum         -> Scaled(workers, ScaleUp, sum, n)
                 [] 2 * workers * n > 3 * sum -> Scaled(workers, ScaleDown, sum, n)
                 [] OTHER                     -> workers)

\* Where the double may be: just below the mean, at it, or just above.
Errors == {-1, 0, 1}

(* Asked for with the rolling mean of n samples, a double that each sample *)
(* corrects a little: it may be off by what was rounded away, which counts *)
(* where the mean would be equal to a bound.  All else it is compared with *)
(* is away from it by more than the error here, the 4n-th part of one.     *)
AskedWith(workers, sum, n, error) == DesiredWorkers(workers, 4 * sum + error, 4 * n)

Wanted(workers, sum, n) == {AskedWith(workers, sum, n, error) : error \in Errors}
=============================================================================
