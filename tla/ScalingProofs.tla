---------------------------- MODULE ScalingProofs ----------------------------
(***************************************************************************)
(* What TLAPS proves of the scaling coroutine: of the arithmetic of        *)
(* WorkerScaling, for all factors that meet its assumption, and of         *)
(* ScalingLoop, for windows of every length, all loads, any number of      *)
(* workers that come and go at any time, and wherever rounding puts the    *)
(* mean.                                                                   *)
(***************************************************************************)
EXTENDS ScalingLoop, TLAPS

-----------------------------------------------------------------------------
(* The arithmetic of one interval                                          *)

(* Rounded up, a quotient times the divisor is not less than the dividend. *)
LEMMA CeilCovers ==
  ASSUME NEW a \in Nat, NEW b \in Nat \ {0}
  PROVE  CeilDiv(a, b) \in Int /\ CeilDiv(a, b) * b >= a
<1> DEFINE q == (a + b - 1) \div b
<1>1. q \in Int /\ a + b - 1 = b * q + ((a + b - 1) % b)
  BY SMTT(30)
<1>2. (a + b - 1) % b \in 0..(b - 1)
  OBVIOUS
<1> QED
  BY <1>1, <1>2, SMTT(30) DEF CeilDiv

(* A product with more workers is not smaller.                             *)
LEMMA MoreIsMore ==
  ASSUME NEW c \in Int, NEW d \in Int, NEW n \in Nat, d >= c
  PROVE  d * n >= c * n
BY SMTT(30)

(* It is the least that does.                                              *)
LEMMA CeilLeast ==
  ASSUME NEW a \in Nat, NEW b \in Nat \ {0}, NEW c \in Nat, a <= c * b
  PROVE  CeilDiv(a, b) <= c
<1> DEFINE q == (a + b - 1) \div b
           r == (a + b - 1) % b
<1>1. q \in Int /\ a + b - 1 = b * q + r
  BY SMTT(30)
<1>2. r \in 0..(b - 1)
  OBVIOUS
<1>3. a + b - 1 \in Int /\ c * b \in Int /\ b * q \in Int
  BY <1>1
<1> HIDE DEF q, r
<1>4. b * q <= c * b + b - 1
  BY <1>1, <1>2, <1>3
<1>5. ASSUME q >= c + 1 PROVE FALSE
  <2>1. q * b >= (c + 1) * b
    BY <1>1, <1>5, MoreIsMore
  <2>2. (c + 1) * b = c * b + b /\ q * b = b * q
    BY <1>1, SMTT(30)
  <2> QED
    BY <1>3, <1>4, <2>1, <2>2
<1>6. q <= c
  BY <1>1, <1>5
<1> QED
  BY <1>6 DEF CeilDiv, q

(* The cases of calculate_desired_workers.                                 *)
LEMMA DesiredCases ==
  ASSUME NEW workers \in Nat, NEW sum \in Nat, NEW n \in Nat \ {0}
  PROVE  LET d == DesiredWorkers(workers, sum, n)
         IN  /\ sum < n => d = Max2(workers, IdleFloor)
             /\ sum >= n /\ workers * n < sum => d = Max2(1, Scaled(workers, ScaleUp, sum, n))
             /\ sum >= n /\ workers * n >= sum /\ 2 * workers * n > 3 * sum =>
                  d = Max2(1, Scaled(workers, ScaleDown, sum, n))
             /\ sum >= n /\ workers * n >= sum /\ 2 * workers * n <= 3 * sum =>
                  d = Max2(1, workers)
<1>1. workers * n \in Int /\ 2 * workers * n \in Int
  OBVIOUS
<1> QED
  BY <1>1 DEF DesiredWorkers

(* What is scaled is a number of workers, not smaller than the mean and    *)
(* than the product with the factor.                                       *)
LEMMA ScaledCovers ==
  ASSUME NEW workers \in Nat, NEW percent \in Nat, NEW sum \in Nat, NEW n \in Nat \ {0}
  PROVE  /\ Scaled(workers, percent, sum, n) \in Nat
         /\ Scaled(workers, percent, sum, n) >= CeilDiv(sum, n)
         /\ Scaled(workers, percent, sum, n) >= CeilDiv(workers * percent, 100)
         /\ Scaled(workers, percent, sum, n) \in {CeilDiv(workers * percent, 100), CeilDiv(sum, n)}
<1>1. CeilDiv(sum, n) \in Int /\ CeilDiv(sum, n) * n >= sum
  BY CeilCovers
<1>2. workers * percent \in Nat
  OBVIOUS
<1>3. CeilDiv(workers * percent, 100) \in Int /\ CeilDiv(workers * percent, 100) * 100 >= workers * percent
  BY <1>2, CeilCovers
<1>4. CeilDiv(workers * percent, 100) >= 0
  <2> DEFINE k == workers * percent
  <2> HIDE DEF k
  <2>1. k \in Nat /\ CeilDiv(k, 100) \in Int /\ CeilDiv(k, 100) * 100 >= k
    BY <1>2, <1>3 DEF k
  <2>2. CeilDiv(k, 100) >= 0
    BY <2>1
  <2> QED
    BY <2>2 DEF k
<1> DEFINE a == CeilDiv(workers * percent, 100)
           b == CeilDiv(sum, n)
<1>5. a \in Int /\ b \in Int /\ a >= 0
  BY <1>1, <1>3, <1>4
<1> HIDE DEF a, b
<1>6. Max2(a, b) \in Nat /\ Max2(a, b) >= a /\ Max2(a, b) >= b /\ Max2(a, b) \in {a, b}
  BY <1>5 DEF Max2
<1> QED
  BY <1>6 DEF Scaled, a, b

(* There are never fewer workers wanted than operations, and never none:   *)
(* the factors may be anything, 0 included.                                *)
LEMMA EnoughWanted ==
  ASSUME NEW workers \in Nat, NEW sum \in Nat, NEW n \in Nat \ {0}
  PROVE  /\ DesiredWorkers(workers, sum, n) \in Nat
         /\ DesiredWorkers(workers, sum, n) >= 1
         /\ DesiredWorkers(workers, sum, n) * n >= sum
<1> DEFINE d == DesiredWorkers(workers, sum, n)
           c == CeilDiv(sum, n)
<1>1. c \in Int /\ c * n >= sum /\ c * n \in Int
  BY CeilCovers
<1>2. CASE sum < n
  <2>1. d = Max2(workers, IdleFloor)
    BY <1>2, DesiredCases
  <2>2. d \in Nat /\ d >= 1
    BY <2>1, ScalingAssumption DEF Max2
  <2> HIDE DEF d
  <2>3. d * n >= 1 * n /\ d * n \in Int
    BY <2>2, MoreIsMore
  <2>4. d * n >= sum
    BY <1>2, <2>3
  <2> QED
    BY <2>2, <2>4 DEF d
<1>3. CASE sum >= n
  <2>1. ASSUME NEW s \in Nat, s >= c, d = Max2(1, s) PROVE d \in Nat /\ d >= 1 /\ d >= c
    <3> HIDE DEF d, c
    <3> QED
      BY <1>1, <2>1 DEF Max2
  <2>2. \A percent \in Nat : Scaled(workers, percent, sum, n) \in Nat
                            /\ Scaled(workers, percent, sum, n) >= c
    BY ScaledCovers
  <2>3. ASSUME workers * n < sum PROVE d \in Nat /\ d >= 1 /\ d >= c
    <3>1. d = Max2(1, Scaled(workers, ScaleUp, sum, n))
      BY <1>3, <2>3, DesiredCases
    <3> QED
      BY <2>1, <2>2, <3>1, ScalingAssumption
  <2>4. ASSUME workers * n >= sum, 2 * workers * n > 3 * sum PROVE d \in Nat /\ d >= 1 /\ d >= c
    <3>1. d = Max2(1, Scaled(workers, ScaleDown, sum, n))
      BY <1>3, <2>4, DesiredCases
    <3> QED
      BY <2>1, <2>2, <3>1, ScalingAssumption
  <2>5. ASSUME workers * n >= sum, 2 * workers * n <= 3 * sum PROVE d \in Nat /\ d >= 1 /\ d >= c
    <3>1. d = Max2(1, workers)
      BY <1>3, <2>5, DesiredCases
    <3>2. workers >= c
      BY <2>5, CeilLeast
    <3> QED
      BY <2>1, <3>1, <3>2
  <2>6. d \in Nat /\ d >= 1 /\ d >= c
    <3>1. workers * n \in Int /\ 2 * workers * n \in Int
      OBVIOUS
    <3> HIDE DEF d, c
    <3> QED
      BY <2>3, <2>4, <2>5, <3>1
  <2> HIDE DEF d, c
  <2>7. d * n >= c * n /\ d * n \in Int
    BY <1>1, <2>6, MoreIsMore
  <2>8. d * n >= sum
    BY <1>1, <2>7
  <2> QED
    BY <2>6, <2>8 DEF d
<1> QED
  BY <1>2, <1>3

(* An integer that times n exceeds another one times n is the larger.      *)
LEMMA LessIsLess ==
  ASSUME NEW c \in Int, NEW d \in Int, NEW n \in Nat, c * n < d * n
  PROVE  c < d
<1>1. c * n \in Int /\ d * n \in Int
  OBVIOUS
<1>2. c >= d => c * n >= d * n
  BY MoreIsMore
<1> QED
  BY <1>1, <1>2

(* Just scaled up by the factor, and by no more than a third, workers are  *)
(* within one and a half times the mean, or the mean is rounded up to as   *)
(* many.                                                                   *)
LEMMA UpInBand ==
  ASSUME NEW workers \in Nat, NEW sum \in Nat, NEW n \in Nat \ {0},
         workers * n < sum, ScaleUp <= 133,
         NEW d \in Nat, d = CeilDiv(workers * ScaleUp, 100), d > CeilDiv(sum, n)
  PROVE  2 * d * n <= 3 * sum
<1> DEFINE c == CeilDiv(sum, n)
           p == workers * ScaleUp
<1>1. c \in Int /\ c * n >= sum /\ c * n \in Int /\ workers * n \in Int
  BY CeilCovers
<1>2. p \in Nat /\ p <= workers * 133
  BY MoreIsMore, ScalingAssumption, SMTT(30)
<1> HIDE DEF c, p
<1>3. c > workers
  BY <1>1, LessIsLess
<1>4. d >= workers + 2
  BY <1>1, <1>3 DEF c
<1>5. p > (workers + 1) * 100
  <2>1. p <= (workers + 1) * 100 => CeilDiv(p, 100) <= workers + 1
    BY <1>2, CeilLeast
  <2> QED
    BY <1>2, <1>4, <2>1 DEF p
<1>6. workers >= 4
  BY <1>2, <1>5
<1>7. 100 * d <= p + 99
  BY <1>2 DEF p, CeilDiv
<1>8. 2 * d <= 3 * workers
  BY <1>2, <1>6, <1>7
<1>9. (2 * d) * n <= (3 * workers) * n
  BY <1>8, MoreIsMore
<1>10. (3 * workers) * n = 3 * (workers * n) /\ (2 * d) * n = 2 * d * n /\ 2 * d * n \in Int
  BY SMTT(30)
<1> QED
  BY <1>1, <1>9, <1>10

(* A factor of at most 100 percent, rounded up, never adds workers; one of *)
(* at least 100 never takes any away.                                      *)
LEMMA DownIsDown ==
  ASSUME NEW workers \in Nat
  PROVE  /\ CeilDiv(workers * ScaleDown, 100) \in Int
         /\ ScaleDown <= 100 => CeilDiv(workers * ScaleDown, 100) <= workers
         /\ ScaleDown >= 100 => CeilDiv(workers * ScaleDown, 100) >= workers
<1> DEFINE p == workers * ScaleDown
<1>1. p \in Nat
  BY ScalingAssumption
<1>2. ScaleDown <= 100 => p <= workers * 100
  BY MoreIsMore, ScalingAssumption, SMTT(30)
<1>3. ScaleDown >= 100 => p >= workers * 100
  BY MoreIsMore, ScalingAssumption, SMTT(30)
<1> HIDE DEF p
<1>4. CeilDiv(p, 100) \in Int /\ CeilDiv(p, 100) * 100 >= p
  BY <1>1, CeilCovers
<1>5. p <= workers * 100 => CeilDiv(p, 100) <= workers
  BY <1>1, CeilLeast
<1>6. p >= workers * 100 => CeilDiv(p, 100) >= workers
  BY <1>1, <1>4
<1> QED
  BY <1>2, <1>3, <1>4, <1>5, <1>6, ScalingAssumption DEF p

(* What is asked for is not taken back while the mean stays the same.      *)
LEMMA NothingTakenBack ==
  ASSUME NEW workers \in Nat, NEW sum \in Nat, NEW n \in Nat \ {0}, ScaleUp <= 133,
         NEW d, d = DesiredWorkers(workers, sum, n), d > workers
  PROVE  DesiredWorkers(d, sum, n) >= d
<1> DEFINE c == CeilDiv(sum, n)
           again == DesiredWorkers(d, sum, n)
<1>0. d \in Nat /\ d >= 1 /\ d * n >= sum
  BY EnoughWanted
<1>1. d \in Nat /\ d >= 1 /\ d * n >= sum /\ d * n \in Int /\ 2 * d * n \in Int
  BY <1>0
<1>2. again \in Nat /\ again >= 1
  BY <1>1, EnoughWanted
<1>3. CASE sum < n
  <2>1. again = Max2(d, IdleFloor)
    BY <1>1, <1>3, DesiredCases
  <2> HIDE DEF again
  <2>2. again >= d
    BY <1>1, <2>1, ScalingAssumption DEF Max2
  <2> QED
    BY <2>2 DEF again
<1>4. CASE sum >= n /\ 2 * d * n <= 3 * sum
  <2>1. again = Max2(1, d)
    BY <1>1, <1>4, DesiredCases
  <2> HIDE DEF again
  <2>2. again >= d
    BY <1>1, <2>1 DEF Max2
  <2> QED
    BY <2>2 DEF again
<1>5. CASE sum >= n /\ 2 * d * n > 3 * sum
  <2>1. again = Max2(1, Scaled(d, ScaleDown, sum, n))
    BY <1>1, <1>5, DesiredCases
  <2>2. /\ Scaled(d, ScaleDown, sum, n) \in Nat
        /\ Scaled(d, ScaleDown, sum, n) >= c
        /\ Scaled(d, ScaleDown, sum, n) >= CeilDiv(d * ScaleDown, 100)
    BY <1>1, ScaledCovers, ScalingAssumption
  <2>3. c \in Int /\ c * n >= sum /\ CeilDiv(d * ScaleDown, 100) \in Int
        /\ CeilDiv(d * ScaleDown, 100) * 100 >= d * ScaleDown
    <3>1. c \in Int /\ c * n >= sum
      BY CeilCovers
    <3>2. d * ScaleDown \in Nat
      BY <1>1, ScalingAssumption
    <3>3. CeilDiv(d * ScaleDown, 100) \in Int /\ CeilDiv(d * ScaleDown, 100) * 100 >= d * ScaleDown
      BY <3>2, CeilCovers
    <3> QED
      BY <3>1, <3>3
  <2>4. again >= c /\ again >= CeilDiv(d * ScaleDown, 100)
    BY <1>2, <2>1, <2>2, <2>3 DEF Max2
  <2>5. CASE workers * n < sum
    <3>1. d = Max2(1, Scaled(workers, ScaleUp, sum, n))
      BY <1>5, <2>5, DesiredCases
    <3>2. /\ Scaled(workers, ScaleUp, sum, n) \in Nat
          /\ Scaled(workers, ScaleUp, sum, n) >= c
          /\ Scaled(workers, ScaleUp, sum, n) \in {CeilDiv(workers * ScaleUp, 100), c}
      BY ScaledCovers, ScalingAssumption
    <3>3. c >= 1
      BY <1>5, <2>3, LessIsLess
    <3>4. d = CeilDiv(workers * ScaleUp, 100) \/ d = c
      BY <2>3, <3>1, <3>2, <3>3 DEF Max2
    <3>5. d = c \/ d > c
      BY <1>1, <2>3, <3>1, <3>2 DEF Max2
    <3>6. d = c
      BY <1>1, <1>5, <2>5, <3>4, <3>5, UpInBand
    <3> QED
      BY <2>4, <3>6
  <2>6. CASE workers * n >= sum /\ 2 * workers * n > 3 * sum
    <3>1. d = Max2(1, Scaled(workers, ScaleDown, sum, n))
      BY <1>5, <2>6, DesiredCases
    <3>2. Scaled(workers, ScaleDown, sum, n) \in {CeilDiv(workers * ScaleDown, 100), c}
          /\ Scaled(workers, ScaleDown, sum, n) \in Nat
      BY ScaledCovers, ScalingAssumption
    <3>3. c <= workers
      BY <2>6, CeilLeast
    <3>4. workers >= 1
      BY <1>5, <2>6
    <3>5. d = CeilDiv(workers * ScaleDown, 100)
      BY <1>1, <2>3, <3>1, <3>2, <3>3, <3>4 DEF Max2
    <3>6. ScaleDown > 100
      <4>1. ScaleDown <= 100 => CeilDiv(workers * ScaleDown, 100) <= workers
        BY DownIsDown
      <4> QED
        BY <1>1, <3>5, <4>1, ScalingAssumption
    <3>7. CeilDiv(d * ScaleDown, 100) >= d
      BY <1>1, <3>6, DownIsDown, ScalingAssumption
    <3> QED
      BY <1>1, <1>2, <2>3, <2>4, <3>7
  <2>7. CASE workers * n >= sum /\ 2 * workers * n <= 3 * sum
    <3>1. d = Max2(1, workers)
      BY <1>5, <2>7, DesiredCases
    <3>2. d = 1
      BY <1>1, <3>1 DEF Max2
    <3> QED
      BY <1>2, <3>2
  <2>8. workers * n \in Int /\ 2 * workers * n \in Int
    OBVIOUS
  <2> QED
    BY <2>5, <2>6, <2>7, <2>8
<1> QED
  BY <1>1, <1>3, <1>4, <1>5

(* The mean with its error is a fraction of numbers as well, or there are  *)
(* too few operations for it to matter.                                    *)
LEMMA MeanWithError ==
  ASSUME NEW sum \in Int, NEW n \in Nat \ {0}, NEW error \in Errors
  PROVE  /\ 4 * n \in Nat \ {0} /\ 4 * sum + error \in Int
         /\ 4 * sum + error >= 4 * n => 4 * sum + error \in Nat
BY DEF Errors

(* Whichever way the mean was rounded, as many workers are asked for as    *)
(* there are operations.                                                   *)
LEMMA EnoughAskedFor ==
  ASSUME NEW workers \in Nat, NEW sum \in Int, NEW n \in Nat \ {0}, NEW error \in Errors
  PROVE  /\ AskedWith(workers, sum, n, error) \in Nat
         /\ AskedWith(workers, sum, n, error) >= 1
         /\ AskedWith(workers, sum, n, error) * n >= sum
<1> DEFINE d == AskedWith(workers, sum, n, error)
           m == 4 * n
           s == 4 * sum + error
<1>1. m \in Nat \ {0} /\ s \in Int /\ (s >= m => s \in Nat)
  BY MeanWithError
<1>2. d = DesiredWorkers(workers, s, m)
  BY DEF AskedWith
<1>3. error \in {-1, 0, 1}
  BY DEF Errors
<1> HIDE DEF d
<1>4. CASE s < m
  <2>1. d = Max2(workers, IdleFloor)
    <3> HIDE DEF s, m
    <3> QED
      BY <1>2, <1>4 DEF DesiredWorkers
  <2>2. d \in Nat /\ d >= 1
    BY <2>1, ScalingAssumption DEF Max2
  <2>3. sum <= n
    BY <1>3, <1>4
  <2>4. d * n >= 1 * n /\ d * n \in Int
    BY <2>2, MoreIsMore
  <2>5. d * n >= sum
    BY <2>3, <2>4
  <2> QED
    BY <2>2, <2>5 DEF d
<1>5. CASE s >= m
  <2>1. d \in Nat /\ d >= 1 /\ d * m >= s
    <3> HIDE DEF s, m
    <3> QED
      BY <1>1, <1>2, <1>5, EnoughWanted
  <2>2. d * n \in Int /\ d * m = 4 * (d * n)
    BY <2>1, SMTT(30)
  <2>3. d * n >= sum
    BY <1>3, <2>1, <2>2
  <2> QED
    BY <2>1, <2>3 DEF d
<1> QED
  BY <1>1, <1>4, <1>5

(* What is asked for is not taken back by the same mean, rounded as it is. *)
LEMMA NothingAskedBack ==
  ASSUME NEW workers \in Nat, NEW sum \in Int, NEW n \in Nat \ {0}, NEW error \in Errors,
         ScaleUp <= 133, NEW d, d = AskedWith(workers, sum, n, error), d > workers
  PROVE  AskedWith(d, sum, n, error) >= d
<1> DEFINE m == 4 * n
           s == 4 * sum + error
<1>1. m \in Nat \ {0} /\ s \in Int /\ (s >= m => s \in Nat)
  BY MeanWithError
<1>2. d = DesiredWorkers(workers, s, m) /\ AskedWith(d, sum, n, error) = DesiredWorkers(d, s, m)
  BY DEF AskedWith
<1> HIDE DEF m, s
<1>3. CASE s < m
  <2>1. d = Max2(workers, IdleFloor) /\ DesiredWorkers(d, s, m) = Max2(d, IdleFloor)
    BY <1>2, <1>3 DEF DesiredWorkers
  <2>2. Max2(d, IdleFloor) >= d
    BY <2>1, ScalingAssumption DEF Max2
  <2> QED
    BY <1>2, <2>1, <2>2
<1>4. CASE s >= m
  BY <1>1, <1>2, <1>4, NothingTakenBack
<1> QED
  BY <1>1, <1>3, <1>4

-----------------------------------------------------------------------------
(* The coroutine                                                           *)

\* What the variables hold; there is a sample whenever one is needed, and
\* there are never more coroutines than there may be.
LoopInv ==
  /\ active \in Nat
  /\ spawned \in Nat
  /\ active + spawned <= MaxWorkers
  /\ target \in Nat
  /\ spc \in LoopPc
  /\ samples \in Seq(Nat)
  /\ ops_sum \in Int
  /\ desired \in Nat
  /\ spc \in {"check", "calculate"} => samples # <<>>

LEMMA TickKeeps == ASSUME LoopInv, Tick PROVE LoopInv'
<1> USE DEF LoopInv
<1> DEFINE full == Len(samples) = Window
           base == IF full THEN Tail(samples) ELSE samples
<1>1. PICK new \in Loads : /\ samples' = Append(base, new)
                          /\ ops_sum' = ops_sum + new - (IF full THEN Head(samples) ELSE 0)
  BY DEF Tick
<1>2. new \in Nat
  BY LoopAssumption
<1>3. full => samples # <<>>
  BY LoopAssumption
<1>4. base \in Seq(Nat) /\ (full => Head(samples) \in Nat)
  BY <1>3
<1>5. samples' \in Seq(Nat) /\ samples' # <<>>
  <2> HIDE DEF base
  <2> QED
    BY <1>1, <1>2, <1>4
<1>6. ops_sum' \in Int
  BY <1>1, <1>2, <1>4
<1>7. UNCHANGED <<active, spawned, target, desired>> /\ spc' \in LoopPc
  BY DEF Tick, pool, LoopPc
<1> QED
  BY <1>5, <1>6, <1>7

LEMMA CalculateIs ==
  ASSUME LoopInv, Calculate
  PROVE  /\ Len(samples) \in Nat \ {0}
         /\ UNCHANGED <<pool, target, mean>>
         /\ \E error \in Errors :
              LET d == AskedWith(active, ops_sum, Len(samples), error)
              IN  \/ d # target /\ desired' = d /\ spc' = "retarget"
                  \/ d = target /\ desired' = 0 /\ spc' = "wait"
<1>1. Len(samples) \in Nat \ {0}
  BY DEF LoopInv, Calculate
<1> QED
  BY <1>1 DEF Calculate, Wanted

LEMMA CalculateKeeps == ASSUME LoopInv, Calculate PROVE LoopInv'
<1>1. /\ Len(samples) \in Nat \ {0} /\ UNCHANGED <<pool, target, mean>>
      /\ \E error \in Errors : desired' \in {AskedWith(active, ops_sum, Len(samples), error), 0}
      /\ spc' \in {"retarget", "wait"}
  BY CalculateIs
<1>2. PICK error \in Errors : desired' \in {AskedWith(active, ops_sum, Len(samples), error), 0}
  BY <1>1
<1>3. AskedWith(active, ops_sum, Len(samples), error) \in Nat
  BY <1>1, EnoughAskedFor DEF LoopInv
<1>4. desired' \in Nat
  BY <1>2, <1>3
<1> QED
  BY <1>1, <1>4 DEF LoopInv, pool, mean, LoopPc

LEMMA LoopNext == ASSUME LoopInv, [Next]_vars PROVE LoopInv'
<1>1. CASE Check \/ Align \/ Realign \/ Retarget \/ Cancel
  BY <1>1 DEF LoopInv, Check, Align, Realign, Retarget, Cancel, pool, mean, LoopPc
<1>2. CASE Spawn
  <2>1. Missing \in Nat /\ active + spawned + Missing <= MaxWorkers
    BY LoopAssumption DEF LoopInv, Missing
  <2> QED
    BY <1>2, <2>1 DEF LoopInv, Spawn, mean, LoopPc
<1>3. CASE Start \/ Leave \/ Turn \/ UNCHANGED vars
  BY <1>3, LoopAssumption DEF LoopInv, Start, Leave, Turn, vars, pool, mean
<1> QED
  BY <1>1, <1>2, <1>3, TickKeeps, CalculateKeeps DEF Next

LEMMA LoopInvariant == Spec => []LoopInv
<1>1. Init => LoopInv
  BY LoopAssumption DEF Init, LoopInv, LoopPc
<1>2. LoopInv /\ [Next]_vars => LoopInv'
  BY LoopNext
<1> QED
  BY <1>1, <1>2, PTL DEF Spec

(* A step that leaves "calculate" is Calculate.                            *)
LEMMA OnlyCalculates ==
  ASSUME LoopInv, [Next]_vars, spc = "calculate", spc' # spc
  PROVE  Calculate
BY DEF Next, Tick, Check, Align, Realign, Retarget, Spawn, Cancel, Start, Leave, Turn, vars

(* What is calculated leaves the target not below the mean of the          *)
(* operations, whatever the factors, the workers and the rounding.         *)
THEOREM KeepsUpAlways == Spec => KeepsUp
<1>1. ASSUME LoopInv, [Next]_vars, spc = "calculate", spc' # spc
      PROVE  Chosen' >= 1 /\ Chosen' * Len(samples) >= ops_sum
  <2>1. Calculate
    BY <1>1, OnlyCalculates
  <2>2. Len(samples) \in Nat \ {0} /\ UNCHANGED target
    BY <1>1, <2>1, CalculateIs
  <2>3. PICK error \in Errors : Chosen' = AskedWith(active, ops_sum, Len(samples), error)
    BY <1>1, <2>1, CalculateIs DEF Chosen
  <2> QED
    BY <1>1, <2>2, <2>3, EnoughAskedFor DEF LoopInv
<1>2. LoopInv /\ [Next]_vars
        => [spc = "calculate" /\ spc' # spc
              => Chosen' >= 1 /\ Chosen' * Len(samples) >= ops_sum]_vars
  BY <1>1
<1> QED
  BY <1>2, LoopInvariant, PTL DEF Spec, KeepsUp

(* Workers asked for are not sent away by the next interval, if scaling up *)
(* is by a third at most: with 134 percent, three workers and a mean of    *)
(* 3.01 become five, which are more than one and a half times the mean.    *)
THEOREM NeverSwings ==
  ASSUME ScaleUp <= 133
  PROVE  Spec => NoSwing
<1> DEFINE Kept == spc = "calculate" /\ spc' = "retarget" /\ desired' > active =>
                     \A error \in Errors :
                       AskedWith(active, ops_sum, Len(samples), error) = desired' =>
                         AskedWith(desired', ops_sum, Len(samples), error) >= desired'
<1>1. LoopInv /\ [Next]_vars => Kept
  <2> SUFFICES ASSUME LoopInv, [Next]_vars, spc = "calculate", spc' = "retarget",
                      desired' > active, NEW error \in Errors,
                      AskedWith(active, ops_sum, Len(samples), error) = desired'
               PROVE  AskedWith(desired', ops_sum, Len(samples), error) >= desired'
    OBVIOUS
  <2>1. Len(samples) \in Nat \ {0}
    BY OnlyCalculates, CalculateIs
  <2>2. active \in Nat /\ ops_sum \in Int
    BY DEF LoopInv
  <2> DEFINE d == desired'
  <2>3. d = AskedWith(active, ops_sum, Len(samples), error) /\ d > active
    OBVIOUS
  <2> HIDE DEF d
  <2>4. AskedWith(d, ops_sum, Len(samples), error) >= d
    BY <2>1, <2>2, <2>3, NothingAskedBack
  <2> QED
    BY <2>4 DEF d
<1>2. LoopInv /\ [Next]_vars => [Kept]_vars
  BY <1>1
<1> QED
  BY <1>2, LoopInvariant, PTL DEF Spec, NoSwing
=============================================================================
