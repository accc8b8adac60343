----------------------------- MODULE SessionProofs -----------------------------
(***************************************************************************)
(* What TLAPS proves of DnsCache and of SessionRequests, for every number  *)
(* of callers, of retries, every age limit and every bound of the clock.   *)
(* The cache comes first, by itself; then its callers, who use it as       *)
(* DnsCache lets them.                                                     *)
(***************************************************************************)
EXTENDS SessionRequests, TLAPS

\* No endpoints, in the cache, in a caller's hands or about to be stored:
\* there is a reason for it in last_error.
ReasonKept ==
  \/ last_error \in Failure
  \/ /\ current_endpoints # Null
     /\ \A c \in Caller : /\ pc[c] = "look" => endpoints[c] # Null
                          /\ pc[c] = "store" => new_endpoints[c] # Null

\* Endpoints are not from the future; only the result of an update that is
\* to be stored is at hand, and it is at least as new as those in the cache.
Ages ==
  /\ current_endpoints # Null => current_endpoints <= now
  /\ \A c \in Caller : new_endpoints[c] # Null =>
       /\ pc[c] = "store"
       /\ new_endpoints[c] <= now
       /\ current_endpoints # Null => new_endpoints[c] >= current_endpoints

Inv ==
  /\ TypeOK
  /\ SingleUpdater
  /\ FailsWithReason
  /\ ReasonKept
  /\ Ages

USE DEF Time, Pointer, Failure, ErrorCode, Answer, NoAnswer, Value, Error

(* The constructor leaves the cache in a state of the invariant.           *)
LEMMA InvInit == Init => Inv
<1> SUFFICES ASSUME Init PROVE Inv
  OBVIOUS
<1>1. TypeOK
  <2>1. NoAnswer \in Answer
    OBVIOUS
  <2>2. answer \in [Caller -> Answer]
    BY <2>1 DEF Init
  <2>3. now \in Time /\ current_endpoints \in Pointer /\ last_error \in ErrorCode
    BY DEF Init
  <2>5. being_updated \in BOOLEAN
    BY DEF Init
  <2>4. /\ pc \in [Caller -> CallerPc]
        /\ endpoints \in [Caller -> Pointer] /\ new_endpoints \in [Caller -> Pointer]
        /\ \A c \in Caller : pc[c] # "claim"
    BY DEF Init, CallerPc
  <2> QED
    BY <2>2, <2>3, <2>4, <2>5 DEF TypeOK
<1>2. SingleUpdater /\ FailsWithReason
  BY DEF Init, SingleUpdater, FailsWithReason, Updating
<1>3. ReasonKept /\ Ages
  BY CacheAssumption DEF Init, ReasonKept, Ages
<1> QED
  BY <1>1, <1>2, <1>3 DEF Inv

(* A step keeps the types; a caller that claims has endpoints to look      *)
(* into.                                                                   *)
LEMMA TypeNext == TypeOK /\ ReasonKept /\ [Next]_vars => TypeOK'
<1> SUFFICES ASSUME TypeOK, ReasonKept, [Next]_vars PROVE TypeOK'
  OBVIOUS
<1> USE CacheAssumption DEF TypeOK, CallerPc, Goto, Return, locals
<1>1. ASSUME NEW c \in Caller, Call(c) PROVE TypeOK'
  BY <1>1 DEF Call
<1>2. ASSUME NEW c \in Caller, Read(c) PROVE TypeOK'
  BY <1>2 DEF Read
<1>3. ASSUME NEW c \in Caller, LookNull(c) PROVE TypeOK'
  BY <1>3 DEF LookNull
<1>4. ASSUME NEW c \in Caller, LookFresh(c) PROVE TypeOK'
  BY <1>4 DEF LookFresh
<1>5. ASSUME NEW c \in Caller, LookStale(c) PROVE TypeOK'
  BY <1>5 DEF LookStale
<1>6. ASSUME NEW c \in Caller, Claim(c) PROVE TypeOK'
  BY <1>6 DEF Claim
<1>7. ASSUME NEW c \in Caller, UseOld(c) PROVE TypeOK'
  BY <1>7 DEF UseOld
<1>8. ASSUME NEW c \in Caller, ResolveOk(c) PROVE TypeOK'
  BY <1>8 DEF ResolveOk
<1>9. ASSUME NEW c \in Caller, ResolveFails(c) PROVE TypeOK'
  BY <1>9 DEF ResolveFails
<1>10. ASSUME NEW c \in Caller, Store(c) PROVE TypeOK'
  BY <1>10 DEF Store
<1>11. ASSUME NEW c \in Caller, Reset(c) PROVE TypeOK'
  BY <1>11 DEF Reset
<1>12. CASE Tick
  BY <1>12 DEF Tick
<1>13. CASE UNCHANGED vars
  BY <1>13 DEF vars
<1> QED
  BY <1>1, <1>2, <1>3, <1>4, <1>5, <1>6, <1>7, <1>8, <1>9, <1>10, <1>11, <1>12, <1>13
     DEF Next, Step

(* compare_exchange_strong lets one caller at a time into the update.      *)
LEMMA UpdaterNext == TypeOK /\ SingleUpdater /\ [Next]_vars => SingleUpdater'
<1> SUFFICES ASSUME TypeOK, SingleUpdater, [Next]_vars PROVE SingleUpdater'
  OBVIOUS
<1> USE DEF SingleUpdater, Updating, Goto, Return, locals
<1>0. pc \in [Caller -> CallerPc] /\ being_updated \in BOOLEAN
  BY DEF TypeOK
<1>1. ASSUME NEW c \in Caller, Claim(c) PROVE SingleUpdater'
  BY <1>0, <1>1 DEF Claim
<1>2. ASSUME NEW c \in Caller, Reset(c) PROVE SingleUpdater'
  BY <1>0, <1>2 DEF Reset
<1>3. ASSUME NEW c \in Caller, ResolveOk(c) \/ ResolveFails(c) \/ Store(c)
      PROVE  SingleUpdater'
  BY <1>0, <1>3 DEF ResolveOk, ResolveFails, Store
<1>4. ASSUME NEW c \in Caller,
             Call(c) \/ Read(c) \/ LookNull(c) \/ LookFresh(c) \/ LookStale(c) \/ UseOld(c)
      PROVE  SingleUpdater'
  BY <1>0, <1>4 DEF Call, Read, LookNull, LookFresh, LookStale, UseOld
<1>5. CASE Tick \/ UNCHANGED vars
  BY <1>5 DEF Tick, vars
<1> QED
  BY <1>1, <1>2, <1>3, <1>4, <1>5 DEF Next, Step

(* Once last_error holds a reason it holds one for ever; until then nobody *)
(* meets a null pointer.                                                   *)
LEMMA ReasonNext == TypeOK /\ ReasonKept /\ [Next]_vars => ReasonKept'
<1> SUFFICES ASSUME TypeOK, ReasonKept, [Next]_vars PROVE ReasonKept'
  OBVIOUS
<1>1. CASE last_error \in Failure
  <2>1. last_error' \in Failure
    BY <1>1 DEF Next, Step, Call, Read, LookNull, LookFresh, LookStale, Claim, UseOld,
         ResolveOk, ResolveFails, Store, Reset, Tick, vars
  <2> QED
    BY <2>1 DEF ReasonKept
<1>2. CASE last_error \notin Failure
  <2> USE <1>2, CacheAssumption DEF ReasonKept, Goto, Return, locals, TypeOK
  <2>1. ASSUME NEW c \in Caller, Read(c) PROVE ReasonKept'
    BY <2>1 DEF Read
  <2>2. ASSUME NEW c \in Caller, ResolveOk(c) PROVE ReasonKept'
    BY <2>2 DEF ResolveOk
  <2>3. ASSUME NEW c \in Caller, ResolveFails(c) PROVE ReasonKept'
    BY <2>3 DEF ResolveFails
  <2>4. ASSUME NEW c \in Caller, Store(c) PROVE ReasonKept'
    BY <2>4 DEF Store
  <2>5. ASSUME NEW c \in Caller, Call(c) \/ LookNull(c) \/ LookFresh(c) \/ LookStale(c)
        PROVE  ReasonKept'
    BY <2>5 DEF Call, LookNull, LookFresh, LookStale
  <2>6. ASSUME NEW c \in Caller, Claim(c) \/ UseOld(c) \/ Reset(c)
        PROVE  ReasonKept'
    BY <2>6 DEF Claim, UseOld, Reset
  <2>7. CASE Tick \/ UNCHANGED vars
    BY <2>7 DEF Tick, vars
  <2> QED
    BY <2>1, <2>2, <2>3, <2>4, <2>5, <2>6, <2>7 DEF Next, Step
<1> QED
  BY <1>1, <1>2

(* A caller that fails takes its reason from last_error.                   *)
LEMMA FailsNext == TypeOK /\ ReasonKept /\ FailsWithReason /\ [Next]_vars => FailsWithReason'
<1> SUFFICES ASSUME TypeOK, ReasonKept, FailsWithReason, [Next]_vars PROVE FailsWithReason'
  OBVIOUS
<1> USE DEF FailsWithReason, Return, locals
<1>0. answer \in [Caller -> Answer]
  BY DEF TypeOK
<1>1. ASSUME NEW c \in Caller, LookNull(c) PROVE FailsWithReason'
  <2>1. last_error \in Failure
    BY <1>1 DEF LookNull, ReasonKept
  <2> QED
    BY <1>0, <1>1, <2>1 DEF LookNull
<1>2. ASSUME NEW c \in Caller, Call(c) \/ LookFresh(c) \/ UseOld(c) PROVE FailsWithReason'
  BY <1>0, <1>2 DEF Call, LookFresh, UseOld
<1>3. ASSUME NEW c \in Caller,
             \/ Read(c) \/ LookStale(c) \/ Claim(c) \/ ResolveOk(c) \/ ResolveFails(c)
             \/ Store(c) \/ Reset(c) \/ Tick \/ UNCHANGED vars
      PROVE  FailsWithReason'
  BY <1>3 DEF Read, LookStale, Claim, ResolveOk, ResolveFails, Store, Reset, Tick, vars
<1>4. CASE Tick \/ UNCHANGED vars
  BY <1>4 DEF Tick, vars
<1> QED
  BY <1>1, <1>2, <1>3, <1>4 DEF Next, Step

(* Only the one updater stores, and it resolved after its predecessor      *)
(* stored.                                                                 *)
LEMMA AgesNext == TypeOK /\ SingleUpdater /\ Ages /\ [Next]_vars => Ages'
<1> SUFFICES ASSUME TypeOK, SingleUpdater, Ages, [Next]_vars PROVE Ages'
  OBVIOUS
<1> USE CacheAssumption DEF Ages, Goto, Return, locals, TypeOK
<1>1. ASSUME NEW c \in Caller, ResolveOk(c) PROVE Ages'
  BY <1>1 DEF ResolveOk
<1>2. ASSUME NEW c \in Caller, ResolveFails(c) PROVE Ages'
  BY <1>2 DEF ResolveFails
<1>3. ASSUME NEW c \in Caller, Store(c) PROVE Ages'
  <2>1. \A d \in Caller \ {c} : new_endpoints[d] = Null
    BY <1>3 DEF Store, SingleUpdater, Updating
  <2> QED
    BY <1>3, <2>1 DEF Store
<1>4. ASSUME NEW c \in Caller,
             Call(c) \/ Read(c) \/ LookNull(c) \/ LookFresh(c) \/ LookStale(c)
      PROVE  Ages'
  BY <1>4 DEF Call, Read, LookNull, LookFresh, LookStale
<1>5. ASSUME NEW c \in Caller, Claim(c) \/ UseOld(c) \/ Reset(c) PROVE Ages'
  BY <1>5 DEF Claim, UseOld, Reset
<1>6. CASE Tick \/ UNCHANGED vars
  BY <1>6 DEF Tick, vars
<1> QED
  BY <1>1, <1>2, <1>3, <1>4, <1>5, <1>6 DEF Next, Step

(* The inductive invariant holds in every state.                           *)
LEMMA Invariant == Spec => []Inv
<1>1. Inv /\ [Next]_vars => Inv'
  BY TypeNext, UpdaterNext, ReasonNext, FailsNext, AgesNext DEF Inv
<1> QED
  BY InvInit, <1>1, PTL DEF Spec

(* Type correctness, and no caller looks into a null pointer.              *)
THEOREM TypeCorrect == Spec => []TypeOK
BY Invariant, PTL DEF Inv

(* At most one caller updates, and the flag says whether one does.         *)
THEOREM OneUpdater == Spec => []SingleUpdater
BY Invariant, PTL DEF Inv

(* No call fails with the error code of success.                           *)
THEOREM ReasonGiven == Spec => []FailsWithReason
BY Invariant, PTL DEF Inv

(* Endpoints are never replaced by older ones.                             *)
THEOREM OnlyNewer == Spec => NeverOlder
<1>1. Inv /\ [Next]_vars =>
        [current_endpoints # Null /\ current_endpoints' # Null =>
           current_endpoints' >= current_endpoints]_vars
  <2> SUFFICES ASSUME Inv, [Next]_vars, current_endpoints # Null, current_endpoints' # Null
               PROVE  current_endpoints' >= current_endpoints
    OBVIOUS
  <2>1. ASSUME NEW c \in Caller, Store(c) PROVE current_endpoints' >= current_endpoints
    BY <2>1 DEF Store, Inv, Ages
  <2>2. CASE UNCHANGED current_endpoints
    BY <2>2 DEF Inv, TypeOK
  <2> QED
    BY <2>1, <2>2 DEF Next, Step, Call, Read, LookNull, LookFresh, LookStale, Claim, UseOld,
         ResolveOk, ResolveFails, Reset, Tick, vars
<1> QED
  BY <1>1, Invariant, PTL DEF Spec, NeverOlder

(* Stale endpoints are returned only while another caller updates.         *)
THEOREM StaleIsCovered == Spec => StaleOnlyDuringUpdate
<1> DEFINE Covered(c) == \/ ~Stale(answer'[c].value)
                         \/ \E d \in Caller \ {c} : pc[d] \in Updating
<1>1. Inv /\ [Next]_vars =>
        [\A c \in Caller :
           pc'[c] = "out" /\ pc[c] # "out" /\ answer'[c].value # Null => Covered(c)]_vars
  <2> SUFFICES ASSUME Inv, [Next]_vars, NEW c \in Caller,
                      pc'[c] = "out", pc[c] # "out", answer'[c].value # Null
               PROVE  Covered(c)
    OBVIOUS
  <2> USE DEF Inv, TypeOK, Goto, Return, locals
  <2>1. CASE LookFresh(c)
    BY <2>1 DEF LookFresh
  <2>2. CASE UseOld(c)
    BY <2>2 DEF UseOld, SingleUpdater, Updating
  <2>3. CASE LookNull(c)
    BY <2>3 DEF LookNull
  <2>4. ASSUME NEW d \in Caller, d # c, Call(d) \/ Step(d) PROVE FALSE
    BY <2>4 DEF Step, Call, Read, LookNull, LookFresh, LookStale, Claim, UseOld,
         ResolveOk, ResolveFails, Store, Reset
  <2>5. CASE Call(c) \/ Read(c) \/ LookStale(c) \/ Claim(c) \/ ResolveOk(c)
             \/ ResolveFails(c) \/ Store(c) \/ Reset(c)
    BY <2>5 DEF Call, Read, LookStale, Claim, ResolveOk, ResolveFails, Store, Reset
  <2>6. CASE Tick \/ UNCHANGED vars
    BY <2>6 DEF Tick, vars
  <2> QED
    BY <2>1, <2>2, <2>3, <2>4, <2>5, <2>6 DEF Next, Step
<1> QED
  BY <1>1, Invariant, PTL DEF Spec, StaleOnlyDuringUpdate
-----------------------------------------------------------------------------
\* Each caller is at a place of list_one_impl; the steps of a caller need it
\* to tell its own place from those of the others.
ListTypeOK == lpc \in [Caller -> ListPc]

SessionInv == Inv /\ ListTypeOK

(* Each step of a caller is one of the cache, or none of its business.     *)
LEMMA CacheStep == [SNext]_sVars => [Next]_vars
<1> SUFFICES ASSUME [SNext]_sVars PROVE [Next]_vars
  OBVIOUS
<1>1. ASSUME NEW c \in Caller, Attempt(c) \/ GetEndpoint(c) PROVE [Next]_vars
  BY <1>1 DEF Attempt, GetEndpoint, Next
<1>2. ASSUME NEW c \in Caller,
             \/ ListOne(c) \/ Connect(c) \/ NoEndpoint(c) \/ RequestOk(c)
             \/ RequestFails(c) \/ Wake(c) \/ GiveUp(c)
      PROVE  [Next]_vars
  BY <1>2 DEF ListOne, Connect, NoEndpoint, RequestOk, RequestFails, Wake, GiveUp
<1>3. CASE Tick \/ UNCHANGED sVars
  BY <1>3 DEF Next, sVars
<1> QED
  BY <1>1, <1>2, <1>3 DEF SNext, ListStep

(* The listings of a session use its cache as DnsCache says: whatever is   *)
(* proved of the cache holds of it in a session.                           *)
THEOREM SessionUsesCache == SSpec => Spec
<1>1. SInit => Init
  BY DEF SInit
<1> QED
  BY <1>1, CacheStep, PTL DEF SSpec, Spec

(* A caller moves from one place of list_one_impl to another.              *)
LEMMA ListTypeNext == ListTypeOK /\ [SNext]_sVars => ListTypeOK'
BY DEF ListTypeOK, ListPc, SNext, ListStep, ListOne, Attempt, GetEndpoint, Connect,
       NoEndpoint, RequestOk, RequestFails, Wake, GiveUp, Ends, At, sVars, listVars

(* The invariant of the cache and the places hold in every state.          *)
LEMMA SessionInvariant == SSpec => []SessionInv
<1>1. SInit => ListTypeOK
  BY DEF SInit, ListTypeOK, ListPc
<1>2. SSpec => []ListTypeOK
  BY <1>1, ListTypeNext, PTL DEF SSpec
<1> QED
  BY <1>2, SessionUsesCache, Invariant, PTL DEF SessionInv

(* Without endpoints in the cache and in anybody's hands nobody comes as   *)
(* far as the update.                                                      *)
LEMMA BarrenNext == TypeOK /\ Barren /\ [Next]_vars => Barren'
<1> SUFFICES ASSUME TypeOK, Barren, [Next]_vars PROVE Barren'
  OBVIOUS
<1> USE DEF TypeOK, Barren, Goto, Return, locals
<1>1. ASSUME NEW c \in Caller, Read(c) \/ Store(c) PROVE Barren'
  BY <1>1 DEF Read, Store
<1>2. ASSUME NEW c \in Caller, Call(c) \/ LookNull(c) \/ Reset(c) PROVE Barren'
  BY <1>2 DEF Call, LookNull, Reset
<1>3. ASSUME NEW c \in Caller,
             \/ LookFresh(c) \/ LookStale(c) \/ Claim(c) \/ UseOld(c)
             \/ ResolveOk(c) \/ ResolveFails(c)
      PROVE  FALSE
  BY <1>3 DEF LookFresh, LookStale, Claim, UseOld, ResolveOk, ResolveFails
<1>4. CASE Tick \/ UNCHANGED vars
  BY <1>4 DEF Tick, vars
<1> QED
  BY <1>1, <1>2, <1>3, <1>4 DEF Next, Step

(* From a barren cache a call brings back an error.                        *)
LEMMA NobodySupplied ==
  ASSUME SessionInv, Barren, [SNext]_sVars, NEW c \in Caller, Supplied(c)'
  PROVE  Supplied(c)
<1> USE DEF Supplied, Answered
<1>0. /\ TypeOK /\ ListTypeOK
      /\ lpc \in [Caller -> ListPc] /\ pc \in [Caller -> CallerPc]
      /\ answer \in [Caller -> Answer]
  BY DEF SessionInv, Inv, TypeOK, ListTypeOK
<1>1. CASE Connect(c)
  BY <1>0, <1>1 DEF Connect, At
<1>2. CASE Attempt(c)
  BY <1>0, <1>2 DEF Attempt, Call, Goto, At
<1>3. CASE GetEndpoint(c)
  <2>1. lpc'[c] = "endpoint" /\ pc'[c] = "out" /\ answer'[c].error = "none"
    BY <1>3 DEF GetEndpoint, listVars
  <2>2. CASE LookNull(c)
    BY <1>0, <2>1, <2>2 DEF LookNull, Return, TypeOK
  <2>3. CASE LookFresh(c) \/ UseOld(c)
    BY <1>0, <2>3 DEF LookFresh, UseOld, TypeOK, Barren
  <2>4. CASE \/ Read(c) \/ LookStale(c) \/ Claim(c) \/ ResolveOk(c)
             \/ ResolveFails(c) \/ Store(c) \/ Reset(c)
    BY <1>0, <2>1, <2>4 DEF Read, LookStale, Claim, ResolveOk, ResolveFails, Store, Reset, Goto
  <2> QED
    BY <1>3, <2>2, <2>3, <2>4 DEF GetEndpoint, Step
<1>4. CASE ListOne(c) \/ NoEndpoint(c) \/ RequestOk(c) \/ RequestFails(c) \/ Wake(c) \/ GiveUp(c)
  BY <1>0, <1>4 DEF ListOne, NoEndpoint, RequestOk, RequestFails, Wake, GiveUp, Ends, At
<1>5. ASSUME NEW d \in Caller, d # c, ListOne(d) \/ ListStep(d) PROVE Supplied(c)
  <2>1. lpc'[c] = lpc[c]
    BY <1>0, <1>5 DEF ListOne, ListStep, Attempt, GetEndpoint, Connect, NoEndpoint, RequestOk,
         RequestFails, Wake, GiveUp, Ends, At, listVars
  <2>2. CASE Attempt(d) \/ GetEndpoint(d)
    <3>1. pc'[c] = pc[c] /\ answer'[c] = answer[c]
      BY <1>0, <1>5, <2>2 DEF Attempt, GetEndpoint, Step, Call, Read, LookNull, LookFresh,
           LookStale, Claim, UseOld, ResolveOk, ResolveFails, Store, Reset, Goto, Return, locals
    <3> QED
      BY <2>1, <3>1
  <2>3. CASE UNCHANGED vars
    BY <2>1, <2>3 DEF vars
  <2> QED
    BY <1>5, <2>2, <2>3 DEF ListOne, ListStep, Connect, NoEndpoint, RequestOk, RequestFails,
         Wake, GiveUp
<1>6. CASE (Tick /\ UNCHANGED listVars) \/ UNCHANGED sVars
  BY <1>6 DEF Tick, sVars, vars, listVars, locals
<1> QED
  BY <1>1, <1>2, <1>3, <1>4, <1>5, <1>6 DEF SNext, ListStep

(* Once the cache is barren it stays so, and no call gets endpoints again. *)
THEOREM BarrenStays == SSpec => BarrenForGood
<1>1. SessionInv /\ [SNext]_sVars =>
        [Barren => Barren' /\ \A c \in Caller : Supplied(c)' => Supplied(c)]_sVars
  BY CacheStep, BarrenNext, NobodySupplied DEF SessionInv, Inv
<1> QED
  BY <1>1, SessionInvariant, PTL DEF SSpec, BarrenForGood
=============================================================================
