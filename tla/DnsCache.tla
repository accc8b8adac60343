------------------------------- MODULE DnsCache -------------------------------
(***************************************************************************)
(* DnsCache: the resolved endpoints of a session, shared by all requests.  *)
(* DnsCache::get_endpoint runs in the coroutine of each request; those run *)
(* on a thread pool.  One step is one access to shared state: a read or a  *)
(* write of current_endpoints under endpoints_mutex, an operation on one   *)
(* of the atomics being_updated and last_error, or an end of async_resolve.*)
(*                                                                         *)
(* Abstractions.  Endpoints are known by their time of creation, in ticks  *)
(* of a clock; system_clock is taken not to be set back.  An error is one  *)
(* of the two kinds the cache itself tells apart.                          *)
(***************************************************************************)
EXTENDS Naturals, FiniteSets

CONSTANTS
  Caller,   \* the coroutines that call get_endpoint
  TTL,      \* age in ticks past which endpoints are stale (60 s in the code)
  Null,     \* the null shared_ptr
  MaxTime   \* bound of the model: the clock stops here

ASSUME CacheAssumption ==
  /\ IsFiniteSet(Caller)
  /\ TTL \in Nat
  /\ MaxTime \in Nat
  /\ Null \notin Nat

VARIABLES
  now,                 \* the system clock
  current_endpoints,   \* creation time of the endpoints, or Null
  being_updated,
  last_error,
  pc,                  \* where each caller is
  endpoints,           \* its local of that name
  new_endpoints,       \* what its update() returned
  answer               \* what its last call returned

vars == <<now, current_endpoints, being_updated, last_error,
          pc, endpoints, new_endpoints, answer>>
locals == <<endpoints, new_endpoints, answer>>

Time      == Nat
Pointer   == Time \cup {Null}
Failure   == {"resolve", "unreachable"}
ErrorCode == Failure \cup {"success"}

\* The std::expected that get_endpoint returns, and a call not yet returned.
Answer   == [value : Pointer, error : ErrorCode \cup {"none"}]
NoAnswer == [value |-> Null, error |-> "none"]
Value(e) == [value |-> e, error |-> "none"]
Error(e) == [value |-> Null, error |-> e]

CallerPc  == {"out", "read", "look", "claim", "resolve", "store", "reset"}

\* Callers between compare_exchange_strong and the end of the scope it opens.
Updating  == {"resolve", "store", "reset"}

Stale(e) == e + TTL < now
-----------------------------------------------------------------------------
(* The constructor has run update() to its end: an error leaves the cache  *)
(* without endpoints, and throws nothing.                                  *)
Init ==
  /\ now = 0
  /\ \/ current_endpoints = 0 /\ last_error = "success"
     \/ current_endpoints = Null /\ last_error \in Failure
  /\ being_updated = FALSE
  /\ pc = [c \in Caller |-> "out"]
  /\ endpoints = [c \in Caller |-> Null]
  /\ new_endpoints = [c \in Caller |-> Null]
  /\ answer = [c \in Caller |-> NoAnswer]

Goto(c, to) == pc' = [pc EXCEPT ![c] = to]

Call(c) ==
  /\ pc[c] = "out"
  /\ Goto(c, "read")
  /\ answer' = [answer EXCEPT ![c] = NoAnswer]
  /\ UNCHANGED <<now, current_endpoints, being_updated, last_error,
                 endpoints, new_endpoints>>

(* endpoints = current_endpoints, under the shared lock.                   *)
Read(c) ==
  /\ pc[c] = "read"
  /\ endpoints' = [endpoints EXCEPT ![c] = current_endpoints]
  /\ Goto(c, "look")
  /\ UNCHANGED <<now, current_endpoints, being_updated, last_error,
                 new_endpoints, answer>>

(* Return, the locals are destroyed.                                       *)
Return(c, result) ==
  /\ answer' = [answer EXCEPT ![c] = result]
  /\ endpoints' = [endpoints EXCEPT ![c] = Null]
  /\ Goto(c, "out")

(* Mutant: endpoints are not compared with nullptr.                        *)
LookNull_Unchecked(c) ==
  /\ pc[c] = "look"
  /\ endpoints[c] = Null
  /\ Goto(c, "claim")
  /\ UNCHANGED <<now, current_endpoints, being_updated, last_error, locals>>

(* endpoints == nullptr: return last_error.                                *)
LookNull(c) ==
  /\ pc[c] = "look"
  /\ endpoints[c] = Null
  /\ Return(c, Error(last_error))
  /\ UNCHANGED <<now, current_endpoints, being_updated, last_error, new_endpoints>>

LookFresh(c) ==
  /\ pc[c] = "look"
  /\ endpoints[c] # Null
  /\ ~Stale(endpoints[c])
  /\ Return(c, Value(endpoints[c]))
  /\ UNCHANGED <<now, current_endpoints, being_updated, last_error, new_endpoints>>

LookStale(c) ==
  /\ pc[c] = "look"
  /\ endpoints[c] # Null
  /\ Stale(endpoints[c])
  /\ Goto(c, "claim")
  /\ UNCHANGED <<now, current_endpoints, being_updated, last_error, locals>>

(* Mutant: the flag is stored, not compared and exchanged.                 *)
Claim_Unconditional(c) ==
  /\ pc[c] = "claim"
  /\ being_updated' = TRUE
  /\ Goto(c, "resolve")
  /\ UNCHANGED <<now, current_endpoints, last_error, locals>>

(* compare_exchange_strong succeeds: this caller updates.                  *)
Claim(c) ==
  /\ pc[c] = "claim"
  /\ ~being_updated
  /\ being_updated' = TRUE
  /\ Goto(c, "resolve")
  /\ UNCHANGED <<now, current_endpoints, last_error, locals>>

(* It fails: another updates, and this one returns the old endpoints.      *)
UseOld(c) ==
  /\ pc[c] = "claim"
  /\ being_updated
  /\ Return(c, Value(endpoints[c]))
  /\ UNCHANGED <<now, current_endpoints, being_updated, last_error, new_endpoints>>

(* update(): async_resolve yields endpoints, created now.                  *)
ResolveOk(c) ==
  /\ pc[c] = "resolve"
  /\ new_endpoints' = [new_endpoints EXCEPT ![c] = now]
  /\ Goto(c, "store")
  /\ UNCHANGED <<now, current_endpoints, being_updated, last_error, endpoints, answer>>

(* Mutant: an empty result does not set last_error.                        *)
ResolveFails_EmptyUnset(c) ==
  /\ pc[c] = "resolve"
  /\ \E e \in ErrorCode \ {"unreachable"} :
       last_error' = IF e = "success" THEN last_error ELSE e
  /\ Goto(c, "store")
  /\ UNCHANGED <<now, current_endpoints, being_updated, locals>>

(* update(): it fails, or yields no endpoints; last_error is set and       *)
(* new_endpoints is nullptr.                                               *)
ResolveFails(c) ==
  /\ pc[c] = "resolve"
  /\ last_error' \in Failure
  /\ Goto(c, "store")
  /\ UNCHANGED <<now, current_endpoints, being_updated, locals>>

(* current_endpoints = std::move(new_endpoints), under the unique lock.    *)
Store(c) ==
  /\ pc[c] = "store"
  /\ current_endpoints' = new_endpoints[c]
  /\ new_endpoints' = [new_endpoints EXCEPT ![c] = Null]
  /\ Goto(c, "reset")
  /\ UNCHANGED <<now, being_updated, last_error, endpoints, answer>>

(* Mutant: the flag is reset only after a successful update.               *)
Reset_OnSuccess(c) ==
  /\ pc[c] = "reset"
  /\ being_updated' = (current_endpoints = Null)
  /\ Goto(c, "read")
  /\ UNCHANGED <<now, current_endpoints, last_error, locals>>

(* continue leaves the scope of reset_flag.                                *)
Reset(c) ==
  /\ pc[c] = "reset"
  /\ being_updated' = FALSE
  /\ Goto(c, "read")
  /\ UNCHANGED <<now, current_endpoints, last_error, locals>>

Tick ==
  /\ now < MaxTime
  /\ now' = now + 1
  /\ UNCHANGED <<current_endpoints, being_updated, last_error, pc, locals>>

Step(c) ==
  \/ Read(c)
  \/ LookNull(c)
  \/ LookFresh(c)
  \/ LookStale(c)
  \/ Claim(c)
  \/ UseOld(c)
  \/ ResolveOk(c)
  \/ ResolveFails(c)
  \/ Store(c)
  \/ Reset(c)

Next ==
  \/ \E c \in Caller : Call(c) \/ Step(c)
  \/ Tick

Spec == Init /\ [][Next]_vars
-----------------------------------------------------------------------------
(* Every variable has its type, and get_endpoint, past its first test, has *)
(* endpoints to look into.                                                 *)
TypeOK ==
  /\ now \in Time
  /\ current_endpoints \in Pointer
  /\ being_updated \in BOOLEAN
  /\ last_error \in ErrorCode
  /\ pc \in [Caller -> CallerPc]
  /\ endpoints \in [Caller -> Pointer]
  /\ new_endpoints \in [Caller -> Pointer]
  /\ answer \in [Caller -> Answer]
  /\ \A c \in Caller : pc[c] = "claim" => endpoints[c] # Null

(* "Only one coroutine should update the endpoints": the flag is set       *)
(* exactly while one does (dns_cache.cpp:83).                              *)
SingleUpdater ==
  /\ \A c, d \in Caller : pc[c] \in Updating /\ pc[d] \in Updating => c = d
  /\ being_updated <=> \E c \in Caller : pc[c] \in Updating

(* A call never fails with the error code of success: whoever finds no     *)
(* endpoints finds the reason in last_error, although the two are not      *)
(* written together.                                                       *)
FailsWithReason == \A c \in Caller : answer[c].error # "success"

(* Endpoints are never replaced by ones created earlier.                   *)
NeverOlder ==
  [][current_endpoints # Null /\ current_endpoints' # Null =>
       current_endpoints' >= current_endpoints]_vars

(* "Others [...] can just continue with the old endpoints": a call returns *)
(* stale endpoints only while another is at work on new ones               *)
(* (dns_cache.cpp:84).                                                     *)
StaleOnlyDuringUpdate ==
  [][\A c \in Caller :
       pc'[c] = "out" /\ pc[c] # "out" /\ answer'[c].value # Null =>
         \/ ~Stale(answer'[c].value)
         \/ \E d \in Caller \ {c} : pc[d] \in Updating]_vars

(* being_updated is reset, whatever the outcome of the update.             *)
FlagReleased == being_updated ~> ~being_updated
=============================================================================
