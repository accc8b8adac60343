---------------------------- MODULE SessionRequests ----------------------------
(***************************************************************************)
(* The listings of several workers over one Session: the attempts of       *)
(* list_one_impl, each a request that asks the DnsCache of the session for *)
(* endpoints first (prepare_stream) and then connects, sends and receives. *)
(* What the cache has lost, every worker misses, whatever it retries.      *)
(*                                                                         *)
(* Abstractions.  A request past get_endpoint is one step, with success or *)
(* an error code; its steps are in PrefixListing.                          *)
(***************************************************************************)
EXTENDS DnsCache

CONSTANT MaxRetries   \* max_retries (5 in the code)

ASSUME RetryAssumption == MaxRetries \in Nat \ {0}

VARIABLES
  lpc,        \* where each caller is in list_one_impl
  retries,    \* its local of that name
  outcome     \* how its last call of list_one_impl ended

listVars == <<lpc, retries, outcome>>
sVars    == <<vars, listVars>>

ListPc  == {"idle", "attempt", "endpoint", "network", "sleep"}
Outcome == {"none", "listed", "exhausted"}

At(c, to) == lpc' = [lpc EXCEPT ![c] = to]

Ends(c, how) ==
  /\ At(c, "idle")
  /\ outcome' = [outcome EXCEPT ![c] = how]
  /\ retries' = [retries EXCEPT ![c] = 0]
-----------------------------------------------------------------------------
SInit ==
  /\ Init
  /\ lpc = [c \in Caller |-> "idle"]
  /\ retries = [c \in Caller |-> 0]
  /\ outcome = [c \in Caller |-> "none"]

(* A worker calls list_one.                                                *)
ListOne(c) ==
  /\ lpc[c] = "idle"
  /\ At(c, "attempt")
  /\ retries' = [retries EXCEPT ![c] = 1]
  /\ outcome' = [outcome EXCEPT ![c] = "none"]
  /\ UNCHANGED vars

(* The request is prepared, and prepare_stream calls get_endpoint.         *)
Attempt(c) ==
  /\ lpc[c] = "attempt"
  /\ retries[c] <= MaxRetries
  /\ Call(c)
  /\ At(c, "endpoint")
  /\ UNCHANGED <<retries, outcome>>

GetEndpoint(c) == lpc[c] = "endpoint" /\ Step(c) /\ UNCHANGED listVars

\* get_endpoint has returned to prepare_stream.
Answered(c) == lpc[c] = "endpoint" /\ pc[c] = "out"

Connect(c) ==
  /\ Answered(c)
  /\ answer[c].error = "none"
  /\ At(c, "network")
  /\ UNCHANGED <<vars, retries, outcome>>

(* The error code of get_endpoint goes up to list_one_impl.                *)
NoEndpoint(c) ==
  /\ Answered(c)
  /\ answer[c].error # "none"
  /\ At(c, "sleep")
  /\ UNCHANGED <<vars, retries, outcome>>

RequestOk(c) ==
  /\ lpc[c] = "network"
  /\ Ends(c, "listed")
  /\ UNCHANGED vars

(* Mutant: a failed request is tried again without a count.                *)
RequestFails_Again(c) ==
  /\ lpc[c] = "network"
  /\ At(c, "attempt")
  /\ UNCHANGED <<vars, retries, outcome>>

RequestFails(c) ==
  /\ lpc[c] = "network"
  /\ At(c, "sleep")
  /\ UNCHANGED <<vars, retries, outcome>>

(* The end of the second of sleep, and retries++.                          *)
Wake(c) ==
  /\ lpc[c] = "sleep"
  /\ At(c, "attempt")
  /\ retries' = [retries EXCEPT ![c] = @ + 1]
  /\ UNCHANGED <<vars, outcome>>

GiveUp(c) ==
  /\ lpc[c] = "attempt"
  /\ retries[c] > MaxRetries
  /\ Ends(c, "exhausted")
  /\ UNCHANGED vars

\* Everything a worker does once it has called list_one.
ListStep(c) ==
  \/ Attempt(c)
  \/ GetEndpoint(c)
  \/ Connect(c)
  \/ NoEndpoint(c)
  \/ RequestOk(c)
  \/ RequestFails(c)
  \/ Wake(c)
  \/ GiveUp(c)

SNext ==
  \/ \E c \in Caller : ListOne(c) \/ ListStep(c)
  \/ Tick /\ UNCHANGED listVars

SSpec == SInit /\ [][SNext]_sVars

(* The pool runs every coroutine that is ready; async_resolve ends, and so *)
(* does a request, within its 300 seconds.                                 *)
SFairSpec == SSpec /\ \A c \in Caller : WF_sVars(ListStep(c))
-----------------------------------------------------------------------------
\* The cache has no endpoints, and no caller that has read some before they
\* were lost is left: such a straggler may still claim an update and restore them.
Barren ==
  /\ current_endpoints = Null
  /\ \A c \in Caller : endpoints[c] = Null /\ new_endpoints[c] = Null /\ pc[c] # "resolve"

\* Callers past the cache, or with endpoints in hand.
Supplied(c) == lpc[c] = "network" \/ (Answered(c) /\ answer[c].error = "none")

(* A failed refresh may be the end of the session: from a barren cache no  *)
(* call ever gets endpoints again, and every worker but those with         *)
(* endpoints in hand uses up all its retries in vain.                      *)
BarrenForGood ==
  [][Barren => Barren' /\ \A c \in Caller : Supplied(c)' => Supplied(c)]_sVars

(* Every call of list_one ends, with a listing or with its retries used    *)
(* up, although all the callers wait for one of them to refresh.           *)
EveryListEnds == \A c \in Caller : lpc[c] = "attempt" ~> lpc[c] = "idle"
=============================================================================
