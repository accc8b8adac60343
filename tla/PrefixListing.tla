----------------------------- MODULE PrefixListing -----------------------------
(***************************************************************************)
(* One worker at one prefix: the loop over its pages                       *)
(* (Worker::process_prefix), the retries for each page (list_one_impl),    *)
(* the request of each attempt (Session::method_impl and prepare_stream),  *)
(* and the parsing of the answer (parse_list_objects).  WorkerPool has all *)
(* this, but for the loop, as one step with four outcomes.                 *)
(*                                                                         *)
(* Abstractions.  A continuation token (V2) or marker (V1) is the number   *)
(* of the page it asks for; no token asks for page 1.  The server echoes   *)
(* the token it was asked with and names the next page, or a fault of      *)
(* Faults happens.  A failed step of a request ends in an error code,      *)
(* whichever it is: the expiry of 300 s on the stream is one of them, so   *)
(* every network step ends.                                                *)
(***************************************************************************)
EXTENDS Naturals, Sequences

CONSTANTS
  Last,         \* the number of pages the server has for the prefix
  MaxRetries,   \* max_retries (5 in the code)
  Ssl,          \* BOOLEAN: is the scheme of the endpoint other than "http"?
  Faults        \* "network", "xml", "token", "value", "repeat"

ASSUME ListingAssumption ==
  /\ Last \in Nat \ {0}
  /\ MaxRetries \in Nat \ {0}
  /\ Ssl \in BOOLEAN
  /\ Faults \subseteq {"network", "xml", "token", "value", "repeat"}

VARIABLES
  pc,         \* where the coroutine is
  token,      \* continuation_token of process_prefix and list_one_impl; 0: none
  retries,    \* of list_one_impl
  asked,      \* the page the last request asked for
  body,       \* the answer to it
  result,     \* what list_one returned
  written,    \* the pages given to write_objects, in that order
  requests,   \* requests begun since list_one was called (of the model)
  end         \* how process_prefix ended: "none" until then

vars == <<pc, token, retries, asked, body, result, written, requests, end>>

\* The steps of a request, in order.
Stages == IF Ssl THEN <<"resolve", "connect", "configure", "handshake", "send", "receive">>
                 ELSE <<"resolve", "connect", "send", "receive">>
StagePc == {Stages[i] : i \in DOMAIN Stages}
Succ(s) == LET i == CHOOSE j \in DOMAIN Stages : Stages[j] = s
           IN  IF i = Len(Stages) THEN "parse" ELSE Stages[i + 1]

ListingPc == StagePc \cup {"call", "attempt", "parse", "sleep", "page", "returned"}

\* Answers: an XML document that is one, with or without the right root
\* element ("broken": neither), the text of IsTruncated, the token of the next
\* page (0: the element is missing), and the echo of the token asked with.
Body == [kind : {"listing", "broken"}, truncated : {"true", "false", "other"},
         next : Nat, echo : Nat]
NoBody == [kind |-> "broken", truncated |-> "other", next |-> 0, echo |-> 0]

\* ListObjectsResult: the page it holds (0 for a default-constructed one), and
\* its tokens, where 0 is nullopt.
Result   == [page : Nat, next : Nat, echo : Nat]
NoResult == [page |-> 0, next |-> 0, echo |-> 0]

Asking == IF token = 0 THEN 1 ELSE token
-----------------------------------------------------------------------------
Init ==
  /\ pc = "call"
  /\ token = 0
  /\ retries = 0
  /\ asked = 0
  /\ body = NoBody
  /\ result = NoResult
  /\ written = <<>>
  /\ requests = 0
  /\ end = "none"

(* process_prefix calls list_one, which calls list_one_impl.               *)
Call ==
  /\ pc = "call"
  /\ pc' = "attempt"
  /\ retries' = 1
  /\ requests' = 0
  /\ UNCHANGED <<token, asked, body, result, written, end>>

(* Mutant: the loop runs while retries < max_retries.                      *)
MoreRetries_OneLess == retries < MaxRetries

\* The condition of the loop in list_one_impl.
MoreRetries == retries <= MaxRetries

(* Mutant: the token is moved into the first attempt's parameters.         *)
Attempt_TokenMoved ==
  /\ pc = "attempt"
  /\ MoreRetries
  /\ pc' = Stages[1]
  /\ asked' = IF retries = 1 THEN Asking ELSE 1
  /\ requests' = requests + 1
  /\ UNCHANGED <<token, retries, body, result, written, end>>

(* Another round of the loop: the query is built from a copy of the token. *)
Attempt ==
  /\ pc = "attempt"
  /\ MoreRetries
  /\ pc' = Stages[1]
  /\ asked' = Asking
  /\ requests' = requests + 1
  /\ UNCHANGED <<token, retries, body, result, written, end>>

StageOk ==
  /\ pc \in StagePc \ {"receive"}
  /\ pc' = Succ(pc)
  /\ UNCHANGED <<token, retries, asked, body, result, written, requests, end>>

(* What the server may answer to a request for a page.                     *)
Answers(p) ==
  LET good == [kind |-> "listing", truncated |-> IF p < Last THEN "true" ELSE "false",
               next |-> IF p < Last THEN p + 1 ELSE 0, echo |-> IF p = 1 THEN 0 ELSE p]
  IN  {good}
      \cup (IF "xml" \in Faults THEN {NoBody} ELSE {})
      \cup (IF "token" \in Faults THEN {[good EXCEPT !.truncated = "true", !.next = 0]} ELSE {})
      \cup (IF "value" \in Faults THEN {[good EXCEPT !.truncated = "other"]} ELSE {})
      \cup (IF "repeat" \in Faults /\ p > 1
            THEN {[good EXCEPT !.truncated = "true", !.next = p]} ELSE {})

(* async_read ends with a response.  Its status is not looked at.          *)
Receive ==
  /\ pc = "receive"
  /\ body' \in Answers(asked)
  /\ pc' = "parse"
  /\ UNCHANGED <<token, retries, asked, result, written, requests, end>>

(* A warning, and a second of sleep.                                       *)
Warn == pc' = "sleep" /\ UNCHANGED <<token, retries, asked, result, written, requests, end>>

(* A step of the request fails: the error code goes up to list_one_impl.   *)
StageFails ==
  /\ "network" \in Faults
  /\ pc \in StagePc
  /\ body' = NoBody
  /\ Warn

ParseFails ==
  /\ pc = "parse"
  /\ body.kind = "broken"
  /\ UNCHANGED body
  /\ Warn

(* Mutant: a missing NextMarker or NextContinuationToken is no error.      *)
Throws_OnlyValue(b) == b.truncated = "other"

Throws(b) == \/ b.truncated = "other"
             \/ b.truncated = "true" /\ b.next = 0

(* parse_list_objects throws; the exception leaves process_prefix.         *)
ParseThrows ==
  /\ pc = "parse"
  /\ body.kind = "listing"
  /\ Throws(body)
  /\ pc' = "returned"
  /\ end' = "thrown"
  /\ UNCHANGED <<token, retries, asked, body, result, written, requests>>

ParseOk ==
  /\ pc = "parse"
  /\ body.kind = "listing"
  /\ ~Throws(body)
  /\ result' = [page |-> asked, next |-> body.next, echo |-> body.echo]
  /\ pc' = "page"
  /\ UNCHANGED <<token, retries, asked, body, written, requests, end>>

(* Mutant: a failed attempt is not counted.                                *)
Wake_Uncounted ==
  /\ pc = "sleep"
  /\ pc' = "attempt"
  /\ UNCHANGED <<token, retries, asked, body, result, written, requests, end>>

(* The end of the sleep, and retries++.                                    *)
Wake ==
  /\ pc = "sleep"
  /\ pc' = "attempt"
  /\ retries' = retries + 1
  /\ UNCHANGED <<token, asked, body, result, written, requests, end>>

(* The retries are used up: an empty result.                               *)
Exhausted ==
  /\ pc = "attempt"
  /\ ~MoreRetries
  /\ result' = NoResult
  /\ pc' = "page"
  /\ UNCHANGED <<token, retries, asked, body, written, requests, end>>

(* Mutant: the optionals are compared without looking for values in them.  *)
Repeated_NoValue == result.echo = result.next

Repeated == result.next # 0 /\ result.echo # 0 /\ result.echo = result.next

(* Mutant: continue stands for co_return, the page is asked for again.     *)
SkipPrefix_Continue ==
  /\ pc = "page"
  /\ Repeated
  /\ pc' = "call"
  /\ UNCHANGED <<token, retries, asked, body, result, written, requests, end>>

(* A page that names itself as its successor: skip the prefix.             *)
SkipPrefix ==
  /\ pc = "page"
  /\ Repeated
  /\ pc' = "returned"
  /\ end' = "skipped"
  /\ UNCHANGED <<token, retries, asked, body, result, written, requests>>

(* The rest of a round of process_prefix.  An empty result has no objects, *)
(* no prefixes and no token, and ends the loop as the last page does.      *)
TakePage ==
  /\ pc = "page"
  /\ ~Repeated
  /\ written' = IF result.page = 0 THEN written ELSE Append(written, result.page)
  /\ token' = result.next
  /\ IF result.next # 0
     THEN pc' = "call" /\ UNCHANGED end
     ELSE pc' = "returned" /\ end' = IF result.page = 0 THEN "exhausted" ELSE "listed"
  /\ UNCHANGED <<retries, asked, body, result, requests>>

Returned == pc = "returned" /\ UNCHANGED vars

Step ==
  \/ Call
  \/ Attempt
  \/ StageOk
  \/ Receive
  \/ StageFails
  \/ ParseFails
  \/ ParseThrows
  \/ ParseOk
  \/ Wake
  \/ Exhausted
  \/ SkipPrefix
  \/ TakePage

Next == Step \/ Returned

Spec == Init /\ [][Next]_vars

(* Every operation a request waits for ends, by itself or by the expiry.   *)
FairSpec == Spec /\ WF_vars(Step)
-----------------------------------------------------------------------------
(* Every variable has its type.                                            *)
TypeOK ==
  /\ pc \in ListingPc
  /\ token \in 0..Last
  /\ retries \in 0..(MaxRetries + 1)
  /\ asked \in 0..Last
  /\ body \in Body
  /\ result \in Result
  /\ written \in Seq(1..Last)
  /\ requests \in 0..MaxRetries
  /\ end \in {"none", "listed", "exhausted", "skipped", "thrown"}

(* The pages are written in order, each once and none left out, however    *)
(* many attempts each one took and whatever became of them.                *)
PagesInOrder == written = [i \in 1..Len(written) |-> i]

(* A prefix that ends without a message on stderr is listed to its end.    *)
ListedToTheEnd == end = "listed" => Len(written) = Last

(* A page is given up only after max_retries requests for it.              *)
FullPersistence == end = "exhausted" => requests = MaxRetries

(* All of it is one of the four outcomes of a listing WorkerPool knows, at *)
(* the pages where it expects them.                                        *)
Outcomes == INSTANCE ListOutcomes WITH listed <- Len(written)
ImplementsOutcomes == Outcomes!Spec

\* How many steps there can still be: of an attempt, of a page, of the prefix.
StepsOfAttempt == Len(Stages) + 3
StepsOfPage    == (MaxRetries + 1) * StepsOfAttempt + 3

LeftInAttempt(at) ==
  IF at = "attempt" THEN StepsOfAttempt - 1
  ELSE IF at \in StagePc THEN StepsOfAttempt - 1 - CHOOSE i \in DOMAIN Stages : Stages[i] = at
  ELSE IF at = "parse" THEN 1 ELSE 0

LeftInPage(at, tries) ==
  IF at = "returned" THEN 0
  ELSE IF at = "page" THEN 1
  ELSE IF at = "call" THEN StepsOfPage - 1
  ELSE (MaxRetries + 1 - tries) * StepsOfAttempt + LeftInAttempt(at) + 2

StepsLeft == (Last - Len(written)) * StepsOfPage + LeftInPage(pc, retries)

(* Every step brings the end nearer, whatever fails and whichever of the   *)
(* Answers the server gives: no retry, no page and no repeated token keeps *)
(* a worker at a prefix for longer than the retries of its pages.  (Only   *)
(* the last token is compared: a server that goes round between several,   *)
(* which is none of the Answers, would keep it.)                           *)
AlwaysNearer == [][StepsLeft' \in 0..(StepsLeft - 1)]_vars

(* process_prefix returns, although the server may name a page as its own  *)
(* successor each time it is asked.                                        *)
Returns == <>(end # "none")
=============================================================================
