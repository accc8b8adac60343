-------------------------- MODULE PrefixListingProofs --------------------------
(***************************************************************************)
(* What TLAPS proves of PrefixListing, for every number of pages and of    *)
(* retries, with and without TLS, and whatever faults happen.              *)
(***************************************************************************)
EXTENDS PrefixListing, TLAPS

Others == {"call", "attempt", "parse", "sleep", "page", "returned"}

(* The steps of a request are few, end with "receive", and differ from the *)
(* other places the coroutine may be at.                                   *)
LEMMA StageFacts ==
  /\ Len(Stages) \in Nat \ {0}
  /\ DOMAIN Stages = 1..Len(Stages)
  /\ Stages[Len(Stages)] = "receive"
  /\ StagePc \cap Others = {}
<1>1. CASE Ssl
  <2>1. Stages = <<"resolve", "connect", "configure", "handshake", "send", "receive">>
    BY <1>1 DEF Stages
  <2>2. Len(Stages) = 6 /\ DOMAIN Stages = 1..6 /\ Stages[6] = "receive"
    BY <2>1
  <2>3. \A i \in 1..6 : i = 1 \/ i = 2 \/ i = 3 \/ i = 4 \/ i = 5 \/ i = 6
    OBVIOUS
  <2>4. \A i \in 1..6 : Stages[i] \notin Others
    BY <2>1, <2>3 DEF Others
  <2> QED
    BY <2>2, <2>4 DEF StagePc
<1>2. CASE ~Ssl
  <2>1. Stages = <<"resolve", "connect", "send", "receive">>
    BY <1>2 DEF Stages
  <2>2. Len(Stages) = 4 /\ DOMAIN Stages = 1..4 /\ Stages[4] = "receive"
    BY <2>1
  <2>3. \A i \in 1..4 : i = 1 \/ i = 2 \/ i = 3 \/ i = 4
    OBVIOUS
  <2>4. \A i \in 1..4 : Stages[i] \notin Others
    BY <2>1, <2>3 DEF Others
  <2> QED
    BY <2>2, <2>4 DEF StagePc
<1> QED
  BY <1>1, <1>2

(* A request goes on with another of its steps until the answer is there.  *)
LEMMA SuccIsStage ==
  ASSUME NEW s \in StagePc, s # "receive"
  PROVE  Succ(s) \in StagePc
<1> DEFINE i == CHOOSE j \in DOMAIN Stages : Stages[j] = s
<1>1. i \in DOMAIN Stages /\ Stages[i] = s
  BY DEF StagePc
<1> HIDE DEF i
<1>2. i # Len(Stages) /\ i + 1 \in DOMAIN Stages
  BY <1>1, StageFacts
<1>3. Succ(s) = Stages[i + 1]
  BY <1>2 DEF Succ, i
<1> QED
  BY <1>2, <1>3 DEF StagePc

(* A request has a first step.                                             *)
LEMMA FirstStage == Stages[1] \in StagePc
BY StageFacts DEF StagePc
-----------------------------------------------------------------------------
N == Len(written)

\* The page asked for is the one after those written.
AtNext == pc \in StagePc \cup {"call", "attempt", "parse", "sleep"} => Asking = N + 1

AskedNext == pc \in StagePc \cup {"parse"} => asked = Asking

\* What an answer says, if it does not make the parser throw.
GoodNext(page, next, echo) ==
  \/ next = 0 /\ page = Last
  \/ next = page + 1 /\ page < Last /\ echo # next
  \/ next = page /\ page > 1 /\ echo = next

BodyKnown ==
  pc = "parse" /\ body.kind = "listing" /\ ~Throws(body) =>
    asked \in 1..Last /\ GoodNext(asked, body.next, body.echo)

ResultKnown ==
  pc = "page" =>
    \/ result = NoResult /\ requests = MaxRetries
    \/ /\ result.page = N + 1 /\ result.page \in 1..Last
       /\ GoodNext(result.page, result.next, result.echo)

Counted ==
  /\ pc = "attempt" => requests = retries - 1 /\ retries >= 1
  /\ pc \in StagePc \cup {"parse", "sleep"} => requests = retries /\ retries \in 1..MaxRetries

Inv ==
  /\ TypeOK
  /\ PagesInOrder
  /\ ListedToTheEnd
  /\ FullPersistence
  /\ AtNext
  /\ AskedNext
  /\ BodyKnown
  /\ ResultKnown
  /\ Counted
  /\ end # "none" <=> pc = "returned"

(* The invariant holds before the first page is asked for.                 *)
LEMMA InvInit == Init => Inv
<1> SUFFICES ASSUME Init PROVE Inv
  OBVIOUS
<1> USE ListingAssumption DEF Init
<1>1. TypeOK
  BY DEF TypeOK, ListingPc, Body, NoBody, Result, NoResult
<1>2. "call" \notin StagePc
  BY StageFacts DEF Others
<1>3. PagesInOrder /\ AtNext
  BY DEF PagesInOrder, AtNext, Asking, N
<1> QED
  BY <1>1, <1>2, <1>3 DEF Inv, ListedToTheEnd, FullPersistence, AskedNext, BodyKnown,
     ResultKnown, Counted

(* What the server answers to a request for a page.                        *)
LEMMA AnswersKnown ==
  ASSUME NEW p \in 1..Last, NEW b \in Answers(p)
  PROVE  /\ b \in Body
         /\ b.kind = "listing" /\ ~Throws(b) => GoodNext(p, b.next, b.echo)
<1> USE ListingAssumption
<1> DEFINE good == [kind |-> "listing", truncated |-> IF p < Last THEN "true" ELSE "false",
                    next |-> IF p < Last THEN p + 1 ELSE 0, echo |-> IF p = 1 THEN 0 ELSE p]
<1>1. CASE b = good
  BY <1>1 DEF Body, Throws, GoodNext
<1>2. CASE b = NoBody
  BY <1>2 DEF Body, NoBody
<1>3. CASE b = [good EXCEPT !.truncated = "true", !.next = 0]
  <2>1. b = [kind |-> "listing", truncated |-> "true", next |-> 0, echo |-> IF p = 1 THEN 0 ELSE p]
    BY <1>3
  <2> QED
    BY <2>1 DEF Body, Throws
<1>4. CASE b = [good EXCEPT !.truncated = "other"]
  <2>1. b = [kind |-> "listing", truncated |-> "other",
             next |-> IF p < Last THEN p + 1 ELSE 0, echo |-> IF p = 1 THEN 0 ELSE p]
    BY <1>4
  <2> QED
    BY <2>1 DEF Body, Throws
<1>5. CASE p > 1 /\ b = [good EXCEPT !.truncated = "true", !.next = p]
  <2>1. b = [kind |-> "listing", truncated |-> "true", next |-> p,
             echo |-> IF p = 1 THEN 0 ELSE p]
    BY <1>5
  <2>2. p \in Nat /\ p > 1 /\ (IF p = 1 THEN 0 ELSE p) = p
    BY <1>5
  <2>3. b.next = p /\ b.echo = p
    BY <2>1, <2>2
  <2>4. b \in Body
    BY <2>1, <2>2 DEF Body
  <2> QED
    BY <2>2, <2>3, <2>4 DEF GoodNext
<1> QED
  BY <1>1, <1>2, <1>3, <1>4, <1>5 DEF Answers

(* Every step keeps it.                                                    *)
LEMMA InvNext == Inv /\ [Next]_vars => Inv'
<1> SUFFICES ASSUME Inv, [Next]_vars PROVE Inv'
  OBVIOUS
<1> USE ListingAssumption DEF Inv
<1>0. StagePc \cap Others = {} /\ StagePc \subseteq ListingPc /\ Others \subseteq ListingPc
  BY StageFacts DEF ListingPc, Others
<1>1. CASE Call
  BY <1>0, <1>1 DEF Call, TypeOK, PagesInOrder, ListedToTheEnd, FullPersistence, AtNext,
     AskedNext, BodyKnown, ResultKnown, Counted, Asking, N, Others
<1>2. CASE Attempt
  <2>1. pc' \in StagePc
    BY <1>2, FirstStage DEF Attempt
  <2>2. requests' \in 0..MaxRetries /\ asked' \in 0..Last
    BY <1>2 DEF Attempt, TypeOK, Counted, MoreRetries, Asking
  <2> QED
    BY <1>0, <1>2, <2>1, <2>2 DEF Attempt, TypeOK, PagesInOrder, ListedToTheEnd,
       FullPersistence, AtNext, AskedNext, BodyKnown, ResultKnown, Counted, MoreRetries,
       Asking, N, Others
<1>3. CASE StageOk
  <2>1. pc \in StagePc /\ pc' \in StagePc
    BY <1>3, SuccIsStage DEF StageOk
  <2> QED
    BY <1>0, <1>3, <2>1 DEF StageOk, TypeOK, PagesInOrder, ListedToTheEnd, FullPersistence,
       AtNext, AskedNext, BodyKnown, ResultKnown, Counted, Asking, N, Others
<1>4. CASE Receive
  <2>1. "receive" \in StagePc
    BY StageFacts DEF StagePc
  <2>2. asked \in 1..Last
    BY <1>4, <2>1 DEF Receive, AskedNext, Asking, TypeOK
  <2>3. /\ body' \in Body
        /\ body'.kind = "listing" /\ ~Throws(body') => GoodNext(asked, body'.next, body'.echo)
    BY <1>4, <2>2, AnswersKnown DEF Receive
  <2> QED
    BY <1>0, <1>4, <2>1, <2>2, <2>3 DEF Receive, TypeOK, PagesInOrder, ListedToTheEnd,
       FullPersistence, AtNext, AskedNext, BodyKnown, ResultKnown, Counted, Asking, N, Others
<1>5. CASE StageFails
  <2>1. NoBody \in Body
    BY DEF NoBody, Body
  <2> QED
    BY <1>0, <1>5, <2>1 DEF StageFails, Warn, TypeOK, PagesInOrder, ListedToTheEnd,
       FullPersistence, AtNext, AskedNext, BodyKnown, ResultKnown, Counted, Asking, N, Others
<1>6. CASE ParseFails
  BY <1>0, <1>6 DEF ParseFails, Warn, TypeOK, PagesInOrder, ListedToTheEnd,
     FullPersistence, AtNext, AskedNext, BodyKnown, ResultKnown, Counted, Asking, N, Others
<1>7. CASE ParseThrows
  BY <1>0, <1>7 DEF ParseThrows, TypeOK, PagesInOrder, ListedToTheEnd,
     FullPersistence, AtNext, AskedNext, BodyKnown, ResultKnown, Counted, Asking, N, Others
<1>8. CASE ParseOk
  <2>1. /\ result'.page = asked /\ result'.next = body.next /\ result'.echo = body.echo
        /\ asked \in 1..Last /\ GoodNext(asked, body.next, body.echo)
        /\ asked = N + 1
    BY <1>8 DEF ParseOk, BodyKnown, AtNext, AskedNext
  <2>2. result' \in Result
    BY <1>8 DEF ParseOk, TypeOK, Body, Result
  <2> QED
    BY <1>0, <1>8, <2>1, <2>2 DEF ParseOk, TypeOK, PagesInOrder, ListedToTheEnd,
       FullPersistence, AtNext, AskedNext, BodyKnown, ResultKnown, Counted, Asking, N, Others
<1>9. CASE Wake
  BY <1>0, <1>9 DEF Wake, TypeOK, PagesInOrder, ListedToTheEnd,
     FullPersistence, AtNext, AskedNext, BodyKnown, ResultKnown, Counted, Asking, N, Others
<1>10. CASE Exhausted
  <2>1. NoResult \in Result
    BY DEF NoResult, Result
  <2>2. requests = MaxRetries
    BY <1>10 DEF Exhausted, MoreRetries, Counted, TypeOK
  <2> QED
    BY <1>0, <1>10, <2>1, <2>2 DEF Exhausted, TypeOK, PagesInOrder, ListedToTheEnd,
       FullPersistence, AtNext, AskedNext, BodyKnown, ResultKnown, Counted, Asking, N, Others
<1>11. CASE SkipPrefix
  BY <1>0, <1>11 DEF SkipPrefix, TypeOK, PagesInOrder, ListedToTheEnd,
     FullPersistence, AtNext, AskedNext, BodyKnown, ResultKnown, Counted, Asking, N, Others
<1>12. CASE TakePage
  <2>0. pc = "page" /\ ~Repeated /\ written \in Seq(1..Last) /\ N \in Nat
    BY <1>12 DEF TakePage, TypeOK, N
  <2>1. CASE result = NoResult /\ requests = MaxRetries
    <3>1. /\ written' = written /\ pc' = "returned" /\ end' = "exhausted" /\ token' = 0
          /\ requests' = requests
      BY <1>12, <2>1 DEF TakePage, NoResult
    <3>2. TypeOK'
      BY <1>0, <1>12, <3>1 DEF TakePage, TypeOK, Others
    <3>3. PagesInOrder'
      BY <3>1 DEF PagesInOrder
    <3>4. (ListedToTheEnd /\ FullPersistence)'
      BY <2>1, <3>1 DEF ListedToTheEnd, FullPersistence
    <3>5. pc' \notin StagePc \cup {"call", "attempt", "parse", "sleep", "page"}
      BY <1>0, <3>1 DEF Others
    <3> QED
      BY <3>1, <3>2, <3>3, <3>4, <3>5 DEF AtNext, AskedNext, BodyKnown, ResultKnown, Counted
  <2>2. CASE ~(result = NoResult /\ requests = MaxRetries)
    <3>1. /\ result.page = N + 1 /\ result.page \in 1..Last
          /\ GoodNext(result.page, result.next, result.echo)
      BY <2>0, <2>2 DEF ResultKnown
    <3>2. \/ result.next = 0 /\ result.page = Last
          \/ result.next = result.page + 1 /\ result.page < Last
      BY <2>0, <3>1 DEF GoodNext, Repeated
    <3>3. written' = Append(written, N + 1)
      BY <1>12, <2>0, <3>1 DEF TakePage
    <3>4. /\ written' \in Seq(1..Last) /\ Len(written') = N + 1
          /\ \A i \in 1..N : written'[i] = written[i]
          /\ written'[N + 1] = N + 1
      BY <2>0, <3>1, <3>3 DEF N
    <3>5. PagesInOrder'
      <4>1. \A i \in 1..(N + 1) : written'[i] = i
        BY <2>0, <3>4 DEF PagesInOrder, N
      <4>2. written' = [i \in 1..(N + 1) |-> written'[i]]
        BY <3>4
      <4> QED
        BY <3>4, <4>1, <4>2 DEF PagesInOrder
    <3>6. CASE result.next = 0
      BY <1>0, <1>12, <2>0, <3>1, <3>2, <3>4, <3>5, <3>6 DEF TakePage, TypeOK,
         ListedToTheEnd, FullPersistence, AtNext, AskedNext, BodyKnown, ResultKnown,
         Counted, N, Others
    <3>7. CASE result.next # 0
      <4>1. /\ pc' = "call" /\ token' = N + 2 /\ end' = end /\ token' \in 1..Last
        BY <1>12, <2>0, <3>1, <3>2, <3>7 DEF TakePage
      <4> QED
        BY <1>0, <1>12, <2>0, <3>4, <3>5, <4>1 DEF TakePage, TypeOK,
           ListedToTheEnd, FullPersistence, AtNext, AskedNext, BodyKnown, ResultKnown,
           Counted, Asking, N, Others
    <3> QED
      BY <3>6, <3>7
  <2> QED
    BY <2>1, <2>2
<1>13. CASE UNCHANGED vars
  BY <1>13 DEF vars, TypeOK, PagesInOrder, ListedToTheEnd,
     FullPersistence, AtNext, AskedNext, BodyKnown, ResultKnown, Counted, Asking, N
<1> QED
  BY <1>1, <1>2, <1>3, <1>4, <1>5, <1>6, <1>7, <1>8, <1>9, <1>10, <1>11, <1>12, <1>13
     DEF Next, Step, Returned

(* The inductive invariant holds in every state.                           *)
LEMMA Invariant == Spec => []Inv
BY InvInit, InvNext, PTL DEF Spec

(* Type correctness; with it the bound on retries and requests.            *)
THEOREM TypeCorrect == Spec => []TypeOK
BY Invariant, PTL DEF Inv

(* The pages are written in order, each once and none left out.            *)
THEOREM InOrder == Spec => []PagesInOrder
BY Invariant, PTL DEF Inv

(* A prefix that ends without a message on stderr is listed to its end.    *)
THEOREM ToTheEnd == Spec => []ListedToTheEnd
BY Invariant, PTL DEF Inv

(* A page is given up only after max_retries requests for it.              *)
THEOREM Persistent == Spec => []FullPersistence
BY Invariant, PTL DEF Inv
-----------------------------------------------------------------------------
(* TakePage as ListOutcomes sees it: the empty result of exhausted retries,*)
(* or the next page, after which the prefix ends exactly if it is the last.*)
LEMMA TakePageOutcome ==
  ASSUME Inv, TakePage
  PROVE  Outcomes!ListPage \/ Outcomes!ListExhausted
<1>1. pc = "page" /\ end = "none" /\ ~Repeated /\ N \in Nat /\ written \in Seq(1..Last)
  BY DEF TakePage, Inv, TypeOK, N
<1>2. CASE result = NoResult
  BY <1>1, <1>2 DEF TakePage, NoResult, Outcomes!ListExhausted, Outcomes!Ends
<1>3. CASE result # NoResult
  <2>1. /\ result.page = N + 1 /\ result.page \in 1..Last
        /\ GoodNext(result.page, result.next, result.echo)
    BY <1>1, <1>3 DEF Inv, ResultKnown
  <2>2. result.next = 0 <=> result.page = Last
    BY <1>1, <2>1, ListingAssumption DEF GoodNext, Repeated
  <2>3. Len(written') = N + 1
    BY <1>1, <2>1 DEF TakePage, N
  <2>4. end' = IF Len(written') = Last THEN "listed" ELSE "none"
    BY <1>1, <2>1, <2>2, <2>3 DEF TakePage
  <2> QED
    BY <1>1, <2>3, <2>4 DEF Outcomes!ListPage, N
<1> QED
  BY <1>2, <1>3

(* With all its requests, retries and malformed answers, the listing of a  *)
(* prefix has just the outcomes WorkerPool gives it, for any number of     *)
(* pages and of retries.                                                   *)
THEOREM OutcomesImplemented == Spec => ImplementsOutcomes
<1>1. Init => Outcomes!Init
  BY DEF Init, Outcomes!Init
<1>2. Inv /\ [Next]_vars => [Outcomes!Next]_Outcomes!vars
  <2> SUFFICES ASSUME Inv, [Next]_vars
               PROVE  Outcomes!Next \/ UNCHANGED <<Len(written), end>>
    BY DEF Outcomes!vars
  <2>1. CASE TakePage
    BY <2>1, TakePageOutcome DEF Outcomes!Next
  <2>2. CASE SkipPrefix
    <3>1. end = "none" /\ Len(written) > 0
      BY <2>2, ListingAssumption DEF SkipPrefix, Repeated, Inv, ResultKnown, GoodNext, NoResult, N, TypeOK
    <3> QED
      BY <2>2, <3>1 DEF SkipPrefix, Outcomes!ListRepeated, Outcomes!Ends, Outcomes!Next
  <2>3. CASE ParseThrows
    <3>1. end = "none"
      BY <2>3 DEF ParseThrows, Inv
    <3> QED
      BY <2>3, <3>1 DEF ParseThrows, Outcomes!ListThrows, Outcomes!Ends, Outcomes!Next
  <2>4. CASE ~(TakePage \/ SkipPrefix \/ ParseThrows)
    BY <2>4 DEF Next, Step, Call, Attempt, StageOk, Receive, StageFails, ParseFails, Warn, ParseOk, Wake,
       Exhausted, Returned, vars
  <2> QED
    BY <2>1, <2>2, <2>3, <2>4
<1> QED
  BY <1>1, <1>2, Invariant, PTL DEF Spec, ImplementsOutcomes, Outcomes!Spec
-----------------------------------------------------------------------------
(* Its end                                                                 *)

StageNumber(s) == CHOOSE i \in DOMAIN Stages : Stages[i] = s

(* The steps of a request differ from each other.                          *)
LEMMA StagesDiffer == \A i, j \in DOMAIN Stages : Stages[i] = Stages[j] => i = j
<1>1. CASE Ssl
  <2>1. Stages = <<"resolve", "connect", "configure", "handshake", "send", "receive">>
    BY <1>1 DEF Stages
  <2>2. DOMAIN Stages = 1..6
    BY <2>1
  <2>3. /\ Stages[1] = "resolve" /\ Stages[2] = "connect" /\ Stages[3] = "configure"
        /\ Stages[4] = "handshake" /\ Stages[5] = "send" /\ Stages[6] = "receive"
    BY <2>1
  <2>4. \A i \in 1..6 : i = 1 \/ i = 2 \/ i = 3 \/ i = 4 \/ i = 5 \/ i = 6
    OBVIOUS
  <2> QED
    BY <2>2, <2>3, <2>4
<1>2. CASE ~Ssl
  <2>1. Stages = <<"resolve", "connect", "send", "receive">>
    BY <1>2 DEF Stages
  <2>2. DOMAIN Stages = 1..4
    BY <2>1
  <2>3. /\ Stages[1] = "resolve" /\ Stages[2] = "connect" /\ Stages[3] = "send" /\ Stages[4] = "receive"
    BY <2>1
  <2>4. \A i \in 1..4 : i = 1 \/ i = 2 \/ i = 3 \/ i = 4
    OBVIOUS
  <2> QED
    BY <2>2, <2>3, <2>4
<1> QED
  BY <1>1, <1>2

(* They are numbered in their order.                                       *)
LEMMA StageNumbers ==
  /\ \A s \in StagePc : StageNumber(s) \in 1..Len(Stages)
  /\ StageNumber(Stages[1]) = 1
  /\ \A s \in StagePc : s # "receive" => StageNumber(Succ(s)) = StageNumber(s) + 1
<1>1. ASSUME NEW i \in DOMAIN Stages PROVE StageNumber(Stages[i]) = i
  BY StagesDiffer DEF StageNumber
<1>2. ASSUME NEW s \in StagePc PROVE StageNumber(s) \in DOMAIN Stages /\ Stages[StageNumber(s)] = s
  BY DEF StageNumber, StagePc
<1>3. 1 \in DOMAIN Stages
  BY StageFacts
<1>4. ASSUME NEW s \in StagePc, s # "receive" PROVE StageNumber(Succ(s)) = StageNumber(s) + 1
  <2> DEFINE i == StageNumber(s)
  <2>1. i \in DOMAIN Stages /\ Stages[i] = s
    BY <1>2
  <2>2. i # Len(Stages) /\ i + 1 \in DOMAIN Stages
    BY <1>4, <2>1, StageFacts
  <2>3. Succ(s) = Stages[i + 1]
    BY <2>2 DEF Succ, StageNumber
  <2> QED
    BY <1>1, <2>2, <2>3
<1> QED
  BY <1>1, <1>2, <1>3, <1>4, StageFacts

Trying == StagePc \cup {"attempt", "parse", "sleep"}

(* What an attempt has left, at each of its places.                        *)
LEMMA AttemptLeft ==
  /\ StepsOfAttempt \in Nat /\ StepsOfAttempt > 2
  /\ LeftInAttempt("attempt") = StepsOfAttempt - 1
  /\ \A s \in StagePc : /\ LeftInAttempt(s) = StepsOfAttempt - 1 - StageNumber(s)
                        /\ LeftInAttempt(s) \in 2..(StepsOfAttempt - 2)
  /\ LeftInAttempt("parse") = 1
  /\ LeftInAttempt("sleep") = 0
<1>1. Len(Stages) \in Nat /\ "attempt" \notin StagePc /\ "parse" \notin StagePc /\ "sleep" \notin StagePc
  BY StageFacts DEF Others
<1>2. StepsOfAttempt = Len(Stages) + 3
  BY DEF StepsOfAttempt
<1>3. ASSUME NEW s \in StagePc
      PROVE  /\ LeftInAttempt(s) = StepsOfAttempt - 1 - StageNumber(s)
             /\ LeftInAttempt(s) \in 2..(StepsOfAttempt - 2)
  <2>1. LeftInAttempt(s) = StepsOfAttempt - 1 - StageNumber(s)
    BY <1>1 DEF LeftInAttempt, StageNumber
  <2>2. StageNumber(s) \in 1..Len(Stages)
    BY StageNumbers
  <2> QED
    BY <1>1, <1>2, <2>1, <2>2
<1>4. /\ LeftInAttempt("attempt") = StepsOfAttempt - 1
      /\ LeftInAttempt("parse") = 1
      /\ LeftInAttempt("sleep") = 0
  BY <1>1 DEF LeftInAttempt
<1> QED
  BY <1>1, <1>2, <1>3, <1>4

(* What a page has left during its attempts; a failed one leaves less.     *)
LEMMA TriesLeft ==
  ASSUME NEW at \in Trying, NEW tries \in 1..(MaxRetries + 1)
  PROVE  /\ LeftInPage(at, tries) = (MaxRetries + 1 - tries) * StepsOfAttempt + LeftInAttempt(at) + 2
         /\ LeftInPage(at, tries) \in 2..(StepsOfPage - 2)
         /\ tries <= MaxRetries => LeftInPage("attempt", tries + 1) < LeftInPage("sleep", tries)
<1> DEFINE R == StepsOfAttempt
           left == MaxRetries + 1 - tries
<1>1. R \in Nat /\ R > 2
  BY AttemptLeft
<1>2. MaxRetries \in Nat /\ StepsOfPage = (MaxRetries + 1) * R + 3
  BY ListingAssumption DEF StepsOfPage
<1>3. /\ "page" \notin StagePc /\ "returned" \notin StagePc /\ "call" \notin StagePc
  BY StageFacts DEF Others
<1>4. ASSUME NEW place \in Trying, NEW n
      PROVE  LeftInPage(place, n) = (MaxRetries + 1 - n) * R + LeftInAttempt(place) + 2
  BY <1>3 DEF LeftInPage, Trying
<1>5. \A place \in Trying : LeftInAttempt(place) \in 0..(R - 1)
  BY <1>1, AttemptLeft DEF Trying
<1> HIDE DEF R
<1>6. left \in 0..MaxRetries
  BY <1>2
<1>7. left * R \in Nat /\ left * R <= MaxRetries * R
  <2> HIDE DEF left
  <2> QED
    BY <1>1, <1>2, <1>6, SMTT(30)
<1>8. (MaxRetries + 1) * R = MaxRetries * R + R /\ MaxRetries * R \in Nat
  BY <1>1, <1>2, SMTT(30)
<1>9. LeftInPage(at, tries) \in 2..(StepsOfPage - 2)
  <2>1. LeftInPage(at, tries) = left * R + LeftInAttempt(at) + 2
    BY <1>4
  <2>2. LeftInAttempt(at) \in 0..(R - 1)
    BY <1>5
  <2> HIDE DEF left
  <2> QED
    BY <1>1, <1>2, <1>7, <1>8, <2>1, <2>2
<1>10. ASSUME tries <= MaxRetries PROVE LeftInPage("attempt", tries + 1) < LeftInPage("sleep", tries)
  <2>1. "attempt" \in Trying /\ "sleep" \in Trying
    BY DEF Trying
  <2>2. /\ LeftInPage("attempt", tries + 1) = (MaxRetries + 1 - (tries + 1)) * R + (R - 1) + 2
        /\ LeftInPage("sleep", tries) = left * R + 2
    <3>1. LeftInAttempt("attempt") = R - 1 /\ LeftInAttempt("sleep") = 0
      BY AttemptLeft DEF R
    <3>2. LeftInPage("sleep", tries) = left * R + 0 + 2
      BY <1>4, <2>1, <3>1
    <3>3. LeftInPage("attempt", tries + 1) = (MaxRetries + 1 - (tries + 1)) * R + (R - 1) + 2
      BY <1>4, <2>1, <3>1
    <3> QED
      BY <1>7, <3>2, <3>3
  <2>3. MaxRetries + 1 - (tries + 1) = left - 1
    BY <1>2
  <2> HIDE DEF left
  <2>4. (left - 1) * R = left * R - R
    BY <1>1, <1>2, <1>6, SMTT(30)
  <2> QED
    BY <1>1, <1>7, <2>2, <2>3, <2>4
<1> QED
  BY <1>4, <1>9, <1>10 DEF R

(* What a page has left at its other places.                               *)
LEMMA PageLeft ==
  /\ StepsOfPage \in Nat /\ StepsOfPage > 2
  /\ \A tries : /\ LeftInPage("call", tries) = StepsOfPage - 1
                /\ LeftInPage("page", tries) = 1
                /\ LeftInPage("returned", tries) = 0
<1>1. StepsOfAttempt \in Nat /\ MaxRetries + 1 \in Nat
  BY AttemptLeft, ListingAssumption
<1>2. (MaxRetries + 1) * StepsOfAttempt \in Nat
  BY <1>1
<1> QED
  BY <1>2 DEF LeftInPage, StepsOfPage

(* Unless it writes a page, a step leaves the page less to do.             *)
LEMMA PageNearer ==
  ASSUME Inv, Step, ~TakePage
  PROVE  /\ LeftInPage(pc, retries) \in Nat /\ LeftInPage(pc', retries') \in Nat
         /\ LeftInPage(pc', retries') < LeftInPage(pc, retries) /\ written' = written
<1> DEFINE R == StepsOfAttempt
<1>1. R \in Nat /\ R > 2 /\ MaxRetries \in Nat \ {0}
  BY AttemptLeft, ListingAssumption
<1>2. StepsOfPage \in Nat /\ StepsOfPage > 2
  BY PageLeft
<1>3. /\ "attempt" \in Trying /\ "parse" \in Trying /\ "sleep" \in Trying /\ StagePc \subseteq Trying
  BY DEF Trying
<1>4. pc \in Trying => retries \in 1..(MaxRetries + 1) /\ (pc # "attempt" => retries <= MaxRetries)
  BY DEF Inv, Counted, TypeOK, Trying
\* Two places in the same attempt.
<1>5. ASSUME NEW from \in Trying, NEW to \in Trying, NEW tries \in 1..(MaxRetries + 1),
             LeftInAttempt(to) < LeftInAttempt(from)
      PROVE  /\ LeftInPage(from, tries) \in Nat /\ LeftInPage(to, tries) \in Nat
             /\ LeftInPage(to, tries) < LeftInPage(from, tries)
  <2> DEFINE left == (MaxRetries + 1 - tries) * R
  <2>1. /\ LeftInPage(from, tries) = left + LeftInAttempt(from) + 2
        /\ LeftInPage(to, tries) = left + LeftInAttempt(to) + 2
        /\ LeftInPage(from, tries) \in Nat /\ LeftInPage(to, tries) \in Nat
    BY <1>2, TriesLeft
  <2>2. left \in Nat
    <3>1. MaxRetries + 1 - tries \in Nat
      BY <1>1
    <3> QED
      BY <1>1, <3>1
  <2>3. LeftInAttempt(from) \in Nat /\ LeftInAttempt(to) \in Nat
    BY <1>1, AttemptLeft DEF Trying
  <2> HIDE DEF left
  <2> QED
    BY <1>5, <2>1, <2>2, <2>3
<1>6. CASE Call
  <2>1. pc = "call" /\ pc' = "attempt" /\ retries' = 1 /\ written' = written
    BY <1>6 DEF Call
  <2>2. 1 \in 1..(MaxRetries + 1)
    BY <1>1
  <2>3. LeftInPage("attempt", 1) \in 2..(StepsOfPage - 2)
    BY <1>3, <2>2, TriesLeft
  <2>4. LeftInPage("call", retries) = StepsOfPage - 1
    BY PageLeft
  <2> QED
    BY <1>2, <2>1, <2>3, <2>4
<1>7. CASE Attempt
  <2>1. pc = "attempt" /\ pc' = Stages[1] /\ retries' = retries /\ written' = written
    BY <1>7 DEF Attempt
  <2>2. LeftInAttempt(pc') < LeftInAttempt(pc)
    <3>1. Stages[1] \in StagePc /\ StageNumber(Stages[1]) = 1
      BY FirstStage, StageNumbers
    <3>2. LeftInAttempt(Stages[1]) = R - 1 - 1 /\ LeftInAttempt("attempt") = R - 1
      BY <3>1, AttemptLeft
    <3> QED
      BY <1>1, <2>1, <3>2
  <2> QED
    BY <1>3, <1>4, <1>5, <2>1, <2>2, FirstStage
<1>8. CASE StageOk
  <2>1. pc \in StagePc /\ pc # "receive" /\ pc' = Succ(pc) /\ retries' = retries /\ written' = written
    BY <1>8 DEF StageOk
  <2>2. pc' \in StagePc
    BY <2>1, SuccIsStage
  <2>3. LeftInAttempt(pc') < LeftInAttempt(pc)
    <3>1. StageNumber(pc') = StageNumber(pc) + 1 /\ StageNumber(pc) \in Nat
      BY <2>1, StageNumbers, StageFacts
    <3>2. /\ LeftInAttempt(pc') = R - 1 - StageNumber(pc')
          /\ LeftInAttempt(pc) = R - 1 - StageNumber(pc)
      BY <2>1, <2>2, AttemptLeft
    <3> QED
      BY <1>1, <3>1, <3>2
  <2> QED
    BY <1>3, <1>4, <1>5, <2>1, <2>2, <2>3
<1>9. CASE Receive
  <2>1. pc = "receive" /\ pc' = "parse" /\ retries' = retries /\ written' = written
    BY <1>9 DEF Receive
  <2>2. pc \in StagePc
    BY <2>1, StageFacts DEF StagePc
  <2>3. LeftInAttempt(pc') < LeftInAttempt(pc)
    BY <1>1, <2>1, <2>2, AttemptLeft
  <2> QED
    BY <1>3, <1>4, <1>5, <2>1, <2>2, <2>3
<1>10. CASE StageFails \/ ParseFails
  <2>1. pc \in StagePc \cup {"parse"} /\ pc' = "sleep" /\ retries' = retries /\ written' = written
    BY <1>10 DEF StageFails, ParseFails, Warn
  <2>2. LeftInAttempt(pc') < LeftInAttempt(pc)
    BY <1>1, <2>1, AttemptLeft
  <2> QED
    BY <1>3, <1>4, <1>5, <2>1, <2>2
<1>11. CASE ParseThrows \/ ParseOk
  <2>1. pc = "parse" /\ pc' \in {"page", "returned"} /\ retries' = retries /\ written' = written
    BY <1>11 DEF ParseThrows, ParseOk
  <2>2. LeftInPage(pc, retries) \in 2..(StepsOfPage - 2)
    BY <1>3, <1>4, <2>1, TriesLeft
  <2>3. LeftInPage(pc', retries') \in {0, 1}
    BY <2>1, PageLeft
  <2> QED
    BY <1>2, <2>1, <2>2, <2>3
<1>12. CASE Wake
  <2>1. pc = "sleep" /\ pc' = "attempt" /\ retries' = retries + 1 /\ written' = written
    BY <1>12 DEF Wake
  <2>2. retries \in 1..(MaxRetries + 1) /\ retries <= MaxRetries
    BY <1>3, <1>4, <2>1
  <2>3. retries + 1 \in 1..(MaxRetries + 1)
    BY <1>1, <2>2
  <2>4. /\ LeftInPage("attempt", retries + 1) < LeftInPage("sleep", retries)
        /\ LeftInPage("sleep", retries) \in 2..(StepsOfPage - 2)
    BY <1>3, <2>2, TriesLeft
  <2>5. LeftInPage("attempt", retries + 1) \in 2..(StepsOfPage - 2)
    BY <1>3, <2>3, TriesLeft
  <2> QED
    BY <1>2, <2>1, <2>4, <2>5
<1>13. CASE Exhausted
  <2>1. pc = "attempt" /\ pc' = "page" /\ retries' = retries /\ written' = written
    BY <1>13 DEF Exhausted
  <2>2. LeftInPage(pc, retries) \in 2..(StepsOfPage - 2)
    BY <1>3, <1>4, <2>1, TriesLeft
  <2>3. LeftInPage(pc', retries') = 1
    BY <2>1, PageLeft
  <2> QED
    BY <1>2, <2>1, <2>2, <2>3
<1>14. CASE SkipPrefix
  <2>1. pc = "page" /\ pc' = "returned" /\ written' = written
    BY <1>14 DEF SkipPrefix
  <2>2. LeftInPage(pc, retries) = 1 /\ LeftInPage(pc', retries') = 0
    BY <2>1, PageLeft
  <2> QED
    BY <2>1, <2>2
<1> QED
  BY <1>6, <1>7, <1>8, <1>9, <1>10, <1>11, <1>12, <1>13, <1>14 DEF Step

(* No more pages are written than there are.                               *)
LEMMA PagesBounded ==
  ASSUME NEW pages \in Seq(1..Last), pages = [i \in 1..Len(pages) |-> i]
  PROVE  Len(pages) \in 0..Last
<1>1. Len(pages) \in Nat /\ Last \in Nat
  BY ListingAssumption
<1>2. CASE Len(pages) > 0
  <2>1. Len(pages) \in 1..Len(pages)
    BY <1>1, <1>2
  <2>2. pages[Len(pages)] = Len(pages)
    BY <2>1
  <2>3. pages[Len(pages)] \in 1..Last
    BY <1>1, <2>1
  <2> QED
    BY <1>1, <2>2, <2>3
<1> QED
  BY <1>1, <1>2

(* A listing goes on only if it has written another page.                  *)
LEMMA TakePageNearer ==
  ASSUME Inv, TakePage
  PROVE  /\ pc = "page"
         /\ \/ pc' = "returned" /\ Len(written') >= Len(written)
            \/ pc' = "call" /\ Len(written') = Len(written) + 1
<1>1. pc = "page" /\ ~Repeated /\ N \in Nat /\ written \in Seq(1..Last)
  BY DEF TakePage, Inv, TypeOK, N
<1>2. CASE result = NoResult
  <2>1. pc' = "returned" /\ written' = written
    BY <1>2 DEF TakePage, NoResult
  <2> QED
    BY <1>1, <2>1 DEF N
<1>3. CASE result # NoResult
  <2>1. result.page = N + 1
    BY <1>1, <1>3 DEF Inv, ResultKnown
  <2>2. written' = Append(written, N + 1) /\ pc' \in {"call", "returned"}
    BY <1>1, <2>1 DEF TakePage
  <2>3. Len(written') = N + 1
    BY <1>1, <2>2 DEF N
  <2> QED
    BY <1>1, <2>2, <2>3 DEF N
<1> QED
  BY <1>2, <1>3

(* Steps are counted page by page.                                         *)
LEMMA FewerSteps ==
  ASSUME NEW P \in Nat, NEW top \in Nat, NEW n \in 0..top, NEW m \in n..top,
         NEW a \in Nat, NEW b \in Nat,
         (m = n /\ b < a) \/ (m > n /\ b < P + a)
  PROVE  (top - m) * P + b \in 0..((top - n) * P + a - 1)
<1> DEFINE x == top - m
           y == top - n
<1>1. x \in Nat /\ y \in Nat /\ x <= y /\ (m > n => x + 1 <= y)
  OBVIOUS
<1> HIDE DEF x, y
<1>2. x * P \in Nat /\ y * P \in Nat
  BY <1>1
<1>3. ASSUME x + 1 <= y PROVE x * P + P <= y * P
  <2>1. (x + 1) * P <= y * P
    BY <1>1, <1>3, SMTT(30)
  <2>2. (x + 1) * P = x * P + P
    BY <1>1, SMTT(30)
  <2> QED
    BY <2>1, <2>2
<1>4. CASE m = n /\ b < a
  <2>1. x = y
    BY <1>4 DEF x, y
  <2> QED
    BY <1>2, <1>4, <2>1 DEF x, y
<1>5. CASE m > n /\ b < P + a
  <2>1. x * P + P <= y * P
    BY <1>1, <1>3, <1>5
  <2>2. x * P + b \in 0..(y * P + a - 1)
    BY <1>2, <1>5, <2>1
  <2> QED
    BY <2>2 DEF x, y
<1> QED
  BY <1>4, <1>5

(* The end comes nearer with every step: a listing is at most as long as   *)
(* StepsLeft is to begin with.                                             *)
THEOREM EndComesNearer == Spec => AlwaysNearer
<1>1. Inv /\ Inv' /\ [Next]_vars => [StepsLeft' \in 0..(StepsLeft - 1)]_vars
  <2> SUFFICES ASSUME Inv, Inv', Step PROVE StepsLeft' \in 0..(StepsLeft - 1)
    BY DEF Next, Returned
  <2> DEFINE n == Len(written)
             m == Len(written')
             a == LeftInPage(pc, retries)
             b == LeftInPage(pc', retries')
  <2>1. Last \in Nat /\ StepsOfPage \in Nat /\ StepsOfPage > 2
    BY ListingAssumption, PageLeft
  <2>2. n \in 0..Last /\ m \in 0..Last
    <3>1. written \in Seq(1..Last) /\ written = [i \in 1..Len(written) |-> i]
      BY DEF Inv, TypeOK, PagesInOrder
    <3>2. written' \in Seq(1..Last) /\ written' = [i \in 1..Len(written') |-> i]
      BY DEF Inv, TypeOK, PagesInOrder
    <3> QED
      BY <3>1, <3>2, PagesBounded
  <2>3. m \in n..Last /\ a \in Nat /\ b \in Nat /\ ((m = n /\ b < a) \/ (m > n /\ b < StepsOfPage + a))
    <3>1. CASE TakePage
      <4>1. /\ pc = "page"
            /\ \/ pc' = "returned" /\ m >= n
               \/ pc' = "call" /\ m = n + 1
        BY <3>1, TakePageNearer
      <4>2. a = 1
        BY <4>1, PageLeft
      <4>3. pc' = "returned" => b = 0
        BY PageLeft
      <4>4. pc' = "call" => b = StepsOfPage - 1
        BY PageLeft
      <4> HIDE DEF n, m, a, b
      <4> QED
        BY <2>1, <2>2, <4>1, <4>2, <4>3, <4>4
    <3>2. CASE ~TakePage
      <4>1. a \in Nat /\ b \in Nat /\ b < a /\ m = n
        BY <3>2, PageNearer
      <4> HIDE DEF n, m, a, b
      <4> QED
        BY <2>2, <4>1
    <3> QED
      BY <3>1, <3>2
  <2> HIDE DEF n, m, a, b
  <2> DEFINE before == (Last - n) * StepsOfPage + a
             after == (Last - m) * StepsOfPage + b
  <2>4. after \in 0..(before - 1)
    BY <2>1, <2>2, <2>3, FewerSteps
  <2>5. StepsLeft = before /\ StepsLeft' = after
    BY DEF StepsLeft, n, m, a, b
  <2> HIDE DEF before, after
  <2> QED
    BY <2>4, <2>5
<1> QED
  BY <1>1, Invariant, PTL DEF Spec, AlwaysNearer
=============================================================================
