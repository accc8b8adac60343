----------------------------- MODULE SigningProofs -----------------------------
(***************************************************************************)
(* What TLAPS proves of RequestSigning, for paths of every length and any  *)
(* readings of the clock: the order in which prepare_request sets the      *)
(* headers leaves none unsigned that has to be signed, and the server      *)
(* comes to the same signature.                                            *)
(***************************************************************************)
EXTENDS RequestSigning, NaturalLemmas, TLAPS

-----------------------------------------------------------------------------
(* What is signed                                                          *)

Hash == "x-amz-content-sha256"

(* fields::set adds one name, or replaces its values.                     *)
LEMMA SetName ==
  ASSUME NEW f, NEW name, NEW value
  PROVE  DOMAIN SetField(f, name, value) = DOMAIN f \cup {name}
BY DEF SetField

(* The value set is the one that operator[] yields.                        *)
LEMMA SetFirst ==
  ASSUME NEW f, NEW name, NEW value
  PROVE  First(SetField(f, name, value), name) = value
BY DEF SetField, First

(* Other names keep their first value, those that are not there included.  *)
LEMMA SetOthers ==
  ASSUME NEW f, NEW name, NEW value, NEW other, other # name
  PROVE  First(SetField(f, name, value), other) = First(f, other)
BY DEF First, SetField

(* After WithHash the header is there, with its own value or the body's.   *)
LEMMA HashIsThere ==
  ASSUME NEW f, NEW body
  PROVE  /\ DOMAIN WithHash(f, body) = DOMAIN f \cup {Hash}
         /\ First(WithHash(f, body), Hash) =
              IF First(f, Hash) = "" THEN body ELSE First(f, Hash)
<1>1. CASE First(f, Hash) = ""
  BY <1>1, SetName, SetFirst DEF WithHash, Hash
<1>2. CASE First(f, Hash) # ""
  BY <1>2 DEF WithHash, Hash, First
<1> QED
  BY <1>1, <1>2

\* Until the request is prepared it has the headers its caller gave.
Unprepared == pc \in {"called", "built"} => fields \in Headers

Inv ==
  /\ pc \in {"called", "built", "prepared"}
  /\ Unprepared
  /\ MandatorySigned
  /\ BodyCovered

(* A caller gives a hash of its own, an empty one, or none.                *)
LEMMA GivenHash == fields \in Headers => First(fields, Hash) \in {"", "given"}
<1> SUFFICES ASSUME fields \in Headers, Hash \in DOMAIN fields
             PROVE  fields[Hash][1] \in {"", "given"}
  BY DEF First
<1>1. fields[Hash] \in Given[Hash]
  BY DEF Headers
<1>2. Given[Hash] = {<<"given">>, <<"">>}
  BY DEF Given, Hash
<1>3. \A value : <<value>>[1] = value
  OBVIOUS
<1> QED
  BY <1>1, <1>2, <1>3, Zenon

(* prepare_request has the hash among the headers before it chooses those  *)
(* to be signed; those it sets later are signed, or need not be.           *)
LEMMA PrepareSigns == fields \in Headers /\ Prepare => MandatorySigned' /\ BodyCovered'
<1> SUFFICES ASSUME fields \in Headers, Prepare PROVE MandatorySigned' /\ BodyCovered'
  OBVIOUS
<1> DEFINE hashed == PrepareHash(SetField(fields, "host", "endpoint"), call.body)
           long   == SetField(hashed, "content-length", "plain")
           dated(now) == SetField(SetField(long, "x-amz-date", now), "accept-encoding", "identity")
           canonical(now) == Canonicalize(Method, target, call.body, dated(now))
           sign(now) == Sign("secret", now[1], now, canonical(now))
<1>1. PICK now \in Times :
        fields' = SetField(WithHash(dated(now), call.body), "authorization", sign(now))
  BY DEF Prepare
<1>2. call' = call
  BY DEF Prepare
<1>3. Auth' = sign(now)
  BY <1>1 DEF Auth, First, SetField
<1>4. /\ Auth'.signed_headers = Signed(dated(now))
      /\ Auth'.signature.text[3] = canonical(now)
  <2>1. DOMAIN canonical(now).headers = Signed(dated(now))
    BY DEF Canonicalize
  <2> HIDE DEF canonical
  <2> QED
    BY <1>3, <2>1 DEF Sign
<1>5. Hash \in DOMAIN hashed /\ DOMAIN hashed \subseteq DOMAIN dated(now)
  <2>1. Hash \in DOMAIN hashed
    BY HashIsThere DEF PrepareHash
  <2> HIDE DEF hashed
  <2>2. DOMAIN hashed \subseteq DOMAIN long
    BY DEF SetField
  <2> HIDE DEF long
  <2>3. DOMAIN long \subseteq DOMAIN SetField(long, "x-amz-date", now)
    BY DEF SetField
  <2>4. DOMAIN SetField(long, "x-amz-date", now) \subseteq DOMAIN dated(now)
    BY DEF SetField
  <2> QED
    BY <2>1, <2>2, <2>3, <2>4
<1>6. MandatorySigned'
  <2>1. DOMAIN fields' = DOMAIN dated(now) \cup {"authorization"}
    <3> HIDE DEF dated, sign
    <3>1. DOMAIN fields' = DOMAIN WithHash(dated(now), call.body) \cup {"authorization"}
      BY <1>1, SetName
    <3>2. DOMAIN WithHash(dated(now), call.body) = DOMAIN dated(now) \cup {Hash}
      BY HashIsThere
    <3> QED
      BY <1>5, <3>1, <3>2
  <2>2. ~Amz("authorization")
    BY DEF Amz
  <2> QED
    BY <1>4, <2>1, <2>2 DEF MandatorySigned, Signed
<1>7. BodyCovered'
  <2>1. First(hashed, Hash) \in {call.body, "given"}
    <3>1. First(SetField(fields, "host", "endpoint"), Hash) = First(fields, Hash)
      BY SetOthers DEF Hash
    <3>2. First(hashed, Hash) = IF First(fields, Hash) = "" THEN call.body ELSE First(fields, Hash)
      BY <3>1, HashIsThere DEF PrepareHash
    <3> QED
      BY <3>2, GivenHash
  <2>2. First(dated(now), Hash) = First(hashed, Hash)
    BY SetOthers DEF Hash
  <2>3. canonical(now).hash \in {call.body, "given"}
    BY <2>1, <2>2, HashIsThere DEF Canonicalize, Hash
  <2> QED
    BY <1>2, <1>4, <2>3 DEF BodyCovered
<1> QED
  BY <1>6, <1>7

(* The invariant holds in every state.                                     *)
LEMMA Invariant == Spec => []Inv
<1>1. Init => Inv
  BY DEF Init, Inv, Unprepared, MandatorySigned, BodyCovered
<1>2. Inv /\ [Next]_vars => Inv'
  <2> SUFFICES ASSUME Inv, [Next]_vars PROVE Inv'
    OBVIOUS
  <2>1. CASE Build
    BY <2>1 DEF Build, Inv, Unprepared, MandatorySigned, BodyCovered
  <2>2. CASE Prepare
    <3>1. pc' = "prepared" /\ fields \in Headers
      BY <2>2 DEF Prepare, Inv, Unprepared
    <3> QED
      BY <2>2, <3>1, PrepareSigns DEF Inv, Unprepared
  <2>3. CASE UNCHANGED vars
    BY <2>3 DEF vars, Inv, Unprepared, MandatorySigned, BodyCovered, Auth
  <2> QED
    BY <2>1, <2>2, <2>3 DEF Next, Sent
<1> QED
  BY <1>1, <1>2, PTL DEF Spec

(* Host and every x-amz header that is sent are signed.                    *)
THEOREM NothingMandatoryMissing == Spec => []MandatorySigned
BY Invariant, PTL DEF Inv

(* The signature covers the hash of the body, or the one the caller gave.  *)
THEOREM BodyIsCovered == Spec => []BodyCovered
BY Invariant, PTL DEF Inv
-----------------------------------------------------------------------------
(* The query                                                               *)

Texts == {"none", "plain", "special", "encoded"}
ParamNames ==
  {"list-type", "max-keys", "marker", "continuation-token", "fetch-owner", "start-after",
   "delimiter", "encoding-type", "prefix", "bucket-region", "max-buckets"}
Params == ParamNames \X Texts

\* A query that names each of some keys at most once.
Distinct(query, keys) ==
  /\ query \in Seq(Params)
  /\ \A i \in DOMAIN query : query[i][1] \in keys
  /\ \A i, j \in DOMAIN query : query[i][1] = query[j][1] => i = j

\* No text in it is left unencoded.
AllEncoded(query) == \A i \in DOMAIN query : query[i][2] # "special"

\* A query for one key at most, encoded if the text is.
ForKey(query, key, text) ==
  Distinct(query, {key}) /\ (AllEncoded(query) <=> text # "special")

(* That is what a parameter is.                                            *)
LEMMA OneParam ==
  ASSUME NEW key \in ParamNames, NEW text \in Texts
  PROVE  ForKey(Param(key, text), key, text)
<1>1. CASE text = "none"
  <2>1. Param(key, text) = <<>> /\ <<>> \in Seq(Params) /\ DOMAIN <<>> = {}
    BY <1>1 DEF Param
  <2> QED
    BY <1>1, <2>1 DEF Distinct, AllEncoded, ForKey
<1>2. CASE text # "none"
  <2> DEFINE q == <<<<key, text>>>>
  <2>1. Param(key, text) = q
    BY <1>2 DEF Param
  <2>2. <<key, text>> \in Params
    BY DEF Params
  <2>3. q \in Seq(Params) /\ DOMAIN q = {1} /\ q[1] = <<key, text>>
    <3> DEFINE pair == <<key, text>>
    <3> HIDE DEF pair
    <3>1. <<pair>> \in Seq(Params) /\ DOMAIN <<pair>> = {1} /\ <<pair>>[1] = pair
      BY <2>2 DEF pair
    <3> QED
      BY <3>1 DEF pair
  <2> HIDE DEF q
  <2> QED
    BY <2>1, <2>3 DEF Distinct, AllEncoded, ForKey
<1> QED
  BY <1>1, <1>2

(* Two queries with keys of their own make one.                            *)
LEMMA Joined ==
  ASSUME NEW q, NEW r, NEW keys, NEW others, Distinct(q, keys), Distinct(r, others),
         keys \cap others = {}
  PROVE  /\ Distinct(q \o r, keys \cup others)
         /\ AllEncoded(q \o r) <=> AllEncoded(q) /\ AllEncoded(r)
<1> DEFINE s == q \o r
           N == Len(q)
           M == Len(r)
<1>1. /\ q \in Seq(Params) /\ r \in Seq(Params)
      /\ N \in Nat /\ M \in Nat /\ DOMAIN q = 1..N /\ DOMAIN r = 1..M
  BY DEF Distinct
<1>2. /\ s \in Seq(Params) /\ DOMAIN s = 1..(N + M)
      /\ \A i \in 1..N : s[i] = q[i]
      /\ \A i \in 1..M : s[N + i] = r[i]
  BY <1>1
<1> HIDE DEF s, N, M
<1>3. ASSUME NEW i \in 1..(N + M)
      PROVE  \/ i \in 1..N /\ s[i] = q[i]
             \/ \E k \in 1..M : i = N + k /\ s[i] = r[k]
  <2>1. i <= N => i \in 1..N
    BY <1>1
  <2>2. i > N => i - N \in 1..M /\ i = N + (i - N)
    BY <1>1
  <2>3. i > N => s[i] = r[i - N]
    BY <1>2, <2>2
  <2> QED
    BY <1>1, <1>2, <2>1, <2>2, <2>3
<1>7. /\ \A i \in 1..N : q[i][1] \in keys
      /\ \A i \in 1..M : r[i][1] \in others
      /\ \A i, j \in 1..N : q[i][1] = q[j][1] => i = j
      /\ \A i, j \in 1..M : r[i][1] = r[j][1] => i = j
  BY <1>1 DEF Distinct
<1>4. \A i \in 1..(N + M) : s[i][1] \in keys \cup others
  BY <1>1, <1>3 DEF Distinct
<1>5. ASSUME NEW i \in 1..(N + M), NEW j \in 1..(N + M), s[i][1] = s[j][1] PROVE i = j
  <2>1. CASE i \in 1..N /\ s[i] = q[i]
    <3>1. s[j][1] \notin others
      BY <1>5, <1>7, <2>1
    <3>2. j \in 1..N /\ s[j] = q[j]
      BY <1>3, <1>7, <3>1
    <3> QED
      BY <1>5, <1>7, <2>1, <3>2
  <2>2. CASE \E k \in 1..M : i = N + k /\ s[i] = r[k]
    <3>1. PICK k \in 1..M : i = N + k /\ s[i] = r[k]
      BY <2>2
    <3>2. s[j][1] \notin keys
      BY <1>5, <1>7, <3>1
    <3>3. PICK l \in 1..M : j = N + l /\ s[j] = r[l]
      BY <1>3, <1>7, <3>2
    <3>4. k = l
      BY <1>5, <1>7, <3>1, <3>3
    <3> QED
      BY <3>1, <3>3, <3>4
  <2> QED
    BY <1>3, <2>1, <2>2
<1>6. AllEncoded(s) <=> AllEncoded(q) /\ AllEncoded(r)
  <2>1. ASSUME AllEncoded(s) PROVE AllEncoded(q) /\ AllEncoded(r)
    <3>1. \A i \in 1..N : i \in 1..(N + M)
      BY <1>1
    <3>2. \A i \in 1..M : N + i \in 1..(N + M)
      BY <1>1
    <3> QED
      BY <1>1, <1>2, <2>1, <3>1, <3>2 DEF AllEncoded
  <2>2. ASSUME AllEncoded(q), AllEncoded(r) PROVE AllEncoded(s)
    <3>1. \A i \in 1..N : q[i][2] # "special"
      BY <1>1, <2>2 DEF AllEncoded
    <3>2. \A i \in 1..M : r[i][2] # "special"
      BY <1>1, <2>2 DEF AllEncoded
    <3>3. \A i \in 1..(N + M) : s[i][2] # "special"
      BY <1>3, <3>1, <3>2
    <3> QED
      BY <1>2, <3>3 DEF AllEncoded
  <2> QED
    BY <2>1, <2>2
<1> QED
  BY <1>2, <1>4, <1>5, <1>6 DEF Distinct, s

(* The query of a call names no key twice, and has all texts encoded       *)
(* exactly when the caller encoded those that are left to it.              *)
LEMMA QueryOfList ==
  ASSUME NEW c \in Lists \cup Lists2
  PROVE  /\ \E keys : Distinct(ListQuery(c), keys)
         /\ AllEncoded(ListQuery(c)) <=>
              /\ c.op = "v2" => c.after # "special"
              /\ ~(c.encoding = "url" /\ c.prefix = "special")
<1>1. /\ c.op \in {"v1", "v2"} /\ c.token \in Text /\ c.prefix \in Text /\ c.delimiter \in Text
      /\ c.encoding \in {"none", "url"}
      /\ c.op = "v2" => c.after \in Text /\ c.owner \in BOOLEAN
  BY DEF Lists, Lists2, Text
<1>2. /\ "plain" \in Texts /\ "none" \in Texts
      /\ \A text \in Text : text \in Texts /\ Encode(text) \in Texts /\ Encode(text) # "special"
  BY DEF Text, Texts, Encode
<1> DEFINE type   == IF c.op = "v2" THEN Param("list-type", "plain") ELSE <<>>
           max    == Param("max-keys", "plain")
           marker == Param("marker", Encode(c.token))
           token  == Param("continuation-token", Encode(c.token))
           owner  == Param("fetch-owner", IF c.owner THEN "plain" ELSE "none")
           after  == Param("start-after", c.after)
           middle == IF c.op = "v1" THEN marker ELSE token \o owner \o after
           delim  == Param("delimiter", Encode(c.delimiter))
           url    == Param("encoding-type", IF c.encoding = "url" THEN "plain" ELSE "none")
           prefix == PrefixParam(c)
<1>3. Distinct(type, {"list-type"}) /\ AllEncoded(type)
  <2>1. Distinct(<<>>, {"list-type"}) /\ AllEncoded(<<>>)
    BY DEF Distinct, AllEncoded
  <2>2. ForKey(Param("list-type", "plain"), "list-type", "plain")
    BY <1>2, OneParam DEF ParamNames
  <2> QED
    BY <2>1, <2>2 DEF ForKey
<1>4. ForKey(max, "max-keys", "plain")
  BY <1>2, OneParam DEF ParamNames
<1>5. /\ Distinct(middle, {"marker", "continuation-token", "fetch-owner", "start-after"})
      /\ AllEncoded(middle) <=> (c.op = "v2" => c.after # "special")
  <2>1. CASE c.op = "v1"
    <3>1. ForKey(marker, "marker", Encode(c.token))
      BY <1>1, <1>2, OneParam DEF ParamNames
    <3> HIDE DEF marker
    <3> QED
      BY <1>1, <1>2, <2>1, <3>1 DEF Distinct, ForKey
  <2>2. CASE c.op = "v2"
    <3>1. ForKey(token, "continuation-token", Encode(c.token))
      BY <1>1, <1>2, OneParam DEF ParamNames
    <3>2. ForKey(owner, "fetch-owner", IF c.owner THEN "plain" ELSE "none")
      BY <1>2, OneParam DEF ParamNames
    <3>3. ForKey(after, "start-after", c.after)
      BY <1>1, <1>2, <2>2, OneParam DEF ParamNames
    <3> HIDE DEF token, owner, after
    <3>4. Distinct(token \o owner, {"continuation-token"} \cup {"fetch-owner"}) /\ AllEncoded(token \o owner)
      BY <1>1, <1>2, <3>1, <3>2, Joined DEF ForKey
    <3>5. /\ Distinct((token \o owner) \o after, ({"continuation-token"} \cup {"fetch-owner"}) \cup {"start-after"})
          /\ AllEncoded((token \o owner) \o after) <=> c.after # "special"
      BY <3>3, <3>4, Joined DEF ForKey
    <3> QED
      BY <2>2, <3>5 DEF Distinct
  <2> QED
    BY <1>1, <2>1, <2>2
<1>6. ForKey(delim, "delimiter", Encode(c.delimiter))
  BY <1>1, <1>2, OneParam DEF ParamNames
<1>7. ForKey(url, "encoding-type", IF c.encoding = "url" THEN "plain" ELSE "none")
  BY <1>2, OneParam DEF ParamNames
<1>8. ForKey(prefix, "prefix", IF c.encoding = "url" THEN c.prefix ELSE Encode(c.prefix))
  BY <1>1, <1>2, OneParam DEF PrefixParam, ParamNames
<1>9. ListQuery(c) = ((((type \o max) \o middle) \o delim) \o url) \o prefix
  BY DEF ListQuery
<1> HIDE DEF type, max, middle, delim, url, prefix
<1> DEFINE k == {"list-type"} \cup {"max-keys"}
           l == k \cup {"marker", "continuation-token", "fetch-owner", "start-after"}
           m == l \cup {"delimiter"}
           n == m \cup {"encoding-type"}
<1>10. Distinct(type \o max, k) /\ AllEncoded(type \o max)
  BY <1>3, <1>4, Joined DEF ForKey
<1>11. /\ Distinct((type \o max) \o middle, l)
       /\ AllEncoded((type \o max) \o middle) <=> (c.op = "v2" => c.after # "special")
  BY <1>5, <1>10, Joined
<1>12. /\ Distinct(((type \o max) \o middle) \o delim, m)
       /\ AllEncoded(((type \o max) \o middle) \o delim) <=> (c.op = "v2" => c.after # "special")
  BY <1>1, <1>2, <1>6, <1>11, Joined DEF ForKey
<1>13. /\ Distinct((((type \o max) \o middle) \o delim) \o url, n)
       /\ AllEncoded((((type \o max) \o middle) \o delim) \o url) <=> (c.op = "v2" => c.after # "special")
  BY <1>7, <1>12, Joined DEF ForKey
<1>14. /\ Distinct(((((type \o max) \o middle) \o delim) \o url) \o prefix, n \cup {"prefix"})
       /\ AllEncoded(((((type \o max) \o middle) \o delim) \o url) \o prefix) <=>
            /\ c.op = "v2" => c.after # "special"
            /\ ~(c.encoding = "url" /\ c.prefix = "special")
  BY <1>1, <1>2, <1>8, <1>13, Joined DEF ForKey
<1> QED
  BY <1>9, <1>14

(* Which holds of every call.                                              *)
LEMMA QueryOfCall ==
  ASSUME NEW c \in Lists \cup Lists2 \cup Buckets \cup Puts
  PROVE  /\ \E keys : Distinct(Query(c), keys)
         /\ AllEncoded(Query(c)) <=>
              /\ c.op = "v2" => c.after # "special"
              /\ c.op \in {"v1", "v2"} => ~(c.encoding = "url" /\ c.prefix = "special")
<1>1. CASE c \in Lists \cup Lists2
  <2>1. c.op \in {"v1", "v2"}
    BY <1>1 DEF Lists, Lists2
  <2>2. Query(c) = ListQuery(c)
    BY <2>1 DEF Query
  <2> QED
    BY <1>1, <2>1, <2>2, QueryOfList
<1>2. CASE c \in Buckets
  <2>1. c.op = "buckets" /\ c.region \in Text /\ c.token \in Text /\ c.prefix \in Text
    BY <1>2 DEF Buckets
  <2>2. /\ "plain" \in Texts
        /\ \A text \in Text : Encode(text) \in Texts /\ Encode(text) # "special"
    BY DEF Text, Texts, Encode
  <2> DEFINE region == Param("bucket-region", Encode(c.region))
             token  == Param("continuation-token", Encode(c.token))
             max    == Param("max-buckets", "plain")
             prefix == Param("prefix", Encode(c.prefix))
  <2>3. Query(c) = ((region \o token) \o max) \o prefix
    BY <2>1 DEF Query, BucketsQuery
  <2>4. ForKey(region, "bucket-region", Encode(c.region))
    BY <2>1, <2>2, OneParam DEF ParamNames
  <2>5. ForKey(token, "continuation-token", Encode(c.token))
    BY <2>1, <2>2, OneParam DEF ParamNames
  <2>6. ForKey(max, "max-buckets", "plain")
    BY <2>2, OneParam DEF ParamNames
  <2>7. ForKey(prefix, "prefix", Encode(c.prefix))
    BY <2>1, <2>2, OneParam DEF ParamNames
  <2> HIDE DEF region, token, max, prefix
  <2> DEFINE k == {"bucket-region"} \cup {"continuation-token"}
             l == k \cup {"max-buckets"}
  <2>8. Distinct(region \o token, k) /\ AllEncoded(region \o token)
    BY <2>1, <2>2, <2>4, <2>5, Joined DEF ForKey
  <2>9. Distinct((region \o token) \o max, l) /\ AllEncoded((region \o token) \o max)
    BY <2>6, <2>8, Joined DEF ForKey
  <2>10. /\ Distinct(((region \o token) \o max) \o prefix, l \cup {"prefix"})
         /\ AllEncoded(((region \o token) \o max) \o prefix)
    BY <2>1, <2>2, <2>7, <2>9, Joined DEF ForKey
  <2> QED
    BY <2>1, <2>3, <2>10
<1>3. CASE c \in Puts
  <2>1. c.op = "put"
    BY <1>3 DEF Puts
  <2>2. Query(c) = <<>>
    BY <2>1 DEF Query
  <2>3. Distinct(<<>>, {}) /\ AllEncoded(<<>>)
    BY DEF Distinct, AllEncoded
  <2> QED
    BY <2>1, <2>2, <2>3
<1> QED
  BY <1>1, <1>2, <1>3

(* All values of a key that is named once are that of its parameter.       *)
LEMMA OneValue ==
  ASSUME NEW query, NEW keys, Distinct(query, keys), NEW i \in DOMAIN query
  PROVE  AllOf(query, query[i][1]) = <<Normal(query[i][2])>>
<1> DEFINE N == Len(query)
           key == query[i][1]
           value == Normal(query[i][2])
           T == Seq(Texts)
           none == <<>>
           step == [nt \in (1..N) \X T |->
                      IF query[nt[1]][1] = key THEN Append(nt[2], Normal(query[nt[1]][2])) ELSE nt[2]]
<1>1. /\ N \in Nat /\ DOMAIN query = 1..N
      /\ \A n \in 1..N : Normal(query[n][2]) \in Texts
      /\ \A n \in 1..N : query[n][1] = key => n = i
  BY DEF Distinct, Params, Normal, Texts
<1>2. /\ step \in [(1..N) \X T -> T]
      /\ \A n \in 1..N : \A t \in T :
           step[<<n, t>>] = IF query[n][1] = key THEN Append(t, Normal(query[n][2])) ELSE t
  BY <1>1
<1>3. none \in T
  OBVIOUS
<1> HIDE DEF step, N, T, none, key
<1>4. PICK f \in [0..N -> T] : Recurs(f, N, none, step)
  BY <1>1, <1>2, <1>3, Recursion
<1> DEFINE Next1(t, n) == IF query[n][1] = key THEN Append(t, Normal(query[n][2])) ELSE t
<1>5. f[0] = <<>> /\ \A n \in 1..N : f[n] = Next1(f[n - 1], n)
  <2>1. f[0] = <<>> /\ \A n \in 1..N : f[n] = step[<<n, f[n - 1]>>]
    BY <1>4 DEF Recurs, none
  <2>2. ASSUME NEW n \in 1..N PROVE f[n] = Next1(f[n - 1], n)
    <3>1. n - 1 \in 0..N
      BY <1>1
    <3>2. f[n - 1] \in T
      BY <1>4, <3>1
    <3> QED
      BY <1>2, <2>1, <3>2
  <2> QED
    BY <2>1, <2>2
<1> DEFINE Is(g) == g = [n \in 0..Len(query) |-> IF n = 0 THEN <<>>
                          ELSE IF query[n][1] = key THEN Append(g[n - 1], Normal(query[n][2]))
                          ELSE g[n - 1]]
           u == CHOOSE g : Is(g)
<1>6. AllOf(query, key) = u[N]
  BY DEF AllOf, N
<1>7. Is(f)
  <2>1. f = [n \in 0..N |-> IF n = 0 THEN <<>> ELSE Next1(f[n - 1], n)]
    <3> HIDE DEF Next1
    <3> QED
      BY <1>1, <1>4, <1>5
  <2> QED
    BY <2>1 DEF N
<1> HIDE DEF Is
<1>8. Is(u)
  BY <1>7
<1>9. u = [n \in 0..N |-> IF n = 0 THEN <<>> ELSE Next1(u[n - 1], n)]
  BY <1>8 DEF Is, N
<1> HIDE DEF u, Next1
<1>10. ASSUME NEW g, NEW h, g = [n \in 0..N |-> IF n = 0 THEN <<>> ELSE Next1(h[n - 1], n)]
       PROVE  g[0] = <<>> /\ \A n \in 1..N : g[n] = Next1(h[n - 1], n)
  BY <1>1, <1>10
<1>11. u[0] = <<>> /\ \A n \in 1..N : u[n] = Next1(u[n - 1], n)
  BY <1>9, <1>10
<1> DEFINE S == {n \in 0..N : u[n] = IF n < i THEN <<>> ELSE <<value>>}
<1>12. 0 \in S
  BY <1>1, <1>11
<1>13. ASSUME NEW n \in 1..N, n - 1 \in S PROVE n \in S
  <2>1. n \in 0..N /\ n \in Int /\ i \in Int
        /\ u[n] = Next1(u[n - 1], n) /\ u[n - 1] = IF n - 1 < i THEN <<>> ELSE <<value>>
    BY <1>1, <1>11, <1>13
  <2>2. CASE n = i
    <3>1. u[n - 1] = <<>>
      BY <2>1, <2>2
    <3>2. u[n] = Append(<<>>, value)
      BY <2>1, <2>2, <3>1, Zenon DEF Next1, key
    <3>3. Append(<<>>, value) = <<value>>
      OBVIOUS
    <3> QED
      BY <2>1, <2>2, <3>2, <3>3
  <2>3. CASE n # i
    <3>1. u[n] = u[n - 1]
      BY <1>1, <2>1, <2>3 DEF Next1
    <3> HIDE DEF value
    <3>2. n - 1 < i <=> n < i
      BY <2>1, <2>3
    <3> QED
      BY <2>1, <3>1, <3>2
  <2> QED
    BY <2>2, <2>3
<1>14. \A n \in S : u[n] = IF n < i THEN <<>> ELSE <<value>>
  OBVIOUS
<1>15. N \in S /\ ~(N < i)
  <2>1. N \in 0..N /\ ~(N < i)
    BY <1>1
  <2> HIDE DEF S
  <2>2. 0..N \subseteq S
    BY <1>1, <1>12, <1>13, BoundedInduction
  <2> QED
    BY <2>1, <2>2
<1> QED
  BY <1>6, <1>14, <1>15 DEF key

(* What the client signs of the query, the first value of each key, is     *)
(* what the server makes of it if no text is left unencoded, and only then.*)
LEMMA QueryAgrees ==
  ASSUME NEW query, NEW keys, Distinct(query, keys)
  PROVE  [key \in Keys(query) |-> <<FirstOf(query, key)>>]
           = [key \in Keys(query) |-> AllOf(query, key)]
         <=> AllEncoded(query)
<1>1. ASSUME NEW i \in DOMAIN query
      PROVE  /\ query[i][1] \in Keys(query)
             /\ FirstOf(query, query[i][1]) = query[i][2]
             /\ AllOf(query, query[i][1]) = <<Normal(query[i][2])>>
  <2>1. query[i][1] \in Keys(query)
    BY DEF Keys
  <2>2. \A j \in DOMAIN query : query[j][1] = query[i][1] => j = i
    BY DEF Distinct
  <2>3. DOMAIN query = 1..Len(query) /\ Len(query) \in Nat
    BY DEF Distinct
  <2>4. \A j \in 1..(i - 1) : query[j][1] # query[i][1]
    BY <2>2, <2>3
  <2> DEFINE IsFirst(j) == query[j][1] = query[i][1] /\ \A k \in 1..(j - 1) : query[k][1] # query[i][1]
             first == CHOOSE j \in DOMAIN query : IsFirst(j)
  <2>5. IsFirst(i)
    BY <2>4
  <2>6. FirstOf(query, query[i][1]) = query[first][2]
    BY DEF FirstOf
  <2>7. \A j \in DOMAIN query : IsFirst(j) => j = i
    BY <2>2
  <2> HIDE DEF IsFirst
  <2>8. first = i
    BY <2>5, <2>7
  <2> QED
    BY <2>1, <2>6, <2>8, OneValue
<1>2. \A key \in Keys(query) : \E i \in DOMAIN query : key = query[i][1]
  BY DEF Keys
<1>3. \A x, y : <<x>> = <<y>> <=> x = y
  OBVIOUS
<1>4. \A text : Normal(text) = text <=> text # "special"
  BY DEF Normal
<1>5. ASSUME AllEncoded(query), NEW key \in Keys(query)
      PROVE  <<FirstOf(query, key)>> = AllOf(query, key)
  BY <1>1, <1>2, <1>4, <1>5 DEF AllEncoded
<1>6. ASSUME \A key \in Keys(query) : <<FirstOf(query, key)>> = AllOf(query, key),
             NEW i \in DOMAIN query
      PROVE  query[i][2] # "special"
  <2>1. <<query[i][2]>> = <<Normal(query[i][2])>>
    BY <1>1, <1>6
  <2> QED
    BY <1>3, <1>4, <2>1
<1>7. [key \in Keys(query) |-> <<FirstOf(query, key)>>]
        = [key \in Keys(query) |-> AllOf(query, key)]
      <=> \A key \in Keys(query) : <<FirstOf(query, key)>> = AllOf(query, key)
  <2> DEFINE K == Keys(query)
             F(key) == <<FirstOf(query, key)>>
             A(key) == AllOf(query, key)
  <2> HIDE DEF K, F, A
  <2>1. [key \in K |-> F(key)] = [key \in K |-> A(key)] <=> \A key \in K : F(key) = A(key)
    BY Zenon
  <2> QED
    BY <2>1 DEF K, F, A
<1> QED
  BY <1>5, <1>6, <1>7 DEF AllEncoded
-----------------------------------------------------------------------------
(* The path                                                                *)

(* A path that is encoded stays as it is.                                  *)
LEMMA EncodedOnce ==
  ASSUME NEW path
  PROVE  EncodePath(EncodePath(path)) = EncodePath(path)
BY DEF EncodePath

(* Every target has such a path: a path that begins with a slash is        *)
(* encoded, and the slash alone need not be.                               *)
LEMMA TargetEncoded ==
  ASSUME call \in Lists \cup Lists2 \cup Buckets \cup Puts, Build
  PROVE  EncodePath(target'.path) = target'.path /\ target'.query = Query(call)
<1>1. /\ target'.path = IF call.raw /\ PathRequired(call.path)
                        THEN EncodePath(call.path) ELSE call.path
      /\ target'.query = Query(call)
  BY DEF Build
<1>2. CASE call \in Buckets
  <2>1. call.path = <<"slash">> /\ ~call.raw
    BY <1>2 DEF Buckets
  <2>2. EncodePath(<<"slash">>) = <<"slash">>
    BY DEF EncodePath
  <2> QED
    BY <1>1, <2>1, <2>2
<1>3. CASE call \in Lists \cup Lists2 \cup Puts
  <2>1. call.path \in Paths /\ call.raw
    BY <1>3 DEF Lists, Lists2, Puts
  <2>2. PathRequired(call.path)
    <3>1. PICK n \in 1..MaxPath : call.path \in [1..n -> Char]
      BY <2>1 DEF Paths
    <3>2. call.path[1] = "slash"
      BY <2>1 DEF Paths
    <3>3. 1 \in DOMAIN call.path
      BY <3>1, SigningAssumption
    <3> QED
      BY <3>2, <3>3 DEF PathRequired
  <2> QED
    BY <1>1, <2>1, <2>2, EncodedOnce
<1> QED
  BY <1>2, <1>3
-----------------------------------------------------------------------------
(* The headers                                                             *)

Meta == "x-amz-meta"

\* No header but the one that may has several values.
OthersSingle(f) == \A name \in DOMAIN f \ {Meta} : f[name] = <<f[name][1]>>

(* The values of the other headers of a caller are single.                 *)
LEMMA GivenSingle ==
  ASSUME NEW f \in Headers
  PROVE  /\ OthersSingle(f)
         /\ Meta \in DOMAIN f => f[Meta] \in {<<"given">>, <<"given", "other">>}
<1>1. \A name \in DOMAIN f : name \in DOMAIN Given /\ f[name] \in Given[name]
  BY DEF Headers
<1>2. /\ DOMAIN Given = {"host", Meta, "x-amz-content-sha256", "content-md5"}
      /\ Given[Meta] = {<<"given">>, <<"given", "other">>}
      /\ Given["host"] = {<<"given">>} /\ Given["content-md5"] = {<<"given">>}
      /\ Given["x-amz-content-sha256"] = {<<"given">>, <<"">>}
  BY DEF Given, Meta
<1>3. <<"given">>[1] = "given" /\ <<"">>[1] = ""
  OBVIOUS
<1>4. ASSUME NEW name \in DOMAIN f \ {Meta} PROVE f[name] = <<f[name][1]>>
  <2>1. f[name] \in {<<"given">>, <<"">>}
    BY <1>1, <1>2, Zenon
  <2>2. CASE f[name] = <<"given">>
    BY <1>3, <2>2, Zenon
  <2>3. CASE f[name] = <<"">>
    BY <1>3, <2>3, Zenon
  <2> QED
    BY <2>1, <2>2, <2>3
<1> QED
  BY <1>1, <1>2, <1>4 DEF OthersSingle

(* So they are when another one is set.                                    *)
LEMMA SetSingle ==
  ASSUME NEW f, NEW name, NEW value, name # Meta, OthersSingle(f)
  PROVE  /\ OthersSingle(SetField(f, name, value))
         /\ Meta \in DOMAIN SetField(f, name, value) <=> Meta \in DOMAIN f
         /\ Meta \in DOMAIN f => SetField(f, name, value)[Meta] = f[Meta]
<1>1. <<value>> = <<<<value>>[1]>>
  OBVIOUS
<1> QED
  BY <1>1 DEF OthersSingle, SetField

(* A sequence of one or two values is single if it has one.                *)
LEMMA SingleIsOne ==
  ASSUME NEW v, v = <<v[1]>> \/ v \in {<<"given">>, <<"given", "other">>}
  PROVE  Len(v) = 1 <=> v = <<v[1]>>
OBVIOUS

\* The headers as prepare_request has them when it signs, at that time.
Hashed == PrepareHash(SetField(fields, "host", "endpoint"), call.body)
Dated(now) ==
  SetField(SetField(SetField(Hashed, "content-length", "plain"), "x-amz-date", now),
           "accept-encoding", "identity")

(* What is sent has the headers that were signed, and single ones with     *)
(* their one value: those that prepare_request sets later are not signed,  *)
(* and the hash that canonicalize_request would set again is the same.     *)
LEMMA SentAsSigned ==
  ASSUME fields \in Headers, NEW now, NEW sign,
         NEW sent, sent = SetField(WithHash(Dated(now), call.body), "authorization", sign)
  PROVE  /\ OthersSingle(sent)
         /\ Meta \in DOMAIN sent => sent[Meta] \in {<<"given">>, <<"given", "other">>}
         /\ Meta \in DOMAIN sent => Meta \in Signed(Dated(now))
         /\ Signed(Dated(now)) \subseteq DOMAIN sent
         /\ \A name \in Signed(Dated(now)) : First(Dated(now), name) = sent[name][1]
         /\ First(WithHash(Dated(now), call.body), Hash) = First(sent, Hash)
         /\ First(sent, "x-amz-date") = now
<1> DEFINE hosted == SetField(fields, "host", "endpoint")
           long   == SetField(Hashed, "content-length", "plain")
           timed  == SetField(long, "x-amz-date", now)
           dated  == Dated(now)
           again  == WithHash(dated, call.body)
\* The sets of names.
<1>1. DOMAIN dated = DOMAIN fields \cup {"host", Hash, "content-length", "x-amz-date", "accept-encoding"}
  <2>1. DOMAIN hosted = DOMAIN fields \cup {"host"}
    BY SetName
  <2>2. DOMAIN Hashed = DOMAIN hosted \cup {Hash}
    BY HashIsThere DEF Hashed, PrepareHash
  <2>3. DOMAIN long = DOMAIN Hashed \cup {"content-length"}
    BY SetName
  <2>4. DOMAIN timed = DOMAIN long \cup {"x-amz-date"}
    BY SetName
  <2>5. DOMAIN dated = DOMAIN timed \cup {"accept-encoding"}
    BY SetName DEF Dated
  <2> QED
    BY <2>1, <2>2, <2>3, <2>4, <2>5
<1>2. DOMAIN sent = DOMAIN dated \cup {"authorization"}
  <2>1. DOMAIN sent = DOMAIN again \cup {"authorization"}
    BY SetName
  <2>2. DOMAIN again = DOMAIN dated \cup {Hash}
    BY HashIsThere
  <2> QED
    BY <1>1, <2>1, <2>2
\* Single and several values.
<1>3. ASSUME NEW f, OthersSingle(f)
      PROVE  /\ OthersSingle(WithHash(f, call.body))
             /\ Meta \in DOMAIN WithHash(f, call.body) <=> Meta \in DOMAIN f
             /\ Meta \in DOMAIN f => WithHash(f, call.body)[Meta] = f[Meta]
  <2>1. Hash # Meta
    BY DEF Hash, Meta
  <2> QED
    BY <1>3, <2>1, SetSingle DEF WithHash, Hash
<1>4. OthersSingle(fields) /\ (Meta \in DOMAIN fields => fields[Meta] \in {<<"given">>, <<"given", "other">>})
  BY GivenSingle
<1>5. /\ "host" # Meta /\ "content-length" # Meta /\ "x-amz-date" # Meta
      /\ "accept-encoding" # Meta /\ "authorization" # Meta
  BY DEF Meta
<1>6. /\ OthersSingle(hosted)
      /\ Meta \in DOMAIN hosted <=> Meta \in DOMAIN fields
      /\ Meta \in DOMAIN fields => hosted[Meta] = fields[Meta]
  BY <1>4, <1>5, SetSingle
<1>7. /\ OthersSingle(Hashed)
      /\ Meta \in DOMAIN Hashed <=> Meta \in DOMAIN fields
      /\ Meta \in DOMAIN fields => Hashed[Meta] = fields[Meta]
  <2> HIDE DEF hosted
  <2> QED
    BY <1>3, <1>6 DEF Hashed, PrepareHash, hosted
<1>8. /\ OthersSingle(dated)
      /\ Meta \in DOMAIN dated <=> Meta \in DOMAIN fields
      /\ Meta \in DOMAIN fields => dated[Meta] = fields[Meta]
  <2>1. /\ OthersSingle(long)
        /\ Meta \in DOMAIN long <=> Meta \in DOMAIN fields
        /\ Meta \in DOMAIN fields => long[Meta] = fields[Meta]
    BY <1>5, <1>7, SetSingle
  <2> HIDE DEF long
  <2>2. /\ OthersSingle(timed)
        /\ Meta \in DOMAIN timed <=> Meta \in DOMAIN fields
        /\ Meta \in DOMAIN fields => timed[Meta] = fields[Meta]
    BY <1>5, <2>1, SetSingle
  <2>3. dated = SetField(timed, "accept-encoding", "identity")
    BY DEF Dated, long
  <2> HIDE DEF timed, dated
  <2> QED
    BY <1>5, <2>2, <2>3, SetSingle
<1>9. /\ OthersSingle(sent)
      /\ Meta \in DOMAIN sent <=> Meta \in DOMAIN fields
      /\ Meta \in DOMAIN fields => sent[Meta] = fields[Meta]
  <2>1. /\ OthersSingle(again)
        /\ Meta \in DOMAIN again <=> Meta \in DOMAIN fields
        /\ Meta \in DOMAIN fields => again[Meta] = fields[Meta]
    <3> HIDE DEF dated
    <3> QED
      BY <1>3, <1>8
  <2> HIDE DEF again
  <2> QED
    BY <1>5, <2>1, SetSingle DEF again
<1>10. Meta \in DOMAIN dated => Meta \in Signed(dated)
  BY DEF Signed, Amz, Meta
<1>11. Signed(dated) \subseteq DOMAIN dated /\ "authorization" \notin Signed(dated)
  <2>1. "host" \in DOMAIN dated
    BY <1>1
  <2> HIDE DEF dated
  <2> QED
    BY <2>1 DEF Signed, Amz
\* Their first values.
<1>12. First(again, Hash) = First(dated, Hash)
  <2>1. First(dated, Hash) = First(Hashed, Hash)
    BY SetOthers DEF Dated, Hash
  <2>2. First(Hashed, Hash) = IF First(hosted, Hash) = "" THEN call.body ELSE First(hosted, Hash)
    BY HashIsThere DEF Hashed, PrepareHash
  <2>3. First(again, Hash) = IF First(dated, Hash) = "" THEN call.body ELSE First(dated, Hash)
    BY HashIsThere
  <2> QED
    BY <2>1, <2>2, <2>3
<1>13. ASSUME NEW name, name # Hash PROVE First(again, name) = First(dated, name)
  <2>1. again \in {dated, SetField(dated, Hash, call.body)}
    BY DEF WithHash, Hash
  <2>2. First(SetField(dated, Hash, call.body), name) = First(dated, name)
    BY <1>13, SetOthers
  <2> HIDE DEF dated, again
  <2> QED
    BY <2>1, <2>2
<1>14. ASSUME NEW name \in Signed(dated) PROVE First(dated, name) = sent[name][1]
  <2>1. name # "authorization" /\ name \in DOMAIN sent
    BY <1>2, <1>11
  <2>2. First(sent, name) = First(again, name)
    BY <2>1, SetOthers
  <2>3. First(sent, name) = sent[name][1]
    BY <2>1 DEF First
  <2> QED
    BY <1>12, <1>13, <2>2, <2>3
<1>15. First(sent, Hash) = First(again, Hash)
  BY SetOthers DEF Hash
<1>16. First(sent, "x-amz-date") = now
  <2>1. First(sent, "x-amz-date") = First(again, "x-amz-date")
    BY SetOthers
  <2>2. First(again, "x-amz-date") = First(dated, "x-amz-date")
    BY <1>13 DEF Hash
  <2>3. First(dated, "x-amz-date") = First(timed, "x-amz-date")
    BY SetOthers DEF Dated
  <2>4. First(timed, "x-amz-date") = now
    BY SetFirst
  <2> QED
    BY <2>1, <2>2, <2>3, <2>4
<1> HIDE DEF dated, again
<1>17. Meta \in DOMAIN sent => sent[Meta] \in {<<"given">>, <<"given", "other">>}
  BY <1>4, <1>9
<1>18. Meta \in DOMAIN sent => Meta \in Signed(dated)
  BY <1>8, <1>9, <1>10
<1>19. Signed(dated) \subseteq DOMAIN sent
  BY <1>2, <1>11
<1> QED
  BY <1>9, <1>14, <1>15, <1>16, <1>17, <1>18, <1>19 DEF dated, again
-----------------------------------------------------------------------------
(* The signature                                                           *)

\* A call as it goes from one step to the next.
CallInv ==
  /\ pc \in {"called", "built", "prepared"}
  /\ call \in Lists \cup Lists2 \cup Buckets \cup Puts
  /\ pc # "prepared" => fields \in Headers
  /\ pc # "called" => EncodePath(target.path) = target.path /\ target.query = Query(call)
  /\ SignatureAccepted

(* Both canonical requests are the same in their queries if the caller has *)
(* encoded what it has to, in their headers if none has several values,    *)
(* and in everything else.                                                 *)
LEMMA PrepareAccepted ==
  ASSUME CallInv, Prepare
  PROVE  Accepts' <=> (CallerEncoded /\ SingleValued)'
<1> DEFINE dated(now) == Dated(now)
           canonical(now) == Canonicalize(Method, target, call.body, Dated(now))
           sign(now) == Sign("secret", now[1], now, canonical(now))
<1>1. PICK now \in Times :
        fields' = SetField(WithHash(Dated(now), call.body), "authorization", sign(now))
  BY DEF Prepare, Dated, Hashed
<1>2. /\ call' = call /\ target' = target /\ fields \in Headers
      /\ EncodePath(target.path) = target.path /\ target.query = Query(call)
  BY DEF Prepare, CallInv
<1> DEFINE names  == Signed(Dated(now))
           signed == [name \in names |-> <<First(Dated(now), name)>>]
           seen   == [name \in names |-> fields'[name]]
           keys   == Keys(target.query)
           asked  == [key \in keys |-> <<FirstOf(target.query, key)>>]
           read   == [key \in keys |-> AllOf(target.query, key)]
           hash   == First(WithHash(Dated(now), call.body), Hash)
<1>3. Auth' = sign(now)
  BY <1>1, SetFirst DEF Auth
<1>4. /\ OthersSingle(fields')
      /\ Meta \in DOMAIN fields' => fields'[Meta] \in {<<"given">>, <<"given", "other">>}
      /\ Meta \in DOMAIN fields' => Meta \in names
      /\ names \subseteq DOMAIN fields'
      /\ \A name \in names : First(Dated(now), name) = fields'[name][1]
      /\ hash = First(fields', Hash)
      /\ First(fields', "x-amz-date") = now
  BY <1>1, <1>2, SentAsSigned
<1>5. canonical(now) = [method |-> Method, path |-> target.path, query |-> asked,
                        headers |-> signed, hash |-> hash]
  BY DEF Canonicalize, Hash
<1>6. Auth'.signed_headers = names
  <2>1. DOMAIN canonical(now).headers = names
    BY <1>5
  <2> HIDE DEF canonical
  <2> QED
    BY <1>3, <2>1 DEF Sign
<1>7. ServerCanonical' = [method |-> Method, path |-> target.path, query |-> read,
                          headers |-> seen, hash |-> hash]
  <2>1. ServerCanonical' =
          [method |-> Method', path |-> EncodePath(target'.path),
           query |-> [key \in Keys(target'.query) |-> AllOf(target'.query, key)],
           headers |-> [name \in Auth'.signed_headers |-> fields'[name]],
           hash |-> First(fields', "x-amz-content-sha256")]
    BY DEF ServerCanonical
  <2>2. Method' = Method
    BY <1>2 DEF Method
  <2> HIDE DEF names, hash
  <2> QED
    BY <1>2, <1>4, <1>6, <2>1, <2>2 DEF Hash
<1>8. Accepts' <=> canonical(now) = ServerCanonical'
  <2>1. Accepts' <=> Auth'.signature = Sign("secret", now[1], now, ServerCanonical').signature
    BY <1>4 DEF Accepts
  <2> HIDE DEF canonical
  <2>2. ASSUME NEW c, NEW d
        PROVE  Sign("secret", now[1], now, c).signature = Sign("secret", now[1], now, d).signature
                 <=> c = d
    BY DEF Sign
  <2> QED
    BY <1>3, <2>1, <2>2
<1>9. canonical(now) = ServerCanonical' <=> asked = read /\ signed = seen
  <2> HIDE DEF canonical, asked, read, signed, seen, hash
  <2> QED
    BY <1>5, <1>7
<1>10. asked = read <=> CallerEncoded'
  <2>1. PICK some : Distinct(target.query, some)
    BY <1>2, QueryOfCall DEF CallInv
  <2>2. asked = read <=> AllEncoded(target.query)
    BY <2>1, QueryAgrees
  <2>3. AllEncoded(target.query) <=> CallerEncoded
    BY <1>2, QueryOfCall DEF CallInv, CallerEncoded
  <2>4. CallerEncoded' <=> CallerEncoded
    BY <1>2 DEF CallerEncoded
  <2> HIDE DEF asked, read
  <2> QED
    BY <2>2, <2>3, <2>4
<1>11. signed = seen <=> SingleValued'
  <2>1. signed = seen <=> \A name \in names : <<fields'[name][1]>> = fields'[name]
    BY <1>4
  <2>2. \A name \in DOMAIN fields' : Len(fields'[name]) = 1 <=> fields'[name] = <<fields'[name][1]>>
    <3> SUFFICES ASSUME NEW name \in DOMAIN fields'
                 PROVE  Len(fields'[name]) = 1 <=> fields'[name] = <<fields'[name][1]>>
      OBVIOUS
    <3> DEFINE v == fields'[name]
    <3>1. v = <<v[1]>> \/ v \in {<<"given">>, <<"given", "other">>}
      BY <1>4 DEF OthersSingle
    <3> HIDE DEF v
    <3>2. Len(v) = 1 <=> v = <<v[1]>>
      BY <3>1, SingleIsOne
    <3> QED
      BY <3>2 DEF v
  <2>3. SingleValued' <=> \A name \in DOMAIN fields' : Len(fields'[name]) = 1
    BY DEF SingleValued
  <2> HIDE DEF names, signed, seen
  <2>4. (\A name \in DOMAIN fields' : fields'[name] = <<fields'[name][1]>>)
          <=> \A name \in names : fields'[name] = <<fields'[name][1]>>
    BY <1>4 DEF OthersSingle
  <2> QED
    BY <2>1, <2>2, <2>3, <2>4
<1> HIDE DEF asked, read, signed, seen
<1>12. (CallerEncoded /\ SingleValued)' <=> CallerEncoded' /\ SingleValued'
  OBVIOUS
<1> QED
  BY <1>8, <1>9, <1>10, <1>11, <1>12

(* The server accepts what the client signed, exactly if the caller encoded *)
(* what is left to it and gave no header several values.                   *)
THEOREM ServerAccepts == Spec => []SignatureAccepted
<1>1. Init => CallInv
  BY DEF Init, CallInv, SignatureAccepted
<1>2. CallInv /\ [Next]_vars => CallInv'
  <2> SUFFICES ASSUME CallInv, [Next]_vars PROVE CallInv'
    OBVIOUS
  <2>1. CASE Build
    <3>1. EncodePath(target'.path) = target'.path /\ target'.query = Query(call)
      BY <2>1, TargetEncoded DEF CallInv
    <3> QED
      BY <2>1, <3>1 DEF Build, CallInv, SignatureAccepted
  <2>2. CASE Prepare
    <3>1. Accepts' <=> (CallerEncoded /\ SingleValued)'
      BY <2>2, PrepareAccepted
    <3>2. SignatureAccepted'
      BY <3>1 DEF SignatureAccepted
    <3> QED
      BY <2>2, <3>2 DEF Prepare, CallInv
  <2>3. CASE UNCHANGED vars
    BY <2>3 DEF vars, CallInv, SignatureAccepted, Accepts, ServerCanonical, Auth, Method,
                CallerEncoded, SingleValued
  <2> QED
    BY <2>1, <2>2, <2>3 DEF Next, Sent
<1> QED
  BY <1>1, <1>2, PTL DEF Spec, CallInv
=============================================================================
