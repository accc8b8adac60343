---------------------------- MODULE RequestSigning ----------------------------
(***************************************************************************)
(* What a request is signed over (prepare_request, canonicalize_request,   *)
(* sign_request), against what a server that got the request computes from *)
(* it.  A call of the client is a query and a path                         *)
(* (list_objects_prepare_query, list_buckets, put); method_impl makes the  *)
(* target of them, prepare_request adds headers and the signature.         *)
(*                                                                         *)
(* Abstractions.  A text is known by what URL encoding does to it: "plain" *)
(* stays as it is, "special" (a slash, say, in a query) becomes "encoded", *)
(* and that becomes "twice"; "none" is nullopt.  A path is a sequence of   *)
(* characters of three kinds, an "unsafe" one becoming an "escape".        *)
(* std::map, an ordered text, is the function of its keys; header names    *)
(* are in lower case and values have no blanks around them.  A hash is     *)
(* what was hashed, and an HMAC the key with the text: neither collides.   *)
(***************************************************************************)
EXTENDS Naturals, Sequences

CONSTANTS
  MaxPath,   \* bound of the model: the length of a path
  Times      \* readings of the clock

ASSUME SigningAssumption == MaxPath \in Nat \ {0}

VARIABLES
  pc,       \* "called", "built", "prepared"
  call,     \* the parameters of the call
  target,   \* path and query of the request
  fields    \* headers: each name with the sequence of its values

vars == <<pc, call, target, fields>>

Text == {"none", "plain", "special"}
Char == {"slash", "safe", "unsafe"}
Paths == {p \in UNION {[1..n -> Char] : n \in 1..MaxPath} : p[1] = "slash"}

Encode(text) == IF text = "special" THEN "encoded"
                ELSE IF text = "encoded" THEN "twice" ELSE text

\* Headers a caller may pass along, and the values of each.
Given == [name \in {"host", "x-amz-meta", "x-amz-content-sha256", "content-md5"} |->
            {<<"given">>}
            \cup (IF name = "x-amz-meta" THEN {<<"given", "other">>} ELSE {})
            \cup (IF name = "x-amz-content-sha256" THEN {<<"">>} ELSE {})]
Headers ==
  UNION {{f \in [names -> UNION {Given[name] : name \in names}] :
            \A name \in names : f[name] \in Given[name]} : names \in SUBSET DOMAIN Given}

\* What may be called, and with what; raw stands for ~is_path_encoded.
Lists ==
  [op : {"v1"}, path : Paths, raw : {TRUE}, body : {""}, token : Text, prefix : Text,
   delimiter : {"none", "special"}, encoding : {"none", "url"}]
Lists2 ==
  [op : {"v2"}, path : Paths, raw : {TRUE}, body : {""}, token : Text, prefix : Text,
   delimiter : {"none", "special"}, encoding : {"none", "url"}, after : Text, owner : BOOLEAN]
Buckets ==
  [op : {"buckets"}, path : {<<"slash">>}, raw : {FALSE}, body : {""}, token : Text,
   prefix : Text, region : Text]
Puts ==
  [op : {"put"}, path : Paths, raw : {TRUE}, body : {"", "data"}]
-----------------------------------------------------------------------------
(* The client                                                              *)

\* add_param, for an optional parameter.
Param(key, text) == IF text = "none" THEN <<>> ELSE <<<<key, text>>>>

\* With encoding-type=url the prefix is the caller's to encode.
PrefixParam(c) == Param("prefix", IF c.encoding = "url" THEN c.prefix ELSE Encode(c.prefix))

ListQuery(c) ==
     (IF c.op = "v2" THEN Param("list-type", "plain") ELSE <<>>)
  \o Param("max-keys", "plain")
  \o (IF c.op = "v1" THEN Param("marker", Encode(c.token))
      ELSE Param("continuation-token", Encode(c.token))
           \o Param("fetch-owner", IF c.owner THEN "plain" ELSE "none")
           \o Param("start-after", c.after))
  \o Param("delimiter", Encode(c.delimiter))
  \o Param("encoding-type", IF c.encoding = "url" THEN "plain" ELSE "none")
  \o PrefixParam(c)

BucketsQuery(c) ==
  Param("bucket-region", Encode(c.region)) \o Param("continuation-token", Encode(c.token))
  \o Param("max-buckets", "plain") \o Param("prefix", Encode(c.prefix))

Query(c) == IF c.op = "put" THEN <<>>
            ELSE IF c.op = "buckets" THEN BucketsQuery(c) ELSE ListQuery(c)

(* Mutant: find_if looks for a character that the set for queries, which   *)
(* lacks the slash, has.                                                   *)
PathRequired_QueryCharset(path) == \E i \in DOMAIN path : path[i] = "safe"

\* urlencode_path_required: find_if finds a character of path_charset, that
\* is, one which needs no encoding.
PathRequired(path) == \E i \in DOMAIN path : path[i] \in {"slash", "safe"}

EncodePath(path) == [i \in DOMAIN path |-> IF path[i] = "unsafe" THEN "escape" ELSE path[i]]

Init ==
  /\ pc = "called"
  /\ call \in Lists \cup Lists2 \cup Buckets \cup Puts
  /\ fields \in Headers
  /\ target = [path |-> <<>>, query |-> <<>>]

(* method_impl, up to the request it constructs.                           *)
Build ==
  /\ pc = "called"
  /\ pc' = "built"
  /\ target' = [path  |-> IF call.raw /\ PathRequired(call.path)
                          THEN EncodePath(call.path) ELSE call.path,
                query |-> Query(call)]
  /\ UNCHANGED <<call, fields>>

\* fields::set replaces every value there is; operator[] yields the first.
SetField(f, name, value) ==
  [n \in DOMAIN f \cup {name} |-> IF n = name THEN <<value>> ELSE f[n]]
First(f, name) == IF name \in DOMAIN f THEN f[name][1] ELSE ""

Amz(name) == name \in {"x-amz-meta", "x-amz-content-sha256", "x-amz-date"}

Signed(f) == {"host"} \cup {name \in DOMAIN f : Amz(name) \/ name = "content-md5"}

\* The map of parameters keeps the first of each key.
Keys(query) == {query[i][1] : i \in DOMAIN query}
FirstOf(query, key) ==
  query[CHOOSE i \in DOMAIN query : /\ query[i][1] = key
                                    /\ \A j \in 1..(i - 1) : query[j][1] # key][2]

(* Mutant: an empty value of the header counts as one.                     *)
WithHash_Present(f, body) ==
  IF "x-amz-content-sha256" \in DOMAIN f THEN f ELSE SetField(f, "x-amz-content-sha256", body)

\* The last part of canonicalize_request adds the hash to the headers, if it
\* is not there: after those to be signed were chosen.
WithHash(f, body) ==
  IF First(f, "x-amz-content-sha256") = "" THEN SetField(f, "x-amz-content-sha256", body) ELSE f

Canonicalize(method, t, body, f) ==
  [method  |-> method,
   path    |-> t.path,
   query   |-> [key \in Keys(t.query) |-> <<FirstOf(t.query, key)>>],
   headers |-> [name \in Signed(f) |-> <<First(f, name)>>],
   hash    |-> First(WithHash(f, body), "x-amz-content-sha256")]

\* get_signing_key, string_to_sign and the text of sign_request.
Sign(secret, scope, timestamp, canonical) ==
  [scope |-> scope, signed_headers |-> DOMAIN canonical.headers,
   signature |-> [key |-> <<secret, scope>>, text |-> <<timestamp, scope, canonical>>]]

Method == IF call.op = "put" THEN "PUT" ELSE "GET"

(* Mutant: prepare_request leaves the hash to canonicalize_request.        *)
PrepareHash_Late(f, body) == f

PrepareHash(f, body) == WithHash(f, body)

(* prepare_request.  The clock is read once; scope has the day of it.      *)
Prepare ==
  /\ pc = "built"
  /\ pc' = "prepared"
  /\ \E now \in Times :
       LET hashed == PrepareHash(SetField(fields, "host", "endpoint"), call.body)
           dated  == SetField(SetField(SetField(hashed, "content-length", "plain"), "x-amz-date", now),
                         "accept-encoding", "identity")
           canonical == Canonicalize(Method, target, call.body, dated)
           sign   == Sign("secret", now[1], now, canonical)
       IN  fields' = SetField(WithHash(dated, call.body), "authorization", sign)
  /\ UNCHANGED <<call, target>>

Sent == pc = "prepared" /\ UNCHANGED vars

Next == Build \/ Prepare \/ Sent

Spec == Init /\ [][Next]_vars
-----------------------------------------------------------------------------
(* The server, which has only the request and the secret                   *)

Auth == First(fields, "authorization")

\* It decodes the target and encodes it again, and takes all values there are.
Normal(text) == IF text = "special" THEN "encoded" ELSE text
AllOf(query, key) ==
  LET upto[n \in 0..Len(query)] ==
        IF n = 0 THEN <<>>
        ELSE IF query[n][1] = key THEN Append(upto[n - 1], Normal(query[n][2]))
        ELSE upto[n - 1]
  IN  upto[Len(query)]

ServerCanonical ==
  [method  |-> Method,
   path    |-> EncodePath(target.path),
   query   |-> [key \in Keys(target.query) |-> AllOf(target.query, key)],
   headers |-> [name \in Auth.signed_headers |-> fields[name]],
   hash    |-> First(fields, "x-amz-content-sha256")]

Accepts ==
  LET timestamp == First(fields, "x-amz-date")
  IN  Auth.signature = Sign("secret", timestamp[1], timestamp, ServerCanonical).signature

\* What the client leaves to its caller: start-after, and a prefix with
\* encoding-type=url, must be encoded; a header of several values is not
\* supported ("TODO: multi-value").
CallerEncoded ==
  /\ call.op = "v2" => call.after # "special"
  /\ call.op \in {"v1", "v2"} => ~(call.encoding = "url" /\ call.prefix = "special")
SingleValued == \A name \in DOMAIN fields : Len(fields[name]) = 1

(* A server finds the signature right: the canonical request it makes of   *)
(* the bytes it got is the one that was signed, whatever was left out,     *)
(* encoded or replaced on the way, exactly when the caller encoded what is *)
(* left to it and gave no header twice.                                    *)
SignatureAccepted ==
  pc = "prepared" => (Accepts <=> CallerEncoded /\ SingleValued)

(* Nothing a server insists on is left unsigned: host, and every x-amz     *)
(* header of the request as it is sent.                                    *)
MandatorySigned ==
  pc = "prepared" =>
    {"host"} \cup {name \in DOMAIN fields : Amz(name)} \subseteq Auth.signed_headers

(* The signed hash is that of the body sent, unless the caller gave one.   *)
BodyCovered ==
  pc = "prepared" => Auth.signature.text[3].hash \in {call.body, "given"}
=============================================================================
