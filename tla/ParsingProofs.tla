----------------------------- MODULE ParsingProofs -----------------------------
(***************************************************************************)
(* What TLAPS proves of ResponseParsing, for answers of every length: a    *)
(* listing has a token exactly if it is truncated, its objects become as   *)
(* many lines, and a list of buckets is returned as it is exactly if each  *)
(* Buckets element has one Bucket.                                         *)
(***************************************************************************)
EXTENDS ResponseParsing, NaturalLemmas, TLAPS

-----------------------------------------------------------------------------
(* Listings                                                                *)

(* A sequence of bounded length is a sequence.                             *)
LEMMA UptoIsSeq ==
  ASSUME NEW S, NEW s \in Upto(S)
  PROVE  s \in Seq(S) /\ Len(s) \in Nat /\ DOMAIN s = 1..Len(s)
<1>1. PICK n \in 0..MaxRepeat : s \in [1..n -> S]
  BY DEF Upto
<1>2. n \in Nat
  BY ParsingAssumption
<1>3. s \in Seq(S)
  BY <1>1, <1>2
<1> QED
  BY <1>3

(* A result that is a value is that of the parser for the answer.          *)
LEMMA ParsedListing ==
  ASSUME answer \in Unreadable \cup Listings \cup BucketLists,
         answer.op = "objects", Parsed(answer).kind = "value"
  PROVE  /\ answer \in Listings /\ ~ListingThrows(answer)
         /\ Parsed(answer) = ParseListObjects(answer)
<1>1. answer \notin BucketLists
  BY DEF BucketLists
<1>2. CASE answer \in Unreadable
  <2>1. answer.root \in {"malformed", "other"}
    BY <1>2 DEF Unreadable
  <2>2. Parsed(answer) \in {Error("parse"), Error("file_not_found")}
    BY <2>1 DEF Parsed
  <2> QED
    BY <2>2 DEF Error
<1>3. CASE answer \in Listings
  <2>1. answer.root = "ListBucketResult"
    BY <1>3 DEF Listings
  <2>2. Parsed(answer) = ParseListObjects(answer)
    BY <2>1 DEF Parsed
  <2>3. ListingThrows(answer) => Parsed(answer).kind = "thrown"
    BY <2>2 DEF ParseListObjects, Thrown
  <2> QED
    BY <1>3, <2>2, <2>3
<1> QED
  BY <1>1, <1>2, <1>3

LEMMA ParsedBuckets ==
  ASSUME answer \in Unreadable \cup Listings \cup BucketLists,
         answer.op = "buckets", Parsed(answer).kind = "value"
  PROVE  answer \in BucketLists /\ Parsed(answer) = ParseListBuckets(answer)
<1>1. answer \notin Listings
  BY DEF Listings
<1>2. CASE answer \in Unreadable
  <2>1. answer.root \in {"malformed", "other"}
    BY <1>2 DEF Unreadable
  <2>2. Parsed(answer) \in {Error("parse"), Error("file_not_found")}
    BY <2>1 DEF Parsed
  <2> QED
    BY <2>2 DEF Error
<1>3. CASE answer \in BucketLists
  <2>1. answer.root = "ListAllMyBucketsResult"
    BY <1>3 DEF BucketLists
  <2>2. Parsed(answer) = ParseListBuckets(answer)
    BY <2>1 DEF Parsed
  <2> QED
    BY <1>3, <2>2
<1> QED
  BY <1>1, <1>2, <1>3

(* The parts of a listing that is returned.                                *)
LEMMA ListingValue ==
  ASSUME NEW xml \in Listings, ~ListingThrows(xml)
  PROVE  LET value == ParseListObjects(xml).value
         IN  /\ value.Contents = [i \in DOMAIN xml.Contents |-> Object(xml.Contents[i])]
             /\ value.IsTruncated <=> value.Next # ""
<1> DEFINE contents == [i \in DOMAIN xml.Contents |-> Object(xml.Contents[i])]
           next == IF xml.IsTruncated = "true" THEN xml.Next ELSE ""
           value == [CommonPrefixes |-> xml.CommonPrefixes, Contents |-> contents,
                     IsTruncated |-> xml.IsTruncated = "true", Next |-> next]
<1>1. ParseListObjects(xml) = Result(value)
  BY DEF ParseListObjects
<1>2. ParseListObjects(xml).value = value
  <2> HIDE DEF value
  <2> QED
    BY <1>1 DEF Result
<1>3. xml.IsTruncated = "true" <=> next # ""
  BY DEF ListingThrows
<1>4. value.Contents = contents /\ value.Next = next /\ (value.IsTruncated <=> xml.IsTruncated = "true")
  <2> HIDE DEF contents, next
  <2> QED
    OBVIOUS
<1> HIDE DEF value
<1> QED
  BY <1>2, <1>3, <1>4
-----------------------------------------------------------------------------
(* Lines                                                                   *)

(* The members of an object that was read, and what each is set to.        *)
LEMMA ObjectMembers ==
  ASSUME NEW xml \in Elements, ~BadObject(xml)
  PROVE  /\ {"ETag", "Key", "Size"} \subseteq DOMAIN Object(xml)
         /\ DOMAIN Object(xml) \subseteq {"ETag", "Key", "Size", "ChecksumAlgorithm_", "ChecksumType_"}
         /\ "ChecksumAlgorithm_" \in DOMAIN Object(xml) <=> xml.ChecksumAlgorithm # ""
         /\ "ChecksumType_" \in DOMAIN Object(xml) <=> xml.ChecksumType # ""
         /\ Object(xml)["ETag"] = xml.ETag /\ Object(xml)["Key"] = xml.Key
         /\ Object(xml)["Size"] \in Digits(xml.Size)
         /\ xml.ChecksumAlgorithm # "" => Object(xml)["ChecksumAlgorithm_"] = xml.ChecksumAlgorithm
         /\ xml.ChecksumType # "" => Object(xml)["ChecksumType_"] = xml.ChecksumType
<1> DEFINE names == {"ETag", "Key", "Size"} \cup Given(xml, {"ChecksumAlgorithm_", "ChecksumType_"})
<1>1. Object(xml) = [member \in names |-> Value(xml, member)]
  BY DEF Object
<1>2. /\ {"ETag", "Key", "Size"} \subseteq names
      /\ names \subseteq {"ETag", "Key", "Size", "ChecksumAlgorithm_", "ChecksumType_"}
      /\ "ChecksumAlgorithm_" \in names <=> xml.ChecksumAlgorithm # ""
      /\ "ChecksumType_" \in names <=> xml.ChecksumType # ""
  BY DEF Given, Value
<1>3. /\ Value(xml, "ETag") = xml.ETag /\ Value(xml, "Key") = xml.Key
      /\ Value(xml, "ChecksumAlgorithm_") = xml.ChecksumAlgorithm
      /\ Value(xml, "ChecksumType_") = xml.ChecksumType
  BY DEF Value
<1>4. Value(xml, "Size") \in Digits(xml.Size)
  <2>1. Digits(xml.Size) # {}
    BY DEF BadObject
  <2>2. Value(xml, "Size") = CHOOSE d \in Digits(xml.Size) : TRUE
    BY DEF Value
  <2> QED
    BY <2>1, <2>2
<1> HIDE DEF names
<1>5. DOMAIN Object(xml) = names /\ \A member \in names : Object(xml)[member] = Value(xml, member)
  BY <1>1
<1> QED
  BY <1>2, <1>3, <1>4, <1>5

(* In JSON an object stands for the element it was made from.              *)
LEMMA JsonStands ==
  ASSUME NEW xml \in Elements, ~BadObject(xml)
  PROVE  Stands("JSON", Json(Object(xml)), xml)
<1> DEFINE object == Object(xml)
           line == Json(object)
           members == {"ETag", "Key", "Size", "ChecksumAlgorithm_", "ChecksumType_"}
<1>1. DOMAIN xml = {"ChecksumAlgorithm", "ChecksumType", "ETag", "Key", "Size"}
  BY DEF Elements
<1>2. /\ JsonName("ETag") = "ETag" /\ JsonName("Key") = "Key" /\ JsonName("Size") = "Size"
      /\ JsonName("ChecksumAlgorithm_") = "ChecksumAlgorithm"
      /\ JsonName("ChecksumType_") = "ChecksumType"
  BY DEF JsonName
<1>3. DOMAIN object \subseteq members
  BY ObjectMembers
<1> HIDE DEF object
<1>4. ASSUME NEW member \in DOMAIN object
      PROVE  JsonName(member) \in DOMAIN line /\ line[JsonName(member)] = object[member]
  <2> DEFINE found == CHOOSE other \in DOMAIN object : JsonName(other) = JsonName(member)
  <2>1. JsonName(member) \in DOMAIN line /\ line[JsonName(member)] = object[found]
    BY DEF Json
  <2>2. found \in DOMAIN object /\ JsonName(found) = JsonName(member)
    OBVIOUS
  <2> HIDE DEF found
  <2>3. found = member
    BY <1>2, <1>3, <2>2
  <2> QED
    BY <2>1, <2>3
<1>5. ASSUME NEW name \in DOMAIN line
      PROVE  \E member \in DOMAIN object : name = JsonName(member)
  BY DEF Json
<1> HIDE DEF line
<1>6. /\ "ETag" \in DOMAIN line /\ "Key" \in DOMAIN line /\ "Size" \in DOMAIN line
      /\ line["ETag"] = xml.ETag /\ line["Key"] = xml.Key /\ line["Size"] \in Digits(xml.Size)
  BY <1>2, <1>4, ObjectMembers DEF object
<1>7. IF "ChecksumAlgorithm" \in DOMAIN line
      THEN line["ChecksumAlgorithm"] = xml.ChecksumAlgorithm ELSE xml.ChecksumAlgorithm = ""
  <2>1. "ChecksumAlgorithm_" \in DOMAIN object <=> xml.ChecksumAlgorithm # ""
    BY ObjectMembers DEF object
  <2>2. xml.ChecksumAlgorithm # "" => object["ChecksumAlgorithm_"] = xml.ChecksumAlgorithm
    BY ObjectMembers DEF object
  <2>3. "ChecksumAlgorithm" \in DOMAIN line => "ChecksumAlgorithm_" \in DOMAIN object
    BY <1>2, <1>3, <1>5
  <2> QED
    BY <1>2, <1>4, <2>1, <2>2, <2>3
<1>8. IF "ChecksumType" \in DOMAIN line
      THEN line["ChecksumType"] = xml.ChecksumType ELSE xml.ChecksumType = ""
  <2>1. "ChecksumType_" \in DOMAIN object <=> xml.ChecksumType # ""
    BY ObjectMembers DEF object
  <2>2. xml.ChecksumType # "" => object["ChecksumType_"] = xml.ChecksumType
    BY ObjectMembers DEF object
  <2>3. "ChecksumType" \in DOMAIN line => "ChecksumType_" \in DOMAIN object
    BY <1>2, <1>3, <1>5
  <2> QED
    BY <1>2, <1>4, <2>1, <2>2, <2>3
<1>9. ASSUME NEW name \in DOMAIN xml
      PROVE  IF name \in DOMAIN line
             THEN line[name] = xml[name] \/ (name = "Size" /\ line[name] \in Digits(xml[name]))
             ELSE xml[name] = ""
  BY <1>1, <1>6, <1>7, <1>8
<1> QED
  BY <1>6, <1>9 DEF Stands, line, object

\* N objects that have a key.
Keyed(objects, N, K) ==
  /\ DOMAIN objects = 1..N /\ Len(objects) = N
  /\ \A i \in 1..N : "Key" \in DOMAIN objects[i] /\ objects[i]["Key"] \in K

\* The keys of the first n objects.
KeysOf(lines, objects, n, K) ==
  /\ lines \in Seq(K) /\ Len(lines) = n
  /\ \A i \in 1..n : lines[i] = objects[i]["Key"]

(* In plain format every object that has a key is a line.                  *)
LEMMA PlainLinesAreKeys ==
  ASSUME NEW K, NEW objects, NEW N \in Nat, Keyed(objects, N, K)
  PROVE  KeysOf(PlainLines(objects), objects, N, K)
<1>0. /\ DOMAIN objects = 1..N /\ Len(objects) = N
      /\ \A i \in 1..N : "Key" \in DOMAIN objects[i] /\ objects[i]["Key"] \in K
  BY DEF Keyed
<1> DEFINE T == Seq(K)
           none == <<>>
           step == [nt \in (1..N) \X T |->
                      IF "Key" \in DOMAIN objects[nt[1]] THEN Append(nt[2], objects[nt[1]]["Key"]) ELSE nt[2]]
           Next1(t, n) == IF "Key" \in DOMAIN objects[n] THEN Append(t, objects[n]["Key"]) ELSE t
<1>1. /\ step \in [(1..N) \X T -> T]
      /\ \A n \in 1..N : \A t \in T : step[<<n, t>>] = Next1(t, n)
  BY <1>0
<1>2. none \in T
  OBVIOUS
<1> HIDE DEF step, T, none
<1>3. PICK f \in [0..N -> T] : Recurs(f, N, none, step)
  BY <1>1, <1>2, Recursion
<1>4. f[0] = <<>> /\ \A n \in 1..N : f[n] = Next1(f[n - 1], n)
  <2>1. f[0] = <<>> /\ \A n \in 1..N : f[n] = step[<<n, f[n - 1]>>]
    BY <1>3 DEF Recurs, none
  <2>2. ASSUME NEW n \in 1..N PROVE f[n] = Next1(f[n - 1], n)
    <3>1. n - 1 \in 0..N
      OBVIOUS
    <3>2. f[n - 1] \in T
      BY <1>3, <3>1
    <3> QED
      BY <1>1, <2>1, <3>2
  <2> QED
    BY <2>1, <2>2
<1> DEFINE Is(g) == g = [n \in 0..Len(objects) |-> IF n = 0 THEN <<>>
                          ELSE IF "Key" \in DOMAIN objects[n] THEN Append(g[n - 1], objects[n]["Key"])
                          ELSE g[n - 1]]
           u == CHOOSE g : Is(g)
<1>5. PlainLines(objects) = u[N]
  BY <1>0 DEF PlainLines
<1>6. Is(f)
  <2>1. f = [n \in 0..N |-> IF n = 0 THEN <<>> ELSE Next1(f[n - 1], n)]
    <3> HIDE DEF Next1
    <3> QED
      BY <1>3, <1>4
  <2> QED
    BY <1>0, <2>1
<1> HIDE DEF Is
<1>7. Is(u)
  BY <1>6
<1>8. u = [n \in 0..N |-> IF n = 0 THEN <<>> ELSE Next1(u[n - 1], n)]
  BY <1>0, <1>7 DEF Is
<1> HIDE DEF u, Next1
<1>9. ASSUME NEW g, NEW h, g = [n \in 0..N |-> IF n = 0 THEN <<>> ELSE Next1(h[n - 1], n)]
      PROVE  g[0] = <<>> /\ \A n \in 1..N : g[n] = Next1(h[n - 1], n)
  BY <1>9
<1>10. u[0] = <<>> /\ \A n \in 1..N : u[n] = Next1(u[n - 1], n)
  BY <1>8, <1>9
<1> DEFINE S == {n \in 0..N : KeysOf(u[n], objects, n, K)}
<1>11. 0 \in S
  <2>1. <<>> \in Seq(K) /\ Len(<<>>) = 0 /\ 1..0 = {}
    OBVIOUS
  <2>2. KeysOf(u[0], objects, 0, K)
    BY <1>10, <2>1 DEF KeysOf
  <2> QED
    BY <2>2
<1>12. ASSUME NEW n \in 1..N, n - 1 \in S PROVE n \in S
  <2> DEFINE t == u[n - 1]
             key == objects[n]["Key"]
  <2>1. n \in 0..N /\ KeysOf(t, objects, n - 1, K) /\ key \in K
    BY <1>0, <1>12
  <2>2. u[n] = Append(t, key)
    BY <1>0, <1>10 DEF Next1
  <2> HIDE DEF t
  <2>3. Append(t, key) \in Seq(K) /\ Len(Append(t, key)) = n
        /\ \A i \in 1..(n - 1) : Append(t, key)[i] = t[i]
        /\ Append(t, key)[n] = key
    BY <2>1 DEF KeysOf
  <2>4. KeysOf(Append(t, key), objects, n, K)
    BY <2>1, <2>3 DEF KeysOf
  <2> QED
    BY <2>1, <2>2, <2>4
<1>13. \A n \in S : KeysOf(u[n], objects, n, K)
  OBVIOUS
<1> HIDE DEF S
<1>14. N \in S
  <2>1. 0..N \subseteq S
    BY <1>11, <1>12, BoundedInduction
  <2> QED
    BY <2>1
<1> QED
  BY <1>5, <1>13, <1>14

(* Every line stands for its object, and there are as many.                *)
LEMMA LinesStand ==
  ASSUME NEW xmls \in Seq(Elements), \A i \in 1..Len(xmls) : ~BadObject(xmls[i]),
         NEW objects, objects = [i \in DOMAIN xmls |-> Object(xmls[i])],
         NEW format \in {"PLAIN", "JSON"},
         NEW lines,
         lines = IF format = "PLAIN" THEN PlainLines(objects) ELSE JsonLines(objects)
  PROVE  /\ Len(lines) = Len(xmls)
         /\ \A i \in DOMAIN xmls : Stands(format, lines[i], xmls[i])
         /\ lines = <<>> <=> xmls = <<>>
<1> DEFINE N == Len(xmls)
<1>1. N \in Nat /\ DOMAIN xmls = 1..N /\ \A i \in 1..N : xmls[i] \in Elements
  OBVIOUS
<1>2. DOMAIN objects = 1..N /\ \A i \in 1..N : objects[i] = Object(xmls[i])
  BY <1>1
<1> HIDE DEF N
<1>3. objects \in Seq({Object(xml) : xml \in Elements})
  BY <1>1
<1>4. Len(objects) = N
  BY <1>1, <1>2, <1>3
<1>5. lines \in Seq({xml.Key : xml \in Elements} \cup {Json(Object(xml)) : xml \in Elements})
      /\ Len(lines) = N
      /\ \A i \in 1..N : Stands(format, lines[i], xmls[i])
  <2> DEFINE L == {xml.Key : xml \in Elements} \cup {Json(Object(xml)) : xml \in Elements}
             K == {xml.Key : xml \in Elements}
  <2>1. CASE format = "PLAIN"
    <3>1. ASSUME NEW i \in 1..N
          PROVE  "Key" \in DOMAIN objects[i] /\ objects[i]["Key"] = xmls[i].Key /\ xmls[i].Key \in K
      BY <1>1, <1>2, ObjectMembers DEF N
    <3> HIDE DEF K
    <3>2. /\ lines \in Seq(K) /\ Len(lines) = N
          /\ \A i \in 1..N : lines[i] = objects[i]["Key"]
      <4>1. lines = PlainLines(objects)
        BY <2>1
      <4>2. Keyed(objects, N, K)
        BY <1>2, <1>4, <3>1 DEF Keyed
      <4>3. KeysOf(PlainLines(objects), objects, N, K)
        BY <1>1, <4>2, PlainLinesAreKeys
      <4> QED
        BY <4>1, <4>3 DEF KeysOf
    <3>3. \A i \in 1..N : Stands(format, lines[i], xmls[i])
      BY <2>1, <3>1, <3>2 DEF Stands
    <3>4. K \subseteq L
      BY DEF K
    <3> HIDE DEF L
    <3>5. lines \in Seq(L)
      BY <3>2, <3>4
    <3> QED
      BY <3>2, <3>3, <3>5 DEF L
  <2>2. CASE format = "JSON"
    <3>1. lines = [i \in 1..N |-> Json(objects[i])]
      BY <1>2, <2>2 DEF JsonLines
    <3>2. ASSUME NEW i \in 1..N PROVE Stands("JSON", lines[i], xmls[i]) /\ lines[i] \in L
      <4>1. lines[i] = Json(Object(xmls[i]))
        BY <1>2, <3>1
      <4>2. xmls[i] \in Elements /\ ~BadObject(xmls[i])
        BY <1>1 DEF N
      <4>3. Stands("JSON", Json(Object(xmls[i])), xmls[i])
        BY <4>2, JsonStands
      <4> QED
        BY <4>1, <4>2, <4>3
    <3> HIDE DEF L
    <3>3. lines \in [1..N -> L]
      BY <3>1, <3>2
    <3>4. lines \in Seq(L) /\ Len(lines) = N
      BY <1>1, <3>3
    <3> QED
      BY <2>2, <3>2, <3>4 DEF L
  <2> QED
    BY <2>1, <2>2
<1>6. lines = <<>> <=> N = 0
  <2> DEFINE L == {xml.Key : xml \in Elements} \cup {Json(Object(xml)) : xml \in Elements}
  <2> HIDE DEF L
  <2>1. lines \in Seq(L) /\ Len(lines) = N
    BY <1>5 DEF L
  <2> QED
    BY <2>1
<1>7. xmls = <<>> <=> N = 0
  BY DEF N
<1> QED
  BY <1>1, <1>5, <1>6, <1>7 DEF N
-----------------------------------------------------------------------------
(* Buckets                                                                 *)

\* u[n] are the buckets of the first n of N lists, in order.
Joins(u, lists, N) == u[0] = <<>> /\ \A n \in 1..N : u[n] = u[n - 1] \o lists[n]

(* All the buckets of an answer, list by list.                             *)
LEMMA BucketsJoined ==
  ASSUME NEW xml, NEW lists, NEW S, NEW N \in Nat, xml.Buckets = lists,
         lists \in Seq(Seq(S)), Len(lists) = N
  PROVE  \E u \in [0..N -> Seq(S)] : Joins(u, lists, N) /\ AllBuckets(xml) = u[N]
<1> DEFINE T == Seq(S)
           none == <<>>
           Next1(t, n) == t \o lists[n]
           step == [nt \in (1..N) \X T |-> Next1(nt[2], nt[1])]
<1>0. \A n \in 1..N : lists[n] \in Seq(S)
  OBVIOUS
<1>1. /\ step \in [(1..N) \X T -> T]
      /\ \A n \in 1..N : \A t \in T : step[<<n, t>>] = Next1(t, n)
  <2>1. \A n \in 1..N : \A t \in T : Next1(t, n) \in T
    BY <1>0
  <2> HIDE DEF Next1, T
  <2> QED
    BY <2>1
<1>2. none \in T
  OBVIOUS
<1> HIDE DEF step, T, none
<1>3. PICK f \in [0..N -> T] : Recurs(f, N, none, step)
  BY <1>1, <1>2, Recursion
<1>4. f[0] = <<>> /\ \A n \in 1..N : f[n] = Next1(f[n - 1], n)
  <2>1. f[0] = <<>> /\ \A n \in 1..N : f[n] = step[<<n, f[n - 1]>>]
    BY <1>3 DEF Recurs, none
  <2>2. ASSUME NEW n \in 1..N PROVE f[n] = Next1(f[n - 1], n)
    <3>1. n - 1 \in 0..N
      OBVIOUS
    <3>2. f[n - 1] \in T
      BY <1>3, <3>1
    <3> QED
      BY <1>1, <2>1, <3>2
  <2> QED
    BY <2>1, <2>2
<1> DEFINE Is(g) == g = [n \in 0..Len(xml.Buckets) |->
                          IF n = 0 THEN <<>> ELSE g[n - 1] \o xml.Buckets[n]]
           u == CHOOSE g : Is(g)
<1>5. AllBuckets(xml) = u[N]
  BY DEF AllBuckets
<1>6. Is(f)
  <2>1. f = [n \in 0..N |-> IF n = 0 THEN <<>> ELSE Next1(f[n - 1], n)]
    <3> HIDE DEF Next1
    <3> QED
      BY <1>3, <1>4
  <2> QED
    BY <2>1
<1> HIDE DEF Is
<1>7. Is(u)
  BY <1>6
<1>8. u = [n \in 0..N |-> IF n = 0 THEN <<>> ELSE Next1(u[n - 1], n)]
  BY <1>7 DEF Is
<1> HIDE DEF u, Next1
<1>9. ASSUME NEW g, NEW h, g = [n \in 0..N |-> IF n = 0 THEN <<>> ELSE Next1(h[n - 1], n)]
      PROVE  g[0] = <<>> /\ \A n \in 1..N : g[n] = Next1(h[n - 1], n)
  BY <1>9
<1>10. u[0] = <<>> /\ \A n \in 1..N : u[n] = Next1(u[n - 1], n)
  BY <1>8, <1>9
<1> DEFINE Same == {n \in 0..N : u[n] = f[n]}
<1>11. 0 \in Same
  BY <1>4, <1>10
<1>12. ASSUME NEW n \in 1..N, n - 1 \in Same PROVE n \in Same
  <2>1. n \in 0..N /\ u[n - 1] = f[n - 1]
    BY <1>12
  <2>2. u[n] = f[n]
    BY <1>4, <1>10, <2>1
  <2> QED
    BY <2>1, <2>2
<1>13. \A n \in Same : u[n] = f[n]
  OBVIOUS
<1> HIDE DEF Same
<1>14. N \in Same
  <2>1. 0..N \subseteq Same
    BY <1>11, <1>12, BoundedInduction
  <2> QED
    BY <2>1
<1>15. Joins(f, lists, N) /\ AllBuckets(xml) = f[N]
  BY <1>4, <1>5, <1>13, <1>14 DEF Joins, Next1
<1>16. f \in [0..N -> Seq(S)]
  BY <1>3 DEF T
<1> QED
  BY <1>15, <1>16

\* None of the first n lists is empty.
Filled(lists, n) == \A i \in 1..n : lists[i] # <<>>

\* Each of the first n lists has one element.
Single(lists, n) == \A i \in 1..n : Len(lists[i]) = 1

\* A sequence of the first elements of n lists.
Firsts(s, lists, n) == Len(s) = n /\ \A i \in 1..n : s[i] = lists[i][1]

(* Lists of one element each have no other; longer ones have more.         *)
LEMMA BucketsCounted ==
  ASSUME NEW S, NEW lists, NEW N \in Nat, lists \in Seq(Seq(S)), Len(lists) = N,
         Filled(lists, N), NEW u \in [0..N -> Seq(S)], Joins(u, lists, N)
  PROVE  IF Single(lists, N) THEN Firsts(u[N], lists, N) ELSE Len(u[N]) > N
<1> DEFINE Counted(n) == /\ Len(u[n]) >= n
                         /\ Single(lists, n) => Firsts(u[n], lists, n)
                         /\ ~Single(lists, n) => Len(u[n]) > n
           T == {n \in 0..N : Counted(n)}
<1>1. 0 \in T
  <2>1. u[0] = <<>> /\ Len(<<>>) = 0 /\ 1..0 = {}
    BY DEF Joins
  <2>2. Counted(0)
    BY <2>1 DEF Single, Firsts
  <2> HIDE DEF Counted
  <2> QED
    BY <2>2
<1>2. ASSUME NEW n \in 1..N, n - 1 \in T PROVE n \in T
  <2> DEFINE s == u[n - 1]
             t == lists[n]
  <2>1. Counted(n - 1) /\ u[n] = s \o t
    BY <1>2 DEF Joins
  <2>2. s \in Seq(S) /\ t \in Seq(S) /\ t # <<>>
    <3>1. n - 1 \in 0..N
      OBVIOUS
    <3>2. s \in Seq(S)
      BY <3>1
    <3>3. t \in Seq(S)
      OBVIOUS
    <3> QED
      BY <3>2, <3>3 DEF Filled
  <2>3. /\ Len(s) \in Nat /\ Len(t) \in Nat /\ Len(t) >= 1 /\ Len(s \o t) = Len(s) + Len(t)
        /\ \A i \in 1..Len(s) : (s \o t)[i] = s[i]
        /\ \A i \in 1..Len(t) : (s \o t)[Len(s) + i] = t[i]
    BY <2>2
  <2>4. /\ Len(s) >= n - 1
        /\ Single(lists, n - 1) => Firsts(s, lists, n - 1)
        /\ ~Single(lists, n - 1) => Len(s) > n - 1
    BY <2>1
  <2>5. Single(lists, n) <=> Single(lists, n - 1) /\ Len(t) = 1
    <3>1. \A i \in 1..n : i \in 1..(n - 1) \/ i = n
      OBVIOUS
    <3>2. \A i \in 1..(n - 1) : i \in 1..n
      OBVIOUS
    <3>3. n \in 1..n
      OBVIOUS
    <3> QED
      BY <3>1, <3>2, <3>3 DEF Single
  <2> HIDE DEF s, t
  <2>6. Len(s \o t) >= n
    BY <2>3, <2>4
  <2>7. ASSUME ~Single(lists, n) PROVE Len(s \o t) > n
    <3>1. ~Single(lists, n - 1) \/ Len(t) # 1
      BY <2>5, <2>7
    <3>2. CASE ~Single(lists, n - 1)
      <4>1. Len(s) > n - 1
        BY <2>4, <3>2
      <4> QED
        BY <2>3, <4>1
    <3>3. CASE Len(t) # 1
      <4>1. Len(t) > 1
        <5>1. Len(t) \in Nat /\ Len(t) >= 1
          BY <2>3
        <5>2. ASSUME NEW k \in Nat, k >= 1, k # 1 PROVE k > 1
          BY <5>2
        <5> QED
          BY <3>3, <5>1, <5>2
      <4> QED
        BY <2>3, <2>4, <4>1
    <3> QED
      BY <3>1, <3>2, <3>3
  <2>8. ASSUME Single(lists, n) PROVE Firsts(s \o t, lists, n)
    <3>1. Firsts(s, lists, n - 1) /\ Len(t) = 1
      BY <2>4, <2>5, <2>8
    <3>2. Len(s) = n - 1 /\ Len(s \o t) = n
      BY <2>3, <3>1 DEF Firsts
    <3>3. (s \o t)[n] = lists[n][1]
      <4>1. 1 \in 1..Len(t) /\ Len(s) + 1 = n
        BY <3>1, <3>2
      <4>2. (s \o t)[Len(s) + 1] = t[1]
        BY <2>3, <4>1
      <4> QED
        BY <4>1, <4>2 DEF t
    <3>4. ASSUME NEW i \in 1..(n - 1) PROVE (s \o t)[i] = lists[i][1]
      BY <2>3, <3>1, <3>2 DEF Firsts
    <3> QED
      BY <3>2, <3>3, <3>4 DEF Firsts
  <2>9. Counted(n)
    BY <2>1, <2>6, <2>7, <2>8
  <2> HIDE DEF Counted
  <2> QED
    BY <2>9
<1>3. \A n \in T : Counted(n)
  OBVIOUS
<1> HIDE DEF T
<1>4. N \in T
  <2>1. 0..N \subseteq T
    BY <1>1, <1>2, BoundedInduction
  <2> QED
    BY <2>1
<1> QED
  BY <1>3, <1>4

(* The name that is parsed is the one of the element.                      *)
LEMMA ParsedName ==
  ASSUME NEW xml
  PROVE  ParseBucket(xml)["Name"] = xml["Name"]
BY DEF ParseBucket

\* All of some buckets have names.
Named(all) == \A i \in DOMAIN all : all[i].Name # ""

(* What is returned for an answer is what it lists exactly if each Buckets *)
(* element has one Bucket.                                                 *)
LEMMA OneBucketEach ==
  ASSUME NEW xml \in BucketLists, NEW all, all = AllBuckets(xml), Named(all)
  PROVE  ParseListBuckets(xml).value.Buckets = [i \in DOMAIN all |-> ParseBucket(all[i])]
           <=> \A i \in DOMAIN xml.Buckets : Len(xml.Buckets[i]) = 1
<1> DEFINE lists == xml.Buckets
           N == Len(lists)
           First(i) == IF lists[i] = <<>> THEN NullNode ELSE lists[i][1]
           got == [i \in DOMAIN lists |-> ParseBucket(First(i))]
           listed == [i \in DOMAIN all |-> ParseBucket(all[i])]
<1>1. ParseListBuckets(xml).value.Buckets = got
  <2>1. ParseListBuckets(xml) = Result([Buckets |-> got])
    BY DEF ParseListBuckets
  <2> HIDE DEF got
  <2>2. ParseListBuckets(xml).value = [Buckets |-> got]
    BY <2>1 DEF Result
  <2> QED
    BY <2>2
<1>2. /\ lists \in Seq(Seq(BucketXml)) /\ N \in Nat /\ DOMAIN lists = 1..N
  <2>1. lists \in Upto(Upto(BucketXml))
    BY DEF BucketLists
  <2>2. lists \in Seq(Upto(BucketXml))
    BY <2>1, UptoIsSeq
  <2>3. \A s \in Upto(BucketXml) : s \in Seq(BucketXml)
    BY UptoIsSeq
  <2> HIDE DEF lists
  <2>4. Upto(BucketXml) \subseteq Seq(BucketXml)
    BY <2>3
  <2>5. lists \in Seq(Seq(BucketXml))
    BY <2>2, <2>4
  <2> QED
    BY <2>5
<1> HIDE DEF lists
<1>3. PICK u \in [0..N -> Seq(BucketXml)] : Joins(u, lists, N) /\ all = u[N]
  <2>1. xml.Buckets = lists
    BY DEF lists
  <2>2. \E u \in [0..N -> Seq(BucketXml)] : Joins(u, lists, N) /\ AllBuckets(xml) = u[N]
    BY <1>2, <2>1, BucketsJoined
  <2> QED
    BY <2>2
<1>4. all \in Seq(BucketXml) /\ Len(all) \in Nat /\ DOMAIN all = 1..Len(all)
  <2>1. N \in 0..N
    BY <1>2
  <2> HIDE DEF N
  <2>2. u[N] \in Seq(BucketXml)
    BY <2>1
  <2>3. all \in Seq(BucketXml)
    BY <1>3, <2>2
  <2> QED
    BY <2>3
<1>5. Filled(lists, N) => IF Single(lists, N) THEN Firsts(all, lists, N) ELSE Len(all) > N
  BY <1>2, <1>3, BucketsCounted
<1> HIDE DEF N
<1>6. (\A i \in DOMAIN lists : Len(lists[i]) = 1) <=> Single(lists, N)
  BY <1>2 DEF Single
<1>7. ASSUME Single(lists, N) PROVE got = listed
  <2>1. ASSUME NEW i \in 1..N PROVE Len(lists[i]) = 1 /\ lists[i] # <<>>
    <3>1. Len(lists[i]) = 1
      BY <1>7 DEF Single
    <3>2. Len(<<>>) = 0
      OBVIOUS
    <3> QED
      BY <3>1, <3>2
  <2>2. Filled(lists, N)
    BY <2>1 DEF Filled
  <2>3. Len(all) = N /\ \A i \in 1..N : all[i] = lists[i][1]
    BY <1>5, <1>7, <2>2 DEF Firsts
  <2>4. \A i \in 1..N : First(i) = all[i]
    BY <2>1, <2>3
  <2> HIDE DEF First
  <2> QED
    BY <1>2, <1>4, <2>3, <2>4
<1>8. ASSUME got = listed PROVE Single(lists, N)
  <2>1. DOMAIN got = 1..N /\ DOMAIN listed = 1..Len(all)
    BY <1>2, <1>4
  <2>2. Len(all) = N
    <3> HIDE DEF got, listed
    <3>1. 1..N = 1..Len(all)
      BY <1>8, <2>1
    <3>2. ASSUME NEW m \in Nat, NEW n \in Nat, 1..m = 1..n PROVE m = n
      <4>1. m \in 1..m \/ m = 0
        OBVIOUS
      <4>2. n \in 1..n \/ n = 0
        OBVIOUS
      <4>3. m \in 1..n \/ m = 0
        BY <3>2, <4>1
      <4>4. n \in 1..m \/ n = 0
        BY <3>2, <4>2
      <4> QED
        BY <4>3, <4>4
    <3> QED
      BY <1>2, <1>4, <3>1, <3>2
  <2>3. ASSUME NEW i \in 1..N PROVE lists[i] # <<>>
    <3>1. got[i] = ParseBucket(First(i)) /\ listed[i] = ParseBucket(all[i])
      BY <1>2, <1>4, <2>2
    <3>2. ParseBucket(First(i)) = ParseBucket(all[i])
      <4> HIDE DEF got, listed
      <4> QED
        BY <1>8, <3>1
    <3>3. First(i)["Name"] = all[i]["Name"]
      BY <3>2, ParsedName
    <3>4. all[i]["Name"] # ""
      BY <1>4, <2>2 DEF Named
    <3>5. NullNode["Name"] = ""
      BY DEF NullNode
    <3> QED
      BY <3>3, <3>4, <3>5
  <2>4. Filled(lists, N)
    BY <2>3 DEF Filled
  <2> QED
    BY <1>2, <1>5, <2>2, <2>4
<1> HIDE DEF got, listed
<1>9. got = listed <=> Single(lists, N)
  BY <1>7, <1>8
<1> QED
  BY <1>1, <1>6, <1>9 DEF listed, lists
-----------------------------------------------------------------------------
(* The invariant                                                           *)

(* What is parsed is what the answer says, and every object of it written. *)
ParsedInv ==
  /\ stage \in {"received", "parsed", "written"}
  /\ answer \in Unreadable \cup Listings \cup BucketLists
  /\ stage # "received" => result = Parsed(answer)
  /\ stage = "written" => answer.op = "objects" /\ result.kind = "value"
  /\ EveryObjectWritten

LEMMA ParsedInvInit == Init => ParsedInv
BY DEF Init, ParsedInv, EveryObjectWritten

LEMMA ParsedInvNext == ParsedInv /\ [Next]_vars => ParsedInv'
<1> SUFFICES ASSUME ParsedInv, [Next]_vars PROVE ParsedInv'
  OBVIOUS
<1>1. CASE Parse
  <2>1. stage' = "parsed" /\ result' = Parsed(answer) /\ answer' = answer
    BY <1>1 DEF Parse
  <2>2. EveryObjectWritten'
    BY <2>1 DEF EveryObjectWritten
  <2> QED
    BY <2>1, <2>2 DEF ParsedInv
<1>2. CASE WriteObjects
  <2>1. /\ stage = "parsed" /\ answer.op = "objects" /\ result.kind = "value" /\ stage' = "written"
        /\ answer' = answer /\ result' = result
    BY <1>2 DEF WriteObjects
  <2>2. result = Parsed(answer)
    BY <2>1 DEF ParsedInv
  <2>3. answer \in Listings /\ ~ListingThrows(answer) /\ result = ParseListObjects(answer)
    BY <2>1, <2>2, ParsedListing DEF ParsedInv
  <2> DEFINE xmls == answer.Contents
             objects == result.value.Contents
  <2>4. xmls \in Seq(Elements) /\ \A i \in 1..Len(xmls) : ~BadObject(xmls[i])
    <3>1. xmls \in Upto(ObjectXml)
      BY <2>3 DEF Listings
    <3>2. xmls \in Seq(ObjectXml)
      BY <3>1, UptoIsSeq
    <3>3. xmls \in Seq(Elements)
      BY <3>2, ParsingAssumption
    <3>4. \A i \in DOMAIN xmls : ~BadObject(xmls[i])
      BY <2>3 DEF ListingThrows
    <3> HIDE DEF xmls
    <3>5. DOMAIN xmls = 1..Len(xmls)
      BY <3>3
    <3> QED
      BY <3>3, <3>4, <3>5
  <2>5. objects = [i \in DOMAIN xmls |-> Object(xmls[i])]
    BY <2>3, ListingValue
  <2>6. PICK format \in {"PLAIN", "JSON"} :
          LET lines == IF format = "PLAIN" THEN PlainLines(objects) ELSE JsonLines(objects)
          IN  output' = IF lines = <<>> THEN <<>> ELSE <<[format |-> format, lines |-> lines]>>
    BY <1>2 DEF WriteObjects
  <2> DEFINE lines == IF format = "PLAIN" THEN PlainLines(objects) ELSE JsonLines(objects)
  <2>7. output' = IF lines = <<>> THEN <<>> ELSE <<[format |-> format, lines |-> lines]>>
    BY <2>6
  <2> HIDE DEF objects, xmls
  <2>8. /\ Len(lines) = Len(xmls)
        /\ \A i \in DOMAIN xmls : Stands(format, lines[i], xmls[i])
        /\ lines = <<>> <=> xmls = <<>>
    BY <2>4, <2>5, LinesStand
  <2> HIDE DEF lines
  <2>9. EveryObjectWritten'
    <3>1. CASE xmls = <<>>
      BY <2>1, <2>7, <2>8, <3>1 DEF EveryObjectWritten, xmls
    <3>2. CASE xmls # <<>>
      <4>1. output' = <<[format |-> format, lines |-> lines]>>
        BY <2>7, <2>8, <3>2
      <4>2. Len(output') = 1 /\ output'[1].format = format /\ output'[1].lines = lines
        BY <4>1
      <4> QED
        BY <2>1, <2>8, <3>2, <4>2 DEF EveryObjectWritten, xmls
    <3> QED
      BY <3>1, <3>2
  <2> QED
    BY <2>1, <2>2, <2>9 DEF ParsedInv
<1>3. CASE Done \/ UNCHANGED vars
  BY <1>3 DEF Done, vars, ParsedInv, EveryObjectWritten
<1> QED
  BY <1>1, <1>2, <1>3 DEF Next

THEOREM ParsedAlways == Spec => []ParsedInv
BY ParsedInvInit, ParsedInvNext, PTL DEF Spec

(* A page the tool writes is written whole.                                *)
THEOREM WrittenWhole == Spec => []EveryObjectWritten
<1>1. ParsedInv => EveryObjectWritten
  BY DEF ParsedInv
<1> QED
  BY <1>1, ParsedAlways, PTL

(* A result has a token exactly if it is truncated.                        *)
THEOREM TokenTells == Spec => []TokenIffTruncated
<1>1. ASSUME ParsedInv PROVE TokenIffTruncated
  <2>1. SUFFICES ASSUME stage # "received", answer.op = "objects", result.kind = "value"
                 PROVE  result.value.IsTruncated <=> result.value.Next # ""
    BY DEF TokenIffTruncated
  <2>2. answer \in Listings /\ ~ListingThrows(answer) /\ result = ParseListObjects(answer)
    BY <1>1, <2>1, ParsedListing DEF ParsedInv
  <2> QED
    BY <2>2, ListingValue
<1> QED
  BY <1>1, ParsedAlways, PTL

(* The buckets of an answer are returned exactly if each element has one.  *)
THEOREM BucketsReturned == Spec => []BucketsIfOneEach
<1>1. ASSUME ParsedInv PROVE BucketsIfOneEach
  <2> DEFINE all == AllBuckets(answer)
  <2>1. SUFFICES ASSUME stage = "parsed", answer.op = "buckets", result.kind = "value",
                        \A i \in DOMAIN all : all[i].Name # ""
                 PROVE  result.value.Buckets = [i \in DOMAIN all |-> ParseBucket(all[i])]
                          <=> \A i \in DOMAIN answer.Buckets : Len(answer.Buckets[i]) = 1
    BY DEF BucketsIfOneEach
  <2>2. answer \in BucketLists /\ result = ParseListBuckets(answer)
    BY <1>1, <2>1, ParsedBuckets DEF ParsedInv
  <2>3. all = AllBuckets(answer)
    OBVIOUS
  <2> HIDE DEF all
  <2>4. Named(all)
    BY <2>1 DEF Named
  <2>5. ParseListBuckets(answer).value.Buckets = [i \in DOMAIN all |-> ParseBucket(all[i])]
          <=> \A i \in DOMAIN answer.Buckets : Len(answer.Buckets[i]) = 1
    BY <2>2, <2>3, <2>4, OneBucketEach
  <2> QED
    BY <2>2, <2>5
<1> QED
  BY <1>1, ParsedAlways, PTL
=============================================================================
