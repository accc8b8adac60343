---------------------------- MODULE ResponseParsing ----------------------------
(***************************************************************************)
(* From the body of an answer to what the tool writes of it: the parsing   *)
(* of a listing (parse_list_objects, Object) and of a list of buckets      *)
(* (parse_list_buckets), and the text write_objects makes of the objects.  *)
(*                                                                         *)
(* Abstractions.  A document is malformed, or has another root element, or *)
(* is known by its elements: the repeated ones in document order, the text *)
(* of the others.  The text "" is that of an element that is empty or not  *)
(* there: pugixml's child_value tells no difference.  Delimiter and Prefix *)
(* are not read by anybody and are left out.  An Object, and a JSON line,  *)
(* is the function of its members that have a value.                       *)
(***************************************************************************)
EXTENDS Naturals, Sequences

CONSTANTS
  ObjectXml,   \* the Contents elements a document may have
  MaxRepeat    \* bound of the model: how often an element is repeated

VARIABLES
  stage,    \* "received", "parsed", "written"
  answer,   \* the body
  result,   \* what the parser returned or threw
  output    \* the chunks write_objects pushed: their format and their lines

vars == <<stage, answer, result, output>>

Upto(S) == UNION {[1..n -> S] : n \in 0..MaxRepeat}

\* Elements of Contents, and their texts; "unknown" is no enumerator, and a
\* size is a number, a number and more text, or neither.
Elements == [ChecksumAlgorithm : {"", "SHA1", "unknown"}, ChecksumType : {"", "COMPOSITE", "unknown"},
             ETag : {"", "tag"}, Key : {"", "k", "l"}, Size : {"", "12", "12 bytes", "many"}]

ASSUME ParsingAssumption == ObjectXml \subseteq Elements /\ MaxRepeat \in Nat

BucketXml == [Name : {"", "b"}, BucketRegion : {"", "r"}]

Unreadable == [root : {"malformed", "other"}, op : {"objects", "buckets"}]
Listings ==
  [root : {"ListBucketResult"}, op : {"objects"}, CommonPrefixes : Upto({"", "p"}),
   Contents : Upto(ObjectXml), IsTruncated : {"true", "false", ""}, Next : {"", "n"}]
BucketLists ==
  [root : {"ListAllMyBucketsResult"}, op : {"buckets"}, Buckets : Upto(Upto(BucketXml))]
-----------------------------------------------------------------------------
Error(status)  == [kind |-> "error", status |-> status]
Thrown         == [kind |-> "thrown"]
Result(value)  == [kind |-> "value", value |-> value]

\* std::from_chars takes the digits there are, and fails only without any.
Digits(text) == IF text \in {"12", "12 bytes"} THEN {"12"} ELSE {}

\* Object(const pugi::xml_node &) throws.
BadObject(xml) ==
  \/ xml.ChecksumAlgorithm = "unknown"
  \/ xml.ChecksumType = "unknown"
  \/ Digits(xml.Size) = {}

\* What a member of Object is set to.
Value(xml, member) ==
  IF member = "ChecksumAlgorithm_" THEN xml.ChecksumAlgorithm
  ELSE IF member = "ChecksumType_" THEN xml.ChecksumType
  ELSE IF member = "Size" THEN CHOOSE d \in Digits(xml.Size) : TRUE
  ELSE xml[member]

\* Those of some optional members that are set, if only a text sets them.
Given(xml, members) == {member \in members : Value(xml, member) # ""}

(* Mutant: members without a trailing underscore are taken only when the   *)
(* element has a text.                                                     *)
Object_OptionalKey(xml) ==
  [member \in {"ETag", "Size"} \cup Given(xml, {"ChecksumAlgorithm_", "ChecksumType_", "Key"}) |->
     Value(xml, member)]

Object(xml) ==
  [member \in {"ETag", "Key", "Size"} \cup Given(xml, {"ChecksumAlgorithm_", "ChecksumType_"}) |->
     Value(xml, member)]

(* Mutant: a missing NextMarker or NextContinuationToken is no error.      *)
ListingThrows_NotToken(xml) ==
  \/ \E i \in DOMAIN xml.Contents : BadObject(xml.Contents[i])
  \/ xml.IsTruncated \notin {"true", "false"}

ListingThrows(xml) ==
  \/ \E i \in DOMAIN xml.Contents : BadObject(xml.Contents[i])
  \/ xml.IsTruncated \notin {"true", "false"}
  \/ xml.IsTruncated = "true" /\ xml.Next = ""

ParseListObjects(xml) ==
  IF ListingThrows(xml) THEN Thrown
  ELSE Result([CommonPrefixes |-> xml.CommonPrefixes,
               Contents       |-> [i \in DOMAIN xml.Contents |-> Object(xml.Contents[i])],
               IsTruncated    |-> xml.IsTruncated = "true",
               Next           |-> IF xml.IsTruncated = "true" THEN xml.Next ELSE ""])

\* The null node child() returns when there is none has no texts.
NullNode == [Name |-> "", BucketRegion |-> ""]

ParseBucket(xml) ==
  [member \in {"Name"} \cup (IF xml.BucketRegion = "" THEN {} ELSE {"BucketRegion"}) |-> xml[member]]

(* Mutant: an empty Buckets element is passed over.                        *)
ParseListBuckets_NoneForEmpty(xml) ==
  LET full == SelectSeq(xml.Buckets, LAMBDA children : children # <<>>)
  IN  Result([Buckets |-> [i \in DOMAIN full |-> ParseBucket(full[i][1])]])

\* One Bucket for each Buckets element: its first child of that name.
ParseListBuckets(xml) ==
  Result([Buckets |-> [i \in DOMAIN xml.Buckets |->
            ParseBucket(IF xml.Buckets[i] = <<>> THEN NullNode ELSE xml.Buckets[i][1])]])

Parsed(body) ==
  IF body.root = "malformed" THEN Error("parse")
  ELSE IF body.root = "other" THEN Error("file_not_found")
  ELSE IF body.op = "objects" THEN ParseListObjects(body)
  ELSE ParseListBuckets(body)

Init ==
  /\ stage = "received"
  /\ answer \in Unreadable \cup Listings \cup BucketLists
  /\ result = Error("none")
  /\ output = <<>>

Parse ==
  /\ stage = "received"
  /\ stage' = "parsed"
  /\ result' = Parsed(answer)
  /\ UNCHANGED <<answer, output>>

\* write_objects with OutputFormat::PLAIN.
PlainLines(objects) ==
  LET upto[n \in 0..Len(objects)] ==
        IF n = 0 THEN <<>>
        ELSE IF "Key" \in DOMAIN objects[n] THEN Append(upto[n - 1], objects[n]["Key"])
        ELSE upto[n - 1]
  IN  upto[Len(objects)]

\* The name of a member without its trailing underscore.
JsonName(member) ==
  IF member = "ChecksumAlgorithm_" THEN "ChecksumAlgorithm"
  ELSE IF member = "ChecksumType_" THEN "ChecksumType" ELSE member

Json(object) ==
  [name \in {JsonName(member) : member \in DOMAIN object} |->
     object[CHOOSE member \in DOMAIN object : JsonName(member) = name]]

JsonLines(objects) == [i \in DOMAIN objects |-> Json(objects[i])]

(* write_objects, for a page that process_prefix got: nothing is pushed    *)
(* without a line.                                                         *)
WriteObjects ==
  /\ stage = "parsed"
  /\ answer.op = "objects" /\ result.kind = "value"
  /\ stage' = "written"
  /\ \E format \in {"PLAIN", "JSON"} :
       LET objects == result.value.Contents
           lines   == IF format = "PLAIN" THEN PlainLines(objects) ELSE JsonLines(objects)
       IN  output' = IF lines = <<>> THEN <<>> ELSE <<[format |-> format, lines |-> lines]>>
  /\ UNCHANGED <<answer, result>>

Done ==
  /\ \/ stage = "written"
     \/ stage = "parsed" /\ (answer.op = "buckets" \/ result.kind # "value")
  /\ UNCHANGED vars

Next == Parse \/ WriteObjects \/ Done

Spec == Init /\ [][Next]_vars
-----------------------------------------------------------------------------
\* A line stands for an object: in plain format its key, in JSON every element
\* that has a text, under its own name (of a size, the digits it begins with).
Stands(format, line, xml) ==
  /\ format = "PLAIN" => line = xml.Key
  /\ format = "JSON" =>
       /\ {"Key", "ETag", "Size"} \subseteq DOMAIN line
       /\ \A name \in DOMAIN xml :
            IF name \in DOMAIN line
            THEN line[name] = xml[name] \/ (name = "Size" /\ line[name] \in Digits(xml[name]))
            ELSE xml[name] = ""

(* Of a page that is written each object is, in the order of the page and  *)
(* as one line: none is dropped on the way from the document through the   *)
(* optionals of Object to the output, one without a key neither (it is an  *)
(* empty line, or an empty text), and a page without objects pushes        *)
(* nothing.                                                                *)
EveryObjectWritten ==
  stage = "written" =>
    IF answer.Contents = <<>> THEN output = <<>>
    ELSE /\ Len(output) = 1
         /\ Len(output[1].lines) = Len(answer.Contents)
         /\ \A i \in DOMAIN answer.Contents :
              Stands(output[1].format, output[1].lines[i], answer.Contents[i])

(* process_prefix looks at the token alone, never at IsTruncated: the two  *)
(* agree in every result, so that no truncated page passes for the last.   *)
TokenIffTruncated ==
  stage # "received" /\ answer.op = "objects" /\ result.kind = "value" =>
    (result.value.IsTruncated <=> result.value.Next # "")

\* All the Bucket elements of a document, in order.
AllBuckets(xml) ==
  LET upto[n \in 0..Len(xml.Buckets)] == IF n = 0 THEN <<>> ELSE upto[n - 1] \o xml.Buckets[n]
  IN  upto[Len(xml.Buckets)]

(* list_buckets returns the buckets of the answer, if all have names,      *)
(* exactly when each Buckets element has one Bucket: of more it keeps the  *)
(* first, and for none it makes up a bucket without a name.                *)
BucketsIfOneEach ==
  stage = "parsed" /\ answer.op = "buckets" /\ result.kind = "value" =>
    LET all == AllBuckets(answer)
    IN  (\A i \in DOMAIN all : all[i].Name # "") =>
        (result.value.Buckets = [i \in DOMAIN all |-> ParseBucket(all[i])]
           <=> \A i \in DOMAIN answer.Buckets : Len(answer.Buckets[i]) = 1)
=============================================================================
