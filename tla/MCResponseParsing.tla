--------------------------- MODULE MCResponseParsing ---------------------------
(* An instance of ResponseParsing small enough for TLC.                    *)
EXTENDS ResponseParsing

(* Every key with every size, with and without checksums and a tag, and    *)
(* each checksum that is none.                                             *)
Objects ==
  {xml \in Elements : \/ xml.ChecksumAlgorithm = "SHA1" /\ xml.ChecksumType = "COMPOSITE" /\ xml.ETag = "tag"
                      \/ xml.ChecksumAlgorithm = "" /\ xml.ChecksumType = "" /\ xml.ETag = ""
                      \/ xml.Key = "k" /\ xml.Size = "12" /\ xml.ETag = ""}
=============================================================================
