----------------------------- MODULE OutputWriter -----------------------------
(***************************************************************************)
(* The way of the listing to the output file: workers push chunks of text  *)
(* to a lock-free stack (Worker::write_objects), and one coroutine         *)
(* (writer_coroutine of worker_manager.cpp) pops them and writes them.     *)
(* The main thread tells it to stop through a cancellation signal.         *)
(*                                                                         *)
(* Abstractions.  A chunk is an element of Chunk, pushed at most once; its *)
(* producer is whichever worker listed it.  The order in which the stack   *)
(* yields its chunks is not a promise and is left open.  async_write of a  *)
(* chunk ends with all of it written or with an error.                     *)
(***************************************************************************)
CONSTANTS
  Chunk,        \* the chunks that may be written: one for each page listed
  WriteFails    \* BOOLEAN: may a write to the output file fail?

VARIABLES
  write_stack,   \* chunks in boost::lockfree::stack
  str,           \* the chunk popped last and being written
  written,       \* chunks in the output file
  failed,        \* chunks reported on stderr as not written
  opc,           \* where the writer coroutine is
  aborted,       \* local: wait_ec is operation_aborted
  stopping       \* the main thread has emitted the signal

vars == <<write_stack, str, written, failed, opc, aborted, stopping>>

WriterPc == {"arm", "wait", "drain", "writing", "returned"}

Init ==
  /\ write_stack = {}
  /\ str = {}
  /\ written = {}
  /\ failed = {}
  /\ opc = "arm"
  /\ aborted = FALSE
  /\ stopping = FALSE

(* The last line of write_objects.                                         *)
Push(c) ==
  /\ write_stack' = write_stack \cup {c}
  /\ UNCHANGED <<str, written, failed, opc, aborted, stopping>>

(* async_wait on a timer of 10 ms puts a handler into the slot.            *)
Arm ==
  /\ opc = "arm"
  /\ opc' = "wait"
  /\ UNCHANGED <<write_stack, str, written, failed, aborted, stopping>>

Expire ==
  /\ opc = "wait"
  /\ opc' = "drain"
  /\ UNCHANGED <<write_stack, str, written, failed, aborted, stopping>>

Pop ==
  /\ opc = "drain"
  /\ \E c \in write_stack :
       /\ write_stack' = write_stack \ {c}
       /\ str' = {c}
  /\ opc' = "writing"
  /\ UNCHANGED <<written, failed, aborted, stopping>>

(* Mutant: the string is not consumed by the write, and written again.     *)
WriteOk_Again ==
  /\ opc = "writing"
  /\ written' = written \cup str
  /\ write_stack' = write_stack \cup str
  /\ str' = {}
  /\ opc' = "drain"
  /\ UNCHANGED <<failed, aborted, stopping>>

(* async_write ends.  An error is reported and the loop goes on.           *)
WriteOk ==
  /\ opc = "writing"
  /\ written' = written \cup str
  /\ str' = {}
  /\ opc' = "drain"
  /\ UNCHANGED <<write_stack, failed, aborted, stopping>>

(* Mutant: an error ends the coroutine.                                    *)
WriteError_Return ==
  /\ WriteFails
  /\ opc = "writing"
  /\ failed' = failed \cup str
  /\ str' = {}
  /\ opc' = "returned"
  /\ UNCHANGED <<write_stack, written, aborted, stopping>>

WriteError ==
  /\ WriteFails
  /\ opc = "writing"
  /\ failed' = failed \cup str
  /\ str' = {}
  /\ opc' = "drain"
  /\ UNCHANGED <<write_stack, written, aborted, stopping>>

(* Mutant: the coroutine returns at once when it is cancelled.             *)
Emit_NoDrain ==
  /\ ~stopping
  /\ stopping' = TRUE
  /\ IF opc = "wait" THEN opc' = "returned" /\ aborted' = TRUE
     ELSE UNCHANGED <<opc, aborted>>
  /\ UNCHANGED <<write_stack, str, written, failed>>

(* writer_cancellation_signal->emit(): only a wait can be cancelled, the   *)
(* writes are not bound to the slot.  Otherwise the signal is lost.        *)
Emit ==
  /\ ~stopping
  /\ stopping' = TRUE
  /\ IF opc = "wait" THEN opc' = "drain" /\ aborted' = TRUE
     ELSE UNCHANGED <<opc, aborted>>
  /\ UNCHANGED <<write_stack, str, written, failed>>

(* The stack is empty: return after a cancellation, or wait again.         *)
Drained ==
  /\ opc = "drain"
  /\ write_stack = {}
  /\ opc' = IF aborted THEN "returned" ELSE "arm"
  /\ UNCHANGED <<write_stack, str, written, failed, aborted, stopping>>

Writer ==
  \/ Arm
  \/ Expire
  \/ Pop
  \/ WriteOk
  \/ WriteError
  \/ Drained

\* What the workers have pushed so far.
Chunks == write_stack \cup str \cup written \cup failed

(* Workers push each chunk once, and the main thread emits the signal when *)
(* all workers are gone: ListAllObjects keeps to both.                     *)
Next ==
  \/ \E c \in Chunk \ Chunks : ~stopping /\ Push(c)
  \/ Writer
  \/ Emit

Spec == Init /\ [][Next]_vars
-----------------------------------------------------------------------------
(* Every variable has its type; a chunk is written while str holds it.     *)
TypeOK ==
  /\ write_stack \subseteq Chunk
  /\ str \subseteq Chunk
  /\ written \subseteq Chunk
  /\ failed \subseteq Chunk
  /\ opc \in WriterPc
  /\ aborted \in BOOLEAN
  /\ stopping \in BOOLEAN
  /\ opc = "writing" <=> str # {}

(* A chunk is in one place: nothing is written twice, or both written and  *)
(* reported as failed.                                                     *)
OnePlace ==
  /\ write_stack \cap (str \cup written \cup failed) = {}
  /\ str \cap (written \cup failed) = {}
  /\ written \cap failed = {}

(* The writer returns only with nothing left to write: the signal does not *)
(* cut the output off.                                                     *)
ReturnsDrained == opc = "returned" => write_stack = {} /\ str = {}
=============================================================================
