----------------------------- MODULE GemmService -----------------------------
(***************************************************************************)
(* What pta_chiplet_gemm promises its caller (pta_chiplet.h): a call       *)
(* returns 0 with C written, or -1 with C untouched and an error that says *)
(* why. One call at a time. C holds what the call computed, and the index  *)
(* reported is the one it was computed under.                              *)
(***************************************************************************)
EXTENDS Integers

CONSTANTS Errors,    \* why a call may fail
          Untouched  \* what C holds before a call

VARIABLES
  busy,       \* a call is in progress
  call,       \* which call it is, or the last one was
  C,          \* the caller's result buffer
  error,      \* dev->error: "OK" or one of Errors
  lastIndex   \* the index the last call reports having run as

serviceVars == <<busy, call, C, error, lastIndex>>

Init ==
  /\ busy = FALSE
  /\ call = 0
  /\ C = Untouched
  /\ error = "OK"
  /\ lastIndex = -1

\* The caller asks for a GEMM into a buffer of its own.
Call ==
  /\ ~busy
  /\ busy' = TRUE
  /\ call' = call + 1
  /\ C' = Untouched
  /\ lastIndex' = -1
  /\ UNCHANGED error

\* 0: C holds this call's result, computed under the index reported.
Succeed ==
  /\ busy
  /\ busy' = FALSE
  /\ lastIndex' \in Nat
  /\ C' = [id |-> call, index |-> lastIndex']
  /\ error' = "OK"
  /\ UNCHANGED call

\* -1: C is untouched.
Fail ==
  /\ busy
  /\ busy' = FALSE
  /\ error' \in Errors
  /\ UNCHANGED <<call, C, lastIndex>>

\* A call that is not a GEMM: it reports how it went, and "-1 after anything
\* else" is all it may do to the index. It never writes C.
Other ==
  /\ ~busy
  /\ error' \in Errors \cup {"OK"}
  /\ lastIndex' \in {lastIndex, -1}
  /\ UNCHANGED <<busy, call, C>>

Next == Call \/ Succeed \/ Fail \/ Other

Spec == Init /\ [][Next]_serviceVars

=============================================================================
