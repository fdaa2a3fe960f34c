--------------------------- MODULE RequestLifecycle ---------------------------
(***************************************************************************)
(* What the library promises about each request: the lifecycle drawn in    *)
(* radio_request_p.h, and how often a request is sent and completed on the *)
(* way.  Sending fails and timeouts lead to FAILED, as in the code.        *)
(***************************************************************************)
EXTENDS Naturals

CONSTANT Requests

VARIABLES
  state,    \* where the request is in its lifecycle
  sends,    \* how many times it was sent
  retries,  \* how many times it was retried
  calls     \* how many times its completion callback ran

vars == <<state, sends, retries, calls>>

Init ==
  /\ state = [r \in Requests |-> "NEW"]
  /\ sends = [r \in Requests |-> 0]
  /\ retries = [r \in Requests |-> 0]
  /\ calls = [r \in Requests |-> 0]

Move(r, from, to) ==
  /\ state[r] \in from
  /\ state' = [state EXCEPT ![r] = to]

Submit(r) ==
  /\ Move(r, {"NEW"}, "QUEUED")
  /\ UNCHANGED <<sends, retries, calls>>

\* One transmission for the submission and one for each retry.
Transmit(r) ==
  /\ Move(r, {"QUEUED"}, "PENDING")
  /\ sends[r] = retries[r]
  /\ sends' = [sends EXCEPT ![r] = @ + 1]
  /\ UNCHANGED <<retries, calls>>

Retry(r) ==
  /\ Move(r, {"PENDING"}, "QUEUED")
  /\ retries' = [retries EXCEPT ![r] = @ + 1]
  /\ UNCHANGED <<sends, calls>>

Answer(r) ==
  /\ Move(r, {"PENDING"}, "DONE")
  /\ UNCHANGED <<sends, retries, calls>>

\* The callback runs once for a request that has ended.
Complete(r) ==
  /\ state[r] = "DONE" /\ calls[r] = 0
  /\ calls' = [calls EXCEPT ![r] = 1]
  /\ UNCHANGED <<state, sends, retries>>

\* A failure is reported at once, except inside the call that submits.
Fail(r) ==
  /\ Move(r, {"QUEUED", "PENDING"}, "FAILED")
  /\ calls[r] = 0
  /\ calls' \in {calls, [calls EXCEPT ![r] = 1]}
  /\ UNCHANGED <<sends, retries>>

Cancel(r) ==
  /\ Move(r, {"NEW", "QUEUED", "PENDING"}, "CANCELLED")
  /\ UNCHANGED <<sends, retries, calls>>

\* The service dies: pending requests are queued, never to be sent again.
Die(S) ==
  /\ \A r \in S : state[r] \in {"QUEUED", "PENDING"}
  /\ state' = [r \in Requests |-> IF r \in S THEN "QUEUED" ELSE state[r]]
  /\ UNCHANGED <<sends, retries, calls>>

Next ==
  \/ \E r \in Requests :
       \/ Submit(r) \/ Transmit(r) \/ Retry(r) \/ Answer(r)
       \/ Complete(r) \/ Fail(r) \/ Cancel(r)
  \/ \E S \in SUBSET Requests : Die(S)

Spec == Init /\ [][Next]_vars
=============================================================================
