---------------------------- MODULE MCRadioClient -----------------------------
(***************************************************************************)
(* Instances of RadioClient for TLC: requests r1, r2, r3 and groups g1, g2. *)
(***************************************************************************)
EXTENDS RadioClient
CONSTANTS r1, r2, r3, g1, g2

NoGroup == [r \in Requests |-> None]
OneGroup == [r \in Requests |-> IF r = r1 THEN g1 ELSE None]
PairInGroup == [r \in Requests |-> IF r \in {r1, r2} THEN g1 ELSE None]
TwoGroups == [r \in Requests |-> CASE r = r1 -> g1 [] r = r2 -> g2 [] OTHER -> None]

NoRetries == [r \in Requests |-> 0]
FirstRetries == [r \in Requests |-> IF r = r1 THEN 1 ELSE 0]
OneRetry == [r \in Requests |-> 1]
=============================================================================
