----------------------------- MODULE MCRadioShared -----------------------------
(***************************************************************************)
(* What objects share, for TLC: the pointers to configs, with versions 0,  *)
(* 1, 2, and the counter of serials.  A behaviour opens configs or makes   *)
(* requests, since neither touches what the other shares: configs are left *)
(* alone once a serial was given, and no request is made beside a config.  *)
(* Configs o1 .. o3, requests q1, q2 and objects b1, b2 are created in any *)
(* order and hence interchangeable.                                        *)
(***************************************************************************)
EXTENDS RadioConfigShared, RadioSerials, TLC
CONSTANTS o1, o2, o3, q1, q2, b1, b2

Symmetry == Permutations(Configs) \cup Permutations(Numbered) \cup Permutations(Bases)

MCInit == Init /\ SerialsInit
MCNext ==
  \/ last_serial = 0 /\ Next /\ UNCHANGED serialVars
  \/ Init /\ SerialsNext /\ UNCHANGED vars

MCSpec == MCInit /\ [][MCNext]_<<vars, serialVars>>
=============================================================================
