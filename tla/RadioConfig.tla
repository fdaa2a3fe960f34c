----------------------------- MODULE RadioConfig ------------------------------
(***************************************************************************)
(* radio_config.c: the other subclass of RadioBase.  It owns its binder    *)
(* objects instead of listening to a RadioInstance, is connected for as    *)
(* long as it lives, and dies in another order than RadioClient.           *)
(***************************************************************************)
EXTENDS RadioRequestGroup

\* radio_config_died: the users are told, then the requests fail.
ConfigDeath ==
  /\ "config death" \in Faults /\ EventTurn
  /\ base.alive /\ link.connected
  /\ link' = [connected |-> FALSE, dead |-> TRUE]
  /\ net' = [net EXCEPT !.answers = {}]
  /\ Enter(Callback(None) \o <<Call("die", None)>>)
  /\ UNCHANGED <<req, base, ret, now>>

HandleDeath ==
  /\ Running("die") /\ Clean
  /\ req' = HandleDeathReq
  /\ base' = HandleDeathBase
  /\ Become(<<ListCall("fail", base.active)>>)
  /\ UNCHANGED <<net, link, ret, now>>
=============================================================================
