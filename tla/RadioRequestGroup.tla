-------------------------- MODULE RadioRequestGroup ---------------------------
(***************************************************************************)
(* radio_request_group.c: groups of requests, which can be cancelled       *)
(* together and can claim the object for themselves.                       *)
(***************************************************************************)
EXTENDS RadioRequest

Members(g) == {r \in Requests : req[r].group = g}

Ungroup(S) ==
  [r \in Requests |->
     IF r \in S THEN [req[r] EXCEPT !.group = None] ELSE req[r]]

\* radio_request_group_unblock
Unblock(g) ==
  /\ UserTurn /\ g \in base.groups
  /\ base' = UnblockBase(g)
  /\ Enter(UnblockCalls(g))
  /\ UNCHANGED <<req, net, link, ret, now>>

\* radio_request_group_free: unblock, then let the members go.
FreeGroup(g) ==
  /\ "release" \in UserCalls /\ UserTurn /\ g \in base.groups
  /\ base' = [UnblockBase(g) EXCEPT !.groups = @ \ {g}]
  /\ Enter(UnblockCalls(g) \o <<[Call("unlink", None) EXCEPT !.g = g]>>)
  /\ UNCHANGED <<req, net, link, ret, now>>

Unlink ==
  /\ Running("unlink") /\ Clean
  /\ req' = Ungroup(Members(Top.g))
  /\ Become(<<>>)
  /\ UNCHANGED <<base, net, link, ret, now>>

\* radio_request_group_cancel: the group is emptied, its requests are
\* cancelled one by one and the references to them released together.
CancelGroup(g) ==
  /\ "cancel" \in UserCalls /\ UserTurn /\ g \in base.groups
  /\ Members(g) # {}
  /\ req' = Ungroup(Members(g))
  /\ Enter(<<ListCall("cancel", Members(g))>>)
  /\ UNCHANGED <<base, net, link, ret, now>>

CancelNext ==
  /\ Running("cancel") /\ Clean
  /\ \/ \E r \in Top.todo :
           /\ req' = Withdraw(ObjectCancelReq(req, r), r)
           /\ net' = CancelNet(req, r)
           /\ Become(ObjectCancelCalls(req, r)
                     \o <<[Top EXCEPT !.todo = @ \ {r}]>>)
     \/ /\ Top.todo = {}
        /\ Become(<<>>)
        /\ UNCHANGED <<req, net>>
  /\ UNCHANGED <<base, link, ret, now>>
=============================================================================
