----------------------------- MODULE RadioRequest -----------------------------
(***************************************************************************)
(* radio_request.c: what the user who holds a reference to a request may   *)
(* do with it, and what freeing it does.                                   *)
(***************************************************************************)
EXTENDS RadioBase

\* A call about r which uses r after the calls it makes: its caller keeps r.
InCall(r) ==
  \E i \in DOMAIN stack :
    stack[i].r = r /\ stack[i].op \in {"submitted", "retried", "unregister"}

(***************************************************************************)
(* radio_request_object_cancel: leave the group and the object's tables    *)
(* (the first time), then unregister.                                      *)
(***************************************************************************)
ObjectCancelReq(q, r) ==
  [CancelReq(q, r) EXCEPT
     ![r] = [@ EXCEPT !.dropped = TRUE,
                      !.group = IF q[r].dropped THEN q[r].group ELSE None]]

ObjectCancelCalls(q, r) ==
  (IF ~q[r].dropped /\ q[r].registered THEN <<Call("drop", r)>> ELSE <<>>)
  \o <<Call("unregister", r)>>

Unregister ==
  /\ Running("unregister") /\ Clean
  /\ req' = IF req[Top.r].registered
            THEN [req EXCEPT ![Top.r] = [@ EXCEPT !.registered = FALSE,
                                                  !.serial2 = 0]]
            ELSE req
  /\ Become(<<>>)
  /\ UNCHANGED <<base, net, link, ret, now>>

\* Mutant: the callback stays.
WithdrawNothing(q, r) == q

\* The cancelled request forgets the user's callback.
Withdraw(q, r) == [q EXCEPT ![r] = [@ EXCEPT !.complete = FALSE]]

\* radio_request_cancel
Cancel(r) ==
  /\ "cancel" \in UserCalls /\ UserTurn
  /\ req[r].held
  /\ req' = Withdraw(ObjectCancelReq(req, r), r)
  /\ net' = CancelNet(req, r)
  /\ Enter(ObjectCancelCalls(req, r))
  /\ UNCHANGED <<base, link, ret, now>>

\* radio_request_unref by the user; radio_request_drop is Cancel, then this.
Release(r) ==
  /\ "release" \in UserCalls /\ UserTurn
  /\ req[r].held /\ ~InCall(r)
  /\ req' = [req EXCEPT ![r].held = FALSE]
  /\ UNCHANGED <<base, net, link, stack, ret, now>>

\* radio_request_free, up to the completion callback.
Free(r) ==
  /\ r \in Garbage
  /\ req' = ObjectCancelReq(req, r)
  /\ net' = CancelNet(req, r)
  /\ Enter(ObjectCancelCalls(req, r) \o <<Call("finish", r)>>)
  /\ UNCHANGED <<base, link, ret, now>>

\* The end of radio_request_free: a submitted request completes.
Finish ==
  /\ Running("finish") /\ Clean
  /\ LET r == Top.r
         completes == req[r].complete /\ req[r].submitted
     IN  /\ req' = [(IF completes THEN CompleteReq(req, r) ELSE req)
                     EXCEPT ![r].freed = TRUE]
         /\ Become(IF completes THEN Callback(r) ELSE <<>>)
  /\ UNCHANGED <<base, net, link, ret, now>>

\* radio_request_set_timeout
SetTimeout(r, ms) ==
  /\ "timeout" \in UserCalls /\ UserTurn
  /\ req[r].held /\ req[r].timeout # ms
  /\ LET started == req[r].registered /\ req[r].state # "NEW"
         q == [req EXCEPT ![r] = [req[r] EXCEPT
                 !.timeout = ms,
                 !.deadline = IF started THEN now + TimeoutOf(base, ms) ELSE @]]
     IN  /\ req' = q
         /\ IF started
            THEN \E t \in ResetTimeout(q, base) : base' = [base EXCEPT !.timer = t]
            ELSE UNCHANGED base
  /\ UNCHANGED <<net, link, stack, ret, now>>

\* radio_base_set_default_timeout, through RadioClient or RadioConfig
SetDefaultTimeout(ms) ==
  /\ "timeout" \in UserCalls /\ UserTurn
  /\ base.alive /\ base.timeout # ms
  /\ LET affected == {r \in base.active : req[r].timeout = 0}
         q == [r \in Requests |->
                 IF r \in affected
                 THEN [req[r] EXCEPT !.deadline = @ + (ms - base.timeout)]
                 ELSE req[r]]
         b == [base EXCEPT !.timeout = ms]
     IN  /\ req' = q
         /\ IF affected # {}
            THEN \E t \in ResetTimeout(q, b) : base' = [b EXCEPT !.timer = t]
            ELSE base' = b
  /\ UNCHANGED <<net, link, stack, ret, now>>
=============================================================================
