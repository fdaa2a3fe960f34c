------------------------------ MODULE RadioBase -------------------------------
(***************************************************************************)
(* radio_base.c: the queue of requests, the transactions made of them, the *)
(* blocking request, the group that owns the object, and the timer.        *)
(*                                                                         *)
(* An operator with parameters q and b computes the new value of `req' and *)
(* `base' that the C procedure of its name leaves when called with them.   *)
(***************************************************************************)
EXTENDS RadioState

-----------------------------------------------------------------------------
(***************************************************************************)
(* The queue: a list linked through req->queue_next.                       *)
(***************************************************************************)
QueueReq(q, b, r) ==
  [x \in Requests |->
     [q[x] EXCEPT !.state = IF x = r THEN "QUEUED" ELSE @,
                  !.next = IF x = b.last THEN r ELSE @]]

QueueBase(b, r) ==
  [b EXCEPT !.first = IF b.last = None THEN r ELSE @, !.last = r]

UnlinkReq(q, r, prev) ==
  [x \in Requests |->
     [q[x] EXCEPT !.next = CASE x = r -> None
                             [] x = prev /\ x # r -> q[r].next
                             [] OTHER -> @]]

\* Mutant: the head of the queue is left alone.
UnlinkBaseKeepsFirst(q, b, r, prev) ==
  [b EXCEPT !.last = IF q[r].next = None THEN prev ELSE @]

\* Mutant: the tail of the queue is left alone.
UnlinkBaseKeepsLast(q, b, r, prev) ==
  [b EXCEPT !.first = IF prev = None THEN q[r].next ELSE @]

UnlinkBase(q, b, r, prev) ==
  [b EXCEPT !.first = IF prev = None THEN q[r].next ELSE @,
            !.last = IF q[r].next = None THEN prev ELSE @]

\* The request a walk along the queue meets after n steps, None at its end.
Walk(q, b) ==
  LET met[n \in 0 .. Cardinality(Requests)] ==
        IF n = 0 THEN b.first
        ELSE IF met[n - 1] \in Requests THEN q[met[n - 1]].next ELSE None
  IN  met

InQueue(q, b, r) == \E n \in DOMAIN Walk(q, b) : Walk(q, b)[n] = r

\* What precedes r the first time the walk meets it.
Before(q, b, r) ==
  LET met == Walk(q, b)
      n == CHOOSE i \in DOMAIN met :
             met[i] = r /\ \A j \in DOMAIN met : j < i => met[j] # r
  IN  IF n # 0 /\ met[n - 1] \in Requests THEN met[n - 1] ELSE None

-----------------------------------------------------------------------------
(***************************************************************************)
(* Leaving the tables.                                                     *)
(***************************************************************************)
CancelReq(q, r) == [q EXCEPT ![r] = [@ EXCEPT !.scheduled = 0, !.tx = 0]]

\* Mutant: the binder transaction is forgotten, not cancelled.
CancelNetNothing(q, r) == net

CancelNet(q, r) ==
  [net EXCEPT !.outstanding = @ \ {<<r, q[r].tx>>}]

Dequeues(q, b, r) == q[r].state = "QUEUED" /\ InQueue(q, b, r)

DeactivateReq(q, b, r) ==
  IF Dequeues(q, b, r) THEN UnlinkReq(q, r, Before(q, b, r)) ELSE q

\* Mutant: block_req stays.
DeactivateBaseKeepsBlock(q, b, r) ==
  LET u == IF Dequeues(q, b, r) THEN UnlinkBase(q, b, r, Before(q, b, r)) ELSE b
  IN  [u EXCEPT !.pending = @ \ {r}, !.active = @ \ {r}]

\* Mutant: the request stays in the table of active requests.
DeactivateBaseKeepsActive(q, b, r) ==
  LET u == IF Dequeues(q, b, r) THEN UnlinkBase(q, b, r, Before(q, b, r)) ELSE b
  IN  [u EXCEPT !.pending = @ \ {r}, !.block = IF @ = r THEN None ELSE @]

DeactivateBase(q, b, r) ==
  LET u == IF Dequeues(q, b, r) THEN UnlinkBase(q, b, r, Before(q, b, r)) ELSE b
  IN  [u EXCEPT !.pending = @ \ {r}, !.active = @ \ {r},
                !.block = IF @ = r THEN None ELSE @]

-----------------------------------------------------------------------------
(***************************************************************************)
(* Ownership: what may be sent, and which group becomes the owner.         *)
(***************************************************************************)
\* Mutant: requests without a group do not count.
CanSetOwnerOverUngrouped(q, b, g) ==
  \A r \in b.pending : q[r].group \in {g, None}

CanSetOwner(q, b, g) == \A r \in b.pending : q[r].group = g

MovesOwner(q, b) ==
  b.owner = None /\ b.waiting # <<>> /\ CanSetOwner(q, b, Head(b.waiting))

MoveOwnerQueue(q, b) ==
  IF MovesOwner(q, b)
  THEN [b EXCEPT !.owner = Head(b.waiting), !.waiting = Tail(b.waiting)]
  ELSE b

\* Mutant: a request without a group ignores the owner.
OwnerAllowsUngrouped(q, b, r) ==
  IF q[r].group = None THEN b.waiting = <<>>
  ELSE \/ q[r].group = b.owner
       \/ /\ b.owner = None
          /\ \/ b.waiting = <<>>
             \/ /\ b.waiting # <<>> /\ Head(b.waiting) = q[r].group
                /\ CanSetOwner(q, b, q[r].group)

\* can_submit_request, when no request blocks the others.
OwnerAllows(q, b, r) ==
  IF q[r].group = None THEN b.owner = None /\ b.waiting = <<>>
  ELSE \/ q[r].group = b.owner
       \/ /\ b.owner = None
          /\ \/ b.waiting = <<>>
             \/ /\ b.waiting # <<>> /\ Head(b.waiting) = q[r].group
                /\ CanSetOwner(q, b, q[r].group)

\* Mutant: block_req is not looked at.
CanSubmitRequestUnblocked(q, b, r) == OwnerAllows(q, b, r)

CanSubmitRequest(q, b, r) ==
  IF b.block # None THEN b.block = r ELSE OwnerAllows(q, b, r)

-----------------------------------------------------------------------------
(***************************************************************************)
(* The timer.                                                              *)
(***************************************************************************)
TimeoutOf(b, own) == IF own # 0 THEN own ELSE b.timeout

\* Mutant: scheduled retries do not count.
WakeupsDeadlines(q, b) == {q[r].deadline : r \in b.active}

\* Mutant: deadlines do not count.
WakeupsScheduled(q, b) ==
  {q[r].scheduled : r \in {x \in b.active :
                       q[x].scheduled # 0 /\ CanSubmitRequest(q, b, x)}}

Wakeups(q, b) ==
  {q[r].deadline : r \in b.active} \cup
  {q[r].scheduled : r \in {x \in b.active :
                       q[x].scheduled # 0 /\ CanSubmitRequest(q, b, x)}}

\* Mutant: a timer that is set already stays as it is.
ResetTimeoutOnce(q, b) ==
  IF Wakeups(q, b) = {} THEN {0}
  ELSE IF b.timer # 0 THEN {b.timer}
  ELSE {w \in Wakeups(q, b) : \A v \in Wakeups(q, b) : w <= v}

\* Mutant: the timer runs only while a request waits for its answer.
ResetTimeoutPending(q, b) ==
  IF b.pending = {} THEN {0}
  ELSE {w \in Wakeups(q, b) : \A v \in Wakeups(q, b) : w <= v}

\* radio_base_reset_timeout: the values it may leave in the timer
ResetTimeout(q, b) ==
  IF Wakeups(q, b) = {} THEN {0}
  ELSE {w \in Wakeups(q, b) : \A v \in Wakeups(q, b) : w <= v}

-----------------------------------------------------------------------------
(***************************************************************************)
(* Failing and dropping a request.                                         *)
(***************************************************************************)
\* Mutant: the callback is not forgotten when it runs.
CompleteReqAgain(q, r) ==
  [q EXCEPT ![r] = [q[r] EXCEPT !.calls = IF q[r].complete THEN @ + 1 ELSE @]]

CompleteReq(q, r) ==
  [q EXCEPT ![r] = [q[r] EXCEPT !.complete = FALSE,
                                !.calls = IF q[r].complete THEN @ + 1 ELSE @]]

CompleteCalls(q, r) == IF q[r].complete THEN Callback(r) ELSE <<>>

\* Mutant: the callback of a failed request does not run.
FailReqSilent(q, r) == [q EXCEPT ![r].state = "FAILED"]

FailReq(q, r) == CompleteReq([q EXCEPT ![r].state = "FAILED"], r)

\* Mutant: the next request of the queue is dropped.
FailCallsDropsNext(q, r) ==
  CompleteCalls(q, r) \o <<Call("drop", q[r].next)>>

\* The completion callback, then radio_base_drop_req.
FailCalls(q, r) == CompleteCalls(q, r) \o <<Call("drop", r)>>

Drop ==
  /\ Running("drop") /\ Clean
  /\ LET r == Top.r
         q == CancelReq(req, r)
     IN  /\ req' = DeactivateReq(q, base, r)
         /\ base' = DeactivateBase(q, base, r)
         /\ net' = CancelNet(req, r)
         /\ Become(<<Call("start", None), Call("dropped", r)>>)
  /\ UNCHANGED <<link, ret, now>>

Dropped ==
  /\ Running("dropped") /\ Clean
  /\ \E t \in ResetTimeout(req, base) : base' = [base EXCEPT !.timer = t]
  /\ req' = [req EXCEPT ![Top.r].state = IF @ \in Live THEN "CANCELLED" ELSE @]
  /\ Become(<<>>)
  /\ UNCHANGED <<net, link, ret, now>>

-----------------------------------------------------------------------------
(***************************************************************************)
(* radio_base_submit_queued_requests.  A "scan" frame has req, prev and    *)
(* next in r, prev and next, and whether submitted > 0 in some.            *)
(***************************************************************************)
ScanStart ==
  /\ Running("start") /\ Clean
  /\ IF link.connected
     THEN /\ Become(<<Call("scan", base.first)>>)
          /\ UNCHANGED ret
     ELSE /\ Become(<<>>)
          /\ ret' = FALSE
  /\ UNCHANGED <<req, base, net, link, now>>

Due(r) == req[r].scheduled = 0 \/ now >= req[r].scheduled

\* The scan looks at r, which is still there.
Scanning(r) ==
  /\ Running("scan") /\ Clean
  /\ r = Top.r /\ r # None /\ ~req[r].freed

ScanSkip ==
  /\ \E r \in Requests :
       /\ Scanning(r)
       /\ ~(CanSubmitRequest(req, base, r) /\ Due(r))
       /\ Become(<<[Top EXCEPT !.r = req[r].next, !.prev = r]>>)
  /\ UNCHANGED <<req, base, net, link, ret, now>>

\* radio_base_submit_transaction up to send_request: a request sent before
\* gets another serial.
NewSerialReq(q, r) ==
  [q EXCEPT ![r] = [q[r] EXCEPT
     !.sends = @ + 1,
     !.serial2 = IF @ # 0 THEN q[r].sends + 1
                 ELSE IF q[r].registered THEN 1 ELSE 0]]

NewSerialBase(q, b, r) ==
  IF q[r].serial2 # 0
  THEN [b EXCEPT !.active = @ \cup {r}, !.pending = @ \ {r}]
  ELSE b

\* send_request succeeds: the request is PENDING and its group may become
\* the owner.
ScanSend ==
  /\ \E r \in Requests :
       /\ Scanning(r)
       /\ CanSubmitRequest(req, base, r) /\ Due(r)
       /\ LET q1 == NewSerialReq(UnlinkReq(req, r, Top.prev), r)
              q2 == [q1 EXCEPT ![r] = [@ EXCEPT !.scheduled = 0,
                                                !.state = "PENDING",
                                                !.tx = q1[r].sends]]
              b1 == NewSerialBase(req, UnlinkBase(req, base, r, Top.prev), r)
              b2 == [b1 EXCEPT !.pending = @ \cup {r}]
          IN  /\ req' = q2
              /\ base' = MoveOwnerQueue(q2, b2)
              /\ net' = [outstanding |-> net.outstanding \cup {<<r, q2[r].tx>>},
                         answers |-> net.answers \cup {<<r, q2[r].serial2>>}]
              /\ Become((IF MovesOwner(q2, b2) THEN Callback(None) ELSE <<>>)
                        \o <<[Top EXCEPT !.op = "sent", !.next = req[r].next,
                                         !.some = TRUE]>>)
  /\ UNCHANGED <<link, ret, now>>

\* send_request fails.
ScanFail ==
  /\ "send" \in Faults
  /\ \E r \in Requests :
       /\ Scanning(r)
       /\ CanSubmitRequest(req, base, r) /\ Due(r)
       /\ LET q == NewSerialReq(UnlinkReq(req, r, Top.prev), r)
          IN  /\ req' = FailReq(q, r)
              /\ Become(FailCalls(q, r)
                        \o <<[Top EXCEPT !.r = req[r].next]>>)
       /\ base' = NewSerialBase(req, UnlinkBase(req, base, r, Top.prev), r)
  /\ UNCHANGED <<net, link, ret, now>>

(***************************************************************************)
(* send_request tells the request observers before anything else.  Those   *)
(* that only watch are part of ScanSend and ScanFail; those that call the  *)
(* library do it here, when the request has left the queue and is neither  *)
(* PENDING nor recorded in block_req.                                      *)
(***************************************************************************)
ScanTell ==
  /\ Observed /\ Depth < MaxDepth
  /\ \E r \in Requests :
       /\ Scanning(r)
       /\ CanSubmitRequest(req, base, r) /\ Due(r)
       /\ LET q == UnlinkReq(req, r, Top.prev)
          IN  req' = [q EXCEPT ![r] = [@ EXCEPT
                        !.serial2 = NewSerialReq(q, r)[r].serial2]]
       /\ base' = NewSerialBase(req, UnlinkBase(req, base, r, Top.prev), r)
       /\ Become(Callback(None)
                 \o <<[Top EXCEPT !.op = "send", !.next = req[r].next]>>)
  /\ UNCHANGED <<net, link, ret, now>>

\* Then the binder driver takes the request, whatever became of it.
Accept ==
  /\ Running("send") /\ Clean
  /\ LET r == Top.r
         n == req[r].sends + 1
         q == [req EXCEPT ![r] = [@ EXCEPT !.sends = n, !.tx = n,
                                           !.scheduled = 0,
                                           !.state = "PENDING"]]
         b == [base EXCEPT !.pending = @ \cup {r}]
     IN  /\ req' = q
         /\ base' = MoveOwnerQueue(q, b)
         /\ net' = [outstanding |-> net.outstanding \cup {<<r, n>>},
                    answers |-> net.answers \cup {<<r, req[r].serial2>>}]
         /\ Become((IF MovesOwner(q, b) THEN Callback(None) ELSE <<>>)
                   \o <<[Top EXCEPT !.op = "sent", !.some = TRUE]>>)
  /\ UNCHANGED <<link, ret, now>>

\* Or it does not, and the call returns, which held a reference.
Refuse ==
  /\ "send" \in Faults
  /\ Running("send") /\ Clean
  /\ Become(<<[Top EXCEPT !.op = "refused"]>>)
  /\ UNCHANGED <<req, base, net, link, ret, now>>

Refused ==
  /\ Running("refused") /\ Clean /\ ~req[Top.r].freed
  /\ LET q == [req EXCEPT ![Top.r].sends = @ + 1]
     IN  /\ req' = FailReq(q, Top.r)
         /\ Become(FailCalls(q, Top.r)
                   \o <<[Top EXCEPT !.op = "scan", !.r = Top.next]>>)
  /\ UNCHANGED <<base, net, link, ret, now>>

\* After the owner signal: a blocking request ends the scan.
ScanSent ==
  /\ Running("sent") /\ Clean /\ ~req[Top.r].freed
  /\ IF Top.r \in Blocking
     THEN /\ base' = [base EXCEPT !.block = IF @ = None THEN Top.r ELSE @]
          /\ Become(<<[Top EXCEPT !.op = "scan", !.r = None]>>)
     ELSE /\ Become(<<[Top EXCEPT !.op = "scan", !.r = Top.next]>>)
          /\ UNCHANGED base
  /\ UNCHANGED <<req, net, link, ret, now>>

ScanEnd ==
  /\ Running("scan") /\ Clean /\ Top.r = None
  /\ ret' = Top.some
  /\ Become(<<>>)
  /\ UNCHANGED <<req, base, net, link, now>>

-----------------------------------------------------------------------------
(***************************************************************************)
(* radio_base_submit_request, radio_base_retry_request and what follows    *)
(* their scan; the timer reset that ends most calls.                       *)
(***************************************************************************)
\* Mutant: a dead object takes requests.
SubmitToDead(r) ==
  /\ UserTurn
  /\ req[r].held /\ req[r].registered
  /\ req[r].state = "NEW"
  /\ req' = [QueueReq(req, base, r) EXCEPT
               ![r] = [@ EXCEPT
                 !.complete = FALSE,
                 !.deadline = now + TimeoutOf(base, req[r].timeout)]]
  /\ base' = [QueueBase(base, r) EXCEPT !.active = @ \cup {r}]
  /\ Enter(<<Call("start", None),
             [Call("submitted", r) EXCEPT !.some = req[r].complete]>>)
  /\ UNCHANGED <<net, link, ret, now>>

\* The callback is withheld during the scan: some keeps it.
Submit(r) ==
  /\ UserTurn
  /\ req[r].held /\ req[r].registered
  /\ req[r].state = "NEW" /\ ~link.dead
  /\ req' = [QueueReq(req, base, r) EXCEPT
               ![r] = [@ EXCEPT
                 !.complete = FALSE,
                 !.deadline = now + TimeoutOf(base, req[r].timeout)]]
  /\ base' = [QueueBase(base, r) EXCEPT !.active = @ \cup {r}]
  /\ Enter(<<Call("start", None),
             [Call("submitted", r) EXCEPT !.some = req[r].complete]>>)
  /\ UNCHANGED <<net, link, ret, now>>

Submitted ==
  /\ Running("submitted") /\ Clean
  /\ IF ret
     THEN \E t \in ResetTimeout(req, base) : base' = [base EXCEPT !.timer = t]
     ELSE UNCHANGED base
  /\ req' = IF req[Top.r].state \in Live
            THEN [req EXCEPT ![Top.r] = [@ EXCEPT !.complete = Top.some,
                                                  !.submitted = TRUE]]
            ELSE req
  /\ Become(<<>>)
  /\ UNCHANGED <<net, link, ret, now>>

CanRetry(r) ==
  /\ MaxRetries[r] < 0 \/ MaxRetries[r] > req[r].retries
  /\ req[r].retries < RetryBound

Retry(r) ==
  /\ "retry" \in UserCalls /\ UserTurn
  /\ req[r].held /\ req[r].registered
  /\ req[r].state = "PENDING" /\ CanRetry(r)
  /\ LET q == CancelReq(req, r)
     IN  req' = [QueueReq(q, base, r) EXCEPT ![r].retries = @ + 1]
  /\ base' = [QueueBase(base, r) EXCEPT !.pending = @ \ {r}]
  /\ net' = CancelNet(req, r)
  /\ Enter(<<Call("start", None), Call("retried", r)>>)
  /\ UNCHANGED <<link, ret, now>>

\* radio_base_reset_timeout at the end of a call.
Reset ==
  /\ ~Idle /\ Top.op \in {"retried", "connected", "unblocked", "reset"} /\ Clean
  /\ IF \/ Top.op \in {"retried", "connected"} /\ ret
        \/ Top.op = "unblocked" /\ (ret \/ base.owner = None)
        \/ Top.op = "reset"
     THEN \E t \in ResetTimeout(req, base) : base' = [base EXCEPT !.timer = t]
     ELSE UNCHANGED base
  /\ Become(<<>>)
  /\ UNCHANGED <<req, net, link, ret, now>>

-----------------------------------------------------------------------------
(***************************************************************************)
(* radio_base_handle_resp.                                                 *)
(***************************************************************************)
\* The serial under which the request is in the tables.
Key(r) == IF req[r].serial2 # 0 THEN req[r].serial2
          ELSE IF req[r].registered THEN 1 ELSE 0

Found(m) == m[1] \in base.active /\ Key(m[1]) = m[2]

\* The answer matches nothing: most likely the request was cancelled.
RespondUnknown ==
  /\ EventTurn /\ base.alive
  /\ \E m \in net.answers :
       /\ ~Found(m)
       /\ net' = [net EXCEPT !.answers = @ \ {m}]
  /\ UNCHANGED <<req, base, link, stack, ret, now>>

\* The retry function wants another attempt.
RespondRetry ==
  /\ EventTurn /\ base.alive
  /\ \E m \in net.answers :
       LET r == m[1]
           q == CancelReq(req, r)
       IN  /\ Found(m) /\ CanRetry(r)
           /\ req' = [QueueReq(q, base, r) EXCEPT
                        ![r] = [@ EXCEPT !.retries = q[r].retries + 1,
                                         !.scheduled = now + RetryDelay]]
           /\ base' = [QueueBase(base, r) EXCEPT !.pending = @ \ {r}]
           /\ net' = [CancelNet(req, r) EXCEPT !.answers = @ \ {m}]
  /\ Enter(<<Call("start", None), Call("reset", None)>>)
  /\ UNCHANGED <<link, ret, now>>

\* The answer completes the request.
RespondDone ==
  /\ EventTurn /\ base.alive
  /\ \E m \in net.answers :
       LET r == m[1]
           q == [CancelReq(req, r) EXCEPT ![r].state = "DONE"]
           b == DeactivateBase(q, base, r)
       IN  /\ Found(m)
           /\ req' = q
           /\ base' = MoveOwnerQueue(q, b)
           /\ net' = [CancelNet(req, r) EXCEPT !.answers = @ \ {m}]
           /\ Enter((IF MovesOwner(q, b) THEN Callback(None) ELSE <<>>)
                    \o <<Call("done", r), Call("start", None),
                         Call("reset", None)>>)
  /\ UNCHANGED <<link, ret, now>>

Done ==
  /\ Running("done") /\ Clean
  /\ req' = CompleteReq(req, Top.r)
  /\ Become(CompleteCalls(req, Top.r))
  /\ UNCHANGED <<base, net, link, ret, now>>

\* radio_base_request_sent: the binder transaction ends.
Sent ==
  /\ EventTurn /\ base.alive
  /\ \E t \in net.outstanding :
       LET q == [req EXCEPT ![t[1]].tx = 0]
       IN  \/ /\ req' = q
              /\ net' = [net EXCEPT !.outstanding = @ \ {t}]
              /\ UNCHANGED stack
           \/ /\ "tx" \in Faults
              /\ req' = FailReq(q, t[1])
              /\ net' = [outstanding |-> net.outstanding \ {t},
                         answers |-> net.answers \ {t}]
              /\ Enter(FailCalls(q, t[1]))
  /\ UNCHANGED <<base, link, ret, now>>

-----------------------------------------------------------------------------
(***************************************************************************)
(* radio_base_timeout: expired requests are stolen from the table, all of  *)
(* them deactivated and then failed one by one.                            *)
(***************************************************************************)
Timeout ==
  /\ EventTurn /\ base.alive
  /\ base.timer # 0 /\ now >= base.timer
  /\ LET expired == {r \in base.active : req[r].deadline <= now}
     IN  /\ base' = [base EXCEPT !.timer = 0, !.active = @ \ expired]
         /\ Enter(<<ListCall("expire", expired), Call("start", None),
                    Call("reset", None)>>)
  /\ UNCHANGED <<req, net, link, ret, now>>

Expire ==
  /\ Running("expire") /\ Clean
  /\ \/ \E r \in Top.todo :
           /\ req' = DeactivateReq(req, base, r)
           /\ base' = DeactivateBase(req, base, r)
           /\ Become(<<[Top EXCEPT !.todo = @ \ {r}]>>)
     \/ /\ Top.todo = {}
        /\ Become(<<ListCall("fail", Top.refs)>>)
        /\ UNCHANGED <<req, base>>
  /\ UNCHANGED <<net, link, ret, now>>

FailNext ==
  /\ Running("fail") /\ Clean
  /\ \/ \E r \in Top.todo :
           /\ req' = FailReq(req, r)
           /\ Become(FailCalls(req, r) \o <<ListCall("fail", Top.todo \ {r})>>)
     \/ /\ Top.todo = {}
        /\ Become(<<>>)
        /\ UNCHANGED req
  /\ UNCHANGED <<base, net, link, ret, now>>

\* radio_base_handle_death: the queue is emptied and all active requests
\* are stolen and, in state QUEUED, failed one by one.
HandleDeathReq ==
  [r \in Requests |->
     IF r \in base.active THEN [req[r] EXCEPT !.state = "QUEUED", !.next = None]
     ELSE req[r]]

HandleDeathBase ==
  [base EXCEPT !.first = None, !.last = None, !.pending = {}, !.active = {}]

\* The time that passes between two events of the main loop.
Tick ==
  /\ EventTurn /\ now < MaxTime
  /\ now' = now + 1
  /\ UNCHANGED <<req, base, net, link, stack, ret>>

-----------------------------------------------------------------------------
(***************************************************************************)
(* radio_base_block and radio_base_unblock.                                *)
(***************************************************************************)
Block(g) ==
  /\ UserTurn /\ g \in base.groups
  /\ base.owner # g
  /\ IF base.owner = None /\ base.waiting = <<>> /\ CanSetOwner(req, base, g)
     THEN /\ base' = [base EXCEPT !.owner = g]
          /\ Enter(Callback(None))
     ELSE /\ \A i \in DOMAIN base.waiting : base.waiting[i] # g
          /\ base' = [base EXCEPT !.waiting = Append(@, g)]
          /\ UNCHANGED stack
  /\ UNCHANGED <<req, net, link, ret, now>>

\* owner_queue without the group, which is in it at most once.
WithdrawOwner(w, g) ==
  IF \E i \in DOMAIN w : w[i] = g
  THEN LET n == CHOOSE i \in DOMAIN w : w[i] = g
       IN  SubSeq(w, 1, n - 1) \o SubSeq(w, n + 1, Len(w))
  ELSE w

\* Mutant: a group that gives up keeps its place among the waiting ones.
UnblockBaseKeepsWaiting(g) ==
  IF base.owner # g THEN base
  ELSE IF base.waiting # <<>>
  THEN [base EXCEPT !.owner = Head(base.waiting), !.waiting = Tail(@)]
  ELSE [base EXCEPT !.owner = None]

\* Mutant: the owner goes without a successor.
UnblockBaseNoSuccessor(g) ==
  IF base.owner = g THEN [base EXCEPT !.owner = None]
  ELSE [base EXCEPT !.waiting = WithdrawOwner(@, g)]

UnblockBase(g) ==
  CASE base.owner # g ->
         [base EXCEPT !.waiting = WithdrawOwner(@, g)]
    [] base.owner = g /\ base.waiting # <<>> ->
         [base EXCEPT !.owner = Head(base.waiting), !.waiting = Tail(@)]
    [] OTHER -> [base EXCEPT !.owner = None]

UnblockCalls(g) ==
  IF base.owner = g
  THEN Callback(None) \o <<Call("start", None), Call("unblocked", None)>>
  ELSE <<>>

\* radio_base_object_finalize: every registered request is detached and the
\* tables drop their references.
FinalizeReq ==
  [r \in Requests |->
     IF req[r].registered
     THEN [req[r] EXCEPT !.scheduled = 0, !.tx = 0, !.registered = FALSE]
     ELSE req[r]]

FinalizeNet ==
  [net EXCEPT !.outstanding =
     {t \in @ : ~(req[t[1]].registered /\ req[t[1]].tx = t[2])}]

\* Mutant: the table of active requests keeps its references.
FinalizeBaseKeepsActive ==
  [base EXCEPT !.pending = {}, !.timer = 0, !.alive = FALSE]

FinalizeBase ==
  [base EXCEPT !.active = {}, !.pending = {}, !.timer = 0, !.alive = FALSE]
=============================================================================
