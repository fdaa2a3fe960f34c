----------------------------- MODULE RadioClient ------------------------------
(***************************************************************************)
(* radio_client.c: a RadioBase driven by the events of a RadioInstance,    *)
(* used by any number of callers.  This module composes the components; a  *)
(* RadioConfig differs from a RadioClient by how it dies, so that Faults   *)
(* tell whether the object is one or the other.                            *)
(***************************************************************************)
EXTENDS RadioConfig

\* radio_client_handle_death: the requests fail, then the users are told.
Death ==
  /\ "death" \in Faults /\ EventTurn
  /\ base.alive /\ ~link.dead
  /\ link' = [connected |-> FALSE, dead |-> TRUE]
  /\ req' = HandleDeathReq
  /\ base' = HandleDeathBase
  /\ net' = [net EXCEPT !.answers = {}]
  /\ Enter(<<ListCall("fail", base.active)>> \o Callback(None))
  /\ UNCHANGED <<ret, now>>

\* radio_client_handle_connected: the users are told, then requests are sent.
Connected ==
  /\ EventTurn /\ base.alive
  /\ ~link.connected /\ ~link.dead
  /\ link' = [link EXCEPT !.connected = TRUE]
  /\ Enter(Callback(None) \o <<Call("start", None), Call("connected", None)>>)
  /\ UNCHANGED <<req, base, net, ret, now>>

\* The last reference to the client goes; groups hold one each.
Finalize ==
  /\ "finalize" \in Faults /\ EventTurn
  /\ base.alive /\ base.groups = {}
  /\ req' = FinalizeReq
  /\ base' = FinalizeBase
  /\ net' = FinalizeNet
  /\ UNCHANGED <<link, stack, ret, now>>

\* A callback returns.
Return ==
  /\ Running("callback") /\ Clean
  /\ Become(<<>>)
  /\ UNCHANGED <<req, base, net, link, ret, now>>

-----------------------------------------------------------------------------
\* Events of the main loop.
Event ==
  \/ RespondUnknown \/ RespondRetry \/ RespondDone \/ Sent
  \/ Timeout \/ Tick \/ Death \/ ConfigDeath \/ Connected

\* What the users do.
User ==
  \/ \E r \in Requests : \/ Submit(r) \/ Retry(r) \/ Cancel(r) \/ Release(r)
                         \/ \E ms \in Timeouts : SetTimeout(r, ms)
  \/ \E ms \in Timeouts : SetDefaultTimeout(ms)
  \/ \E g \in Groups : \/ Block(g) \/ Unblock(g) \/ FreeGroup(g)
                       \/ CancelGroup(g)
  \/ Finalize

\* What the calls in progress do.
Continue ==
  \/ ScanStart \/ ScanSkip \/ ScanSend \/ ScanFail \/ ScanSent \/ ScanEnd
  \/ ScanTell \/ Accept \/ Refuse \/ Refused
  \/ Submitted \/ Reset \/ Done \/ Drop \/ Dropped \/ Unregister \/ Finish
  \/ Expire \/ FailNext \/ HandleDeath \/ CancelNext \/ Unlink \/ Return
  \/ \E r \in Requests : Free(r)

Next == Event \/ User \/ Continue

Spec == Init /\ [][Next]_vars

-----------------------------------------------------------------------------
(***************************************************************************)
(* Properties of completion.                                               *)
(***************************************************************************)

\* The completion callback of a request runs at most once, whatever fails,
\* retries, expires or is cancelled, and however callbacks nest.
CompleteOnce == \A r \in Requests : req[r].calls <= 1

\* Why it holds: a callback that is still due has not run, and the calls that
\* withhold the callback of a request which is being submitted are about
\* different requests, each waiting with no callback of its own.
CallbackWithheld ==
  \A i \in DOMAIN stack :
    stack[i].op = "submitted" =>
      /\ ~req[stack[i].r].complete
      /\ req[stack[i].r].state # "NEW"
      /\ stack[i].some => req[stack[i].r].calls = 0
WithheldOnce ==
  \A i, j \in DOMAIN stack :
    stack[i].op = "submitted" /\ stack[j].op = "submitted"
      /\ stack[i].r = stack[j].r => i = j
CallbackUnused == \A r \in Requests : req[r].complete => req[r].calls = 0
CompletionInv ==
  /\ CallbackUnused
  /\ CallbackWithheld
  /\ WithheldOnce
  /\ CompleteOnce

\* The calls which submit a request, and the one which frees it.
Submitting(r) ==
  \E i \in DOMAIN stack : stack[i].op = "submitted" /\ stack[i].r = r
Freeing(r) == \E i \in DOMAIN stack : stack[i].op = "finish" /\ stack[i].r = r

\* A cancelled request which has no callback, and no call in progress is going
\* to give it one back.
Silent(r) ==
  /\ req[r].dropped /\ ~req[r].complete
  /\ \A i \in DOMAIN stack :
       stack[i].op = "submitted" /\ stack[i].r = r => ~stack[i].some

\* A request which is cancelled, but not from inside the call that submits
\* it, is silent at once and for ever: no answer, failure, retry or death runs
\* its callback, also when it is submitted or sent once more.
SilentWhenCancelled ==
  [][\A r \in Requests :
       /\ ~req[r].dropped /\ req'[r].dropped /\ ~Submitting(r) /\ ~Freeing(r)'
            => Silent(r)'
       /\ Silent(r) => Silent(r)' /\ req'[r].calls = req[r].calls]_vars

\* A request that has ended (state FAILED, CANCELLED or DONE) never changes
\* its state again; in particular it is not sent once more.
EndedForGood ==
  [][\A r \in Requests :
       req[r].state \in Terminal => req'[r].state = req[r].state]_vars

\* Between events no submitted request has ended, or been freed, without its
\* callback having run or having been withdrawn by a cancellation.
NoLostCompletion ==
  EventTurn => \A r \in Requests :
    req[r].submitted /\ (req[r].state \in Terminal \/ req[r].freed)
      => ~req[r].complete /\ (req[r].calls = 1 \/ req[r].dropped)

\* Once the service is dead and the users were told, no request is left in
\* the tables to wait for an answer, also when handlers tried to submit, retry
\* or cancel requests meanwhile.
DeadKeepsNothing ==
  EventTurn /\ link.dead =>
    base.active = {} /\ base.pending = {} /\ base.first = None

\* Once the client is finalized, a request nobody holds is freed.
FinalizeFrees ==
  EventTurn /\ ~base.alive =>
    \A r \in Requests : req[r].held \/ req[r].freed

\* Each request goes through the lifecycle of RequestLifecycle.
LC == INSTANCE RequestLifecycle WITH
        state <- [r \in Requests |-> req[r].state],
        sends <- [r \in Requests |-> req[r].sends],
        retries <- [r \in Requests |-> req[r].retries],
        calls <- [r \in Requests |-> req[r].calls]
Lifecycle == LC!Spec

-----------------------------------------------------------------------------
(***************************************************************************)
(* Properties of the tables.                                               *)
(***************************************************************************)
Queue == {r \in Requests : InQueue(req, base, r)}

\* Between events the tables, the queue and the states tell the same story,
\* so a queued request is referenced and an ended one is nowhere.
TablesAgree ==
  EventTurn /\ base.alive =>
    /\ base.active = {r \in Requests : req[r].state \in {"QUEUED", "PENDING"}}
    /\ base.pending = {r \in Requests : req[r].state = "PENDING"}
    /\ Queue = {r \in Requests : req[r].state = "QUEUED"}
    /\ base.last = IF Queue = {} THEN None
                   ELSE CHOOSE r \in Queue : req[r].next = None

\* The request that blocks all others can still end: it is queued for a
\* retry or waits for its answer.
BlockerActive ==
  EventTurn /\ base.alive /\ base.block # None =>
    base.block \in base.active /\ req[base.block].state \in {"QUEUED", "PENDING"}

\* Every transaction in flight can be cancelled through its request.
NoOrphanTransaction ==
  \A t \in net.outstanding : req[t[1]].tx = t[2]

\* A request is sent once and once more for each retry.
SendsMatchRetries == \A r \in Requests : req[r].sends <= req[r].retries + 1

\* Between events, the timer will fire by the deadline of every request that
\* waits for an answer.
TimerCoversPending ==
  EventTurn /\ base.alive =>
    \A r \in base.pending : base.timer # 0 /\ base.timer <= req[r].deadline

\* Between events no request that may be sent is left in the queue, unless
\* it is scheduled and the timer will fire by then.
QueueMoves ==
  EventTurn /\ base.alive /\ link.connected =>
    \A r \in Queue :
      CanSubmitRequest(req, base, r) =>
        /\ req[r].scheduled # 0
        /\ base.timer # 0 /\ base.timer <= req[r].scheduled

-----------------------------------------------------------------------------
(***************************************************************************)
(* Properties of blocking and ownership.                                   *)
(***************************************************************************)

\* While a blocking request waits for its answer, nothing else is sent.
BlockingExcludes ==
  [][\A r, x \in Requests :
       /\ r \in base.pending \cap Blocking /\ x # r
       => req'[x].sends = req[x].sends]_vars

\* While a group keeps the object, no request outside it is sent, but for the
\* one that blocks all others: the code lets it through first.
OwnerExcludes ==
  [][\A r \in Requests :
       /\ base.owner # None /\ base'.owner = base.owner
       /\ req'[r].sends # req[r].sends
       => req[r].group = base.owner \/ base.block = r]_vars

\* An object without an owner gets one only when no request outside that
\* group is pending, the one just sent included.
OwnerWaits ==
  [][base.owner = None /\ base'.owner # None
       => \A r \in base'.pending : req'[r].group = base'.owner]_vars

\* The owner and the waiting groups are distinct groups nobody has freed, and
\* a request keeps its pointer to a freed group only until the call that frees
\* the group comes to its members.
OwnersAlive ==
  /\ base.owner \in base.groups \cup {None}
  /\ \A i, j \in DOMAIN base.waiting :
       /\ base.waiting[i] \in base.groups \ {base.owner}
       /\ i # j => base.waiting[i] # base.waiting[j]
  /\ \A r \in Requests :
       \/ req[r].group \in base.groups \cup {None}
       \/ \E i \in DOMAIN stack :
            stack[i].op = "unlink" /\ stack[i].g = req[r].group

\* A group gets the object in the order it asked for it.
OwnersInTurn ==
  [][base.waiting # <<>> /\ base'.owner # base.owner
       => base'.owner = Head(base.waiting)]_vars
-----------------------------------------------------------------------------
(***************************************************************************)
(* Liveness.  The clock stops at MaxTime: a deadline it cannot reach says  *)
(* nothing.                                                                *)
(***************************************************************************)

\* Whatever is submitted ends or goes with the object: again and again every
\* request is over, be it queued, sent, blocked by another or retried before.
RequestsEnd ==
  []<>(\A r \in Requests :
         req[r].submitted /\ req[r].deadline <= MaxTime =>
           req[r].state \in Terminal \/ req[r].freed)

\* The request that blocks all others lets them go.
BlockerReleases ==
  []<>(base.block # None => req[base.block].deadline > MaxTime)
=============================================================================
