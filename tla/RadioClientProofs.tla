-------------------------- MODULE RadioClientProofs ---------------------------
(***************************************************************************)
(* Safety of RadioClient, in four parts:                                   *)
(*   - its steps keep TypeOK;                                              *)
(*   - the completion callback of a request runs at most once;             *)
(*   - groups own the client in turn, and owners and blocking requests     *)
(*     exclude the requests of others while they are pending;              *)
(*   - no completion is lost, and a cancelled request stays silent.        *)
(***************************************************************************)
EXTENDS RadioClient, CallStackProofs, FiniteSetTheorems, TLAPS

-----------------------------------------------------------------------------
(***************************************************************************)
(* Type correctness of RadioClient.  First, what each operator of          *)
(* RadioState, RadioBase, RadioRequest and RadioRequestGroup makes of      *)
(* well-typed arguments; then one lemma per action: every step of every    *)
(* component keeps TypeOK.                                                 *)
(***************************************************************************)
RequestMap == [Requests -> RequestRecord]
Frames == Seq(Frame)

-----------------------------------------------------------------------------
(***************************************************************************)
(* Calls.                                                                  *)
(***************************************************************************)

\* A call about a request is a frame.
LEMMA CallType ==
  ASSUME NEW op \in Ops, NEW r \in MaybeRequest,
         op \in RequestOps => r # None, op \notin ObservedOps
  PROVE  Call(op, r) \in Frame
BY DEF Call, Frame, MaybeRequest, MaybeGroup

\* In particular a call about a request that exists.
LEMMA RequestCallType ==
  ASSUME NEW op \in Ops \ ObservedOps, NEW r \in Requests
  PROVE  Call(op, r) \in Frame
BY CallType, ConstantsAssumption DEF MaybeRequest

\* And one about no request.
LEMMA PlainCallType ==
  ASSUME NEW op \in Ops \ RequestOps
  PROVE  Call(op, None) \in Frame
BY CallType DEF MaybeRequest, RequestOps, ObservedOps

\* A call about a set of requests is a frame.
LEMMA ListCallType ==
  ASSUME NEW op \in {"expire", "fail", "cancel"}, NEW S \in SUBSET Requests
  PROVE  ListCall(op, S) \in Frame
<1>1. op \in Ops /\ op \notin RequestOps /\ op \notin ObservedOps
  BY DEF Ops, RequestOps, ObservedOps
<1>. QED BY <1>1 DEF ListCall, Call, Frame, MaybeRequest, MaybeGroup

\* A user's callback is at most one call.
LEMMA CallbackType ==
  ASSUME NEW r \in MaybeRequest
  PROVE  Callback(r) \in Frames
<1>1. Call("callback", r) \in Frame
  BY CallType DEF Ops, RequestOps, ObservedOps
<1>. QED BY <1>1 DEF Callback, Frames

\* The calls that follow a failure.
LEMMA FailCallsType ==
  ASSUME NEW q \in RequestMap, NEW r \in Requests
  PROVE  CompleteCalls(q, r) \in Frames /\ FailCalls(q, r) \in Frames
<1>1. CompleteCalls(q, r) \in Frames
  BY CallbackType DEF CompleteCalls, Frames, MaybeRequest
<1>2. Call("drop", r) \in Frame
  BY RequestCallType DEF Ops, ObservedOps
<1>. QED BY <1>1, <1>2 DEF FailCalls, Frames

\* The calls of radio_request_object_cancel.
LEMMA ObjectCancelCallsType ==
  ASSUME NEW q \in RequestMap, NEW r \in Requests
  PROVE  ObjectCancelCalls(q, r) \in Frames
<1>1. Call("drop", r) \in Frame /\ Call("unregister", r) \in Frame
  BY RequestCallType DEF Ops, ObservedOps
<1>. QED BY <1>1 DEF ObjectCancelCalls, Frames

\* The calls of radio_base_unblock.
LEMMA UnblockCallsType ==
  ASSUME NEW g
  PROVE  UnblockCalls(g) \in Frames
<1>1. Callback(None) \in Frames
  BY CallbackType DEF MaybeRequest
<1>2. Call("start", None) \in Frame /\ Call("unblocked", None) \in Frame
  BY PlainCallType DEF Ops, RequestOps
<1>. QED BY <1>1, <1>2 DEF UnblockCalls, Frames

-----------------------------------------------------------------------------
(***************************************************************************)
(* Requests.                                                               *)
(***************************************************************************)

\* A new state.
LEMMA StateType ==
  ASSUME NEW q \in RequestMap, NEW r \in Requests, NEW s \in States
  PROVE  [q EXCEPT ![r].state = s] \in RequestMap
<1>1. [q[r] EXCEPT !.state = s] \in RequestRecord
  BY DEF RequestMap, RequestRecord
<1>. QED BY <1>1 DEF RequestMap

\* The transaction is over; the request is detached; the request is freed.
LEMMA FieldType ==
  ASSUME NEW q \in RequestMap, NEW r \in Requests
  PROVE  /\ [q EXCEPT ![r].tx = 0] \in RequestMap
         /\ [q EXCEPT ![r].freed = TRUE] \in RequestMap
         /\ [q EXCEPT ![r] = [@ EXCEPT !.registered = FALSE, !.serial2 = 0]]
              \in RequestMap
<1>1. /\ [q[r] EXCEPT !.tx = 0] \in RequestRecord
      /\ [q[r] EXCEPT !.freed = TRUE] \in RequestRecord
      /\ [q[r] EXCEPT !.registered = FALSE, !.serial2 = 0] \in RequestRecord
  BY DEF RequestMap, RequestRecord
<1>. QED BY <1>1 DEF RequestMap

\* cancel_request
LEMMA CancelReqType ==
  ASSUME NEW q \in RequestMap, NEW r \in Requests
  PROVE  CancelReq(q, r) \in RequestMap
<1>1. [q[r] EXCEPT !.scheduled = 0, !.tx = 0] \in RequestRecord
  BY DEF RequestMap, RequestRecord
<1>. QED BY <1>1 DEF CancelReq, RequestMap

\* queue_request
LEMMA QueueReqType ==
  ASSUME NEW q \in RequestMap, NEW b, NEW r \in Requests
  PROVE  QueueReq(q, b, r) \in RequestMap
<1>1. ASSUME NEW x \in Requests
      PROVE  [q[x] EXCEPT !.state = IF x = r THEN "QUEUED" ELSE @,
                          !.next = IF x = b.last THEN r ELSE @]
               \in RequestRecord
  <2>. DEFINE state == IF x = r THEN "QUEUED" ELSE q[x].state
              next == IF x = b.last THEN r ELSE q[x].next
  <2>1. "QUEUED" \in States
    BY DEF States
  <2>2. state \in States
    BY <2>1 DEF RequestMap, RequestRecord
  <2>3. next \in MaybeRequest
    BY DEF RequestMap, RequestRecord, MaybeRequest
  <2>. HIDE DEF state, next
  <2>4. [q[x] EXCEPT !.state = state, !.next = next] \in RequestRecord
    BY <2>2, <2>3 DEF RequestMap, RequestRecord
  <2>. QED BY <2>4 DEF state, next
<1>. QED BY <1>1 DEF QueueReq, RequestMap

\* unlink_request
LEMMA UnlinkReqType ==
  ASSUME NEW q \in RequestMap, NEW r \in Requests, NEW prev
  PROVE  UnlinkReq(q, r, prev) \in RequestMap
<1>1. ASSUME NEW x \in Requests
      PROVE  [q[x] EXCEPT !.next = CASE x = r -> None
                                     [] x = prev /\ x # r -> q[r].next
                                     [] OTHER -> @] \in RequestRecord
  <2>1. (CASE x = r -> None
           [] x = prev /\ x # r -> q[r].next
           [] OTHER -> q[x].next) \in MaybeRequest
    BY DEF RequestMap, RequestRecord, MaybeRequest
  <2>. QED BY <2>1 DEF RequestMap, RequestRecord
<1>. QED BY <1>1 DEF UnlinkReq, RequestMap

\* deactivate_request, the requests
LEMMA DeactivateReqType ==
  ASSUME NEW q \in RequestMap, NEW b, NEW r \in Requests
  PROVE  DeactivateReq(q, b, r) \in RequestMap
BY UnlinkReqType DEF DeactivateReq

\* The completion of a request.
LEMMA CompleteReqType ==
  ASSUME NEW q \in RequestMap, NEW r \in Requests
  PROVE  CompleteReq(q, r) \in RequestMap
<1>1. q[r].calls + 1 \in Nat /\ q[r].calls \in Nat
  BY DEF RequestMap, RequestRecord
<1>2. (IF q[r].complete THEN q[r].calls + 1 ELSE q[r].calls) \in Nat
  BY <1>1
<1>3. [q[r] EXCEPT !.complete = FALSE,
                   !.calls = IF q[r].complete THEN @ + 1 ELSE @]
        \in RequestRecord
  BY <1>2 DEF RequestMap, RequestRecord
<1>. QED BY <1>3 DEF CompleteReq, RequestMap

\* fail_request
LEMMA FailReqType ==
  ASSUME NEW q \in RequestMap, NEW r \in Requests
  PROVE  FailReq(q, r) \in RequestMap
<1>1. "FAILED" \in States
  BY DEF States
<1>. QED BY <1>1, StateType, CompleteReqType DEF FailReq

\* Another serial.
LEMMA SerialType ==
  ASSUME NEW q \in RequestMap, NEW r \in Requests, NEW n \in Nat
  PROVE  [q EXCEPT ![r] = [@ EXCEPT !.serial2 = n]] \in RequestMap
<1>1. [q[r] EXCEPT !.serial2 = n] \in RequestRecord
  BY DEF RequestMap, RequestRecord
<1>. QED BY <1>1 DEF RequestMap

\* A new serial for the next transmission.
LEMMA NewSerialReqType ==
  ASSUME NEW q \in RequestMap, NEW r \in Requests
  PROVE  /\ NewSerialReq(q, r) \in RequestMap
         /\ NewSerialReq(q, r)[r].sends \in Nat
<1>. DEFINE serial == IF q[r].serial2 # 0 THEN q[r].sends + 1
                      ELSE IF q[r].registered THEN 1 ELSE 0
            u == [q[r] EXCEPT !.sends = @ + 1, !.serial2 = serial]
<1>1. q[r].sends + 1 \in Nat
  BY DEF RequestMap, RequestRecord
<1>2. serial \in Nat
  BY <1>1
<1>3. u \in RequestRecord
  BY <1>1, <1>2 DEF RequestMap, RequestRecord
<1>4. NewSerialReq(q, r) = [q EXCEPT ![r] = u]
  BY DEF NewSerialReq
<1>5. NewSerialReq(q, r) \in RequestMap
  BY <1>3, <1>4 DEF RequestMap
<1>. QED BY <1>5 DEF RequestMap, RequestRecord

\* object_cancel and the end of the callback
LEMMA ObjectCancelReqType ==
  ASSUME NEW q \in RequestMap, NEW r \in Requests
  PROVE  /\ ObjectCancelReq(q, r) \in RequestMap
         /\ Withdraw(ObjectCancelReq(q, r), r) \in RequestMap
<1>. DEFINE c == CancelReq(q, r)
            u == [c[r] EXCEPT !.dropped = TRUE,
                              !.group = IF q[r].dropped THEN q[r].group ELSE None]
<1>1. c \in RequestMap
  BY CancelReqType
<1>2. (IF q[r].dropped THEN q[r].group ELSE None) \in MaybeGroup
  BY DEF RequestMap, RequestRecord, MaybeGroup
<1>3. u \in RequestRecord
  BY <1>1, <1>2 DEF RequestMap, RequestRecord
<1>4. ObjectCancelReq(q, r) = [c EXCEPT ![r] = u]
  BY <1>1 DEF ObjectCancelReq, RequestMap
<1>5. ObjectCancelReq(q, r) \in RequestMap
  BY <1>1, <1>3, <1>4 DEF RequestMap
<1>6. [ObjectCancelReq(q, r)[r] EXCEPT !.complete = FALSE] \in RequestRecord
  BY <1>5 DEF RequestMap, RequestRecord
<1>. QED BY <1>5, <1>6 DEF Withdraw, RequestMap

\* Requests leave their group.
LEMMA UngroupType ==
  ASSUME req \in RequestMap, NEW S
  PROVE  Ungroup(S) \in RequestMap
<1>1. ASSUME NEW x \in Requests
      PROVE  [req[x] EXCEPT !.group = None] \in RequestRecord
  BY DEF RequestMap, RequestRecord, MaybeGroup
<1>. QED BY <1>1 DEF Ungroup, RequestMap

-----------------------------------------------------------------------------
(***************************************************************************)
(* The base object.                                                        *)
(***************************************************************************)

\* What precedes a request in the queue, if anything, is a request.
LEMMA BeforeType ==
  ASSUME NEW q, NEW b, NEW r
  PROVE  Before(q, b, r) \in MaybeRequest
BY DEF Before, MaybeRequest

\* The timer and the tables.
LEMMA TimerType ==
  ASSUME NEW b \in BaseRecord, NEW t \in Int, NEW S \in SUBSET Requests
  PROVE  /\ [b EXCEPT !.timer = t] \in BaseRecord
         /\ [b EXCEPT !.timer = t, !.active = S] \in BaseRecord
         /\ [b EXCEPT !.active = {}, !.pending = {}, !.timer = t,
                      !.alive = FALSE] \in BaseRecord
BY DEF BaseRecord

\* A timer that is stopped.
LEMMA NoTimerType ==
  ASSUME NEW b \in BaseRecord, NEW S \in SUBSET Requests
  PROVE  /\ [b EXCEPT !.timer = 0, !.active = S] \in BaseRecord
         /\ [b EXCEPT !.active = {}, !.pending = {}, !.timer = 0,
                      !.alive = FALSE] \in BaseRecord
<1>1. PICK t \in Int : t = 0
  OBVIOUS
<1>. QED BY <1>1, TimerType

\* queue_request
LEMMA QueueBaseType ==
  ASSUME NEW b \in BaseRecord, NEW r \in Requests
  PROVE  QueueBase(b, r) \in BaseRecord
BY DEF QueueBase, BaseRecord, MaybeRequest

\* unlink_request
LEMMA UnlinkBaseType ==
  ASSUME NEW q \in RequestMap, NEW b \in BaseRecord, NEW r \in Requests,
         NEW prev \in MaybeRequest
  PROVE  UnlinkBase(q, b, r, prev) \in BaseRecord
<1>1. q[r].next \in MaybeRequest
  BY DEF RequestMap, RequestRecord
<1>. QED BY <1>1 DEF UnlinkBase, BaseRecord, MaybeRequest

\* deactivate_request, the base object
LEMMA DeactivateBaseType ==
  ASSUME NEW q \in RequestMap, NEW b \in BaseRecord, NEW r \in Requests
  PROVE  DeactivateBase(q, b, r) \in BaseRecord
<1>. DEFINE u == IF Dequeues(q, b, r)
                 THEN UnlinkBase(q, b, r, Before(q, b, r)) ELSE b
<1>1. u \in BaseRecord
  BY UnlinkBaseType, BeforeType
<1>2. [u EXCEPT !.pending = @ \ {r}, !.active = @ \ {r},
                !.block = IF @ = r THEN None ELSE @] \in BaseRecord
  BY <1>1 DEF BaseRecord, MaybeRequest
<1>. QED BY <1>2 DEF DeactivateBase

\* move_owner_queue
LEMMA MoveOwnerQueueType ==
  ASSUME NEW q, NEW b \in BaseRecord
  PROVE  MoveOwnerQueue(q, b) \in BaseRecord
<1>1. CASE MovesOwner(q, b)
  <2>1. b.waiting \in Seq(Groups) /\ b.waiting # <<>>
    BY <1>1 DEF MovesOwner, BaseRecord
  <2>2. Head(b.waiting) \in Groups /\ Tail(b.waiting) \in Seq(Groups)
    BY <2>1
  <2>. QED BY <1>1, <2>2 DEF MoveOwnerQueue, BaseRecord, MaybeGroup
<1>2. CASE ~MovesOwner(q, b)
  BY <1>2 DEF MoveOwnerQueue
<1>. QED BY <1>1, <1>2

\* The tables of a request that gets a new serial.
LEMMA NewSerialBaseType ==
  ASSUME NEW q, NEW b \in BaseRecord, NEW r \in Requests
  PROVE  NewSerialBase(q, b, r) \in BaseRecord
BY DEF NewSerialBase, BaseRecord

\* A group leaves the queue of owners.
LEMMA WithdrawOwnerType ==
  ASSUME NEW w \in Seq(Groups), NEW g
  PROVE  WithdrawOwner(w, g) \in Seq(Groups)
<1>1. CASE \E i \in DOMAIN w : w[i] = g
  <2>. DEFINE n == CHOOSE i \in DOMAIN w : w[i] = g
  <2>1. n \in 1 .. Len(w)
    BY <1>1
  <2>. HIDE DEF n
  <2>2. SubSeq(w, 1, n - 1) \in Seq(Groups)
    BY <2>1
  <2>3. SubSeq(w, n + 1, Len(w)) \in Seq(Groups)
    BY <2>1
  <2>4. WithdrawOwner(w, g) = SubSeq(w, 1, n - 1) \o SubSeq(w, n + 1, Len(w))
    BY <1>1 DEF WithdrawOwner, n
  <2>. QED BY <2>2, <2>3, <2>4
<1>2. CASE ~\E i \in DOMAIN w : w[i] = g
  BY <1>2 DEF WithdrawOwner
<1>. QED BY <1>1, <1>2

\* radio_base_unblock
LEMMA UnblockBaseType ==
  ASSUME base \in BaseRecord, NEW g
  PROVE  UnblockBase(g) \in BaseRecord
<1>1. base.waiting \in Seq(Groups)
  BY DEF BaseRecord
<1>2. WithdrawOwner(base.waiting, g) \in Seq(Groups)
  BY <1>1, WithdrawOwnerType
<1>3. base.waiting # <<>> =>
        Head(base.waiting) \in Groups /\ Tail(base.waiting) \in Seq(Groups)
  BY <1>1
<1>. QED BY <1>1, <1>2, <1>3 DEF UnblockBase, BaseRecord, MaybeGroup

\* The timer is set to a time, or to none.
LEMMA ResetTimeoutType ==
  ASSUME NEW q \in RequestMap, NEW b \in BaseRecord
  PROVE  /\ ResetTimeout(q, b) \subseteq Int
         /\ \A t \in ResetTimeout(q, b) : [b EXCEPT !.timer = t] \in BaseRecord
<1>1. b.active \subseteq Requests
  BY DEF BaseRecord
<1>2. \A r \in b.active : q[r].deadline \in Int /\ q[r].scheduled \in Int
  BY <1>1 DEF RequestMap, RequestRecord
<1>3. Wakeups(q, b) \subseteq Int
  BY <1>2 DEF Wakeups
<1>4. ResetTimeout(q, b) \subseteq Int
  BY <1>3 DEF ResetTimeout
<1>. QED BY <1>4 DEF BaseRecord

-----------------------------------------------------------------------------
(***************************************************************************)
(* Transactions.                                                           *)
(***************************************************************************)

\* Cancelling a transaction.
LEMMA CancelNetType ==
  ASSUME net \in NetRecord, NEW q, NEW r
  PROVE  CancelNet(q, r) \in NetRecord
BY DEF CancelNet, NetRecord

-----------------------------------------------------------------------------
(***************************************************************************)
(* The stack.                                                              *)
(***************************************************************************)

\* The running call is a frame, about a request if its operation is.
LEMMA TopType ==
  ASSUME TypeOK, ~Idle
  PROVE  /\ Top \in Frame
         /\ Tail(stack) \in Frames
         /\ Top.op \in Ops
         /\ Top.r \in MaybeRequest /\ Top.prev \in MaybeRequest
         /\ Top.next \in MaybeRequest
         /\ Top.some \in BOOLEAN
         /\ Top.todo \in SUBSET Requests /\ Top.refs \in SUBSET Requests
         /\ Top.op \in RequestOps => Top.r \in Requests
<1>1. Top \in Frame /\ Tail(stack) \in Frames
  BY DEF TypeOK, Idle, Top, Frames
<1>. QED BY <1>1 DEF Frame, MaybeRequest

\* An operation that runs is on top of the stack.
LEMMA RunningTop ==
  ASSUME NEW op, Running(op)
  PROVE  ~Idle /\ Top.op = op
BY DEF Running, Top

\* The calls that take the place of the running one.
LEMMA BecomeType ==
  ASSUME TypeOK, ~Idle, NEW fs \in Frames, Become(fs)
  PROVE  stack' \in Frames
BY TopType DEF Become, Frames

\* The calls that precede the running one.
LEMMA EnterType ==
  ASSUME TypeOK, NEW fs \in Frames, Enter(fs)
  PROVE  stack' \in Frames
BY DEF Enter, Frames, TypeOK

\* Sequences of calls.
LEMMA FramesType ==
  /\ <<>> \in Frames
  /\ \A f \in Frame : <<f>> \in Frames
  /\ \A f, h \in Frame : <<f, h>> \in Frames
  /\ \A f, h, k \in Frame : <<f, h, k>> \in Frames
  /\ \A s, t \in Frames : s \o t \in Frames
BY DEF Frames

\* The calls the procedures below make.
LEMMA PlainFrames ==
  /\ Call("start", None) \in Frame
  /\ Call("reset", None) \in Frame
  /\ Call("connected", None) \in Frame
BY PlainCallType DEF Ops, RequestOps

-----------------------------------------------------------------------------
(***************************************************************************)
(* radio_base.c                                                            *)
(***************************************************************************)

\* Keeps the types: dropping a request.
LEMMA DropType ==
  ASSUME TypeOK, Drop
  PROVE  TypeOK'
<1>1. ~Idle /\ Top.op = "drop"
  BY RunningTop DEF Drop
<1>2. Top.r \in Requests
  BY <1>1, TopType DEF RequestOps
<1>3. req \in RequestMap /\ CancelReq(req, Top.r) \in RequestMap
  BY <1>2, CancelReqType DEF TypeOK, RequestMap
<1>4. req' \in RequestMap
  BY <1>2, <1>3, DeactivateReqType DEF Drop
<1>5. base' \in BaseRecord
  BY <1>2, <1>3, DeactivateBaseType DEF Drop, TypeOK
<1>6. net' \in NetRecord
  BY CancelNetType DEF Drop, TypeOK
<1>7. Call("dropped", Top.r) \in Frame
  BY <1>2, RequestCallType DEF Ops, ObservedOps
<1>8. stack' \in Frames
  BY <1>1, <1>7, PlainFrames, FramesType, BecomeType DEF Drop
<1>. QED BY <1>4, <1>5, <1>6, <1>8 DEF TypeOK, Drop, RequestMap, Frames

\* Keeps the types: the end of dropping a request.
LEMMA DroppedType ==
  ASSUME TypeOK, Dropped
  PROVE  TypeOK'
<1>1. ~Idle /\ Top.op = "dropped"
  BY RunningTop DEF Dropped
<1>2. Top.r \in Requests
  BY <1>1, TopType DEF RequestOps
<1>3. req \in RequestMap /\ base \in BaseRecord
  BY DEF TypeOK, RequestMap
<1>. DEFINE s == IF req[Top.r].state \in Live THEN "CANCELLED"
                 ELSE req[Top.r].state
<1>4. s \in States
  BY <1>2, <1>3 DEF RequestMap, RequestRecord, States
<1>5. req' = [req EXCEPT ![Top.r].state = s]
  BY <1>2, <1>3 DEF Dropped, RequestMap
<1>. HIDE DEF s
<1>6. req' \in RequestMap
  BY <1>2, <1>3, <1>4, <1>5, StateType
<1>7. base' \in BaseRecord
  BY <1>3, ResetTimeoutType DEF Dropped
<1>8. stack' \in Frames
  BY <1>1, FramesType, BecomeType DEF Dropped
<1>. QED BY <1>6, <1>7, <1>8 DEF TypeOK, Dropped, RequestMap, Frames

\* Keeps the types: starting a scan of the queue.
LEMMA ScanStartType ==
  ASSUME TypeOK, ScanStart
  PROVE  TypeOK'
<1>1. ~Idle
  BY RunningTop DEF ScanStart
<1>2. base.first \in MaybeRequest
  BY DEF TypeOK, BaseRecord
<1>3. Call("scan", base.first) \in Frame
  BY <1>2, CallType DEF Ops, RequestOps, ObservedOps
<1>4. stack' \in Frames
  BY <1>1, <1>3, FramesType, BecomeType DEF ScanStart
<1>. QED BY <1>4 DEF TypeOK, ScanStart, Frames

\* A scan that goes on is a frame, whatever it looks at.
LEMMA ScanFrameType ==
  ASSUME TypeOK, Running("scan"), NEW r \in MaybeRequest, NEW p \in MaybeRequest
  PROVE  /\ [Top EXCEPT !.r = r, !.prev = p] \in Frame
         /\ [Top EXCEPT !.r = r] \in Frame
<1>1. ~Idle /\ Top.op = "scan"
  BY RunningTop
<1>2. Top \in Frame
  BY <1>1, TopType
<1>. QED BY <1>1, <1>2 DEF Frame, RequestOps

\* Keeps the types: passing over a request that may not be sent.
LEMMA ScanSkipType ==
  ASSUME TypeOK, ScanSkip
  PROVE  TypeOK'
<1>1. PICK r \in Requests :
        Scanning(r) /\ Become(<<[Top EXCEPT !.r = req[r].next, !.prev = r]>>)
  BY DEF ScanSkip
<1>2. Running("scan") /\ ~Idle
  BY <1>1, RunningTop DEF Scanning
<1>3. r \in MaybeRequest /\ req[r].next \in MaybeRequest
  BY DEF TypeOK, RequestRecord, MaybeRequest
<1>4. [Top EXCEPT !.r = req[r].next, !.prev = r] \in Frame
  BY <1>2, <1>3, ScanFrameType
<1>5. stack' \in Frames
  BY <1>1, <1>2, <1>4, FramesType, BecomeType
<1>. QED BY <1>5 DEF TypeOK, ScanSkip, Frames

\* Keeps the types: sending a request.
LEMMA ScanSendType ==
  ASSUME TypeOK, ScanSend
  PROVE  TypeOK'
<1>1. PICK r \in Requests :
       /\ Scanning(r)
       /\ LET q1 == NewSerialReq(UnlinkReq(req, r, Top.prev), r)
              q2 == [q1 EXCEPT ![r] = [@ EXCEPT !.scheduled = 0,
                                                !.state = "PENDING",
                                                !.tx = q1[r].sends]]
              b1 == NewSerialBase(req, UnlinkBase(req, base, r, Top.prev), r)
              b2 == [b1 EXCEPT !.pending = @ \cup {r}]
          IN  /\ req' = q2
              /\ base' = MoveOwnerQueue(q2, b2)
              /\ net' = [outstanding |-> net.outstanding \cup {<<r, q2[r].tx>>},
                         answers |-> net.answers \cup {<<r, q2[r].serial2>>}]
              /\ Become((IF MovesOwner(q2, b2) THEN Callback(None) ELSE <<>>)
                        \o <<[Top EXCEPT !.op = "sent", !.next = req[r].next,
                                         !.some = TRUE]>>)
  BY DEF ScanSend
<1>. DEFINE q1 == NewSerialReq(UnlinkReq(req, r, Top.prev), r)
            u == [q1[r] EXCEPT !.scheduled = 0, !.state = "PENDING",
                               !.tx = q1[r].sends]
            q2 == [q1 EXCEPT ![r] = [@ EXCEPT !.scheduled = 0,
                                              !.state = "PENDING",
                                              !.tx = q1[r].sends]]
            b1 == NewSerialBase(req, UnlinkBase(req, base, r, Top.prev), r)
            b2 == [b1 EXCEPT !.pending = @ \cup {r}]
<1>2. Running("scan") /\ ~Idle /\ r = Top.r
  BY <1>1, RunningTop DEF Scanning
<1>3. Top \in Frame /\ Top.prev \in MaybeRequest
  BY <1>2, TopType
<1>4. req \in RequestMap /\ base \in BaseRecord /\ net \in NetRecord
  BY DEF TypeOK, RequestMap
<1>5. q1 \in RequestMap /\ q1[r].sends \in Nat
  BY <1>4, UnlinkReqType, NewSerialReqType
<1>6. u \in RequestRecord
  <2>1. "PENDING" \in States
    BY DEF States
  <2>. QED BY <1>5, <2>1, ZenonT(60) DEF RequestMap, RequestRecord
<1>7. q2 \in RequestMap
  BY <1>5, <1>6 DEF RequestMap
<1>8. b2 \in BaseRecord
  <2>1. b1 \in BaseRecord
    BY <1>3, <1>4, UnlinkBaseType, NewSerialBaseType
  <2>. QED BY <2>1 DEF BaseRecord
<1>9. base' \in BaseRecord
  BY <1>1, <1>8, MoveOwnerQueueType
<1>10. net' \in NetRecord
  <2>1. q2[r].tx \in Nat /\ q2[r].serial2 \in Nat
    BY <1>7 DEF RequestMap, RequestRecord
  <2>2. net' = [outstanding |-> net.outstanding \cup {<<r, q2[r].tx>>},
                answers |-> net.answers \cup {<<r, q2[r].serial2>>}]
    BY <1>1
  <2>. HIDE DEF q2
  <2>. QED BY <1>4, <2>1, <2>2 DEF NetRecord, Transmissions
<1>11. [Top EXCEPT !.op = "sent", !.next = req[r].next, !.some = TRUE] \in Frame
  <2>1. req[r].next \in MaybeRequest
    BY <1>4 DEF RequestMap, RequestRecord
  <2>2. Top.r # None
    BY <1>2, ConstantsAssumption
  <2>. QED BY <1>3, <2>1, <2>2 DEF Frame, Ops, ObservedOps
<1>12. stack' \in Frames
  <2>1. (IF MovesOwner(q2, b2) THEN Callback(None) ELSE <<>>) \in Frames
    BY CallbackType, FramesType DEF MaybeRequest
  <2>. QED BY <1>1, <1>2, <1>11, <2>1, FramesType, BecomeType
<1>. QED BY <1>1, <1>7, <1>9, <1>10, <1>12 DEF TypeOK, ScanSend, RequestMap, Frames

\* Keeps the types: failing to send a request.
LEMMA ScanFailType ==
  ASSUME TypeOK, ScanFail
  PROVE  TypeOK'
<1>1. PICK r \in Requests :
       /\ Scanning(r)
       /\ LET q == NewSerialReq(UnlinkReq(req, r, Top.prev), r)
          IN  /\ req' = FailReq(q, r)
              /\ Become(FailCalls(q, r)
                        \o <<[Top EXCEPT !.r = req[r].next]>>)
       /\ base' = NewSerialBase(req, UnlinkBase(req, base, r, Top.prev), r)
  BY DEF ScanFail
<1>. DEFINE q == NewSerialReq(UnlinkReq(req, r, Top.prev), r)
<1>2. Running("scan") /\ ~Idle
  BY <1>1, RunningTop DEF Scanning
<1>3. Top \in Frame /\ Top.prev \in MaybeRequest
  BY <1>2, TopType
<1>4. req \in RequestMap /\ base \in BaseRecord
  BY DEF TypeOK, RequestMap
<1>5. q \in RequestMap
  BY <1>4, UnlinkReqType, NewSerialReqType
<1>6. req' \in RequestMap
  BY <1>1, <1>5, FailReqType
<1>7. base' \in BaseRecord
  BY <1>1, <1>3, <1>4, UnlinkBaseType, NewSerialBaseType
<1>8. req[r].next \in MaybeRequest
  BY <1>4 DEF RequestMap, RequestRecord
<1>9. [Top EXCEPT !.r = req[r].next] \in Frame
  BY <1>2, <1>3, <1>8, ScanFrameType
<1>10. stack' \in Frames
  <2>1. FailCalls(q, r) \in Frames
    BY <1>5, FailCallsType
  <2>. QED BY <1>1, <1>2, <1>9, <2>1, FramesType, BecomeType
<1>. QED BY <1>6, <1>7, <1>10 DEF TypeOK, ScanFail, RequestMap, Frames

\* What a scan does that tells the observers of r.
Tells(r, n) ==
  LET q == UnlinkReq(req, r, Top.prev)
      f == [Top EXCEPT !.op = "send", !.next = req[r].next]
  IN  /\ Running("scan") /\ ~Idle /\ Top.op = "scan" /\ Top.r = r
      /\ CanSubmitRequest(req, base, r) /\ Observed
      /\ q \in RequestMap /\ n \in Nat /\ n = NewSerialReq(q, r)[r].serial2
      /\ req' = [q EXCEPT ![r] = [@ EXCEPT !.serial2 = n]]
      /\ base' = NewSerialBase(req, UnlinkBase(req, base, r, Top.prev), r)
      /\ f \in Frame /\ f.op = "send" /\ Become(Callback(None) \o <<f>>)

\* Telling the observers of a request is what Tells says.
LEMMA TellStep ==
  ASSUME TypeOK, ScanTell
  PROVE  \E r \in Requests, n \in Nat : Tells(r, n)
<1>1. PICK r \in Requests :
       /\ Scanning(r) /\ CanSubmitRequest(req, base, r)
       /\ LET q == UnlinkReq(req, r, Top.prev)
          IN  req' = [q EXCEPT ![r] = [@ EXCEPT
                        !.serial2 = NewSerialReq(q, r)[r].serial2]]
       /\ base' = NewSerialBase(req, UnlinkBase(req, base, r, Top.prev), r)
       /\ Become(Callback(None)
                 \o <<[Top EXCEPT !.op = "send", !.next = req[r].next]>>)
  BY DEF ScanTell
<1>. DEFINE q == UnlinkReq(req, r, Top.prev)
            n == NewSerialReq(q, r)[r].serial2
            f == [Top EXCEPT !.op = "send", !.next = req[r].next]
<1>2. Running("scan") /\ ~Idle /\ Top.op = "scan" /\ r = Top.r /\ Observed
  BY <1>1, RunningTop DEF Scanning, ScanTell
<1>3. q \in RequestMap /\ NewSerialReq(q, r) \in RequestMap
  BY UnlinkReqType, NewSerialReqType DEF TypeOK, RequestMap
<1>4. n \in Nat
  BY <1>3 DEF RequestMap, RequestRecord
<1>5. f \in Frame /\ f.op = "send"
  <2>1. req[r].next \in MaybeRequest
    BY DEF TypeOK, RequestRecord
  <2>2. Top.r # None /\ Top \in Frame
    BY <1>2, TopType, ConstantsAssumption
  <2>. QED BY <1>2, <2>1, <2>2 DEF Frame, Ops
<1>. QED BY <1>1, <1>2, <1>3, <1>4, <1>5 DEF Tells

\* What the sending of a request does that the binder driver takes.
Transacts(q, b, f) ==
  LET r == Top.r
      n == req[r].sends + 1
      cs == IF MovesOwner(q, b) THEN Callback(None) ELSE <<>>
  IN  /\ ~Idle /\ Top.op = "send" /\ r \in Requests /\ n \in Nat
      /\ q \in RequestMap /\ b \in BaseRecord
      /\ q = [req EXCEPT ![r] = [@ EXCEPT !.sends = n, !.tx = n, !.scheduled = 0,
                                          !.state = "PENDING"]]
      /\ b = [base EXCEPT !.pending = @ \cup {r}]
      /\ req' = q /\ base' = MoveOwnerQueue(q, b)
      /\ net' = [outstanding |-> net.outstanding \cup {<<r, n>>},
                 answers |-> net.answers \cup {<<r, req[r].serial2>>}]
      /\ f = [Top EXCEPT !.op = "sent", !.some = TRUE]
      /\ f \in Frame /\ cs \in Frames /\ Become(cs \o <<f>>)

\* Sending it after that is what Transacts says.
LEMMA TransactStep ==
  ASSUME TypeOK, Accept
  PROVE  \E q, b, f : Transacts(q, b, f)
<1>. DEFINE r == Top.r
            n == req[r].sends + 1
            u == [req[r] EXCEPT !.sends = n, !.tx = n, !.scheduled = 0,
                                !.state = "PENDING"]
            q == [req EXCEPT ![r] = [@ EXCEPT !.sends = n, !.tx = n,
                                              !.scheduled = 0,
                                              !.state = "PENDING"]]
            b == [base EXCEPT !.pending = @ \cup {r}]
            f == [Top EXCEPT !.op = "sent", !.some = TRUE]
            cs == IF MovesOwner(q, b) THEN Callback(None) ELSE <<>>
<1>1. ~Idle /\ Top.op = "send"
  BY RunningTop DEF Accept
<1>2. Top \in Frame /\ r \in Requests
  BY <1>1, TopType DEF RequestOps
<1>3. req \in RequestMap /\ base \in BaseRecord
  BY DEF TypeOK, RequestMap
<1>4. n \in Nat
  BY <1>2, <1>3 DEF RequestMap, RequestRecord
<1>5. q \in RequestMap
  <2>. HIDE DEF n
  <2>1. "PENDING" \in States
    BY DEF States
  <2>2. u \in RequestRecord
    BY <1>2, <1>3, <1>4, <2>1, ZenonT(60) DEF RequestMap, RequestRecord
  <2>. QED BY <1>2, <1>3, <2>2 DEF RequestMap
<1>6. b \in BaseRecord
  BY <1>2, <1>3 DEF BaseRecord
<1>7. f \in Frame
  BY <1>1, <1>2 DEF Frame, Ops, RequestOps, ObservedOps
<1>8. cs \in Frames
  BY CallbackType, FramesType DEF MaybeRequest
<1>9. /\ req' = q
      /\ base' = MoveOwnerQueue(q, b)
      /\ net' = [outstanding |-> net.outstanding \cup {<<r, n>>},
                 answers |-> net.answers \cup {<<r, req[r].serial2>>}]
      /\ Become(cs \o <<f>>)
  BY DEF Accept
<1>10. Transacts(q, b, f)
  <2>. HIDE DEF cs, q, b, f, n
  <2>1. /\ q = [req EXCEPT ![r] = [@ EXCEPT !.sends = n, !.tx = n,
                                            !.scheduled = 0,
                                            !.state = "PENDING"]]
        /\ b = [base EXCEPT !.pending = @ \cup {r}]
        /\ f = [Top EXCEPT !.op = "sent", !.some = TRUE]
        /\ n = req[r].sends + 1
        /\ cs = IF MovesOwner(q, b) THEN Callback(None) ELSE <<>>
    BY DEF q, b, f, n, cs
  <2>. QED BY <1>1, <1>2, <1>4, <1>5, <1>6, <1>7, <1>8, <1>9, <2>1 DEF Transacts
<1>. QED BY <1>10

\* What the failure of a request does that the binder driver did not take.
Refusing(q, f) ==
  /\ ~Idle /\ Top.op = "refused" /\ Top.r \in Requests
  /\ q = [req EXCEPT ![Top.r].sends = @ + 1] /\ q \in RequestMap
  /\ req' = FailReq(q, Top.r)
  /\ f = [Top EXCEPT !.op = "scan", !.r = Top.next]
  /\ f \in Frame /\ FailCalls(q, Top.r) \in Frames
  /\ Become(FailCalls(q, Top.r) \o <<f>>)

\* And failing it is what Refusing says.
LEMMA RefusedStep ==
  ASSUME TypeOK, Refused
  PROVE  \E q, f : Refusing(q, f)
<1>. DEFINE q == [req EXCEPT ![Top.r].sends = @ + 1]
            f == [Top EXCEPT !.op = "scan", !.r = Top.next]
<1>1. ~Idle /\ Top.op = "refused"
  BY RunningTop DEF Refused
<1>2. Top \in Frame /\ Top.r \in Requests /\ Top.next \in MaybeRequest
  BY <1>1, TopType DEF RequestOps
<1>3. req \in RequestMap
  BY DEF TypeOK, RequestMap
<1>4. q \in RequestMap
  <2>1. [req[Top.r] EXCEPT !.sends = @ + 1] \in RequestRecord
    BY <1>2, <1>3 DEF RequestMap, RequestRecord
  <2>. QED BY <1>2, <1>3, <2>1 DEF RequestMap
<1>5. f \in Frame
  BY <1>2 DEF Frame, Ops, RequestOps, ObservedOps
<1>6. req' = FailReq(q, Top.r) /\ Become(FailCalls(q, Top.r) \o <<f>>)
  BY DEF Refused
<1>7. Refusing(q, f)
  BY <1>1, <1>2, <1>4, <1>5, <1>6, FailCallsType DEF Refusing
<1>. QED BY <1>7

\* A request is told of and sent later only where the observers call the
\* library.
LEMMA RunningSend ==
  ASSUME TypeOK, Running("send") \/ Running("refused")
  PROVE  Observed
BY RunningTop, TopType DEF Frame, ObservedOps

\* So the steps of the observers are taken only there.
LEMMA Unobserved ==
  ASSUME TypeOK, ~Observed
  PROVE  ~(ScanTell \/ Accept \/ Refuse \/ Refused)
BY RunningSend DEF ScanTell, Accept, Refuse, Refused

\* Keeps the types: telling the observers, and what comes of it.
LEMMA ObservedType ==
  ASSUME TypeOK, ScanTell \/ Accept \/ Refuse \/ Refused
  PROVE  TypeOK'
<1>0. req \in RequestMap
  BY DEF TypeOK, RequestMap
<1>1. CASE ScanTell
  <2>1. PICK r \in Requests, n \in Nat : Tells(r, n)
    BY <1>1, TellStep
  <2>2. Top.prev \in MaybeRequest /\ base \in BaseRecord
    BY <2>1, TopType DEF Tells, TypeOK
  <2>3. req' \in RequestMap
    BY <2>1, SerialType DEF Tells
  <2>4. base' \in BaseRecord
    <3>. DEFINE b == UnlinkBase(req, base, r, Top.prev)
    <3>1. b \in BaseRecord
      BY <1>0, <2>2, UnlinkBaseType
    <3>2. base' = NewSerialBase(req, b, r)
      BY <2>1 DEF Tells
    <3>. HIDE DEF b
    <3>. QED BY <3>1, <3>2, NewSerialBaseType
  <2>5. stack' \in Frames
    BY <2>1, CallbackType, FramesType, BecomeType DEF Tells, MaybeRequest
  <2>. QED BY <1>1, <2>3, <2>4, <2>5 DEF TypeOK, ScanTell, RequestMap, Frames
<1>2. CASE Accept
  <2>1. PICK q, b, f : Transacts(q, b, f)
    BY <1>2, TransactStep
  <2>2. net' \in NetRecord
    <3>1. PICK r \in Requests, n \in Nat :
            net' = [outstanding |-> net.outstanding \cup {<<r, n>>},
                    answers |-> net.answers \cup {<<r, req[r].serial2>>}]
      BY <2>1 DEF Transacts
    <3>2. req[r].serial2 \in Nat /\ net \in NetRecord
      BY DEF TypeOK, RequestRecord
    <3>. QED BY <3>1, <3>2 DEF NetRecord, Transmissions
  <2>3. base' \in BaseRecord
    BY <2>1, MoveOwnerQueueType DEF Transacts
  <2>4. stack' \in Frames
    BY <2>1, FramesType, BecomeType DEF Transacts
  <2>. QED BY <1>2, <2>1, <2>2, <2>3, <2>4
       DEF TypeOK, Accept, Transacts, RequestMap, Frames
<1>3. CASE Refuse
  <2>1. ~Idle /\ Top.op = "send"
    BY <1>3, RunningTop DEF Refuse
  <2>2. [Top EXCEPT !.op = "refused"] \in Frame
    BY <2>1, TopType DEF Frame, Ops, RequestOps, ObservedOps
  <2>3. stack' \in Frames
    BY <1>3, <2>1, <2>2, FramesType, BecomeType DEF Refuse
  <2>. QED BY <1>3, <2>3 DEF TypeOK, Refuse, Frames
<1>4. CASE Refused
  <2>1. PICK q, f : Refusing(q, f)
    BY <1>4, RefusedStep
  <2>2. req' \in RequestMap
    BY <2>1, FailReqType DEF Refusing
  <2>3. stack' \in Frames
    BY <2>1, FramesType, BecomeType DEF Refusing
  <2>. QED BY <1>4, <2>2, <2>3 DEF TypeOK, Refused, RequestMap, Frames
<1>. QED BY <1>1, <1>2, <1>3, <1>4

\* Keeps the types: marking the blocking request, or going on with the scan.
LEMMA ScanSentType ==
  ASSUME TypeOK, ScanSent
  PROVE  TypeOK'
<1>1. ~Idle /\ Top.op = "sent"
  BY RunningTop DEF ScanSent
<1>2. Top \in Frame /\ Top.r \in MaybeRequest /\ Top.next \in MaybeRequest
  BY <1>1, TopType
<1>3. /\ [Top EXCEPT !.op = "scan", !.r = None] \in Frame
      /\ [Top EXCEPT !.op = "scan", !.r = Top.next] \in Frame
  BY <1>2 DEF Frame, Ops, RequestOps, ObservedOps, MaybeRequest
<1>4. stack' \in Frames
  BY <1>1, <1>3, FramesType, BecomeType DEF ScanSent
<1>5. base' \in BaseRecord
  BY <1>2 DEF ScanSent, TypeOK, BaseRecord
<1>. QED BY <1>4, <1>5 DEF TypeOK, ScanSent, Frames

\* Keeps the types: ending a scan.
LEMMA ScanEndType ==
  ASSUME TypeOK, ScanEnd
  PROVE  TypeOK'
<1>1. ~Idle
  BY RunningTop DEF ScanEnd
<1>2. Top.some \in BOOLEAN
  BY <1>1, TopType
<1>3. stack' \in Frames
  BY <1>1, FramesType, BecomeType DEF ScanEnd
<1>. QED BY <1>2, <1>3 DEF TypeOK, ScanEnd, Frames

\* A time to come.
LEMMA TimeoutOfType ==
  ASSUME TypeOK, NEW ms \in Nat
  PROVE  now + TimeoutOf(base, ms) \in Int
<1>1. base.timeout \in Nat /\ now \in Nat
  BY DEF TypeOK, BaseRecord
<1>. QED BY <1>1 DEF TimeoutOf

\* Keeps the types: submitting a request.
LEMMA SubmitType ==
  ASSUME TypeOK, NEW r \in Requests, Submit(r)
  PROVE  TypeOK'
<1>. DEFINE q == QueueReq(req, base, r)
            d == now + TimeoutOf(base, req[r].timeout)
            u == [q[r] EXCEPT !.complete = FALSE, !.deadline = d]
            f == [Call("submitted", r) EXCEPT !.some = req[r].complete]
<1>1. req \in RequestMap /\ base \in BaseRecord
  BY DEF TypeOK, RequestMap
<1>2. q \in RequestMap
  BY <1>1, QueueReqType
<1>3. d \in Int
  <2>1. req[r].timeout \in Nat
    BY <1>1 DEF RequestMap, RequestRecord
  <2>. QED BY <2>1, TimeoutOfType
<1>4. req' = [q EXCEPT ![r] = u]
  BY DEF Submit
<1>5. req' \in RequestMap
  <2>. HIDE DEF d, q
  <2>1. u \in RequestRecord
    BY <1>2, <1>3 DEF RequestMap, RequestRecord
  <2>. QED BY <1>2, <1>4, <2>1 DEF RequestMap
<1>6. base' \in BaseRecord
  <2>1. QueueBase(base, r) \in BaseRecord
    BY <1>1, QueueBaseType
  <2>2. [QueueBase(base, r) EXCEPT !.active = @ \cup {r}] \in BaseRecord
    BY <2>1 DEF BaseRecord
  <2>. QED BY <2>2 DEF Submit
<1>7. f \in Frame
  <2>1. Call("submitted", r) \in Frame
    BY RequestCallType DEF Ops, ObservedOps
  <2>2. req[r].complete \in BOOLEAN
    BY <1>1 DEF RequestMap, RequestRecord
  <2>. QED BY <2>1, <2>2 DEF Frame
<1>8. stack' \in Frames
  <2>1. Enter(<<Call("start", None), f>>)
    BY DEF Submit
  <2>. QED BY <1>7, <2>1, PlainFrames, FramesType, EnterType
<1>. QED BY <1>5, <1>6, <1>8 DEF TypeOK, Submit, RequestMap, Frames

\* Keeps the types: giving a submitted request its callback back.
LEMMA SubmittedType ==
  ASSUME TypeOK, Submitted
  PROVE  TypeOK'
<1>1. ~Idle /\ Top.op = "submitted"
  BY RunningTop DEF Submitted
<1>2. Top.r \in Requests /\ Top.some \in BOOLEAN
  BY <1>1, TopType DEF RequestOps
<1>3. req \in RequestMap /\ base \in BaseRecord
  BY DEF TypeOK, RequestMap
<1>4. [req[Top.r] EXCEPT !.complete = Top.some, !.submitted = TRUE]
        \in RequestRecord
  BY <1>2, <1>3, ZenonT(60) DEF RequestMap, RequestRecord
<1>5. req' \in RequestMap
  BY <1>3, <1>4 DEF Submitted, RequestMap
<1>6. base' \in BaseRecord
  BY <1>3, ResetTimeoutType DEF Submitted
<1>7. stack' \in Frames
  BY <1>1, FramesType, BecomeType DEF Submitted
<1>. QED BY <1>5, <1>6, <1>7 DEF TypeOK, Submitted, RequestMap, Frames

\* A request that is retried, once more.
LEMMA RequeueType ==
  ASSUME NEW q \in RequestMap, NEW b, NEW r \in Requests
  PROVE  /\ CancelReq(q, r) \in RequestMap
         /\ QueueReq(CancelReq(q, r), b, r) \in RequestMap
BY CancelReqType, QueueReqType

\* Keeps the types: retrying a pending request.
LEMMA RetryType ==
  ASSUME TypeOK, NEW r \in Requests, Retry(r)
  PROVE  TypeOK'
<1>. DEFINE q == QueueReq(CancelReq(req, r), base, r)
<1>1. req \in RequestMap /\ base \in BaseRecord
  BY DEF TypeOK, RequestMap
<1>2. q \in RequestMap
  BY <1>1, RequeueType
<1>3. req' = [q EXCEPT ![r].retries = @ + 1]
  BY DEF Retry
<1>4. req' \in RequestMap
  <2>. HIDE DEF q
  <2>1. q[r].retries + 1 \in Nat
    BY <1>2 DEF RequestMap, RequestRecord
  <2>2. [q[r] EXCEPT !.retries = q[r].retries + 1] \in RequestRecord
    BY <1>2, <2>1 DEF RequestMap, RequestRecord
  <2>. QED BY <1>2, <1>3, <2>2 DEF RequestMap
<1>5. base' \in BaseRecord
  <2>1. QueueBase(base, r) \in BaseRecord
    BY <1>1, QueueBaseType
  <2>2. [QueueBase(base, r) EXCEPT !.pending = @ \ {r}] \in BaseRecord
    BY <2>1 DEF BaseRecord
  <2>. QED BY <2>2 DEF Retry
<1>6. net' \in NetRecord
  BY CancelNetType DEF Retry, TypeOK
<1>7. stack' \in Frames
  <2>1. Call("retried", r) \in Frame
    BY RequestCallType DEF Ops, ObservedOps
  <2>. QED BY <2>1, PlainFrames, FramesType, EnterType DEF Retry
<1>. QED BY <1>4, <1>5, <1>6, <1>7 DEF TypeOK, Retry, RequestMap, Frames

\* Keeps the types: resetting the timer.
LEMMA ResetType ==
  ASSUME TypeOK, Reset
  PROVE  TypeOK'
<1>1. ~Idle /\ Become(<<>>)
  BY DEF Reset
<1>2. req \in RequestMap /\ base \in BaseRecord
  BY DEF TypeOK, RequestMap
<1>3. base' \in BaseRecord
  BY <1>2, ResetTimeoutType DEF Reset
<1>4. stack' \in Frames
  BY <1>1, FramesType, BecomeType
<1>. QED BY <1>3, <1>4 DEF TypeOK, Reset, Frames

\* Keeps the types: ignoring an answer that matches nothing.
LEMMA RespondUnknownType ==
  ASSUME TypeOK, RespondUnknown
  PROVE  TypeOK'
<1>1. net' \in NetRecord
  BY DEF RespondUnknown, TypeOK, NetRecord
<1>. QED BY <1>1 DEF TypeOK, RespondUnknown

\* An answer is taken from the network.
LEMMA AnswerType ==
  ASSUME TypeOK, NEW q, NEW r, NEW m
  PROVE  [CancelNet(q, r) EXCEPT !.answers = @ \ {m}] \in NetRecord
<1>1. CancelNet(q, r) \in NetRecord
  BY CancelNetType DEF TypeOK
<1>. QED BY <1>1 DEF NetRecord

\* Keeps the types: an answer that is retried.
LEMMA RespondRetryType ==
  ASSUME TypeOK, RespondRetry
  PROVE  TypeOK'
<1>1. PICK m \in net.answers :
       LET r == m[1]
           q == CancelReq(req, r)
       IN  /\ req' = [QueueReq(q, base, r) EXCEPT
                        ![r] = [@ EXCEPT !.retries = q[r].retries + 1,
                                         !.scheduled = now + RetryDelay]]
           /\ base' = [QueueBase(base, r) EXCEPT !.pending = @ \ {r}]
           /\ net' = [CancelNet(req, r) EXCEPT !.answers = @ \ {m}]
  BY DEF RespondRetry
<1>. DEFINE r == m[1]
            c == CancelReq(req, r)
            q == QueueReq(c, base, r)
<1>2. r \in Requests
  BY DEF TypeOK, NetRecord, Transmissions
<1>. HIDE DEF r
<1>3. req \in RequestMap /\ base \in BaseRecord
  BY DEF TypeOK, RequestMap
<1>4. c \in RequestMap /\ q \in RequestMap
  BY <1>2, <1>3, RequeueType
<1>5. req' = [q EXCEPT ![r] = [@ EXCEPT !.retries = c[r].retries + 1,
                                        !.scheduled = now + RetryDelay]]
  BY <1>1 DEF r
<1>6. req' \in RequestMap
  <2>. HIDE DEF c, q
  <2>1. c[r].retries + 1 \in Nat
    BY <1>2, <1>4 DEF RequestMap, RequestRecord
  <2>2. now + RetryDelay \in Nat
    BY ConstantsAssumption DEF TypeOK
  <2>3. [q[r] EXCEPT !.retries = c[r].retries + 1,
                     !.scheduled = now + RetryDelay] \in RequestRecord
    BY <1>2, <1>4, <2>1, <2>2, ZenonT(60) DEF RequestMap, RequestRecord
  <2>. QED BY <1>4, <1>5, <2>3 DEF RequestMap
<1>7. base' \in BaseRecord
  <2>1. QueueBase(base, r) \in BaseRecord
    BY <1>2, <1>3, QueueBaseType
  <2>2. [QueueBase(base, r) EXCEPT !.pending = @ \ {r}] \in BaseRecord
    BY <2>1 DEF BaseRecord
  <2>. QED BY <1>1, <2>2 DEF r
<1>8. net' \in NetRecord
  BY <1>1, AnswerType
<1>9. stack' \in Frames
  BY PlainFrames, FramesType, EnterType DEF RespondRetry
<1>. QED BY <1>6, <1>7, <1>8, <1>9 DEF TypeOK, RespondRetry, RequestMap, Frames

\* Keeps the types: an answer that completes a request.
LEMMA RespondDoneType ==
  ASSUME TypeOK, RespondDone
  PROVE  TypeOK'
<1>1. PICK m \in net.answers :
       LET r == m[1]
           q == [CancelReq(req, r) EXCEPT ![r].state = "DONE"]
           b == DeactivateBase(q, base, r)
       IN  /\ req' = q
           /\ base' = MoveOwnerQueue(q, b)
           /\ net' = [CancelNet(req, r) EXCEPT !.answers = @ \ {m}]
           /\ Enter((IF MovesOwner(q, b) THEN Callback(None) ELSE <<>>)
                    \o <<Call("done", r), Call("start", None),
                         Call("reset", None)>>)
  BY DEF RespondDone
<1>. DEFINE r == m[1]
            q == [CancelReq(req, r) EXCEPT ![r].state = "DONE"]
            b == DeactivateBase(q, base, r)
<1>2. r \in Requests
  BY DEF TypeOK, NetRecord, Transmissions
<1>3. req \in RequestMap /\ base \in BaseRecord
  BY DEF TypeOK, RequestMap
<1>4. req' \in RequestMap
  <2>1. "DONE" \in States
    BY DEF States
  <2>. QED BY <1>1, <1>2, <1>3, <2>1, CancelReqType, StateType
<1>5. base' \in BaseRecord
  <2>1. q \in RequestMap
    BY <1>1, <1>4
  <2>2. b \in BaseRecord
    BY <1>2, <1>3, <2>1, DeactivateBaseType
  <2>. QED BY <1>1, <2>2, MoveOwnerQueueType
<1>6. net' \in NetRecord
  BY <1>1, AnswerType
<1>7. stack' \in Frames
  <2>1. (IF MovesOwner(q, b) THEN Callback(None) ELSE <<>>) \in Frames
    BY CallbackType, FramesType DEF MaybeRequest
  <2>2. Call("done", r) \in Frame
    BY <1>2, RequestCallType DEF Ops, ObservedOps
  <2>3. <<Call("done", r), Call("start", None), Call("reset", None)>> \in Frames
    BY <2>2, PlainFrames, FramesType
  <2>. QED BY <1>1, <2>1, <2>3, FramesType, EnterType
<1>. QED BY <1>4, <1>5, <1>6, <1>7 DEF TypeOK, RespondDone, RequestMap, Frames

\* Keeps the types: the callback of an answered request.
LEMMA DoneType ==
  ASSUME TypeOK, Done
  PROVE  TypeOK'
<1>1. ~Idle /\ Top.op = "done"
  BY RunningTop DEF Done
<1>2. Top.r \in Requests
  BY <1>1, TopType DEF RequestOps
<1>3. req \in RequestMap
  BY DEF TypeOK, RequestMap
<1>4. req' \in RequestMap
  BY <1>2, <1>3, CompleteReqType DEF Done
<1>5. stack' \in Frames
  BY <1>1, <1>2, <1>3, FailCallsType, BecomeType DEF Done
<1>. QED BY <1>4, <1>5 DEF TypeOK, Done, RequestMap, Frames

\* Keeps the types: the end of a binder transaction.
LEMMA SentType ==
  ASSUME TypeOK, Sent
  PROVE  TypeOK'
<1>1. PICK t \in net.outstanding :
       LET q == [req EXCEPT ![t[1]].tx = 0]
       IN  \/ /\ req' = q
              /\ net' = [net EXCEPT !.outstanding = @ \ {t}]
              /\ UNCHANGED stack
           \/ /\ req' = FailReq(q, t[1])
              /\ net' = [outstanding |-> net.outstanding \ {t},
                         answers |-> net.answers \ {t}]
              /\ Enter(FailCalls(q, t[1]))
  BY DEF Sent
<1>. DEFINE r == t[1]
            q == [req EXCEPT ![r].tx = 0]
<1>2. r \in Requests
  BY DEF TypeOK, NetRecord, Transmissions
<1>3. q \in RequestMap
  BY <1>2, FieldType DEF TypeOK, RequestMap
<1>4. FailReq(q, r) \in RequestMap /\ FailCalls(q, r) \in Frames
  BY <1>2, <1>3, FailReqType, FailCallsType
<1>5. net' \in NetRecord
  BY <1>1 DEF TypeOK, NetRecord
<1>6. req' \in RequestMap
  BY <1>1, <1>3, <1>4
<1>7. stack' \in Frames
  <2>1. UNCHANGED stack \/ Enter(FailCalls(q, r))
    BY <1>1
  <2>. QED BY <1>4, <2>1, EnterType DEF TypeOK, Frames
<1>. QED BY <1>5, <1>6, <1>7 DEF TypeOK, Sent, RequestMap, Frames

\* Keeps the types: stealing the expired requests.
LEMMA TimeoutType ==
  ASSUME TypeOK, Timeout
  PROVE  TypeOK'
<1>. DEFINE expired == {r \in base.active : req[r].deadline <= now}
<1>1. expired \in SUBSET Requests
  BY DEF TypeOK, BaseRecord
<1>2. base' \in BaseRecord
  <2>1. base.active \ expired \in SUBSET Requests
    BY DEF TypeOK, BaseRecord
  <2>2. base' = [base EXCEPT !.timer = 0, !.active = base.active \ expired]
    BY DEF Timeout
  <2>. HIDE DEF expired
  <2>. QED BY <2>1, <2>2, NoTimerType DEF TypeOK
<1>3. ListCall("expire", expired) \in Frame
  BY <1>1, ListCallType
<1>4. stack' \in Frames
  <2>1. Enter(<<ListCall("expire", expired), Call("start", None),
                Call("reset", None)>>)
    BY DEF Timeout
  <2>. QED BY <1>3, <2>1, PlainFrames, FramesType, EnterType
<1>. QED BY <1>2, <1>4 DEF TypeOK, Timeout, Frames

\* A list that gets shorter is a frame.
LEMMA TodoType ==
  ASSUME TypeOK, ~Idle, NEW r
  PROVE  [Top EXCEPT !.todo = @ \ {r}] \in Frame
BY TopType DEF Frame

\* Keeps the types: deactivating the expired requests.
LEMMA ExpireType ==
  ASSUME TypeOK, Expire
  PROVE  TypeOK'
<1>1. ~Idle /\ Top.todo \in SUBSET Requests /\ Top.refs \in SUBSET Requests
  BY RunningTop, TopType DEF Expire
<1>2. req \in RequestMap /\ base \in BaseRecord
  BY DEF TypeOK, RequestMap
<1>3. CASE \E r \in Top.todo :
             /\ req' = DeactivateReq(req, base, r)
             /\ base' = DeactivateBase(req, base, r)
             /\ Become(<<[Top EXCEPT !.todo = @ \ {r}]>>)
  <2>1. PICK r \in Top.todo :
             /\ req' = DeactivateReq(req, base, r)
             /\ base' = DeactivateBase(req, base, r)
             /\ Become(<<[Top EXCEPT !.todo = @ \ {r}]>>)
    BY <1>3
  <2>2. r \in Requests
    BY <1>1
  <2>3. req' \in RequestMap /\ base' \in BaseRecord
    BY <1>2, <2>1, <2>2, DeactivateReqType, DeactivateBaseType
  <2>4. stack' \in Frames
    BY <1>1, <2>1, TodoType, FramesType, BecomeType
  <2>. QED BY <2>3, <2>4 DEF TypeOK, Expire, RequestMap, Frames
<1>4. CASE Become(<<ListCall("fail", Top.refs)>>) /\ UNCHANGED <<req, base>>
  <2>1. ListCall("fail", Top.refs) \in Frame
    BY <1>1, ListCallType
  <2>2. stack' \in Frames
    BY <1>1, <1>4, <2>1, FramesType, BecomeType
  <2>. QED BY <1>4, <2>2 DEF TypeOK, Expire, Frames
<1>. QED BY <1>3, <1>4 DEF Expire

\* Keeps the types: failing the listed requests.
LEMMA FailNextType ==
  ASSUME TypeOK, FailNext
  PROVE  TypeOK'
<1>1. ~Idle /\ Top.todo \in SUBSET Requests
  BY RunningTop, TopType DEF FailNext
<1>2. req \in RequestMap
  BY DEF TypeOK, RequestMap
<1>3. CASE \E r \in Top.todo :
             /\ req' = FailReq(req, r)
             /\ Become(FailCalls(req, r) \o <<ListCall("fail", Top.todo \ {r})>>)
  <2>1. PICK r \in Top.todo :
             /\ req' = FailReq(req, r)
             /\ Become(FailCalls(req, r) \o <<ListCall("fail", Top.todo \ {r})>>)
    BY <1>3
  <2>2. r \in Requests
    BY <1>1
  <2>3. req' \in RequestMap /\ FailCalls(req, r) \in Frames
    BY <1>2, <2>1, <2>2, FailReqType, FailCallsType
  <2>4. ListCall("fail", Top.todo \ {r}) \in Frame
    BY <1>1, ListCallType
  <2>5. stack' \in Frames
    BY <1>1, <2>1, <2>3, <2>4, FramesType, BecomeType
  <2>. QED BY <2>3, <2>5 DEF TypeOK, FailNext, RequestMap, Frames
<1>4. CASE Become(<<>>) /\ UNCHANGED req
  <2>1. stack' \in Frames
    BY <1>1, <1>4, FramesType, BecomeType
  <2>. QED BY <1>4, <2>1 DEF TypeOK, FailNext, Frames
<1>. QED BY <1>3, <1>4 DEF FailNext

\* Keeps the types: the passing of time.
LEMMA TickType ==
  ASSUME TypeOK, Tick
  PROVE  TypeOK'
<1>1. now' \in Nat \ {0}
  BY DEF TypeOK, Tick
<1>. QED BY <1>1 DEF TypeOK, Tick

\* Keeps the types: claiming the object for a group.
LEMMA BlockType ==
  ASSUME TypeOK, NEW g \in Groups, Block(g)
  PROVE  TypeOK'
<1>1. base' \in BaseRecord
  <2>1. base.waiting \in Seq(Groups) /\ Append(base.waiting, g) \in Seq(Groups)
    BY DEF TypeOK, BaseRecord
  <2>. QED BY <2>1 DEF Block, TypeOK, BaseRecord, MaybeGroup
<1>2. stack' \in Frames
  <2>1. Callback(None) \in Frames
    BY CallbackType DEF MaybeRequest
  <2>2. UNCHANGED stack \/ Enter(Callback(None))
    BY DEF Block
  <2>. QED BY <2>1, <2>2, EnterType DEF TypeOK, Frames
<1>. QED BY <1>1, <1>2 DEF TypeOK, Block, Frames

-----------------------------------------------------------------------------
(***************************************************************************)
(* radio_request.c                                                         *)
(***************************************************************************)

\* Keeps the types: unregistering a request.
LEMMA UnregisterType ==
  ASSUME TypeOK, Unregister
  PROVE  TypeOK'
<1>1. ~Idle /\ Top.op = "unregister"
  BY RunningTop DEF Unregister
<1>2. Top.r \in Requests
  BY <1>1, TopType DEF RequestOps
<1>3. req \in RequestMap
  BY DEF TypeOK, RequestMap
<1>4. req' \in RequestMap
  BY <1>2, <1>3, FieldType DEF Unregister
<1>5. stack' \in Frames
  BY <1>1, FramesType, BecomeType DEF Unregister
<1>. QED BY <1>4, <1>5 DEF TypeOK, Unregister, RequestMap, Frames

\* Keeps the types: cancelling a request.
LEMMA CancelType ==
  ASSUME TypeOK, NEW r \in Requests, Cancel(r)
  PROVE  TypeOK'
<1>1. req \in RequestMap
  BY DEF TypeOK, RequestMap
<1>2. req' \in RequestMap
  BY <1>1, ObjectCancelReqType DEF Cancel
<1>3. net' \in NetRecord
  BY CancelNetType DEF Cancel, TypeOK
<1>4. stack' \in Frames
  BY <1>1, ObjectCancelCallsType, EnterType DEF Cancel
<1>. QED BY <1>2, <1>3, <1>4 DEF TypeOK, Cancel, RequestMap, Frames

\* Keeps the types: giving up a reference.
LEMMA ReleaseType ==
  ASSUME TypeOK, NEW r \in Requests, Release(r)
  PROVE  TypeOK'
<1>1. [req[r] EXCEPT !.held = FALSE] \in RequestRecord
  BY DEF TypeOK, RequestRecord
<1>2. req' \in RequestMap
  BY <1>1 DEF Release, TypeOK, RequestMap
<1>. QED BY <1>2 DEF TypeOK, Release, RequestMap

\* Keeps the types: freeing a request.
LEMMA FreeType ==
  ASSUME TypeOK, NEW r \in Requests, Free(r)
  PROVE  TypeOK'
<1>1. req \in RequestMap
  BY DEF TypeOK, RequestMap
<1>2. req' \in RequestMap
  BY <1>1, ObjectCancelReqType DEF Free
<1>3. net' \in NetRecord
  BY CancelNetType DEF Free, TypeOK
<1>4. stack' \in Frames
  <2>1. Call("finish", r) \in Frame
    BY RequestCallType DEF Ops, ObservedOps
  <2>. QED BY <1>1, <2>1, ObjectCancelCallsType, FramesType, EnterType DEF Free
<1>. QED BY <1>2, <1>3, <1>4 DEF TypeOK, Free, RequestMap, Frames

\* Keeps the types: the last callback of a freed request.
LEMMA FinishType ==
  ASSUME TypeOK, Finish
  PROVE  TypeOK'
<1>1. ~Idle /\ Top.op = "finish"
  BY RunningTop DEF Finish
<1>2. Top.r \in Requests
  BY <1>1, TopType DEF RequestOps
<1>. DEFINE completes == req[Top.r].complete /\ req[Top.r].submitted
            q == IF completes THEN CompleteReq(req, Top.r) ELSE req
<1>3. q \in RequestMap
  BY <1>2, CompleteReqType DEF TypeOK, RequestMap
<1>4. req' \in RequestMap
  <2>1. req' = [q EXCEPT ![Top.r].freed = TRUE]
    BY DEF Finish
  <2>. HIDE DEF q
  <2>. QED BY <1>2, <1>3, <2>1, FieldType
<1>5. stack' \in Frames
  <2>1. Callback(Top.r) \in Frames
    BY <1>2, CallbackType DEF MaybeRequest
  <2>2. Become(<<>>) \/ Become(Callback(Top.r))
    BY DEF Finish
  <2>. QED BY <1>1, <2>1, <2>2, FramesType, BecomeType
<1>. QED BY <1>4, <1>5 DEF TypeOK, Finish, RequestMap, Frames

\* Keeps the types: changing the timeout of a request.
LEMMA SetTimeoutType ==
  ASSUME TypeOK, NEW r \in Requests, NEW ms \in Timeouts, SetTimeout(r, ms)
  PROVE  TypeOK'
<1>. DEFINE started == req[r].registered /\ req[r].state # "NEW"
            d == IF started THEN now + TimeoutOf(base, ms) ELSE req[r].deadline
            q == [req EXCEPT ![r] = [req[r] EXCEPT !.timeout = ms,
                                                   !.deadline = d]]
<1>1. ms \in Nat /\ base \in BaseRecord
  BY ConstantsAssumption DEF TypeOK
<1>2. d \in Int
  BY <1>1, TimeoutOfType DEF TypeOK, RequestRecord
<1>3. req' = q
  BY DEF SetTimeout
<1>4. q \in RequestMap
  <2>. HIDE DEF d
  <2>1. [req[r] EXCEPT !.timeout = ms, !.deadline = d] \in RequestRecord
    BY <1>1, <1>2 DEF TypeOK, RequestRecord
  <2>. QED BY <2>1 DEF TypeOK, RequestMap
<1>5. base' \in BaseRecord
  <2>1. UNCHANGED base \/ \E t \in ResetTimeout(q, base) :
                            base' = [base EXCEPT !.timer = t]
    BY DEF SetTimeout
  <2>. HIDE DEF q
  <2>. QED BY <1>1, <1>4, <2>1, ResetTimeoutType
<1>. QED BY <1>3, <1>4, <1>5 DEF TypeOK, SetTimeout, RequestMap

\* Keeps the types: changing the default timeout.
LEMMA SetDefaultTimeoutType ==
  ASSUME TypeOK, NEW ms \in Timeouts, SetDefaultTimeout(ms)
  PROVE  TypeOK'
<1>. DEFINE affected == {r \in base.active : req[r].timeout = 0}
            q == [r \in Requests |->
                    IF r \in affected
                    THEN [req[r] EXCEPT !.deadline = @ + (ms - base.timeout)]
                    ELSE req[r]]
            b == [base EXCEPT !.timeout = ms]
<1>1. ms \in Nat /\ base.timeout \in Nat
  BY ConstantsAssumption DEF TypeOK, BaseRecord
<1>2. q \in RequestMap
  <2>1. ASSUME NEW r \in Requests
        PROVE  [req[r] EXCEPT !.deadline = @ + (ms - base.timeout)]
                 \in RequestRecord
    <3>1. req[r].deadline + (ms - base.timeout) \in Int
      BY <1>1 DEF TypeOK, RequestRecord
    <3>. QED BY <3>1 DEF TypeOK, RequestRecord
  <2>. QED BY <2>1 DEF TypeOK, RequestMap
<1>3. b \in BaseRecord
  BY <1>1 DEF TypeOK, BaseRecord
<1>4. req' = q
  BY DEF SetDefaultTimeout
<1>5. base' \in BaseRecord
  <2>1. base' = b \/ \E t \in ResetTimeout(q, b) : base' = [b EXCEPT !.timer = t]
    BY DEF SetDefaultTimeout
  <2>. HIDE DEF q, b
  <2>. QED BY <1>2, <1>3, <2>1, ResetTimeoutType
<1>. QED BY <1>2, <1>4, <1>5 DEF TypeOK, SetDefaultTimeout, RequestMap

-----------------------------------------------------------------------------
(***************************************************************************)
(* radio_request_group.c                                                   *)
(***************************************************************************)

\* Keeps the types: ending the claim of a group.
LEMMA UnblockType ==
  ASSUME TypeOK, NEW g \in Groups, Unblock(g)
  PROVE  TypeOK'
<1>1. base' \in BaseRecord
  BY UnblockBaseType DEF Unblock, TypeOK
<1>2. stack' \in Frames
  BY UnblockCallsType, EnterType DEF Unblock
<1>. QED BY <1>1, <1>2 DEF TypeOK, Unblock, Frames

\* Keeps the types: freeing a group.
LEMMA FreeGroupType ==
  ASSUME TypeOK, NEW g \in Groups, FreeGroup(g)
  PROVE  TypeOK'
<1>1. base' \in BaseRecord
  <2>1. UnblockBase(g) \in BaseRecord
    BY UnblockBaseType DEF TypeOK
  <2>2. [UnblockBase(g) EXCEPT !.groups = @ \ {g}] \in BaseRecord
    BY <2>1 DEF BaseRecord
  <2>. QED BY <2>2 DEF FreeGroup
<1>2. [Call("unlink", None) EXCEPT !.g = g] \in Frame
  <2>1. Call("unlink", None) \in Frame
    BY PlainCallType DEF Ops, RequestOps
  <2>. QED BY <2>1 DEF Frame, MaybeGroup
<1>3. stack' \in Frames
  BY <1>2, UnblockCallsType, FramesType, EnterType DEF FreeGroup
<1>. QED BY <1>1, <1>3 DEF TypeOK, FreeGroup, Frames

\* Keeps the types: the members leaving a freed group.
LEMMA UnlinkType ==
  ASSUME TypeOK, Unlink
  PROVE  TypeOK'
<1>1. req' \in RequestMap
  BY UngroupType DEF Unlink, TypeOK, RequestMap
<1>2. stack' \in Frames
  BY RunningTop, FramesType, BecomeType DEF Unlink
<1>. QED BY <1>1, <1>2 DEF TypeOK, Unlink, RequestMap, Frames

\* Keeps the types: cancelling the requests of a group.
LEMMA CancelGroupType ==
  ASSUME TypeOK, NEW g \in Groups, CancelGroup(g)
  PROVE  TypeOK'
<1>1. req' \in RequestMap
  BY UngroupType DEF CancelGroup, TypeOK, RequestMap
<1>2. ListCall("cancel", Members(g)) \in Frame
  BY ListCallType DEF Members
<1>3. stack' \in Frames
  BY <1>2, FramesType, EnterType DEF CancelGroup
<1>. QED BY <1>1, <1>3 DEF TypeOK, CancelGroup, RequestMap, Frames

\* Keeps the types: cancelling the listed requests.
LEMMA CancelNextType ==
  ASSUME TypeOK, CancelNext
  PROVE  TypeOK'
<1>1. ~Idle /\ Top.todo \in SUBSET Requests
  BY RunningTop, TopType DEF CancelNext
<1>2. req \in RequestMap /\ net \in NetRecord
  BY DEF TypeOK, RequestMap
<1>3. CASE \E r \in Top.todo :
             /\ req' = Withdraw(ObjectCancelReq(req, r), r)
             /\ net' = CancelNet(req, r)
             /\ Become(ObjectCancelCalls(req, r)
                       \o <<[Top EXCEPT !.todo = @ \ {r}]>>)
  <2>1. PICK r \in Top.todo :
             /\ req' = Withdraw(ObjectCancelReq(req, r), r)
             /\ net' = CancelNet(req, r)
             /\ Become(ObjectCancelCalls(req, r)
                       \o <<[Top EXCEPT !.todo = @ \ {r}]>>)
    BY <1>3
  <2>2. r \in Requests
    BY <1>1
  <2>3. req' \in RequestMap /\ net' \in NetRecord
    BY <1>2, <2>1, <2>2, ObjectCancelReqType, CancelNetType
  <2>4. ObjectCancelCalls(req, r) \in Frames
    BY <1>2, <2>2, ObjectCancelCallsType
  <2>5. stack' \in Frames
    BY <1>1, <2>1, <2>4, TodoType, FramesType, BecomeType
  <2>. QED BY <2>3, <2>5 DEF TypeOK, CancelNext, RequestMap, Frames
<1>4. CASE Become(<<>>) /\ UNCHANGED <<req, net>>
  <2>1. stack' \in Frames
    BY <1>1, <1>4, FramesType, BecomeType
  <2>. QED BY <1>4, <2>1 DEF TypeOK, CancelNext, Frames
<1>. QED BY <1>3, <1>4 DEF CancelNext

-----------------------------------------------------------------------------
(***************************************************************************)
(* radio_client.c                                                          *)
(***************************************************************************)

\* What the death of the service does to the requests and their tables.
LEMMA HandleDeathType ==
  ASSUME TypeOK
  PROVE  /\ HandleDeathReq \in RequestMap
         /\ HandleDeathBase \in BaseRecord
         /\ ListCall("fail", base.active) \in Frame
<1>1. HandleDeathReq \in RequestMap
  <2>1. ASSUME NEW r \in Requests
        PROVE  [req[r] EXCEPT !.state = "QUEUED", !.next = None] \in RequestRecord
    <3>1. "QUEUED" \in States
      BY DEF States
    <3>. QED BY <3>1 DEF TypeOK, RequestRecord, MaybeRequest
  <2>. QED BY <2>1 DEF HandleDeathReq, TypeOK, RequestMap
<1>2. HandleDeathBase \in BaseRecord
  BY DEF HandleDeathBase, TypeOK, BaseRecord, MaybeRequest
<1>3. ListCall("fail", base.active) \in Frame
  BY ListCallType DEF TypeOK, BaseRecord
<1>. QED BY <1>1, <1>2, <1>3

\* Keeps the types: the death of the client's service.
LEMMA DeathType ==
  ASSUME TypeOK, Death
  PROVE  TypeOK'
<1>1. req' \in RequestMap /\ base' \in BaseRecord
  BY HandleDeathType DEF Death
<1>2. net' \in NetRecord /\ link' \in LinkRecord
  BY DEF Death, TypeOK, NetRecord, LinkRecord
<1>3. stack' \in Frames
  <2>1. Callback(None) \in Frames
    BY CallbackType DEF MaybeRequest
  <2>. QED BY <2>1, HandleDeathType, FramesType, EnterType DEF Death
<1>. QED BY <1>1, <1>2, <1>3 DEF TypeOK, Death, RequestMap, Frames

\* Keeps the types: the death of the config service.
LEMMA ConfigDeathType ==
  ASSUME TypeOK, ConfigDeath
  PROVE  TypeOK'
<1>1. net' \in NetRecord /\ link' \in LinkRecord
  BY DEF ConfigDeath, TypeOK, NetRecord, LinkRecord
<1>2. stack' \in Frames
  <2>1. Callback(None) \in Frames /\ Call("die", None) \in Frame
    BY CallbackType, PlainCallType DEF MaybeRequest, Ops, RequestOps
  <2>. QED BY <2>1, FramesType, EnterType DEF ConfigDeath
<1>. QED BY <1>1, <1>2 DEF TypeOK, ConfigDeath, Frames

\* Keeps the types: failing its requests.
LEMMA HandleDeathStepType ==
  ASSUME TypeOK, HandleDeath
  PROVE  TypeOK'
<1>1. req' \in RequestMap /\ base' \in BaseRecord
  BY HandleDeathType DEF HandleDeath
<1>2. stack' \in Frames
  BY HandleDeathType, RunningTop, FramesType, BecomeType DEF HandleDeath
<1>. QED BY <1>1, <1>2 DEF TypeOK, HandleDeath, RequestMap, Frames

\* Keeps the types: the radio service connecting.
LEMMA ConnectedType ==
  ASSUME TypeOK, Connected
  PROVE  TypeOK'
<1>1. link' \in LinkRecord
  BY DEF Connected, TypeOK, LinkRecord
<1>2. stack' \in Frames
  <2>1. Callback(None) \in Frames
    BY CallbackType DEF MaybeRequest
  <2>. QED BY <2>1, PlainFrames, FramesType, EnterType DEF Connected
<1>. QED BY <1>1, <1>2 DEF TypeOK, Connected, Frames

\* Keeps the types: finalizing the client.
LEMMA FinalizeType ==
  ASSUME TypeOK, Finalize
  PROVE  TypeOK'
<1>1. req' \in RequestMap
  <2>1. ASSUME NEW r \in Requests
        PROVE  [req[r] EXCEPT !.scheduled = 0, !.tx = 0, !.registered = FALSE]
                 \in RequestRecord
    BY DEF TypeOK, RequestRecord
  <2>. QED BY <2>1 DEF Finalize, FinalizeReq, TypeOK, RequestMap
<1>2. base' \in BaseRecord
  <2>1. FinalizeBase \in BaseRecord
    BY NoTimerType DEF FinalizeBase, TypeOK
  <2>. QED BY <2>1 DEF Finalize
<1>3. net' \in NetRecord
  BY DEF Finalize, FinalizeNet, TypeOK, NetRecord
<1>. QED BY <1>1, <1>2, <1>3 DEF TypeOK, Finalize, RequestMap

\* Keeps the types: a callback that returns.
LEMMA ReturnType ==
  ASSUME TypeOK, Return
  PROVE  TypeOK'
<1>1. stack' \in Frames
  BY RunningTop, FramesType, BecomeType DEF Return
<1>. QED BY <1>1 DEF TypeOK, Return, Frames

-----------------------------------------------------------------------------
\* The initial state is of the types.
LEMMA InitType == Init => TypeOK
<1>. SUFFICES ASSUME Init PROVE TypeOK
  OBVIOUS
<1>1. req \in [Requests -> RequestRecord]
  BY ConstantsAssumption
  DEF Init, RequestRecord, States, MaybeRequest, MaybeGroup
<1>2. base \in BaseRecord
  BY ConstantsAssumption DEF Init, BaseRecord, MaybeRequest, MaybeGroup
<1>3. net \in NetRecord
  BY DEF Init, NetRecord
<1>4. link \in LinkRecord
  BY DEF Init, LinkRecord
<1>5. stack \in Seq(Frame)
  BY DEF Init
<1>6. ret \in BOOLEAN
  BY DEF Init
<1>7. now \in Nat \ {0}
  BY DEF Init
<1>. QED BY <1>1, <1>2, <1>3, <1>4, <1>5, <1>6, <1>7 DEF TypeOK

\* Every step keeps the types.
LEMMA NextType ==
  ASSUME TypeOK, Next
  PROVE  TypeOK'
<1>1. CASE Event
  BY <1>1, RespondUnknownType, RespondRetryType, RespondDoneType, SentType,
     TimeoutType, TickType, DeathType, ConfigDeathType, ConnectedType DEF Event
<1>2. CASE User
  BY <1>2, SubmitType, RetryType, CancelType, ReleaseType, SetTimeoutType,
     SetDefaultTimeoutType, BlockType, UnblockType, FreeGroupType,
     CancelGroupType, FinalizeType DEF User
<1>3. CASE Continue
  BY <1>3, ScanStartType, ScanSkipType, ScanSendType, ScanFailType,
     ObservedType, ScanSentType,
     ScanEndType, SubmittedType, ResetType, DoneType, DropType,
     DroppedType, UnregisterType, FinishType, ExpireType, FailNextType,
     HandleDeathStepType, CancelNextType, UnlinkType, ReturnType, FreeType
  DEF Continue
<1>. QED BY <1>1, <1>2, <1>3 DEF Next

\* Every value the C structures hold is of its type, whatever the calls.
THEOREM TypeCorrect == Spec => []TypeOK
<1>1. TypeOK /\ [Next]_vars => TypeOK'
  <2>1. TypeOK /\ UNCHANGED vars => TypeOK'
    BY DEF TypeOK, vars
  <2>. QED BY <2>1, NextType
<1>. QED BY <1>1, InitType, PTL DEF Spec

-----------------------------------------------------------------------------
(***************************************************************************)
(* The completion callback of a request runs at most once: CompletionInv   *)
(* is an inductive invariant of RadioClient.                               *)
(*                                                                         *)
(* All steps but two are calm: they give no request its callback back, a   *)
(* callback that runs is forgotten, a request that is cancelled has none   *)
(* unless it is being freed, and no call that withholds a callback begins. *)
(* A calm step keeps CompletionInv.  The two others are Submit, which      *)
(* starts to withhold a callback, and Submitted, which restores it.        *)
(***************************************************************************)
\* What becomes of the requests in a calm step.
Calmer(q, u) ==
  \A x \in Requests :
    /\ u[x].complete => q[x].complete
    /\ \/ u[x].calls = q[x].calls
       \/ q[x].complete /\ ~u[x].complete /\ u[x].calls = q[x].calls + 1
    /\ u[x].state = "NEW" => q[x].state = "NEW"
    /\ q[x].dropped => u[x].dropped
    /\ u[x].dropped => q[x].dropped \/ ~u[x].complete \/ Freeing(x)'

\* No call of fs withholds a callback.
Quiet(fs) == \A i \in DOMAIN fs : fs[i].op # "submitted"

\* The calls that withhold a callback were in progress before, in the same
\* order: n calls have come and m have gone.
Shifted(n, m) ==
  \A i \in DOMAIN stack' :
    stack'[i].op = "submitted" =>
      i - n + m \in DOMAIN stack /\ stack'[i] = stack[i - n + m]

Calm == Calmer(req, req') /\ \E n, m \in Int : Shifted(n, m)

-----------------------------------------------------------------------------
(***************************************************************************)
(* Calm steps keep the invariant.                                          *)
(***************************************************************************)

\* A call that withholds a callback is about a request.
LEMMA WithheldRequest ==
  ASSUME TypeOK, NEW i \in DOMAIN stack, stack[i].op = "submitted"
  PROVE  stack[i].r \in Requests
<1>1. stack[i] \in Frame
  BY DEF TypeOK
<1>. QED BY <1>1 DEF Frame, RequestOps, MaybeRequest

\* A step that is calm keeps the completion invariant: no callback comes back,
\* and the calls that withhold one only move on the stack.
LEMMA CalmStep ==
  ASSUME TypeOK, TypeOK', CompletionInv, Calm
  PROVE  CompletionInv'
<1>1. \A x \in Requests : req[x].calls \in Nat
  BY DEF TypeOK, RequestRecord
<1>2. CallbackUnused'
  BY <1>1 DEF Calm, Calmer, CompletionInv, CallbackUnused
<1>3. CompleteOnce'
  BY <1>1 DEF Calm, Calmer, CompletionInv, CallbackUnused, CompleteOnce
<1>4. PICK n, m \in Int : Shifted(n, m)
  BY DEF Calm
<1>5. CallbackWithheld'
  <2>. SUFFICES ASSUME NEW i \in DOMAIN stack', stack'[i].op = "submitted"
                PROVE  /\ ~req'[stack'[i].r].complete
                       /\ req'[stack'[i].r].state # "NEW"
                       /\ stack'[i].some => req'[stack'[i].r].calls = 0
    BY DEF CallbackWithheld
  <2>. DEFINE j == i - n + m
  <2>1. j \in DOMAIN stack /\ stack'[i] = stack[j]
    BY <1>4 DEF Shifted
  <2>. HIDE DEF j
  <2>2. stack[j].r \in Requests
    BY <2>1, WithheldRequest
  <2>3. /\ ~req[stack[j].r].complete
        /\ req[stack[j].r].state # "NEW"
        /\ stack[j].some => req[stack[j].r].calls = 0
    BY <2>1 DEF CompletionInv, CallbackWithheld
  <2>. QED BY <2>1, <2>2, <2>3 DEF Calm, Calmer
<1>6. WithheldOnce'
  <2>. SUFFICES ASSUME NEW i \in DOMAIN stack', NEW j \in DOMAIN stack',
                       stack'[i].op = "submitted", stack'[j].op = "submitted",
                       stack'[i].r = stack'[j].r
                PROVE  i = j
    BY DEF WithheldOnce
  <2>1. /\ i - n + m \in DOMAIN stack /\ stack'[i] = stack[i - n + m]
        /\ j - n + m \in DOMAIN stack /\ stack'[j] = stack[j - n + m]
    BY <1>4 DEF Shifted
  <2>2. i - n + m = j - n + m
    BY <2>1 DEF CompletionInv, WithheldOnce
  <2>3. i \in Int /\ j \in Int
    BY DEF TypeOK
  <2>. QED BY <2>2, <2>3
<1>. QED BY <1>2, <1>3, <1>5, <1>6 DEF CompletionInv

-----------------------------------------------------------------------------
(***************************************************************************)
(* The stack in a calm step.                                               *)
(***************************************************************************)

\* When the running call goes on as quiet calls, the ones below it move.
LEMMA BecomeShifts ==
  ASSUME TypeOK, ~Idle, NEW fs \in Frames, Quiet(fs), Become(fs)
  PROVE  \E n, m \in Int : Shifted(n, m)
<1>. DEFINE n == Len(fs)
<1>1. n \in Int /\ stack \in Seq(Frame) /\ stack # <<>> /\ fs \in Seq(Frame)
  BY DEF TypeOK, Idle, Frames
<1>2. stack' = fs \o Tail(stack)
  BY DEF Become
<1>3. Shifted(n, 1)
  <2>. SUFFICES ASSUME NEW i \in DOMAIN stack', stack'[i].op = "submitted"
                PROVE  i - n + 1 \in DOMAIN stack /\ stack'[i] = stack[i - n + 1]
    BY DEF Shifted
  <2>1. i \in 1 .. (n + Len(stack) - 1)
    BY <1>1, <1>2
  <2>2. ~(i <= n)
    BY <1>1, <1>2, <2>1 DEF Quiet
  <2>. QED BY <1>1, <1>2, <2>1, <2>2
<1>. QED BY <1>1, <1>3

\* When quiet calls precede the running one, all calls move.
LEMMA EnterShifts ==
  ASSUME TypeOK, NEW fs \in Frames, Quiet(fs), Enter(fs)
  PROVE  \E n, m \in Int : Shifted(n, m)
<1>. DEFINE n == Len(fs)
<1>1. n \in Int /\ stack \in Seq(Frame) /\ fs \in Seq(Frame)
  BY DEF TypeOK, Frames
<1>2. stack' = fs \o stack
  BY DEF Enter
<1>3. Shifted(n, 0)
  <2>. SUFFICES ASSUME NEW i \in DOMAIN stack', stack'[i].op = "submitted"
                PROVE  i - n + 0 \in DOMAIN stack /\ stack'[i] = stack[i - n + 0]
    BY DEF Shifted
  <2>1. i \in 1 .. (n + Len(stack))
    BY <1>1, <1>2
  <2>2. ~(i <= n)
    BY <1>1, <1>2, <2>1 DEF Quiet
  <2>. QED BY <1>1, <1>2, <2>1, <2>2
<1>. QED BY <1>1, <1>3

\* Calls that stay where they are move by nothing.
LEMMA SameStackShifts ==
  ASSUME TypeOK, UNCHANGED stack
  PROVE  \E n, m \in Int : Shifted(n, m)
<1>1. Shifted(0, 0)
  BY DEF Shifted, TypeOK
<1>. QED BY <1>1

\* Sequences of calls without such a call.
LEMMA QuietFrames ==
  /\ Quiet(<<>>)
  /\ \A f \in Frame : f.op # "submitted" => Quiet(<<f>>)
  /\ \A f, h \in Frame :
       f.op # "submitted" /\ h.op # "submitted" => Quiet(<<f, h>>)
  /\ \A f, h, k \in Frame :
       f.op # "submitted" /\ h.op # "submitted" /\ k.op # "submitted"
         => Quiet(<<f, h, k>>)
BY DEF Quiet

\* Quiet calls followed by quiet calls.
LEMMA QuietConcat ==
  ASSUME NEW s \in Frames, NEW t \in Frames, Quiet(s), Quiet(t)
  PROVE  Quiet(s \o t)
BY DEF Quiet, Frames

\* A user's callback withholds nothing.
LEMMA QuietCallback ==
  ASSUME NEW r
  PROVE  Quiet(Callback(r))
BY DEF Quiet, Callback, Call

\* Neither do the calls of radio_request_object_cancel.
LEMMA QuietCalls ==
  ASSUME NEW q, NEW r
  PROVE  /\ Quiet(CompleteCalls(q, r))
         /\ Quiet(ObjectCancelCalls(q, r))
<1>1. Quiet(CompleteCalls(q, r))
  BY QuietCallback, QuietFrames DEF CompleteCalls
<1>2. Quiet(ObjectCancelCalls(q, r))
  BY DEF Quiet, ObjectCancelCalls, Call
<1>. QED BY <1>1, <1>2

\* Nor those that follow a failure.
LEMMA QuietFailCalls ==
  ASSUME NEW q \in RequestMap, NEW r \in Requests
  PROVE  Quiet(FailCalls(q, r))
<1>1. Call("drop", r) \in Frame
  BY RequestCallType DEF Ops, ObservedOps
<1>2. Quiet(<<Call("drop", r)>>)
  BY DEF Quiet, Call
<1>. QED BY <1>1, <1>2, QuietCalls, QuietConcat, FailCallsType, FramesType
     DEF FailCalls

\* Nor those of radio_base_unblock.
LEMMA QuietUnblockCalls ==
  ASSUME NEW g
  PROVE  Quiet(UnblockCalls(g))
<1>1. Call("start", None) \in Frame /\ Call("unblocked", None) \in Frame
  BY PlainCallType DEF Ops, RequestOps
<1>2. Quiet(<<Call("start", None), Call("unblocked", None)>>)
  BY DEF Quiet, Call
<1>3. Callback(None) \in Frames
  BY CallbackType DEF MaybeRequest
<1>. QED BY <1>1, <1>2, <1>3, QuietCallback, QuietConcat, QuietFrames, FramesType
     DEF UnblockCalls

-----------------------------------------------------------------------------
(***************************************************************************)
(* The requests in a calm step.                                            *)
(***************************************************************************)

\* Requests that stay as they are change calmly.
LEMMA CalmerSame ==
  ASSUME NEW q
  PROVE  Calmer(q, q)
BY DEF Calmer

\* Calm changes follow each other.
LEMMA CalmerTransitive ==
  ASSUME NEW q, NEW u, NEW v, Calmer(q, u), Calmer(u, v)
  PROVE  Calmer(q, v)
BY DEF Calmer

\* The changes radio_base.c makes to requests it does not complete.
LEMMA CalmerBase ==
  ASSUME NEW q \in RequestMap, NEW b, NEW r \in Requests, NEW p
  PROVE  /\ Calmer(q, CancelReq(q, r))
         /\ Calmer(q, QueueReq(q, b, r))
         /\ Calmer(q, UnlinkReq(q, r, p))
         /\ Calmer(q, DeactivateReq(q, b, r))
         /\ Calmer(q, NewSerialReq(q, r))
<1>1. Calmer(q, CancelReq(q, r))
  BY DEF Calmer, CancelReq, RequestMap, RequestRecord
<1>2. Calmer(q, QueueReq(q, b, r))
  BY DEF Calmer, QueueReq, RequestMap, RequestRecord
<1>3. ASSUME NEW x
      PROVE  Calmer(q, UnlinkReq(q, r, x))
  BY DEF Calmer, UnlinkReq, RequestMap, RequestRecord
<1>4. Calmer(q, DeactivateReq(q, b, r))
  BY <1>3, CalmerSame DEF DeactivateReq
<1>5. Calmer(q, NewSerialReq(q, r))
  BY DEF Calmer, NewSerialReq, RequestMap, RequestRecord
<1>. QED BY <1>1, <1>2, <1>3, <1>4, <1>5

\* A new state.
LEMMA CalmerState ==
  ASSUME NEW q \in RequestMap, NEW r \in Requests, NEW s, s # "NEW"
  PROVE  Calmer(q, [q EXCEPT ![r].state = s])
BY DEF Calmer, RequestMap, RequestRecord

\* A callback that runs is forgotten.
LEMMA CalmerComplete ==
  ASSUME NEW q \in RequestMap, NEW r \in Requests
  PROVE  Calmer(q, CompleteReq(q, r)) /\ Calmer(q, FailReq(q, r))
<1>1. ASSUME NEW u \in RequestMap
      PROVE  Calmer(u, CompleteReq(u, r))
  BY DEF Calmer, CompleteReq, RequestMap, RequestRecord
<1>2. "FAILED" \in States
  BY DEF States
<1>3. /\ [q EXCEPT ![r].state = "FAILED"] \in RequestMap
      /\ Calmer(q, [q EXCEPT ![r].state = "FAILED"])
  BY <1>2, StateType, CalmerState
<1>. QED BY <1>1, <1>3, CalmerTransitive DEF FailReq

\* The changes radio_request.c makes.
LEMMA CalmerCancel ==
  ASSUME NEW q \in RequestMap, NEW r \in Requests
  PROVE  /\ Freeing(r)' => Calmer(q, ObjectCancelReq(q, r))
         /\ Calmer(q, Withdraw(ObjectCancelReq(q, r), r))
<1>1. Freeing(r)' => Calmer(q, ObjectCancelReq(q, r))
  BY DEF Calmer, ObjectCancelReq, CancelReq, RequestMap, RequestRecord
<1>2. /\ ObjectCancelReq(q, r) \in RequestMap
      /\ \A x \in Requests : x # r => ObjectCancelReq(q, r)[x] = q[x]
      /\ ObjectCancelReq(q, r)[r].calls = q[r].calls
      /\ ObjectCancelReq(q, r)[r].state = q[r].state
      /\ q[r].dropped => ObjectCancelReq(q, r)[r].dropped
  <2>1. PICK u \in RequestMap : u = CancelReq(q, r)
    BY CancelReqType
  <2>2. /\ \A x \in Requests : x # r => u[x] = q[x]
        /\ u[r].calls = q[r].calls /\ u[r].state = q[r].state
    BY <2>1 DEF CancelReq, RequestMap, RequestRecord
  <2>3. /\ \A x \in Requests : x # r => ObjectCancelReq(q, r)[x] = u[x]
        /\ ObjectCancelReq(q, r)[r].calls = u[r].calls
        /\ ObjectCancelReq(q, r)[r].state = u[r].state
        /\ ObjectCancelReq(q, r)[r].dropped
    BY <2>1 DEF ObjectCancelReq, RequestMap, RequestRecord
  <2>. QED BY <2>2, <2>3, ObjectCancelReqType
<1>3. ASSUME NEW u \in RequestMap
      PROVE  /\ \A x \in Requests : x # r => Withdraw(u, r)[x] = u[x]
             /\ ~Withdraw(u, r)[r].complete
             /\ Withdraw(u, r)[r].calls = u[r].calls
             /\ Withdraw(u, r)[r].state = "NEW" => u[r].state = "NEW"
             /\ u[r].dropped => Withdraw(u, r)[r].dropped
  BY DEF Withdraw, RequestMap, RequestRecord
<1>. QED BY <1>1, <1>2, <1>3 DEF Calmer

-----------------------------------------------------------------------------
(***************************************************************************)
(* The calm steps.                                                         *)
(***************************************************************************)

\* Steps of a call in progress that leave the requests alone, and end it or
\* go on with one call.
LEMMA CalmBecome ==
  ASSUME TypeOK, ~Idle, UNCHANGED req,
         \/ Become(<<>>)
         \/ \E f \in Frame : f.op # "submitted" /\ Become(<<f>>)
  PROVE  Calm
<1>1. \E fs \in Frames : Quiet(fs) /\ Become(fs)
  BY QuietFrames, FramesType
<1>. QED BY <1>1, BecomeShifts, CalmerSame DEF Calm

\* Steps that return to the caller.
LEMMA CalmReturns ==
  ASSUME TypeOK, Reset \/ ScanEnd \/ Return
  PROVE  Calm
<1>1. ~Idle /\ Become(<<>>) /\ UNCHANGED req
  BY RunningTop DEF Reset, ScanEnd, Return
<1>. QED BY <1>1, CalmBecome

\* Calm: starting a scan of the queue.
LEMMA CalmScanStart ==
  ASSUME TypeOK, ScanStart
  PROVE  Calm
<1>1. ~Idle /\ UNCHANGED req
  BY RunningTop DEF ScanStart
<1>2. Call("scan", base.first) \in Frame
  BY CallType DEF Ops, RequestOps, ObservedOps, TypeOK, BaseRecord
<1>3. Call("scan", base.first).op # "submitted"
  BY DEF Call
<1>. QED BY <1>1, <1>2, <1>3, CalmBecome DEF ScanStart

\* Calm: passing over a request that may not be sent.
LEMMA CalmScanSkip ==
  ASSUME TypeOK, ScanSkip
  PROVE  Calm
<1>1. PICK r \in Requests :
        Scanning(r) /\ Become(<<[Top EXCEPT !.r = req[r].next, !.prev = r]>>)
  BY DEF ScanSkip
<1>2. Running("scan") /\ ~Idle /\ Top.op = "scan" /\ UNCHANGED req
  BY <1>1, RunningTop DEF Scanning, ScanSkip
<1>3. r \in MaybeRequest /\ req[r].next \in MaybeRequest
  BY DEF TypeOK, RequestRecord, MaybeRequest
<1>4. [Top EXCEPT !.r = req[r].next, !.prev = r] \in Frame
  BY <1>2, <1>3, ScanFrameType
<1>5. [Top EXCEPT !.r = req[r].next, !.prev = r].op # "submitted"
  BY <1>2, TopType DEF Frame
<1>. QED BY <1>1, <1>2, <1>4, <1>5, CalmBecome

\* Calm: marking the blocking request, or going on with the scan.
LEMMA CalmScanSent ==
  ASSUME TypeOK, ScanSent
  PROVE  Calm
<1>1. ~Idle /\ Top.op = "sent" /\ UNCHANGED req
  BY RunningTop DEF ScanSent
<1>2. Top \in Frame /\ Top.r \in MaybeRequest /\ Top.next \in MaybeRequest
  BY <1>1, TopType
<1>3. /\ [Top EXCEPT !.op = "scan", !.r = None] \in Frame
      /\ [Top EXCEPT !.op = "scan", !.r = Top.next] \in Frame
      /\ [Top EXCEPT !.op = "scan", !.r = None].op = "scan"
      /\ [Top EXCEPT !.op = "scan", !.r = Top.next].op = "scan"
  BY <1>2 DEF Frame, Ops, RequestOps, ObservedOps, MaybeRequest
<1>. QED BY <1>1, <1>3, CalmBecome DEF ScanSent

\* Calm: sending a request.
LEMMA CalmScanSend ==
  ASSUME TypeOK, ScanSend
  PROVE  Calm
<1>1. PICK r \in Requests :
       /\ Scanning(r)
       /\ LET q1 == NewSerialReq(UnlinkReq(req, r, Top.prev), r)
              q2 == [q1 EXCEPT ![r] = [@ EXCEPT !.scheduled = 0,
                                                !.state = "PENDING",
                                                !.tx = q1[r].sends]]
              b1 == NewSerialBase(req, UnlinkBase(req, base, r, Top.prev), r)
              b2 == [b1 EXCEPT !.pending = @ \cup {r}]
          IN  /\ req' = q2
              /\ Become((IF MovesOwner(q2, b2) THEN Callback(None) ELSE <<>>)
                        \o <<[Top EXCEPT !.op = "sent", !.next = req[r].next,
                                         !.some = TRUE]>>)
  BY DEF ScanSend
<1>. DEFINE q0 == UnlinkReq(req, r, Top.prev)
            q1 == NewSerialReq(q0, r)
            q2 == [q1 EXCEPT ![r] = [@ EXCEPT !.scheduled = 0,
                                              !.state = "PENDING",
                                              !.tx = q1[r].sends]]
            b1 == NewSerialBase(req, UnlinkBase(req, base, r, Top.prev), r)
            b2 == [b1 EXCEPT !.pending = @ \cup {r}]
            f == [Top EXCEPT !.op = "sent", !.next = req[r].next, !.some = TRUE]
            cs == IF MovesOwner(q2, b2) THEN Callback(None) ELSE <<>>
<1>2. ~Idle /\ Top \in Frame /\ r = Top.r
  BY <1>1, RunningTop, TopType DEF Scanning
<1>3. Calmer(req, req')
  <2>1. q0 \in RequestMap /\ q1 \in RequestMap
    BY UnlinkReqType, NewSerialReqType DEF TypeOK, RequestMap
  <2>2. Calmer(req, q0) /\ Calmer(q0, q1)
    BY <2>1, CalmerBase DEF TypeOK, RequestMap
  <2>3. Calmer(q1, q2)
    <3>. HIDE DEF q1
    <3>. QED BY <2>1 DEF Calmer, RequestMap, RequestRecord
  <2>. QED BY <1>1, <2>2, <2>3, CalmerTransitive
<1>4. f \in Frame /\ f.op = "sent"
  <2>1. req[r].next \in MaybeRequest
    BY DEF TypeOK, RequestRecord
  <2>2. Top.r # None
    BY <1>2, ConstantsAssumption
  <2>. QED BY <1>2, <2>1, <2>2 DEF Frame, Ops, ObservedOps
<1>5. cs \in Frames /\ Quiet(cs)
  BY CallbackType, QuietCallback, FramesType, QuietFrames DEF MaybeRequest
<1>6. cs \o <<f>> \in Frames /\ Quiet(cs \o <<f>>) /\ Become(cs \o <<f>>)
  <2>1. Become(cs \o <<f>>)
    BY <1>1
  <2>. HIDE DEF f, cs
  <2>2. <<f>> \in Frames /\ Quiet(<<f>>)
    BY <1>4, FramesType, QuietFrames
  <2>. QED BY <1>5, <2>1, <2>2, FramesType, QuietConcat
<1>. QED BY <1>2, <1>3, <1>6, BecomeShifts DEF Calm

\* Calm: failing to send a request.
LEMMA CalmScanFail ==
  ASSUME TypeOK, ScanFail
  PROVE  Calm
<1>1. PICK r \in Requests :
       /\ Scanning(r)
       /\ LET q == NewSerialReq(UnlinkReq(req, r, Top.prev), r)
          IN  /\ req' = FailReq(q, r)
              /\ Become(FailCalls(q, r)
                        \o <<[Top EXCEPT !.r = req[r].next]>>)
  BY DEF ScanFail
<1>. DEFINE q0 == UnlinkReq(req, r, Top.prev)
            q == NewSerialReq(q0, r)
            f == [Top EXCEPT !.r = req[r].next]
<1>2. Running("scan") /\ ~Idle /\ Top.op = "scan" /\ Top \in Frame
  BY <1>1, RunningTop, TopType DEF Scanning
<1>3. q0 \in RequestMap /\ q \in RequestMap
  BY UnlinkReqType, NewSerialReqType DEF TypeOK, RequestMap
<1>4. Calmer(req, req')
  <2>1. Calmer(req, q0) /\ Calmer(q0, q) /\ Calmer(q, FailReq(q, r))
    BY <1>3, CalmerBase, CalmerComplete DEF TypeOK, RequestMap
  <2>. QED BY <1>1, <2>1, CalmerTransitive
<1>5. f \in Frame /\ f.op = "scan"
  <2>1. req[r].next \in MaybeRequest
    BY DEF TypeOK, RequestRecord
  <2>. QED BY <1>2, <2>1, ScanFrameType DEF Frame
<1>6. /\ FailCalls(q, r) \o <<f>> \in Frames
      /\ Quiet(FailCalls(q, r) \o <<f>>)
      /\ Become(FailCalls(q, r) \o <<f>>)
  <2>1. FailCalls(q, r) \in Frames /\ Quiet(FailCalls(q, r))
    BY <1>3, FailCallsType, QuietFailCalls
  <2>2. Become(FailCalls(q, r) \o <<f>>)
    BY <1>1
  <2>. HIDE DEF f, q
  <2>3. <<f>> \in Frames /\ Quiet(<<f>>)
    BY <1>5, FramesType, QuietFrames
  <2>. QED BY <2>1, <2>2, <2>3, FramesType, QuietConcat
<1>. QED BY <1>2, <1>4, <1>6, BecomeShifts DEF Calm

\* Calm: telling the observers, and what comes of it.
LEMMA CalmObserved ==
  ASSUME TypeOK, ScanTell \/ Accept \/ Refuse \/ Refused
  PROVE  Calm
<1>0. req \in RequestMap
  BY DEF TypeOK, RequestMap
<1>1. CASE ScanTell
  <2>1. PICK r \in Requests, n \in Nat : Tells(r, n)
    BY <1>1, TellStep
  <2>. DEFINE q == UnlinkReq(req, r, Top.prev)
              f == [Top EXCEPT !.op = "send", !.next = req[r].next]
  <2>2. Calmer(req, q)
    BY <1>0, CalmerBase
  <2>5. q \in RequestMap /\ req' = [q EXCEPT ![r] = [@ EXCEPT !.serial2 = n]]
    BY <2>1 DEF Tells
  <2>. HIDE DEF q
  <2>6. Calmer(q, req')
    BY <2>5 DEF Calmer, RequestMap, RequestRecord
  <2>3. f \in Frame /\ f.op # "submitted" /\ Become(Callback(None) \o <<f>>)
    BY <2>1 DEF Tells
  <2>. HIDE DEF f
  <2>4. /\ Callback(None) \o <<f>> \in Frames
        /\ Quiet(Callback(None) \o <<f>>)
    BY <2>3, CallbackType, QuietCallback, QuietFrames, QuietConcat, FramesType
    DEF MaybeRequest
  <2>. QED BY <2>1, <2>2, <2>3, <2>4, <2>6, CalmerTransitive, BecomeShifts
       DEF Calm, Tells
<1>2. CASE Accept
  <2>1. PICK q, b, f : Transacts(q, b, f)
    BY <1>2, TransactStep
  <2>. DEFINE cs == IF MovesOwner(q, b) THEN Callback(None) ELSE <<>>
  <2>2. Calmer(req, req')
    BY <1>0, <2>1 DEF Transacts, Calmer, RequestMap, RequestRecord
  <2>3. /\ f \in Frame /\ f.op # "submitted" /\ ~Idle
        /\ cs \in Frames /\ Become(cs \o <<f>>) /\ Quiet(cs)
    BY <2>1, QuietCallback, QuietFrames DEF Transacts, Frame
  <2>. HIDE DEF cs
  <2>4. cs \o <<f>> \in Frames /\ Quiet(cs \o <<f>>)
    BY <2>3, QuietFrames, QuietConcat, FramesType
  <2>. QED BY <2>2, <2>3, <2>4, BecomeShifts DEF Calm
<1>3. CASE Refuse
  <2>1. ~Idle /\ UNCHANGED req /\ Top.op = "send"
    BY <1>3, RunningTop DEF Refuse
  <2>2. /\ [Top EXCEPT !.op = "refused"] \in Frame
        /\ [Top EXCEPT !.op = "refused"].op # "submitted"
    BY <2>1, TopType DEF Frame, Ops, RequestOps, ObservedOps
  <2>. QED BY <1>3, <2>1, <2>2, CalmBecome DEF Refuse
<1>4. CASE Refused
  <2>1. PICK q, f : Refusing(q, f)
    BY <1>4, RefusedStep
  <2>2. Calmer(req, q) /\ Calmer(q, FailReq(q, Top.r))
    <3>1. Calmer(req, q)
      BY <1>0, <2>1 DEF Refusing, Calmer, RequestMap, RequestRecord
    <3>. QED BY <2>1, <3>1, CalmerComplete DEF Refusing
  <2>3. /\ f \in Frame /\ f.op # "submitted" /\ ~Idle
        /\ FailCalls(q, Top.r) \in Frames /\ Quiet(FailCalls(q, Top.r))
        /\ Become(FailCalls(q, Top.r) \o <<f>>)
    BY <2>1, QuietFailCalls DEF Refusing, Frame
  <2>4. /\ FailCalls(q, Top.r) \o <<f>> \in Frames
        /\ Quiet(FailCalls(q, Top.r) \o <<f>>)
    BY <2>3, QuietFrames, QuietConcat, FramesType
  <2>. QED BY <2>1, <2>2, <2>3, <2>4, CalmerTransitive, BecomeShifts
       DEF Calm, Refusing
<1>. QED BY <1>1, <1>2, <1>3, <1>4

\* Calm: dropping a request.
LEMMA CalmDrop ==
  ASSUME TypeOK, Drop
  PROVE  Calm
<1>1. ~Idle /\ Top.r \in Requests
  BY RunningTop, TopType DEF Drop, RequestOps
<1>2. Calmer(req, req')
  <2>1. CancelReq(req, Top.r) \in RequestMap /\ req \in RequestMap
    BY <1>1, CancelReqType DEF TypeOK, RequestMap
  <2>. QED BY <1>1, <2>1, CalmerBase, CalmerTransitive DEF Drop
<1>3. Call("dropped", Top.r) \in Frame
  BY <1>1, RequestCallType DEF Ops, ObservedOps
<1>4. Quiet(<<Call("start", None), Call("dropped", Top.r)>>)
  BY DEF Quiet, Call
<1>. QED BY <1>1, <1>2, <1>3, <1>4, PlainFrames, FramesType, BecomeShifts
     DEF Calm, Drop

\* Calm: the end of dropping a request.
LEMMA CalmDropped ==
  ASSUME TypeOK, Dropped
  PROVE  Calm
<1>1. ~Idle /\ Top.r \in Requests /\ Become(<<>>)
  BY RunningTop, TopType DEF Dropped, RequestOps
<1>2. Calmer(req, req')
  <2>. DEFINE s == IF req[Top.r].state \in Live THEN "CANCELLED"
                   ELSE req[Top.r].state
  <2>1. s # "NEW"
    BY DEF Live
  <2>2. req' = [req EXCEPT ![Top.r].state = s]
    BY <1>1 DEF Dropped, TypeOK
  <2>. HIDE DEF s
  <2>. QED BY <1>1, <2>1, <2>2, CalmerState DEF TypeOK, RequestMap
<1>. QED BY <1>1, <1>2, FramesType, QuietFrames, BecomeShifts DEF Calm

\* Calm: the callback of an answered request.
LEMMA CalmDone ==
  ASSUME TypeOK, Done
  PROVE  Calm
<1>1. ~Idle /\ Top.r \in Requests /\ req \in RequestMap
  BY RunningTop, TopType DEF Done, RequestOps, TypeOK, RequestMap
<1>. QED BY <1>1, CalmerComplete, FailCallsType, QuietCalls, BecomeShifts
     DEF Calm, Done

\* Calm: unregistering a request.
LEMMA CalmUnregister ==
  ASSUME TypeOK, Unregister
  PROVE  Calm
<1>1. ~Idle /\ Top.r \in Requests /\ req \in RequestMap /\ Become(<<>>)
  BY RunningTop, TopType DEF Unregister, RequestOps, TypeOK, RequestMap
<1>2. ASSUME NEW r \in Requests
      PROVE  Calmer(req, [req EXCEPT ![r] = [@ EXCEPT !.registered = FALSE,
                                                      !.serial2 = 0]])
  BY <1>1 DEF Calmer, RequestMap, RequestRecord
<1>. QED BY <1>1, <1>2, CalmerSame, FramesType, QuietFrames, BecomeShifts
     DEF Calm, Unregister

\* Calm: the last callback of a freed request.
LEMMA CalmFinish ==
  ASSUME TypeOK, Finish
  PROVE  Calm
<1>1. ~Idle /\ Top.r \in Requests /\ req \in RequestMap
  BY RunningTop, TopType DEF Finish, RequestOps, TypeOK, RequestMap
<1>. DEFINE q == IF req[Top.r].complete /\ req[Top.r].submitted
                 THEN CompleteReq(req, Top.r) ELSE req
<1>2. q \in RequestMap /\ Calmer(req, q)
  BY <1>1, CompleteReqType, CalmerComplete, CalmerSame
<1>3. Calmer(req, req')
  <2>1. req' = [q EXCEPT ![Top.r].freed = TRUE]
    BY DEF Finish
  <2>. HIDE DEF q
  <2>2. ASSUME NEW r \in Requests
        PROVE  Calmer(q, [q EXCEPT ![r].freed = TRUE])
    BY <1>2 DEF Calmer, RequestMap, RequestRecord
  <2>. QED BY <1>1, <1>2, <2>1, <2>2, CalmerTransitive
<1>4. Become(<<>>) \/ Become(Callback(Top.r))
  BY DEF Finish
<1>5. Callback(Top.r) \in Frames /\ Quiet(Callback(Top.r))
  BY <1>1, CallbackType, QuietCallback DEF MaybeRequest
<1>. QED BY <1>1, <1>3, <1>4, <1>5, FramesType, QuietFrames, BecomeShifts
     DEF Calm

\* Calm: deactivating the expired requests.
LEMMA CalmExpire ==
  ASSUME TypeOK, Expire
  PROVE  Calm
<1>1. /\ ~Idle /\ Top.op = "expire" /\ req \in RequestMap /\ Top \in Frame
      /\ Top.todo \in SUBSET Requests /\ Top.refs \in SUBSET Requests
  BY RunningTop, TopType DEF Expire, TypeOK, RequestMap
<1>2. CASE \E r \in Top.todo :
             /\ req' = DeactivateReq(req, base, r)
             /\ Become(<<[Top EXCEPT !.todo = @ \ {r}]>>)
  <2>1. PICK r \in Top.todo :
             /\ req' = DeactivateReq(req, base, r)
             /\ Become(<<[Top EXCEPT !.todo = @ \ {r}]>>)
    BY <1>2
  <2>2. [Top EXCEPT !.todo = @ \ {r}] \in Frame
    BY <1>1, TodoType
  <2>3. [Top EXCEPT !.todo = @ \ {r}].op # "submitted"
    BY <1>1 DEF Frame
  <2>4. Calmer(req, req')
    BY <1>1, <2>1, CalmerBase
  <2>. QED BY <1>1, <2>1, <2>2, <2>3, <2>4, FramesType, QuietFrames, BecomeShifts
       DEF Calm
<1>3. CASE Become(<<ListCall("fail", Top.refs)>>) /\ UNCHANGED req
  <2>1. ListCall("fail", Top.refs) \in Frame
    BY <1>1, ListCallType
  <2>2. ListCall("fail", Top.refs).op # "submitted"
    BY DEF ListCall, Call
  <2>. QED BY <1>1, <1>3, <2>1, <2>2, CalmBecome
<1>. QED BY <1>2, <1>3 DEF Expire

\* Calm: failing the listed requests.
LEMMA CalmFailNext ==
  ASSUME TypeOK, FailNext
  PROVE  Calm
<1>1. ~Idle /\ req \in RequestMap /\ Top.todo \in SUBSET Requests
  BY RunningTop, TopType DEF FailNext, TypeOK, RequestMap
<1>2. CASE \E r \in Top.todo :
             /\ req' = FailReq(req, r)
             /\ Become(FailCalls(req, r) \o <<ListCall("fail", Top.todo \ {r})>>)
  <2>1. PICK r \in Top.todo :
             /\ req' = FailReq(req, r)
             /\ Become(FailCalls(req, r) \o <<ListCall("fail", Top.todo \ {r})>>)
    BY <1>2
  <2>2. r \in Requests
    BY <1>1
  <2>3. Calmer(req, req')
    BY <1>1, <2>1, <2>2, CalmerComplete
  <2>4. FailCalls(req, r) \in Frames /\ Quiet(FailCalls(req, r))
    BY <1>1, <2>2, FailCallsType, QuietFailCalls
  <2>5. ListCall("fail", Top.todo \ {r}) \in Frame
    BY <1>1, ListCallType
  <2>6. ListCall("fail", Top.todo \ {r}).op # "submitted"
    BY DEF ListCall, Call
  <2>. QED BY <1>1, <2>1, <2>3, <2>4, <2>5, <2>6, FramesType, QuietFrames,
           QuietConcat, BecomeShifts DEF Calm
<1>3. CASE Become(<<>>) /\ UNCHANGED req
  BY <1>1, <1>3, CalmBecome
<1>. QED BY <1>2, <1>3 DEF FailNext

\* Calm: cancelling the listed requests.
LEMMA CalmCancelNext ==
  ASSUME TypeOK, CancelNext
  PROVE  Calm
<1>1. /\ ~Idle /\ Top.op = "cancel" /\ req \in RequestMap /\ Top \in Frame
      /\ Top.todo \in SUBSET Requests
  BY RunningTop, TopType DEF CancelNext, TypeOK, RequestMap
<1>2. CASE \E r \in Top.todo :
             /\ req' = Withdraw(ObjectCancelReq(req, r), r)
             /\ Become(ObjectCancelCalls(req, r)
                       \o <<[Top EXCEPT !.todo = @ \ {r}]>>)
  <2>1. PICK r \in Top.todo :
             /\ req' = Withdraw(ObjectCancelReq(req, r), r)
             /\ Become(ObjectCancelCalls(req, r)
                       \o <<[Top EXCEPT !.todo = @ \ {r}]>>)
    BY <1>2
  <2>2. r \in Requests
    BY <1>1
  <2>3. Calmer(req, req')
    BY <1>1, <2>1, <2>2, CalmerCancel
  <2>4. ObjectCancelCalls(req, r) \in Frames /\ Quiet(ObjectCancelCalls(req, r))
    BY <1>1, <2>2, ObjectCancelCallsType, QuietCalls
  <2>5. [Top EXCEPT !.todo = @ \ {r}] \in Frame
    BY <1>1, TodoType
  <2>6. [Top EXCEPT !.todo = @ \ {r}].op # "submitted"
    BY <1>1 DEF Frame
  <2>. QED BY <1>1, <2>1, <2>3, <2>4, <2>5, <2>6, FramesType, QuietFrames,
           QuietConcat, BecomeShifts DEF Calm
<1>3. CASE Become(<<>>) /\ UNCHANGED req
  BY <1>1, <1>3, CalmBecome
<1>. QED BY <1>2, <1>3 DEF CancelNext

\* Leaving a group concerns no callback.
LEMMA CalmUngroup ==
  ASSUME TypeOK, NEW S
  PROVE  Calmer(req, Ungroup(S))
BY DEF Calmer, Ungroup, TypeOK, RequestRecord

\* Calm: the members leaving a freed group.
LEMMA CalmUnlink ==
  ASSUME TypeOK, Unlink
  PROVE  Calm
<1>1. ~Idle /\ Become(<<>>) /\ Calmer(req, req')
  BY RunningTop, CalmUngroup DEF Unlink
<1>. QED BY <1>1, FramesType, QuietFrames, BecomeShifts DEF Calm

\* An unknown answer and the passing of time are calm.
LEMMA CalmEvents ==
  ASSUME TypeOK, RespondUnknown \/ Tick
  PROVE  Calm
<1>1. UNCHANGED <<req, stack>>
  BY DEF RespondUnknown, Tick
<1>. QED BY <1>1, CalmerSame, SameStackShifts DEF Calm

\* Calm: an answer that is retried.
LEMMA CalmRespondRetry ==
  ASSUME TypeOK, RespondRetry
  PROVE  Calm
<1>1. PICK m \in net.answers :
       LET r == m[1]
           q == CancelReq(req, r)
       IN  req' = [QueueReq(q, base, r) EXCEPT
                     ![r] = [@ EXCEPT !.retries = q[r].retries + 1,
                                      !.scheduled = now + RetryDelay]]
  BY DEF RespondRetry
<1>. DEFINE r == m[1]
            c == CancelReq(req, r)
            q == QueueReq(c, base, r)
<1>2. r \in Requests
  BY DEF TypeOK, NetRecord, Transmissions
<1>. HIDE DEF r
<1>3. req \in RequestMap /\ c \in RequestMap /\ q \in RequestMap
  BY <1>2, RequeueType DEF TypeOK, RequestMap
<1>4. Calmer(req, q)
  BY <1>2, <1>3, CalmerBase, CalmerTransitive
<1>5. req' = [q EXCEPT ![r] = [@ EXCEPT !.retries = c[r].retries + 1,
                                        !.scheduled = now + RetryDelay]]
  BY <1>1 DEF r
<1>6. Calmer(q, req')
  <2>. HIDE DEF q
  <2>. QED BY <1>3, <1>5 DEF Calmer, RequestMap, RequestRecord
<1>7. Quiet(<<Call("start", None), Call("reset", None)>>)
  BY DEF Quiet, Call
<1>8. Enter(<<Call("start", None), Call("reset", None)>>)
  BY DEF RespondRetry
<1>. QED BY <1>4, <1>6, <1>7, <1>8, CalmerTransitive, PlainFrames, FramesType,
         EnterShifts DEF Calm

\* Calm: an answer that completes a request.
LEMMA CalmRespondDone ==
  ASSUME TypeOK, RespondDone
  PROVE  Calm
<1>1. PICK m \in net.answers :
       LET r == m[1]
           q == [CancelReq(req, r) EXCEPT ![r].state = "DONE"]
           b == DeactivateBase(q, base, r)
       IN  /\ req' = q
           /\ Enter((IF MovesOwner(q, b) THEN Callback(None) ELSE <<>>)
                    \o <<Call("done", r), Call("start", None),
                         Call("reset", None)>>)
  BY DEF RespondDone
<1>. DEFINE r == m[1]
            q == [CancelReq(req, r) EXCEPT ![r].state = "DONE"]
            b == DeactivateBase(q, base, r)
            cs == IF MovesOwner(q, b) THEN Callback(None) ELSE <<>>
            fs == <<Call("done", r), Call("start", None), Call("reset", None)>>
<1>2. r \in Requests
  BY DEF TypeOK, NetRecord, Transmissions
<1>3. Calmer(req, req')
  <2>1. req \in RequestMap /\ CancelReq(req, r) \in RequestMap
    BY <1>2, CancelReqType DEF TypeOK, RequestMap
  <2>2. Calmer(req, CancelReq(req, r)) /\ Calmer(CancelReq(req, r), q)
    BY <1>2, <2>1, CalmerBase, CalmerState
  <2>. QED BY <1>1, <2>2, CalmerTransitive
<1>4. cs \in Frames /\ Quiet(cs)
  BY CallbackType, QuietCallback, FramesType, QuietFrames DEF MaybeRequest
<1>5. fs \in Frames /\ Quiet(fs)
  <2>1. Call("done", r) \in Frame
    BY <1>2, RequestCallType DEF Ops, ObservedOps
  <2>. QED BY <2>1, PlainFrames, FramesType, QuietFrames DEF Call
<1>6. Enter(cs \o fs)
  BY <1>1
<1>7. cs \o fs \in Frames /\ Quiet(cs \o fs)
  <2>. HIDE DEF cs, fs
  <2>. QED BY <1>4, <1>5, FramesType, QuietConcat
<1>. QED BY <1>3, <1>6, <1>7, EnterShifts DEF Calm

\* Calm: the end of a binder transaction.
LEMMA CalmSent ==
  ASSUME TypeOK, Sent
  PROVE  Calm
<1>1. PICK t \in net.outstanding :
       LET q == [req EXCEPT ![t[1]].tx = 0]
       IN  \/ req' = q /\ UNCHANGED stack
           \/ req' = FailReq(q, t[1]) /\ Enter(FailCalls(q, t[1]))
  BY DEF Sent
<1>. DEFINE r == t[1]
            q == [req EXCEPT ![r].tx = 0]
<1>2. r \in Requests
  BY DEF TypeOK, NetRecord, Transmissions
<1>3. q \in RequestMap /\ Calmer(req, q)
  <2>1. ASSUME NEW x \in Requests
        PROVE  Calmer(req, [req EXCEPT ![x].tx = 0])
    BY DEF Calmer, TypeOK, RequestRecord
  <2>. QED BY <1>2, <2>1, FieldType DEF TypeOK, RequestMap
<1>4. FailCalls(q, r) \in Frames /\ Quiet(FailCalls(q, r))
  BY <1>2, <1>3, FailCallsType, QuietFailCalls
<1>5. Calmer(req, FailReq(q, r))
  BY <1>2, <1>3, CalmerComplete, CalmerTransitive
<1>. QED BY <1>1, <1>3, <1>4, <1>5, SameStackShifts, EnterShifts DEF Calm

\* Calm: stealing the expired requests.
LEMMA CalmTimeout ==
  ASSUME TypeOK, Timeout
  PROVE  Calm
<1>. DEFINE expired == {r \in base.active : req[r].deadline <= now}
            f == ListCall("expire", expired)
<1>1. f \in Frame
  <2>1. expired \in SUBSET Requests
    BY DEF TypeOK, BaseRecord
  <2>. QED BY <2>1, ListCallType
<1>2. f.op # "submitted"
  BY DEF ListCall, Call
<1>3. Enter(<<f, Call("start", None), Call("reset", None)>>) /\ UNCHANGED req
  BY DEF Timeout
<1>4. /\ <<f, Call("start", None), Call("reset", None)>> \in Frames
      /\ Quiet(<<f, Call("start", None), Call("reset", None)>>)
  <2>. HIDE DEF f
  <2>. QED BY <1>1, <1>2, PlainFrames, FramesType, QuietFrames DEF Call
<1>. QED BY <1>3, <1>4, CalmerSame, EnterShifts DEF Calm

\* Calm: the death of the service.
LEMMA CalmDeath ==
  ASSUME TypeOK, Death
  PROVE  Calm
<1>1. Calmer(req, req')
  BY DEF Calmer, Death, HandleDeathReq, TypeOK, RequestRecord
<1>2. ListCall("fail", base.active) \in Frame
  BY ListCallType DEF TypeOK, BaseRecord
<1>3. ListCall("fail", base.active).op # "submitted"
  BY DEF ListCall, Call
<1>4. Callback(None) \in Frames
  BY CallbackType DEF MaybeRequest
<1>. QED BY <1>1, <1>2, <1>3, <1>4, FramesType, QuietFrames, QuietCallback,
         QuietConcat, EnterShifts DEF Calm, Death

\* Calm: the death of the config service, and failing its requests.
LEMMA CalmConfigDeath ==
  ASSUME TypeOK, ConfigDeath \/ HandleDeath
  PROVE  Calm
<1>1. CASE ConfigDeath
  <2>1. UNCHANGED req /\ Callback(None) \in Frames /\ Call("die", None) \in Frame
    BY <1>1, CallbackType, PlainCallType
    DEF ConfigDeath, MaybeRequest, Ops, RequestOps
  <2>2. Call("die", None).op # "submitted"
    BY DEF Call
  <2>. QED BY <1>1, <2>1, <2>2, FramesType, QuietFrames, QuietCallback,
              QuietConcat, EnterShifts, CalmerSame DEF Calm, ConfigDeath
<1>2. CASE HandleDeath
  <2>1. Calmer(req, req')
    BY <1>2 DEF Calmer, HandleDeath, HandleDeathReq, TypeOK, RequestRecord
  <2>2. ListCall("fail", base.active) \in Frame
    BY ListCallType DEF TypeOK, BaseRecord
  <2>3. ListCall("fail", base.active).op # "submitted"
    BY DEF ListCall, Call
  <2>. QED BY <1>2, <2>1, <2>2, <2>3, RunningTop, FramesType, QuietFrames,
              BecomeShifts DEF Calm, HandleDeath
<1>. QED BY <1>1, <1>2

\* Calm: the radio service connecting.
LEMMA CalmConnected ==
  ASSUME TypeOK, Connected
  PROVE  Calm
<1>1. UNCHANGED req /\ Callback(None) \in Frames
  BY CallbackType DEF Connected, MaybeRequest
<1>2. /\ <<Call("start", None), Call("connected", None)>> \in Frames
      /\ Quiet(<<Call("start", None), Call("connected", None)>>)
  BY PlainFrames, FramesType, QuietFrames DEF Call
<1>. QED BY <1>1, <1>2, FramesType, QuietCallback, QuietConcat, EnterShifts,
         CalmerSame DEF Calm, Connected

\* Calm: retrying a pending request.
LEMMA CalmRetry ==
  ASSUME TypeOK, NEW r \in Requests, Retry(r)
  PROVE  Calm
<1>. DEFINE q == QueueReq(CancelReq(req, r), base, r)
<1>1. req \in RequestMap /\ q \in RequestMap
  BY RequeueType DEF TypeOK, RequestMap
<1>2. Calmer(req, q)
  BY <1>1, RequeueType, CalmerBase, CalmerTransitive
<1>3. req' = [q EXCEPT ![r].retries = @ + 1]
  BY DEF Retry
<1>4. Calmer(q, req')
  <2>. HIDE DEF q
  <2>. QED BY <1>1, <1>3 DEF Calmer, RequestMap, RequestRecord
<1>5. Call("retried", r) \in Frame
  BY RequestCallType DEF Ops, ObservedOps
<1>6. /\ <<Call("start", None), Call("retried", r)>> \in Frames
      /\ Quiet(<<Call("start", None), Call("retried", r)>>)
  BY <1>5, PlainFrames, FramesType, QuietFrames DEF Call
<1>. QED BY <1>2, <1>4, <1>6, CalmerTransitive, EnterShifts DEF Calm, Retry

\* Calm: cancelling a request.
LEMMA CalmCancel ==
  ASSUME TypeOK, NEW r \in Requests, Cancel(r)
  PROVE  Calm
<1>1. req \in RequestMap
  BY DEF TypeOK, RequestMap
<1>. QED BY <1>1, CalmerCancel, ObjectCancelCallsType, QuietCalls, EnterShifts
     DEF Calm, Cancel

\* Calm: freeing a request.
LEMMA CalmFree ==
  ASSUME TypeOK, NEW r \in Requests, Free(r)
  PROVE  Calm
<1>1. req \in RequestMap
  BY DEF TypeOK, RequestMap
<1>2. Call("finish", r) \in Frame /\ Call("finish", r).op # "submitted"
  BY RequestCallType DEF Ops, ObservedOps, Call
<1>3. Freeing(r)'
  <2>. DEFINE c == ObjectCancelCalls(req, r)
              f == Call("finish", r)
  <2>1. /\ c \in Seq(Frame) /\ f \in Frame /\ stack \in Seq(Frame)
        /\ f.op = "finish" /\ f.r = r
    BY <1>1, <1>2, ObjectCancelCallsType DEF Frames, TypeOK, Call
  <2>2. stack' = (c \o <<f>>) \o stack
    BY DEF Free, Enter
  <2>. HIDE DEF c, f
  <2>3. Len(c) + 1 \in DOMAIN stack' /\ stack'[Len(c) + 1] = f
    BY <2>1, <2>2
  <2>. QED BY <2>1, <2>3 DEF Freeing
<1>. QED BY <1>1, <1>2, <1>3, CalmerCancel, ObjectCancelCallsType, QuietCalls,
         FramesType, QuietFrames, QuietConcat, EnterShifts DEF Calm, Free

\* So are the settings, a reference given up, and finalizing the client.
LEMMA CalmSettings ==
  ASSUME TypeOK,
         \/ \E r \in Requests : Release(r)
         \/ \E r \in Requests, ms \in Timeouts : SetTimeout(r, ms)
         \/ \E ms \in Timeouts : SetDefaultTimeout(ms)
         \/ Finalize
  PROVE  Calm
<1>1. UNCHANGED stack
  BY DEF Release, SetTimeout, SetDefaultTimeout, Finalize
<1>2. req \in [Requests -> RequestRecord]
  BY DEF TypeOK
<1>3. CASE \E r \in Requests : Release(r)
  <2>1. PICK r \in Requests : req' = [req EXCEPT ![r].held = FALSE]
    BY <1>3 DEF Release
  <2>2. Calmer(req, req')
    BY <1>2, <2>1 DEF Calmer, RequestRecord
  <2>. QED BY <1>1, <2>2, SameStackShifts DEF Calm
<1>4. CASE \E r \in Requests, ms \in Timeouts : SetTimeout(r, ms)
  <2>1. PICK r \in Requests, ms \in Timeouts : SetTimeout(r, ms)
    BY <1>4
  <2>. DEFINE d == IF req[r].registered /\ req[r].state # "NEW"
                   THEN now + TimeoutOf(base, ms) ELSE req[r].deadline
  <2>2. req' = [req EXCEPT ![r] = [req[r] EXCEPT !.timeout = ms, !.deadline = d]]
    BY <1>2, <2>1 DEF SetTimeout, RequestRecord
  <2>. HIDE DEF d
  <2>3. Calmer(req, req')
    BY <1>2, <2>2 DEF Calmer, RequestRecord
  <2>. QED BY <1>1, <2>3, SameStackShifts DEF Calm
<1>5. CASE \E ms \in Timeouts : SetDefaultTimeout(ms)
  <2>1. PICK ms \in Timeouts : SetDefaultTimeout(ms)
    BY <1>5
  <2>. DEFINE d(r) == req[r].deadline + (ms - base.timeout)
  <2>2. req' = [r \in Requests |->
                  IF r \in {x \in base.active : req[x].timeout = 0}
                  THEN [req[r] EXCEPT !.deadline = d(r)] ELSE req[r]]
    BY <2>1 DEF SetDefaultTimeout
  <2>. HIDE DEF d
  <2>3. Calmer(req, req')
    BY <1>2, <2>2 DEF Calmer, RequestRecord
  <2>. QED BY <1>1, <2>3, SameStackShifts DEF Calm
<1>6. CASE Finalize
  <2>1. req' = FinalizeReq
    BY <1>6 DEF Finalize
  <2>2. Calmer(req, req')
    BY <1>2, <2>1 DEF Calmer, FinalizeReq, RequestRecord
  <2>. QED BY <1>1, <2>2, SameStackShifts DEF Calm
<1>. QED BY <1>3, <1>4, <1>5, <1>6

\* So is what users do with groups.
LEMMA CalmGroups ==
  ASSUME TypeOK, NEW g \in Groups,
         Block(g) \/ Unblock(g) \/ FreeGroup(g) \/ CancelGroup(g)
  PROVE  Calm
<1>1. CASE Block(g)
  <2>1. Callback(None) \in Frames
    BY CallbackType DEF MaybeRequest
  <2>2. UNCHANGED stack \/ Enter(Callback(None))
    BY <1>1 DEF Block
  <2>. QED BY <1>1, <2>1, <2>2, QuietCallback, EnterShifts, SameStackShifts,
           CalmerSame DEF Calm, Block
<1>2. CASE Unblock(g)
  BY <1>2, UnblockCallsType, QuietUnblockCalls, EnterShifts, CalmerSame
  DEF Calm, Unblock
<1>3. CASE FreeGroup(g)
  <2>1. /\ [Call("unlink", None) EXCEPT !.g = g] \in Frame
        /\ [Call("unlink", None) EXCEPT !.g = g].op # "submitted"
    <3>1. Call("unlink", None) \in Frame
      BY PlainCallType DEF Ops, RequestOps
    <3>. QED BY <3>1 DEF Frame, MaybeGroup, Call
  <2>. QED BY <1>3, <2>1, UnblockCallsType, QuietUnblockCalls, FramesType,
           QuietFrames, QuietConcat, EnterShifts, CalmerSame DEF Calm, FreeGroup
<1>4. CASE CancelGroup(g)
  <2>1. ListCall("cancel", Members(g)) \in Frame
    BY ListCallType DEF Members
  <2>2. ListCall("cancel", Members(g)).op # "submitted"
    BY DEF ListCall, Call
  <2>. QED BY <1>4, <2>1, <2>2, FramesType, QuietFrames, EnterShifts,
           CalmUngroup DEF Calm, CancelGroup
<1>. QED BY <1>1, <1>2, <1>3, <1>4

-----------------------------------------------------------------------------
(***************************************************************************)
(* The two steps that withhold and restore a callback.                     *)
(***************************************************************************)

\* Nobody withholds the callback of a request that is NEW.
LEMMA SubmitWithholds ==
  ASSUME TypeOK, CompletionInv, NEW r \in Requests, Submit(r)
  PROVE  CompletionInv'
<1>. DEFINE f == [Call("submitted", r) EXCEPT !.some = req[r].complete]
            q == QueueReq(req, base, r)
<1>1. req \in RequestMap /\ q \in RequestMap
  BY QueueReqType DEF TypeOK, RequestMap
<1>2. /\ ~req'[r].complete /\ req'[r].calls = req[r].calls
      /\ req'[r].state # "NEW" /\ Calmer(req, req')
  <2>1. req' = [q EXCEPT ![r] = [@ EXCEPT
                  !.complete = FALSE,
                  !.deadline = now + TimeoutOf(base, req[r].timeout)]]
    BY DEF Submit
  <2>2. /\ Calmer(req, q)
        /\ q[r].state = "QUEUED" /\ q[r].calls = req[r].calls
    <3>1. Calmer(req, q)
      BY <1>1, CalmerBase
    <3>2. q[r].state = "QUEUED" /\ q[r].calls = req[r].calls
      BY <1>1 DEF QueueReq, RequestMap, RequestRecord
    <3>. QED BY <3>1, <3>2
  <2>. HIDE DEF q
  <2>3. /\ req'[r].complete = FALSE /\ req'[r].calls = q[r].calls
        /\ req'[r].state = q[r].state
    BY <1>1, <2>1 DEF RequestMap, RequestRecord
  <2>4. Calmer(q, req')
    BY <1>1, <2>1 DEF Calmer, RequestMap, RequestRecord
  <2>. QED BY <2>2, <2>3, <2>4, CalmerTransitive
<1>3. \A x \in Requests : req[x].calls \in Nat
  BY <1>1 DEF RequestMap, RequestRecord
<1>4. CallbackUnused'
  BY <1>2, <1>3 DEF Calmer, CompletionInv, CallbackUnused
<1>5. CompleteOnce'
  BY <1>2, <1>3 DEF Calmer, CompletionInv, CallbackUnused, CompleteOnce
<1>6. f.op = "submitted" /\ f.r = r /\ (f.some => req[r].complete)
  BY <1>1 DEF Call, RequestMap, RequestRecord
<1>7. stack' = <<Call("start", None), f>> \o stack
  BY DEF Submit, Enter
<1>8. \A i \in DOMAIN stack' :
        stack'[i].op = "submitted" =>
          \/ i = 2 /\ stack'[i] = f
          \/ i - 2 \in DOMAIN stack /\ stack'[i] = stack[i - 2]
  <2>1. Call("start", None).op # "submitted" /\ Call("start", None) \in Frame
    BY PlainFrames DEF Call
  <2>. HIDE DEF f
  <2>. QED BY <1>7, <2>1 DEF TypeOK
<1>9. \A i \in DOMAIN stack :
        stack[i].op = "submitted" =>
          /\ stack[i].r \in Requests
          /\ ~req[stack[i].r].complete
          /\ req[stack[i].r].state # "NEW"
          /\ stack[i].some => req[stack[i].r].calls = 0
  BY WithheldRequest DEF CompletionInv, CallbackWithheld
<1>10. req[r].state = "NEW" /\ (req[r].complete => req[r].calls = 0)
  BY DEF Submit, CompletionInv, CallbackUnused
<1>. HIDE DEF f, q
<1>11. CallbackWithheld'
  BY <1>2, <1>6, <1>8, <1>9, <1>10 DEF CallbackWithheld, Calmer
<1>12. WithheldOnce'
  <2>. SUFFICES ASSUME NEW i \in DOMAIN stack', NEW j \in DOMAIN stack',
                       stack'[i].op = "submitted", stack'[j].op = "submitted",
                       stack'[i].r = stack'[j].r
                PROVE  i = j
    BY DEF WithheldOnce
  <2>1. i \in Int /\ j \in Int
    BY SubmitType DEF TypeOK
  <2>2. CASE i = 2 /\ stack'[i] = f
    BY <1>6, <1>8, <1>9, <1>10, <2>2
  <2>3. CASE j = 2 /\ stack'[j] = f
    BY <1>6, <1>8, <1>9, <1>10, <2>3
  <2>4. CASE /\ i - 2 \in DOMAIN stack /\ stack'[i] = stack[i - 2]
             /\ j - 2 \in DOMAIN stack /\ stack'[j] = stack[j - 2]
    <3>1. i - 2 = j - 2
      BY <2>4 DEF CompletionInv, WithheldOnce
    <3>. QED BY <2>1, <3>1
  <2>. QED BY <1>8, <2>2, <2>3, <2>4
<1>. QED BY <1>4, <1>5, <1>11, <1>12 DEF CompletionInv

\* Only the call that withholds the callback of a request restores it.
LEMMA SubmittedRestores ==
  ASSUME TypeOK, CompletionInv, Submitted
  PROVE  CompletionInv'
<1>1. /\ ~Idle /\ Top.op = "submitted" /\ Top.r \in Requests
      /\ req \in RequestMap /\ Become(<<>>)
  BY RunningTop, TopType DEF Submitted, RequestOps, TypeOK, RequestMap
<1>2. 1 \in DOMAIN stack /\ stack[1] = Top
  BY <1>1 DEF Idle, Top, TypeOK
<1>3. stack' = Tail(stack)
  BY <1>1 DEF Become, TypeOK, Idle
<1>4. \A i \in DOMAIN stack' :
        i + 1 \in DOMAIN stack /\ i + 1 # 1 /\ stack'[i] = stack[i + 1]
  BY <1>1, <1>3 DEF TypeOK, Idle
<1>5. \A i \in DOMAIN stack' :
        stack'[i].op = "submitted" =>
          /\ stack'[i].r \in Requests /\ stack'[i].r # Top.r
          /\ ~req[stack'[i].r].complete
          /\ req[stack'[i].r].state # "NEW"
          /\ stack'[i].some => req[stack'[i].r].calls = 0
  BY <1>1, <1>2, <1>4, WithheldRequest
  DEF CompletionInv, CallbackWithheld, WithheldOnce
<1>6. /\ \A x \in Requests : req'[x].calls = req[x].calls
                             /\ req'[x].state = req[x].state
      /\ \A x \in Requests : x # Top.r => req'[x] = req[x]
      /\ req'[Top.r].complete => req[Top.r].complete \/ Top.some
  BY <1>1 DEF Submitted, RequestMap, RequestRecord
<1>7. Top.some => req[Top.r].calls = 0
  BY <1>1, <1>2 DEF CompletionInv, CallbackWithheld
<1>8. CallbackUnused'
  BY <1>1, <1>6, <1>7 DEF CompletionInv, CallbackUnused
<1>9. CompleteOnce'
  BY <1>6 DEF CompletionInv, CompleteOnce
<1>10. CallbackWithheld'
  BY <1>5, <1>6 DEF CallbackWithheld
<1>11. WithheldOnce'
  <2>. SUFFICES ASSUME NEW i \in DOMAIN stack', NEW j \in DOMAIN stack',
                       stack'[i].op = "submitted", stack'[j].op = "submitted",
                       stack'[i].r = stack'[j].r
                PROVE  i = j
    BY DEF WithheldOnce
  <2>1. i + 1 = j + 1
    BY <1>4 DEF CompletionInv, WithheldOnce
  <2>2. i \in Int /\ j \in Int
    BY SubmittedType DEF TypeOK
  <2>. QED BY <2>1, <2>2
<1>. QED BY <1>8, <1>9, <1>10, <1>11 DEF CompletionInv

-----------------------------------------------------------------------------
\* The completion invariant holds at first.
LEMMA CompletionInit == Init => CompletionInv
BY DEF Init, CompletionInv, CallbackUnused, CallbackWithheld, WithheldOnce,
       CompleteOnce

\* All other steps are calm.
LEMMA CalmNext ==
  ASSUME TypeOK, Next
  PROVE  Calm \/ Submitted \/ \E r \in Requests : Submit(r)
<1>1. CASE Event
  BY <1>1, CalmEvents, CalmRespondRetry, CalmRespondDone, CalmSent, CalmTimeout,
     CalmDeath, CalmConfigDeath, CalmConnected DEF Event
<1>2. CASE User
  BY <1>2, CalmRetry, CalmCancel, CalmSettings, CalmGroups DEF User
<1>3. CASE Continue
  BY <1>3, CalmScanStart, CalmScanSkip, CalmScanSend, CalmScanFail,
     CalmObserved, CalmScanSent, CalmReturns, CalmDone, CalmDrop, CalmDropped,
     CalmUnregister, CalmFinish, CalmExpire, CalmFailNext, CalmConfigDeath,
     CalmCancelNext, CalmUnlink, CalmFree DEF Continue
<1>. QED BY <1>1, <1>2, <1>3 DEF Next

\* And every step keeps it.
LEMMA CompletionNext ==
  ASSUME TypeOK, CompletionInv, Next
  PROVE  CompletionInv'
BY NextType, CalmNext, CalmStep, SubmitWithholds, SubmittedRestores

\* A callback that is due has not run, and a callback that is withheld
\* during a submission is withheld by one call only.
THEOREM CompletionInvariant == Spec => []CompletionInv
<1>1. TypeOK /\ CompletionInv /\ [Next]_vars => CompletionInv'
  <2>1. CompletionInv /\ UNCHANGED vars => CompletionInv'
    BY DEF vars, CompletionInv, CallbackUnused, CallbackWithheld, WithheldOnce,
           CompleteOnce
  <2>. QED BY <2>1, CompletionNext
<1>. QED BY <1>1, CompletionInit, TypeCorrect, PTL DEF Spec

\* The completion callback of a request runs at most once.
THEOREM CompletesOnce == Spec => []CompleteOnce
<1>1. CompletionInv => CompleteOnce
  BY DEF CompletionInv
<1>. QED BY <1>1, CompletionInvariant, PTL

-----------------------------------------------------------------------------
(***************************************************************************)
(* A cancelled request stays silent.                                       *)
(***************************************************************************)

\* What becomes of the silence of a request in one step.
Silences(x) ==
  /\ ~req[x].dropped /\ req'[x].dropped /\ ~Submitting(x) /\ ~Freeing(x)'
       => Silent(x)'
  /\ Silent(x) => Silent(x)' /\ req'[x].calls = req[x].calls

\* Calm steps run no callback that was forgotten and give none back.
LEMMA CalmSilences ==
  ASSUME TypeOK, Calm, NEW x \in Requests
  PROVE  Silences(x)
<1>1. PICK n, m \in Int : Shifted(n, m)
  BY DEF Calm
<1>2. ASSUME NEW i \in DOMAIN stack', stack'[i].op = "submitted"
      PROVE  \E j \in DOMAIN stack : stack'[i] = stack[j]
  BY <1>1, <1>2 DEF Shifted
<1>3. /\ req'[x].complete => req[x].complete
      /\ ~req[x].complete => req'[x].calls = req[x].calls
      /\ req[x].dropped => req'[x].dropped
      /\ req'[x].dropped => req[x].dropped \/ ~req'[x].complete \/ Freeing(x)'
  BY DEF Calm, Calmer
<1>4. Silent(x) => Silent(x)' /\ req'[x].calls = req[x].calls
  BY <1>2, <1>3 DEF Silent
<1>5. ASSUME ~req[x].dropped, req'[x].dropped, ~Submitting(x), ~Freeing(x)'
      PROVE  Silent(x)'
  BY <1>2, <1>3, <1>5 DEF Silent, Submitting
<1>. QED BY <1>4, <1>5 DEF Silences

\* A submission has no callback to withhold, if the request is silent.
LEMMA SubmitSilences ==
  ASSUME TypeOK, NEW r \in Requests, Submit(r), NEW x \in Requests
  PROVE  Silences(x)
<1>. DEFINE f == [Call("submitted", r) EXCEPT !.some = req[r].complete]
<1>1. PICK q \in RequestMap : q = QueueReq(req, base, r)
  BY QueueReqType DEF TypeOK, RequestMap
<1>2. /\ q[x].dropped = req[x].dropped /\ q[x].complete = req[x].complete
      /\ q[x].calls = req[x].calls
  BY <1>1 DEF QueueReq, TypeOK, RequestRecord
<1>3. /\ req'[x].dropped = q[x].dropped /\ req'[x].calls = q[x].calls
      /\ req'[x].complete => q[x].complete
  BY <1>1 DEF Submit, RequestMap, RequestRecord
<1>4. f.r = r /\ f.some = req[r].complete /\ Call("start", None).op # "submitted"
  BY DEF Call
<1>5. stack' = <<Call("start", None), f>> \o stack
  BY DEF Submit, Enter
<1>. HIDE DEF f
<1>6. ASSUME NEW i \in DOMAIN stack', stack'[i].op = "submitted"
      PROVE  stack'[i] = f \/ \E j \in DOMAIN stack : stack'[i] = stack[j]
  BY <1>4, <1>5, <1>6 DEF TypeOK
<1>7. Silent(x) => Silent(x)'
  BY <1>2, <1>3, <1>4, <1>6 DEF Silent
<1>. QED BY <1>2, <1>3, <1>7 DEF Silences, Silent

\* Nor does its end give one back.
LEMMA SubmittedSilences ==
  ASSUME TypeOK, Submitted, NEW x \in Requests
  PROVE  Silences(x)
<1>1. /\ ~Idle /\ Top.op = "submitted" /\ stack # <<>> /\ Become(<<>>)
      /\ req \in RequestMap
  BY RunningTop DEF Submitted, TypeOK, RequestMap, Idle
<1>2. 1 \in DOMAIN stack /\ Top = stack[1] /\ stack' = Tail(stack)
  BY <1>1 DEF Top, Become, TypeOK
<1>3. ASSUME NEW i \in DOMAIN stack'
      PROVE  \E j \in DOMAIN stack : stack'[i] = stack[j]
  <2>1. i + 1 \in DOMAIN stack /\ stack'[i] = stack[i + 1]
    BY <1>1, <1>2 DEF TypeOK
  <2>. QED BY <2>1
<1>4. /\ req'[x].dropped = req[x].dropped /\ req'[x].calls = req[x].calls
      /\ req'[x].complete => req[x].complete \/ (Top.some /\ x = Top.r)
  BY <1>1 DEF Submitted, RequestMap, RequestRecord
<1>5. Silent(x) => Silent(x)'
  BY <1>1, <1>2, <1>3, <1>4 DEF Silent
<1>. QED BY <1>4, <1>5 DEF Silences

\* A request that is cancelled, but not from inside the call that submits it,
\* has lost its callback for good: neither an answer nor a failure, a retry, a
\* death or a submission runs it later.
THEOREM CancelledStaysSilent == Spec => SilentWhenCancelled
<1>. DEFINE P == \A r \in Requests :
                   /\ ~req[r].dropped /\ req'[r].dropped /\ ~Submitting(r)
                      /\ ~Freeing(r)' => Silent(r)'
                   /\ Silent(r) => Silent(r)' /\ req'[r].calls = req[r].calls
<1>1. TypeOK /\ [Next]_vars => [P]_vars
  <2>1. ASSUME TypeOK, Next
        PROVE  P
    <3>1. \A x \in Requests : Silences(x)
      BY <2>1, CalmNext, CalmSilences, SubmitSilences, SubmittedSilences
    <3>. QED BY <3>1 DEF Silences
  <2>. QED BY <2>1
<1>. QED BY <1>1, TypeCorrect, PTL DEF Spec, SilentWhenCancelled

-----------------------------------------------------------------------------
(***************************************************************************)
(* Groups own the client in the order they asked, none of them is freed    *)
(* while it owns or waits, and an object that gets an owner has nobody     *)
(* else's request pending.                                                 *)
(*                                                                         *)
(* Most steps leave the owner and those who wait alone, take requests out  *)
(* of groups only, and keep the calls that free a group: they keep         *)
(* OwnersAlive.  The others move the queue of owners by one place.         *)
(*                                                                         *)
(* The last part is about blocking requests, which stand above the owner.  *)
(***************************************************************************)
SameOwners(b, c) ==
  c.owner = b.owner /\ c.waiting = b.waiting /\ c.groups = b.groups

\* Requests may have left their groups, and nothing was sent.
LessGroups(q, u) ==
  \A x \in Requests : /\ u[x].group \in {q[x].group, None}
                      /\ u[x].sends = q[x].sends

\* Requests may have left their groups, and r may have been sent.
LessGroupsBut(q, u, r) ==
  \A x \in Requests : /\ u[x].group \in {q[x].group, None}
                      /\ x # r => u[x].sends = q[x].sends

\* Distinct groups of G.
Line(w, G) ==
  \A i, j \in DOMAIN w : w[i] \in G /\ (i # j => w[i] # w[j])

\* The calls that free a group go on.
FreesGoOn ==
  \A f \in Calls(stack) : f.op = "unlink" => f \in Calls(stack')

\* The parts of OwnersAlive.
InLine(b) ==
  b.owner \in b.groups \cup {None} /\ Line(b.waiting, b.groups \ {b.owner})
MembersAlive ==
  \A r \in Requests :
    \/ req[r].group \in base.groups \cup {None}
    \/ \E i \in DOMAIN stack :
         stack[i].op = "unlink" /\ stack[i].g = req[r].group

\* How the owner may change from b to c, the requests being q afterwards.
Turns(b, c) == b.waiting # <<>> /\ c.owner # b.owner => c.owner = Head(b.waiting)
Waits(b, c, q) ==
  b.owner = None /\ c.owner # None => \A r \in c.pending : q[r].group = c.owner

\* Only what may be submitted is sent, unless observers call the library
\* between the decision and the transmission.
Sends ==
  \A x \in Requests :
    req'[x].sends # req[x].sends => Observed \/ CanSubmitRequest(req, base, x)

\* What every step does.
OwnersStep ==
  /\ Sends
  /\ InLine(base) => InLine(base')
  /\ MembersAlive => MembersAlive'
  /\ Turns(base, base') /\ Waits(base, base', req')

-----------------------------------------------------------------------------
(***************************************************************************)
(* The queue of owners.                                                    *)
(***************************************************************************)

\* Without its head, the queue is a queue of the others.
LEMMA TailLine ==
  ASSUME NEW w \in Seq(Groups), w # <<>>, NEW G, Line(w, G)
  PROVE  Head(w) \in G /\ Line(Tail(w), G \ {Head(w)})
<1>1. 1 \in DOMAIN w /\ Head(w) = w[1]
  OBVIOUS
<1>2. ASSUME NEW i \in DOMAIN Tail(w)
      PROVE  i + 1 \in DOMAIN w /\ Tail(w)[i] = w[i + 1] /\ i + 1 # 1 /\ i \in Int
  OBVIOUS
<1>3. Head(w) \in G
  BY <1>1 DEF Line
<1>4. ASSUME NEW i \in DOMAIN Tail(w), NEW j \in DOMAIN Tail(w)
      PROVE  /\ Tail(w)[i] \in G \ {Head(w)}
             /\ i # j => Tail(w)[i] # Tail(w)[j]
  <2>1. i # j => i + 1 # j + 1
    BY <1>2
  <2>. QED BY <1>1, <1>2, <2>1 DEF Line
<1>. QED BY <1>3, <1>4 DEF Line

\* Without a group that gives up, too.
LEMMA WithdrawLine ==
  ASSUME NEW w \in Seq(Groups), NEW G, Line(w, G), NEW g
  PROVE  Line(WithdrawOwner(w, g), G \ {g})
<1>1. CASE \E i \in DOMAIN w : w[i] = g
  <2>. DEFINE n == CHOOSE i \in DOMAIN w : w[i] = g
              s == SubSeq(w, 1, n - 1)
              t == SubSeq(w, n + 1, Len(w))
  <2>1. n \in 1 .. Len(w) /\ w[n] = g
    BY <1>1
  <2>2. WithdrawOwner(w, g) = s \o t
    BY <1>1 DEF WithdrawOwner
  <2>. HIDE DEF n
  <2>3. /\ s \in Seq(Groups) /\ Len(s) = n - 1
        /\ \A i \in 1 .. n - 1 : s[i] = w[i]
    BY <2>1
  <2>4. /\ t \in Seq(Groups) /\ Len(t) = Len(w) - n
        /\ \A i \in 1 .. Len(w) - n : t[i] = w[n + i]
    BY <2>1
  <2>. HIDE DEF s, t
  <2>. DEFINE at(i) == IF i < n THEN i ELSE i + 1
  <2>5. Len(s \o t) = Len(w) - 1 /\ DOMAIN (s \o t) = 1 .. Len(w) - 1
    <3>1. /\ s \o t \in Seq(Groups) /\ Len(s \o t) = Len(s) + Len(t)
          /\ DOMAIN (s \o t) = 1 .. Len(s \o t)
      BY <2>3, <2>4
    <3>2. Len(s) + Len(t) = Len(w) - 1
      BY <2>1, <2>3, <2>4
    <3>. QED BY <3>1, <3>2
  <2>6. ASSUME NEW i \in DOMAIN (s \o t)
        PROVE  (s \o t)[i] = w[at(i)] /\ at(i) \in DOMAIN w \ {n} /\ i \in Int
    <3>1. CASE i < n
      BY <2>1, <2>3, <2>4, <2>5, <3>1
    <3>2. CASE ~(i < n)
      <4>1. (s \o t)[i] = t[i - (n - 1)]
        BY <2>1, <2>3, <2>4, <2>5, <3>2
      <4>2. i - (n - 1) \in 1 .. Len(w) - n /\ n + (i - (n - 1)) = i + 1
        BY <2>1, <2>5, <3>2
      <4>. QED BY <2>1, <2>4, <2>5, <3>2, <4>1, <4>2
    <3>. QED BY <3>1, <3>2
  <2>7. ASSUME NEW i \in DOMAIN (s \o t), NEW j \in DOMAIN (s \o t)
        PROVE  /\ (s \o t)[i] \in G \ {g}
               /\ i # j => (s \o t)[i] # (s \o t)[j]
    <3>1. i # j => at(i) # at(j)
      BY <2>1, <2>6
    <3>. HIDE DEF at
    <3>. QED BY <2>1, <2>6, <3>1 DEF Line
  <2>. QED BY <2>2, <2>7 DEF Line
<1>2. CASE ~\E i \in DOMAIN w : w[i] = g
  BY <1>2 DEF WithdrawOwner, Line
<1>. QED BY <1>1, <1>2

-----------------------------------------------------------------------------
(***************************************************************************)
(* Steps that are not about owners.                                        *)
(***************************************************************************)

\* The members of a group outlive it only until the call that frees it.
LEMMA MembersStep ==
  ASSUME MembersAlive, base'.groups = base.groups, FreesGoOn,
         \/ LessGroups(req, req')
         \/ \E r : LessGroupsBut(req, req', r)
  PROVE  MembersAlive'
<1>1. ASSUME NEW r \in Requests
      PROVE  \/ req'[r].group \in base'.groups \cup {None}
             \/ \E i \in DOMAIN stack' :
                  stack'[i].op = "unlink" /\ stack'[i].g = req'[r].group
  <2>1. CASE req'[r].group = None
    BY <2>1
  <2>2. CASE req'[r].group = req[r].group /\ req[r].group \in base.groups
    BY <2>2
  <2>3. CASE /\ req'[r].group = req[r].group
             /\ \E i \in DOMAIN stack :
                  stack[i].op = "unlink" /\ stack[i].g = req[r].group
    <3>1. PICK f \in Calls(stack) : f.op = "unlink" /\ f.g = req[r].group
      BY <2>3 DEF Calls
    <3>2. f \in Calls(stack')
      BY <3>1 DEF FreesGoOn
    <3>. QED BY <2>3, <3>1, <3>2 DEF Calls
  <2>. QED BY <2>1, <2>2, <2>3 DEF LessGroups, LessGroupsBut, MembersAlive
<1>. QED BY <1>1 DEF MembersAlive

\* A call that frees no group gives way to other calls.
LEMMA BecomeGoesOn ==
  ASSUME TypeOK, ~Idle, Top.op # "unlink", NEW F, NEW fs \in Seq(F), Become(fs)
  PROVE  FreesGoOn
<1>. DEFINE E == F \cup Frame
<1>1. stack \in Seq(E) /\ fs \in Seq(E)
  BY DEF TypeOK
<1>. HIDE DEF E
<1>2. Calls(stack) \subseteq Calls(stack') \cup {Top}
  BY <1>1, StackBecome
<1>. QED BY <1>2 DEF FreesGoOn

\* The same for calls that go on as one call, after others or not.
LEMMA BecomeOneGoesOn ==
  ASSUME TypeOK, ~Idle, Top.op # "unlink", NEW f,
         \/ Become(<<f>>)
         \/ \E cs \in Frames : Become(cs \o <<f>>)
  PROVE  FreesGoOn
<1>. DEFINE F == Frame \cup {f}
<1>1. <<f>> \in Seq(F)
  OBVIOUS
<1>2. ASSUME NEW cs \in Frames
      PROVE  cs \o <<f>> \in Seq(F)
  <2>1. cs \in Seq(F)
    BY DEF Frames
  <2>. HIDE DEF F
  <2>. QED BY <1>1, <2>1
<1>. HIDE DEF F
<1>. QED BY <1>1, <1>2, BecomeGoesOn

\* And for calls that return.
LEMMA ReturnGoesOn ==
  ASSUME TypeOK, ~Idle, Top.op # "unlink", Become(<<>>)
  PROVE  FreesGoOn
<1>1. <<>> \in Seq(Frame)
  OBVIOUS
<1>. QED BY <1>1, BecomeGoesOn

\* New calls leave those below them alone.
LEMMA EnterGoesOn ==
  ASSUME TypeOK, NEW F, NEW fs \in Seq(F), Enter(fs)
  PROVE  FreesGoOn
<1>. DEFINE E == F \cup Frame
<1>1. stack \in Seq(E) /\ fs \in Seq(E)
  BY DEF TypeOK
<1>. HIDE DEF E
<1>2. Calls(stack) \subseteq Calls(stack')
  BY <1>1, StackEnter
<1>. QED BY <1>2 DEF FreesGoOn

\* So does a step without calls.
LEMMA SameGoesOn ==
  ASSUME UNCHANGED stack
  PROVE  FreesGoOn
BY DEF FreesGoOn

-----------------------------------------------------------------------------
(***************************************************************************)
(* What the operators leave alone.                                         *)
(***************************************************************************)

\* Nothing changes, or one thing after the other.
LEMMA LessGroupsTransitive ==
  /\ \A q : LessGroups(q, q)
  /\ \A q, u, v : LessGroups(q, u) /\ LessGroups(u, v) => LessGroups(q, v)
BY DEF LessGroups

\* The same around the transmission of r.
LEMMA LessGroupsButTransitive ==
  \A q, u, v, r :
    /\ LessGroups(q, u) /\ LessGroupsBut(u, v, r) => LessGroupsBut(q, v, r)
    /\ LessGroupsBut(q, u, r) /\ LessGroups(u, v) => LessGroupsBut(q, v, r)
BY DEF LessGroups, LessGroupsBut

\* radio_base.c moves no request to another group.
LEMMA GroupsKept ==
  ASSUME NEW q \in RequestMap, NEW b, NEW r \in Requests, NEW p
  PROVE  /\ LessGroups(q, CancelReq(q, r))
         /\ LessGroups(q, QueueReq(q, b, r))
         /\ LessGroups(q, UnlinkReq(q, r, p))
         /\ LessGroups(q, DeactivateReq(q, b, r))
         /\ LessGroupsBut(q, NewSerialReq(q, r), r)
         /\ LessGroups(q, CompleteReq(q, r))
<1>1. LessGroups(q, CancelReq(q, r))
  BY DEF LessGroups, CancelReq, RequestMap, RequestRecord
<1>2. LessGroups(q, QueueReq(q, b, r))
  BY DEF LessGroups, QueueReq, RequestMap, RequestRecord
<1>3. ASSUME NEW x
      PROVE  LessGroups(q, UnlinkReq(q, r, x))
  BY DEF LessGroups, UnlinkReq, RequestMap, RequestRecord
<1>4. LessGroups(q, DeactivateReq(q, b, r))
  BY <1>3, LessGroupsTransitive DEF DeactivateReq
<1>5. LessGroupsBut(q, NewSerialReq(q, r), r)
  BY DEF LessGroupsBut, NewSerialReq, RequestMap, RequestRecord
<1>6. LessGroups(q, CompleteReq(q, r))
  BY DEF LessGroups, CompleteReq, RequestMap, RequestRecord
<1>. QED BY <1>1, <1>2, <1>3, <1>4, <1>5, <1>6

\* Neither does a change of state, nor failing.
LEMMA GroupsKeptByState ==
  ASSUME NEW q \in RequestMap, NEW r \in Requests, NEW s \in States
  PROVE  /\ LessGroups(q, [q EXCEPT ![r].state = s])
         /\ LessGroups(q, FailReq(q, r))
<1>1. LessGroups(q, [q EXCEPT ![r].state = s])
  BY DEF LessGroups, RequestMap, RequestRecord
<1>2. LessGroups(q, [q EXCEPT ![r].state = "FAILED"])
  BY DEF LessGroups, RequestMap, RequestRecord
<1>3. [q EXCEPT ![r].state = "FAILED"] \in RequestMap
  BY StateType DEF States
<1>. QED BY <1>1, <1>2, <1>3, GroupsKept, LessGroupsTransitive DEF FailReq

\* radio_request.c takes a request out of its group when it is dropped.
LEMMA GroupsLeft ==
  ASSUME NEW q \in RequestMap, NEW r \in Requests
  PROVE  /\ LessGroups(q, ObjectCancelReq(q, r))
         /\ LessGroups(q, Withdraw(ObjectCancelReq(q, r), r))
<1>1. LessGroups(q, ObjectCancelReq(q, r))
  BY DEF LessGroups, ObjectCancelReq, CancelReq, RequestMap, RequestRecord
<1>2. ObjectCancelReq(q, r) \in RequestMap
  BY ObjectCancelReqType
<1>3. ASSUME NEW u \in RequestMap
      PROVE  LessGroups(u, Withdraw(u, r))
  BY DEF LessGroups, Withdraw, RequestMap, RequestRecord
<1>. QED BY <1>1, <1>2, <1>3, LessGroupsTransitive

\* The queue and the tables have nothing to do with the owners.
LEMMA OwnersKept ==
  ASSUME NEW q \in RequestMap, NEW b \in BaseRecord, NEW r \in Requests,
         NEW p \in MaybeRequest
  PROVE  /\ SameOwners(b, QueueBase(b, r))
         /\ SameOwners(b, UnlinkBase(q, b, r, p))
         /\ SameOwners(b, DeactivateBase(q, b, r))
         /\ SameOwners(b, NewSerialBase(q, b, r))
<1>1. SameOwners(b, QueueBase(b, r))
  BY DEF SameOwners, QueueBase, BaseRecord
<1>2. ASSUME NEW x \in MaybeRequest
      PROVE  SameOwners(b, UnlinkBase(q, b, r, x))
  BY DEF SameOwners, UnlinkBase, BaseRecord
<1>3. SameOwners(b, DeactivateBase(q, b, r))
  <2>. DEFINE u == IF Dequeues(q, b, r)
                   THEN UnlinkBase(q, b, r, Before(q, b, r)) ELSE b
  <2>1. u \in BaseRecord /\ SameOwners(b, u)
    BY <1>2, BeforeType, UnlinkBaseType DEF SameOwners
  <2>2. DeactivateBase(q, b, r) =
          [u EXCEPT !.pending = @ \ {r}, !.active = @ \ {r},
                    !.block = IF @ = r THEN None ELSE @]
    BY DEF DeactivateBase
  <2>. HIDE DEF u
  <2>. QED BY <2>1, <2>2 DEF SameOwners, BaseRecord
<1>4. SameOwners(b, NewSerialBase(q, b, r))
  BY DEF SameOwners, NewSerialBase, BaseRecord
<1>. QED BY <1>1, <1>2, <1>3, <1>4

\* Nor have the timer and the lists.
LEMMA OwnersKeptByFields ==
  ASSUME NEW b \in BaseRecord, NEW t, NEW S
  PROVE  /\ SameOwners(b, [b EXCEPT !.timer = t])
         /\ SameOwners(b, [b EXCEPT !.timer = t, !.active = S])
         /\ SameOwners(b, [b EXCEPT !.pending = S])
         /\ SameOwners(b, [b EXCEPT !.block = t])
         /\ SameOwners(b, [b EXCEPT !.active = S])
         /\ SameOwners(b, [b EXCEPT !.timeout = t])
BY DEF SameOwners, BaseRecord

\* Two changes one after the other.
LEMMA SameOwnersTransitive ==
  /\ \A b : SameOwners(b, b)
  /\ \A b, c, d : SameOwners(b, c) /\ SameOwners(c, d) => SameOwners(b, d)
BY DEF SameOwners

-----------------------------------------------------------------------------
(***************************************************************************)
(* The steps that are not about owners.                                    *)
(***************************************************************************)
Kept == SameOwners(base, base') /\ LessGroups(req, req') /\ FreesGoOn

\* Calls that return, and a scan that starts, ends or passes over a request.
LEMMA KeptScan ==
  ASSUME TypeOK, Reset \/ ScanStart \/ ScanSkip \/ ScanEnd \/ ScanSent \/ Return
  PROVE  Kept
<1>1. base \in BaseRecord
  BY DEF TypeOK
<1>2. CASE Reset
  <2>1. ~Idle /\ Top.op # "unlink" /\ UNCHANGED req /\ Become(<<>>)
    BY <1>2 DEF Reset
  <2>2. SameOwners(base, base')
    BY <1>1, <1>2, OwnersKeptByFields, SameOwnersTransitive DEF Reset
  <2>. QED BY <2>1, <2>2, LessGroupsTransitive, ReturnGoesOn DEF Kept
<1>3. CASE ScanStart \/ ScanSkip \/ ScanEnd \/ Return
  <2>1. ~Idle /\ Top.op # "unlink"
    BY <1>3 DEF ScanStart, ScanSkip, ScanEnd, Return, Scanning, Running, Top
  <2>2. /\ UNCHANGED <<req, base>>
        /\ Become(<<>>) \/ \E f : Become(<<f>>)
    BY <1>3 DEF ScanStart, ScanSkip, ScanEnd, Return
  <2>. QED BY <2>1, <2>2, SameOwnersTransitive, LessGroupsTransitive,
              ReturnGoesOn, BecomeOneGoesOn DEF Kept
<1>4. CASE ScanSent
  <2>1. ~Idle /\ Top.op # "unlink" /\ UNCHANGED req
    BY <1>4, RunningTop DEF ScanSent
  <2>2. \E f : Become(<<f>>)
    BY <1>4 DEF ScanSent
  <2>3. SameOwners(base, base')
    BY <1>1, <1>4 DEF ScanSent, SameOwners, BaseRecord
  <2>. QED BY <2>1, <2>2, <2>3, LessGroupsTransitive, BecomeOneGoesOn DEF Kept
<1>. QED BY <1>2, <1>3, <1>4

\* Submitting a request and what follows.
LEMMA KeptSubmit ==
  ASSUME TypeOK, Submitted \/ \E r \in Requests : Submit(r) \/ Retry(r)
  PROVE  Kept
<1>1. req \in RequestMap /\ base \in BaseRecord
  BY DEF TypeOK, RequestMap
<1>2. CASE Submitted
  <2>1. ~Idle /\ Top.op # "unlink" /\ Top.r \in Requests /\ Become(<<>>)
    BY <1>2, RunningTop, TopType DEF Submitted, RequestOps
  <2>2. ASSUME NEW r \in Requests, NEW c
        PROVE  LessGroups(req, [req EXCEPT ![r] = [@ EXCEPT !.complete = c,
                                                            !.submitted = TRUE]])
    BY <1>1 DEF LessGroups, RequestMap, RequestRecord
  <2>3. LessGroups(req, req')
    BY <1>2, <2>1, <2>2, LessGroupsTransitive DEF Submitted
  <2>4. SameOwners(base, base')
    BY <1>1, <1>2, OwnersKeptByFields, SameOwnersTransitive DEF Submitted
  <2>. QED BY <2>1, <2>3, <2>4, ReturnGoesOn DEF Kept
<1>3. ASSUME NEW r \in Requests, Submit(r)
      PROVE  Kept
  <2>. DEFINE q == QueueReq(req, base, r)
              d == now + TimeoutOf(base, req[r].timeout)
              fs == <<Call("start", None),
                      [Call("submitted", r) EXCEPT !.some = req[r].complete]>>
  <2>1. q \in RequestMap /\ LessGroups(req, q)
    BY <1>1, QueueReqType, GroupsKept
  <2>2. req' = [q EXCEPT ![r] = [@ EXCEPT !.complete = FALSE, !.deadline = d]]
    BY <1>3 DEF Submit
  <2>. HIDE DEF q, d
  <2>3. LessGroups(q, req')
    BY <2>1, <2>2 DEF LessGroups, RequestMap, RequestRecord
  <2>4. SameOwners(base, base')
    <3>1. /\ QueueBase(base, r) \in BaseRecord
          /\ SameOwners(base, QueueBase(base, r))
          /\ base' = [QueueBase(base, r) EXCEPT
                        !.active = QueueBase(base, r).active \cup {r}]
      BY <1>1, <1>3, QueueBaseType DEF Submit, SameOwners, QueueBase, BaseRecord
    <3>. QED BY <3>1, OwnersKeptByFields, SameOwnersTransitive
  <2>5. fs \in Seq({Call("start", None),
                     [Call("submitted", r) EXCEPT !.some = req[r].complete]})
    OBVIOUS
  <2>6. Enter(fs)
    BY <1>3 DEF Submit
  <2>. HIDE DEF fs
  <2>. QED BY <2>1, <2>3, <2>4, <2>5, <2>6, EnterGoesOn, LessGroupsTransitive DEF Kept
<1>4. ASSUME NEW r \in Requests, Retry(r)
      PROVE  Kept
  <2>. DEFINE c == CancelReq(req, r)
              q == QueueReq(c, base, r)
  <2>1. c \in RequestMap /\ q \in RequestMap /\ LessGroups(req, q)
    BY <1>1, RequeueType, GroupsKept, LessGroupsTransitive
  <2>2. req' = [q EXCEPT ![r].retries = @ + 1]
    BY <1>4 DEF Retry
  <2>. HIDE DEF q
  <2>3. LessGroups(q, req')
    BY <2>1, <2>2 DEF LessGroups, RequestMap, RequestRecord
  <2>4. SameOwners(base, base')
    <3>1. /\ QueueBase(base, r) \in BaseRecord
          /\ SameOwners(base, QueueBase(base, r))
          /\ base' = [QueueBase(base, r) EXCEPT
                        !.pending = QueueBase(base, r).pending \ {r}]
      BY <1>1, <1>4, QueueBaseType DEF Retry, SameOwners, QueueBase, BaseRecord
    <3>. QED BY <3>1, OwnersKeptByFields, SameOwnersTransitive
  <2>5. <<Call("start", None), Call("retried", r)>> \in Frames
    BY RequestCallType, PlainFrames, FramesType DEF Ops, ObservedOps
  <2>. QED BY <1>4, <2>1, <2>3, <2>4, <2>5, EnterGoesOn, LessGroupsTransitive
       DEF Kept, Retry, Frames
<1>. QED BY <1>2, <1>3, <1>4

\* Dropping a request.
LEMMA KeptDrop ==
  ASSUME TypeOK, Drop \/ Dropped \/ Done
  PROVE  Kept
<1>1. /\ ~Idle /\ Top.op # "unlink" /\ Top.r \in Requests
      /\ req \in RequestMap /\ base \in BaseRecord
  BY RunningTop, TopType DEF Drop, Dropped, Done, RequestOps, TypeOK, RequestMap
<1>2. CASE Drop
  <2>. DEFINE c == CancelReq(req, Top.r)
  <2>1. c \in RequestMap /\ LessGroups(req, c)
    BY <1>1, CancelReqType, GroupsKept
  <2>2. LessGroups(c, DeactivateReq(c, base, Top.r))
    BY <1>1, <2>1, GroupsKept
  <2>3. SameOwners(base, base')
    BY <1>1, <1>2, <2>1, OwnersKept DEF Drop, MaybeRequest
  <2>4. <<Call("start", None), Call("dropped", Top.r)>> \in Frames
    BY <1>1, RequestCallType, PlainFrames, FramesType DEF Ops, ObservedOps
  <2>. QED BY <1>1, <1>2, <2>1, <2>2, <2>3, <2>4, BecomeGoesOn,
              LessGroupsTransitive DEF Kept, Drop, Frames
<1>3. CASE Dropped
  <2>. DEFINE s == IF req[Top.r].state \in Live THEN "CANCELLED"
                   ELSE req[Top.r].state
  <2>1. s \in States /\ req' = [req EXCEPT ![Top.r].state = s]
    BY <1>1, <1>3 DEF Dropped, RequestMap, RequestRecord, States
  <2>. HIDE DEF s
  <2>2. LessGroups(req, req')
    BY <1>1, <2>1, GroupsKeptByState
  <2>3. SameOwners(base, base')
    BY <1>1, <1>3, OwnersKeptByFields DEF Dropped
  <2>. QED BY <1>1, <1>3, <2>2, <2>3, ReturnGoesOn DEF Kept, Dropped
<1>4. CASE Done
  <2>1. LessGroups(req, req')
    BY <1>1, <1>4, GroupsKept DEF Done
  <2>2. CompleteCalls(req, Top.r) \in Frames
    BY <1>1, FailCallsType
  <2>. QED BY <1>1, <1>4, <2>1, <2>2, BecomeGoesOn, SameOwnersTransitive
       DEF Kept, Done, Frames
<1>. QED BY <1>2, <1>3, <1>4

\* Unregistering, freeing and finishing a request.
LEMMA KeptFree ==
  ASSUME TypeOK, Unregister \/ Finish \/ \E r \in Requests : Free(r) \/ Cancel(r)
  PROVE  Kept
<1>1. req \in RequestMap /\ SameOwners(base, base')
  BY SameOwnersTransitive
  DEF TypeOK, RequestMap, Unregister, Finish, Free, Cancel
<1>2. CASE Unregister
  <2>1. ~Idle /\ Top.op # "unlink" /\ Top.r \in Requests
    BY <1>2, RunningTop, TopType DEF Unregister, RequestOps
  <2>2. LessGroups(req, req')
    BY <1>1, <1>2, <2>1 DEF Unregister, LessGroups, RequestMap, RequestRecord
  <2>. QED BY <1>1, <1>2, <2>1, <2>2, ReturnGoesOn DEF Kept, Unregister
<1>3. CASE Finish
  <2>1. ~Idle /\ Top.op # "unlink" /\ Top.r \in Requests
    BY <1>3, RunningTop, TopType DEF Finish, RequestOps
  <2>. DEFINE q == IF req[Top.r].complete /\ req[Top.r].submitted
                   THEN CompleteReq(req, Top.r) ELSE req
  <2>2. q \in RequestMap /\ LessGroups(req, q)
    BY <1>1, <2>1, CompleteReqType, GroupsKept, LessGroupsTransitive
  <2>3. req' = [q EXCEPT ![Top.r].freed = TRUE]
    BY <1>3 DEF Finish
  <2>. HIDE DEF q
  <2>4. LessGroups(q, req')
    BY <2>1, <2>2, <2>3 DEF LessGroups, RequestMap, RequestRecord
  <2>5. Become(<<>>) \/ Become(Callback(Top.r))
    BY <1>3 DEF Finish
  <2>6. Callback(Top.r) \in Seq(Frame)
    BY <2>1, CallbackType DEF MaybeRequest, Frames
  <2>. QED BY <1>1, <2>1, <2>2, <2>4, <2>5, <2>6, ReturnGoesOn, BecomeGoesOn,
              LessGroupsTransitive DEF Kept
<1>4. ASSUME NEW r \in Requests, Free(r) \/ Cancel(r)
      PROVE  Kept
  <2>1. LessGroups(req, req')
    BY <1>1, <1>4, GroupsLeft DEF Free, Cancel
  <2>2. Call("finish", r) \in Frame
    BY RequestCallType DEF Ops, ObservedOps
  <2>3. /\ ObjectCancelCalls(req, r) \in Seq(Frame)
        /\ ObjectCancelCalls(req, r) \o <<Call("finish", r)>> \in Seq(Frame)
    BY <1>1, <2>2, ObjectCancelCallsType, FramesType DEF Frames
  <2>4. \/ Enter(ObjectCancelCalls(req, r))
        \/ Enter(ObjectCancelCalls(req, r) \o <<Call("finish", r)>>)
    BY <1>4 DEF Free, Cancel
  <2>. QED BY <1>1, <2>1, <2>3, <2>4, EnterGoesOn DEF Kept
<1>. QED BY <1>2, <1>3, <1>4

\* Going through the lists of expired, lost and cancelled requests.
LEMMA KeptLists ==
  ASSUME TypeOK, Expire \/ FailNext \/ CancelNext
  PROVE  Kept
<1>1. /\ req \in RequestMap /\ base \in BaseRecord
      /\ ~Idle /\ Top.op # "unlink" /\ Top.todo \in SUBSET Requests
  BY RunningTop, TopType DEF TypeOK, RequestMap, Expire, FailNext, CancelNext
<1>2. CASE Expire
  <2>1. \E f : Become(<<f>>)
    BY <1>2 DEF Expire
  <2>2. \/ UNCHANGED <<req, base>>
        \/ \E r \in Requests : /\ req' = DeactivateReq(req, base, r)
                                /\ base' = DeactivateBase(req, base, r)
    BY <1>1, <1>2 DEF Expire
  <2>3. LessGroups(req, req') /\ SameOwners(base, base')
    BY <1>1, <2>2, GroupsKept, OwnersKept, LessGroupsTransitive,
       SameOwnersTransitive DEF MaybeRequest
  <2>. QED BY <1>1, <2>1, <2>3, BecomeOneGoesOn DEF Kept
<1>3. CASE FailNext
  <2>1. UNCHANGED base
    BY <1>3 DEF FailNext
  <2>2. CASE UNCHANGED req /\ Become(<<>>)
    BY <1>1, <2>1, <2>2, ReturnGoesOn, LessGroupsTransitive,
       SameOwnersTransitive DEF Kept
  <2>3. ASSUME NEW r \in Top.todo, req' = FailReq(req, r),
               Become(FailCalls(req, r) \o <<ListCall("fail", Top.todo \ {r})>>)
        PROVE  Kept
    <3>1. r \in Requests /\ FailCalls(req, r) \in Frames
      BY <1>1, FailCallsType
    <3>2. LessGroups(req, req')
      BY <1>1, <2>3, <3>1, GroupsKeptByState DEF States
    <3>. QED BY <1>1, <2>1, <2>3, <3>1, <3>2, BecomeOneGoesOn,
                SameOwnersTransitive DEF Kept
  <2>. QED BY <1>3, <2>2, <2>3 DEF FailNext
<1>4. CASE CancelNext
  <2>1. UNCHANGED base
    BY <1>4 DEF CancelNext
  <2>2. CASE UNCHANGED req /\ Become(<<>>)
    BY <1>1, <2>1, <2>2, ReturnGoesOn, LessGroupsTransitive,
       SameOwnersTransitive DEF Kept
  <2>3. ASSUME NEW r \in Top.todo, req' = Withdraw(ObjectCancelReq(req, r), r),
               Become(ObjectCancelCalls(req, r)
                      \o <<[Top EXCEPT !.todo = @ \ {r}]>>)
        PROVE  Kept
    <3>1. r \in Requests /\ ObjectCancelCalls(req, r) \in Frames
      BY <1>1, ObjectCancelCallsType
    <3>2. LessGroups(req, req')
      BY <1>1, <2>3, <3>1, GroupsLeft
    <3>. QED BY <1>1, <2>1, <2>3, <3>1, <3>2, BecomeOneGoesOn,
                SameOwnersTransitive DEF Kept
  <2>. QED BY <1>4, <2>2, <2>3 DEF CancelNext
<1>. QED BY <1>2, <1>3, <1>4

\* Leaving a group is a step out of groups.
LEMMA GroupsUngrouped ==
  ASSUME TypeOK, NEW S
  PROVE  LessGroups(req, Ungroup(S))
BY DEF LessGroups, Ungroup, TypeOK, RequestRecord

\* Events that concern no owner.
LEMMA KeptEvents ==
  ASSUME TypeOK, RespondUnknown \/ Tick \/ Timeout \/ Connected \/ Sent
  PROVE  Kept
<1>1. req \in RequestMap /\ base \in BaseRecord
  BY DEF TypeOK, RequestMap
<1>2. CASE RespondUnknown \/ Tick
  BY <1>2, SameGoesOn, LessGroupsTransitive, SameOwnersTransitive
  DEF Kept, RespondUnknown, Tick
<1>3. CASE Timeout
  <2>. DEFINE f == ListCall("expire", {r \in base.active : req[r].deadline <= now})
  <2>1. Enter(<<f, Call("start", None), Call("reset", None)>>) /\ UNCHANGED req
    BY <1>3 DEF Timeout
  <2>. HIDE DEF f
  <2>2. <<f, Call("start", None), Call("reset", None)>>
          \in Seq({f, Call("start", None), Call("reset", None)})
    OBVIOUS
  <2>3. SameOwners(base, base')
    BY <1>1, <1>3 DEF Timeout, SameOwners, BaseRecord
  <2>. QED BY <2>1, <2>2, <2>3, EnterGoesOn, LessGroupsTransitive DEF Kept
<1>4. CASE Connected
  <2>. DEFINE fs == Callback(None) \o <<Call("start", None), Call("connected", None)>>
  <2>1. Enter(fs) /\ UNCHANGED <<req, base>>
    BY <1>4 DEF Connected
  <2>2. fs \in Frames
    BY CallbackType, PlainFrames, FramesType DEF MaybeRequest
  <2>. HIDE DEF fs
  <2>. QED BY <2>1, <2>2, EnterGoesOn, LessGroupsTransitive,
              SameOwnersTransitive DEF Kept, Frames
<1>5. CASE Sent
  <2>1. PICK t \in net.outstanding :
         LET q == [req EXCEPT ![t[1]].tx = 0]
         IN  \/ req' = q /\ UNCHANGED stack
             \/ req' = FailReq(q, t[1]) /\ Enter(FailCalls(q, t[1]))
    BY <1>5 DEF Sent
  <2>. DEFINE r == t[1]
              q == [req EXCEPT ![r].tx = 0]
  <2>2. r \in Requests
    BY DEF TypeOK, NetRecord, Transmissions
  <2>3. q \in RequestMap /\ LessGroups(req, q)
    <3>1. q \in RequestMap
      BY <1>1, <2>2, FieldType
    <3>. HIDE DEF r
    <3>2. LessGroups(req, q)
      BY <1>1, <2>2 DEF LessGroups, RequestMap, RequestRecord
    <3>. QED BY <3>1, <3>2
  <2>4. LessGroups(req, FailReq(q, r)) /\ FailCalls(q, r) \in Seq(Frame)
    <3>. HIDE DEF q, r
    <3>1. LessGroups(q, FailReq(q, r))
      BY <2>2, <2>3, GroupsKeptByState DEF States
    <3>. QED BY <2>2, <2>3, <3>1, LessGroupsTransitive, FailCallsType DEF Frames
  <2>5. UNCHANGED base
    BY <1>5 DEF Sent
  <2>. QED BY <2>1, <2>3, <2>4, <2>5, SameGoesOn, EnterGoesOn,
              SameOwnersTransitive DEF Kept
<1>. QED BY <1>2, <1>3, <1>4, <1>5

\* The death of a service.
LEMMA KeptDeath ==
  ASSUME TypeOK, Death \/ ConfigDeath \/ HandleDeath
  PROVE  Kept
<1>1. /\ req \in RequestMap /\ base \in BaseRecord
      /\ Callback(None) \in Frames
      /\ ListCall("fail", base.active) \in Frame /\ Call("die", None) \in Frame
  BY CallbackType, ListCallType, PlainCallType
  DEF TypeOK, RequestMap, MaybeRequest, BaseRecord, Ops, RequestOps
<1>2. LessGroups(req, HandleDeathReq) /\ SameOwners(base, HandleDeathBase)
  BY <1>1 DEF LessGroups, HandleDeathReq, RequestMap, RequestRecord,
              SameOwners, HandleDeathBase, BaseRecord
<1>3. /\ <<ListCall("fail", base.active)>> \o Callback(None) \in Seq(Frame)
      /\ Callback(None) \o <<Call("die", None)>> \in Seq(Frame)
  BY <1>1, FramesType DEF Frames
<1>4. CASE Death
  BY <1>2, <1>3, <1>4, EnterGoesOn DEF Death, Kept
<1>5. CASE ConfigDeath
  BY <1>3, <1>5, EnterGoesOn, LessGroupsTransitive, SameOwnersTransitive
  DEF ConfigDeath, Kept
<1>6. CASE HandleDeath
  <2>1. ~Idle /\ Top.op # "unlink"
    BY <1>6, RunningTop DEF HandleDeath
  <2>. QED BY <1>2, <1>6, <2>1, BecomeOneGoesOn DEF HandleDeath, Kept
<1>. QED BY <1>4, <1>5, <1>6

\* An answer that is retried.
LEMMA KeptRespondRetry ==
  ASSUME TypeOK, RespondRetry
  PROVE  Kept
<1>1. PICK m \in net.answers :
       LET r == m[1]
           q == CancelReq(req, r)
       IN  /\ req' = [QueueReq(q, base, r) EXCEPT
                        ![r] = [@ EXCEPT !.retries = q[r].retries + 1,
                                         !.scheduled = now + RetryDelay]]
           /\ base' = [QueueBase(base, r) EXCEPT !.pending = @ \ {r}]
  BY DEF RespondRetry
<1>. DEFINE r == m[1]
            c == CancelReq(req, r)
            q == QueueReq(c, base, r)
<1>2. r \in Requests
  BY DEF TypeOK, NetRecord, Transmissions
<1>3. req' = [q EXCEPT ![r] = [@ EXCEPT !.retries = c[r].retries + 1,
                                        !.scheduled = now + RetryDelay]]
  BY <1>1
<1>4. base' = [QueueBase(base, r) EXCEPT !.pending = @ \ {r}]
  BY <1>1
<1>. HIDE DEF r
<1>5. req \in RequestMap /\ base \in BaseRecord
  BY DEF TypeOK, RequestMap
<1>6. q \in RequestMap /\ LessGroups(req, q)
  BY <1>2, <1>5, RequeueType, GroupsKept, LessGroupsTransitive
<1>. HIDE DEF q, c
<1>7. LessGroups(q, req')
  BY <1>2, <1>3, <1>6 DEF LessGroups, RequestMap, RequestRecord
<1>8. SameOwners(base, base')
  BY <1>4, <1>5 DEF SameOwners, QueueBase, BaseRecord
<1>9. <<Call("start", None), Call("reset", None)>> \in Seq(Frame)
  BY PlainFrames
<1>10. Enter(<<Call("start", None), Call("reset", None)>>)
  BY DEF RespondRetry
<1>. QED BY <1>6, <1>7, <1>8, <1>9, <1>10, EnterGoesOn, LessGroupsTransitive
     DEF Kept

\* The references, the timeouts and the end of the object.
LEMMA KeptUser ==
  ASSUME TypeOK,
         \/ \E r \in Requests : \/ Release(r)
                                \/ \E ms \in Timeouts : SetTimeout(r, ms)
         \/ \E ms \in Timeouts : SetDefaultTimeout(ms)
         \/ Finalize
  PROVE  Kept
<1>1. req \in RequestMap /\ base \in BaseRecord
  BY DEF TypeOK, RequestMap
<1>2. FreesGoOn
  BY SameGoesOn DEF Release, SetTimeout, SetDefaultTimeout, Finalize
<1>3. ASSUME NEW r \in Requests, Release(r)
      PROVE  Kept
  BY <1>1, <1>2, <1>3, SameOwnersTransitive
  DEF Kept, Release, LessGroups, RequestMap, RequestRecord
<1>4. ASSUME NEW r \in Requests, NEW ms \in Timeouts, SetTimeout(r, ms)
      PROVE  Kept
  <2>1. UNCHANGED base \/ \E t : base' = [base EXCEPT !.timer = t]
    BY <1>4 DEF SetTimeout
  <2>2. \E d : req' = [req EXCEPT ![r] = [req[r] EXCEPT !.timeout = ms,
                                                      !.deadline = d]]
    BY <1>4 DEF SetTimeout
  <2>3. LessGroups(req, req')
    BY <1>1, <2>2 DEF LessGroups, RequestMap, RequestRecord
  <2>4. SameOwners(base, base')
    BY <1>1, <2>1 DEF SameOwners, BaseRecord
  <2>. QED BY <1>2, <2>3, <2>4 DEF Kept
<1>5. ASSUME NEW ms \in Timeouts, SetDefaultTimeout(ms)
      PROVE  Kept
  <2>1. \/ base' = [base EXCEPT !.timeout = ms]
        \/ \E t : base' = [[base EXCEPT !.timeout = ms] EXCEPT !.timer = t]
    BY <1>5 DEF SetDefaultTimeout
  <2>2. LessGroups(req, req')
    BY <1>1, <1>5 DEF SetDefaultTimeout, LessGroups, RequestMap, RequestRecord
  <2>3. SameOwners(base, base')
    BY <1>1, <2>1 DEF SameOwners, BaseRecord
  <2>. QED BY <1>2, <2>2, <2>3 DEF Kept
<1>6. CASE Finalize
  <2>1. LessGroups(req, req')
    BY <1>1, <1>6 DEF Finalize, FinalizeReq, LessGroups, RequestMap, RequestRecord
  <2>2. SameOwners(base, base')
    BY <1>1, <1>6 DEF Finalize, FinalizeBase, SameOwners, BaseRecord
  <2>. QED BY <1>2, <2>1, <2>2 DEF Kept
<1>. QED BY <1>3, <1>4, <1>5, <1>6

\* A group that is cancelled is emptied.
LEMMA KeptCancelGroup ==
  ASSUME TypeOK, NEW g \in Groups, CancelGroup(g)
  PROVE  Kept
<1>1. UNCHANGED base /\ LessGroups(req, req')
  BY GroupsUngrouped DEF CancelGroup
<1>2. <<ListCall("cancel", Members(g))>> \in Seq({ListCall("cancel", Members(g))})
  OBVIOUS
<1>. QED BY <1>1, <1>2, EnterGoesOn, SameOwnersTransitive DEF Kept, CancelGroup

\* None of these steps has to do with the owners.
LEMMA KeptStep ==
  ASSUME Kept
  PROVE  OwnersStep
<1>1. InLine(base) => InLine(base')
  BY DEF Kept, SameOwners, InLine
<1>2. MembersAlive => MembersAlive'
  BY MembersStep DEF Kept, SameOwners
<1>. QED BY <1>1, <1>2
     DEF OwnersStep, Kept, SameOwners, Turns, Waits, Sends, LessGroups

-----------------------------------------------------------------------------
(***************************************************************************)
(* The steps that are about owners.                                        *)
(***************************************************************************)

\* move_owner_queue gives the object to the group that waited longest, when
\* no request outside it is pending.
LEMMA MovedOwner ==
  ASSUME NEW b \in BaseRecord, NEW q
  PROVE  LET c == MoveOwnerQueue(q, b)
         IN  /\ c.groups = b.groups /\ c.pending = b.pending
             /\ InLine(b) => InLine(c)
             /\ Turns(b, c) /\ Waits(b, c, q)
<1>. DEFINE c == MoveOwnerQueue(q, b)
<1>1. CASE MovesOwner(q, b)
  <2>1. /\ b.owner = None /\ b.waiting # <<>> /\ b.waiting \in Seq(Groups)
        /\ CanSetOwner(q, b, Head(b.waiting))
    BY <1>1 DEF MovesOwner, BaseRecord
  <2>2. /\ c.owner = Head(b.waiting) /\ c.waiting = Tail(b.waiting)
        /\ c.groups = b.groups /\ c.pending = b.pending
    BY <1>1 DEF MoveOwnerQueue, BaseRecord
  <2>. HIDE DEF c
  <2>3. InLine(b) => InLine(c)
    <3>. SUFFICES ASSUME InLine(b) PROVE InLine(c)
      OBVIOUS
    <3>1. Head(b.waiting) \in b.groups \ {None}
      BY <2>1, TailLine DEF InLine
    <3>2. Line(Tail(b.waiting), (b.groups \ {None}) \ {Head(b.waiting)})
      BY <2>1, TailLine DEF InLine
    <3>3. Line(c.waiting, c.groups \ {c.owner})
      BY <2>2, <3>2 DEF Line
    <3>. QED BY <2>2, <3>1, <3>3 DEF InLine
  <2>4. Turns(b, c) /\ Waits(b, c, q)
    BY <2>1, <2>2 DEF Turns, Waits, CanSetOwner
  <2>. QED BY <2>2, <2>3, <2>4 DEF c
<1>2. CASE ~MovesOwner(q, b)
  BY <1>2 DEF MoveOwnerQueue, Turns, Waits
<1>. QED BY <1>1, <1>2

\* So does a step that ends with it.
LEMMA MovedStep ==
  ASSUME base \in BaseRecord, NEW b \in BaseRecord, SameOwners(base, b),
         base' = MoveOwnerQueue(req', b), FreesGoOn, Sends,
         \/ LessGroups(req, req')
         \/ \E r : LessGroupsBut(req, req', r)
  PROVE  OwnersStep
<1>1. base'.groups = base.groups
  BY MovedOwner DEF SameOwners
<1>2. InLine(base) => InLine(base')
  BY MovedOwner DEF SameOwners, InLine
<1>3. Turns(base, base') /\ Waits(base, base', req')
  BY MovedOwner DEF SameOwners, Turns, Waits
<1>4. MembersAlive => MembersAlive'
  BY <1>1, MembersStep
<1>. QED BY <1>2, <1>3, <1>4 DEF OwnersStep

\* An answer that completes a request.
LEMMA OwnersRespondDone ==
  ASSUME TypeOK, RespondDone
  PROVE  OwnersStep
<1>1. PICK m \in net.answers :
       LET r == m[1]
           q == [CancelReq(req, r) EXCEPT ![r].state = "DONE"]
           b == DeactivateBase(q, base, r)
       IN  /\ req' = q
           /\ base' = MoveOwnerQueue(q, b)
           /\ Enter((IF MovesOwner(q, b) THEN Callback(None) ELSE <<>>)
                    \o <<Call("done", r), Call("start", None),
                         Call("reset", None)>>)
  BY DEF RespondDone
<1>. DEFINE r == m[1]
            c == CancelReq(req, r)
            b == DeactivateBase(req', base, r)
            cs == <<Call("done", r), Call("start", None), Call("reset", None)>>
<1>2. r \in Requests
  BY DEF TypeOK, NetRecord, Transmissions
<1>3. /\ req' = [c EXCEPT ![r].state = "DONE"]
      /\ base' = MoveOwnerQueue(req', b)
      /\ Enter(Callback(None) \o cs) \/ Enter(<<>> \o cs)
  BY <1>1
<1>. HIDE DEF r
<1>4. req \in RequestMap /\ base \in BaseRecord
  BY DEF TypeOK, RequestMap
<1>5. c \in RequestMap /\ LessGroups(req, c)
  BY <1>2, <1>4, CancelReqType, GroupsKept
<1>6. req' \in RequestMap /\ LessGroups(req, req')
  <2>. HIDE DEF c
  <2>1. "DONE" \in States
    BY DEF States
  <2>. QED BY <1>2, <1>3, <1>5, <2>1, StateType, GroupsKeptByState,
              LessGroupsTransitive
<1>7. b \in BaseRecord /\ SameOwners(base, b)
  BY <1>2, <1>4, <1>6, DeactivateBaseType, OwnersKept DEF MaybeRequest
<1>8. FreesGoOn
  <2>1. Call("done", r) \in Frame
    BY <1>2, RequestCallType DEF Ops, ObservedOps
  <2>2. cs \in Frames /\ Callback(None) \in Frames /\ <<>> \in Frames
    BY <2>1, PlainFrames, FramesType, CallbackType DEF MaybeRequest
  <2>. HIDE DEF cs
  <2>3. Callback(None) \o cs \in Seq(Frame) /\ <<>> \o cs \in Seq(Frame)
    BY <2>2, FramesType DEF Frames
  <2>. QED BY <1>3, <2>3, EnterGoesOn
<1>9. Sends
  BY <1>6 DEF Sends, LessGroups
<1>. HIDE DEF b
<1>. QED BY <1>3, <1>4, <1>6, <1>7, <1>8, <1>9, MovedStep

\* Sending a request.
LEMMA OwnersScanSend ==
  ASSUME TypeOK, ScanSend
  PROVE  OwnersStep
<1>1. PICK r \in Requests :
       /\ Scanning(r) /\ CanSubmitRequest(req, base, r)
       /\ LET q1 == NewSerialReq(UnlinkReq(req, r, Top.prev), r)
              q2 == [q1 EXCEPT ![r] = [@ EXCEPT !.scheduled = 0,
                                                !.state = "PENDING",
                                                !.tx = q1[r].sends]]
              b1 == NewSerialBase(req, UnlinkBase(req, base, r, Top.prev), r)
              b2 == [b1 EXCEPT !.pending = @ \cup {r}]
          IN  /\ req' = q2
              /\ base' = MoveOwnerQueue(q2, b2)
              /\ Become((IF MovesOwner(q2, b2) THEN Callback(None) ELSE <<>>)
                        \o <<[Top EXCEPT !.op = "sent", !.next = req[r].next,
                                         !.some = TRUE]>>)
  BY DEF ScanSend
<1>. DEFINE q0 == UnlinkReq(req, r, Top.prev)
            q1 == NewSerialReq(q0, r)
            b0 == UnlinkBase(req, base, r, Top.prev)
            b1 == NewSerialBase(req, b0, r)
            b2 == [b1 EXCEPT !.pending = @ \cup {r}]
            f == [Top EXCEPT !.op = "sent", !.next = req[r].next, !.some = TRUE]
<1>2. /\ req' = [q1 EXCEPT ![r] = [@ EXCEPT !.scheduled = 0,
                                            !.state = "PENDING",
                                            !.tx = q1[r].sends]]
      /\ base' = MoveOwnerQueue(req', b2)
      /\ Become(Callback(None) \o <<f>>) \/ Become(<<>> \o <<f>>)
  BY <1>1
<1>3. ~Idle /\ Top.op # "unlink" /\ Top.prev \in MaybeRequest
  BY <1>1, RunningTop, TopType DEF Scanning
<1>4. req \in RequestMap /\ base \in BaseRecord /\ q0 \in RequestMap
  BY UnlinkReqType DEF TypeOK, RequestMap
<1>5. q1 \in RequestMap /\ LessGroupsBut(req, q1, r)
  <2>1. LessGroups(req, q0) /\ LessGroupsBut(q0, q1, r)
    BY <1>4, GroupsKept
  <2>. QED BY <1>4, <2>1, NewSerialReqType, LessGroupsButTransitive
<1>6. b0 \in BaseRecord /\ b1 \in BaseRecord
  BY <1>3, <1>4, UnlinkBaseType, NewSerialBaseType
<1>7. SameOwners(base, b1)
  <2>1. SameOwners(base, b0) /\ SameOwners(b0, b1)
    BY <1>3, <1>4, <1>6, OwnersKept
  <2>. QED BY <2>1, SameOwnersTransitive
<1>8. FreesGoOn
  <2>1. Callback(None) \in Frames /\ <<>> \in Frames
    BY CallbackType, FramesType DEF MaybeRequest
  <2>. HIDE DEF f
  <2>. QED BY <1>2, <1>3, <2>1, BecomeOneGoesOn
<1>. HIDE DEF q1, b1
<1>9. LessGroupsBut(req, req', r)
  <2>1. LessGroups(q1, req')
    BY <1>2, <1>5 DEF LessGroups, RequestMap, RequestRecord
  <2>. QED BY <1>5, <2>1, LessGroupsButTransitive
<1>10. b2 \in BaseRecord /\ SameOwners(base, b2)
  BY <1>6, <1>7 DEF SameOwners, BaseRecord
<1>11. Sends
  BY <1>1, <1>9 DEF Sends, LessGroupsBut
<1>. HIDE DEF b2
<1>. QED BY <1>2, <1>4, <1>8, <1>9, <1>10, <1>11, MovedStep

\* Failing to send a request.
LEMMA OwnersScanFail ==
  ASSUME TypeOK, ScanFail
  PROVE  OwnersStep
<1>1. PICK r \in Requests :
       /\ Scanning(r) /\ CanSubmitRequest(req, base, r)
       /\ LET q == NewSerialReq(UnlinkReq(req, r, Top.prev), r)
          IN  /\ req' = FailReq(q, r)
              /\ Become(FailCalls(q, r)
                        \o <<[Top EXCEPT !.r = req[r].next]>>)
       /\ base' = NewSerialBase(req, UnlinkBase(req, base, r, Top.prev), r)
  BY DEF ScanFail
<1>. DEFINE q0 == UnlinkReq(req, r, Top.prev)
            q == NewSerialReq(q0, r)
            b == UnlinkBase(req, base, r, Top.prev)
<1>2. ~Idle /\ Top.op # "unlink" /\ Top.prev \in MaybeRequest
  BY <1>1, RunningTop, TopType DEF Scanning
<1>3. req \in RequestMap /\ q0 \in RequestMap /\ q \in RequestMap
  BY UnlinkReqType, NewSerialReqType DEF TypeOK, RequestMap
<1>4. base \in BaseRecord /\ b \in BaseRecord
  BY <1>2, <1>3, UnlinkBaseType DEF TypeOK
<1>5. LessGroupsBut(req, req', r)
  <2>1. /\ LessGroups(req, q0) /\ LessGroupsBut(q0, q, r)
        /\ LessGroups(q, FailReq(q, r))
    BY <1>3, GroupsKept, GroupsKeptByState DEF States
  <2>. QED BY <1>1, <2>1, LessGroupsButTransitive
<1>6. SameOwners(base, base')
  <2>1. SameOwners(base, b) /\ SameOwners(b, NewSerialBase(req, b, r))
    BY <1>2, <1>3, <1>4, OwnersKept
  <2>. QED BY <1>1, <2>1, SameOwnersTransitive
<1>7. FailCalls(q, r) \in Frames
  BY <1>3, FailCallsType
<1>8. FreesGoOn
  BY <1>1, <1>2, <1>7, BecomeOneGoesOn
<1>9. Sends
  BY <1>1, <1>5 DEF Sends, LessGroupsBut
<1>10. MembersAlive => MembersAlive'
  BY <1>5, <1>6, <1>8, MembersStep DEF SameOwners
<1>. QED BY <1>6, <1>9, <1>10 DEF OwnersStep, SameOwners, InLine, Turns, Waits

\* Telling the observers of a request, and what comes of it.
LEMMA OwnersObserved ==
  ASSUME TypeOK, ScanTell \/ Accept \/ Refuse \/ Refused
  PROVE  OwnersStep
<1>1. req \in RequestMap /\ base \in BaseRecord
  BY DEF TypeOK, RequestMap
<1>2. CASE ScanTell
  <2>1. PICK r \in Requests, n \in Nat : Tells(r, n)
    BY <1>2, TellStep
  <2>. DEFINE q == UnlinkReq(req, r, Top.prev)
              b == UnlinkBase(req, base, r, Top.prev)
  <2>2. /\ q \in RequestMap /\ req' = [q EXCEPT ![r] = [@ EXCEPT !.serial2 = n]]
        /\ base' = NewSerialBase(req, b, r) /\ ~Idle /\ Top.op # "unlink"
        /\ \E f : Become(Callback(None) \o <<f>>)
    BY <2>1 DEF Tells
  <2>3. Top.prev \in MaybeRequest
    BY <2>2, TopType
  <2>4. LessGroups(req, q) /\ b \in BaseRecord /\ SameOwners(base, b)
    BY <1>1, <2>3, GroupsKept, UnlinkBaseType, OwnersKept
  <2>. HIDE DEF q, b
  <2>5. LessGroups(q, req')
    BY <2>2 DEF LessGroups, RequestMap, RequestRecord
  <2>6. SameOwners(base, base')
    BY <2>2, <2>4, OwnersKept, SameOwnersTransitive DEF SameOwners, NewSerialBase, BaseRecord
  <2>7. FreesGoOn
    BY <2>2, CallbackType, BecomeOneGoesOn DEF MaybeRequest
  <2>. QED BY <2>4, <2>5, <2>6, <2>7, LessGroupsTransitive, KeptStep DEF Kept
<1>3. CASE Accept
  <2>1. PICK q, b, f : Transacts(q, b, f)
    BY <1>3, TransactStep
  <2>2. LessGroupsBut(req, req', Top.r)
    BY <1>1, <2>1 DEF Transacts, LessGroupsBut, RequestMap, RequestRecord
  <2>3. /\ b \in BaseRecord /\ SameOwners(base, b)
        /\ base' = MoveOwnerQueue(req', b)
    BY <1>1, <2>1 DEF Transacts, SameOwners, BaseRecord
  <2>4. FreesGoOn
    <3>1. ~Idle /\ Top.op # "unlink" /\ \E cs \in Frames : Become(cs \o <<f>>)
      BY <2>1 DEF Transacts
    <3>. QED BY <3>1, BecomeOneGoesOn
  <2>5. Sends
    BY <1>3, RunningSend DEF Accept, Sends
  <2>. QED BY <1>1, <2>2, <2>3, <2>4, <2>5, MovedStep
<1>4. CASE Refuse
  <2>1. ~Idle /\ Top.op # "unlink" /\ UNCHANGED <<req, base>>
    BY <1>4, RunningTop DEF Refuse
  <2>2. \E f : Become(<<f>>)
    BY <1>4 DEF Refuse
  <2>. QED BY <2>1, <2>2, SameOwnersTransitive, LessGroupsTransitive,
              BecomeOneGoesOn, KeptStep DEF Kept
<1>5. CASE Refused
  <2>1. PICK q, f : Refusing(q, f)
    BY <1>5, RefusedStep
  <2>2. LessGroupsBut(req, req', Top.r)
    <3>1. LessGroupsBut(req, q, Top.r)
      BY <1>1, <2>1 DEF Refusing, LessGroupsBut, RequestMap, RequestRecord
    <3>2. LessGroups(q, req')
      BY <2>1, GroupsKeptByState DEF Refusing, States
    <3>. QED BY <3>1, <3>2, LessGroupsButTransitive
  <2>3. FreesGoOn
    <3>1. ~Idle /\ Top.op # "unlink" /\ \E cs \in Frames : Become(cs \o <<f>>)
      BY <2>1 DEF Refusing
    <3>. QED BY <3>1, BecomeOneGoesOn
  <2>4. Sends
    BY <1>5, RunningSend DEF Refused, Sends
  <2>5. UNCHANGED base
    BY <1>5 DEF Refused
  <2>6. MembersAlive => MembersAlive'
    BY <2>2, <2>3, <2>5, MembersStep
  <2>. QED BY <2>4, <2>5, <2>6 DEF OwnersStep, InLine, Turns, Waits
<1>. QED BY <1>2, <1>3, <1>4, <1>5

\* radio_base_block
LEMMA OwnersBlock ==
  ASSUME TypeOK, NEW g \in Groups, Block(g)
  PROVE  OwnersStep
<1>1. base \in BaseRecord /\ g \in base.groups /\ base.owner # g /\ g # None
  BY ConstantsAssumption DEF TypeOK, Block
<1>2. UNCHANGED req
  BY DEF Block
<1>3. CASE /\ base.owner = None /\ base.waiting = <<>> /\ CanSetOwner(req, base, g)
           /\ base' = [base EXCEPT !.owner = g] /\ Enter(Callback(None))
  <2>1. /\ base'.groups = base.groups /\ base'.waiting = <<>>
        /\ base'.owner = g /\ base'.pending = base.pending
    BY <1>1, <1>3 DEF BaseRecord
  <2>2. InLine(base')
    BY <1>1, <2>1 DEF InLine, Line
  <2>3. Turns(base, base') /\ Waits(base, base', req')
    BY <1>2, <1>3, <2>1 DEF Turns, Waits, CanSetOwner
  <2>4. FreesGoOn
    BY <1>3, CallbackType, EnterGoesOn DEF Frames, MaybeRequest
  <2>5. MembersAlive => MembersAlive'
    BY <1>2, <2>1, <2>4, MembersStep, LessGroupsTransitive
  <2>. QED BY <1>2, <2>2, <2>3, <2>5 DEF OwnersStep, Sends
<1>4. CASE /\ \A i \in DOMAIN base.waiting : base.waiting[i] # g
           /\ base' = [base EXCEPT !.waiting = Append(@, g)]
           /\ UNCHANGED stack
  <2>. DEFINE w == base.waiting
  <2>1. /\ base'.groups = base.groups /\ base'.owner = base.owner
        /\ base'.waiting = Append(w, g)
    BY <1>4, <1>1 DEF BaseRecord
  <2>2. w \in Seq(Groups) /\ \A i \in DOMAIN w : w[i] # g
    BY <1>1, <1>4 DEF BaseRecord
  <2>3. ASSUME InLine(base)
        PROVE  InLine(base')
    <3>. DEFINE G == base.groups \ {base.owner}
    <3>1. Line(w, G) /\ g \in G
      BY <1>1, <2>3 DEF InLine
    <3>. HIDE DEF w, G
    <3>2. /\ Append(w, g) \in Seq(Groups) /\ Len(w) \in Nat
          /\ DOMAIN w = 1 .. Len(w)
          /\ DOMAIN Append(w, g) = 1 .. Len(w) + 1
          /\ \A i \in 1 .. Len(w) : Append(w, g)[i] = w[i]
          /\ Append(w, g)[Len(w) + 1] = g
      BY <2>2
    <3>3. Line(Append(w, g), G)
      BY <2>2, <3>1, <3>2 DEF Line
    <3>. QED BY <2>1, <2>3, <3>3 DEF InLine, G
  <2>4. Turns(base, base') /\ Waits(base, base', req')
    BY <2>1 DEF Turns, Waits
  <2>5. MembersAlive => MembersAlive'
    BY <1>2, <1>4, <2>1, SameGoesOn, MembersStep, LessGroupsTransitive
  <2>. QED BY <1>2, <2>3, <2>4, <2>5 DEF OwnersStep, Sends
<1>. QED BY <1>3, <1>4 DEF Block

\* radio_base_unblock: the next group becomes the owner, or g waits no more.
LEMMA UnblockedLine ==
  ASSUME TypeOK, NEW g \in Groups
  PROVE  LET c == UnblockBase(g)
         IN  /\ c.groups = base.groups
             /\ InLine(base) => InLine(c) /\ InLine([c EXCEPT !.groups = @ \ {g}])
             /\ Turns(base, c) /\ Waits(base, c, req)
<1>. DEFINE c == UnblockBase(g)
            w == base.waiting
<1>1. base \in BaseRecord /\ w \in Seq(Groups) /\ g # None
  BY ConstantsAssumption DEF TypeOK, BaseRecord
<1>2. CASE base.owner # g
  <2>1. /\ c.groups = base.groups /\ c.owner = base.owner
        /\ c.waiting = WithdrawOwner(w, g)
        /\ [c EXCEPT !.groups = @ \ {g}].groups = base.groups \ {g}
        /\ [c EXCEPT !.groups = @ \ {g}].owner = base.owner
        /\ [c EXCEPT !.groups = @ \ {g}].waiting = WithdrawOwner(w, g)
    BY <1>1, <1>2 DEF UnblockBase, BaseRecord
  <2>. HIDE DEF c
  <2>2. ASSUME InLine(base)
        PROVE  InLine(c) /\ InLine([c EXCEPT !.groups = @ \ {g}])
    <3>1. Line(WithdrawOwner(w, g), (base.groups \ {base.owner}) \ {g})
      BY <1>1, <2>2, WithdrawLine DEF InLine
    <3>2. /\ Line(WithdrawOwner(w, g), base.groups \ {base.owner})
          /\ Line(WithdrawOwner(w, g), (base.groups \ {g}) \ {base.owner})
      BY <3>1 DEF Line
    <3>. QED BY <1>2, <2>1, <2>2, <3>2 DEF InLine
  <2>. QED BY <2>1, <2>2 DEF Turns, Waits, c
<1>3. CASE base.owner = g /\ w # <<>>
  <2>1. /\ c.groups = base.groups /\ c.owner = Head(w) /\ c.waiting = Tail(w)
        /\ [c EXCEPT !.groups = @ \ {g}].groups = base.groups \ {g}
        /\ [c EXCEPT !.groups = @ \ {g}].owner = Head(w)
        /\ [c EXCEPT !.groups = @ \ {g}].waiting = Tail(w)
    BY <1>1, <1>3 DEF UnblockBase, BaseRecord
  <2>. HIDE DEF c, w
  <2>2. ASSUME InLine(base)
        PROVE  InLine(c) /\ InLine([c EXCEPT !.groups = @ \ {g}])
    <3>1. Line(w, base.groups \ {g})
      BY <1>3, <2>2 DEF InLine, w
    <3>2. /\ Head(w) \in base.groups \ {g}
          /\ Line(Tail(w), (base.groups \ {g}) \ {Head(w)})
      BY <1>1, <1>3, <3>1, TailLine
    <3>3. Line(Tail(w), base.groups \ {Head(w)})
      BY <3>2 DEF Line
    <3>. QED BY <2>1, <3>2, <3>3 DEF InLine
  <2>. QED BY <1>1, <1>3, <2>1, <2>2 DEF Turns, Waits, c, w
<1>4. CASE base.owner = g /\ w = <<>>
  <2>1. /\ c.groups = base.groups /\ c.owner = None /\ c.waiting = <<>>
        /\ [c EXCEPT !.groups = @ \ {g}].groups = base.groups \ {g}
        /\ [c EXCEPT !.groups = @ \ {g}].owner = None
        /\ [c EXCEPT !.groups = @ \ {g}].waiting = <<>>
    BY <1>1, <1>4 DEF UnblockBase, BaseRecord
  <2>. HIDE DEF c
  <2>2. InLine(c) /\ InLine([c EXCEPT !.groups = @ \ {g}])
    BY <2>1 DEF InLine, Line
  <2>. QED BY <1>4, <2>1, <2>2 DEF Turns, Waits, c
<1>. QED BY <1>2, <1>3, <1>4

\* radio_request_group_unblock
LEMMA OwnersUnblock ==
  ASSUME TypeOK, NEW g \in Groups, Unblock(g)
  PROVE  OwnersStep
<1>1. base' = UnblockBase(g) /\ UNCHANGED req /\ Enter(UnblockCalls(g))
  BY DEF Unblock
<1>2. FreesGoOn
  BY <1>1, UnblockCallsType, EnterGoesOn DEF Frames
<1>3. MembersAlive => MembersAlive'
  BY <1>1, <1>2, UnblockedLine, MembersStep, LessGroupsTransitive
<1>. QED BY <1>1, <1>3, UnblockedLine DEF OwnersStep, Sends

\* radio_request_group_free: the members keep their pointers to the group
\* until the call that follows.
LEMMA OwnersFreeGroup ==
  ASSUME TypeOK, NEW g \in Groups, FreeGroup(g)
  PROVE  OwnersStep
<1>. DEFINE c == UnblockBase(g)
            f == [Call("unlink", None) EXCEPT !.g = g]
            fs == UnblockCalls(g) \o <<f>>
<1>1. /\ base' = [c EXCEPT !.groups = @ \ {g}]
      /\ UNCHANGED req /\ Enter(fs)
  BY DEF FreeGroup
<1>2. f \in Frame /\ f.op = "unlink" /\ f.g = g
  <2>1. Call("unlink", None) \in Frame
    BY PlainCallType DEF Ops, RequestOps
  <2>. QED BY <2>1 DEF Frame, MaybeGroup, Call
<1>3. c \in BaseRecord
  BY UnblockBaseType DEF TypeOK
<1>4. /\ base'.groups = base.groups \ {g} /\ base'.owner = c.owner
      /\ base'.pending = c.pending
  BY <1>1, <1>3, UnblockedLine DEF BaseRecord
<1>5. InLine(base) => InLine(base')
  BY <1>1, UnblockedLine
<1>6. Turns(base, base') /\ Waits(base, base', req')
  BY <1>1, <1>4, UnblockedLine DEF Turns, Waits
<1>7. Calls(stack') = Calls(fs) \cup Calls(stack) /\ f \in Calls(fs)
  <2>1. /\ UnblockCalls(g) \in Seq(Frame) /\ <<f>> \in Seq(Frame)
        /\ Calls(<<f>>) = {f}
    BY <1>2, UnblockCallsType, StackOne DEF Frames
  <2>. HIDE DEF f
  <2>2. fs \in Seq(Frame) /\ f \in Calls(fs)
    BY <2>1, StackConcat
  <2>. HIDE DEF fs
  <2>. QED BY <1>1, <2>2, StackEnter DEF TypeOK
<1>8. ASSUME MembersAlive
      PROVE  MembersAlive'
  <2>. SUFFICES ASSUME NEW r \in Requests
                PROVE  \/ req[r].group \in base'.groups \cup {None}
                       \/ \E h \in Calls(stack') :
                            h.op = "unlink" /\ h.g = req[r].group
    BY <1>1 DEF MembersAlive, Calls
  <2>1. CASE req[r].group \in base.groups \cup {None}
    BY <1>2, <1>4, <1>7, <2>1
  <2>2. CASE \E h \in Calls(stack) : h.op = "unlink" /\ h.g = req[r].group
    BY <1>7, <2>2
  <2>. QED BY <1>8, <2>1, <2>2 DEF MembersAlive, Calls
<1>. QED BY <1>1, <1>5, <1>6, <1>8 DEF OwnersStep, Sends

\* The members leave the freed group.
LEMMA OwnersUnlink ==
  ASSUME TypeOK, Unlink
  PROVE  OwnersStep
<1>1. /\ ~Idle /\ UNCHANGED base /\ Become(<<>>)
      /\ req' = Ungroup(Members(Top.g))
  BY RunningTop DEF Unlink
<1>2. Calls(stack) \subseteq Calls(stack') \cup {Top}
  <2>1. stack \in Seq(Frame) /\ <<>> \in Seq(Frame)
    BY DEF TypeOK
  <2>2. Calls(stack) \subseteq Calls(stack') \cup {Top}
    BY <1>1, <2>1, StackBecome
  <2>. QED BY <2>2
<1>3. ASSUME MembersAlive
      PROVE  MembersAlive'
  <2>. SUFFICES ASSUME NEW r \in Requests
                PROVE  \/ req'[r].group \in base.groups \cup {None}
                       \/ \E h \in Calls(stack') :
                            h.op = "unlink" /\ h.g = req'[r].group
    BY <1>1 DEF MembersAlive, Calls
  <2>1. CASE req[r].group = Top.g
    <3>1. r \in Members(Top.g)
      BY <2>1 DEF Members
    <3>2. req'[r].group = None
      BY <1>1, <3>1 DEF Ungroup, TypeOK, RequestRecord
    <3>. QED BY <3>2
  <2>2. CASE req[r].group # Top.g
    <3>1. req'[r] = req[r]
      BY <1>1, <2>2 DEF Ungroup, Members
    <3>. QED BY <1>2, <1>3, <2>2, <3>1 DEF MembersAlive, Calls
  <2>. QED BY <2>1, <2>2
<1>4. Sends
  BY <1>1 DEF Sends, Ungroup, TypeOK, RequestRecord
<1>. QED BY <1>1, <1>3, <1>4 DEF OwnersStep, Turns, Waits

-----------------------------------------------------------------------------
(***************************************************************************)
(* The theorems.                                                           *)
(***************************************************************************)

\* No group owns or waits at first, and none is freed.
LEMMA InitOwners == Init => OwnersAlive
BY ConstantsAssumption DEF Init, OwnersAlive

\* OwnersAlive in parts.
LEMMA OwnersParts ==
  /\ OwnersAlive <=> InLine(base) /\ MembersAlive
  /\ OwnersAlive' <=> InLine(base') /\ MembersAlive'
BY DEF OwnersAlive, InLine, Line, MembersAlive

\* Every step.
LEMMA NextOwners ==
  ASSUME TypeOK, Next
  PROVE  OwnersStep
<1>1. CASE Event
  <2>1. CASE RespondUnknown \/ Tick \/ Timeout \/ Connected \/ Sent
    BY <2>1, KeptEvents, KeptStep
  <2>2. CASE Death \/ ConfigDeath
    BY <2>2, KeptDeath, KeptStep
  <2>. QED BY <1>1, <2>1, <2>2, KeptRespondRetry, KeptStep, OwnersRespondDone
       DEF Event
<1>2. CASE User
  <2>1. ASSUME NEW r \in Requests, Submit(r) \/ Retry(r)
        PROVE  OwnersStep
    BY <2>1, KeptSubmit, KeptStep
  <2>2. ASSUME NEW r \in Requests, Cancel(r)
        PROVE  OwnersStep
    BY <2>2, KeptFree, KeptStep
  <2>3. CASE \/ \E r \in Requests : \/ Release(r)
                                    \/ \E ms \in Timeouts : SetTimeout(r, ms)
             \/ \E ms \in Timeouts : SetDefaultTimeout(ms)
             \/ Finalize
    BY <2>3, KeptUser, KeptStep
  <2>4. ASSUME NEW g \in Groups, Block(g) \/ Unblock(g) \/ FreeGroup(g)
        PROVE  OwnersStep
    BY <2>4, OwnersBlock, OwnersUnblock, OwnersFreeGroup
  <2>5. ASSUME NEW g \in Groups, CancelGroup(g)
        PROVE  OwnersStep
    BY <2>5, KeptCancelGroup, KeptStep
  <2>. QED BY <1>2, <2>1, <2>2, <2>3, <2>4, <2>5 DEF User
<1>3. CASE Continue
  <2>1. CASE Reset \/ ScanStart \/ ScanSkip \/ ScanEnd \/ ScanSent \/ Return
    BY <2>1, KeptScan, KeptStep
  <2>2. CASE Submitted
    BY <2>2, KeptSubmit, KeptStep
  <2>3. CASE Drop \/ Dropped \/ Done
    BY <2>3, KeptDrop, KeptStep
  <2>4. CASE Unregister \/ Finish \/ \E r \in Requests : Free(r)
    BY <2>4, KeptFree, KeptStep
  <2>5. CASE Expire \/ FailNext \/ CancelNext
    BY <2>5, KeptLists, KeptStep
  <2>6. CASE HandleDeath
    BY <2>6, KeptDeath, KeptStep
  <2>. QED BY <1>3, <2>1, <2>2, <2>3, <2>4, <2>5, <2>6, OwnersScanSend,
              OwnersScanFail, OwnersObserved, OwnersUnlink DEF Continue
<1>. QED BY <1>1, <1>2, <1>3 DEF Next

\* The owner and the groups that wait for the object are distinct groups
\* nobody has freed, however groups are blocked, unblocked and freed and
\* whatever the requests of other groups do meanwhile.
THEOREM OwnersAreAlive == Spec => []OwnersAlive
<1>1. TypeOK /\ OwnersAlive /\ [Next]_vars => OwnersAlive'
  <2>1. OwnersAlive /\ UNCHANGED vars => OwnersAlive'
    BY DEF OwnersAlive, vars
  <2>2. TypeOK /\ OwnersAlive /\ Next => OwnersAlive'
    BY NextOwners, OwnersParts DEF OwnersStep
  <2>. QED BY <2>1, <2>2
<1>. QED BY <1>1, InitOwners, TypeCorrect, PTL DEF Spec

\* Groups get the object in the order in which they asked for it, whether the
\* owner gives it up, is freed, or the last foreign request ends.
THEOREM OwnersTakeTurns == Spec => OwnersInTurn
<1>. DEFINE P == base.waiting # <<>> /\ base'.owner # base.owner
                 => base'.owner = Head(base.waiting)
<1>1. TypeOK /\ [Next]_vars => [P]_vars
  BY NextOwners DEF OwnersStep, Turns
<1>. QED BY <1>1, TypeCorrect, PTL DEF Spec, OwnersInTurn

\* Whoever gets an object without an owner finds only requests of its own
\* group waiting for their answers.
THEOREM OwnersWaitForPending == Spec => OwnerWaits
<1>. DEFINE P == base.owner = None /\ base'.owner # None
                 => \A r \in base'.pending : req'[r].group = base'.owner
<1>1. TypeOK /\ [Next]_vars => [P]_vars
  BY NextOwners DEF OwnersStep, Waits
<1>. QED BY <1>1, TypeCorrect, PTL DEF Spec, OwnerWaits

\* Where no observer of requests calls the library while a request is being
\* sent, nothing outside the owner's group is sent, be it by the scan of a
\* submission, a retry, an answer or any other callback, but for the blocking
\* request.  An observer may block a group at that moment.
THEOREM OwnerSendsAlone ==
  ASSUME ~Observed
  PROVE  Spec => OwnerExcludes
<1>. DEFINE P == \A r \in Requests :
                   /\ base.owner # None /\ base'.owner = base.owner
                   /\ req'[r].sends # req[r].sends
                   => req[r].group = base.owner \/ base.block = r
<1>1. TypeOK /\ [Next]_vars => [P]_vars
  <2>1. ASSUME TypeOK, Next
        PROVE  P
    BY <2>1, NextOwners DEF OwnersStep, Sends, CanSubmitRequest, OwnerAllows
  <2>. QED BY <2>1
<1>. QED BY <1>1, TypeCorrect, PTL DEF Spec, OwnerExcludes

-----------------------------------------------------------------------------
(***************************************************************************)
(* Blocking requests.  The code marks a blocking request only after the    *)
(* owner signal its transmission may raise, and after the observers of     *)
(* requests were told.  Where callbacks do not call the library, or those  *)
(* of observers do not and no group ever gets the object, a blocking       *)
(* request that is pending is the marked one, or the scan is just about to *)
(* mark it.                                                                *)
(***************************************************************************)
QuietHandlers == MaxDepth = 0 \/ (Groups = {} /\ ~Observed)

\* The calls other than the scan that has just sent a request.
Unsent == {f \in Frame : f.op # "sent"}
Unsents == Seq(Unsent)

Marked == \A r \in base.pending \cap Blocking : r = base.block
SoonMarked == \A r \in base.pending \cap Blocking : r \in {base.block, Top.r}

Between == stack \in Unsents /\ Marked
Sending ==
  /\ ~Idle /\ Top.op = "sent" /\ Tail(stack) \in Unsents /\ Clean
  /\ base.block \in {None, Top.r} /\ SoonMarked
Blocks == Between \/ Sending

\* Nothing becomes pending, and the blocking request stays while it is.
BlockKept(b, c) ==
  \A r \in c.pending : r \in b.pending /\ (b.block = r => c.block = r)

\* What a step does that sends nothing.
SendsNothing == (stack \in Unsents => stack' \in Unsents) /\ BlockKept(base, base')

\* Such a step keeps the blocking request.
LEMMA UnsentStep ==
  ASSUME Between, SendsNothing
  PROVE  Between'
<1>1. stack' \in Unsents
  BY DEF Between, SendsNothing
<1>2. Marked'
  BY DEF Between, SendsNothing, BlockKept, Marked
<1>. QED BY <1>1, <1>2 DEF Between

\* Sequences of such calls.
LEMMA UnsentsType ==
  /\ <<>> \in Unsents
  /\ \A f \in Unsent : <<f>> \in Unsents
  /\ \A f, h \in Unsent : <<f, h>> \in Unsents
  /\ \A f, h, k \in Unsent : <<f, h, k>> \in Unsents
  /\ \A s, t \in Unsents : s \o t \in Unsents
BY DEF Unsents

\* New calls, calls that replace the running one, and calls that return.
LEMMA UnsentsMade ==
  /\ \A fs \in Unsents : stack \in Unsents /\ Enter(fs) => stack' \in Unsents
  /\ \A fs \in Unsents :
       stack \in Unsents /\ ~Idle /\ Become(fs) => stack' \in Unsents
  /\ stack \in Unsents /\ ~Idle /\ Become(<<>>) => stack' \in Unsents
  /\ stack \in Unsents /\ UNCHANGED stack => stack' \in Unsents
<1>1. stack \in Unsents /\ ~Idle => Tail(stack) \in Unsents
  BY DEF Unsents, Idle
<1>. QED BY <1>1, UnsentsType DEF Enter, Become

\* The running call is one of them.
LEMMA TopUnsent ==
  stack \in Unsents /\ ~Idle => Top \in Unsent
BY DEF Unsents, Idle, Top

\* The calls the procedures make.
LEMMA UnsentCalls ==
  /\ \A op \in Ops \ RequestOps : Call(op, None) \in Unsent
  /\ \A op \in Ops \ ({"sent"} \cup ObservedOps), r \in Requests :
       Call(op, r) \in Unsent
  /\ \A op \in {"expire", "fail", "cancel"}, S \in SUBSET Requests :
       ListCall(op, S) \in Unsent
<1>1. ASSUME NEW op \in Ops \ RequestOps
      PROVE  Call(op, None) \in Unsent
  BY PlainCallType DEF Unsent, Call, RequestOps
<1>2. ASSUME NEW op \in Ops \ ({"sent"} \cup ObservedOps), NEW r \in Requests
      PROVE  Call(op, r) \in Unsent
  BY RequestCallType DEF Unsent, Call
<1>3. ASSUME NEW op \in {"expire", "fail", "cancel"}, NEW S \in SUBSET Requests
      PROVE  ListCall(op, S) \in Unsent
  <2>1. ListCall(op, S).op = op
    BY DEF ListCall, Call
  <2>. QED BY <2>1, ListCallType DEF Unsent
<1>. QED BY <1>1, <1>2, <1>3

\* By their names.
LEMMA UnsentNames ==
  /\ Call("start", None) \in Unsent /\ Call("reset", None) \in Unsent
  /\ Call("connected", None) \in Unsent /\ Call("unblocked", None) \in Unsent
  /\ Call("die", None) \in Unsent
  /\ \A r \in Requests :
       /\ Call("drop", r) \in Unsent /\ Call("dropped", r) \in Unsent
       /\ Call("unregister", r) \in Unsent /\ Call("finish", r) \in Unsent
       /\ Call("done", r) \in Unsent /\ Call("retried", r) \in Unsent
       /\ Call("submitted", r) \in Unsent
  /\ \A r \in MaybeRequest :
       Call("callback", r) \in Unsent /\ Call("scan", r) \in Unsent
<1>1. ASSUME NEW r \in MaybeRequest
      PROVE  Call("callback", r) \in Unsent /\ Call("scan", r) \in Unsent
  BY CallType DEF Unsent, Call, Ops, ObservedOps, RequestOps
<1>. QED BY <1>1, UnsentCalls DEF Ops, RequestOps, ObservedOps

\* And together.
LEMMA UnsentProcedures ==
  /\ \A r \in MaybeRequest : Callback(r) \in Unsents
  /\ \A q \in RequestMap, r \in Requests :
       /\ CompleteCalls(q, r) \in Unsents /\ FailCalls(q, r) \in Unsents
       /\ ObjectCancelCalls(q, r) \in Unsents
  /\ \A g \in Groups : UnblockCalls(g) \in Unsents
<1>1. ASSUME NEW r \in MaybeRequest
      PROVE  Callback(r) \in Unsents
  BY UnsentNames, UnsentsType DEF Callback
<1>2. ASSUME NEW q \in RequestMap, NEW r \in Requests
      PROVE  /\ CompleteCalls(q, r) \in Unsents /\ FailCalls(q, r) \in Unsents
             /\ ObjectCancelCalls(q, r) \in Unsents
  <2>1. CompleteCalls(q, r) \in Unsents
    BY <1>1, UnsentsType DEF CompleteCalls, MaybeRequest
  <2>2. <<Call("drop", r)>> \in Unsents /\ <<Call("unregister", r)>> \in Unsents
    BY UnsentNames, UnsentsType
  <2>3. FailCalls(q, r) \in Unsents
    BY <2>1, <2>2, UnsentsType DEF FailCalls
  <2>4. ObjectCancelCalls(q, r) \in Unsents
    BY <2>2, UnsentsType DEF ObjectCancelCalls
  <2>. QED BY <2>1, <2>3, <2>4
<1>3. ASSUME NEW g \in Groups
      PROVE  UnblockCalls(g) \in Unsents
  <2>1. <<Call("start", None), Call("unblocked", None)>> \in Unsents
    BY UnsentNames, UnsentsType
  <2>. QED BY <1>1, <2>1, UnsentsType DEF UnblockCalls, MaybeRequest
<1>. QED BY <1>1, <1>2, <1>3

-----------------------------------------------------------------------------
(***************************************************************************)
(* What the operators do to the blocking request.                          *)
(***************************************************************************)

\* Two changes one after the other.
LEMMA BlockKeptTransitive ==
  /\ \A b : BlockKept(b, b)
  /\ \A b, c, d : BlockKept(b, c) /\ BlockKept(c, d) => BlockKept(b, d)
BY DEF BlockKept

\* The queue, the tables and the owners.
LEMMA BlockKeptBase ==
  ASSUME NEW q \in RequestMap, NEW b \in BaseRecord, NEW r \in Requests,
         NEW p \in MaybeRequest
  PROVE  /\ BlockKept(b, QueueBase(b, r))
         /\ BlockKept(b, UnlinkBase(q, b, r, p))
         /\ BlockKept(b, DeactivateBase(q, b, r))
         /\ BlockKept(b, NewSerialBase(q, b, r))
         /\ BlockKept(b, MoveOwnerQueue(q, b))
<1>1. BlockKept(b, QueueBase(b, r))
  BY DEF BlockKept, QueueBase, BaseRecord
<1>2. ASSUME NEW x \in MaybeRequest
      PROVE  BlockKept(b, UnlinkBase(q, b, r, x))
  BY DEF BlockKept, UnlinkBase, BaseRecord
<1>3. BlockKept(b, DeactivateBase(q, b, r))
  <2>. DEFINE u == IF Dequeues(q, b, r)
                   THEN UnlinkBase(q, b, r, Before(q, b, r)) ELSE b
  <2>1. u \in BaseRecord /\ BlockKept(b, u)
    BY <1>2, BeforeType, UnlinkBaseType DEF BlockKept
  <2>2. DeactivateBase(q, b, r) =
          [u EXCEPT !.pending = @ \ {r}, !.active = @ \ {r},
                    !.block = IF @ = r THEN None ELSE @]
    BY DEF DeactivateBase
  <2>. HIDE DEF u
  <2>3. BlockKept(u, DeactivateBase(q, b, r))
    BY <2>1, <2>2 DEF BlockKept, BaseRecord
  <2>. QED BY <2>1, <2>3, BlockKeptTransitive
<1>4. BlockKept(b, NewSerialBase(q, b, r))
  BY DEF BlockKept, NewSerialBase, BaseRecord
<1>5. BlockKept(b, MoveOwnerQueue(q, b))
  BY DEF BlockKept, MoveOwnerQueue, BaseRecord
<1>. QED BY <1>1, <1>2, <1>3, <1>4, <1>5

\* The timer, the lists and the owners have nothing to do with it.
LEMMA BlockKeptByFields ==
  ASSUME NEW b \in BaseRecord, NEW t, NEW S
  PROVE  /\ BlockKept(b, [b EXCEPT !.timer = t])
         /\ BlockKept(b, [b EXCEPT !.timer = t, !.active = S])
         /\ BlockKept(b, [b EXCEPT !.pending = @ \ S])
         /\ BlockKept(b, [b EXCEPT !.active = S])
         /\ BlockKept(b, [b EXCEPT !.timeout = t])
         /\ BlockKept(b, [b EXCEPT !.owner = t])
         /\ BlockKept(b, [b EXCEPT !.waiting = t])
         /\ BlockKept(b, [b EXCEPT !.owner = t, !.waiting = S])
         /\ BlockKept(b, [b EXCEPT !.groups = S])
BY DEF BlockKept, BaseRecord

-----------------------------------------------------------------------------
(***************************************************************************)
(* The steps that send nothing.                                            *)
(***************************************************************************)

\* Calls that return or give way to one call, and a scan that starts, ends or
\* passes over a request.
LEMMA NothingSentByScan ==
  ASSUME TypeOK, Reset \/ ScanStart \/ ScanSkip \/ ScanEnd \/ Return
  PROVE  SendsNothing
<1>1. base \in BaseRecord
  BY DEF TypeOK
<1>2. CASE Reset
  <2>1. BlockKept(base, base')
    BY <1>1, <1>2, BlockKeptByFields, BlockKeptTransitive DEF Reset
  <2>. QED BY <1>2, <2>1, UnsentsMade DEF SendsNothing, Reset
<1>3. CASE ScanStart \/ ScanEnd \/ Return
  <2>1. ~Idle /\ UNCHANGED base
    BY <1>3 DEF ScanStart, ScanEnd, Return, Running
  <2>2. Become(<<>>) \/ Become(<<Call("scan", base.first)>>)
    BY <1>3 DEF ScanStart, ScanEnd, Return
  <2>3. <<Call("scan", base.first)>> \in Unsents
    BY <1>1, UnsentNames, UnsentsType DEF BaseRecord
  <2>. QED BY <2>1, <2>2, <2>3, UnsentsMade, BlockKeptTransitive DEF SendsNothing
<1>4. CASE ScanSkip
  <2>1. PICK r \in Requests :
          Scanning(r) /\ Become(<<[Top EXCEPT !.r = req[r].next, !.prev = r]>>)
    BY <1>4 DEF ScanSkip
  <2>. DEFINE f == [Top EXCEPT !.r = req[r].next, !.prev = r]
  <2>2. Running("scan") /\ ~Idle /\ Top.op = "scan"
    BY <2>1, RunningTop DEF Scanning
  <2>3. r \in MaybeRequest /\ req[r].next \in MaybeRequest
    BY DEF TypeOK, RequestRecord, MaybeRequest
  <2>4. f \in Frame /\ f.op = "scan"
    BY <2>2, <2>3, ScanFrameType, TopType DEF Frame
  <2>5. f \in Unsent
    BY <2>4 DEF Unsent
  <2>. HIDE DEF f
  <2>6. <<f>> \in Unsents
    BY <2>5, UnsentsType
  <2>7. UNCHANGED base
    BY <1>4 DEF ScanSkip
  <2>. QED BY <2>1, <2>2, <2>6, <2>7, UnsentsMade, BlockKeptTransitive
       DEF SendsNothing, f
<1>. QED BY <1>2, <1>3, <1>4

\* Submitting a request and what follows.
LEMMA NothingSentBySubmit ==
  ASSUME TypeOK, Submitted \/ \E r \in Requests : Submit(r) \/ Retry(r)
  PROVE  SendsNothing
<1>1. req \in RequestMap /\ base \in BaseRecord
  BY DEF TypeOK, RequestMap
<1>2. CASE Submitted
  <2>1. BlockKept(base, base')
    BY <1>1, <1>2, BlockKeptByFields, BlockKeptTransitive DEF Submitted
  <2>2. ~Idle /\ Become(<<>>)
    BY <1>2 DEF Submitted, Running
  <2>. QED BY <2>1, <2>2, UnsentsMade DEF SendsNothing
<1>3. ASSUME NEW r \in Requests
      PROVE  /\ QueueBase(base, r) \in BaseRecord
             /\ BlockKept(base, QueueBase(base, r))
  BY <1>1, <1>3, QueueBaseType, BlockKeptBase DEF MaybeRequest
<1>4. ASSUME NEW r \in Requests, Submit(r)
      PROVE  SendsNothing
  <2>. DEFINE f == [Call("submitted", r) EXCEPT !.some = req[r].complete]
  <2>1. f \in Unsent
    <3>1. req[r].complete \in BOOLEAN
      BY <1>1 DEF RequestMap, RequestRecord
    <3>2. Call("submitted", r) \in Unsent
      BY UnsentNames
    <3>. QED BY <3>1, <3>2 DEF Unsent, Frame
  <2>. HIDE DEF f
  <2>2. <<Call("start", None), f>> \in Unsents
    BY <2>1, UnsentNames, UnsentsType
  <2>3. Enter(<<Call("start", None), f>>)
    BY <1>4 DEF Submit, f
  <2>4. base' = [QueueBase(base, r) EXCEPT
                   !.active = QueueBase(base, r).active \cup {r}]
    BY <1>4 DEF Submit
  <2>5. BlockKept(base, base')
    BY <1>3, <2>4, BlockKeptByFields, BlockKeptTransitive
  <2>. QED BY <2>2, <2>3, <2>5, UnsentsMade DEF SendsNothing
<1>5. ASSUME NEW r \in Requests, Retry(r)
      PROVE  SendsNothing
  <2>1. <<Call("start", None), Call("retried", r)>> \in Unsents
    BY UnsentNames, UnsentsType
  <2>2. base' = [QueueBase(base, r) EXCEPT !.pending = @ \ {r}]
    BY <1>5 DEF Retry
  <2>3. BlockKept(base, base')
    BY <1>3, <2>2, BlockKeptByFields, BlockKeptTransitive
  <2>. QED BY <1>5, <2>1, <2>3, UnsentsMade DEF SendsNothing, Retry
<1>. QED BY <1>2, <1>4, <1>5

\* Dropping, unregistering, freeing and finishing a request.
LEMMA NothingSentByDrop ==
  ASSUME TypeOK, \/ Drop \/ Dropped \/ Done \/ Unregister \/ Finish
                 \/ \E r \in Requests : Free(r) \/ Cancel(r)
  PROVE  SendsNothing
<1>1. req \in RequestMap /\ base \in BaseRecord
  BY DEF TypeOK, RequestMap
<1>2. ASSUME Drop \/ Dropped \/ Done \/ Unregister \/ Finish
      PROVE  ~Idle /\ Top.r \in Requests
  BY <1>2, RunningTop, TopType
  DEF Drop, Dropped, Done, Unregister, Finish, RequestOps
<1>3. CASE Drop
  <2>1. CancelReq(req, Top.r) \in RequestMap
    BY <1>1, <1>2, <1>3, CancelReqType
  <2>2. BlockKept(base, base')
    BY <1>1, <1>2, <1>3, <2>1, BlockKeptBase DEF Drop, MaybeRequest
  <2>3. <<Call("start", None), Call("dropped", Top.r)>> \in Unsents
    BY <1>2, <1>3, UnsentNames, UnsentsType
  <2>. QED BY <1>2, <1>3, <2>2, <2>3, UnsentsMade DEF SendsNothing, Drop
<1>4. CASE Dropped
  <2>1. BlockKept(base, base')
    BY <1>1, <1>4, BlockKeptByFields DEF Dropped
  <2>. QED BY <1>2, <1>4, <2>1, UnsentsMade DEF SendsNothing, Dropped
<1>5. CASE Done \/ Unregister \/ Finish
  <2>1. UNCHANGED base
    BY <1>5 DEF Done, Unregister, Finish
  <2>2. CompleteCalls(req, Top.r) \in Unsents /\ Callback(Top.r) \in Unsents
    BY <1>1, <1>2, <1>5, UnsentProcedures DEF MaybeRequest
  <2>3. \/ Become(<<>>) \/ Become(CompleteCalls(req, Top.r))
        \/ Become(Callback(Top.r))
    BY <1>5 DEF Done, Unregister, Finish
  <2>. QED BY <1>2, <1>5, <2>1, <2>2, <2>3, UnsentsMade, BlockKeptTransitive
       DEF SendsNothing
<1>6. ASSUME NEW r \in Requests, Free(r) \/ Cancel(r)
      PROVE  SendsNothing
  <2>1. /\ ObjectCancelCalls(req, r) \in Unsents
        /\ ObjectCancelCalls(req, r) \o <<Call("finish", r)>> \in Unsents
    BY <1>1, UnsentProcedures, UnsentNames, UnsentsType
  <2>2. \/ Enter(ObjectCancelCalls(req, r))
        \/ Enter(ObjectCancelCalls(req, r) \o <<Call("finish", r)>>)
    BY <1>6 DEF Free, Cancel
  <2>3. UNCHANGED base
    BY <1>6 DEF Free, Cancel
  <2>. QED BY <2>1, <2>2, <2>3, UnsentsMade, BlockKeptTransitive DEF SendsNothing
<1>. QED BY <1>3, <1>4, <1>5, <1>6

\* Going through the lists of expired, lost and cancelled requests.
LEMMA NothingSentByLists ==
  ASSUME TypeOK, Expire \/ FailNext \/ CancelNext
  PROVE  SendsNothing
<1>1. /\ req \in RequestMap /\ base \in BaseRecord
      /\ ~Idle /\ Top.op \in {"expire", "fail", "cancel"}
      /\ Top.todo \in SUBSET Requests /\ Top.refs \in SUBSET Requests
  BY RunningTop, TopType DEF TypeOK, RequestMap, Expire, FailNext, CancelNext
<1>2. ASSUME NEW r, stack \in Unsents
      PROVE  /\ [Top EXCEPT !.todo = @ \ {r}] \in Unsent
             /\ <<[Top EXCEPT !.todo = @ \ {r}]>> \in Unsents
  <2>1. [Top EXCEPT !.todo = @ \ {r}] \in Unsent
    BY <1>1, <1>2, TopUnsent DEF Unsent, Frame
  <2>. QED BY <2>1, UnsentsType
<1>3. ASSUME NEW S \in SUBSET Requests
      PROVE  <<ListCall("fail", S)>> \in Unsents
  BY UnsentCalls, UnsentsType
<1>4. CASE Expire
  <2>1. \/ UNCHANGED base
        \/ \E r \in Requests : base' = DeactivateBase(req, base, r)
    BY <1>1, <1>4 DEF Expire
  <2>2. BlockKept(base, base')
    BY <1>1, <2>1, BlockKeptBase, BlockKeptTransitive DEF MaybeRequest
  <2>3. \/ \E r : Become(<<[Top EXCEPT !.todo = @ \ {r}]>>)
        \/ Become(<<ListCall("fail", Top.refs)>>)
    BY <1>4 DEF Expire
  <2>. QED BY <1>1, <1>2, <1>3, <2>2, <2>3, UnsentsMade DEF SendsNothing
<1>5. CASE FailNext
  <2>1. UNCHANGED base
    BY <1>5 DEF FailNext
  <2>2. ASSUME NEW r \in Top.todo
        PROVE  FailCalls(req, r) \o <<ListCall("fail", Top.todo \ {r})>> \in Unsents
    <3>1. FailCalls(req, r) \in Unsents
      BY <1>1, UnsentProcedures
    <3>2. Top.todo \ {r} \in SUBSET Requests
      BY <1>1
    <3>. QED BY <1>3, <3>1, <3>2, UnsentsType
  <2>3. \/ Become(<<>>)
        \/ \E r \in Top.todo :
             Become(FailCalls(req, r) \o <<ListCall("fail", Top.todo \ {r})>>)
    BY <1>5 DEF FailNext
  <2>. QED BY <1>1, <2>1, <2>2, <2>3, UnsentsMade, BlockKeptTransitive
       DEF SendsNothing
<1>6. CASE CancelNext
  <2>1. UNCHANGED base
    BY <1>6 DEF CancelNext
  <2>2. ASSUME NEW r \in Top.todo, stack \in Unsents
        PROVE  ObjectCancelCalls(req, r) \o <<[Top EXCEPT !.todo = @ \ {r}]>>
                 \in Unsents
    <3>1. ObjectCancelCalls(req, r) \in Unsents
      BY <1>1, UnsentProcedures
    <3>. QED BY <1>2, <2>2, <3>1, UnsentsType
  <2>3. \/ Become(<<>>)
        \/ \E r \in Top.todo :
             Become(ObjectCancelCalls(req, r)
                    \o <<[Top EXCEPT !.todo = @ \ {r}]>>)
    BY <1>6 DEF CancelNext
  <2>. QED BY <1>1, <2>1, <2>2, <2>3, UnsentsMade, BlockKeptTransitive
       DEF SendsNothing
<1>. QED BY <1>4, <1>5, <1>6

\* Events other than answers that are taken.
LEMMA NothingSentByEvents ==
  ASSUME TypeOK, RespondUnknown \/ Tick \/ Timeout \/ Connected \/ Sent
  PROVE  SendsNothing
<1>1. req \in RequestMap /\ base \in BaseRecord
  BY DEF TypeOK, RequestMap
<1>2. CASE RespondUnknown \/ Tick
  BY <1>2, UnsentsMade, BlockKeptTransitive DEF SendsNothing, RespondUnknown, Tick
<1>3. CASE Timeout
  <2>. DEFINE S == {r \in base.active : req[r].deadline <= now}
  <2>1. /\ Enter(<<ListCall("expire", S), Call("start", None), Call("reset", None)>>)
        /\ base' = [base EXCEPT !.timer = 0, !.active = @ \ S]
    BY <1>3 DEF Timeout
  <2>2. S \in SUBSET Requests
    BY <1>1 DEF BaseRecord
  <2>. HIDE DEF S
  <2>3. <<ListCall("expire", S), Call("start", None), Call("reset", None)>> \in Unsents
    BY <2>2, UnsentCalls, UnsentNames, UnsentsType
  <2>4. BlockKept(base, base')
    BY <1>1, <2>1 DEF BlockKept, BaseRecord
  <2>. QED BY <2>1, <2>3, <2>4, UnsentsMade DEF SendsNothing
<1>4. CASE Connected
  <2>. DEFINE fs == Callback(None) \o <<Call("start", None), Call("connected", None)>>
  <2>1. fs \in Unsents
    BY UnsentProcedures, UnsentNames, UnsentsType DEF MaybeRequest
  <2>2. Enter(fs) /\ UNCHANGED base
    BY <1>4 DEF Connected
  <2>. HIDE DEF fs
  <2>. QED BY <2>1, <2>2, UnsentsMade, BlockKeptTransitive DEF SendsNothing
<1>5. CASE Sent
  <2>1. PICK t \in net.outstanding :
         \/ UNCHANGED stack
         \/ Enter(FailCalls([req EXCEPT ![t[1]].tx = 0], t[1]))
    BY <1>5 DEF Sent
  <2>. DEFINE r == t[1]
              q == [req EXCEPT ![r].tx = 0]
  <2>2. r \in Requests /\ q \in RequestMap
    <3>1. r \in Requests
      BY DEF TypeOK, NetRecord, Transmissions
    <3>. QED BY <1>1, <3>1, FieldType
  <2>3. UNCHANGED stack \/ Enter(FailCalls(q, r))
    BY <2>1
  <2>. HIDE DEF q, r
  <2>4. FailCalls(q, r) \in Unsents
    BY <2>2, UnsentProcedures
  <2>5. UNCHANGED base
    BY <1>5 DEF Sent
  <2>. QED BY <2>3, <2>4, <2>5, UnsentsMade, BlockKeptTransitive DEF SendsNothing
<1>. QED BY <1>2, <1>3, <1>4, <1>5

\* The death of a service.
LEMMA NothingSentByDeath ==
  ASSUME TypeOK, Death \/ ConfigDeath \/ HandleDeath
  PROVE  SendsNothing
<1>1. base \in BaseRecord /\ base.active \in SUBSET Requests
  BY DEF TypeOK, BaseRecord
<1>2. BlockKept(base, HandleDeathBase)
  BY <1>1 DEF BlockKept, HandleDeathBase, BaseRecord
<1>3. /\ <<ListCall("fail", base.active)>> \in Unsents
      /\ Callback(None) \in Unsents /\ <<Call("die", None)>> \in Unsents
  BY <1>1, UnsentCalls, UnsentNames, UnsentProcedures, UnsentsType DEF MaybeRequest
<1>4. /\ <<ListCall("fail", base.active)>> \o Callback(None) \in Unsents
      /\ Callback(None) \o <<Call("die", None)>> \in Unsents
  BY <1>3, UnsentsType
<1>5. CASE Death
  BY <1>2, <1>4, <1>5, UnsentsMade DEF Death, SendsNothing
<1>6. CASE ConfigDeath
  BY <1>4, <1>6, UnsentsMade, BlockKeptTransitive DEF ConfigDeath, SendsNothing
<1>7. CASE HandleDeath
  <2>1. ~Idle
    BY <1>7 DEF HandleDeath, Running
  <2>. QED BY <1>2, <1>3, <1>7, <2>1, UnsentsMade DEF HandleDeath, SendsNothing
<1>. QED BY <1>5, <1>6, <1>7

\* Answers: what they let out is sent by the scan that follows.
LEMMA NothingSentByAnswers ==
  ASSUME TypeOK, RespondRetry \/ RespondDone
  PROVE  SendsNothing
<1>1. req \in RequestMap /\ base \in BaseRecord
  BY DEF TypeOK, RequestMap
<1>2. CASE RespondRetry
  <2>1. PICK m \in net.answers :
          base' = [QueueBase(base, m[1]) EXCEPT !.pending = @ \ {m[1]}]
    BY <1>2 DEF RespondRetry
  <2>2. m[1] \in Requests
    BY DEF TypeOK, NetRecord, Transmissions
  <2>3. BlockKept(base, base')
    BY <1>1, <2>1, <2>2 DEF BlockKept, QueueBase, BaseRecord
  <2>4. <<Call("start", None), Call("reset", None)>> \in Unsents
    BY UnsentNames, UnsentsType
  <2>. QED BY <1>2, <2>3, <2>4, UnsentsMade DEF SendsNothing, RespondRetry
<1>3. CASE RespondDone
  <2>1. PICK m \in net.answers :
         LET r == m[1]
             q == [CancelReq(req, r) EXCEPT ![r].state = "DONE"]
             b == DeactivateBase(q, base, r)
         IN  /\ req' = q
             /\ base' = MoveOwnerQueue(q, b)
             /\ Enter((IF MovesOwner(q, b) THEN Callback(None) ELSE <<>>)
                      \o <<Call("done", r), Call("start", None),
                           Call("reset", None)>>)
    BY <1>3 DEF RespondDone
  <2>. DEFINE r == m[1]
              b == DeactivateBase(req', base, r)
              cs == <<Call("done", r), Call("start", None), Call("reset", None)>>
  <2>2. r \in Requests
    BY DEF TypeOK, NetRecord, Transmissions
  <2>3. /\ req' = [CancelReq(req, r) EXCEPT ![r].state = "DONE"]
        /\ base' = MoveOwnerQueue(req', b)
        /\ Enter(Callback(None) \o cs) \/ Enter(<<>> \o cs)
    BY <2>1
  <2>. HIDE DEF r
  <2>4. req' \in RequestMap
    <3>1. "DONE" \in States
      BY DEF States
    <3>. QED BY <1>1, <2>2, <2>3, <3>1, CancelReqType, StateType
  <2>5. b \in BaseRecord /\ BlockKept(base, b)
    BY <1>1, <2>2, <2>4, DeactivateBaseType, BlockKeptBase DEF MaybeRequest
  <2>6. cs \in Unsents
    BY <2>2, UnsentNames, UnsentsType
  <2>. HIDE DEF b, cs
  <2>7. BlockKept(base, base')
    BY <2>2, <2>3, <2>4, <2>5, BlockKeptBase, BlockKeptTransitive DEF MaybeRequest
  <2>8. Callback(None) \o cs \in Unsents /\ <<>> \o cs \in Unsents
    BY <2>6, UnsentProcedures, UnsentsType DEF MaybeRequest
  <2>. QED BY <2>3, <2>7, <2>8, UnsentsMade DEF SendsNothing
<1>. QED BY <1>2, <1>3

\* Failing to send.
LEMMA NothingSentByFailure ==
  ASSUME TypeOK, ScanFail
  PROVE  SendsNothing
<1>1. PICK r \in Requests :
       /\ Scanning(r)
       /\ Become(FailCalls(NewSerialReq(UnlinkReq(req, r, Top.prev), r), r)
                 \o <<[Top EXCEPT !.r = req[r].next]>>)
       /\ base' = NewSerialBase(req, UnlinkBase(req, base, r, Top.prev), r)
  BY DEF ScanFail
<1>. DEFINE q == NewSerialReq(UnlinkReq(req, r, Top.prev), r)
            b == UnlinkBase(req, base, r, Top.prev)
            f == [Top EXCEPT !.r = req[r].next]
<1>2. Running("scan") /\ ~Idle /\ Top.op = "scan" /\ Top.prev \in MaybeRequest
  BY <1>1, RunningTop, TopType DEF Scanning
<1>3. req \in RequestMap /\ base \in BaseRecord /\ q \in RequestMap
  BY UnlinkReqType, NewSerialReqType DEF TypeOK, RequestMap
<1>4. BlockKept(base, base')
  <2>1. b \in BaseRecord
    BY <1>2, <1>3, UnlinkBaseType
  <2>. QED BY <1>1, <1>2, <1>3, <2>1, BlockKeptBase, BlockKeptTransitive
<1>5. f \in Unsent
  <2>1. req[r].next \in MaybeRequest
    BY <1>3 DEF RequestMap, RequestRecord
  <2>2. f \in Frame /\ f.op = "scan"
    BY <1>2, <2>1, ScanFrameType, TopType DEF Frame
  <2>. QED BY <2>2 DEF Unsent
<1>6. FailCalls(q, r) \in Unsents
  BY <1>3, UnsentProcedures
<1>7. Become(FailCalls(q, r) \o <<f>>)
  BY <1>1
<1>. HIDE DEF q, f
<1>8. FailCalls(q, r) \o <<f>> \in Unsents
  BY <1>5, <1>6, UnsentsType
<1>. QED BY <1>2, <1>4, <1>7, <1>8, UnsentsMade DEF SendsNothing

\* What users do with references, timeouts and the object itself.
LEMMA NothingSentByUsers ==
  ASSUME TypeOK,
         \/ \E r \in Requests : \/ Release(r)
                                \/ \E ms \in Timeouts : SetTimeout(r, ms)
         \/ \E ms \in Timeouts : SetDefaultTimeout(ms)
         \/ Finalize
  PROVE  SendsNothing
<1>1. base \in BaseRecord
  BY DEF TypeOK
<1>2. UNCHANGED stack
  BY DEF Release, SetTimeout, SetDefaultTimeout, Finalize
<1>3. \/ UNCHANGED base
      \/ \E t : base' = [base EXCEPT !.timer = t]
      \/ \E ms : base' = [base EXCEPT !.timeout = ms]
      \/ \E ms, t : base' = [[base EXCEPT !.timeout = ms] EXCEPT !.timer = t]
      \/ base' = FinalizeBase
  BY DEF Release, SetTimeout, SetDefaultTimeout, Finalize
<1>4. BlockKept(base, base')
  BY <1>1, <1>3 DEF BlockKept, FinalizeBase, BaseRecord
<1>. QED BY <1>2, <1>4, UnsentsMade DEF SendsNothing

\* What users do with groups.
LEMMA NothingSentByGroups ==
  ASSUME TypeOK,
         \/ \E g \in Groups : \/ Block(g) \/ Unblock(g) \/ FreeGroup(g)
                              \/ CancelGroup(g)
         \/ Unlink
  PROVE  SendsNothing
<1>1. base \in BaseRecord
  BY DEF TypeOK
<1>2. Callback(None) \in Unsents
  BY UnsentProcedures DEF MaybeRequest
<1>3. ASSUME NEW g \in Groups, Block(g)
      PROVE  SendsNothing
  <2>1. BlockKept(base, base')
    BY <1>1, <1>3, BlockKeptByFields DEF Block
  <2>. QED BY <1>2, <1>3, <2>1, UnsentsMade DEF SendsNothing, Block
<1>4. ASSUME NEW g \in Groups
      PROVE  /\ BlockKept(base, UnblockBase(g))
             /\ BlockKept(base, [UnblockBase(g) EXCEPT !.groups = @ \ {g}])
  <2>1. BlockKept(base, UnblockBase(g))
    BY <1>1, BlockKeptByFields DEF UnblockBase
  <2>2. UnblockBase(g) \in BaseRecord
    BY <1>1, UnblockBaseType
  <2>3. BlockKept(UnblockBase(g), [UnblockBase(g) EXCEPT !.groups = @ \ {g}])
    BY <2>2, BlockKeptByFields
  <2>. QED BY <2>1, <2>3, BlockKeptTransitive
<1>5. ASSUME NEW g \in Groups, Unblock(g)
      PROVE  SendsNothing
  BY <1>4, <1>5, UnsentProcedures, UnsentsMade DEF SendsNothing, Unblock
<1>6. ASSUME NEW g \in Groups, FreeGroup(g)
      PROVE  SendsNothing
  <2>. DEFINE f == [Call("unlink", None) EXCEPT !.g = g]
  <2>1. f \in Unsent
    <3>1. Call("unlink", None) \in Unsent
      BY UnsentCalls DEF Ops, RequestOps
    <3>. QED BY <3>1 DEF Unsent, Frame, MaybeGroup
  <2>2. Enter(UnblockCalls(g) \o <<f>>)
    BY <1>6 DEF FreeGroup
  <2>. HIDE DEF f
  <2>3. UnblockCalls(g) \o <<f>> \in Unsents
    BY <2>1, UnsentProcedures, UnsentsType
  <2>4. BlockKept(base, base')
    BY <1>4, <1>6 DEF FreeGroup
  <2>. QED BY <2>2, <2>3, <2>4, UnsentsMade DEF SendsNothing
<1>7. ASSUME NEW g \in Groups, CancelGroup(g)
      PROVE  SendsNothing
  <2>1. Members(g) \in SUBSET Requests
    BY DEF Members
  <2>2. <<ListCall("cancel", Members(g))>> \in Unsents
    BY <2>1, UnsentCalls, UnsentsType
  <2>. QED BY <1>7, <2>2, UnsentsMade, BlockKeptTransitive
       DEF SendsNothing, CancelGroup
<1>8. CASE Unlink
  <2>1. ~Idle
    BY <1>8 DEF Unlink, Running
  <2>. QED BY <1>8, <2>1, UnsentsMade, BlockKeptTransitive DEF SendsNothing, Unlink
<1>. QED BY <1>3, <1>5, <1>6, <1>7, <1>8

\* Every step but the two that send.
LEMMA NothingSent ==
  ASSUME TypeOK, QuietHandlers, Next, ~ScanSend, ~ScanSent
  PROVE  SendsNothing
<1>4. ~(ScanTell \/ Accept \/ Refuse \/ Refused)
  BY Unobserved DEF QuietHandlers, Observed
<1>1. CASE Event
  BY <1>1, NothingSentByEvents, NothingSentByDeath, NothingSentByAnswers DEF Event
<1>2. CASE User
  BY <1>2, NothingSentBySubmit, NothingSentByDrop, NothingSentByUsers,
     NothingSentByGroups DEF User
<1>3. CASE Continue
  BY <1>3, NothingSentByScan, NothingSentByFailure, NothingSentBySubmit,
     NothingSentByDrop, NothingSentByLists, NothingSentByDeath,
     NothingSentByGroups, <1>4 DEF Continue
<1>. QED BY <1>1, <1>2, <1>3 DEF Next

-----------------------------------------------------------------------------
(***************************************************************************)
(* The two steps that send, and the theorem.                               *)
(***************************************************************************)

\* The number of callbacks in progress is a number.
LEMMA DepthType ==
  ASSUME TypeOK
  PROVE  Depth \in Nat
<1>1. IsFiniteSet(1 .. Len(stack))
  BY FS_Interval DEF TypeOK
<1>2. {i \in DOMAIN stack : stack[i].op = "callback"} \subseteq 1 .. Len(stack)
  BY DEF TypeOK
<1>3. IsFiniteSet({i \in DOMAIN stack : stack[i].op = "callback"})
  BY <1>1, <1>2, FS_Subset
<1>. QED BY <1>3, FS_CardinalityType DEF Depth

\* The handlers of the owner signal make no calls.
LEMMA NoOwnerCalls ==
  ASSUME TypeOK, QuietHandlers, NEW b \in BaseRecord, NEW q
  PROVE  (IF MovesOwner(q, b) THEN Callback(None) ELSE <<>>) = <<>>
<1>1. CASE MaxDepth = 0
  BY <1>1, DepthType DEF Callback
<1>2. CASE Groups = {}
  <2>1. b.waiting \in Seq({})
    BY <1>2 DEF BaseRecord
  <2>2. b.waiting = <<>>
    BY <2>1
  <2>. QED BY <2>2 DEF MovesOwner
<1>. QED BY <1>1, <1>2 DEF QuietHandlers

\* Marking a blocking request, or going on.
LEMMA SentBlocks ==
  ASSUME TypeOK, Sending, ScanSent
  PROVE  Between'
<1>1. /\ ~Idle /\ Top \in Frame /\ Top.r \in MaybeRequest
      /\ Top.next \in MaybeRequest /\ base \in BaseRecord
  BY TopType DEF Sending, TypeOK
<1>2. /\ [Top EXCEPT !.op = "scan", !.r = None] \in Unsent
      /\ [Top EXCEPT !.op = "scan", !.r = Top.next] \in Unsent
  BY <1>1 DEF Unsent, Frame, Ops, RequestOps, ObservedOps, MaybeRequest
<1>3. /\ <<[Top EXCEPT !.op = "scan", !.r = None]>> \in Unsents
      /\ <<[Top EXCEPT !.op = "scan", !.r = Top.next]>> \in Unsents
  BY <1>2, UnsentsType
<1>4. stack' \in Unsents
  <2>1. \/ Become(<<[Top EXCEPT !.op = "scan", !.r = None]>>)
        \/ Become(<<[Top EXCEPT !.op = "scan", !.r = Top.next]>>)
    BY DEF ScanSent
  <2>. QED BY <1>3, <2>1, UnsentsType DEF Sending, Become
<1>5. CASE Top.r \in Blocking
  <2>1. base' = [base EXCEPT !.block = IF @ = None THEN Top.r ELSE @]
    BY <1>5 DEF ScanSent
  <2>2. base'.pending = base.pending /\ base'.block = Top.r
    BY <1>1, <2>1 DEF Sending, BaseRecord
  <2>3. Marked'
    BY <2>2, ConstantsAssumption DEF Sending, SoonMarked, Marked
  <2>. QED BY <1>4, <2>3 DEF Between
<1>6. CASE Top.r \notin Blocking
  <2>1. UNCHANGED base
    BY <1>6 DEF ScanSent
  <2>2. Marked'
    BY <1>6, <2>1 DEF Sending, SoonMarked, Marked
  <2>. QED BY <1>4, <2>2 DEF Between
<1>. QED BY <1>5, <1>6

\* The transmission drops no reference.
LEMMA CleanSend ==
  ASSUME Clean,
         \A x \in Requests :
           req'[x].freed = req[x].freed /\ req'[x].held = req[x].held,
         base.active \cup base.pending \subseteq base'.active \cup base'.pending,
         base'.block = base.block,
         net.outstanding \subseteq net'.outstanding,
         \A i \in DOMAIN stack :
           i \in DOMAIN stack' /\ FrameRefs(stack[i]) = FrameRefs(stack'[i])
  PROVE  Clean'
<1>1. ASSUME NEW x \in Requests
      PROVE  req'[x].freed \/ Referenced(x)'
  <2>1. req[x].freed \/ Referenced(x)
    BY DEF Clean, Garbage
  <2>. QED BY <2>1 DEF Referenced
<1>. QED BY <1>1 DEF Clean, Garbage

\* A request that is sent is looked at next.
LEMMA SendBlocks ==
  ASSUME TypeOK, QuietHandlers, Between, ScanSend
  PROVE  Sending'
<1>1. PICK r \in Requests :
       /\ Scanning(r) /\ CanSubmitRequest(req, base, r)
       /\ LET q1 == NewSerialReq(UnlinkReq(req, r, Top.prev), r)
              q2 == [q1 EXCEPT ![r] = [@ EXCEPT !.scheduled = 0,
                                                !.state = "PENDING",
                                                !.tx = q1[r].sends]]
              b1 == NewSerialBase(req, UnlinkBase(req, base, r, Top.prev), r)
              b2 == [b1 EXCEPT !.pending = @ \cup {r}]
          IN  /\ req' = q2
              /\ base' = MoveOwnerQueue(q2, b2)
              /\ net' = [outstanding |-> net.outstanding \cup {<<r, q2[r].tx>>},
                         answers |-> net.answers \cup {<<r, q2[r].serial2>>}]
              /\ Become((IF MovesOwner(q2, b2) THEN Callback(None) ELSE <<>>)
                        \o <<[Top EXCEPT !.op = "sent", !.next = req[r].next,
                                         !.some = TRUE]>>)
  BY DEF ScanSend
<1>. DEFINE q0 == UnlinkReq(req, r, Top.prev)
            q1 == NewSerialReq(q0, r)
            b0 == UnlinkBase(req, base, r, Top.prev)
            b1 == NewSerialBase(req, b0, r)
            b2 == [b1 EXCEPT !.pending = @ \cup {r}]
            f == [Top EXCEPT !.op = "sent", !.next = req[r].next, !.some = TRUE]
<1>2. /\ ~Idle /\ Top.op = "scan" /\ Top.r = r /\ Top \in Frame /\ Clean
      /\ Top.prev \in MaybeRequest /\ Tail(stack) \in Unsents
  <2>1. ~Idle /\ Top.op = "scan" /\ Top.r = r /\ Clean
    BY <1>1, RunningTop DEF Scanning
  <2>2. Tail(stack) \in Unsents
    BY <2>1 DEF Between, Unsents, Idle
  <2>. QED BY <2>1, <2>2, TopType
<1>3. /\ req \in RequestMap /\ base \in BaseRecord /\ q0 \in RequestMap
      /\ q1 \in RequestMap
  BY UnlinkReqType, NewSerialReqType DEF TypeOK, RequestMap
<1>4. b0 \in BaseRecord /\ b1 \in BaseRecord
  BY <1>2, <1>3, UnlinkBaseType, NewSerialBaseType
<1>5. /\ req' = [q1 EXCEPT ![r] = [@ EXCEPT !.scheduled = 0,
                                            !.state = "PENDING",
                                            !.tx = q1[r].sends]]
      /\ base' = MoveOwnerQueue(req', b2)
      /\ Become((IF MovesOwner(req', b2) THEN Callback(None) ELSE <<>>) \o <<f>>)
      /\ net.outstanding \subseteq net'.outstanding
  BY <1>1
<1>6. /\ b1.block = base.block
      /\ b1.pending \subseteq base.pending
      /\ base.pending \subseteq b1.pending \cup {r}
      /\ base.active \subseteq b1.active
  BY <1>3 DEF NewSerialBase, UnlinkBase, BaseRecord
<1>7. \A x \in Requests :
        req'[x].freed = req[x].freed /\ req'[x].held = req[x].held
  <2>1. \A x \in Requests : q0[x].freed = req[x].freed /\ q0[x].held = req[x].held
    BY <1>3 DEF UnlinkReq, RequestMap, RequestRecord
  <2>. HIDE DEF q0
  <2>2. \A x \in Requests : q1[x].freed = q0[x].freed /\ q1[x].held = q0[x].held
    BY <1>3 DEF NewSerialReq, RequestMap, RequestRecord
  <2>. HIDE DEF q1
  <2>3. \A x \in Requests :
          req'[x].freed = q1[x].freed /\ req'[x].held = q1[x].held
    BY <1>3, <1>5 DEF RequestMap, RequestRecord
  <2>. QED BY <2>1, <2>2, <2>3
<1>. HIDE DEF q1, b1
<1>8. /\ b2 \in BaseRecord /\ b2.block = base.block
      /\ b2.pending \subseteq base.pending \cup {r}
      /\ base.pending \subseteq b2.pending
      /\ base.active \subseteq b2.active
  BY <1>3, <1>4, <1>6 DEF BaseRecord
<1>. HIDE DEF b2
<1>9. /\ base'.block = base.block
      /\ base'.pending \subseteq base.pending \cup {r}
      /\ base.active \cup base.pending \subseteq base'.active \cup base'.pending
  <2>1. /\ base'.block = b2.block /\ base'.pending = b2.pending
        /\ base'.active = b2.active
    BY <1>5, <1>8 DEF MoveOwnerQueue, BaseRecord
  <2>. QED BY <1>8, <2>1
<1>10. f.op = "sent" /\ f.r = r /\ FrameRefs(f) = FrameRefs(Top)
  BY <1>2 DEF Frame, FrameRefs
<1>. HIDE DEF f
<1>11. stack' = <<f>> \o Tail(stack)
  <2>1. (IF MovesOwner(req', b2) THEN Callback(None) ELSE <<>>) = <<>>
    BY <1>8, NoOwnerCalls
  <2>2. Become(<<>> \o <<f>>)
    BY <1>5, <2>1
  <2>3. <<>> \o <<f>> = <<f>>
    OBVIOUS
  <2>. QED BY <2>2, <2>3 DEF Become
<1>12. /\ ~Idle' /\ Top' = f /\ Tail(stack') = Tail(stack)
       /\ \A i \in DOMAIN stack :
            i \in DOMAIN stack' /\ FrameRefs(stack[i]) = FrameRefs(stack'[i])
  <2>1. stack \in Seq(Frame) /\ stack # <<>> /\ Top = stack[1]
    BY <1>2 DEF TypeOK, Idle, Top
  <2>2. /\ DOMAIN stack' = DOMAIN stack /\ stack'[1] = f
        /\ \A i \in DOMAIN stack : i # 1 => stack'[i] = stack[i]
    BY <1>11, <2>1
  <2>3. stack' # <<>> /\ Head(stack') = f /\ Tail(stack') = Tail(stack)
    BY <1>11, <2>1
  <2>. QED BY <1>10, <2>1, <2>2, <2>3 DEF Idle, Top
<1>13. Clean'
  BY <1>2, <1>5, <1>7, <1>9, <1>12, CleanSend
<1>14. base.block \in {None, r}
  BY <1>1 DEF CanSubmitRequest
<1>15. SoonMarked'
  BY <1>9, <1>10, <1>12 DEF Between, Marked, SoonMarked
<1>. QED BY <1>2, <1>9, <1>10, <1>12, <1>13, <1>14, <1>15 DEF Sending

\* Nothing comes between sending a request and looking whether it blocks.
LEMMA SentNext ==
  ASSUME TypeOK, Sending, Next
  PROVE  ScanSent
<1>1. ~Idle /\ Top.op = "sent" /\ Clean
  BY DEF Sending
<1>2. ~Event
  BY <1>1 DEF Event, EventTurn, RespondUnknown, RespondRetry, RespondDone, Sent,
              Timeout, Tick, Death, ConfigDeath, Connected
<1>3. ~UserTurn /\ ~EventTurn
  BY <1>1, RunningTop DEF UserTurn, EventTurn
<1>4. ~User
  BY <1>3 DEF User, Submit, Retry, Cancel, Release, SetTimeout,
              SetDefaultTimeout, Block, Unblock, FreeGroup, CancelGroup, Finalize
<1>5. ASSUME NEW op, Running(op)
      PROVE  op = "sent"
  BY <1>1, <1>5, RunningTop
<1>6. ~(ScanStart \/ ScanSkip \/ ScanSend \/ ScanFail \/ ScanEnd)
  BY <1>5 DEF ScanStart, ScanSkip, ScanSend, ScanFail, ScanEnd, Scanning
<1>10. ~(ScanTell \/ Accept \/ Refuse \/ Refused)
  BY <1>5 DEF ScanTell, Accept, Refuse, Refused, Scanning
<1>7. ~(Submitted \/ Reset \/ Done \/ Drop \/ Dropped \/ Unregister \/ Finish)
  BY <1>1, <1>5 DEF Submitted, Reset, Done, Drop, Dropped, Unregister, Finish
<1>8. ~(Expire \/ FailNext \/ HandleDeath \/ CancelNext \/ Unlink \/ Return)
  BY <1>5 DEF Expire, FailNext, HandleDeath, CancelNext, Unlink, Return
<1>9. ASSUME NEW r \in Requests
      PROVE  ~Free(r)
  BY <1>1 DEF Free, Clean
<1>. QED BY <1>2, <1>4, <1>6, <1>7, <1>8, <1>9, <1>10
     DEF Next, Continue

\* Where callbacks do not call the library, or where only the observers of
\* requests do not and there are no groups that raise the owner signal, a
\* blocking request that waits for its answer keeps all others from being sent:
\* by a submission, a retry, the timer, an answer, a failure or a callback,
\* however they nest.
THEOREM BlockerSendsAlone ==
  ASSUME QuietHandlers
  PROVE  Spec => BlockingExcludes
<1>. DEFINE P == \A r, x \in Requests :
                   /\ r \in base.pending \cap Blocking /\ x # r
                   => req'[x].sends = req[x].sends
<1>1. Init => Blocks
  BY DEF Init, Blocks, Between, Marked, Unsents
<1>2. TypeOK /\ Blocks /\ [Next]_vars => Blocks'
  <2>1. CASE UNCHANGED vars
    <3>1. Blocks => Blocks'
      BY <2>1 DEF Blocks, Between, Marked, Sending, SoonMarked, vars, Idle, Top,
                  Clean, Garbage, Referenced
    <3>. QED BY <3>1
  <2>2. ASSUME TypeOK, Sending, Next
        PROVE  Blocks'
    BY <2>2, SentNext, SentBlocks DEF Blocks
  <2>3. ASSUME TypeOK, Between, Next
        PROVE  Blocks'
    <3>1. ~ScanSent
      BY <2>3, TopUnsent, RunningTop DEF Between, ScanSent, Unsent
    <3>2. CASE ScanSend
      BY <2>3, <3>2, SendBlocks DEF Blocks
    <3>3. CASE ~ScanSend
      BY <2>3, <3>1, <3>3, NothingSent, UnsentStep DEF Blocks
    <3>. QED BY <3>2, <3>3
  <2>. QED BY <2>1, <2>2, <2>3 DEF Blocks
<1>3. TypeOK /\ Blocks /\ [Next]_vars => [P]_vars
  <2>1. ASSUME TypeOK, Sending, Next
        PROVE  P
    BY <2>1, SentNext DEF ScanSent
  <2>2. ASSUME TypeOK, Between, Next
        PROVE  P
    <3>1. Sends
      BY <2>2, NextOwners DEF OwnersStep
    <3>2. ASSUME NEW r \in base.pending \cap Blocking, NEW x \in Requests, x # r,
                 CanSubmitRequest(req, base, x)
          PROVE  FALSE
      <4>1. base.block = r /\ r # None
        BY <2>2, ConstantsAssumption DEF Between, Marked
      <4>. QED BY <3>2, <4>1 DEF CanSubmitRequest
    <3>. QED BY <3>1, <3>2 DEF Sends, QuietHandlers, Observed
  <2>. QED BY <2>1, <2>2 DEF Blocks
<1>. QED BY <1>1, <1>2, <1>3, TypeCorrect, PTL DEF Spec, BlockingExcludes

-----------------------------------------------------------------------------
(***************************************************************************)
(* No completion is lost.                                                  *)
(*                                                                         *)
(* The completion callback of a request is taken away while the request is *)
(* being submitted and given back afterwards, it is forgotten when it runs *)
(* or when the request is cancelled, and calls that end a request may be   *)
(* in progress below calls that send it again.  The invariant says what    *)
(* each of these calls relies on:                                          *)
(*   - Accounts: who still has a callback, and why the others have none;   *)
(*   - References: the queue, the tables, the scans and the transactions   *)
(*     know only requests that were submitted, so that no request fails    *)
(*     that the user never handed over;                                    *)
(*   - Tracks: a submitted request whose callback is due stays in the      *)
(*     table of active requests, or in the list of a call that fails it,   *)
(*     so that it is not freed, unless the user has cancelled it.          *)
(***************************************************************************)

\* The user handed the request over, or gave up its callback.
Seen(q, r) == ~q[r].complete \/ q[r].submitted

\* Neither cancelled nor detached from its object.
Whole(q, r) == q[r].registered /\ ~q[r].dropped

-----------------------------------------------------------------------------
(***************************************************************************)
(* The calls in progress that are about a request.                         *)
(***************************************************************************)
Drops(f) == f.op \in {"drop", "dropped"}
Lists(f) == f.op \in {"expire", "fail"}
Withholds(f) == f.op = "submitted" /\ f.some

Dropping(S, r) == \E f \in S : Drops(f) /\ f.r = r
Withheld(S, r) == \E f \in S : Withholds(f) /\ f.r = r
Finishing(S, r) == \E f \in S : f.op = "finish" /\ f.r = r
Answered(S, r) == \E f \in S : f.op = "done" /\ f.r = r
Listed(S, r) == \E f \in S : Lists(f) /\ r \in f.refs

\* A call f that is never made by, or on behalf of, the call h: the death of
\* a config service is an event, and no request is submitted while a call
\* drops it, unless its callback is gone for good.
Clash(f, h) == f.op = "die" \/ (Withholds(f) /\ Drops(h) /\ f.r = h.r)
Ordered == \A i, j \in DOMAIN stack : i < j => ~Clash(stack[i], stack[j])

-----------------------------------------------------------------------------
(***************************************************************************)
(* Accounts.                                                               *)
(***************************************************************************)
Heard(q, r) == q[r].submitted /\ ~q[r].complete => q[r].calls = 1 \/ q[r].dropped
Fresh(q, r) ==
  q[r].state = "NEW" => ~q[r].submitted /\ (~q[r].complete => q[r].dropped)
Held(q, S) ==
  \A f \in S : f.op = "submitted" => q[f.r].held /\ (~f.some => q[f.r].dropped)
Unheld(q, S, r) == q[r].freed \/ Finishing(S, r) => ~q[r].held
FreedHeard(q, r) == q[r].freed /\ q[r].submitted => ~q[r].complete
EndedHeard(q, S, r) ==
  q[r].state \in Terminal /\ q[r].submitted /\ q[r].complete => Answered(S, r)
CancelledHeard(q, r) == q[r].state = "CANCELLED" /\ q[r].complete => ~q[r].submitted
DropsHeard(q, S, r) ==
  Dropping(S, r) => /\ ~q[r].complete \/ ~q[r].submitted
                    /\ q[r].state = "NEW" => (~q[r].complete \/ ~q[r].held)

Account(q, S, r) ==
  /\ Heard(q, r) /\ Fresh(q, r) /\ Unheld(q, S, r) /\ FreedHeard(q, r)
  /\ EndedHeard(q, S, r) /\ CancelledHeard(q, r) /\ DropsHeard(q, S, r)
Accounts ==
  /\ \A r \in Requests : Account(req, Calls(stack), r)
  /\ Held(req, Calls(stack))
  /\ Ordered

(***************************************************************************)
(* References.                                                             *)
(***************************************************************************)
Points(f) ==
  (IF Lists(f) THEN f.refs ELSE {}) \cup
  (IF f.op \in {"scan", "sent", "done"} THEN {f.r, f.next} ELSE {})

NextRefs(q) == {q[x].next : x \in Requests}
BaseRefs(b) == b.active \cup {b.first}
NetRefs(n) == {t[1] : t \in n.outstanding}
CallRefs(S) == UNION {Points(f) : f \in S}

Referred(q, b, n, S, r) ==
  \/ r \in NextRefs(q) \cup BaseRefs(b) \cup NetRefs(n) \cup CallRefs(S)
  \/ q[r].state \notin {"NEW", "CANCELLED"}

\* The requests a call has still to look at are among those it lists.
ListOK(f) ==
  /\ Lists(f) => f.todo \subseteq f.refs
  /\ f.op = "fail" => f.refs = f.todo

References ==
  /\ \A r \in Requests :
       Referred(req, base, net, Calls(stack), r) => Seen(req, r)
  /\ \A f \in Calls(stack) : ListOK(f)

(***************************************************************************)
(* Tracks.                                                                 *)
(***************************************************************************)
Tracked(q, b, S, r) ==
  Whole(q, r) /\ q[r].complete /\ q[r].submitted =>
    r \in b.active \/ Listed(S, r) \/ Answered(S, r)
Activated(q, b, S, r) ==
  Whole(q, r) /\ Withheld(S, r) /\ q[r].state \in Live =>
    r \in b.active \/ Dropping(S, r)
Resendable(q, S, r) ==
  /\ Whole(q, r) /\ Withheld(S, r) /\ (q[r].state \in Terminal \/ Dropping(S, r))
  => q[r].serial2 # 0
Unlisted(S, r) == Withheld(S, r) => ~Listed(S, r)

Track(q, b, S, r) ==
  /\ Tracked(q, b, S, r) /\ Activated(q, b, S, r)
  /\ Resendable(q, S, r) /\ Unlisted(S, r)
Tracks == \A r \in Requests : Track(req, base, Calls(stack), r)

SilenceInv == Accounts /\ References /\ Tracks

-----------------------------------------------------------------------------
(***************************************************************************)
(* The stack.                                                              *)
(***************************************************************************)

\* The calls fs are made, by the running call or in its place.
Goes(fs) == Enter(fs) \/ (~Idle /\ Become(fs))

\* The calls that remain are those made and those that were there.
LEMMA CallsGo ==
  ASSUME TypeOK, NEW fs \in Frames, Goes(fs)
  PROVE  /\ Calls(stack') \subseteq Calls(fs) \cup Calls(stack)
         /\ Calls(fs) \subseteq Calls(stack')
         /\ Calls(stack) \subseteq Calls(stack') \cup {Top}
         /\ Enter(fs) => Calls(stack) \subseteq Calls(stack')
         /\ Calls(stack) \subseteq Frame /\ Calls(fs) \subseteq Frame
<1>1. stack \in Seq(Frame) /\ fs \in Seq(Frame)
  BY DEF TypeOK, Frames
<1>2. Calls(stack) \subseteq Frame /\ Calls(fs) \subseteq Frame
  BY <1>1 DEF Calls
<1>3. CASE Enter(fs)
  BY <1>1, <1>2, <1>3, StackEnter
<1>4. CASE ~Enter(fs) /\ ~Idle /\ Become(fs)
  BY <1>1, <1>2, <1>4, StackBecome
<1>. QED BY <1>3, <1>4 DEF Goes

\* New calls keep the order if they go with each other and with the others.
LEMMA OrderGoes ==
  ASSUME TypeOK, Ordered, NEW fs \in Frames, Goes(fs),
         \A i, j \in DOMAIN fs : i < j => ~Clash(fs[i], fs[j]),
         \A f \in Calls(fs), h \in Calls(stack) : ~Clash(f, h)
  PROVE  Ordered'
<1>. DEFINE n == Len(fs)
            m == IF Enter(fs) THEN 0 ELSE 1
<1>1. /\ stack \in Seq(Frame) /\ fs \in Seq(Frame) /\ n \in Nat
      /\ Len(stack) \in Nat
  BY DEF TypeOK, Frames
<1>2. ASSUME NEW i \in DOMAIN stack'
      PROVE  /\ i \in Int
             /\ \/ i \in DOMAIN fs /\ stack'[i] = fs[i] /\ i <= n
                \/ /\ i > n /\ i - n + m \in DOMAIN stack
                   /\ stack'[i] = stack[i - n + m]
  <2>1. CASE Enter(fs)
    BY <1>1, <2>1 DEF Enter
  <2>2. CASE ~Enter(fs) /\ ~Idle /\ Become(fs)
    <3>1. /\ stack # <<>> /\ Tail(stack) \in Seq(Frame)
          /\ Len(Tail(stack)) = Len(stack) - 1
          /\ \A k \in 1 .. Len(stack) - 1 : Tail(stack)[k] = stack[k + 1]
      BY <1>1, <2>2 DEF Idle
    <3>2. stack' = fs \o Tail(stack)
      BY <2>2 DEF Become
    <3>. QED BY <1>1, <2>2, <3>1, <3>2
  <2>. QED BY <2>1, <2>2 DEF Goes
<1>3. ASSUME NEW i \in DOMAIN stack', NEW j \in DOMAIN stack', i < j
      PROVE  ~Clash(stack'[i], stack'[j])
  <2>. HIDE DEF n, m
  <2>0. m \in Int /\ n \in Int
    BY DEF m, n
  <2>1. CASE j <= n
    BY <1>2, <1>3, <2>0, <2>1
  <2>2. CASE i <= n /\ j > n
    BY <1>2, <2>0, <2>2 DEF Calls
  <2>3. CASE i > n /\ j > n
    <3>1. i - n + m < j - n + m
      BY <1>2, <1>3, <2>0
    <3>. QED BY <1>2, <2>0, <2>3, <3>1 DEF Ordered
  <2>. QED BY <1>2, <2>0, <2>1, <2>2, <2>3
<1>. QED BY <1>3 DEF Ordered

-----------------------------------------------------------------------------
(***************************************************************************)
(* What a step leaves alone.                                               *)
(***************************************************************************)
Watched == {"submitted", "finish", "done", "drop", "dropped"}
Listing == {"expire", "fail"}

\* The request is not completed, cancelled or freed; it may be sent again.
AlikeAt(q, u, x) ==
  /\ u[x].complete = q[x].complete /\ u[x].submitted = q[x].submitted
  /\ u[x].dropped = q[x].dropped /\ u[x].freed = q[x].freed
  /\ u[x].calls = q[x].calls /\ u[x].held = q[x].held
  /\ u[x].registered => q[x].registered
  /\ u[x].registered /\ q[x].serial2 # 0 => u[x].serial2 # 0
  /\ u[x].state # q[x].state => u[x].state \in {"QUEUED", "PENDING"}
Alike(q, u) == \A x \in Requests : AlikeAt(q, u, x)

\* No watched call about the request comes or goes.
CallsAt(S, T, x) ==
  /\ Dropping(T, x) <=> Dropping(S, x)
  /\ Withheld(T, x) <=> Withheld(S, x)
  /\ Finishing(T, x) <=> Finishing(S, x)
  /\ Answered(T, x) <=> Answered(S, x)

\* A request leaves the table of active ones for the list of a call, and
\* comes back when it is sent again.
TrackedAt(x) ==
  /\ x \in base.active =>
       \/ x \in base'.active
       \/ ~req'[x].registered
       \/ Listed(Calls(stack'), x) /\ ~Withheld(Calls(stack), x)
  /\ Listed(Calls(stack), x) => Listed(Calls(stack'), x)
  /\ Listed(Calls(stack'), x) =>
       Listed(Calls(stack), x) \/ ~Withheld(Calls(stack), x)
  /\ /\ Withheld(Calls(stack), x) /\ req[x].serial2 # 0
     /\ req[x].state \in Terminal /\ req'[x].state \in Live
     => x \in base'.active

KeptAt(x) ==
  /\ AlikeAt(req, req', x) /\ TrackedAt(x)
  /\ CallsAt(Calls(stack), Calls(stack'), x)

\* What is known after the step was known before, or the user just handed
\* it over.
Known ==
  {x \in Requests : \/ Referred(req, base, net, Calls(stack), x)
                    \/ Seen(req', x)} \cup {None}

RefersKept ==
  /\ NextRefs(req') \subseteq Known /\ BaseRefs(base') \subseteq Known
  /\ NetRefs(net') \subseteq Known /\ CallRefs(Calls(stack')) \subseteq Known
  /\ \A x \in Requests : req'[x].state \notin {"NEW", "CANCELLED"} => x \in Known
  /\ \A f \in Calls(stack') : ListOK(f) \/ f \in Calls(stack)

\* A request that is left alone keeps its account.
LEMMA AccountKept ==
  ASSUME NEW q, NEW u, NEW S, NEW T, NEW x,
         Account(q, S, x), AlikeAt(q, u, x), CallsAt(S, T, x)
  PROVE  Account(u, T, x)
<1>1. /\ Heard(q, x) /\ Fresh(q, x) /\ Unheld(q, S, x) /\ FreedHeard(q, x)
      /\ EndedHeard(q, S, x) /\ CancelledHeard(q, x) /\ DropsHeard(q, S, x)
  BY DEF Account
<1>2. /\ Heard(u, x) /\ Fresh(u, x) /\ Unheld(u, T, x)
      /\ FreedHeard(u, x) /\ CancelledHeard(u, x)
  BY <1>1 DEF AlikeAt, CallsAt, Heard, Fresh, Unheld, FreedHeard, CancelledHeard
<1>3. EndedHeard(u, T, x) /\ DropsHeard(u, T, x)
  BY <1>1 DEF AlikeAt, CallsAt, EndedHeard, DropsHeard, Terminal, Live
<1>. QED BY <1>2, <1>3 DEF Account

\* A request that is left alone stays tracked.
LEMMA TrackKept ==
  ASSUME TypeOK, NEW x \in Requests, KeptAt(x),
         Track(req, base, Calls(stack), x)
  PROVE  Track(req', base', Calls(stack'), x)
<1>. DEFINE S == Calls(stack)
            T == Calls(stack')
<1>1. /\ Tracked(req, base, S, x) /\ Activated(req, base, S, x)
      /\ Resendable(req, S, x) /\ Unlisted(S, x)
  BY DEF Track
<1>2. /\ x \in base.active =>
           \/ x \in base'.active
           \/ ~req'[x].registered
           \/ Listed(T, x) /\ ~Withheld(S, x)
      /\ Listed(S, x) => Listed(T, x)
      /\ Listed(T, x) => Listed(S, x) \/ ~Withheld(S, x)
      /\ /\ Withheld(S, x) /\ req[x].serial2 # 0
         /\ req[x].state \in Terminal /\ req'[x].state \in Live
         => x \in base'.active
  BY DEF KeptAt, TrackedAt
<1>3. AlikeAt(req, req', x) /\ CallsAt(S, T, x)
  BY DEF KeptAt
<1>. HIDE DEF S, T
<1>4. Whole(req', x) => Whole(req, x) /\ req'[x].registered
  BY <1>3 DEF Whole, AlikeAt
<1>5. req[x].state \in Terminal \/ req[x].state \in Live
  BY DEF TypeOK, RequestRecord, Terminal
<1>6. Tracked(req', base', T, x)
  BY <1>1, <1>2, <1>3, <1>4 DEF AlikeAt, CallsAt, Tracked
<1>7. Activated(req', base', T, x)
  BY <1>1, <1>2, <1>3, <1>4, <1>5 DEF CallsAt, Activated, Resendable
<1>8. Resendable(req', T, x)
  BY <1>1, <1>3, <1>4 DEF AlikeAt, CallsAt, Resendable, Terminal, Live
<1>9. Unlisted(T, x)
  BY <1>1, <1>2, <1>3 DEF CallsAt, Unlisted
<1>. QED BY <1>6, <1>7, <1>8, <1>9 DEF Track, T

\* The requests a step leaves alone follow from the lemmas above.
LEMMA SilenceStep ==
  ASSUME TypeOK, SilenceInv, NEW R \in SUBSET Requests,
         \A x \in Requests \ R : KeptAt(x),
         \A r \in R : /\ Account(req', Calls(stack'), r)
                      /\ Track(req', base', Calls(stack'), r)
                      /\ Seen(req, r) => Seen(req', r),
         Held(req', Calls(stack')), Ordered', RefersKept
  PROVE  SilenceInv'
<1>1. ASSUME NEW x \in Requests \ R
      PROVE  /\ Account(req', Calls(stack'), x)
             /\ Track(req', base', Calls(stack'), x)
             /\ Seen(req, x) => Seen(req', x)
  <2>1. AlikeAt(req, req', x) /\ CallsAt(Calls(stack), Calls(stack'), x)
    BY <1>1 DEF KeptAt
  <2>2. Account(req', Calls(stack'), x)
    BY <2>1, AccountKept DEF SilenceInv, Accounts
  <2>3. Track(req', base', Calls(stack'), x)
    BY <1>1, TrackKept DEF SilenceInv, Tracks
  <2>. QED BY <2>1, <2>2, <2>3 DEF AlikeAt, Seen
<1>2. ASSUME NEW r \in Requests, Referred(req', base', net', Calls(stack'), r)
      PROVE  Seen(req', r)
  <2>1. r \in Known
    BY <1>2 DEF Referred, RefersKept
  <2>2. r # None
    BY ConstantsAssumption
  <2>. QED BY <1>1, <2>1, <2>2 DEF Known, SilenceInv, References
<1>3. ASSUME NEW f \in Calls(stack')
      PROVE  ListOK(f)
  BY <1>3 DEF SilenceInv, References, RefersKept
<1>4. Accounts'
  BY <1>1 DEF Accounts
<1>5. References'
  BY <1>2, <1>3 DEF References
<1>6. Tracks'
  BY <1>1 DEF Tracks
<1>. QED BY <1>4, <1>5, <1>6 DEF SilenceInv

\* All requests are left alone.
LEMMA AllKept ==
  ASSUME TypeOK, SilenceInv, \A x \in Requests : KeptAt(x),
         Held(req', Calls(stack')), Ordered', RefersKept
  PROVE  SilenceInv'
<1>. DEFINE R == {}
<1>1. R \in SUBSET Requests /\ \A x \in Requests \ R : KeptAt(x)
  OBVIOUS
<1>2. \A r \in R : /\ Account(req', Calls(stack'), r)
                   /\ Track(req', base', Calls(stack'), r)
                   /\ Seen(req, r) => Seen(req', r)
  OBVIOUS
<1>. HIDE DEF R
<1>. QED BY <1>1, <1>2, SilenceStep

\* All requests but one are left alone.
LEMMA OneStep ==
  ASSUME TypeOK, SilenceInv, NEW r \in Requests,
         \A x \in Requests \ {r} : KeptAt(x),
         Account(req', Calls(stack'), r), Track(req', base', Calls(stack'), r),
         Seen(req, r) => Seen(req', r),
         Held(req', Calls(stack')), Ordered', RefersKept
  PROVE  SilenceInv'
<1>. DEFINE R == {r}
<1>1. /\ R \in SUBSET Requests
      /\ \A x \in Requests \ R : KeptAt(x)
      /\ \A x \in R : /\ Account(req', Calls(stack'), x)
                      /\ Track(req', base', Calls(stack'), x)
                      /\ Seen(req, x) => Seen(req', x)
  OBVIOUS
<1>. HIDE DEF R
<1>. QED BY <1>1, SilenceStep

-----------------------------------------------------------------------------
(***************************************************************************)
(* Calls that come and go.                                                 *)
(***************************************************************************)
MuteOps == {"start", "retried", "connected", "reset", "unblocked",
            "unregister", "cancel", "unlink", "callback"}
Mute(fs) == \A f \in Calls(fs) : f.op \in MuteOps

\* Calls of other kinds, or about other requests, leave a request alone.
LEMMA KindGo ==
  ASSUME TypeOK, NEW fs \in Frames, Goes(fs), NEW x, NEW K,
         \A f \in Calls(fs) : f.op \in K => f.r # x,
         Enter(fs) \/ Top.op \notin K \/ Top.r # x
  PROVE  LET S == Calls(stack)
             T == Calls(stack')
         IN  /\ {"drop", "dropped"} \subseteq K => (Dropping(T, x) <=> Dropping(S, x))
             /\ "submitted" \in K => (Withheld(T, x) <=> Withheld(S, x))
             /\ "finish" \in K => (Finishing(T, x) <=> Finishing(S, x))
             /\ "done" \in K => (Answered(T, x) <=> Answered(S, x))
<1>. DEFINE S == Calls(stack)
            T == Calls(stack')
<1>1. ASSUME NEW f, f.op \in K, f.r = x
      PROVE  f \in S <=> f \in T
  BY <1>1, CallsGo
<1>. HIDE DEF S, T
<1>2. {"drop", "dropped"} \subseteq K => (Dropping(T, x) <=> Dropping(S, x))
  BY <1>1 DEF Dropping, Drops
<1>3. "submitted" \in K => (Withheld(T, x) <=> Withheld(S, x))
  BY <1>1 DEF Withheld, Withholds
<1>4. "finish" \in K => (Finishing(T, x) <=> Finishing(S, x))
  BY <1>1 DEF Finishing
<1>5. "done" \in K => (Answered(T, x) <=> Answered(S, x))
  BY <1>1 DEF Answered
<1>. QED BY <1>2, <1>3, <1>4, <1>5 DEF S, T

\* The same for all the calls the invariant looks at.
LEMMA CallsGoAt ==
  ASSUME TypeOK, NEW fs \in Frames, Goes(fs), NEW x,
         \A f \in Calls(fs) : f.op \in Watched => f.r # x,
         Enter(fs) \/ Top.op \notin Watched \/ Top.r # x
  PROVE  CallsAt(Calls(stack), Calls(stack'), x)
<1>1. /\ {"drop", "dropped"} \subseteq Watched /\ "submitted" \in Watched
      /\ "finish" \in Watched /\ "done" \in Watched
  BY DEF Watched
<1>. QED BY <1>1, KindGo DEF CallsAt

\* Calls that list other requests leave a request in the lists it is in.
LEMMA ListedGo ==
  ASSUME TypeOK, NEW fs \in Frames, Goes(fs), NEW x,
         \A f \in Calls(fs) : Lists(f) => x \notin f.refs,
         Enter(fs) \/ ~Lists(Top) \/ x \notin Top.refs
  PROVE  Listed(Calls(stack'), x) <=> Listed(Calls(stack), x)
BY CallsGo DEF Listed

\* The users who submit requests hold them.
LEMMA HeldGo ==
  ASSUME TypeOK, SilenceInv, NEW fs \in Frames, Goes(fs),
         \A f \in Calls(fs) : f.op # "submitted",
         \A x \in Requests : /\ req'[x].held = req[x].held
                             /\ req[x].dropped => req'[x].dropped
  PROVE  Held(req', Calls(stack'))
<1>1. ASSUME NEW f \in Calls(stack'), f.op = "submitted"
      PROVE  req'[f.r].held /\ (~f.some => req'[f.r].dropped)
  <2>1. f \in Calls(stack)
    BY <1>1, CallsGo
  <2>2. f.r \in Requests
    BY <1>1, <2>1, WithheldRequest DEF Calls
  <2>3. req[f.r].held /\ (~f.some => req[f.r].dropped)
    BY <1>1, <2>1 DEF SilenceInv, Accounts, Held
  <2>. QED BY <2>2, <2>3
<1>. QED BY <1>1 DEF Held

\* Calls that neither submit nor die are made in order.
LEMMA OrderKept ==
  ASSUME TypeOK, SilenceInv, NEW fs \in Frames, Goes(fs),
         \A f \in Calls(fs) : f.op \notin {"submitted", "die"}
  PROVE  Ordered'
<1>1. \A f \in Calls(fs) : \A h : ~Clash(f, h)
  BY DEF Clash, Withholds
<1>2. \A i \in DOMAIN fs : fs[i] \in Calls(fs)
  BY DEF Calls
<1>. QED BY <1>1, <1>2, OrderGoes DEF SilenceInv, Accounts

\* A step without calls.
LEMMA NoCalls ==
  ASSUME TypeOK, UNCHANGED stack
  PROVE  Enter(<<>>) /\ Goes(<<>>) /\ <<>> \in Frames
BY DEF Enter, Goes, TypeOK, Frames

\* Sequences of calls.
LEMMA CallsOf ==
  /\ Calls(<<>>) = {}
  /\ \A f : Calls(<<f>>) = {f}
  /\ \A f, h : Calls(<<f, h>>) = {f, h}
  /\ \A f, h, k : Calls(<<f, h, k>>) = {f, h, k}
  /\ \A s, t \in Frames : Calls(s \o t) = Calls(s) \cup Calls(t)
<1>1. \A s, t \in Frames : Calls(s \o t) = Calls(s) \cup Calls(t)
  BY StackConcat DEF Frames
<1>2. Calls(<<>>) = {}
  BY DEF Calls
<1>3. ASSUME NEW f
      PROVE  Calls(<<f>>) = {f}
  BY DEF Calls
<1>4. ASSUME NEW f, NEW h
      PROVE  Calls(<<f, h>>) = {f, h}
  BY DEF Calls
<1>5. ASSUME NEW f, NEW h, NEW k
      PROVE  Calls(<<f, h, k>>) = {f, h, k}
  BY DEF Calls
<1>. QED BY <1>1, <1>2, <1>3, <1>4, <1>5

\* No call.
LEMMA CallsOfNone == <<>> \in Frames /\ Calls(<<>>) = {}
BY FramesType, CallsOf

\* One call.
LEMMA CallsOfOne ==
  ASSUME NEW f \in Frame
  PROVE  <<f>> \in Frames /\ Calls(<<f>>) = {f}
<1>1. <<f>> \in Frames
  BY FramesType
<1>2. Calls(<<f>>) = {f}
  BY CallsOf
<1>. QED BY <1>1, <1>2

\* Two calls.
LEMMA CallsOfTwo ==
  ASSUME NEW f \in Frame, NEW h \in Frame
  PROVE  <<f, h>> \in Frames /\ Calls(<<f, h>>) = {f, h}
<1>1. <<f, h>> \in Frames
  BY FramesType
<1>2. Calls(<<f, h>>) = {f, h}
  BY CallsOf
<1>. QED BY <1>1, <1>2

\* Calls made one after the other.
LEMMA CallsOfBoth ==
  ASSUME NEW s \in Frames, NEW t \in Frames
  PROVE  s \o t \in Frames /\ Calls(s \o t) = Calls(s) \cup Calls(t)
<1>1. s \o t \in Frames
  BY FramesType
<1>2. Calls(s \o t) = Calls(s) \cup Calls(t)
  BY CallsOf
<1>. QED BY <1>1, <1>2

\* Calls that users' callbacks, scans and their callers make.
LEMMA MuteCalls ==
  /\ \A op \in MuteOps : \A r : Call(op, r).op \in MuteOps
  /\ \A r : Mute(Callback(r))
  /\ \A g : Mute(UnblockCalls(g))
<1>1. ASSUME NEW op \in MuteOps, NEW r
      PROVE  Call(op, r).op \in MuteOps
  BY DEF Call
<1>2. ASSUME NEW r
      PROVE  Mute(Callback(r))
  <2>1. Call("callback", r).op \in MuteOps
    BY <1>1 DEF MuteOps
  <2>. QED BY <2>1, CallsOf DEF Mute, Callback
<1>3. ASSUME NEW g
      PROVE  Mute(UnblockCalls(g))
  <2>1. /\ Call("start", None).op \in MuteOps
        /\ Call("unblocked", None).op \in MuteOps
    BY <1>1 DEF MuteOps
  <2>2. Mute(<<Call("start", None), Call("unblocked", None)>>)
    BY <2>1, CallsOf DEF Mute
  <2>3. /\ Callback(None) \in Frames
        /\ <<Call("start", None), Call("unblocked", None)>> \in Frames
    BY CallbackType, PlainCallType, PlainFrames, FramesType
    DEF MaybeRequest, Ops, RequestOps
  <2>. QED BY <1>2, <2>2, <2>3, CallsOf DEF Mute, UnblockCalls
<1>. QED BY <1>1, <1>2, <1>3

\* One call.
LEMMA MuteOne ==
  ASSUME NEW f \in Frame, f.op \in MuteOps
  PROVE  <<f>> \in Frames /\ Mute(<<f>>)
<1>1. Calls(<<f>>) = {f}
  BY CallsOf
<1>. QED BY <1>1, FramesType DEF Mute

\* One call after the other.
LEMMA MuteConcat ==
  \A s, t \in Frames : Mute(s) /\ Mute(t) => Mute(s \o t)
BY CallsOf DEF Mute

\* What is referred to before the step is known.
LEMMA KnownBefore ==
  ASSUME TypeOK
  PROVE  /\ NextRefs(req) \subseteq Known /\ BaseRefs(base) \subseteq Known
         /\ NetRefs(net) \subseteq Known /\ CallRefs(Calls(stack)) \subseteq Known
         /\ \A f \in Calls(stack) : Points(f) \subseteq Known
         /\ \A x \in Requests :
              req[x].state \notin {"NEW", "CANCELLED"} => x \in Known
<1>1. NextRefs(req) \subseteq MaybeRequest
  BY DEF TypeOK, RequestRecord, NextRefs
<1>2. BaseRefs(base) \subseteq MaybeRequest
  BY DEF TypeOK, BaseRecord, BaseRefs, MaybeRequest
<1>3. NetRefs(net) \subseteq MaybeRequest
  BY DEF TypeOK, NetRecord, Transmissions, NetRefs, MaybeRequest
<1>4. ASSUME NEW f \in Calls(stack)
      PROVE  Points(f) \subseteq MaybeRequest
  <2>1. f \in Frame
    BY DEF TypeOK, Calls
  <2>. QED BY <2>1 DEF Frame, Points, MaybeRequest
<1>5. CallRefs(Calls(stack)) \subseteq MaybeRequest
  BY <1>4 DEF CallRefs
<1>6. ASSUME NEW x \in MaybeRequest,
             Referred(req, base, net, Calls(stack), x) \/ x = None
      PROVE  x \in Known
  BY <1>6 DEF Known, MaybeRequest
<1>7. /\ NextRefs(req) \subseteq Known /\ BaseRefs(base) \subseteq Known
      /\ NetRefs(net) \subseteq Known /\ CallRefs(Calls(stack)) \subseteq Known
  BY <1>1, <1>2, <1>3, <1>5, <1>6 DEF Referred
<1>8. ASSUME NEW f \in Calls(stack)
      PROVE  Points(f) \subseteq Known
  BY <1>7 DEF CallRefs
<1>. QED BY <1>6, <1>7, <1>8 DEF Referred, MaybeRequest

\* New calls refer to what is known.
LEMMA KnownCalls ==
  ASSUME TypeOK, NEW fs \in Frames, Goes(fs),
         \A f \in Calls(fs) : Points(f) \subseteq Known /\ ListOK(f)
  PROVE  /\ CallRefs(Calls(stack')) \subseteq Known
         /\ \A f \in Calls(stack') : ListOK(f) \/ f \in Calls(stack)
<1>1. Calls(stack') \subseteq Calls(fs) \cup Calls(stack)
  BY CallsGo
<1>2. \A f \in Calls(stack') : Points(f) \subseteq Known
  BY <1>1, KnownBefore
<1>. QED BY <1>1, <1>2 DEF CallRefs

\* Calls that refer to nothing.
LEMMA PointsNowhere ==
  ASSUME NEW f, f.op \notin {"expire", "fail", "scan", "sent", "done"}
  PROVE  Points(f) = {} /\ ListOK(f)
BY DEF Points, ListOK, Lists

-----------------------------------------------------------------------------
(***************************************************************************)
(* What the procedures of radio_base.c leave alone.                        *)
(***************************************************************************)

\* The requests before and after some of these procedures.
LEMMA AlikeTrans ==
  ASSUME NEW q, NEW u, NEW v, Alike(q, u), Alike(u, v)
  PROVE  Alike(q, v)
BY DEF Alike, AlikeAt

\* cancel_request
LEMMA CancelReqKeeps ==
  ASSUME NEW q \in RequestMap, NEW r \in Requests
  PROVE  /\ Alike(q, CancelReq(q, r))
         /\ NextRefs(CancelReq(q, r)) = NextRefs(q)
         /\ \A x \in Requests : CancelReq(q, r)[x].state = q[x].state
<1>1. ASSUME NEW x \in Requests
      PROVE  /\ AlikeAt(q, CancelReq(q, r), x)
             /\ CancelReq(q, r)[x].next = q[x].next
             /\ CancelReq(q, r)[x].state = q[x].state
  BY DEF CancelReq, AlikeAt, RequestMap, RequestRecord
<1>. QED BY <1>1 DEF Alike, NextRefs

\* queue_request
LEMMA QueueReqKeeps ==
  ASSUME NEW q \in RequestMap, NEW b, NEW r \in Requests
  PROVE  /\ Alike(q, QueueReq(q, b, r))
         /\ NextRefs(QueueReq(q, b, r)) \subseteq NextRefs(q) \cup {r}
         /\ \A x \in Requests :
              QueueReq(q, b, r)[x].state = IF x = r THEN "QUEUED" ELSE q[x].state
<1>. DEFINE u == QueueReq(q, b, r)
<1>1. ASSUME NEW x \in Requests
      PROVE  /\ AlikeAt(q, u, x)
             /\ u[x].next \in {q[x].next, r}
             /\ u[x].state = IF x = r THEN "QUEUED" ELSE q[x].state
  BY ZenonT(60) DEF QueueReq, AlikeAt, RequestMap, RequestRecord
<1>. HIDE DEF u
<1>2. NextRefs(u) \subseteq NextRefs(q) \cup {r}
  BY <1>1 DEF NextRefs
<1>. QED BY <1>1, <1>2 DEF Alike, u

\* unlink_request
LEMMA UnlinkReqKeeps ==
  ASSUME NEW q \in RequestMap, NEW r \in Requests, NEW prev
  PROVE  /\ Alike(q, UnlinkReq(q, r, prev))
         /\ NextRefs(UnlinkReq(q, r, prev)) \subseteq NextRefs(q) \cup {None}
         /\ \A x \in Requests : UnlinkReq(q, r, prev)[x].state = q[x].state
<1>. DEFINE u == UnlinkReq(q, r, prev)
<1>1. ASSUME NEW x \in Requests
      PROVE  /\ AlikeAt(q, u, x)
             /\ u[x].next \in {q[x].next, q[r].next, None}
             /\ u[x].state = q[x].state
  BY DEF UnlinkReq, AlikeAt, RequestMap, RequestRecord
<1>. HIDE DEF u
<1>2. NextRefs(u) \subseteq NextRefs(q) \cup {None}
  BY <1>1 DEF NextRefs
<1>. QED BY <1>1, <1>2 DEF Alike, u

\* deactivate_request
LEMMA DeactivateReqKeeps ==
  ASSUME NEW q \in RequestMap, NEW b, NEW r \in Requests
  PROVE  /\ Alike(q, DeactivateReq(q, b, r))
         /\ NextRefs(DeactivateReq(q, b, r)) \subseteq NextRefs(q) \cup {None}
         /\ \A x \in Requests : DeactivateReq(q, b, r)[x].state = q[x].state
<1>1. Alike(q, q)
  BY DEF Alike, AlikeAt
<1>. QED BY <1>1, UnlinkReqKeeps DEF DeactivateReq

\* A new serial.
LEMMA NewSerialReqKeeps ==
  ASSUME NEW q \in RequestMap, NEW r \in Requests
  PROVE  /\ Alike(q, NewSerialReq(q, r))
         /\ NextRefs(NewSerialReq(q, r)) = NextRefs(q)
         /\ \A x \in Requests : NewSerialReq(q, r)[x].state = q[x].state
         /\ NewSerialReq(q, r)[r].registered => NewSerialReq(q, r)[r].serial2 # 0
<1>. DEFINE serial == IF q[r].serial2 # 0 THEN q[r].sends + 1
                      ELSE IF q[r].registered THEN 1 ELSE 0
            u == [q[r] EXCEPT !.sends = @ + 1, !.serial2 = serial]
<1>0. q[r].sends \in Nat /\ q[r].serial2 \in Nat
  BY DEF RequestMap, RequestRecord
<1>1. NewSerialReq(q, r) = [q EXCEPT ![r] = u]
  BY DEF NewSerialReq
<1>2. /\ u.complete = q[r].complete /\ u.submitted = q[r].submitted
      /\ u.dropped = q[r].dropped /\ u.freed = q[r].freed
      /\ u.calls = q[r].calls /\ u.held = q[r].held
      /\ u.registered = q[r].registered /\ u.serial2 = serial
      /\ u.state = q[r].state /\ u.next = q[r].next
  BY DEF RequestMap, RequestRecord
<1>3. /\ q[r].serial2 # 0 => serial # 0
      /\ q[r].registered => serial # 0
  BY <1>0
<1>. HIDE DEF u, serial
<1>4. ASSUME NEW x \in Requests
      PROVE  /\ AlikeAt(q, NewSerialReq(q, r), x)
             /\ NewSerialReq(q, r)[x].next = q[x].next
             /\ NewSerialReq(q, r)[x].state = q[x].state
  BY <1>1, <1>2, <1>3 DEF AlikeAt, RequestMap
<1>5. NewSerialReq(q, r)[r] = u
  BY <1>1 DEF RequestMap
<1>. QED BY <1>2, <1>3, <1>4, <1>5 DEF Alike, NextRefs

\* The table of active requests and the head of the queue: unlink_request
LEMMA UnlinkBaseKeeps ==
  ASSUME NEW q, NEW b \in BaseRecord, NEW r, NEW prev
  PROVE  /\ UnlinkBase(q, b, r, prev).active = b.active
         /\ UnlinkBase(q, b, r, prev).first \in {b.first, q[r].next}
BY DEF UnlinkBase, BaseRecord

\* deactivate_request
LEMMA DeactivateBaseKeeps ==
  ASSUME NEW q \in RequestMap, NEW b \in BaseRecord, NEW r \in Requests
  PROVE  /\ DeactivateBase(q, b, r).active = b.active \ {r}
         /\ DeactivateBase(q, b, r).first \in {b.first, q[r].next}
<1>. DEFINE u == IF Dequeues(q, b, r)
                 THEN UnlinkBase(q, b, r, Before(q, b, r)) ELSE b
            d == [u EXCEPT !.pending = @ \ {r}, !.active = @ \ {r},
                           !.block = IF @ = r THEN None ELSE @]
<1>1. u.active = b.active /\ u.first \in {b.first, q[r].next}
  BY UnlinkBaseKeeps
<1>2. u \in BaseRecord
  BY UnlinkBaseType, BeforeType
<1>3. DeactivateBase(q, b, r) = d
  BY DEF DeactivateBase
<1>. HIDE DEF u
<1>4. d.active = b.active \ {r} /\ d.first \in {b.first, q[r].next}
  BY <1>1, <1>2 DEF BaseRecord
<1>. QED BY <1>3, <1>4

\* queue_request
LEMMA QueueBaseKeeps ==
  ASSUME NEW b \in BaseRecord, NEW r
  PROVE  /\ QueueBase(b, r).active = b.active
         /\ QueueBase(b, r).first \in {b.first, r}
BY DEF QueueBase, BaseRecord

\* A new serial.
LEMMA NewSerialBaseKeeps ==
  ASSUME NEW q, NEW b \in BaseRecord, NEW r
  PROVE  /\ NewSerialBase(q, b, r).active =
              IF q[r].serial2 # 0 THEN b.active \cup {r} ELSE b.active
         /\ NewSerialBase(q, b, r).first = b.first
BY DEF NewSerialBase, BaseRecord

\* move_owner_queue
LEMMA MoveOwnerQueueKeeps ==
  ASSUME NEW q, NEW b \in BaseRecord
  PROVE  /\ MoveOwnerQueue(q, b).active = b.active
         /\ MoveOwnerQueue(q, b).first = b.first
BY DEF MoveOwnerQueue, BaseRecord

\* The transactions.
LEMMA CancelNetKeeps ==
  ASSUME net \in NetRecord, NEW q, NEW r
  PROVE  NetRefs(CancelNet(q, r)) \subseteq NetRefs(net)
BY DEF CancelNet, NetRecord, NetRefs

-----------------------------------------------------------------------------
(***************************************************************************)
(* Ordinary steps: they complete, cancel, drop and free nothing.           *)
(***************************************************************************)

\* A step that keeps track of the requests, and makes calls of other kinds.
LEMMA SweepStep ==
  ASSUME TypeOK, SilenceInv, NEW fs \in Frames, Goes(fs),
         Enter(fs) \/ Top.op \notin Watched,
         \A f \in Calls(fs) : /\ f.op \notin Watched \cup {"die"}
                              /\ Points(f) \subseteq Known /\ ListOK(f),
         Alike(req, req'), NextRefs(req') \subseteq Known,
         \A x \in Requests : req'[x].state # req[x].state => x \in Known,
         BaseRefs(base') \subseteq Known, NetRefs(net') \subseteq Known,
         \A x \in Requests : TrackedAt(x)
  PROVE  SilenceInv'
<1>1. ASSUME NEW x \in Requests
      PROVE  KeptAt(x)
  <2>1. AlikeAt(req, req', x)
    BY DEF Alike
  <2>2. CallsAt(Calls(stack), Calls(stack'), x)
    BY CallsGoAt
  <2>. QED BY <2>1, <2>2 DEF KeptAt
<1>2. Held(req', Calls(stack'))
  <2>1. \A f \in Calls(fs) : f.op # "submitted"
    BY DEF Watched
  <2>. QED BY <2>1, HeldGo DEF Alike, AlikeAt
<1>3. Ordered'
  <2>1. \A f \in Calls(fs) : f.op \notin {"submitted", "die"}
    BY DEF Watched
  <2>. QED BY <2>1, OrderKept
<1>4. RefersKept
  <2>1. /\ CallRefs(Calls(stack')) \subseteq Known
        /\ \A f \in Calls(stack') : ListOK(f) \/ f \in Calls(stack)
    BY KnownCalls
  <2>2. \A x \in Requests : req'[x].state \notin {"NEW", "CANCELLED"} => x \in Known
    BY KnownBefore
  <2>. QED BY <2>1, <2>2 DEF RefersKept
<1>. QED BY <1>1, <1>2, <1>3, <1>4, AllKept

\* A step that may send requests again, and whose calls list none.
LEMMA QuietStep ==
  ASSUME TypeOK, SilenceInv, NEW fs \in Frames, Goes(fs),
         Enter(fs) \/ Top.op \notin Watched \cup Listing,
         \A f \in Calls(fs) :
           /\ f.op \notin Watched \cup Listing \cup {"die"}
           /\ Points(f) \subseteq Known,
         Alike(req, req'), NextRefs(req') \subseteq Known,
         \A x \in Requests :
           req'[x].state # req[x].state =>
             /\ x \in Known
             /\ \/ req[x].state \in Live \/ req[x].serial2 = 0
                \/ x \in base'.active,
         BaseRefs(base') \subseteq Known, NetRefs(net') \subseteq Known,
         base.active \subseteq base'.active
  PROVE  SilenceInv'
<1>1. ASSUME NEW x \in Requests
      PROVE  TrackedAt(x)
  <2>1. Listed(Calls(stack'), x) <=> Listed(Calls(stack), x)
    BY ListedGo DEF Lists, Listing
  <2>2. req[x].state \in Terminal => req[x].state \notin Live
    BY DEF Terminal
  <2>3. req[x].state \in Terminal /\ req'[x].state \in Live /\ req[x].serial2 # 0
          => x \in base'.active
    BY <2>2
  <2>. QED BY <2>1, <2>3 DEF TrackedAt
<1>2. \A f \in Calls(fs) : f.op \notin Watched \cup {"die"} /\ ListOK(f)
  BY DEF ListOK, Lists, Listing
<1>. QED BY <1>1, <1>2, SweepStep

\* Nothing the invariant is about changes, but for calls it is not about.
Still(q, u) ==
  /\ Alike(q, u) /\ NextRefs(u) \subseteq NextRefs(q) \cup {None}
  /\ \A x \in Requests : u[x].state = q[x].state

\* A call begins or ends, and no request is the other for it.
LEMMA StillStep ==
  ASSUME TypeOK, SilenceInv, NEW fs \in Frames, Goes(fs), Mute(fs),
         Enter(fs) \/ Top.op \notin Watched \cup Listing,
         Still(req, req'),
         base'.active = base.active, base'.first = base.first,
         NetRefs(net') \subseteq NetRefs(net)
  PROVE  SilenceInv'
<1>1. \A f \in Calls(fs) :
        /\ f.op \notin Watched \cup Listing \cup {"die"}
        /\ Points(f) \subseteq Known
  <2>1. ASSUME NEW f \in Calls(fs)
        PROVE  /\ f.op \notin Watched \cup Listing \cup {"die"}
               /\ Points(f) \subseteq Known
    <3>1. f.op \notin Watched \cup Listing \cup {"die", "scan", "sent"}
      BY <2>1 DEF Mute, MuteOps, Watched, Listing
    <3>2. Points(f) = {}
      BY <3>1, PointsNowhere DEF Watched, Listing
    <3>. QED BY <3>1, <3>2
  <2>. QED BY <2>1
<1>2. /\ Alike(req, req') /\ NextRefs(req') \subseteq Known
      /\ \A x \in Requests : req'[x].state = req[x].state
  BY KnownBefore DEF Still, Known
<1>3. /\ BaseRefs(base') \subseteq Known /\ NetRefs(net') \subseteq Known
      /\ base.active \subseteq base'.active
  BY KnownBefore DEF BaseRefs
<1>. QED BY <1>1, <1>2, <1>3, QuietStep

\* No call begins or ends.
LEMMA StillNoCalls ==
  ASSUME TypeOK, SilenceInv, UNCHANGED stack, Still(req, req'),
         base'.active = base.active, base'.first = base.first,
         NetRefs(net') \subseteq NetRefs(net)
  PROVE  SilenceInv'
<1>1. Enter(<<>>) /\ Goes(<<>>) /\ <<>> \in Frames /\ Mute(<<>>)
  BY NoCalls, CallsOf DEF Mute
<1>. QED BY <1>1, StillStep

\* The requests do not change.
LEMMA StillSame ==
  ASSUME UNCHANGED req
  PROVE  Still(req, req')
BY DEF Still, Alike, AlikeAt

\* Requests leave their groups.
LEMMA UngroupKeeps ==
  ASSUME TypeOK, NEW S, req' = Ungroup(S)
  PROVE  Still(req, req')
<1>1. ASSUME NEW x \in Requests
      PROVE  /\ AlikeAt(req, req', x)
             /\ req'[x].next = req[x].next /\ req'[x].state = req[x].state
  BY DEF AlikeAt, TypeOK, RequestRecord, Ungroup
<1>. QED BY <1>1 DEF Still, Alike, NextRefs

\* Clock, answers, timer.
LEMMA QuietEvents ==
  ASSUME TypeOK, SilenceInv, Tick \/ RespondUnknown \/ Connected
  PROVE  SilenceInv'
<1>1. CASE Tick
  <2>. QED BY <1>1, StillNoCalls, StillSame DEF Tick
<1>2. CASE RespondUnknown
  <2>1. NetRefs(net') = NetRefs(net)
    BY <1>2 DEF RespondUnknown, NetRefs, TypeOK, NetRecord
  <2>. QED BY <1>2, <2>1, StillNoCalls, StillSame DEF RespondUnknown
<1>3. CASE Connected
  <2>. DEFINE fs == Callback(None) \o <<Call("start", None), Call("connected", None)>>
  <2>1. /\ Callback(None) \in Frames
        /\ <<Call("start", None), Call("connected", None)>> \in Frames
    BY CallbackType, PlainFrames, FramesType DEF MaybeRequest
  <2>2. Mute(<<Call("start", None), Call("connected", None)>>)
    BY CallsOf, MuteCalls DEF Mute, MuteOps
  <2>3. fs \in Frames /\ Mute(fs)
    BY <2>1, <2>2, MuteCalls, MuteConcat, FramesType
  <2>4. Enter(fs) /\ UNCHANGED <<req, base, net>>
    BY <1>3 DEF Connected
  <2>. HIDE DEF fs
  <2>. QED BY <2>3, <2>4, StillStep, StillSame DEF Goes
<1>. QED BY <1>1, <1>2, <1>3

\* Calls that end without a trace.
LEMMA QuietReturns ==
  ASSUME TypeOK, SilenceInv, Reset \/ Return \/ Unlink
  PROVE  SilenceInv'
<1>0. <<>> \in Frames /\ Mute(<<>>)
  BY CallsOfNone DEF Mute
<1>1. CASE Reset
  <2>1. /\ ~Idle /\ Top.op \notin Watched \cup Listing
        /\ Become(<<>>) /\ UNCHANGED <<req, net>>
    BY <1>1 DEF Reset, Watched, Listing
  <2>2. base'.active = base.active /\ base'.first = base.first
    BY <1>1 DEF Reset, TypeOK, BaseRecord
  <2>. QED BY <1>0, <2>1, <2>2, StillStep, StillSame DEF Goes
<1>2. CASE Return
  <2>1. /\ ~Idle /\ Top.op \notin Watched \cup Listing
        /\ Become(<<>>) /\ UNCHANGED <<req, base, net>>
    BY <1>2, RunningTop DEF Return, Watched, Listing
  <2>. QED BY <1>0, <2>1, StillStep, StillSame DEF Goes
<1>3. CASE Unlink
  <2>1. /\ ~Idle /\ Top.op \notin Watched \cup Listing
        /\ Become(<<>>) /\ UNCHANGED <<base, net>>
    BY <1>3, RunningTop DEF Unlink, Watched, Listing
  <2>2. Still(req, req')
    <3>1. req' = Ungroup(Members(Top.g))
      BY <1>3 DEF Unlink
    <3>. QED BY <3>1, UngroupKeeps
  <2>. QED BY <1>0, <2>1, <2>2, StillStep DEF Goes
<1>. QED BY <1>1, <1>2, <1>3

\* Timeouts.
LEMMA QuietTimeouts ==
  ASSUME TypeOK, SilenceInv, NEW ms,
         SetDefaultTimeout(ms) \/ \E r \in Requests : SetTimeout(r, ms)
  PROVE  SilenceInv'
<1>1. /\ UNCHANGED <<net, stack>>
      /\ base'.active = base.active /\ base'.first = base.first
  BY DEF SetDefaultTimeout, SetTimeout, TypeOK, BaseRecord
<1>2. ASSUME NEW x \in Requests
      PROVE  /\ AlikeAt(req, req', x)
             /\ req'[x].next = req[x].next /\ req'[x].state = req[x].state
  <2>1. CASE SetDefaultTimeout(ms)
    BY <2>1 DEF SetDefaultTimeout, AlikeAt, TypeOK, RequestRecord
  <2>2. ASSUME NEW r \in Requests, SetTimeout(r, ms)
        PROVE  /\ AlikeAt(req, req', x)
               /\ req'[x].next = req[x].next /\ req'[x].state = req[x].state
    <3>. DEFINE d == IF req[r].registered /\ req[r].state # "NEW"
                     THEN now + TimeoutOf(base, ms) ELSE req[r].deadline
                u == [req[r] EXCEPT !.timeout = ms, !.deadline = d]
    <3>1. req' = [req EXCEPT ![r] = u]
      BY <2>2 DEF SetTimeout
    <3>2. /\ u.complete = req[r].complete /\ u.submitted = req[r].submitted
          /\ u.dropped = req[r].dropped /\ u.freed = req[r].freed
          /\ u.calls = req[r].calls /\ u.held = req[r].held
          /\ u.registered = req[r].registered /\ u.serial2 = req[r].serial2
          /\ u.state = req[r].state /\ u.next = req[r].next
      BY DEF TypeOK, RequestRecord
    <3>. HIDE DEF u
    <3>. QED BY <3>1, <3>2 DEF AlikeAt, TypeOK
  <2>. QED BY <2>1, <2>2
<1>3. Still(req, req')
  BY <1>2 DEF Still, Alike, NextRefs
<1>. QED BY <1>1, <1>3, StillNoCalls

\* radio_base_unblock
LEMMA UnblockBaseKeeps ==
  ASSUME TypeOK, NEW g
  PROVE  /\ UnblockBase(g).active = base.active
         /\ UnblockBase(g).first = base.first
         /\ UnblockBase(g) \in BaseRecord
<1>1. base \in BaseRecord
  BY DEF TypeOK
<1>2. UnblockBase(g).active = base.active /\ UnblockBase(g).first = base.first
  BY <1>1 DEF UnblockBase, BaseRecord
<1>. QED BY <1>1, <1>2, UnblockBaseType

\* Groups.
LEMMA QuietGroups ==
  ASSUME TypeOK, SilenceInv, NEW g \in Groups,
         Block(g) \/ Unblock(g) \/ FreeGroup(g) \/ CancelGroup(g)
  PROVE  SilenceInv'
<1>0. Callback(None) \in Frames /\ UnblockCalls(g) \in Frames
  BY CallbackType, UnblockCallsType DEF MaybeRequest
<1>1. CASE Block(g)
  <2>1. /\ UNCHANGED <<req, net>>
        /\ base'.active = base.active /\ base'.first = base.first
    BY <1>1 DEF Block, TypeOK, BaseRecord
  <2>2. Enter(Callback(None)) \/ UNCHANGED stack
    BY <1>1 DEF Block
  <2>3. CASE Enter(Callback(None))
    BY <1>0, <2>1, <2>3, MuteCalls, StillStep, StillSame DEF Goes
  <2>4. CASE UNCHANGED stack
    BY <2>1, <2>4, StillNoCalls, StillSame
  <2>. QED BY <2>2, <2>3, <2>4
<1>2. CASE Unblock(g)
  <2>1. /\ UNCHANGED <<req, net>> /\ Enter(UnblockCalls(g))
        /\ base'.active = base.active /\ base'.first = base.first
    BY <1>2, UnblockBaseKeeps DEF Unblock
  <2>. QED BY <1>0, <2>1, MuteCalls, StillStep, StillSame DEF Goes
<1>3. CASE FreeGroup(g)
  <2>. DEFINE f == [Call("unlink", None) EXCEPT !.g = g]
              fs == UnblockCalls(g) \o <<f>>
  <2>1. /\ UNCHANGED <<req, net>> /\ Enter(fs)
        /\ base' = [UnblockBase(g) EXCEPT !.groups = @ \ {g}]
    BY <1>3 DEF FreeGroup
  <2>2. base'.active = base.active /\ base'.first = base.first
    BY <2>1, UnblockBaseKeeps DEF BaseRecord
  <2>3. f \in Frame /\ f.op = "unlink"
    <3>1. Call("unlink", None) \in Frame /\ Call("unlink", None).op = "unlink"
      BY PlainCallType DEF Call, Ops, RequestOps
    <3>. QED BY <3>1 DEF Frame, MaybeGroup
  <2>. HIDE DEF f
  <2>4. <<f>> \in Frames /\ Mute(<<f>>)
    BY <2>3, MuteOne DEF MuteOps
  <2>5. fs \in Frames /\ Mute(fs)
    BY <1>0, <2>4, MuteCalls, MuteConcat, FramesType
  <2>. HIDE DEF fs
  <2>. QED BY <2>1, <2>2, <2>5, StillStep, StillSame DEF Goes
<1>4. CASE CancelGroup(g)
  <2>. DEFINE f == ListCall("cancel", Members(g))
  <2>1. UNCHANGED <<base, net>> /\ Enter(<<f>>) /\ req' = Ungroup(Members(g))
    BY <1>4 DEF CancelGroup
  <2>2. f \in Frame
    BY ListCallType DEF Members
  <2>3. f.op = "cancel"
    BY DEF ListCall, Call
  <2>. HIDE DEF f
  <2>4. <<f>> \in Frames /\ Mute(<<f>>)
    BY <2>2, <2>3, MuteOne DEF MuteOps
  <2>. QED BY <2>1, <2>4, StillStep, UngroupKeeps DEF Goes
<1>. QED BY <1>1, <1>2, <1>3, <1>4

-----------------------------------------------------------------------------
(***************************************************************************)
(* The scan of the queue.                                                  *)
(***************************************************************************)

\* A scan looks at what is known.
LEMMA ScanKnows ==
  ASSUME TypeOK, NEW r \in Requests, Scanning(r)
  PROVE  /\ ~Idle /\ Top \in Calls(stack) /\ Top \in Frame
         /\ Top.op = "scan" /\ Top.r = r
         /\ Points(Top) = {r, Top.next} /\ r \in Known /\ Top.next \in Known
         /\ req[r].next \in Known
<1>1. Running("scan") /\ r = Top.r
  BY DEF Scanning
<1>2. ~Idle /\ Top.op = "scan"
  BY <1>1, RunningTop
<1>3. Top \in Calls(stack) /\ Top \in Frame
  <2>1. stack \in Seq(Frame) /\ stack # <<>>
    BY <1>2 DEF TypeOK, Idle
  <2>2. 1 \in DOMAIN stack /\ stack[1] = Top
    BY <2>1 DEF Top
  <2>. QED BY <1>2, <2>2, TopType DEF Calls
<1>4. Points(Top) = {r, Top.next}
  BY <1>1, <1>2 DEF Points, Lists
<1>5. Points(Top) \subseteq Known /\ req[r].next \in Known
  BY <1>3, KnownBefore DEF NextRefs
<1>. QED BY <1>1, <1>2, <1>3, <1>4, <1>5

\* The scans that go on.
LEMMA QuietScans ==
  ASSUME TypeOK, SilenceInv, ScanStart \/ ScanSkip \/ ScanSent \/ ScanEnd
  PROVE  SilenceInv'
<1>0. /\ UNCHANGED <<req, net>>
      /\ base'.active = base.active /\ base'.first = base.first
  BY DEF ScanStart, ScanSkip, ScanSent, ScanEnd, TypeOK, BaseRecord
<1>1. /\ Still(req, req') /\ NextRefs(req') \subseteq Known
      /\ BaseRefs(base') \subseteq Known /\ NetRefs(net') \subseteq Known
  BY <1>0, StillSame, KnownBefore DEF BaseRefs
<1>2. ~Idle /\ Top.op \in {"start", "scan", "sent"}
  BY RunningTop DEF ScanStart, ScanSkip, ScanSent, ScanEnd, Scanning
<1>3. Top \in Calls(stack) /\ Top \in Frame
  <2>1. stack \in Seq(Frame) /\ stack # <<>>
    BY <1>2 DEF TypeOK, Idle
  <2>2. 1 \in DOMAIN stack /\ stack[1] = Top
    BY <2>1 DEF Top
  <2>. QED BY <1>2, <2>2, TopType DEF Calls
<1>4. Top.op = "sent" => Top.r \in Known /\ Top.next \in Known
  BY <1>3, KnownBefore DEF Points
<1>5. Top.op = "scan" => Top.next \in Known
  BY <1>3, KnownBefore DEF Points
<1>6. None \in Known /\ base.first \in Known
  BY KnownBefore DEF Known, BaseRefs
<1>7. CASE Become(<<>>)
  <2>1. <<>> \in Frames /\ Calls(<<>>) = {}
    BY CallsOfNone
  <2>2. Top.op \notin Watched \cup Listing
    BY <1>2 DEF Watched, Listing
  <2>. QED BY <1>0, <1>1, <1>2, <1>7, <2>1, <2>2, QuietStep DEF Goes, Still
<1>8. ASSUME NEW f \in Frame, Become(<<f>>), f.op = "scan",
             f.r \in Known, f.next \in Known
      PROVE  SilenceInv'
  <2>1. <<f>> \in Frames /\ Calls(<<f>>) = {f}
    BY CallsOfOne
  <2>2. /\ Top.op \notin Watched \cup Listing
        /\ f.op \notin Watched \cup Listing \cup {"die"}
    BY <1>2, <1>8 DEF Watched, Listing
  <2>3. Points(f) \subseteq Known
    BY <1>8 DEF Points, Lists
  <2>. QED BY <1>0, <1>1, <1>2, <1>8, <2>1, <2>2, <2>3, QuietStep DEF Goes, Still
<1>9. CASE ScanStart
  <2>. DEFINE f == Call("scan", base.first)
  <2>1. f \in Frame
    BY CallType DEF TypeOK, BaseRecord, Ops, ObservedOps, RequestOps
  <2>2. f.op = "scan" /\ f.r = base.first /\ f.next = None
    BY DEF Call
  <2>3. Become(<<f>>) \/ Become(<<>>)
    BY <1>9 DEF ScanStart
  <2>. HIDE DEF f
  <2>. QED BY <1>6, <1>7, <1>8, <2>1, <2>2, <2>3
<1>10. CASE ScanSkip
  <2>1. PICK r \in Requests :
          Scanning(r) /\ Become(<<[Top EXCEPT !.r = req[r].next, !.prev = r]>>)
    BY <1>10 DEF ScanSkip
  <2>2. req[r].next \in MaybeRequest /\ r \in MaybeRequest /\ Running("scan")
    BY <2>1 DEF TypeOK, RequestRecord, MaybeRequest, Scanning
  <2>. DEFINE f == [Top EXCEPT !.r = req[r].next, !.prev = r]
  <2>3. f \in Frame
    BY <2>2, ScanFrameType
  <2>4. f.op = "scan" /\ f.r = req[r].next /\ f.next = Top.next
    BY <1>3, <2>1, ScanKnows DEF Frame
  <2>. HIDE DEF f
  <2>. QED BY <1>8, <2>1, <2>3, <2>4, ScanKnows DEF f
<1>11. CASE ScanSent
  <2>1. Running("sent") /\ Top.op = "sent"
    BY <1>11, RunningTop DEF ScanSent
  <2>2. /\ [Top EXCEPT !.op = "scan", !.r = None] \in Frame
        /\ [Top EXCEPT !.op = "scan", !.r = Top.next] \in Frame
    BY <1>3 DEF Frame, Ops, RequestOps, ObservedOps, MaybeRequest
  <2>3. \/ Become(<<[Top EXCEPT !.op = "scan", !.r = None]>>)
        \/ Become(<<[Top EXCEPT !.op = "scan", !.r = Top.next]>>)
    BY <1>11 DEF ScanSent
  <2>4. ASSUME NEW p \in {None, Top.next},
               Become(<<[Top EXCEPT !.op = "scan", !.r = p]>>)
        PROVE  SilenceInv'
    <3>. DEFINE f == [Top EXCEPT !.op = "scan", !.r = p]
    <3>1. f \in Frame
      BY <2>2
    <3>2. f.op = "scan" /\ f.r = p /\ f.next = Top.next
      BY <1>3 DEF Frame
    <3>. HIDE DEF f
    <3>. QED BY <1>4, <1>6, <1>8, <2>1, <2>4, <3>1, <3>2 DEF f
  <2>. QED BY <2>3, <2>4
<1>12. CASE ScanEnd
  BY <1>7, <1>12 DEF ScanEnd
<1>. QED BY <1>9, <1>10, <1>11, <1>12

\* The running call.
LEMMA TopKnows ==
  ASSUME TypeOK, SilenceInv, ~Idle
  PROVE  /\ Top \in Calls(stack) /\ Top \in Frame
         /\ Points(Top) \subseteq Known /\ ListOK(Top)
<1>1. Top \in Calls(stack) /\ Top \in Frame
  <2>1. stack \in Seq(Frame) /\ stack # <<>>
    BY DEF TypeOK, Idle
  <2>2. 1 \in DOMAIN stack /\ stack[1] = Top
    BY <2>1 DEF Top
  <2>. QED BY <2>2, TopType DEF Calls
<1>. QED BY <1>1, KnownBefore DEF SilenceInv, References

\* A request is sent.
LEMMA QuietScanSend ==
  ASSUME TypeOK, SilenceInv, ScanSend
  PROVE  SilenceInv'
<1>a. PICK r \in Requests :
       /\ Scanning(r)
       /\ LET q1 == NewSerialReq(UnlinkReq(req, r, Top.prev), r)
              q2 == [q1 EXCEPT ![r] = [@ EXCEPT !.scheduled = 0,
                                                !.state = "PENDING",
                                                !.tx = q1[r].sends]]
              b1 == NewSerialBase(req, UnlinkBase(req, base, r, Top.prev), r)
              b2 == [b1 EXCEPT !.pending = @ \cup {r}]
          IN  /\ req' = q2
              /\ base' = MoveOwnerQueue(q2, b2)
              /\ net' = [outstanding |-> net.outstanding \cup {<<r, q2[r].tx>>},
                         answers |-> net.answers \cup {<<r, q2[r].serial2>>}]
              /\ Become((IF MovesOwner(q2, b2) THEN Callback(None) ELSE <<>>)
                        \o <<[Top EXCEPT !.op = "sent", !.next = req[r].next,
                                         !.some = TRUE]>>)
  BY DEF ScanSend
<1>. DEFINE q0 == UnlinkReq(req, r, Top.prev)
            q1 == NewSerialReq(q0, r)
            v == [q1[r] EXCEPT !.scheduled = 0, !.state = "PENDING",
                               !.tx = q1[r].sends]
            q2 == [q1 EXCEPT ![r] = v]
            b0 == UnlinkBase(req, base, r, Top.prev)
            b1 == NewSerialBase(req, b0, r)
            b2 == [b1 EXCEPT !.pending = @ \cup {r}]
            f == [Top EXCEPT !.op = "sent", !.next = req[r].next, !.some = TRUE]
            c == IF MovesOwner(q2, b2) THEN Callback(None) ELSE <<>>
<1>0. req \in RequestMap /\ base \in BaseRecord /\ req[r].serial2 \in Nat
  BY DEF TypeOK, RequestMap, RequestRecord
<1>1. /\ ~Idle /\ Top \in Frame /\ Top.op = "scan" /\ Top.r = r
      /\ r \in Known /\ req[r].next \in Known /\ Top.prev \in MaybeRequest
  BY <1>a, ScanKnows, TopType
<1>2. /\ req' = q2 /\ base' = MoveOwnerQueue(q2, b2)
      /\ net' = [outstanding |-> net.outstanding \cup {<<r, q2[r].tx>>},
                 answers |-> net.answers \cup {<<r, q2[r].serial2>>}]
      /\ Become(c \o <<f>>)
  BY <1>a
<1>3. f \in Frame /\ f.op = "sent" /\ f.r = r /\ f.next = req[r].next
  <2>1. r # None /\ req[r].next \in MaybeRequest
    BY <1>0, ConstantsAssumption DEF RequestMap, RequestRecord
  <2>. QED BY <1>1, <2>1 DEF Frame, Ops, ObservedOps
<1>4. q0 \in RequestMap /\ q1 \in RequestMap /\ Alike(req, q1)
      /\ NextRefs(q1) \subseteq NextRefs(req) \cup {None}
      /\ \A x \in Requests : q1[x].state = req[x].state
  <2>1. /\ q0 \in RequestMap /\ Alike(req, q0)
        /\ NextRefs(q0) \subseteq NextRefs(req) \cup {None}
        /\ \A x \in Requests : q0[x].state = req[x].state
    BY <1>0, UnlinkReqType, UnlinkReqKeeps
  <2>. HIDE DEF q0
  <2>2. /\ q1 \in RequestMap /\ Alike(q0, q1) /\ NextRefs(q1) = NextRefs(q0)
        /\ \A x \in Requests : q1[x].state = q0[x].state
    BY <2>1, NewSerialReqType, NewSerialReqKeeps
  <2>3. Alike(req, q1)
    BY <2>1, <2>2, AlikeTrans
  <2>. QED BY <2>1, <2>2, <2>3
<1>5. /\ b1.active = IF req[r].serial2 # 0 THEN base.active \cup {r} ELSE base.active
      /\ b1.first \in {base.first, req[r].next}
      /\ b1 \in BaseRecord
  <2>1. /\ b0 \in BaseRecord /\ b0.active = base.active
        /\ b0.first \in {base.first, req[r].next}
    <3>1. b0 \in BaseRecord
      BY <1>0, <1>1, UnlinkBaseType
    <3>2. b0.active = base.active /\ b0.first \in {base.first, req[r].next}
      BY <1>0, UnlinkBaseKeeps
    <3>. QED BY <3>1, <3>2
  <2>. HIDE DEF b0
  <2>2. b1 \in BaseRecord
    BY <2>1, NewSerialBaseType
  <2>3. /\ b1.active = IF req[r].serial2 # 0 THEN b0.active \cup {r} ELSE b0.active
        /\ b1.first = b0.first
    BY <2>1, NewSerialBaseKeeps
  <2>. QED BY <2>1, <2>2, <2>3
<1>. HIDE DEF q0, q1, b1, f
<1>6. /\ Alike(req, q2) /\ NextRefs(q2) \subseteq Known
      /\ \A x \in Requests : x # r => q2[x].state = req[x].state
  <2>1. ASSUME NEW x \in Requests
        PROVE  /\ AlikeAt(req, q2, x) /\ q2[x].next = q1[x].next
               /\ x # r => q2[x].state = req[x].state
    <3>1. AlikeAt(req, q1, x) /\ q1[x].state = req[x].state
      BY <1>4 DEF Alike
    <3>2. CASE x # r
      <4>. HIDE DEF v
      <4>1. q2[x] = q1[x]
        BY <1>4, <3>2 DEF RequestMap
      <4>. HIDE DEF q2
      <4>. QED BY <3>1, <3>2, <4>1 DEF AlikeAt
    <3>3. CASE x = r
      <4>1. q2[x] = v
        BY <1>4, <3>3 DEF RequestMap
      <4>2. /\ v.complete = q1[x].complete /\ v.submitted = q1[x].submitted
            /\ v.dropped = q1[x].dropped /\ v.freed = q1[x].freed
            /\ v.calls = q1[x].calls /\ v.held = q1[x].held
            /\ v.registered = q1[x].registered /\ v.serial2 = q1[x].serial2
            /\ v.state = "PENDING" /\ v.next = q1[x].next
        BY <1>4, <3>3 DEF RequestMap, RequestRecord
      <4>. HIDE DEF q2, v
      <4>. QED BY <3>1, <3>3, <4>1, <4>2 DEF AlikeAt
    <3>. QED BY <3>2, <3>3
  <2>2. NextRefs(q2) = NextRefs(q1)
    BY <2>1 DEF NextRefs
  <2>3. Alike(req, q2)
    BY <2>1 DEF Alike
  <2>. QED BY <1>4, <2>1, <2>2, <2>3, KnownBefore DEF Known
<1>7. /\ b2 \in BaseRecord /\ b2.active = b1.active /\ b2.first = b1.first
  BY <1>5 DEF BaseRecord
<1>8. NetRefs(net') \subseteq Known
  <2>1. NetRefs(net') \subseteq NetRefs(net) \cup {r}
    BY <1>2 DEF NetRefs
  <2>. QED BY <1>1, <2>1, KnownBefore
<1>9. c \in Frames /\ Mute(c)
  BY CallbackType, MuteCalls, FramesType, CallsOf DEF MaybeRequest, Mute
<1>. HIDE DEF q2, b2, c
<1>10. base'.active = b1.active /\ base'.first = b1.first
  BY <1>2, <1>7, MoveOwnerQueueKeeps
<1>11. /\ base.active \subseteq base'.active /\ BaseRefs(base') \subseteq Known
       /\ req[r].serial2 = 0 \/ r \in base'.active
  BY <1>1, <1>5, <1>10, KnownBefore DEF BaseRefs
<1>12. c \o <<f>> \in Frames /\ Calls(c \o <<f>>) = Calls(c) \cup {f}
  <2>1. <<f>> \in Frames /\ Calls(<<f>>) = {f}
    BY <1>3, CallsOfOne
  <2>. QED BY <1>9, <2>1, CallsOfBoth
<1>13. ASSUME NEW h \in Calls(c \o <<f>>)
       PROVE  /\ h.op \notin Watched \cup Listing \cup {"die"}
              /\ Points(h) \subseteq Known
  <2>1. CASE h \in Calls(c)
    <3>1. h.op \in MuteOps
      BY <1>9, <2>1 DEF Mute
    <3>2. h.op \notin Watched \cup Listing \cup {"die", "scan", "sent"}
      BY <3>1 DEF MuteOps, Watched, Listing
    <3>. QED BY <3>2, PointsNowhere DEF Watched, Listing
  <2>2. CASE h = f
    BY <1>1, <1>3, <2>2 DEF Points, Lists, Watched, Listing
  <2>. QED BY <1>12, <2>1, <2>2
<1>14. \A x \in Requests :
         req'[x].state # req[x].state =>
           /\ x \in Known
           /\ \/ req[x].state \in Live \/ req[x].serial2 = 0
              \/ x \in base'.active
  BY <1>1, <1>2, <1>6, <1>11
<1>15. Top.op \notin Watched \cup Listing /\ Goes(c \o <<f>>)
  BY <1>1, <1>2 DEF Watched, Listing, Goes
<1>. QED BY <1>2, <1>6, <1>8, <1>11, <1>12, <1>13, <1>14, <1>15, QuietStep

-----------------------------------------------------------------------------
(***************************************************************************)
(* Retries.                                                                *)
(***************************************************************************)

\* A request that is known goes back to the queue, and stays active.
LEMMA Requeued ==
  ASSUME TypeOK, SilenceInv, NEW r \in Requests, r \in Known,
         req[r].state \in Live \/ r \in base.active,
         \A x \in Requests :
           /\ AlikeAt(QueueReq(CancelReq(req, r), base, r), req', x)
           /\ req'[x].next = QueueReq(CancelReq(req, r), base, r)[x].next
           /\ req'[x].state = QueueReq(CancelReq(req, r), base, r)[x].state,
         base' = [QueueBase(base, r) EXCEPT !.pending = @ \ {r}],
         NetRefs(net') \subseteq NetRefs(net),
         NEW op \in {"retried", "reset"}, NEW p \in {None, r},
         op = "retried" => p = r,
         Enter(<<Call("start", None), Call(op, p)>>)
  PROVE  SilenceInv'
<1>. DEFINE q == CancelReq(req, r)
            u == QueueReq(q, base, r)
            fs == <<Call("start", None), Call(op, p)>>
<1>0. req \in RequestMap /\ base \in BaseRecord
  BY DEF TypeOK, RequestMap
<1>1. /\ q \in RequestMap /\ Alike(req, q) /\ NextRefs(q) = NextRefs(req)
      /\ \A x \in Requests : q[x].state = req[x].state
  BY <1>0, CancelReqType, CancelReqKeeps
<1>. HIDE DEF q
<1>2. /\ Alike(q, u) /\ NextRefs(u) \subseteq NextRefs(q) \cup {r}
      /\ \A x \in Requests :
              u[x].state = IF x = r THEN "QUEUED" ELSE q[x].state
  BY <1>1, QueueReqKeeps
<1>3. \A x \in Requests : /\ AlikeAt(u, req', x)
                          /\ req'[x].next = u[x].next /\ req'[x].state = u[x].state
  BY DEF q
<1>. HIDE DEF u
<1>4. Alike(req, req')
  <2>1. Alike(u, req')
    BY <1>3 DEF Alike
  <2>. QED BY <1>1, <1>2, <2>1, AlikeTrans
<1>5. NextRefs(req') \subseteq Known
  <2>1. NextRefs(req') = NextRefs(u)
    BY <1>3 DEF NextRefs
  <2>. QED BY <1>1, <1>2, <2>1, KnownBefore
<1>6. \A x \in Requests : x # r => req'[x].state = req[x].state
  BY <1>1, <1>2, <1>3
<1>7. base'.active = base.active /\ base'.first \in {base.first, r}
  <2>1. /\ QueueBase(base, r) \in BaseRecord
        /\ QueueBase(base, r).active = base.active
        /\ QueueBase(base, r).first \in {base.first, r}
    BY <1>0, QueueBaseType, QueueBaseKeeps
  <2>. QED BY <2>1 DEF BaseRecord
<1>8. /\ BaseRefs(base') \subseteq Known /\ NetRefs(net') \subseteq Known
      /\ base.active \subseteq base'.active
  BY <1>7, KnownBefore DEF BaseRefs
<1>9. /\ Call("start", None) \in Frame /\ Call(op, p) \in Frame
      /\ Call("start", None).op = "start" /\ Call(op, p).op = op
  <2>1. /\ op \in Ops /\ p \in MaybeRequest /\ (op \in RequestOps => p # None)
        /\ op \notin ObservedOps
    BY ConstantsAssumption DEF Ops, RequestOps, ObservedOps, MaybeRequest
  <2>. QED BY <2>1, CallType, PlainFrames DEF Call
<1>10. fs \in Frames /\ Calls(fs) = {Call("start", None), Call(op, p)}
  BY <1>9, CallsOfTwo
<1>11. Enter(fs)
  OBVIOUS
<1>. HIDE DEF fs
<1>12. ASSUME NEW h \in Calls(fs)
       PROVE  /\ h.op \notin Watched \cup Listing \cup {"die"}
              /\ Points(h) \subseteq Known
  <2>1. h.op \in {"start", "retried", "reset"}
    BY <1>9, <1>10, <1>12
  <2>2. Points(h) = {}
    BY <2>1, PointsNowhere
  <2>. QED BY <2>1, <2>2 DEF Watched, Listing
<1>13. \A x \in Requests :
         req'[x].state # req[x].state =>
           /\ x \in Known
           /\ \/ req[x].state \in Live \/ req[x].serial2 = 0
              \/ x \in base'.active
  BY <1>6, <1>7
<1>. QED BY <1>4, <1>5, <1>8, <1>10, <1>11, <1>12, <1>13, QuietStep DEF Goes

\* The user or the retry function wants another attempt.
LEMMA QuietRetries ==
  ASSUME TypeOK, SilenceInv, RespondRetry \/ \E r \in Requests : Retry(r)
  PROVE  SilenceInv'
<1>0. req \in RequestMap /\ net \in NetRecord
  BY DEF TypeOK, RequestMap
<1>1. ASSUME NEW r \in Requests, Retry(r)
      PROVE  SilenceInv'
  <2>. DEFINE u == QueueReq(CancelReq(req, r), base, r)
  <2>1. u \in RequestMap
    BY <1>0, RequeueType
  <2>2. req' = [u EXCEPT ![r].retries = @ + 1]
    BY <1>1 DEF Retry
  <2>. HIDE DEF u
  <2>3. \A x \in Requests : /\ AlikeAt(u, req', x)
                            /\ req'[x].next = u[x].next /\ req'[x].state = u[x].state
    BY <2>1, <2>2 DEF AlikeAt, RequestMap, RequestRecord
  <2>4. /\ base' = [QueueBase(base, r) EXCEPT !.pending = @ \ {r}]
        /\ net' = CancelNet(req, r)
        /\ Enter(<<Call("start", None), Call("retried", r)>>)
        /\ req[r].state = "PENDING"
    BY <1>1 DEF Retry
  <2>5. NetRefs(net') \subseteq NetRefs(net)
    BY <1>0, <2>4, CancelNetKeeps
  <2>6. r \in Known /\ req[r].state \in Live
    BY <2>4, KnownBefore DEF Live
  <2>. QED BY <2>3, <2>4, <2>5, <2>6, Requeued DEF u
<1>2. CASE RespondRetry
  <2>a. PICK m \in net.answers :
         LET r == m[1]
             q == CancelReq(req, r)
         IN  /\ Found(m) /\ CanRetry(r)
             /\ req' = [QueueReq(q, base, r) EXCEPT
                          ![r] = [@ EXCEPT !.retries = q[r].retries + 1,
                                           !.scheduled = now + RetryDelay]]
             /\ base' = [QueueBase(base, r) EXCEPT !.pending = @ \ {r}]
             /\ net' = [CancelNet(req, r) EXCEPT !.answers = @ \ {m}]
    BY <1>2 DEF RespondRetry
  <2>. DEFINE r == m[1]
              n == CancelReq(req, r)[r].retries + 1
              u == QueueReq(CancelReq(req, r), base, r)
  <2>0. r \in Requests
    BY <1>0 DEF NetRecord, Transmissions
  <2>1. u \in RequestMap
    BY <1>0, <2>0, RequeueType
  <2>2. req' = [u EXCEPT ![r] = [@ EXCEPT !.retries = n,
                                          !.scheduled = now + RetryDelay]]
    BY <2>a
  <2>3. /\ base' = [QueueBase(base, r) EXCEPT !.pending = @ \ {r}]
        /\ net' = [CancelNet(req, r) EXCEPT !.answers = @ \ {m}]
        /\ r \in base.active
    BY <2>a DEF Found
  <2>4. Enter(<<Call("start", None), Call("reset", None)>>)
    BY <1>2 DEF RespondRetry
  <2>. HIDE DEF u, n, r
  <2>5. \A x \in Requests : /\ AlikeAt(u, req', x)
                            /\ req'[x].next = u[x].next /\ req'[x].state = u[x].state
    BY <2>0, <2>1, <2>2 DEF AlikeAt, RequestMap, RequestRecord
  <2>6. NetRefs(net') \subseteq NetRefs(net)
    <3>1. NetRefs(CancelNet(req, r)) \subseteq NetRefs(net)
      BY <1>0, CancelNetKeeps
    <3>2. net'.outstanding = CancelNet(req, r).outstanding
      BY <1>0, <2>3 DEF CancelNet, NetRecord
    <3>. QED BY <3>1, <3>2 DEF NetRefs
  <2>7. r \in Known
    BY <2>3, KnownBefore DEF BaseRefs
  <2>. QED BY <2>0, <2>3, <2>4, <2>5, <2>6, <2>7, Requeued DEF u
<1>. QED BY <1>1, <1>2

-----------------------------------------------------------------------------
(***************************************************************************)
(* Requests that fail.                                                     *)
(***************************************************************************)

\* The completion callback runs, if there is one.
LEMMA CompleteReqFields ==
  ASSUME NEW q \in RequestMap, NEW r \in Requests
  PROVE  LET u == CompleteReq(q, r)
         IN  /\ \A x \in Requests : x # r => u[x] = q[x]
             /\ ~u[r].complete
             /\ u[r].calls = IF q[r].complete THEN q[r].calls + 1 ELSE q[r].calls
             /\ u[r].submitted = q[r].submitted /\ u[r].dropped = q[r].dropped
             /\ u[r].freed = q[r].freed /\ u[r].held = q[r].held
             /\ u[r].registered = q[r].registered /\ u[r].serial2 = q[r].serial2
             /\ u[r].state = q[r].state /\ u[r].next = q[r].next
BY DEF CompleteReq, RequestMap, RequestRecord

\* fail_request
LEMMA FailReqFields ==
  ASSUME NEW q \in RequestMap, NEW r \in Requests
  PROVE  LET u == FailReq(q, r)
         IN  /\ \A x \in Requests : x # r => u[x] = q[x]
             /\ ~u[r].complete
             /\ u[r].calls = IF q[r].complete THEN q[r].calls + 1 ELSE q[r].calls
             /\ u[r].submitted = q[r].submitted /\ u[r].dropped = q[r].dropped
             /\ u[r].freed = q[r].freed /\ u[r].held = q[r].held
             /\ u[r].registered = q[r].registered /\ u[r].serial2 = q[r].serial2
             /\ u[r].state = "FAILED" /\ u[r].next = q[r].next
<1>. DEFINE p == [q EXCEPT ![r].state = "FAILED"]
<1>1. p \in RequestMap
  BY StateType DEF States
<1>2. /\ \A x \in Requests : x # r => p[x] = q[x]
      /\ p[r].complete = q[r].complete /\ p[r].calls = q[r].calls
      /\ p[r].submitted = q[r].submitted /\ p[r].dropped = q[r].dropped
      /\ p[r].freed = q[r].freed /\ p[r].held = q[r].held
      /\ p[r].registered = q[r].registered /\ p[r].serial2 = q[r].serial2
      /\ p[r].state = "FAILED" /\ p[r].next = q[r].next
  BY DEF RequestMap, RequestRecord
<1>3. FailReq(q, r) = CompleteReq(p, r)
  BY DEF FailReq
<1>. HIDE DEF p
<1>. QED BY <1>1, <1>2, <1>3, CompleteReqFields

\* What a failure calls.
LEMMA FailCallsOf ==
  ASSUME NEW q \in RequestMap, NEW r \in Requests
  PROVE  /\ FailCalls(q, r) \in Frames
         /\ Call("drop", r) \in Calls(FailCalls(q, r))
         /\ Call("drop", r).op = "drop" /\ Call("drop", r).r = r
         /\ \A f \in Calls(FailCalls(q, r)) :
              f = Call("drop", r) \/ f.op = "callback"
<1>1. Call("drop", r) \in Frame
  BY RequestCallType DEF Ops, ObservedOps
<1>2. /\ CompleteCalls(q, r) \in Frames /\ FailCalls(q, r) \in Frames
      /\ <<Call("drop", r)>> \in Frames
  BY <1>1, FailCallsType, FramesType
<1>3. Calls(FailCalls(q, r)) =
        Calls(CompleteCalls(q, r)) \cup Calls(<<Call("drop", r)>>)
  BY <1>2, CallsOf DEF FailCalls
<1>4. Calls(<<Call("drop", r)>>) = {Call("drop", r)}
  BY CallsOf
<1>5. \A f \in Calls(CompleteCalls(q, r)) : f.op = "callback"
  BY CallsOf DEF CompleteCalls, Callback, Call
<1>6. Call("drop", r).op = "drop" /\ Call("drop", r).r = r
  BY DEF Call
<1>. QED BY <1>2, <1>3, <1>4, <1>5, <1>6

\* A request that was handed over fails: its callback runs, then it leaves
\* the tables.
LEMMA FailStep ==
  ASSUME TypeOK, CompletionInv, SilenceInv,
         NEW q \in RequestMap, Still(req, q), NEW r \in Requests, Seen(req, r),
         req' = FailReq(q, r),
         NEW fs \in Frames, Goes(fs), Enter(fs) \/ Top.op \notin Watched,
         Call("drop", r) \in Calls(fs),
         \A f \in Calls(fs) : /\ f = Call("drop", r) \/ f.op \notin Watched \cup {"die"}
                              /\ Points(f) \subseteq Known /\ ListOK(f),
         \A x \in Requests \ {r} :
           Listed(Calls(stack'), x) <=> Listed(Calls(stack), x),
         Listed(Calls(stack'), r) => Listed(Calls(stack), r),
         base.active \subseteq base'.active,
         BaseRefs(base') \subseteq Known, NetRefs(net') \subseteq Known,
         Withheld(Calls(stack), r) /\ q[r].registered => q[r].serial2 # 0
  PROVE  SilenceInv'
<1>. DEFINE S == Calls(stack)
            T == Calls(stack')
            d == Call("drop", r)
<1>0. /\ \A x \in Requests : x # r => req'[x] = q[x]
      /\ ~req'[r].complete
      /\ req'[r].calls = IF q[r].complete THEN q[r].calls + 1 ELSE q[r].calls
      /\ req'[r].submitted = q[r].submitted /\ req'[r].dropped = q[r].dropped
      /\ req'[r].freed = q[r].freed /\ req'[r].held = q[r].held
      /\ req'[r].registered = q[r].registered /\ req'[r].serial2 = q[r].serial2
      /\ req'[r].state = "FAILED" /\ req'[r].next = q[r].next
  BY FailReqFields
<1>1. \A x \in Requests : AlikeAt(req, q, x) /\ q[x].state = req[x].state
  BY DEF Still, Alike
<1>2. d.op = "drop" /\ d.r = r
  BY DEF Call
<1>. HIDE DEF d
<1>3. \A f \in Calls(fs) : f.op \in Watched => f = d
  BY DEF d
<1>4. ASSUME NEW x \in Requests \ {r}
      PROVE  KeptAt(x)
  <2>1. AlikeAt(req, req', x) /\ req'[x].state = req[x].state
    BY <1>0, <1>1 DEF AlikeAt
  <2>2. CallsAt(S, T, x)
    BY <1>2, <1>3, CallsGoAt
  <2>3. req[x].state \in Terminal => req[x].state \notin Live
    BY DEF Terminal
  <2>4. TrackedAt(x)
    BY <2>1, <2>3 DEF TrackedAt
  <2>. QED BY <2>1, <2>2, <2>4 DEF KeptAt
<1>5. ASSUME NEW f, f.op \in {"submitted", "finish", "done"}
      PROVE  f \in S <=> f \in T
  <2>1. f \notin Calls(fs)
    BY <1>2, <1>3, <1>5 DEF Watched
  <2>2. Enter(fs) \/ f # Top
    BY <1>5 DEF Watched
  <2>. QED BY <2>1, <2>2, CallsGo
<1>6. /\ Withheld(T, r) => Withheld(S, r)
      /\ Finishing(T, r) => Finishing(S, r)
  BY <1>5 DEF Withheld, Withholds, Finishing
<1>7. Account(req, S, r) /\ Track(req, base, S, r)
  BY DEF SilenceInv, Accounts, Tracks
<1>8. Account(req', T, r)
  <2>1. req[r].complete => req[r].calls = 0
    BY DEF CompletionInv, CallbackUnused
  <2>2. q[r].complete = req[r].complete /\ q[r].calls = req[r].calls
        /\ q[r].submitted = req[r].submitted /\ q[r].dropped = req[r].dropped
        /\ q[r].freed = req[r].freed /\ q[r].held = req[r].held
    BY <1>1 DEF AlikeAt
  <2>3. Heard(req, r) /\ Unheld(req, S, r)
    BY <1>7 DEF Account
  <2>4. Heard(req', r)
    BY <1>0, <2>1, <2>2, <2>3 DEF Heard
  <2>5. Unheld(req', T, r)
    BY <1>0, <1>6, <2>2, <2>3 DEF Unheld
  <2>6. /\ Fresh(req', r) /\ FreedHeard(req', r) /\ EndedHeard(req', T, r)
        /\ CancelledHeard(req', r) /\ DropsHeard(req', T, r)
    BY <1>0 DEF Fresh, FreedHeard, EndedHeard, CancelledHeard, DropsHeard
  <2>. QED BY <2>4, <2>5, <2>6 DEF Account
<1>9. Track(req', base', T, r)
  <2>1. Unlisted(S, r)
    BY <1>7 DEF Track
  <2>2. Tracked(req', base', T, r) /\ Activated(req', base', T, r)
    BY <1>0 DEF Tracked, Activated, Live
  <2>3. Resendable(req', T, r)
    BY <1>0, <1>6 DEF Resendable, Whole
  <2>4. Unlisted(T, r)
    BY <1>6, <2>1 DEF Unlisted
  <2>. QED BY <2>2, <2>3, <2>4 DEF Track
<1>10. Held(req', T)
  <2>1. \A f \in Calls(fs) : f.op # "submitted"
    BY <1>2, <1>3 DEF Watched
  <2>2. \A x \in Requests : /\ req'[x].held = req[x].held
                            /\ req[x].dropped => req'[x].dropped
    BY <1>0, <1>1 DEF AlikeAt
  <2>. QED BY <2>1, <2>2, HeldGo
<1>11. Ordered'
  <2>1. \A f \in Calls(fs) : f.op \notin {"submitted", "die"}
    BY <1>2, <1>3 DEF Watched, d
  <2>. QED BY <2>1, OrderKept
<1>12. RefersKept
  <2>1. /\ CallRefs(Calls(stack')) \subseteq Known
        /\ \A f \in Calls(stack') : ListOK(f) \/ f \in Calls(stack)
    BY KnownCalls
  <2>2. NextRefs(req') \subseteq Known
    <3>1. \A x \in Requests : req'[x].next = q[x].next
      BY <1>0
    <3>2. NextRefs(req') = NextRefs(q)
      BY <3>1 DEF NextRefs
    <3>. QED BY <3>2, KnownBefore DEF Still, Known
  <2>3. r \in Known
    BY <1>0, <1>1 DEF Known, Seen, AlikeAt
  <2>4. \A x \in Requests : req'[x].state \notin {"NEW", "CANCELLED"} => x \in Known
    BY <1>0, <1>1, <2>3, KnownBefore
  <2>. QED BY <2>1, <2>2, <2>4 DEF RefersKept
<1>13. Seen(req, r) => Seen(req', r)
  BY <1>0 DEF Seen
<1>. QED BY <1>4, <1>8, <1>9, <1>10, <1>11, <1>12, <1>13, OneStep

\* Whoever is referred to was handed over.
LEMMA ReferredSeen ==
  ASSUME SilenceInv, NEW r \in Requests,
         \/ r \in NetRefs(net)
         \/ \E f \in Calls(stack) : r \in Points(f)
  PROVE  Seen(req, r)
BY DEF SilenceInv, References, Referred, CallRefs

\* A binder transaction ends, or fails.
LEMMA QuietSent ==
  ASSUME TypeOK, CompletionInv, SilenceInv, Sent
  PROVE  SilenceInv'
<1>a. PICK t \in net.outstanding :
        LET q == [req EXCEPT ![t[1]].tx = 0]
        IN  \/ /\ req' = q
               /\ net' = [net EXCEPT !.outstanding = @ \ {t}]
               /\ UNCHANGED stack
            \/ /\ req' = FailReq(q, t[1])
               /\ net' = [outstanding |-> net.outstanding \ {t},
                          answers |-> net.answers \ {t}]
               /\ Enter(FailCalls(q, t[1]))
  BY DEF Sent
<1>. DEFINE r == t[1]
            q == [req EXCEPT ![r].tx = 0]
<1>0. req \in RequestMap /\ net \in NetRecord
  BY DEF TypeOK, RequestMap
<1>1. r \in Requests /\ r \in NetRefs(net)
  BY <1>0 DEF NetRecord, Transmissions, NetRefs
<1>2. UNCHANGED base /\ Idle
  BY DEF Sent, EventTurn
<1>. HIDE DEF r
<1>3. q \in RequestMap
  BY <1>0, <1>1, FieldType
<1>4. Still(req, q)
  <2>1. ASSUME NEW x \in Requests
        PROVE  /\ AlikeAt(req, q, x)
               /\ q[x].next = req[x].next /\ q[x].state = req[x].state
    BY <1>0, <1>1 DEF AlikeAt, RequestMap, RequestRecord
  <2>. HIDE DEF q
  <2>. QED BY <2>1 DEF Still, Alike, NextRefs
<1>5. CASE /\ req' = q
           /\ net' = [net EXCEPT !.outstanding = @ \ {t}]
           /\ UNCHANGED stack
  <2>1. NetRefs(net') \subseteq NetRefs(net)
    BY <1>0, <1>5 DEF NetRefs, NetRecord
  <2>. QED BY <1>2, <1>4, <1>5, <2>1, StillNoCalls
<1>6. CASE /\ req' = FailReq(q, r)
           /\ net' = [outstanding |-> net.outstanding \ {t},
                      answers |-> net.answers \ {t}]
           /\ Enter(FailCalls(q, r))
  <2>. DEFINE fs == FailCalls(q, r)
  <2>1. NetRefs(net') \subseteq Known
    BY <1>6, KnownBefore DEF NetRefs
  <2>2. /\ BaseRefs(base') \subseteq Known /\ base.active \subseteq base'.active
    BY <1>2, KnownBefore
  <2>3. Calls(stack) = {}
    BY <1>2, CallsOf DEF Idle
  <2>4. ~Withheld(Calls(stack), r)
    BY <2>3 DEF Withheld
  <2>. HIDE DEF q
  <2>5. /\ fs \in Frames /\ Call("drop", r) \in Calls(fs)
        /\ Call("drop", r).op = "drop"
        /\ \A f \in Calls(fs) : f = Call("drop", r) \/ f.op = "callback"
    BY <1>1, <1>3, FailCallsOf
  <2>6. Enter(fs) /\ req' = FailReq(q, r)
    BY <1>6
  <2>. HIDE DEF fs
  <2>7. \A f \in Calls(fs) :
          /\ f = Call("drop", r) \/ f.op \notin Watched \cup {"die"}
          /\ Points(f) \subseteq Known /\ ListOK(f) /\ ~Lists(f)
    BY <2>5, PointsNowhere DEF Watched, Lists
  <2>8. \A x \in Requests : Listed(Calls(stack'), x) <=> Listed(Calls(stack), x)
    BY <2>5, <2>6, <2>7, ListedGo DEF Goes
  <2>9. Seen(req, r)
    BY <1>1, ReferredSeen
  <2>. QED BY <1>1, <1>3, <1>4, <2>1, <2>2, <2>4, <2>5, <2>6, <2>7, <2>8, <2>9,
              FailStep DEF Goes
<1>. QED BY <1>a, <1>5, <1>6 DEF r

\* send_request fails.
LEMMA QuietScanFail ==
  ASSUME TypeOK, CompletionInv, SilenceInv, ScanFail
  PROVE  SilenceInv'
<1>a. PICK r \in Requests :
        /\ Scanning(r)
        /\ LET q == NewSerialReq(UnlinkReq(req, r, Top.prev), r)
           IN  /\ req' = FailReq(q, r)
               /\ Become(FailCalls(q, r)
                         \o <<[Top EXCEPT !.r = req[r].next]>>)
        /\ base' = NewSerialBase(req, UnlinkBase(req, base, r, Top.prev), r)
  BY DEF ScanFail
<1>. DEFINE q0 == UnlinkReq(req, r, Top.prev)
            q == NewSerialReq(q0, r)
            b0 == UnlinkBase(req, base, r, Top.prev)
            f == [Top EXCEPT !.r = req[r].next]
            cs == FailCalls(q, r)
            fs == cs \o <<f>>
<1>0. /\ req \in RequestMap /\ base \in BaseRecord /\ UNCHANGED net
      /\ Running("scan") /\ r \in MaybeRequest
  BY <1>a DEF TypeOK, RequestMap, ScanFail, Scanning, MaybeRequest
<1>1. /\ ~Idle /\ Top \in Frame /\ Top.op = "scan" /\ Top.r = r
      /\ Top \in Calls(stack) /\ r \in Points(Top) /\ Top.next \in Known
      /\ r \in Known /\ req[r].next \in Known /\ Top.prev \in MaybeRequest
  BY <1>a, ScanKnows, TopType
<1>2. /\ req' = FailReq(q, r) /\ Become(fs)
      /\ base' = NewSerialBase(req, b0, r)
  BY <1>a
<1>3. f \in Frame /\ f.op = "scan" /\ f.r = req[r].next /\ f.next = Top.next
  <2>1. req[r].next \in MaybeRequest
    BY <1>0 DEF RequestMap, RequestRecord
  <2>. QED BY <1>0, <1>1, <2>1, ScanFrameType DEF Frame
<1>4. /\ q \in RequestMap /\ Still(req, q)
      /\ q[r].registered => q[r].serial2 # 0
  <2>1. /\ q0 \in RequestMap /\ Alike(req, q0)
        /\ NextRefs(q0) \subseteq NextRefs(req) \cup {None}
        /\ \A x \in Requests : q0[x].state = req[x].state
    BY <1>0, UnlinkReqType, UnlinkReqKeeps
  <2>. HIDE DEF q0
  <2>2. /\ q \in RequestMap /\ Alike(q0, q) /\ NextRefs(q) = NextRefs(q0)
        /\ \A x \in Requests : q[x].state = q0[x].state
        /\ q[r].registered => q[r].serial2 # 0
    BY <2>1, NewSerialReqType, NewSerialReqKeeps
  <2>3. Alike(req, q)
    BY <2>1, <2>2, AlikeTrans
  <2>. HIDE DEF q
  <2>4. NextRefs(q) \subseteq NextRefs(req) \cup {None}
    BY <2>1, <2>2
  <2>5. \A x \in Requests : q[x].state = req[x].state
    BY <2>1, <2>2
  <2>6. Still(req, q)
    BY <2>3, <2>4, <2>5 DEF Still
  <2>. QED BY <2>2, <2>6
<1>5. /\ base.active \subseteq base'.active /\ BaseRefs(base') \subseteq Known
  <2>0. /\ b0 \in BaseRecord /\ b0.active = base.active
        /\ b0.first \in {base.first, req[r].next}
    <3>1. b0 \in BaseRecord
      BY <1>0, <1>1, UnlinkBaseType
    <3>2. b0.active = base.active /\ b0.first \in {base.first, req[r].next}
      BY <1>0, UnlinkBaseKeeps
    <3>. QED BY <3>1, <3>2
  <2>. HIDE DEF b0
  <2>1. /\ base'.active = IF req[r].serial2 # 0 THEN b0.active \cup {r} ELSE b0.active
        /\ base'.first = b0.first
    <3>1. /\ NewSerialBase(req, b0, r).active =
               IF req[r].serial2 # 0 THEN b0.active \cup {r} ELSE b0.active
          /\ NewSerialBase(req, b0, r).first = b0.first
      BY <2>0, NewSerialBaseKeeps
    <3>. QED BY <1>2, <3>1
  <2>. QED BY <1>1, <2>0, <2>1, KnownBefore DEF BaseRefs
<1>. HIDE DEF q, f
<1>6. /\ cs \in Frames /\ Call("drop", r) \in Calls(cs)
      /\ Call("drop", r).op = "drop"
      /\ \A h \in Calls(cs) : h = Call("drop", r) \/ h.op = "callback"
  BY <1>4, FailCallsOf
<1>. HIDE DEF cs
<1>7. fs \in Frames /\ Calls(fs) = Calls(cs) \cup {f}
  <2>1. <<f>> \in Frames /\ Calls(<<f>>) = {f}
    BY <1>3, CallsOfOne
  <2>. QED BY <1>6, <2>1, CallsOfBoth
<1>. HIDE DEF fs
<1>8. ASSUME NEW h \in Calls(fs)
      PROVE  /\ h = Call("drop", r) \/ h.op \notin Watched \cup {"die"}
             /\ Points(h) \subseteq Known /\ ListOK(h) /\ ~Lists(h)
  <2>1. CASE h = f
    BY <1>1, <1>3, <2>1 DEF Points, ListOK, Lists, Watched
  <2>2. CASE h # f
    BY <1>6, <1>7, <2>2, PointsNowhere DEF Watched, Lists
  <2>. QED BY <2>1, <2>2
<1>9. Goes(fs) /\ Top.op \notin Watched /\ ~Lists(Top)
  BY <1>1, <1>2 DEF Goes, Watched, Lists
<1>10. \A x \in Requests : Listed(Calls(stack'), x) <=> Listed(Calls(stack), x)
  BY <1>7, <1>8, <1>9, ListedGo
<1>11. Seen(req, r) /\ NetRefs(net') \subseteq Known
  BY <1>0, <1>1, ReferredSeen, KnownBefore
<1>12. Call("drop", r) \in Calls(fs)
  BY <1>6, <1>7
<1>. QED BY <1>2, <1>4, <1>5, <1>7, <1>8, <1>9, <1>10, <1>11, <1>12, FailStep

\* A request in the list fails, or the list is empty.
LEMMA QuietFailNext ==
  ASSUME TypeOK, CompletionInv, SilenceInv, FailNext
  PROVE  SilenceInv'
<1>1. /\ ~Idle /\ Top.op = "fail" /\ UNCHANGED <<base, net>>
      /\ req \in RequestMap
  BY RunningTop DEF FailNext, TypeOK, RequestMap
<1>2. /\ Top \in Calls(stack) /\ Top \in Frame
      /\ Points(Top) = Top.refs \cup {} /\ Top.refs = Top.todo
      /\ Top.refs \subseteq Known /\ Lists(Top)
  <2>1. Points(Top) \subseteq Known /\ ListOK(Top)
    BY <1>1, TopKnows
  <2>. QED BY <1>1, <2>1, TopKnows DEF Points, ListOK, Lists
<1>3. /\ BaseRefs(base') \subseteq Known /\ NetRefs(net') \subseteq Known
      /\ base.active \subseteq base'.active
  BY <1>1, KnownBefore
<1>4. ASSUME NEW r \in Top.todo,
             req' = FailReq(req, r),
             Become(FailCalls(req, r) \o <<ListCall("fail", Top.todo \ {r})>>)
      PROVE  SilenceInv'
  <2>. DEFINE f == ListCall("fail", Top.todo \ {r})
              cs == FailCalls(req, r)
              fs == cs \o <<f>>
  <2>0. r \in Requests /\ Top.todo \ {r} \in SUBSET Requests
    BY <1>1, TopType
  <2>1. f \in Frame
    BY <2>0, ListCallType
  <2>2. f.op = "fail" /\ f.todo = Top.todo \ {r} /\ f.refs = Top.todo \ {r}
    BY DEF ListCall, Call
  <2>. HIDE DEF f
  <2>3. /\ cs \in Frames /\ Call("drop", r) \in Calls(cs)
        /\ Call("drop", r).op = "drop"
        /\ \A h \in Calls(cs) : h = Call("drop", r) \/ h.op = "callback"
    BY <1>1, <2>0, FailCallsOf
  <2>. HIDE DEF cs
  <2>4. fs \in Frames /\ Calls(fs) = Calls(cs) \cup {f}
    <3>1. <<f>> \in Frames /\ Calls(<<f>>) = {f}
      BY <2>1, CallsOfOne
    <3>. QED BY <2>3, <3>1, CallsOfBoth
  <2>5. Become(fs)
    BY <1>4 DEF cs, f
  <2>. HIDE DEF fs
  <2>6. ASSUME NEW h \in Calls(fs)
        PROVE  /\ h = Call("drop", r) \/ h.op \notin Watched \cup {"die"}
               /\ Points(h) \subseteq Known /\ ListOK(h)
               /\ Lists(h) => h = f
    <3>1. CASE h = f
      BY <1>2, <2>2, <3>1 DEF Points, ListOK, Lists, Watched
    <3>2. CASE h # f
      BY <2>3, <2>4, <3>2, PointsNowhere DEF Watched, Lists
    <3>. QED BY <3>1, <3>2
  <2>7. Goes(fs) /\ Top.op \notin Watched
    BY <1>1, <2>5 DEF Goes, Watched
  <2>8. /\ Calls(stack') \subseteq Calls(fs) \cup Calls(stack)
        /\ Calls(stack) \subseteq Calls(stack') \cup {Top}
        /\ f \in Calls(stack') /\ Lists(f)
    BY <2>2, <2>4, <2>7, CallsGo DEF Lists
  <2>9. ASSUME NEW x \in Requests
        PROVE  /\ Listed(Calls(stack'), x) => Listed(Calls(stack), x)
               /\ x # r /\ Listed(Calls(stack), x) => Listed(Calls(stack'), x)
    <3>1. ASSUME NEW h \in Calls(stack'), Lists(h), x \in h.refs
          PROVE  Listed(Calls(stack), x)
      <4>1. CASE h = f
        BY <1>2, <2>2, <3>1, <4>1 DEF Listed
      <4>2. CASE h # f
        BY <2>6, <2>8, <3>1, <4>2 DEF Listed
      <4>. QED BY <4>1, <4>2
    <3>2. ASSUME NEW h \in Calls(stack), Lists(h), x \in h.refs, x # r
          PROVE  Listed(Calls(stack'), x)
      <4>1. CASE h = Top
        BY <1>2, <2>2, <2>8, <3>2, <4>1 DEF Listed
      <4>2. CASE h # Top
        BY <2>8, <3>2, <4>2 DEF Listed
      <4>. QED BY <4>1, <4>2
    <3>. QED BY <3>1, <3>2 DEF Listed
  <2>10. /\ \A x \in Requests \ {r} :
              Listed(Calls(stack'), x) <=> Listed(Calls(stack), x)
         /\ Listed(Calls(stack'), r) => Listed(Calls(stack), r)
    BY <2>0, <2>9
  <2>11. Seen(req, r) /\ ~Withheld(Calls(stack), r)
    <3>1. r \in Points(Top) /\ Listed(Calls(stack), r)
      BY <1>2 DEF Listed
    <3>2. Unlisted(Calls(stack), r)
      BY <2>0 DEF SilenceInv, Tracks, Track
    <3>. QED BY <1>2, <2>0, <3>1, <3>2, ReferredSeen DEF Unlisted
  <2>12. Still(req, req)
    BY DEF Still, Alike, AlikeAt
  <2>13. Call("drop", r) \in Calls(fs)
    BY <2>3, <2>4
  <2>. QED BY <1>1, <1>3, <1>4, <2>0, <2>4, <2>6, <2>7, <2>10, <2>11, <2>12,
              <2>13, FailStep
<1>5. CASE Top.todo = {} /\ Become(<<>>) /\ UNCHANGED req
  <2>1. /\ <<>> \in Frames /\ Calls(<<>>) = {} /\ Goes(<<>>)
        /\ Top.op \notin Watched
    BY <1>1, <1>5, CallsOfNone DEF Goes, Watched
  <2>2. ASSUME NEW x \in Requests
        PROVE  TrackedAt(x)
    <3>1. Listed(Calls(stack'), x) <=> Listed(Calls(stack), x)
      BY <1>2, <1>5, <2>1, ListedGo
    <3>2. req[x].state \in Terminal => req[x].state \notin Live
      BY DEF Terminal
    <3>. QED BY <1>1, <1>5, <3>1, <3>2 DEF TrackedAt
  <2>3. Alike(req, req') /\ NextRefs(req') \subseteq Known
    BY <1>5, KnownBefore DEF Alike, AlikeAt
  <2>. QED BY <1>3, <1>5, <2>1, <2>2, <2>3, SweepStep
<1>. QED BY <1>4, <1>5 DEF FailNext

-----------------------------------------------------------------------------
(***************************************************************************)
(* Requests that leave the tables together.                                *)
(***************************************************************************)

\* No call is in progress between events.
LEMMA IdleCalls ==
  ASSUME Idle
  PROVE  Calls(stack) = {}
BY CallsOf DEF Idle

\* The timer fires.
LEMMA QuietTimeout ==
  ASSUME TypeOK, SilenceInv, Timeout
  PROVE  SilenceInv'
<1>. DEFINE expired == {r \in base.active : req[r].deadline <= now}
            f == ListCall("expire", expired)
            fs == <<f, Call("start", None), Call("reset", None)>>
<1>1. /\ Idle /\ UNCHANGED <<req, net>> /\ Enter(fs)
      /\ base' = [base EXCEPT !.timer = 0, !.active = @ \ expired]
  BY DEF Timeout, EventTurn
<1>2. base'.active = base.active \ expired /\ base'.first = base.first
  BY <1>1 DEF TypeOK, BaseRecord
<1>3. expired \in SUBSET Requests /\ expired \subseteq base.active
  BY DEF TypeOK, BaseRecord
<1>. HIDE DEF expired
<1>4. /\ f \in Frame /\ f.op = "expire" /\ f.todo = expired /\ f.refs = expired
      /\ Call("start", None) \in Frame /\ Call("start", None).op = "start"
      /\ Call("reset", None) \in Frame /\ Call("reset", None).op = "reset"
  BY <1>3, ListCallType, PlainFrames DEF ListCall, Call
<1>. HIDE DEF f
<1>5. fs \in Frames /\ Calls(fs) = {f, Call("start", None), Call("reset", None)}
  <2>1. fs \in Frames
    BY <1>4, FramesType
  <2>2. Calls(fs) = {f, Call("start", None), Call("reset", None)}
    BY CallsOf
  <2>. QED BY <2>1, <2>2
<1>. HIDE DEF fs
<1>6. Calls(stack) = {} /\ Calls(fs) \subseteq Calls(stack')
  BY <1>1, <1>5, IdleCalls, CallsGo DEF Goes
<1>7. ASSUME NEW x \in Requests
      PROVE  TrackedAt(x)
  <2>1. ~Listed(Calls(stack), x) /\ ~Withheld(Calls(stack), x)
    BY <1>6 DEF Listed, Withheld
  <2>2. x \in expired => Listed(Calls(stack'), x)
    BY <1>4, <1>5, <1>6 DEF Listed, Lists
  <2>. QED BY <1>2, <2>1, <2>2 DEF TrackedAt
<1>8. ASSUME NEW h \in Calls(fs)
      PROVE  /\ h.op \notin Watched \cup {"die"}
             /\ Points(h) \subseteq Known /\ ListOK(h)
  <2>1. CASE h = f
    <3>1. expired \subseteq Known
      BY <1>3, KnownBefore DEF BaseRefs
    <3>. QED BY <1>4, <2>1, <3>1 DEF Points, ListOK, Lists, Watched
  <2>2. CASE h.op \in {"start", "reset"}
    BY <2>2, PointsNowhere DEF Watched
  <2>. QED BY <1>4, <1>5, <2>1, <2>2
<1>9. /\ Alike(req, req') /\ NextRefs(req') \subseteq Known
      /\ \A x \in Requests : req'[x].state = req[x].state
      /\ BaseRefs(base') \subseteq Known /\ NetRefs(net') \subseteq Known
  BY <1>1, <1>2, KnownBefore DEF Alike, AlikeAt, BaseRefs
<1>. QED BY <1>1, <1>5, <1>7, <1>8, <1>9, SweepStep DEF Goes

\* An expired request leaves the queue; then the requests fail.
LEMMA QuietExpire ==
  ASSUME TypeOK, SilenceInv, Expire
  PROVE  SilenceInv'
<1>1. /\ ~Idle /\ Top.op = "expire" /\ UNCHANGED net
      /\ req \in RequestMap /\ base \in BaseRecord
  BY RunningTop DEF Expire, TypeOK, RequestMap
<1>2. /\ Top \in Calls(stack) /\ Top \in Frame /\ Lists(Top)
      /\ Top.refs \subseteq Known /\ Top.todo \subseteq Top.refs
      /\ Top.refs \in SUBSET Requests
  <2>1. Points(Top) \subseteq Known /\ ListOK(Top)
    BY <1>1, TopKnows
  <2>. QED BY <1>1, <2>1, TopKnows, TopType DEF Points, ListOK, Lists
<1>3. ASSUME NEW f \in Frame, f.op \in Listing, ListOK(f), f.refs = Top.refs,
             Become(<<f>>), Still(req, req'),
             base'.active = base.active
               \/ \E r \in Top.todo : base'.active = base.active \ {r},
             BaseRefs(base') \subseteq Known
      PROVE  SilenceInv'
  <2>1. <<f>> \in Frames /\ Calls(<<f>>) = {f} /\ Goes(<<f>>)
    BY <1>1, <1>3, CallsOfOne DEF Goes
  <2>2. /\ Calls(stack') \subseteq {f} \cup Calls(stack)
        /\ f \in Calls(stack')
        /\ Calls(stack) \subseteq Calls(stack') \cup {Top}
    BY <2>1, CallsGo
  <2>3. Lists(f)
    BY <1>3 DEF Lists, Listing
  <2>4. ASSUME NEW x \in Requests
        PROVE  TrackedAt(x)
    <3>1. Listed(Calls(stack'), x) <=> Listed(Calls(stack), x)
      BY <1>2, <1>3, <2>2, <2>3 DEF Listed
    <3>2. x \in Top.todo => Listed(Calls(stack), x)
      BY <1>2 DEF Listed
    <3>3. Listed(Calls(stack), x) => ~Withheld(Calls(stack), x)
      BY DEF SilenceInv, Tracks, Track, Unlisted
    <3>4. req'[x].state = req[x].state
      BY <1>3 DEF Still
    <3>5. req[x].state \in Terminal => req[x].state \notin Live
      BY DEF Terminal
    <3>6. x \in base.active => x \in base'.active \/ x \in Top.todo
      BY <1>3
    <3>. QED BY <3>1, <3>2, <3>3, <3>4, <3>5, <3>6 DEF TrackedAt
  <2>5. /\ f.op \notin Watched \cup {"die"} /\ Points(f) \subseteq Known
        /\ Top.op \notin Watched
    BY <1>1, <1>2, <1>3, <2>3 DEF Points, Watched, Listing
  <2>6. /\ Alike(req, req') /\ NextRefs(req') \subseteq Known
        /\ \A x \in Requests : req'[x].state = req[x].state
        /\ NetRefs(net') \subseteq Known
    BY <1>1, <1>3, KnownBefore DEF Still, Known
  <2>. QED BY <1>3, <2>1, <2>4, <2>5, <2>6, SweepStep
<1>4. ASSUME NEW r \in Top.todo,
             req' = DeactivateReq(req, base, r),
             base' = DeactivateBase(req, base, r),
             Become(<<[Top EXCEPT !.todo = @ \ {r}]>>)
      PROVE  SilenceInv'
  <2>. DEFINE f == [Top EXCEPT !.todo = @ \ {r}]
  <2>0. r \in Requests
    BY <1>2
  <2>1. /\ f \in Frame /\ f.op = "expire" /\ f.refs = Top.refs
        /\ f.todo = Top.todo \ {r}
    BY <1>1, <1>2, TodoType DEF Frame
  <2>2. Become(<<f>>)
    BY <1>4
  <2>. HIDE DEF f
  <2>3. ListOK(f) /\ f.op \in Listing
    BY <1>2, <2>1 DEF ListOK, Listing
  <2>4. Still(req, req')
    BY <1>1, <1>4, <2>0, DeactivateReqKeeps DEF Still
  <2>5. /\ base'.active = base.active \ {r}
        /\ base'.first \in {base.first, req[r].next}
    <3>1. /\ DeactivateBase(req, base, r).active = base.active \ {r}
          /\ DeactivateBase(req, base, r).first \in {base.first, req[r].next}
      BY <1>1, <2>0, DeactivateBaseKeeps
    <3>. QED BY <1>4, <3>1
  <2>6. BaseRefs(base') \subseteq Known
    <3>1. req[r].next \in Known
      BY <2>0, KnownBefore DEF NextRefs
    <3>. QED BY <2>5, <3>1, KnownBefore DEF BaseRefs
  <2>. QED BY <1>3, <2>1, <2>2, <2>3, <2>4, <2>5, <2>6
<1>5. CASE /\ Become(<<ListCall("fail", Top.refs)>>)
           /\ UNCHANGED <<req, base>>
  <2>. DEFINE f == ListCall("fail", Top.refs)
  <2>1. f \in Frame /\ f.op = "fail" /\ f.refs = Top.refs /\ f.todo = Top.refs
    BY <1>2, ListCallType DEF ListCall, Call
  <2>2. Become(<<f>>)
    BY <1>5
  <2>. HIDE DEF f
  <2>3. ListOK(f) /\ f.op \in Listing
    BY <2>1 DEF ListOK, Listing
  <2>. QED BY <1>3, <1>5, <2>1, <2>2, <2>3, StillSame, KnownBefore
<1>. QED BY <1>4, <1>5 DEF Expire

\* What radio_base_handle_death leaves.
LEMMA HandleDeathKeeps ==
  ASSUME TypeOK
  PROVE  /\ Alike(req, HandleDeathReq)
         /\ NextRefs(HandleDeathReq) \subseteq NextRefs(req) \cup {None}
         /\ \A x \in Requests :
              HandleDeathReq[x].state # req[x].state => x \in base.active
         /\ HandleDeathBase.active = {} /\ HandleDeathBase.first = None
<1>1. ASSUME NEW x \in Requests
      PROVE  /\ AlikeAt(req, HandleDeathReq, x)
             /\ HandleDeathReq[x].next \in {req[x].next, None}
             /\ HandleDeathReq[x].state # req[x].state => x \in base.active
  BY DEF HandleDeathReq, AlikeAt, TypeOK, RequestRecord
<1>2. HandleDeathBase.active = {} /\ HandleDeathBase.first = None
  BY DEF HandleDeathBase, TypeOK, BaseRecord
<1>. HIDE DEF HandleDeathReq
<1>. QED BY <1>1, <1>2 DEF Alike, NextRefs

\* The requests move from the table of active ones to a list.
LEMMA DeathStep ==
  ASSUME TypeOK, SilenceInv, NEW fs \in Frames, Goes(fs),
         Enter(fs) \/ Top.op = "die",
         \A f \in Calls(stack) : f.op = "die",
         ListCall("fail", base.active) \in Calls(fs),
         \A f \in Calls(fs) :
           f = ListCall("fail", base.active) \/ f.op = "callback",
         req' = HandleDeathReq, base' = HandleDeathBase,
         NetRefs(net') \subseteq NetRefs(net)
  PROVE  SilenceInv'
<1>. DEFINE l == ListCall("fail", base.active)
<1>1. l.op = "fail" /\ l.refs = base.active /\ l.todo = base.active
  BY DEF ListCall, Call
<1>. HIDE DEF l
<1>2. Calls(fs) \subseteq Calls(stack')
  BY CallsGo
<1>3. ASSUME NEW x \in Requests
      PROVE  TrackedAt(x)
  <2>1. ~Listed(Calls(stack), x) /\ ~Withheld(Calls(stack), x)
    BY DEF Listed, Withheld, Lists, Withholds
  <2>2. x \in base.active => Listed(Calls(stack'), x)
    BY <1>1, <1>2 DEF Listed, Lists, l
  <2>. QED BY <2>1, <2>2 DEF TrackedAt
<1>4. ASSUME NEW h \in Calls(fs)
      PROVE  /\ h.op \notin Watched \cup {"die"}
             /\ Points(h) \subseteq Known /\ ListOK(h)
  <2>1. CASE h = l
    <3>1. base.active \subseteq Known
      BY KnownBefore DEF BaseRefs
    <3>. QED BY <1>1, <2>1, <3>1 DEF Points, ListOK, Lists, Watched
  <2>2. CASE h.op = "callback"
    BY <2>2, PointsNowhere DEF Watched
  <2>. QED BY <2>1, <2>2 DEF l
<1>5. /\ Alike(req, req') /\ NextRefs(req') \subseteq Known
      /\ \A x \in Requests : req'[x].state # req[x].state => x \in Known
      /\ BaseRefs(base') \subseteq Known /\ NetRefs(net') \subseteq Known
  BY HandleDeathKeeps, KnownBefore DEF BaseRefs, Known
<1>6. Enter(fs) \/ Top.op \notin Watched
  BY DEF Watched
<1>. QED BY <1>3, <1>4, <1>5, <1>6, SweepStep

\* The service of a RadioClient dies.
LEMMA QuietDeath ==
  ASSUME TypeOK, SilenceInv, Death
  PROVE  SilenceInv'
<1>. DEFINE l == ListCall("fail", base.active)
            c == Callback(None)
            fs == <<l>> \o c
<1>1. /\ Idle /\ Enter(fs) /\ req' = HandleDeathReq /\ base' = HandleDeathBase
      /\ net' = [net EXCEPT !.answers = {}]
  BY DEF Death, EventTurn
<1>2. NetRefs(net') = NetRefs(net)
  BY <1>1 DEF NetRefs, TypeOK, NetRecord
<1>3. c \in Frames /\ \A f \in Calls(c) : f.op = "callback"
  BY CallbackType, CallsOf DEF Callback, Call, MaybeRequest
<1>4. l \in Frame
  BY ListCallType DEF TypeOK, BaseRecord
<1>. HIDE DEF c, l
<1>5. fs \in Frames /\ Calls(fs) = {l} \cup Calls(c)
  <2>1. <<l>> \in Frames /\ Calls(<<l>>) = {l}
    BY <1>4, CallsOfOne
  <2>. QED BY <1>3, <2>1, CallsOfBoth
<1>. HIDE DEF fs
<1>6. Calls(stack) = {}
  BY <1>1, IdleCalls
<1>. QED BY <1>1, <1>2, <1>3, <1>5, <1>6, DeathStep DEF Goes, l

\* The objects of a RadioConfig are gone: its users have been told.
LEMMA QuietHandleDeath ==
  ASSUME TypeOK, SilenceInv, HandleDeath
  PROVE  SilenceInv'
<1>. DEFINE l == ListCall("fail", base.active)
<1>1. /\ ~Idle /\ Top.op = "die" /\ Become(<<l>>)
      /\ req' = HandleDeathReq /\ base' = HandleDeathBase /\ UNCHANGED net
  BY RunningTop DEF HandleDeath
<1>2. l \in Frame
  BY ListCallType DEF TypeOK, BaseRecord
<1>. HIDE DEF l
<1>3. <<l>> \in Frames /\ Calls(<<l>>) = {l}
  BY <1>2, CallsOfOne
<1>4. ASSUME NEW i \in DOMAIN stack
      PROVE  stack[i].op = "die"
  <2>1. stack \in Seq(Frame) /\ stack # <<>>
    BY <1>1 DEF TypeOK, Idle
  <2>2. 1 \in DOMAIN stack /\ stack[1] = Top /\ i \in Int /\ i >= 1
    BY <2>1 DEF Top
  <2>3. CASE i = 1
    BY <1>1, <2>2, <2>3
  <2>4. CASE i > 1
    <3>1. ~Clash(stack[1], stack[i])
      BY <2>2, <2>4 DEF SilenceInv, Accounts, Ordered
    <3>. QED BY <1>1, <2>2, <3>1 DEF Clash
  <2>. QED BY <2>2, <2>3, <2>4
<1>5. \A f \in Calls(stack) : f.op = "die"
  BY <1>4 DEF Calls
<1>. QED BY <1>1, <1>3, <1>5, DeathStep DEF Goes, l

-----------------------------------------------------------------------------
(***************************************************************************)
(* Steps about one request.                                                *)
(***************************************************************************)

\* The other requests, when they stay in the tables.
LEMMA OtherKept ==
  ASSUME TypeOK, SilenceInv, NEW fs \in Frames, Goes(fs), NEW x \in Requests,
         AlikeAt(req, req', x), req'[x].state = req[x].state,
         \A f \in Calls(fs) : ~Lists(f) /\ (f.op \in Watched => f.r # x),
         Enter(fs) \/ (~Lists(Top) /\ (Top.op \in Watched => Top.r # x)),
         x \in base.active => x \in base'.active
  PROVE  KeptAt(x)
<1>1. CallsAt(Calls(stack), Calls(stack'), x)
  BY CallsGoAt
<1>2. Listed(Calls(stack'), x) <=> Listed(Calls(stack), x)
  BY ListedGo
<1>3. req[x].state \in Terminal => req[x].state \notin Live
  BY DEF Terminal
<1>. QED BY <1>1, <1>2, <1>3 DEF KeptAt, TrackedAt

\* What is referred to after the step is known.
LEMMA RefersStep ==
  ASSUME TypeOK, NEW fs \in Frames, Goes(fs),
         \A f \in Calls(fs) : Points(f) \subseteq Known /\ ListOK(f),
         NextRefs(req') \subseteq Known,
         \A x \in Requests :
           \/ req'[x].state = req[x].state \/ x \in Known
           \/ req'[x].state \in {"NEW", "CANCELLED"},
         BaseRefs(base') \subseteq Known, NetRefs(net') \subseteq Known
  PROVE  RefersKept
<1>1. /\ CallRefs(Calls(stack')) \subseteq Known
      /\ \A f \in Calls(stack') : ListOK(f) \/ f \in Calls(stack)
  BY KnownCalls
<1>2. \A x \in Requests : req'[x].state \notin {"NEW", "CANCELLED"} => x \in Known
  BY KnownBefore
<1>. QED BY <1>1, <1>2 DEF RefersKept

\* Two calls.
LEMMA TwoCalls ==
  ASSUME NEW F, NEW s \in Seq(F), NEW t \in Seq(F), Len(s) = 1, Len(t) = 1
  PROVE  DOMAIN (s \o t) = 1 .. 2 /\ (s \o t)[1] = s[1]
<1>1. s \o t \in Seq(F) /\ Len(s \o t) = 2
  OBVIOUS
<1>2. DOMAIN (s \o t) = 1 .. Len(s \o t)
  BY <1>1
<1>3. \A i \in 1 .. Len(s) : (s \o t)[i] = s[i]
  OBVIOUS
<1>. QED BY <1>1, <1>2, <1>3

\* The users of a RadioConfig learn that its objects are gone.
LEMMA QuietConfigDeath ==
  ASSUME TypeOK, SilenceInv, ConfigDeath
  PROVE  SilenceInv'
<1>. DEFINE c == Callback(None)
            d == Call("die", None)
            fs == c \o <<d>>
<1>1. /\ Idle /\ Enter(fs) /\ UNCHANGED <<req, base>>
      /\ net' = [net EXCEPT !.answers = {}]
  BY DEF ConfigDeath, EventTurn
<1>2. NetRefs(net') = NetRefs(net)
  BY <1>1 DEF NetRefs, TypeOK, NetRecord
<1>3. d \in Frame /\ d.op = "die"
  BY PlainCallType DEF Call, Ops, RequestOps
<1>4. c \in Frames /\ \A f \in Calls(c) : f.op = "callback"
  BY CallbackType, CallsOf DEF Callback, Call, MaybeRequest
<1>5. c = <<>> \/ \E f : c = <<f>> /\ f.op = "callback"
  BY DEF Callback, Call
<1>. HIDE DEF c, d
<1>6. fs \in Frames /\ Calls(fs) = Calls(c) \cup {d}
  <2>1. <<d>> \in Frames /\ Calls(<<d>>) = {d}
    BY <1>3, CallsOfOne
  <2>. QED BY <1>4, <2>1, CallsOfBoth
<1>7. \A i, j \in DOMAIN fs : i < j => ~Clash(fs[i], fs[j])
  <2>1. CASE c = <<>>
    BY <2>1
  <2>2. ASSUME NEW f, c = <<f>>, f.op = "callback"
        PROVE  \A i, j \in DOMAIN fs : i < j => ~Clash(fs[i], fs[j])
    <3>1. DOMAIN fs = 1 .. 2 /\ fs[1] = f
      <4>1. <<d>> \in Seq(Frame) /\ Len(<<d>>) = 1
        BY <1>3
      <4>2. c \in Seq(Frame) /\ Len(c) = 1 /\ c[1] = f
        BY <1>4, <2>2 DEF Frames
      <4>. QED BY <4>1, <4>2, TwoCalls
    <3>. HIDE DEF fs
    <3>2. ASSUME NEW i \in DOMAIN fs, NEW j \in DOMAIN fs, i < j
          PROVE  fs[i] = f
      BY <3>1, <3>2
    <3>3. \A h : ~Clash(f, h)
      BY <2>2 DEF Clash, Withholds
    <3>. QED BY <3>2, <3>3
  <2>. QED BY <1>5, <2>1, <2>2
<1>. HIDE DEF fs
<1>8. Calls(stack) = {} /\ Goes(fs)
  BY <1>1, IdleCalls DEF Goes
<1>9. Ordered'
  BY <1>6, <1>7, <1>8, OrderGoes DEF SilenceInv, Accounts
<1>10. \A f \in Calls(fs) : f.op \in {"callback", "die"}
  BY <1>3, <1>4, <1>6
<1>11. \A x \in Requests : KeptAt(x)
  BY <1>1, <1>6, <1>8, <1>10, OtherKept DEF Watched, Lists, AlikeAt
<1>12. Held(req', Calls(stack'))
  BY <1>1, <1>6, <1>8, <1>10, HeldGo
<1>13. RefersKept
  <2>1. \A f \in Calls(fs) : Points(f) \subseteq Known /\ ListOK(f)
    BY <1>10, PointsNowhere
  <2>. QED BY <1>1, <1>2, <1>6, <1>8, <2>1, KnownBefore, RefersStep
<1>. QED BY <1>9, <1>11, <1>12, <1>13, AllKept

\* The user lets go of a request.
LEMMA QuietRelease ==
  ASSUME TypeOK, SilenceInv, NEW r \in Requests, Release(r)
  PROVE  SilenceInv'
<1>1. /\ req' = [req EXCEPT ![r].held = FALSE] /\ ~InCall(r)
      /\ UNCHANGED <<base, net, stack>>
  BY DEF Release
<1>2. /\ \A x \in Requests : x # r => req'[x] = req[x]
      /\ req'[r].complete = req[r].complete /\ req'[r].calls = req[r].calls
      /\ req'[r].submitted = req[r].submitted /\ req'[r].dropped = req[r].dropped
      /\ req'[r].freed = req[r].freed /\ ~req'[r].held
      /\ req'[r].registered = req[r].registered
      /\ req'[r].serial2 = req[r].serial2
      /\ req'[r].state = req[r].state /\ req'[r].next = req[r].next
  BY <1>1 DEF TypeOK, RequestRecord
<1>3. <<>> \in Frames /\ Enter(<<>>) /\ Goes(<<>>) /\ Calls(<<>>) = {}
  BY <1>1, NoCalls, CallsOf
<1>4. \A x \in Requests \ {r} : KeptAt(x)
  BY <1>1, <1>2, <1>3, OtherKept DEF AlikeAt
<1>5. Account(req, Calls(stack), r) /\ Track(req, base, Calls(stack), r)
  BY DEF SilenceInv, Accounts, Tracks
<1>6. Account(req', Calls(stack'), r)
  BY <1>1, <1>2, <1>5 DEF Account, Heard, Fresh, Unheld, FreedHeard, EndedHeard,
                          CancelledHeard, DropsHeard
<1>7. Track(req', base', Calls(stack'), r)
  BY <1>1, <1>2, <1>5 DEF Track, Tracked, Activated, Resendable, Unlisted, Whole
<1>8. Held(req', Calls(stack'))
  <2>1. ASSUME NEW f \in Calls(stack), f.op = "submitted"
        PROVE  req'[f.r].held /\ (~f.some => req'[f.r].dropped)
    <3>1. f.r \in Requests
      BY <2>1, WithheldRequest DEF Calls
    <3>2. f.r # r
      BY <1>1, <2>1 DEF InCall, Calls
    <3>. QED BY <1>2, <2>1, <3>1, <3>2 DEF SilenceInv, Accounts, Held
  <2>. QED BY <1>1, <2>1 DEF Held
<1>9. Ordered'
  BY <1>1 DEF SilenceInv, Accounts, Ordered
<1>10. RefersKept
  <2>1. \A x \in Requests : /\ req'[x].next = req[x].next
                            /\ req'[x].state = req[x].state
    BY <1>2
  <2>2. NextRefs(req') = NextRefs(req)
    BY <2>1 DEF NextRefs
  <2>. QED BY <1>1, <1>3, <2>1, <2>2, KnownBefore, RefersStep
<1>. QED BY <1>2, <1>4, <1>6, <1>7, <1>8, <1>9, <1>10, OneStep DEF Seen

\* A request is detached from its object.
LEMMA QuietUnregister ==
  ASSUME TypeOK, SilenceInv, Unregister
  PROVE  SilenceInv'
<1>1. /\ ~Idle /\ Top.op = "unregister" /\ Become(<<>>)
      /\ UNCHANGED <<base, net>> /\ Top.r \in Requests
  BY RunningTop, TopType DEF Unregister, RequestOps
<1>2. ASSUME NEW x \in Requests
      PROVE  /\ AlikeAt(req, req', x)
             /\ req'[x].next = req[x].next /\ req'[x].state = req[x].state
  BY <1>1 DEF Unregister, AlikeAt, TypeOK, RequestRecord
<1>3. Still(req, req')
  BY <1>2 DEF Still, Alike, NextRefs
<1>4. <<>> \in Frames /\ Mute(<<>>)
  BY CallsOfNone DEF Mute
<1>. QED BY <1>1, <1>3, <1>4, StillStep DEF Goes, Watched, Listing

\* The object goes.
LEMMA QuietFinalize ==
  ASSUME TypeOK, SilenceInv, Finalize
  PROVE  SilenceInv'
<1>1. /\ req' = FinalizeReq /\ base' = FinalizeBase /\ net' = FinalizeNet
      /\ UNCHANGED stack
  BY DEF Finalize
<1>2. ASSUME NEW x \in Requests
      PROVE  /\ AlikeAt(req, req', x) /\ ~req'[x].registered
             /\ req'[x].next = req[x].next /\ req'[x].state = req[x].state
  BY <1>1 DEF FinalizeReq, AlikeAt, TypeOK, RequestRecord
<1>3. Alike(req, req') /\ NextRefs(req') = NextRefs(req)
  BY <1>2 DEF Alike, NextRefs
<1>4. <<>> \in Frames /\ Enter(<<>>) /\ Goes(<<>>) /\ Calls(<<>>) = {}
  BY <1>1, NoCalls, CallsOf
<1>5. ASSUME NEW x \in Requests
      PROVE  TrackedAt(x)
  <2>1. req[x].state \in Terminal => req[x].state \notin Live
    BY DEF Terminal
  <2>. QED BY <1>1, <1>2, <2>1 DEF TrackedAt
<1>6. base'.active = {} /\ base'.first = base.first
  BY <1>1 DEF FinalizeBase, TypeOK, BaseRecord
<1>7. NetRefs(net') \subseteq NetRefs(net)
  BY <1>1 DEF FinalizeNet, NetRefs, TypeOK, NetRecord
<1>8. /\ BaseRefs(base') \subseteq Known /\ NetRefs(net') \subseteq Known
      /\ NextRefs(req') \subseteq Known
  BY <1>3, <1>6, <1>7, KnownBefore DEF BaseRefs
<1>. QED BY <1>2, <1>3, <1>4, <1>5, <1>8, SweepStep

\* An answer completes a request.
LEMMA QuietRespondDone ==
  ASSUME TypeOK, SilenceInv, RespondDone
  PROVE  SilenceInv'
<1>a. PICK m \in net.answers :
        LET r == m[1]
            q == [CancelReq(req, r) EXCEPT ![r].state = "DONE"]
            b == DeactivateBase(q, base, r)
        IN  /\ Found(m)
            /\ req' = q
            /\ base' = MoveOwnerQueue(q, b)
            /\ net' = [CancelNet(req, r) EXCEPT !.answers = @ \ {m}]
            /\ Enter((IF MovesOwner(q, b) THEN Callback(None) ELSE <<>>)
                     \o <<Call("done", r), Call("start", None),
                          Call("reset", None)>>)
  BY DEF RespondDone
<1>. DEFINE r == m[1]
            q0 == CancelReq(req, r)
            q == [q0 EXCEPT ![r].state = "DONE"]
            b == DeactivateBase(q, base, r)
            c == IF MovesOwner(q, b) THEN Callback(None) ELSE <<>>
            d == Call("done", r)
            e == <<d, Call("start", None), Call("reset", None)>>
            fs == c \o e
<1>0. /\ req \in RequestMap /\ base \in BaseRecord /\ net \in NetRecord
      /\ r \in Requests /\ Idle
  BY DEF TypeOK, RequestMap, NetRecord, Transmissions, RespondDone, EventTurn
<1>1. /\ r \in base.active /\ req' = q /\ base' = MoveOwnerQueue(q, b)
      /\ net' = [CancelNet(req, r) EXCEPT !.answers = @ \ {m}]
      /\ Enter(fs)
  BY <1>a DEF Found
<1>. HIDE DEF r
<1>2. q0 \in RequestMap /\ q \in RequestMap
  BY <1>0, CancelReqType, StateType DEF States
<1>3. /\ \A x \in Requests : x # r => q[x] = req[x]
      /\ q[r].complete = req[r].complete /\ q[r].calls = req[r].calls
      /\ q[r].submitted = req[r].submitted /\ q[r].dropped = req[r].dropped
      /\ q[r].freed = req[r].freed /\ q[r].held = req[r].held
      /\ q[r].registered = req[r].registered /\ q[r].serial2 = req[r].serial2
      /\ q[r].state = "DONE" /\ q[r].next = req[r].next
  BY <1>0 DEF CancelReq, RequestMap, RequestRecord
<1>. HIDE DEF q
<1>4. /\ b \in BaseRecord /\ b.active = base.active \ {r}
      /\ b.first \in {base.first, q[r].next}
  BY <1>0, <1>2, DeactivateBaseType, DeactivateBaseKeeps
<1>5. c \in Frames /\ \A f \in Calls(c) : f.op = "callback"
  BY CallbackType, FramesType, CallsOf DEF Callback, Call, MaybeRequest
<1>. HIDE DEF b, c
<1>6. base'.active = base.active \ {r} /\ base'.first \in {base.first, req[r].next}
  BY <1>1, <1>3, <1>4, MoveOwnerQueueKeeps
<1>7. /\ d \in Frame /\ d.op = "done" /\ d.r = r /\ d.next = None
      /\ Call("start", None).op = "start" /\ Call("reset", None).op = "reset"
  BY <1>0, RequestCallType DEF Call, Ops, ObservedOps
<1>. HIDE DEF d
<1>8. e \in Frames /\ Calls(e) = {d, Call("start", None), Call("reset", None)}
  <2>1. e \in Frames
    BY <1>7, PlainFrames, FramesType
  <2>2. Calls(e) = {d, Call("start", None), Call("reset", None)}
    BY CallsOf
  <2>. QED BY <2>1, <2>2
<1>. HIDE DEF e
<1>9. fs \in Frames /\ Calls(fs) = Calls(c) \cup Calls(e)
  BY <1>5, <1>8, CallsOfBoth
<1>. HIDE DEF fs
<1>10. /\ d \in Calls(fs)
       /\ \A f \in Calls(fs) : f = d \/ f.op \in {"callback", "start", "reset"}
  BY <1>5, <1>7, <1>8, <1>9
<1>11. Calls(stack) = {} /\ Goes(fs)
  BY <1>0, <1>1, IdleCalls DEF Goes
<1>12. Calls(stack') \subseteq Calls(fs) /\ d \in Calls(stack')
  BY <1>9, <1>10, <1>11, CallsGo
<1>13. \A f \in Calls(stack') : f = d \/ f.op \in {"callback", "start", "reset"}
  BY <1>10, <1>12
<1>14. /\ ~Dropping(Calls(stack'), r) /\ ~Withheld(Calls(stack'), r)
       /\ ~Finishing(Calls(stack'), r) /\ Answered(Calls(stack'), r)
  BY <1>7, <1>12, <1>13 DEF Dropping, Drops, Withheld, Withholds, Finishing, Answered
<1>15. ASSUME NEW x \in Requests \ {r}
       PROVE  KeptAt(x)
  <2>1. AlikeAt(req, req', x) /\ req'[x].state = req[x].state
    BY <1>1, <1>3 DEF AlikeAt
  <2>2. \A f \in Calls(fs) : ~Lists(f) /\ (f.op \in Watched => f.r # x)
    BY <1>7, <1>10 DEF Lists, Watched
  <2>. QED BY <1>1, <1>6, <1>9, <1>11, <2>1, <2>2, OtherKept
<1>16. Account(req, Calls(stack), r)
  BY <1>0 DEF SilenceInv, Accounts
<1>17. Account(req', Calls(stack'), r)
  BY <1>1, <1>3, <1>14, <1>16
  DEF Account, Heard, Fresh, Unheld, FreedHeard, EndedHeard, CancelledHeard,
      DropsHeard
<1>18. Track(req', base', Calls(stack'), r)
  BY <1>14 DEF Track, Tracked, Activated, Resendable, Unlisted
<1>19. Held(req', Calls(stack')) /\ Ordered'
  <2>1. \A f \in Calls(fs) : f.op \notin {"submitted", "die"}
    BY <1>7, <1>10
  <2>2. \A f \in Calls(stack') : f.op # "submitted"
    BY <1>12, <2>1
  <2>. QED BY <1>9, <1>11, <2>1, <2>2, OrderKept DEF Held
<1>20. RefersKept
  <2>1. r \in Known /\ req[r].next \in Known
    BY <1>0, <1>1, KnownBefore DEF BaseRefs, NextRefs
  <2>2. \A f \in Calls(fs) : Points(f) \subseteq Known /\ ListOK(f)
    <3>1. Points(d) \subseteq Known /\ ListOK(d)
      BY <1>7, <2>1 DEF Points, ListOK, Lists, Known
    <3>. QED BY <1>10, <3>1, PointsNowhere
  <2>3. NextRefs(req') \subseteq Known
    <3>1. \A x \in Requests : req'[x].next = req[x].next
      BY <1>1, <1>3
    <3>2. NextRefs(req') = NextRefs(req)
      BY <3>1 DEF NextRefs
    <3>. QED BY <3>2, KnownBefore
  <2>4. \A x \in Requests : req'[x].state = req[x].state \/ x \in Known
    BY <1>1, <1>3, <2>1
  <2>5. BaseRefs(base') \subseteq Known
    BY <1>6, <2>1, KnownBefore DEF BaseRefs
  <2>6. NetRefs(net') \subseteq Known
    <3>1. NetRefs(CancelNet(req, r)) \subseteq NetRefs(net)
      BY <1>0, CancelNetKeeps
    <3>2. net'.outstanding = CancelNet(req, r).outstanding
      BY <1>0, <1>1 DEF CancelNet, NetRecord
    <3>. QED BY <3>1, <3>2, KnownBefore DEF NetRefs
  <2>. QED BY <1>9, <1>11, <2>2, <2>3, <2>4, <2>5, <2>6, RefersStep
<1>. QED BY <1>0, <1>1, <1>3, <1>15, <1>17, <1>18, <1>19, <1>20, OneStep DEF Seen

\* Its callback runs.
LEMMA QuietDone ==
  ASSUME TypeOK, CompletionInv, SilenceInv, Done
  PROVE  SilenceInv'
<1>. DEFINE r == Top.r
            fs == CompleteCalls(req, r)
            S == Calls(stack)
            T == Calls(stack')
<1>1. /\ ~Idle /\ Top.op = "done" /\ r \in Requests /\ req \in RequestMap
      /\ req' = CompleteReq(req, r) /\ Become(fs) /\ UNCHANGED <<base, net>>
  BY RunningTop, TopType DEF Done, RequestOps, TypeOK, RequestMap
<1>2. fs \in Frames /\ \A f \in Calls(fs) : f.op = "callback"
  BY <1>1, FailCallsType, CallsOf DEF CompleteCalls, Callback, Call
<1>3. Seen(req, r)
  <2>1. r \in Points(Top)
    BY <1>1 DEF Points
  <2>. QED BY <1>1, <2>1, TopKnows, ReferredSeen
<1>. HIDE DEF r, fs
<1>4. /\ \A x \in Requests : x # r => req'[x] = req[x]
      /\ ~req'[r].complete
      /\ req'[r].calls = IF req[r].complete THEN req[r].calls + 1 ELSE req[r].calls
      /\ req'[r].submitted = req[r].submitted /\ req'[r].dropped = req[r].dropped
      /\ req'[r].freed = req[r].freed /\ req'[r].held = req[r].held
      /\ req'[r].registered = req[r].registered
      /\ req'[r].serial2 = req[r].serial2
      /\ req'[r].state = req[r].state /\ req'[r].next = req[r].next
  BY <1>1, CompleteReqFields
<1>5. Goes(fs) /\ Top.op \notin {"submitted", "finish", "drop", "dropped"}
  BY <1>1 DEF Goes
<1>6. ASSUME NEW x \in Requests \ {r}
      PROVE  KeptAt(x)
  <2>1. AlikeAt(req, req', x) /\ req'[x].state = req[x].state
    BY <1>4 DEF AlikeAt
  <2>2. /\ \A f \in Calls(fs) : ~Lists(f) /\ (f.op \in Watched => f.r # x)
        /\ ~Lists(Top) /\ Top.r # x
    BY <1>1, <1>2 DEF Lists, Watched, r
  <2>. QED BY <1>1, <1>2, <1>5, <2>1, <2>2, OtherKept
<1>7. /\ Dropping(T, r) <=> Dropping(S, r)
      /\ Withheld(T, r) <=> Withheld(S, r)
      /\ Finishing(T, r) <=> Finishing(S, r)
  <2>. DEFINE K == {"submitted", "finish", "drop", "dropped"}
  <2>1. /\ {"drop", "dropped"} \subseteq K /\ "submitted" \in K /\ "finish" \in K
        /\ \A f \in Calls(fs) : f.op \notin K
        /\ Top.op \notin K
    BY <1>2, <1>5
  <2>. HIDE DEF K
  <2>. QED BY <1>2, <1>5, <2>1, KindGo
<1>8. Listed(T, r) <=> Listed(S, r)
  BY <1>1, <1>2, <1>5, ListedGo DEF Lists
<1>9. Account(req, S, r) /\ Track(req, base, S, r)
  BY <1>1 DEF SilenceInv, Accounts, Tracks
<1>. HIDE DEF S, T
<1>10. Account(req', T, r)
  <2>1. req[r].complete => req[r].calls = 0
    BY <1>1 DEF CompletionInv, CallbackUnused
  <2>2. Heard(req, r) /\ Fresh(req, r) /\ Unheld(req, S, r)
    BY <1>9 DEF Account
  <2>3. Heard(req', r)
    BY <1>4, <2>1, <2>2 DEF Heard
  <2>4. Fresh(req', r)
    BY <1>3, <1>4, <2>2 DEF Fresh, Seen
  <2>5. Unheld(req', T, r)
    BY <1>4, <1>7, <2>2 DEF Unheld
  <2>6. /\ FreedHeard(req', r) /\ EndedHeard(req', T, r)
        /\ CancelledHeard(req', r) /\ DropsHeard(req', T, r)
    BY <1>4 DEF FreedHeard, EndedHeard, CancelledHeard, DropsHeard
  <2>. QED BY <2>3, <2>4, <2>5, <2>6 DEF Account
<1>11. Track(req', base', T, r)
  BY <1>1, <1>4, <1>7, <1>8, <1>9
  DEF Track, Tracked, Activated, Resendable, Unlisted, Whole
<1>12. Held(req', T) /\ Ordered'
  <2>1. \A f \in Calls(fs) : f.op \notin {"submitted", "die"}
    BY <1>2
  <2>2. \A x \in Requests : /\ req'[x].held = req[x].held
                            /\ req[x].dropped => req'[x].dropped
    BY <1>4
  <2>. QED BY <1>2, <1>5, <2>1, <2>2, HeldGo, OrderKept DEF T
<1>13. RefersKept
  <2>1. \A f \in Calls(fs) : Points(f) \subseteq Known /\ ListOK(f)
    BY <1>2, PointsNowhere
  <2>2. \A x \in Requests : /\ req'[x].next = req[x].next
                            /\ req'[x].state = req[x].state
    BY <1>4
  <2>3. NextRefs(req') = NextRefs(req)
    BY <2>2 DEF NextRefs
  <2>. QED BY <1>1, <1>2, <1>5, <2>1, <2>2, <2>3, KnownBefore, RefersStep
<1>14. Seen(req, r) => Seen(req', r)
  BY <1>4 DEF Seen
<1>. QED BY <1>1, <1>6, <1>10, <1>11, <1>12, <1>13, <1>14, OneStep DEF T

\* The request leaves the tables.
LEMMA QuietDrop ==
  ASSUME TypeOK, SilenceInv, Drop
  PROVE  SilenceInv'
<1>. DEFINE r == Top.r
            q == CancelReq(req, r)
            d == Call("dropped", r)
            fs == <<Call("start", None), d>>
            S == Calls(stack)
            T == Calls(stack')
<1>1. /\ ~Idle /\ Top.op = "drop" /\ r \in Requests /\ req \in RequestMap
      /\ base \in BaseRecord /\ net \in NetRecord /\ Top \in S
      /\ req' = DeactivateReq(q, base, r) /\ base' = DeactivateBase(q, base, r)
      /\ net' = CancelNet(req, r) /\ Become(fs)
  BY RunningTop, TopType, TopKnows DEF Drop, RequestOps, TypeOK, RequestMap
<1>. HIDE DEF r
<1>2. Still(req, req')
  <2>1. /\ q \in RequestMap /\ Alike(req, q) /\ NextRefs(q) = NextRefs(req)
        /\ \A x \in Requests : q[x].state = req[x].state
    BY <1>1, CancelReqType, CancelReqKeeps
  <2>. HIDE DEF q
  <2>2. /\ Alike(q, req') /\ NextRefs(req') \subseteq NextRefs(q) \cup {None}
        /\ \A x \in Requests : req'[x].state = q[x].state
    BY <1>1, <2>1, DeactivateReqKeeps
  <2>3. Alike(req, req')
    BY <2>1, <2>2, AlikeTrans
  <2>. QED BY <2>1, <2>2, <2>3 DEF Still
<1>3. base'.active = base.active \ {r} /\ base'.first \in {base.first, req[r].next}
  <2>1. q \in RequestMap
    BY <1>1, CancelReqType
  <2>2. q[r].next = req[r].next
    BY <1>1 DEF CancelReq, RequestMap, RequestRecord
  <2>. HIDE DEF q
  <2>. QED BY <1>1, <2>1, <2>2, DeactivateBaseKeeps
<1>4. NetRefs(net') \subseteq NetRefs(net)
  BY <1>1, CancelNetKeeps
<1>5. /\ d \in Frame /\ d.op = "dropped" /\ d.r = r
      /\ Call("start", None).op = "start"
  BY <1>1, RequestCallType DEF Call, Ops, ObservedOps
<1>. HIDE DEF d, q
<1>6. fs \in Frames /\ Calls(fs) = {Call("start", None), d}
  <2>1. fs \in Frames
    BY <1>5, PlainFrames, FramesType
  <2>. QED BY <2>1, CallsOf
<1>. HIDE DEF fs
<1>7. Goes(fs) /\ d \in T
  <2>1. Goes(fs)
    BY <1>1 DEF Goes
  <2>. QED BY <1>6, <2>1, CallsGo
<1>8. ASSUME NEW x \in Requests
      PROVE  AlikeAt(req, req', x) /\ req'[x].state = req[x].state
  BY <1>2 DEF Still, Alike
<1>9. ASSUME NEW x \in Requests \ {r}
      PROVE  KeptAt(x)
  <2>1. /\ \A f \in Calls(fs) : ~Lists(f) /\ (f.op \in Watched => f.r # x)
        /\ ~Lists(Top) /\ Top.r # x
    BY <1>1, <1>5, <1>6 DEF Lists, Watched, r
  <2>. QED BY <1>3, <1>6, <1>7, <1>8, <2>1, OtherKept
<1>10. Dropping(S, r) /\ Dropping(T, r)
  BY <1>1, <1>5, <1>7 DEF Dropping, Drops, r
<1>11. CallsAt(S, T, r)
  <2>. DEFINE K == {"submitted", "finish", "done"}
  <2>1. /\ "submitted" \in K /\ "finish" \in K /\ "done" \in K
        /\ \A f \in Calls(fs) : f.op \notin K
        /\ Top.op \notin K
    BY <1>1, <1>5, <1>6
  <2>. HIDE DEF K
  <2>2. /\ Withheld(T, r) <=> Withheld(S, r)
        /\ Finishing(T, r) <=> Finishing(S, r)
        /\ Answered(T, r) <=> Answered(S, r)
    BY <1>6, <1>7, <2>1, KindGo
  <2>. QED BY <1>10, <2>2 DEF CallsAt
<1>12. Listed(T, r) <=> Listed(S, r)
  BY <1>1, <1>5, <1>6, <1>7, ListedGo DEF Lists
<1>13. Account(req, S, r) /\ Track(req, base, S, r)
  BY <1>1 DEF SilenceInv, Accounts, Tracks
<1>. HIDE DEF S, T
<1>14. AlikeAt(req, req', r) /\ req'[r].state = req[r].state
  BY <1>1, <1>8
<1>15. Account(req', T, r)
  BY <1>11, <1>13, <1>14, AccountKept
<1>16. Track(req', base', T, r)
  <2>1. ~req[r].complete \/ ~req[r].submitted
    BY <1>10, <1>13 DEF Account, DropsHeard
  <2>2. Tracked(req', base', T, r)
    BY <1>14, <2>1 DEF Tracked, AlikeAt
  <2>3. Activated(req', base', T, r)
    BY <1>10 DEF Activated
  <2>4. Resendable(req', T, r)
    BY <1>10, <1>11, <1>13, <1>14 DEF Track, Resendable, CallsAt, AlikeAt, Whole
  <2>5. Unlisted(T, r)
    BY <1>11, <1>12, <1>13 DEF Track, Unlisted, CallsAt
  <2>. QED BY <2>2, <2>3, <2>4, <2>5 DEF Track
<1>17. Held(req', T) /\ Ordered'
  <2>1. \A f \in Calls(fs) : f.op \notin {"submitted", "die"}
    BY <1>5, <1>6
  <2>2. \A x \in Requests : /\ req'[x].held = req[x].held
                            /\ req[x].dropped => req'[x].dropped
    BY <1>8 DEF AlikeAt
  <2>. QED BY <1>6, <1>7, <2>1, <2>2, HeldGo, OrderKept DEF T
<1>18. RefersKept
  <2>1. \A f \in Calls(fs) : Points(f) \subseteq Known /\ ListOK(f)
    BY <1>5, <1>6, PointsNowhere
  <2>2. NextRefs(req') \subseteq Known
    BY <1>2, KnownBefore DEF Still, Known
  <2>3. BaseRefs(base') \subseteq Known /\ NetRefs(net') \subseteq Known
    <3>1. req[r].next \in Known
      BY <1>1, KnownBefore DEF NextRefs
    <3>. QED BY <1>3, <1>4, <3>1, KnownBefore DEF BaseRefs
  <2>. QED BY <1>6, <1>7, <1>8, <2>1, <2>2, <2>3, RefersStep
<1>19. Seen(req, r) => Seen(req', r)
  BY <1>14 DEF Seen, AlikeAt
<1>. QED BY <1>1, <1>9, <1>15, <1>16, <1>17, <1>18, <1>19, OneStep DEF T

\* The rest of radio_base_drop_req.
LEMMA QuietDropped ==
  ASSUME TypeOK, SilenceInv, Dropped
  PROVE  SilenceInv'
<1>. DEFINE r == Top.r
            S == Calls(stack)
            T == Calls(stack')
<1>1. /\ ~Idle /\ Top.op = "dropped" /\ r \in Requests /\ Top \in S
      /\ req' = [req EXCEPT ![r].state = IF @ \in Live THEN "CANCELLED" ELSE @]
      /\ Become(<<>>) /\ UNCHANGED net
      /\ base'.active = base.active /\ base'.first = base.first
  BY RunningTop, TopType, TopKnows DEF Dropped, RequestOps, TypeOK, BaseRecord
<1>. HIDE DEF r
<1>2. /\ \A x \in Requests : x # r => req'[x] = req[x]
      /\ req'[r].complete = req[r].complete /\ req'[r].calls = req[r].calls
      /\ req'[r].submitted = req[r].submitted /\ req'[r].dropped = req[r].dropped
      /\ req'[r].freed = req[r].freed /\ req'[r].held = req[r].held
      /\ req'[r].registered = req[r].registered
      /\ req'[r].serial2 = req[r].serial2
      /\ req'[r].state = IF req[r].state \in Live THEN "CANCELLED" ELSE req[r].state
      /\ req'[r].next = req[r].next
  BY <1>1 DEF TypeOK, RequestRecord
<1>3. <<>> \in Frames /\ Calls(<<>>) = {} /\ Goes(<<>>)
  BY <1>1, CallsOfNone DEF Goes
<1>4. ASSUME NEW x \in Requests \ {r}
      PROVE  KeptAt(x)
  <2>1. AlikeAt(req, req', x) /\ req'[x].state = req[x].state
    BY <1>2 DEF AlikeAt
  <2>2. ~Lists(Top) /\ Top.r # x
    BY <1>1 DEF Lists, r
  <2>. QED BY <1>1, <1>3, <2>1, <2>2, OtherKept
<1>5. /\ Withheld(T, r) <=> Withheld(S, r)
      /\ Finishing(T, r) <=> Finishing(S, r)
      /\ Answered(T, r) <=> Answered(S, r)
  <2>. DEFINE K == {"submitted", "finish", "done"}
  <2>1. /\ "submitted" \in K /\ "finish" \in K /\ "done" \in K
        /\ Top.op \notin K
    BY <1>1
  <2>. HIDE DEF K
  <2>. QED BY <1>3, <2>1, KindGo
<1>6. Dropping(S, r)
  BY <1>1 DEF Dropping, Drops, r
<1>7. Listed(T, r) <=> Listed(S, r)
  BY <1>1, <1>3, ListedGo DEF Lists
<1>8. Account(req, S, r) /\ Track(req, base, S, r)
  BY <1>1 DEF SilenceInv, Accounts, Tracks
<1>. HIDE DEF S, T
<1>9. req'[r].state \notin Live
  BY <1>2 DEF Live
<1>10. ~req[r].complete \/ ~req[r].submitted
  BY <1>6, <1>8 DEF Account, DropsHeard
<1>11. Account(req', T, r)
  <2>1. Heard(req', r) /\ Unheld(req', T, r) /\ FreedHeard(req', r)
    BY <1>2, <1>5, <1>8 DEF Account, Heard, Unheld, FreedHeard
  <2>2. Fresh(req', r) /\ EndedHeard(req', T, r) /\ DropsHeard(req', T, r)
        /\ CancelledHeard(req', r)
    BY <1>2, <1>9, <1>10 DEF Fresh, EndedHeard, DropsHeard, CancelledHeard, Live
  <2>. QED BY <2>1, <2>2 DEF Account
<1>12. Track(req', base', T, r)
  <2>1. Tracked(req', base', T, r) /\ Activated(req', base', T, r)
    BY <1>2, <1>9, <1>10 DEF Tracked, Activated
  <2>2. Resendable(req', T, r) /\ Unlisted(T, r)
    BY <1>2, <1>5, <1>6, <1>7, <1>8 DEF Track, Resendable, Unlisted, Whole
  <2>. QED BY <2>1, <2>2 DEF Track
<1>13. Held(req', T) /\ Ordered'
  <2>1. \A x \in Requests : /\ req'[x].held = req[x].held
                            /\ req[x].dropped => req'[x].dropped
    BY <1>2
  <2>. QED BY <1>3, <2>1, HeldGo, OrderKept DEF T
<1>14. RefersKept
  <2>1. \A x \in Requests :
          /\ req'[x].next = req[x].next
          /\ req'[x].state = req[x].state \/ req'[x].state \in {"NEW", "CANCELLED"}
    BY <1>2
  <2>2. NextRefs(req') = NextRefs(req)
    BY <2>1 DEF NextRefs
  <2>3. BaseRefs(base') \subseteq Known
    BY <1>1, KnownBefore DEF BaseRefs
  <2>. QED BY <1>1, <1>3, <2>1, <2>2, <2>3, KnownBefore, RefersStep
<1>15. Seen(req, r) => Seen(req', r)
  BY <1>2 DEF Seen
<1>. QED BY <1>1, <1>4, <1>11, <1>12, <1>13, <1>14, <1>15, OneStep DEF T

\* A request is handed over: its callback is withheld, or gone for good.
LEMMA QuietSubmit ==
  ASSUME TypeOK, CompletionInv, SilenceInv, NEW r \in Requests, Submit(r)
  PROVE  SilenceInv'
<1>. DEFINE q == QueueReq(req, base, r)
            s == Call("start", None)
            f == [Call("submitted", r) EXCEPT !.some = req[r].complete]
            fs == <<s, f>>
            S == Calls(stack)
            T == Calls(stack')
<1>1. /\ req \in RequestMap /\ base \in BaseRecord
      /\ req[r].held /\ req[r].state = "NEW"
      /\ req' = [q EXCEPT ![r] = [@ EXCEPT
                   !.complete = FALSE,
                   !.deadline = now + TimeoutOf(base, req[r].timeout)]]
      /\ base' = [QueueBase(base, r) EXCEPT !.active = @ \cup {r}]
      /\ Enter(fs) /\ UNCHANGED net
  BY DEF Submit, TypeOK, RequestMap
<1>2. q \in RequestMap
  BY <1>1, QueueReqType
<1>3. /\ \A x \in Requests : AlikeAt(req, q, x)
      /\ \A x \in Requests :
           q[x].state = IF x = r THEN "QUEUED" ELSE req[x].state
      /\ NextRefs(q) \subseteq NextRefs(req) \cup {r}
  BY <1>1, QueueReqKeeps DEF Alike
<1>4. q[r].registered = req[r].registered
  BY <1>1 DEF QueueReq, RequestMap, RequestRecord
<1>. HIDE DEF q
<1>5. /\ \A x \in Requests : x # r => req'[x] = q[x]
      /\ \A x \in Requests : req'[x].next = q[x].next
      /\ ~req'[r].complete /\ req'[r].calls = q[r].calls
      /\ req'[r].submitted = q[r].submitted /\ req'[r].dropped = q[r].dropped
      /\ req'[r].freed = q[r].freed /\ req'[r].held = q[r].held
      /\ req'[r].state = q[r].state
  BY <1>1, <1>2 DEF RequestMap, RequestRecord
<1>6. /\ req'[r].calls = req[r].calls /\ req'[r].submitted = req[r].submitted
      /\ req'[r].dropped = req[r].dropped /\ req'[r].freed = req[r].freed
      /\ req'[r].held = req[r].held /\ req'[r].state = "QUEUED"
  BY <1>3, <1>5 DEF AlikeAt
<1>7. base'.active = base.active \cup {r} /\ base'.first \in {base.first, r}
  BY <1>1 DEF QueueBase, BaseRecord
<1>8. /\ f \in Frame /\ f.op = "submitted" /\ f.r = r
      /\ (f.some <=> req[r].complete)
      /\ s \in Frame /\ s.op = "start"
  <2>1. Call("submitted", r) \in Frame /\ req[r].complete \in BOOLEAN
    BY <1>1, RequestCallType DEF Ops, ObservedOps, RequestMap, RequestRecord
  <2>2. s \in Frame /\ s.op = "start"
    BY PlainFrames DEF Call
  <2>. QED BY <2>1, <2>2 DEF Call, Frame
<1>. HIDE DEF f, s
<1>9. fs \in Frames /\ Calls(fs) = {s, f}
  BY <1>8, CallsOfTwo
<1>10. \A i, j \in DOMAIN fs : i < j => fs[i] = s
  OBVIOUS
<1>. HIDE DEF fs
<1>11. Goes(fs) /\ f \in T /\ T \subseteq S \cup {s, f} /\ S \subseteq T
  <2>1. Goes(fs)
    BY <1>1 DEF Goes
  <2>. QED BY <1>1, <1>9, <2>1, CallsGo
<1>12. Account(req, S, r) /\ Track(req, base, S, r)
  BY DEF SilenceInv, Accounts, Tracks
<1>13. /\ ~req[r].submitted /\ (~req[r].complete => req[r].dropped)
       /\ ~req[r].freed /\ ~Finishing(S, r)
       /\ Dropping(S, r) => ~req[r].complete
  BY <1>1, <1>12 DEF Account, Fresh, Unheld, DropsHeard
<1>14. ~Withheld(S, r)
  BY <1>1 DEF Withheld, Withholds, Calls, CompletionInv, CallbackWithheld
<1>15. Listed(S, r) => ~req[r].complete
  <2>1. Listed(S, r) => \E h \in S : r \in Points(h)
    BY DEF Listed, Points
  <2>. QED BY <1>13, <2>1, ReferredSeen DEF Seen
<1>16. ASSUME NEW x \in Requests \ {r}
       PROVE  KeptAt(x)
  <2>1. AlikeAt(req, req', x) /\ req'[x].state = req[x].state
    BY <1>3, <1>5 DEF AlikeAt
  <2>2. \A h \in Calls(fs) : ~Lists(h) /\ (h.op \in Watched => h.r # x)
    BY <1>8, <1>9 DEF Lists, Watched
  <2>. QED BY <1>1, <1>7, <1>9, <1>11, <2>1, <2>2, OtherKept
<1>17. /\ Dropping(T, r) <=> Dropping(S, r)
       /\ Finishing(T, r) <=> Finishing(S, r)
       /\ Withheld(T, r) => req[r].complete
       /\ Listed(T, r) <=> Listed(S, r)
  <2>1. Dropping(T, r) <=> Dropping(S, r)
    BY <1>8, <1>11 DEF Dropping, Drops
  <2>2. Finishing(T, r) <=> Finishing(S, r)
    BY <1>8, <1>11 DEF Finishing
  <2>3. Withheld(T, r) => req[r].complete
    BY <1>8, <1>11, <1>14 DEF Withheld, Withholds
  <2>4. Listed(T, r) <=> Listed(S, r)
    BY <1>8, <1>11 DEF Listed, Lists
  <2>. QED BY <2>1, <2>2, <2>3, <2>4
<1>18. Held(req', T)
  <2>1. ASSUME NEW h \in S, h.op = "submitted"
        PROVE  req'[h.r].held /\ (~h.some => req'[h.r].dropped)
    <3>1. h.r \in Requests
      BY <2>1, WithheldRequest DEF Calls
    <3>2. req[h.r].held /\ (~h.some => req[h.r].dropped)
      BY <2>1 DEF SilenceInv, Accounts, Held
    <3>. QED BY <1>3, <1>5, <3>1, <3>2 DEF AlikeAt
  <2>2. req'[f.r].held /\ (~f.some => req'[f.r].dropped)
    BY <1>1, <1>6, <1>8, <1>13
  <2>. QED BY <1>8, <1>11, <2>1, <2>2 DEF Held
<1>19. Ordered'
  <2>1. \A h : ~Clash(s, h)
    BY <1>8 DEF Clash, Withholds
  <2>2. \A h \in S : ~Clash(f, h)
    BY <1>8, <1>13 DEF Clash, Withholds, Dropping
  <2>. QED BY <1>9, <1>10, <1>11, <2>1, <2>2, OrderGoes DEF SilenceInv, Accounts
<1>20. RefersKept
  <2>1. r \in Known
    BY <1>5 DEF Known, Seen
  <2>2. NextRefs(req') \subseteq Known
    <3>1. NextRefs(req') = NextRefs(q)
      BY <1>5 DEF NextRefs
    <3>. QED BY <1>3, <2>1, <3>1, KnownBefore
  <2>3. \A h \in Calls(fs) : Points(h) \subseteq Known /\ ListOK(h)
    BY <1>8, <1>9, PointsNowhere
  <2>4. BaseRefs(base') \subseteq Known
    BY <1>7, <2>1, KnownBefore DEF BaseRefs
  <2>5. \A x \in Requests : req'[x].state = req[x].state \/ x \in Known
    BY <1>3, <1>5, <2>1
  <2>. QED BY <1>1, <1>9, <1>11, <2>2, <2>3, <2>4, <2>5, KnownBefore, RefersStep
<1>. HIDE DEF S, T
<1>21. Account(req', T, r)
  BY <1>1, <1>5, <1>6, <1>13, <1>17
  DEF Account, Heard, Fresh, Unheld, FreedHeard, EndedHeard, CancelledHeard,
      DropsHeard
<1>22. Track(req', base', T, r)
  <2>1. Tracked(req', base', T, r) /\ Activated(req', base', T, r)
    BY <1>5, <1>7 DEF Tracked, Activated
  <2>2. Resendable(req', T, r)
    BY <1>6, <1>13, <1>17 DEF Resendable, Terminal, Live
  <2>3. Unlisted(T, r)
    BY <1>15, <1>17 DEF Unlisted
  <2>. QED BY <2>1, <2>2, <2>3 DEF Track
<1>23. Seen(req', r)
  BY <1>5 DEF Seen
<1>. QED BY <1>16, <1>18, <1>19, <1>20, <1>21, <1>22, <1>23, OneStep DEF T

\* The call that submits a request is the only one that withholds its
\* callback, and no call below it drops the request unless it has none.
LEMMA SubmittedAlone ==
  ASSUME TypeOK, CompletionInv, SilenceInv, ~Idle, Top.op = "submitted",
         Become(<<>>)
  PROVE  \A h \in Calls(stack') :
           /\ h.op = "submitted" => h.r # Top.r
           /\ ~Clash(Top, h)
<1>1. 1 \in DOMAIN stack /\ stack[1] = Top
  BY DEF Idle, Top, TypeOK
<1>2. stack' = Tail(stack)
  BY DEF Become, TypeOK, Idle
<1>3. \A i \in DOMAIN stack' :
        i + 1 \in DOMAIN stack /\ 1 < i + 1 /\ stack'[i] = stack[i + 1]
  BY <1>2 DEF TypeOK, Idle
<1>4. ASSUME NEW i \in DOMAIN stack'
      PROVE  /\ stack'[i].op = "submitted" => stack'[i].r # Top.r
             /\ ~Clash(Top, stack'[i])
  BY <1>1, <1>3
  DEF CompletionInv, WithheldOnce, SilenceInv, Accounts, Ordered
<1>. QED BY <1>4 DEF Calls

\* The request is on its way, and gets its callback back.
LEMMA QuietSubmitted ==
  ASSUME TypeOK, CompletionInv, SilenceInv, Submitted
  PROVE  SilenceInv'
<1>. DEFINE r == Top.r
            t == Top.some
            S == Calls(stack)
            T == Calls(stack')
<1>1. /\ ~Idle /\ Top.op = "submitted" /\ r \in Requests /\ Top \in S
      /\ Become(<<>>) /\ UNCHANGED net /\ t \in BOOLEAN
      /\ base'.active = base.active /\ base'.first = base.first
      /\ req' = IF req[r].state \in Live
                THEN [req EXCEPT ![r] = [@ EXCEPT !.complete = t,
                                                  !.submitted = TRUE]]
                ELSE req
  BY RunningTop, TopType, TopKnows DEF Submitted, RequestOps, TypeOK, BaseRecord
<1>2. /\ ~req[r].complete /\ req[r].state # "NEW"
      /\ req[r].held /\ (~t => req[r].dropped)
  <2>1. ~req[r].complete /\ req[r].state # "NEW"
    BY <1>1 DEF CompletionInv, CallbackWithheld, Calls
  <2>2. req[r].held /\ (~t => req[r].dropped)
    BY <1>1 DEF SilenceInv, Accounts, Held
  <2>. QED BY <2>1, <2>2
<1>3. /\ \A h \in T : h.op = "submitted" => h.r # r
      /\ \A h \in T : ~Clash(Top, h)
  BY <1>1, SubmittedAlone
<1>4. <<>> \in Frames /\ Calls(<<>>) = {} /\ Goes(<<>>)
  BY <1>1, CallsOfNone DEF Goes
<1>5. /\ \A x \in Requests : x # r => req'[x] = req[x]
      /\ req'[r].calls = req[r].calls /\ req'[r].dropped = req[r].dropped
      /\ req'[r].freed = req[r].freed /\ req'[r].held = req[r].held
      /\ req'[r].registered = req[r].registered
      /\ req'[r].state = req[r].state /\ req'[r].next = req[r].next
      /\ req[r].state \in Live => req'[r].complete = t /\ req'[r].submitted
      /\ req[r].state \notin Live =>
           ~req'[r].complete /\ req'[r].submitted = req[r].submitted
  BY <1>1, <1>2 DEF TypeOK, RequestRecord
<1>6. ASSUME NEW x \in Requests \ {r}
      PROVE  KeptAt(x)
  <2>1. AlikeAt(req, req', x) /\ req'[x].state = req[x].state
    BY <1>5 DEF AlikeAt
  <2>2. ~Lists(Top) /\ Top.r # x
    BY <1>1 DEF Lists
  <2>. QED BY <1>1, <1>4, <2>1, <2>2, OtherKept
<1>7. /\ Dropping(T, r) <=> Dropping(S, r)
      /\ Finishing(T, r) <=> Finishing(S, r)
      /\ Answered(T, r) <=> Answered(S, r)
  <2>. DEFINE K == {"drop", "dropped", "finish", "done"}
  <2>1. /\ {"drop", "dropped"} \subseteq K /\ "finish" \in K /\ "done" \in K
        /\ Top.op \notin K
    BY <1>1
  <2>. HIDE DEF K
  <2>. QED BY <1>4, <2>1, KindGo
<1>8. Listed(T, r) <=> Listed(S, r)
  BY <1>1, <1>4, ListedGo DEF Lists
<1>9. /\ ~Withheld(T, r)
      /\ t => Withheld(S, r) /\ ~Dropping(T, r)
  <2>1. ~Withheld(T, r)
    BY <1>3 DEF Withheld, Withholds
  <2>2. t => Withheld(S, r)
    BY <1>1 DEF Withheld, Withholds
  <2>3. t => ~Dropping(T, r)
    BY <1>1, <1>3 DEF Dropping, Clash, Withholds
  <2>. QED BY <2>1, <2>2, <2>3
<1>10. Account(req, S, r) /\ Track(req, base, S, r)
  BY <1>1 DEF SilenceInv, Accounts, Tracks
<1>11. Held(req', T) /\ Ordered'
  <2>1. \A x \in Requests : /\ req'[x].held = req[x].held
                            /\ req[x].dropped => req'[x].dropped
    BY <1>5
  <2>. QED BY <1>4, <2>1, HeldGo, OrderKept
<1>12. RefersKept
  <2>1. \A x \in Requests : /\ req'[x].next = req[x].next
                            /\ req'[x].state = req[x].state
    BY <1>5
  <2>2. NextRefs(req') = NextRefs(req)
    BY <2>1 DEF NextRefs
  <2>3. BaseRefs(base') \subseteq Known
    BY <1>1, KnownBefore DEF BaseRefs
  <2>. QED BY <1>1, <1>4, <2>1, <2>2, <2>3, KnownBefore, RefersStep
<1>. HIDE DEF S, T, r, t
<1>13. Account(req', T, r)
  <2>1. Heard(req', r)
    BY <1>2, <1>5, <1>10 DEF Account, Heard
  <2>2. Fresh(req', r)
    BY <1>2, <1>5 DEF Fresh
  <2>3. Unheld(req', T, r)
    BY <1>5, <1>7, <1>10 DEF Account, Unheld
  <2>4. FreedHeard(req', r)
    BY <1>2, <1>5, <1>10 DEF Account, Unheld, FreedHeard
  <2>5. EndedHeard(req', T, r) /\ CancelledHeard(req', r)
    BY <1>2, <1>5, <1>7, <1>10 DEF Account, EndedHeard, CancelledHeard, Live, Terminal
  <2>6. DropsHeard(req', T, r)
    BY <1>2, <1>5, <1>7, <1>9, <1>10 DEF Account, DropsHeard
  <2>. QED BY <2>1, <2>2, <2>3, <2>4, <2>5, <2>6 DEF Account
<1>14. Track(req', base', T, r)
  <2>1. Tracked(req', base', T, r)
    BY <1>1, <1>5, <1>7, <1>9, <1>10 DEF Track, Tracked, Activated, Whole
  <2>2. Activated(req', base', T, r) /\ Resendable(req', T, r) /\ Unlisted(T, r)
    BY <1>9 DEF Activated, Resendable, Unlisted
  <2>. QED BY <2>1, <2>2 DEF Track
<1>15. Seen(req, r) => Seen(req', r)
  BY <1>2, <1>5 DEF Seen
<1>. QED BY <1>1, <1>6, <1>11, <1>12, <1>13, <1>14, <1>15, OneStep DEF T

\* The fields of a request whose user cancels it.
LEMMA WithdrawFields ==
  ASSUME NEW q \in RequestMap, NEW r \in Requests
  PROVE  LET o == ObjectCancelReq(q, r)
             u == Withdraw(o, r)
         IN  /\ \A x \in Requests : x # r => o[x] = q[x]
             /\ \A x \in Requests : x # r => u[x] = q[x]
             /\ o[r].complete = q[r].complete /\ ~u[r].complete
             /\ o[r].calls = q[r].calls /\ u[r].calls = q[r].calls
             /\ o[r].submitted = q[r].submitted /\ u[r].submitted = q[r].submitted
             /\ o[r].freed = q[r].freed /\ u[r].freed = q[r].freed
             /\ o[r].held = q[r].held /\ u[r].held = q[r].held
             /\ o[r].state = q[r].state /\ u[r].state = q[r].state
             /\ o[r].next = q[r].next /\ u[r].next = q[r].next
             /\ o[r].dropped /\ u[r].dropped
<1>. DEFINE c == CancelReq(q, r)
            o == ObjectCancelReq(q, r)
            u == Withdraw(o, r)
<1>1. /\ c \in RequestMap
      /\ \A x \in Requests : x # r => c[x] = q[x]
      /\ c[r].complete = q[r].complete /\ c[r].calls = q[r].calls
      /\ c[r].submitted = q[r].submitted /\ c[r].freed = q[r].freed
      /\ c[r].held = q[r].held /\ c[r].state = q[r].state
      /\ c[r].next = q[r].next
  <2>1. c \in RequestMap
    BY CancelReqType
  <2>. QED BY <2>1 DEF CancelReq, RequestMap, RequestRecord
<1>2. o = [c EXCEPT ![r] = [@ EXCEPT !.dropped = TRUE,
                             !.group = IF q[r].dropped THEN q[r].group ELSE None]]
  BY DEF ObjectCancelReq
<1>. HIDE DEF c, o
<1>3. /\ \A x \in Requests : x # r => o[x] = q[x]
      /\ o[r].complete = q[r].complete /\ o[r].calls = q[r].calls
      /\ o[r].submitted = q[r].submitted /\ o[r].freed = q[r].freed
      /\ o[r].held = q[r].held /\ o[r].state = q[r].state
      /\ o[r].next = q[r].next /\ o[r].dropped
  BY <1>1, <1>2 DEF RequestMap, RequestRecord
<1>4. o \in RequestMap
  BY ObjectCancelReqType DEF o
<1>5. /\ \A x \in Requests : x # r => u[x] = o[x]
      /\ ~u[r].complete /\ u[r].calls = o[r].calls
      /\ u[r].submitted = o[r].submitted /\ u[r].freed = o[r].freed
      /\ u[r].held = o[r].held /\ u[r].state = o[r].state
      /\ u[r].next = o[r].next /\ u[r].dropped = o[r].dropped
  BY <1>4 DEF Withdraw, RequestMap, RequestRecord
<1>. HIDE DEF u
<1>6. /\ \A x \in Requests : x # r => u[x] = q[x]
      /\ u[r].calls = q[r].calls /\ u[r].submitted = q[r].submitted
      /\ u[r].freed = q[r].freed /\ u[r].held = q[r].held
      /\ u[r].state = q[r].state /\ u[r].next = q[r].next /\ u[r].dropped
  BY <1>3, <1>5
<1>. QED BY <1>3, <1>5, <1>6 DEF o, u

\* What a cancellation calls.
LEMMA ObjectCancelCallsOf ==
  ASSUME NEW q \in RequestMap, NEW r \in Requests
  PROVE  /\ ObjectCancelCalls(q, r) \in Frames
         /\ \A f \in Calls(ObjectCancelCalls(q, r)) :
              /\ f.op \in {"drop", "unregister"} /\ f.r = r
              /\ f.op = "drop" => ~q[r].dropped /\ q[r].registered
<1>. DEFINE d == Call("drop", r)
            n == Call("unregister", r)
            c == IF ~q[r].dropped /\ q[r].registered THEN <<d>> ELSE <<>>
<1>1. /\ d \in Frame /\ d.op = "drop" /\ d.r = r
      /\ n \in Frame /\ n.op = "unregister" /\ n.r = r
  BY RequestCallType DEF Call, Ops, ObservedOps
<1>. HIDE DEF d, n
<1>2. /\ c \in Frames /\ <<n>> \in Frames /\ Calls(<<n>>) = {n}
      /\ \A f \in Calls(c) : f = d /\ ~q[r].dropped /\ q[r].registered
  <2>1. <<n>> \in Frames /\ Calls(<<n>>) = {n}
    BY <1>1, CallsOfOne
  <2>2. c \in Frames
    BY <1>1, FramesType
  <2>3. CASE ~q[r].dropped /\ q[r].registered
    <3>1. c = <<d>> /\ Calls(<<d>>) = {d}
      BY <2>3, CallsOf
    <3>. QED BY <2>1, <2>2, <2>3, <3>1
  <2>4. CASE ~(~q[r].dropped /\ q[r].registered)
    <3>1. c = <<>> /\ Calls(<<>>) = {}
      BY <2>4, CallsOf
    <3>. QED BY <2>1, <2>2, <3>1
  <2>. QED BY <2>3, <2>4
<1>3. ObjectCancelCalls(q, r) = c \o <<n>>
  BY DEF ObjectCancelCalls, d, n
<1>. HIDE DEF c
<1>4. Calls(c \o <<n>>) = Calls(c) \cup Calls(<<n>>)
  BY <1>2, CallsOf
<1>. QED BY <1>1, <1>2, <1>3, <1>4, ObjectCancelCallsType

\* A request is cancelled: its callback is gone for good.
LEMMA CancelStep ==
  ASSUME TypeOK, SilenceInv, NEW r \in Requests,
         req' = Withdraw(ObjectCancelReq(req, r), r),
         net' = CancelNet(req, r), UNCHANGED base,
         NEW fs \in Frames, Goes(fs), Enter(fs) \/ Top.op = "cancel",
         \A f \in Calls(fs) : /\ f.op \in {"drop", "unregister", "cancel"}
                              /\ f.op = "drop" => f.r = r
  PROVE  SilenceInv'
<1>. DEFINE S == Calls(stack)
            T == Calls(stack')
<1>1. /\ \A x \in Requests : x # r => req'[x] = req[x]
      /\ ~req'[r].complete /\ req'[r].calls = req[r].calls
      /\ req'[r].submitted = req[r].submitted /\ req'[r].freed = req[r].freed
      /\ req'[r].held = req[r].held /\ req'[r].state = req[r].state
      /\ req'[r].next = req[r].next /\ req'[r].dropped
  <2>1. req \in RequestMap
    BY DEF TypeOK, RequestMap
  <2>. QED BY <2>1, WithdrawFields
<1>2. \A f \in Calls(fs) :
        /\ ~Lists(f) /\ f.op \notin {"submitted", "finish", "done", "die"}
        /\ f.op \in Watched => f.r = r
  BY DEF Lists, Watched
<1>3. ASSUME NEW x \in Requests \ {r}
      PROVE  KeptAt(x)
  <2>1. AlikeAt(req, req', x) /\ req'[x].state = req[x].state
    BY <1>1 DEF AlikeAt
  <2>2. Enter(fs) \/ (~Lists(Top) /\ Top.op \notin Watched)
    BY DEF Lists, Watched
  <2>. QED BY <1>2, <2>1, <2>2, OtherKept
<1>4. /\ Withheld(T, r) <=> Withheld(S, r)
      /\ Finishing(T, r) <=> Finishing(S, r)
      /\ Answered(T, r) <=> Answered(S, r)
  <2>. DEFINE K == {"submitted", "finish", "done"}
  <2>1. /\ "submitted" \in K /\ "finish" \in K /\ "done" \in K
        /\ \A f \in Calls(fs) : f.op \notin K
        /\ Enter(fs) \/ Top.op \notin K
    BY <1>2
  <2>. HIDE DEF K
  <2>. QED BY <2>1, KindGo
<1>5. Listed(T, r) <=> Listed(S, r)
  <2>1. Enter(fs) \/ ~Lists(Top)
    BY DEF Lists
  <2>. QED BY <1>2, <2>1, ListedGo
<1>6. Account(req, S, r) /\ Track(req, base, S, r)
  BY DEF SilenceInv, Accounts, Tracks
<1>7. Held(req', T) /\ Ordered'
  <2>1. \A x \in Requests : /\ req'[x].held = req[x].held
                            /\ req[x].dropped => req'[x].dropped
    BY <1>1
  <2>. QED BY <1>2, <2>1, HeldGo, OrderKept
<1>8. RefersKept
  <2>1. \A x \in Requests : /\ req'[x].next = req[x].next
                            /\ req'[x].state = req[x].state
    BY <1>1
  <2>2. NextRefs(req') = NextRefs(req)
    BY <2>1 DEF NextRefs
  <2>3. NetRefs(net') \subseteq NetRefs(net)
    BY CancelNetKeeps DEF TypeOK
  <2>4. \A f \in Calls(fs) : Points(f) \subseteq Known /\ ListOK(f)
    BY PointsNowhere
  <2>. QED BY <2>1, <2>2, <2>3, <2>4, KnownBefore, RefersStep
<1>. HIDE DEF S, T
<1>9. Account(req', T, r)
  BY <1>1, <1>4, <1>6
  DEF Account, Heard, Fresh, Unheld, FreedHeard, EndedHeard, CancelledHeard,
      DropsHeard
<1>10. Track(req', base', T, r)
  BY <1>1, <1>4, <1>5, <1>6
  DEF Track, Tracked, Activated, Resendable, Unlisted, Whole
<1>11. Seen(req', r)
  BY <1>1 DEF Seen
<1>. QED BY <1>3, <1>7, <1>8, <1>9, <1>10, <1>11, OneStep DEF T

\* By its user.
LEMMA QuietCancel ==
  ASSUME TypeOK, SilenceInv, NEW r \in Requests, Cancel(r)
  PROVE  SilenceInv'
<1>. DEFINE fs == ObjectCancelCalls(req, r)
<1>1. /\ req \in RequestMap /\ Enter(fs) /\ UNCHANGED base
      /\ req' = Withdraw(ObjectCancelReq(req, r), r) /\ net' = CancelNet(req, r)
  BY DEF Cancel, TypeOK, RequestMap
<1>2. /\ fs \in Frames
      /\ \A f \in Calls(fs) : f.op \in {"drop", "unregister"} /\ f.r = r
  BY <1>1, ObjectCancelCallsOf
<1>. HIDE DEF fs
<1>3. Goes(fs)
  BY <1>1 DEF Goes
<1>. QED BY <1>1, <1>2, <1>3, CancelStep

\* With its group.
LEMMA QuietCancelNext ==
  ASSUME TypeOK, SilenceInv, CancelNext
  PROVE  SilenceInv'
<1>1. /\ ~Idle /\ Top.op = "cancel" /\ Top \in Frame /\ UNCHANGED base
      /\ req \in RequestMap /\ Top.todo \in SUBSET Requests
  BY RunningTop, TopType DEF CancelNext, TypeOK, RequestMap
<1>2. ASSUME NEW r \in Top.todo,
             req' = Withdraw(ObjectCancelReq(req, r), r),
             net' = CancelNet(req, r),
             Become(ObjectCancelCalls(req, r) \o <<[Top EXCEPT !.todo = @ \ {r}]>>)
      PROVE  SilenceInv'
  <2>. DEFINE c == ObjectCancelCalls(req, r)
              l == [Top EXCEPT !.todo = @ \ {r}]
              fs == c \o <<l>>
  <2>1. r \in Requests
    BY <1>1, <1>2
  <2>2. l \in Frame /\ l.op = "cancel"
    BY <1>1 DEF Frame
  <2>3. /\ c \in Frames
        /\ \A f \in Calls(c) : f.op \in {"drop", "unregister"} /\ f.r = r
    BY <1>1, <2>1, ObjectCancelCallsOf
  <2>4. Goes(fs)
    BY <1>1, <1>2 DEF Goes
  <2>. HIDE DEF c, l
  <2>5. <<l>> \in Frames /\ Calls(<<l>>) = {l}
    BY <2>2, CallsOfOne
  <2>6. fs \in Frames /\ Calls(fs) = Calls(c) \cup {l}
    BY <2>3, <2>5, CallsOfBoth
  <2>. HIDE DEF fs
  <2>7. \A f \in Calls(fs) : /\ f.op \in {"drop", "unregister", "cancel"}
                             /\ f.op = "drop" => f.r = r
    BY <2>2, <2>3, <2>6
  <2>. QED BY <1>1, <1>2, <2>1, <2>4, <2>6, <2>7, CancelStep
<1>3. ASSUME Become(<<>>), UNCHANGED <<req, net>>
      PROVE  SilenceInv'
  <2>1. <<>> \in Frames /\ Mute(<<>>) /\ Goes(<<>>)
    BY <1>1, <1>3, CallsOfNone DEF Mute, Goes
  <2>2. Top.op \notin Watched \cup Listing
    BY <1>1 DEF Watched, Listing
  <2>. QED BY <1>1, <1>3, <2>1, <2>2, StillStep, StillSame
<1>. QED BY <1>2, <1>3 DEF CancelNext

\* A request nobody refers to is freed: its object drops it, and then its
\* callback, if there is one, is not due.
LEMMA QuietFree ==
  ASSUME TypeOK, SilenceInv, NEW r \in Requests, Free(r)
  PROVE  SilenceInv'
<1>. DEFINE c == ObjectCancelCalls(req, r)
            e == Call("finish", r)
            fs == c \o <<e>>
            S == Calls(stack)
            T == Calls(stack')
<1>1. /\ req \in RequestMap /\ Enter(fs) /\ UNCHANGED base
      /\ req' = ObjectCancelReq(req, r) /\ net' = CancelNet(req, r)
      /\ ~req[r].freed /\ ~req[r].held /\ r \notin base.active
      /\ \A i \in DOMAIN stack : r \notin FrameRefs(stack[i])
  BY DEF Free, TypeOK, RequestMap, Garbage, Referenced
<1>2. /\ \A x \in Requests : x # r => req'[x] = req[x]
      /\ req'[r].complete = req[r].complete /\ req'[r].calls = req[r].calls
      /\ req'[r].submitted = req[r].submitted /\ req'[r].freed = req[r].freed
      /\ req'[r].held = req[r].held /\ req'[r].state = req[r].state
      /\ req'[r].next = req[r].next /\ req'[r].dropped
  BY <1>1, WithdrawFields
<1>3. /\ c \in Frames
      /\ \A f \in Calls(c) : /\ f.op \in {"drop", "unregister"} /\ f.r = r
                             /\ f.op = "drop" => ~req[r].dropped /\ req[r].registered
  BY <1>1, ObjectCancelCallsOf
<1>4. e \in Frame /\ e.op = "finish" /\ e.r = r
  BY RequestCallType DEF Call, Ops, ObservedOps
<1>. HIDE DEF c, e
<1>5. fs \in Frames /\ Calls(fs) = Calls(c) \cup {e}
  <2>1. <<e>> \in Frames /\ Calls(<<e>>) = {e}
    BY <1>4, CallsOfOne
  <2>. QED BY <1>3, <2>1, CallsOfBoth
<1>. HIDE DEF fs
<1>6. Goes(fs) /\ T \subseteq Calls(c) \cup {e} \cup S
  <2>1. Goes(fs)
    BY <1>1 DEF Goes
  <2>. QED BY <1>5, <2>1, CallsGo
<1>7. \A f \in S : r \notin FrameRefs(f)
  BY <1>1 DEF Calls
<1>8. ~Dropping(S, r) /\ ~Listed(S, r) /\ ~Answered(S, r)
  <2>1. r # None
    BY ConstantsAssumption
  <2>2. \A f \in S : /\ r \notin f.refs
                     /\ f.op \notin {"scan", "sent", "refused"} => f.r # r
    BY <1>7, <2>1 DEF FrameRefs
  <2>. QED BY <2>2 DEF Dropping, Drops, Listed, Answered
<1>9. \A f \in Calls(fs) : /\ ~Lists(f)
                           /\ f.op \notin {"submitted", "done", "die"}
                           /\ f.op \in Watched => f.r = r
  BY <1>3, <1>4, <1>5 DEF Lists, Watched
<1>10. ASSUME NEW x \in Requests \ {r}
       PROVE  KeptAt(x)
  <2>1. AlikeAt(req, req', x) /\ req'[x].state = req[x].state
    BY <1>2 DEF AlikeAt
  <2>. QED BY <1>1, <1>5, <1>6, <1>9, <2>1, OtherKept
<1>11. /\ Withheld(T, r) <=> Withheld(S, r)
       /\ Answered(T, r) <=> Answered(S, r)
  <2>. DEFINE K == {"submitted", "done"}
  <2>1. /\ "submitted" \in K /\ "done" \in K
        /\ \A f \in Calls(fs) : f.op \notin K
    BY <1>9
  <2>. HIDE DEF K
  <2>. QED BY <1>1, <1>5, <1>6, <2>1, KindGo
<1>12. Listed(T, r) <=> Listed(S, r)
  BY <1>1, <1>5, <1>6, <1>9, ListedGo
<1>13. Account(req, S, r) /\ Track(req, base, S, r)
  BY DEF SilenceInv, Accounts, Tracks
<1>14. Dropping(T, r) => ~req[r].complete \/ ~req[r].submitted
  <2>1. Dropping(T, r) => ~req[r].dropped /\ req[r].registered
    BY <1>3, <1>4, <1>6, <1>8 DEF Dropping, Drops
  <2>. QED BY <1>1, <1>8, <1>13, <2>1 DEF Track, Tracked, Whole
<1>15. Held(req', T) /\ Ordered'
  <2>1. \A x \in Requests : /\ req'[x].held = req[x].held
                            /\ req[x].dropped => req'[x].dropped
    BY <1>2
  <2>. QED BY <1>5, <1>6, <1>9, <2>1, HeldGo, OrderKept
<1>16. RefersKept
  <2>1. \A x \in Requests : /\ req'[x].next = req[x].next
                            /\ req'[x].state = req[x].state
    BY <1>2
  <2>2. NextRefs(req') = NextRefs(req)
    BY <2>1 DEF NextRefs
  <2>3. NetRefs(net') \subseteq NetRefs(net)
    BY <1>1, CancelNetKeeps DEF TypeOK
  <2>4. \A f \in Calls(fs) : Points(f) \subseteq Known /\ ListOK(f)
    BY <1>3, <1>4, <1>5, PointsNowhere
  <2>. QED BY <1>1, <1>5, <1>6, <2>1, <2>2, <2>3, <2>4, KnownBefore, RefersStep
<1>. HIDE DEF S, T
<1>17. Account(req', T, r)
  BY <1>1, <1>2, <1>11, <1>13, <1>14
  DEF Account, Heard, Fresh, Unheld, FreedHeard, EndedHeard, CancelledHeard,
      DropsHeard
<1>18. Track(req', base', T, r)
  BY <1>2, <1>11, <1>12, <1>13
  DEF Track, Tracked, Activated, Resendable, Unlisted, Whole
<1>19. Seen(req, r) => Seen(req', r)
  BY <1>2 DEF Seen
<1>. QED BY <1>10, <1>15, <1>16, <1>17, <1>18, <1>19, OneStep DEF T

\* It is freed.
LEMMA QuietFinish ==
  ASSUME TypeOK, CompletionInv, SilenceInv, Finish
  PROVE  SilenceInv'
<1>. DEFINE r == Top.r
            completes == req[r].complete /\ req[r].submitted
            q == IF completes THEN CompleteReq(req, r) ELSE req
            fs == IF completes THEN Callback(r) ELSE <<>>
            S == Calls(stack)
            T == Calls(stack')
<1>1. /\ ~Idle /\ Top.op = "finish" /\ r \in Requests /\ Top \in S
      /\ req \in RequestMap /\ UNCHANGED <<base, net>>
      /\ req' = [q EXCEPT ![r].freed = TRUE] /\ Become(fs)
  BY RunningTop, TopType, TopKnows DEF Finish, RequestOps, TypeOK, RequestMap
<1>. HIDE DEF r
<1>2. fs \in Frames /\ \A f \in Calls(fs) : f.op = "callback"
  BY <1>1, CallbackType, FramesType, CallsOf DEF Callback, Call, MaybeRequest
<1>3. q \in RequestMap
  BY <1>1, CompleteReqType
<1>4. /\ \A x \in Requests : x # r => q[x] = req[x]
      /\ completes => ~q[r].complete /\ q[r].calls = req[r].calls + 1
      /\ ~completes =>
           q[r].complete = req[r].complete /\ q[r].calls = req[r].calls
      /\ q[r].submitted = req[r].submitted /\ q[r].dropped = req[r].dropped
      /\ q[r].held = req[r].held /\ q[r].registered = req[r].registered
      /\ q[r].serial2 = req[r].serial2
      /\ q[r].state = req[r].state /\ q[r].next = req[r].next
  <2>1. CASE completes
    <3>. DEFINE p == CompleteReq(req, r)
    <3>1. /\ \A x \in Requests : x # r => p[x] = req[x]
          /\ ~p[r].complete /\ p[r].calls = req[r].calls + 1
          /\ p[r].submitted = req[r].submitted /\ p[r].dropped = req[r].dropped
          /\ p[r].held = req[r].held /\ p[r].registered = req[r].registered
          /\ p[r].serial2 = req[r].serial2
          /\ p[r].state = req[r].state /\ p[r].next = req[r].next
      BY <1>1, <2>1, CompleteReqFields
    <3>2. q = p
      BY <2>1
    <3>. HIDE DEF p, q
    <3>. QED BY <2>1, <3>1, <3>2
  <2>2. CASE ~completes
    BY <1>1, <2>2 DEF RequestMap, RequestRecord
  <2>. QED BY <2>1, <2>2
<1>. HIDE DEF q, fs
<1>5. /\ \A x \in Requests : x # r => req'[x] = req[x]
      /\ req'[r].complete = q[r].complete /\ req'[r].calls = q[r].calls
      /\ req'[r].submitted = req[r].submitted /\ req'[r].dropped = req[r].dropped
      /\ req'[r].freed /\ req'[r].held = req[r].held
      /\ req'[r].registered = req[r].registered
      /\ req'[r].serial2 = req[r].serial2
      /\ req'[r].state = req[r].state /\ req'[r].next = req[r].next
  BY <1>1, <1>3, <1>4 DEF RequestMap, RequestRecord
<1>6. Goes(fs)
  BY <1>1 DEF Goes
<1>7. ASSUME NEW x \in Requests \ {r}
      PROVE  KeptAt(x)
  <2>1. AlikeAt(req, req', x) /\ req'[x].state = req[x].state
    BY <1>5 DEF AlikeAt
  <2>2. /\ \A f \in Calls(fs) : ~Lists(f) /\ (f.op \in Watched => f.r # x)
        /\ ~Lists(Top) /\ Top.r # x
    BY <1>1, <1>2 DEF Lists, Watched, r
  <2>. QED BY <1>1, <1>2, <1>6, <2>1, <2>2, OtherKept
<1>8. /\ Dropping(T, r) <=> Dropping(S, r)
      /\ Withheld(T, r) <=> Withheld(S, r)
      /\ Answered(T, r) <=> Answered(S, r)
  <2>. DEFINE K == {"drop", "dropped", "submitted", "done"}
  <2>1. /\ {"drop", "dropped"} \subseteq K /\ "submitted" \in K /\ "done" \in K
        /\ \A f \in Calls(fs) : f.op \notin K
        /\ Top.op \notin K
    BY <1>1, <1>2
  <2>. HIDE DEF K
  <2>. QED BY <1>2, <1>6, <2>1, KindGo
<1>9. Listed(T, r) <=> Listed(S, r)
  BY <1>1, <1>2, <1>6, ListedGo DEF Lists
<1>10. /\ Account(req, S, r) /\ Track(req, base, S, r)
       /\ Finishing(S, r) /\ (req[r].complete => req[r].calls = 0)
  BY <1>1 DEF SilenceInv, Accounts, Tracks, Finishing, CompletionInv,
              CallbackUnused, r
<1>11. Held(req', T) /\ Ordered'
  <2>1. \A x \in Requests : /\ req'[x].held = req[x].held
                            /\ req[x].dropped => req'[x].dropped
    BY <1>5
  <2>2. \A f \in Calls(fs) : f.op \notin {"submitted", "die"}
    BY <1>2
  <2>. QED BY <1>2, <1>6, <2>1, <2>2, HeldGo, OrderKept
<1>12. RefersKept
  <2>1. \A x \in Requests : /\ req'[x].next = req[x].next
                            /\ req'[x].state = req[x].state
    BY <1>5
  <2>2. NextRefs(req') = NextRefs(req)
    BY <2>1 DEF NextRefs
  <2>3. \A f \in Calls(fs) : Points(f) \subseteq Known /\ ListOK(f)
    BY <1>2, PointsNowhere
  <2>. QED BY <1>1, <1>2, <1>6, <2>1, <2>2, <2>3, KnownBefore, RefersStep
<1>. HIDE DEF S, T
<1>13. ~req[r].held
  BY <1>10 DEF Account, Unheld
<1>14. Account(req', T, r)
  <2>1. Heard(req', r) /\ Fresh(req', r)
    <3>1. Heard(req, r) /\ Fresh(req, r)
      BY <1>10 DEF Account
    <3>2. CASE completes
      <4>1. req'[r].calls = 1
        BY <1>4, <1>5, <1>10, <3>2
      <4>. QED BY <1>5, <3>1, <3>2, <4>1 DEF Heard, Fresh
    <3>3. CASE ~completes
      BY <1>4, <1>5, <3>1, <3>3 DEF Heard, Fresh
    <3>. QED BY <3>2, <3>3
  <2>2. Unheld(req', T, r) /\ FreedHeard(req', r)
    BY <1>4, <1>5, <1>13 DEF Unheld, FreedHeard
  <2>3. EndedHeard(req', T, r) /\ CancelledHeard(req', r) /\ DropsHeard(req', T, r)
    BY <1>4, <1>5, <1>8, <1>10 DEF Account, EndedHeard, CancelledHeard, DropsHeard
  <2>. QED BY <2>1, <2>2, <2>3 DEF Account
<1>15. Track(req', base', T, r)
  BY <1>1, <1>4, <1>5, <1>8, <1>9, <1>10
  DEF Track, Tracked, Activated, Resendable, Unlisted, Whole
<1>16. Seen(req, r) => Seen(req', r)
  BY <1>4, <1>5 DEF Seen
<1>. QED BY <1>1, <1>7, <1>11, <1>12, <1>14, <1>15, <1>16, OneStep DEF T

-----------------------------------------------------------------------------
(***************************************************************************)
(* No completion is lost.                                                  *)
(***************************************************************************)

\* Nothing was submitted yet.
LEMMA SilenceInit == Init => SilenceInv
<1>. SUFFICES ASSUME Init
              PROVE  SilenceInv
  OBVIOUS
<1>1. Calls(stack) = {} /\ stack = <<>>
  BY CallsOf DEF Init
<1>2. ASSUME NEW r \in Requests
      PROVE  /\ req[r].state = "NEW" /\ req[r].complete /\ ~req[r].submitted
             /\ ~req[r].freed /\ req[r].next = None
  BY DEF Init
<1>3. base.active = {} /\ base.first = None /\ net.outstanding = {}
  BY DEF Init
<1>4. \A r \in Requests :
        /\ ~Dropping({}, r) /\ ~Withheld({}, r) /\ ~Finishing({}, r)
        /\ ~Answered({}, r) /\ ~Listed({}, r)
  BY DEF Dropping, Withheld, Finishing, Answered, Listed
<1>5. Accounts
  <2>1. ASSUME NEW r \in Requests
        PROVE  Account(req, Calls(stack), r)
    BY <1>1, <1>2, <1>4
    DEF Account, Heard, Fresh, Unheld, FreedHeard, EndedHeard, CancelledHeard,
        DropsHeard
  <2>. QED BY <1>1, <2>1 DEF Accounts, Held, Ordered
<1>6. References
  <2>1. ASSUME NEW r \in Requests
        PROVE  ~Referred(req, base, net, Calls(stack), r)
    <3>1. NextRefs(req) \subseteq {None}
      BY <1>2 DEF NextRefs
    <3>2. BaseRefs(base) \subseteq {None} /\ NetRefs(net) = {}
      BY <1>3 DEF BaseRefs, NetRefs
    <3>3. CallRefs(Calls(stack)) = {}
      BY <1>1 DEF CallRefs
    <3>. QED BY <1>2, <3>1, <3>2, <3>3, ConstantsAssumption DEF Referred
  <2>. QED BY <1>1, <2>1 DEF References
<1>7. Tracks
  BY <1>1, <1>2, <1>4
  DEF Tracks, Track, Tracked, Activated, Resendable, Unlisted
<1>. QED BY <1>5, <1>6, <1>7 DEF SilenceInv

\* And every step keeps the accounts.
LEMMA SilenceNext ==
  ASSUME ~Observed, TypeOK, CompletionInv, SilenceInv, Next
  PROVE  SilenceInv'
<1>1. CASE Event
  BY <1>1, QuietEvents, QuietRetries, QuietRespondDone, QuietSent, QuietTimeout,
     QuietDeath, QuietConfigDeath DEF Event
<1>2. CASE User
  <2>1. CASE \E r \in Requests : Submit(r) \/ Retry(r) \/ Cancel(r) \/ Release(r)
    BY <2>1, QuietSubmit, QuietRetries, QuietCancel, QuietRelease
  <2>2. CASE \E r \in Requests : \E ms \in Timeouts : SetTimeout(r, ms)
    BY <2>2, QuietTimeouts
  <2>3. CASE \E ms \in Timeouts : SetDefaultTimeout(ms)
    BY <2>3, QuietTimeouts
  <2>4. CASE \E g \in Groups : \/ Block(g) \/ Unblock(g) \/ FreeGroup(g)
                               \/ CancelGroup(g)
    BY <2>4, QuietGroups
  <2>5. CASE Finalize
    BY <2>5, QuietFinalize
  <2>. QED BY <1>2, <2>1, <2>2, <2>3, <2>4, <2>5 DEF User
<1>3. CASE Continue
  BY <1>3, QuietReturns, QuietScans, QuietScanSend, QuietScanFail, QuietFailNext,
     QuietExpire, QuietHandleDeath, QuietUnregister, QuietDone, QuietDrop,
     QuietDropped, QuietSubmitted, QuietCancelNext, QuietFree, QuietFinish,
     Unobserved
  DEF Continue
<1>. QED BY <1>1, <1>2, <1>3 DEF Next

\* Every request has its callback or a reason not to: the accounts balance
\* after every step of radio_base.c, radio_request.c and their callers, where
\* the observers of requests only watch.
THEOREM SilenceInvariant ==
  ASSUME ~Observed
  PROVE  Spec => []SilenceInv
<1>1. TypeOK /\ CompletionInv /\ SilenceInv /\ [Next]_vars => SilenceInv'
  <2>1. SilenceInv /\ UNCHANGED vars => SilenceInv'
    BY DEF vars, SilenceInv, Accounts, Held, Ordered, References, Tracks
  <2>. QED BY <2>1, SilenceNext
<1>. QED BY <1>1, SilenceInit, TypeCorrect, CompletionInvariant, PTL DEF Spec

\* Between events no submitted request has ended or been freed without its
\* callback having run once, or having been withdrawn by a cancellation: a
\* failure, a timeout, a death, an answer and a nested submission all tell it,
\* where the observers of requests only watch.
THEOREM NothingIsLost ==
  ASSUME ~Observed
  PROVE  Spec => []NoLostCompletion
<1>1. SilenceInv => NoLostCompletion
  <2>. SUFFICES ASSUME SilenceInv, EventTurn, NEW r \in Requests,
                       req[r].submitted,
                       req[r].state \in Terminal \/ req[r].freed
                PROVE  ~req[r].complete /\ (req[r].calls = 1 \/ req[r].dropped)
    BY DEF NoLostCompletion
  <2>1. Calls(stack) = {}
    BY IdleCalls DEF EventTurn
  <2>2. ~Answered(Calls(stack), r)
    BY <2>1 DEF Answered
  <2>3. /\ Heard(req, r) /\ FreedHeard(req, r)
        /\ EndedHeard(req, Calls(stack), r)
    BY DEF SilenceInv, Accounts, Account
  <2>4. ~req[r].complete
    BY <2>2, <2>3 DEF FreedHeard, EndedHeard
  <2>. QED BY <2>3, <2>4 DEF Heard
<1>. QED BY <1>1, SilenceInvariant, PTL

=============================================================================
