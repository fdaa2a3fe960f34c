--------------------------- MODULE RadioTimerProofs ---------------------------
(***************************************************************************)
(* The timer fires in time, and the queue keeps moving.                    *)
(*                                                                         *)
(* Between events that is what TimerCoversPending and QueueMoves say.      *)
(* While calls are in progress a deadline may have changed and the timer   *)
(* not, or a request may have been queued that nobody has looked at yet.   *)
(* The invariant TimingInv says what is then still to come:                *)
(*   - Followed: the call that follows each scan resets the timer if the   *)
(*     scan sends something, so that a scan which has sent makes good for  *)
(*     what it changed;                                                    *)
(*   - Resets, Asking or Timed: the timer will be reset in any case, or    *)
(*     because the scan has sent, or it fires in time for the requests     *)
(*     that wait for an answer or for their retry;                         *)
(*   - Looked: no request that could be sent at once is in the queue, or a *)
(*     scan will start or is on its way;                                   *)
(*   - Behind: the scan has passed no such request.                        *)
(* The last two, and what Timed says of retries, are about clients without *)
(* groups: where groups take turns, a new owner may find its requests left *)
(* in the queue until the next scan.                                       *)
(***************************************************************************)
EXTENDS RadioTablesProofs

-----------------------------------------------------------------------------
(***************************************************************************)
(* The timer, and the scans that are due.                                  *)
(***************************************************************************)

\* The calls that follow a scan and end with a reset of the timer, most of
\* them if the scan has sent something.
Tails == {"submitted", "retried", "connected", "unblocked", "dropped", "reset"}
FollowedAt(s, i) == i + 1 \in DOMAIN s /\ s[i + 1].op \in Tails
Followed(s) == \A i \in DOMAIN s : s[i].op \in Scanners => FollowedAt(s, i)

\* The timer will be reset, whatever the scans in between send; a scan will
\* start; the call that follows the running scan will reset the timer.
Resets(S) == \E f \in S : f.op \in {"reset", "dropped", "drop"}
Starts(S) == \E f \in S : f.op \in {"start", "drop"}
Asking ==
  /\ ~Idle
  /\ \/ Scans(Top) /\ Top.some
     \/ Top.op \in Tails /\ ret /\ Clean

\* A deadline leaves room for a change of the default timeout.
Dated(q, b) ==
  \A r \in b.active : q[r].deadline >= 1 + TimeoutOf(b, q[r].timeout)
Unscheduled(q) == \A r \in Requests : q[r].state = "NEW" => q[r].scheduled = 0

\* The timer fires in time for the requests that wait for an answer and,
\* where there are no groups, for the retries that are not blocked.
Covers(b, t) == b.timer # 0 /\ b.timer <= t
Allowed(b, x) == b.block \in {None, x}
Timed(q, b, S) ==
  /\ \A r \in b.pending : Covers(b, q[r].deadline)
  /\ Groups = {} =>
       \A x \in Waiting(q, S) : Allowed(b, x) /\ q[x].scheduled # 0
                                  => Covers(b, q[x].scheduled)

\* No request that could be sent at once is left in the queue, unless a scan
\* will start or is on its way; what a scan has passed is not such a request.
Ready(q, b, x) == Allowed(b, x) /\ q[x].scheduled = 0
Looked(q, b, l, S) ==
  \/ ~l.connected \/ Starts(S) \/ \E f \in S : Scans(f)
  \/ \A x \in Waiting(q, S) : ~Ready(q, b, x)
Passed(q, b, S, f) ==
  \E l, s, k :
    /\ Row(q, b, Waiting(q, S), l, s)
    /\ k \in 1 .. l + 1
    /\ f.prev = IF k = 1 THEN None ELSE s[k - 1]
    /\ Ahead(f) = IF k <= l THEN s[k] ELSE None
    /\ \A j \in 1 .. l : j < k => ~Ready(q, b, s[j])
Behind(q, b, S, f) ==
  /\ f.op = "sent" => f.r \in b.pending /\ Allowed(b, f.r)
  /\ \/ f.op = "scan" /\ f.r = None
        /\ \A x \in Waiting(q, S) : ~Ready(q, b, x)
     \/ Passed(q, b, S, f)

Timing ==
  /\ Followed(stack)
  /\ \A f \in Calls(stack) :
       /\ Scans(f) => f.refs = {}
       /\ f.op = "expire" => Starts(Calls(stack)) /\ Resets(Calls(stack))
  /\ Dated(req, base) /\ Unscheduled(req)
  /\ Resets(Calls(stack)) \/ Asking \/ Timed(req, base, Calls(stack))
  /\ Groups = {} =>
       /\ Looked(req, base, link, Calls(stack))
       /\ \A f \in Calls(stack) : Scans(f) => Behind(req, base, Calls(stack), f)

TimingInv == base.alive => Timing

-----------------------------------------------------------------------------
(***************************************************************************)
(* What a step has to show.                                                *)
(***************************************************************************)

\* Each scan that the calls fs make is followed as it should be.
LEMMA FollowedGoing ==
  ASSUME TypeOK, Followed(stack), NEW fs \in Frames, NEW U, Going(fs, U),
         \A i \in DOMAIN fs : fs[i].op \in Scanners =>
           \/ FollowedAt(fs, i)
           \/ i = Len(fs) /\ ~Idle /\ Become(fs) /\ Top.op \in Scanners
  PROVE  Followed(stack')
<1>1. stack \in Seq(Frame) /\ fs \in Seq(Frame) /\ Len(fs) \in Nat
  BY DEF TypeOK, Frames
<1>2. CASE Enter(fs)
  <2>1. stack' = fs \o stack
    BY <1>2 DEF Enter
  <2>2. ASSUME NEW i \in DOMAIN stack', stack'[i].op \in Scanners
        PROVE  FollowedAt(stack', i)
    <3>1. CASE i <= Len(fs)
      <4>1. i \in DOMAIN fs /\ stack'[i] = fs[i]
        BY <1>1, <2>1, <2>2, <3>1
      <4>2. ~(~Idle /\ Become(fs))
        <5>1. SUFFICES ASSUME ~Idle, Become(fs) PROVE FALSE
          OBVIOUS
        <5>2. Len(Tail(stack)) = Len(stack) - 1 /\ Len(stack) \in Nat
              /\ Tail(stack) \in Seq(Frame)
          BY <1>1, <5>1 DEF Idle
        <5>3. /\ Len(fs \o stack) = Len(fs) + Len(stack)
              /\ Len(fs \o Tail(stack)) = Len(fs) + Len(stack) - 1
          BY <1>1, <5>2
        <5>. QED BY <1>1, <2>1, <5>1, <5>2, <5>3 DEF Become
      <4>3. FollowedAt(fs, i)
        BY <2>2, <4>1, <4>2
      <4>4. stack'[i + 1] = fs[i + 1] /\ i + 1 \in DOMAIN stack'
        BY <1>1, <2>1, <4>1, <4>3 DEF FollowedAt
      <4>. QED BY <4>3, <4>4 DEF FollowedAt
    <3>2. CASE i > Len(fs)
      <4>1. i - Len(fs) \in DOMAIN stack /\ stack'[i] = stack[i - Len(fs)]
        BY <1>1, <2>1, <2>2, <3>2
      <4>2. FollowedAt(stack, i - Len(fs))
        BY <2>2, <4>1 DEF Followed
      <4>3. i + 1 \in DOMAIN stack' /\ stack'[i + 1] = stack[(i - Len(fs)) + 1]
        BY <1>1, <2>1, <3>2, <4>1, <4>2 DEF FollowedAt
      <4>. QED BY <4>2, <4>3 DEF FollowedAt
    <3>. QED BY <1>1, <2>1, <2>2, <3>1, <3>2
  <2>. QED BY <2>2 DEF Followed
<1>3. CASE ~Idle /\ Become(fs)
  <2>1. /\ stack' = fs \o Tail(stack) /\ Tail(stack) \in Seq(Frame)
        /\ Len(Tail(stack)) = Len(stack) - 1 /\ Len(stack) \in Nat \ {0}
        /\ \A i \in 1 .. Len(stack) - 1 : Tail(stack)[i] = stack[i + 1]
        /\ Top = stack[1] /\ 1 \in DOMAIN stack
    BY <1>1, <1>3 DEF Idle, Become, Top
  <2>2. ASSUME NEW i \in DOMAIN stack', stack'[i].op \in Scanners
        PROVE  FollowedAt(stack', i)
    <3>1. CASE i <= Len(fs)
      <4>1. i \in DOMAIN fs /\ stack'[i] = fs[i]
        BY <1>1, <2>1, <2>2, <3>1
      <4>2. CASE FollowedAt(fs, i)
        <5>1. stack'[i + 1] = fs[i + 1] /\ i + 1 \in DOMAIN stack'
          BY <1>1, <2>1, <4>1, <4>2 DEF FollowedAt
        <5>. QED BY <4>2, <5>1 DEF FollowedAt
      <4>3. CASE i = Len(fs) /\ Top.op \in Scanners
        <5>1. FollowedAt(stack, 1)
          BY <2>1, <4>3 DEF Followed
        <5>2. 2 \in 1 .. Len(stack) /\ stack[2].op \in Tails
          BY <1>1, <5>1 DEF FollowedAt
        <5>3. i + 1 \in DOMAIN stack' /\ stack'[i + 1] = Tail(stack)[1]
          BY <1>1, <2>1, <4>3, <5>2
        <5>4. Tail(stack)[1] = stack[2]
          BY <2>1, <5>2
        <5>. QED BY <5>2, <5>3, <5>4 DEF FollowedAt
      <4>. QED BY <2>2, <4>1, <4>2, <4>3
    <3>2. CASE i > Len(fs)
      <4>1. /\ i - Len(fs) \in 1 .. Len(stack) - 1
            /\ stack'[i] = Tail(stack)[i - Len(fs)]
        BY <1>1, <2>1, <2>2, <3>2
      <4>2. /\ (i - Len(fs)) + 1 \in DOMAIN stack
            /\ stack'[i] = stack[(i - Len(fs)) + 1]
        BY <1>1, <2>1, <4>1
      <4>3. FollowedAt(stack, (i - Len(fs)) + 1)
        BY <2>2, <4>2 DEF Followed
      <4>4. (i - Len(fs)) + 1 \in 1 .. Len(stack) - 1
        BY <1>1, <4>1, <4>3 DEF FollowedAt
      <4>5. i + 1 \in DOMAIN stack' /\ stack'[i + 1] = Tail(stack)[(i - Len(fs)) + 1]
        BY <1>1, <2>1, <3>2, <4>4
      <4>6. Tail(stack)[(i - Len(fs)) + 1] = stack[((i - Len(fs)) + 1) + 1]
        BY <2>1, <4>4
      <4>. QED BY <4>3, <4>5, <4>6 DEF FollowedAt
    <3>. QED BY <1>1, <2>1, <2>2, <3>1, <3>2
  <2>. QED BY <2>2 DEF Followed
<1>. QED BY <1>2, <1>3 DEF Going

\* The running call is in progress.
LEMMA TopThere ==
  ASSUME TypeOK, ~Idle
  PROVE  Top \in Calls(stack)
<1>1. stack \in Seq(Frame) /\ stack # <<>>
  BY DEF TypeOK, Idle
<1>2. 1 \in DOMAIN stack /\ stack[1] = Top
  BY <1>1 DEF Top
<1>. QED BY <1>2 DEF Calls

\* Outside the scan no scan is on its way.
LEMMA ScansLeft ==
  ASSUME TypeOK, Tables, NEW fs \in Frames, NEW U, Going(fs, U),
         Idle \/ ~Scans(Top), \A f \in Calls(fs) : ~Scans(f)
  PROVE  \A f \in Calls(stack') : ~Scans(f)
<1>1. \A f \in Calls(stack) : ~Scans(f)
  BY SteadyTop DEF Tables, Scans, Steady
<1>. QED BY <1>1, GoingCalls

\* What a step outside the scan has to show.
LEMMA TimingStep ==
  ASSUME TypeOK, Tables, Timing, NEW fs \in Frames, NEW U, Going(fs, U),
         Idle \/ ~Scans(Top),
         \A i \in DOMAIN fs : fs[i].op \in Scanners => FollowedAt(fs, i),
         \A f \in Calls(fs) : ~Scans(f),
         \A f \in Calls(stack') : f.op = "expire" =>
           Starts(Calls(stack')) /\ Resets(Calls(stack')),
         Dated(req', base'), Unscheduled(req'),
         Resets(Calls(stack')) \/ Timed(req', base', Calls(stack')),
         Groups = {} => Looked(req', base', link', Calls(stack'))
  PROVE  Timing'
<1>1. Followed(stack')
  BY FollowedGoing DEF Timing
<1>2. \A f \in Calls(stack') : ~Scans(f)
  BY ScansLeft
<1>. QED BY <1>1, <1>2 DEF Timing

\* A step that makes sure that the timer is reset and the queue scanned.
LEMMA TimingAgain ==
  ASSUME TypeOK, Tables, Timing, NEW fs \in Frames, NEW U, Going(fs, U),
         Idle \/ ~Scans(Top),
         \A i \in DOMAIN fs : fs[i].op \in Scanners => FollowedAt(fs, i),
         \A f \in Calls(fs) : ~Scans(f),
         Starts(Calls(stack')), Resets(Calls(stack')),
         Dated(req', base'), Unscheduled(req')
  PROVE  Timing'
BY TimingStep DEF Looked

\* Calls that leave the list to be failed, the scans and the resets alone.
Plain == {"done", "unregister", "finish", "cancel", "unlink"}
Plainly(fs) ==
  \/ Enter(fs) /\ (Idle \/ ~Clean)
  \/ ~Idle /\ Become(fs) /\ (Top.op \in Plain \/ (Top.op = "fail" /\ Top.todo = {}))

\* They keep what was promised.
LEMMA PlainlyKept ==
  ASSUME TypeOK, Tables, NEW fs \in Frames, Plainly(fs)
  PROVE  \E U : /\ Going(fs, U) /\ ~Asking /\ (Idle \/ ~Scans(Top))
                /\ Calls(stack') = Calls(fs) \cup U
                /\ Resets(Calls(stack)) => Resets(Calls(stack'))
                /\ Starts(Calls(stack)) => Starts(Calls(stack'))
                /\ \A x : Out(Calls(stack), x) => Out(Calls(stack'), x)
                /\ U \subseteq Calls(stack)
<1>1. PICK U : Going(fs, U) /\ (Enter(fs) \/ Top.op \in Plain \cup {"fail"})
               /\ (~Enter(fs) => Top.op \in Plain \/ (Top.op = "fail" /\ Top.todo = {}))
  BY DEF Plainly, Going
<1>2. /\ Calls(stack') = Calls(fs) \cup U
      /\ U \subseteq Calls(stack) /\ Calls(stack) \subseteq U \cup {Top}
      /\ Enter(fs) => U = Calls(stack)
  BY <1>1, GoingCalls
<1>3. Idle \/ ~Scans(Top)
  <2>1. CASE ~Idle /\ ~Clean
    <3>1. Top \in Calls(stack)
      BY <2>1, TopThere
    <3>2. Top.op \notin Steady
      BY <2>1, <3>1 DEF Tables, Fitting
    <3>. QED BY <3>2 DEF Steady, Scans
  <2>2. CASE Top.op \in Plain \cup {"fail"}
    BY <2>2 DEF Plain, Scans
  <2>. QED BY <2>1, <2>2 DEF Plainly
<1>4. ~Asking
  BY <1>3 DEF Plainly, Asking, Plain, Tails
<1>5. /\ Resets(Calls(stack)) => Resets(Calls(stack'))
      /\ Starts(Calls(stack)) => Starts(Calls(stack'))
  BY <1>1, <1>2 DEF Resets, Starts, Plain
<1>6. \A x : Out(Calls(stack), x) => Out(Calls(stack'), x)
  BY <1>1, <1>2 DEF Out, Leaving, Ending, Plain
<1>. QED BY <1>1, <1>2, <1>3, <1>4, <1>5, <1>6

\* What such a step has to show.
LEMMA TimingKept ==
  ASSUME TypeOK, Tables, Timing, NEW fs \in Frames, Plainly(fs),
         \A i \in DOMAIN fs : fs[i].op \in Scanners => FollowedAt(fs, i),
         \A f \in Calls(fs) : ~Scans(f) /\ f.op # "expire",
         Dated(req', base'), Unscheduled(req'),
         base'.timer = base.timer, base'.block = base.block,
         base'.pending \subseteq base.pending,
         \A x \in base'.pending : req'[x].deadline = req[x].deadline,
         \A x \in Waiting(req', Calls(stack')) :
           \/ x \in Waiting(req, Calls(stack)) /\ req'[x].scheduled = req[x].scheduled
           \/ Starts(Calls(stack')) /\ req'[x].scheduled = 0,
         link'.connected => link.connected \/ Starts(Calls(stack'))
  PROVE  Timing'
<1>. DEFINE S == Calls(stack)
            T == Calls(stack')
<1>1. PICK U : /\ Going(fs, U) /\ ~Asking /\ (Idle \/ ~Scans(Top))
               /\ T = Calls(fs) \cup U /\ U \subseteq S
               /\ Resets(S) => Resets(T)
               /\ Starts(S) => Starts(T)
  BY PlainlyKept
<1>. HIDE DEF S, T
<1>2. \A f \in T : f.op = "expire" => Starts(T) /\ Resets(T)
  BY <1>1 DEF Timing, S
<1>3. Resets(T) \/ Timed(req', base', T)
  <2>1. CASE Timed(req, base, S)
    BY <2>1 DEF Timed, Covers, Allowed, S, T
  <2>. QED BY <1>1, <2>1 DEF Timing, S
<1>4. ASSUME Groups = {}
      PROVE  Looked(req', base', link', T)
  <2>1. Looked(req, base, link, S)
    BY <1>4 DEF Timing, S
  <2>2. ~\E f \in S : Scans(f)
    BY <1>1, SteadyTop DEF Tables, Scans, Steady, S
  <2>3. CASE ~Starts(T)
    <3>1. ~Starts(S) /\ (link'.connected => link.connected)
      BY <1>1, <2>3 DEF T
    <3>2. \A x \in Waiting(req', T) :
            x \in Waiting(req, S) /\ req'[x].scheduled = req[x].scheduled
      BY <2>3 DEF S, T
    <3>. QED BY <2>1, <2>2, <3>1, <3>2 DEF Looked, Ready, Allowed
  <2>. QED BY <2>3 DEF Looked
<1>. QED BY <1>1, <1>2, <1>3, <1>4, TimingStep DEF T

\* The steps that leave deadlines, schedules and tables alone.
ClockSame(c, d) ==
  /\ d.deadline = c.deadline /\ d.timeout = c.timeout
  /\ d.scheduled = c.scheduled
  /\ d.state \in {"NEW", "QUEUED"} => d.state = c.state
TimerSame(b, c) ==
  /\ c.timer = b.timer /\ c.timeout = b.timeout /\ c.block = b.block
  /\ c.active = b.active /\ c.pending = b.pending

LEMMA TimingSame ==
  ASSUME TypeOK, Tables, Timing, NEW fs \in Frames, Plainly(fs),
         \A i \in DOMAIN fs : fs[i].op \in Scanners => FollowedAt(fs, i),
         \A f \in Calls(fs) : ~Scans(f) /\ f.op # "expire",
         \A x \in Requests : ClockSame(req[x], req'[x]),
         TimerSame(base, base'),
         link'.connected => link.connected \/ Starts(Calls(stack'))
  PROVE  Timing'
<1>1. base.active \subseteq Requests /\ base.pending \subseteq Requests
  BY DEF TypeOK, BaseRecord
<1>2. Dated(req', base') /\ Unscheduled(req')
  BY <1>1 DEF Timing, Dated, Unscheduled, TimerSame, ClockSame, TimeoutOf
<1>3. \A x : Out(Calls(stack), x) => Out(Calls(stack'), x)
  BY PlainlyKept
<1>4. \A x \in Waiting(req', Calls(stack')) :
        x \in Waiting(req, Calls(stack)) /\ req'[x].scheduled = req[x].scheduled
  BY <1>3 DEF Waiting, ClockSame
<1>. QED BY <1>1, <1>2, <1>4, TimingKept DEF TimerSame, ClockSame

-----------------------------------------------------------------------------
(***************************************************************************)
(* Deadlines and schedules.                                                *)
(***************************************************************************)

\* The deadline stays, the schedule at most ends.
ClockAt(c, d) ==
  /\ d.deadline = c.deadline /\ d.timeout = c.timeout
  /\ d.scheduled \in {c.scheduled, 0}
Clocks(q, u) == \A x \in Requests : ClockAt(q[x], u[x])

\* The procedures of radio_base.c and radio_request.c.
LEMMA ClocksKept ==
  ASSUME NEW q \in RequestMap, NEW r \in Requests, NEW b, NEW p
  PROVE  /\ Clocks(q, q) /\ Clocks(q, CancelReq(q, r)) /\ Clocks(q, QueueReq(q, b, r))
         /\ Clocks(q, UnlinkReq(q, r, p)) /\ Clocks(q, DeactivateReq(q, b, r))
         /\ Clocks(q, CompleteReq(q, r)) /\ Clocks(q, FailReq(q, r))
         /\ Clocks(q, ObjectCancelReq(q, r))
         /\ Clocks(q, Withdraw(ObjectCancelReq(q, r), r))
<1>1. Clocks(q, q)
  BY DEF Clocks, ClockAt
<1>2. Clocks(q, CancelReq(q, r))
  BY DEF CancelReq, Clocks, ClockAt, RequestMap, RequestRecord
<1>3. Clocks(q, QueueReq(q, b, r))
  BY DEF QueueReq, Clocks, ClockAt, RequestMap, RequestRecord
<1>4. \A v : Clocks(q, UnlinkReq(q, r, v))
  BY DEF UnlinkReq, Clocks, ClockAt, RequestMap, RequestRecord
<1>5. Clocks(q, DeactivateReq(q, b, r))
  BY <1>1, <1>4 DEF DeactivateReq
<1>6. Clocks(q, CompleteReq(q, r))
  BY DEF CompleteReq, Clocks, ClockAt, RequestMap, RequestRecord
<1>7. Clocks(q, FailReq(q, r))
  BY DEF FailReq, CompleteReq, Clocks, ClockAt, RequestMap, RequestRecord
<1>. DEFINE u == ObjectCancelReq(q, r)
<1>8. Clocks(q, u)
  BY DEF ObjectCancelReq, CancelReq, Clocks, ClockAt, RequestMap, RequestRecord
<1>9. u \in RequestMap
  BY ObjectCancelReqType
<1>10. Clocks(q, Withdraw(u, r))
  <2>. HIDE DEF u
  <2>. QED BY <1>8, <1>9 DEF Withdraw, Clocks, ClockAt, RequestMap, RequestRecord
<1>. QED BY <1>1, <1>2, <1>3, <1>4, <1>5, <1>6, <1>7, <1>8, <1>10

\* Nothing becomes new again.
LEMMA UnscheduledKept ==
  ASSUME Timing, LifeStep, Clocks(req, req')
  PROVE  Unscheduled(req')
<1>1. \A x \in Requests : req'[x].state = "NEW" => req[x].state = "NEW"
  BY DEF LifeStep, LifeKept, LifeOne, LifeDies, LifeMoves, LifeAt, Passes, Transmits,
         Retries, Completes, Fails, Underway
<1>. QED BY <1>1 DEF Timing, Unscheduled, Clocks, ClockAt

-----------------------------------------------------------------------------
(***************************************************************************)
(* Steps that leave the clocks alone.                                      *)
(***************************************************************************)
Unscanned(fs) ==
  /\ \A i \in DOMAIN fs : fs[i].op \in Scanners => FollowedAt(fs, i)
  /\ \A f \in Calls(fs) : ~Scans(f) /\ f.op # "expire"

\* Calls that neither scan nor start a scan.
LEMMA UnscannedCalls ==
  ASSUME NEW fs \in Frames,
         \A f \in Calls(fs) : f.op \notin Scanners /\ f.op # "expire"
  PROVE  Unscanned(fs)
BY DEF Unscanned, Calls, Scans, Scanners

\* No call, and one call.
LEMMA UnscannedFew ==
  /\ <<>> \in Frames /\ Unscanned(<<>>) /\ Calls(<<>>) = {}
  /\ \A f \in Frame : f.op \notin Scanners /\ f.op # "expire" =>
       <<f>> \in Frames /\ Calls(<<f>>) = {f} /\ Unscanned(<<f>>)
BY CallsOfNone, CallsOfOne, UnscannedCalls

\* A scan and the call that follows it, after calls that do not scan.
LEMMA StartFirst ==
  ASSUME NEW h \in Frame, h.op \in Tails
  PROVE  /\ <<Call("start", None), h>> \in Frames
         /\ Calls(<<Call("start", None), h>>) = {Call("start", None), h}
         /\ Unscanned(<<Call("start", None), h>>)
         /\ Starts(Calls(<<Call("start", None), h>>))
<1>. DEFINE f == Call("start", None)
            fs == <<f, h>>
<1>1. f \in Frame /\ f.op = "start"
  BY PlainFrames DEF Call
<1>. HIDE DEF f
<1>2. fs \in Frames /\ Calls(fs) = {f, h}
  BY <1>1, CallsOfTwo
<1>3. Len(fs) = 2 /\ fs[1] = f /\ fs[2] = h /\ DOMAIN fs = 1 .. 2
  OBVIOUS
<1>. HIDE DEF fs
<1>4. \A i \in DOMAIN fs : fs[i].op \in Scanners => FollowedAt(fs, i)
  <2>1. h.op \notin Scanners
    BY DEF Tails, Scanners
  <2>2. FollowedAt(fs, 1)
    BY <1>3 DEF FollowedAt
  <2>. QED BY <1>3, <2>1, <2>2
<1>5. Unscanned(fs)
  BY <1>1, <1>2, <1>4 DEF Unscanned, Scans, Tails
<1>6. Starts(Calls(fs))
  BY <1>1, <1>2 DEF Starts
<1>. QED BY <1>2, <1>5, <1>6 DEF f, fs

\* Two lists of such calls, one after the other.
LEMMA UnscannedBoth ==
  ASSUME NEW fs \in Frames, NEW gs \in Frames, Unscanned(fs), Unscanned(gs)
  PROVE  /\ fs \o gs \in Frames /\ Calls(fs \o gs) = Calls(fs) \cup Calls(gs)
         /\ Unscanned(fs \o gs)
<1>1. fs \o gs \in Frames /\ Calls(fs \o gs) = Calls(fs) \cup Calls(gs)
  BY CallsOfBoth
<1>2. /\ fs \in Seq(Frame) /\ gs \in Seq(Frame)
      /\ Len(fs) \in Nat /\ Len(gs) \in Nat /\ Len(fs \o gs) = Len(fs) + Len(gs)
      /\ \A i \in 1 .. Len(fs) : (fs \o gs)[i] = fs[i]
      /\ \A i \in Len(fs) + 1 .. Len(fs) + Len(gs) : (fs \o gs)[i] = gs[i - Len(fs)]
      /\ DOMAIN fs = 1 .. Len(fs) /\ DOMAIN gs = 1 .. Len(gs)
      /\ DOMAIN (fs \o gs) = 1 .. Len(fs) + Len(gs)
  BY DEF Frames
<1>3. ASSUME NEW i \in DOMAIN (fs \o gs), (fs \o gs)[i].op \in Scanners
      PROVE  FollowedAt(fs \o gs, i)
  <2>1. CASE i \in 1 .. Len(fs)
    <3>1. i + 1 \in 1 .. Len(fs) /\ fs[i + 1].op \in Tails
      BY <1>2, <1>3, <2>1 DEF Unscanned, FollowedAt
    <3>. QED BY <1>2, <3>1 DEF FollowedAt
  <2>2. CASE i \notin 1 .. Len(fs)
    <3>1. i \in Len(fs) + 1 .. Len(fs) + Len(gs) /\ i - Len(fs) \in 1 .. Len(gs)
      BY <1>2, <2>2
    <3>2. /\ (i - Len(fs)) + 1 \in 1 .. Len(gs)
          /\ gs[(i - Len(fs)) + 1].op \in Tails
      BY <1>2, <1>3, <3>1 DEF Unscanned, FollowedAt
    <3>3. i + 1 \in Len(fs) + 1 .. Len(fs) + Len(gs)
          /\ (i + 1) - Len(fs) = (i - Len(fs)) + 1
      BY <1>2, <3>1, <3>2
    <3>. QED BY <1>2, <3>2, <3>3 DEF FollowedAt
  <2>. QED BY <2>1, <2>2
<1>. QED BY <1>1, <1>3 DEF Unscanned

\* Requests leave their groups.
LEMMA ClockUngroup ==
  ASSUME TypeOK, NEW G, req' = Ungroup(G), NEW x \in Requests
  PROVE  ClockSame(req[x], req'[x])
<1>1. req[x] \in RequestRecord
  BY DEF TypeOK
<1>2. req'[x] = req[x] \/ req'[x] = [req[x] EXCEPT !.group = None]
  BY DEF Ungroup
<1>. QED BY <1>1, <1>2 DEF ClockSame, RequestRecord

\* The clock, late answers, users who let requests go, groups that wait.
LEMMA TimingQuiet ==
  ASSUME TypeOK, Tables, Timing, MaxDepth = 0,
         \/ Tick \/ RespondUnknown
         \/ \E r \in Requests : Release(r)
         \/ \E g \in Groups : Block(g)
  PROVE  Timing'
<1>1. UNCHANGED link /\ (EventTurn \/ UserTurn)
  BY DEF Tick, RespondUnknown, Release, Block
<1>2. Idle
  BY <1>1, UsersIdle DEF EventTurn
<1>3. Enter(<<>>)
  <2>1. UNCHANGED stack \/ Enter(Callback(None))
    BY DEF Tick, RespondUnknown, Release, Block
  <2>. QED BY <2>1, NoCalls, NoHandler
<1>4. TimerSame(base, base')
  <2>1. \/ base' = base \/ \E g : base' = [base EXCEPT !.owner = g]
        \/ \E w : base' = [base EXCEPT !.waiting = w]
    BY Zenon DEF Tick, RespondUnknown, Release, Block
  <2>. QED BY <2>1 DEF TimerSame, TypeOK, BaseRecord
<1>5. \A x \in Requests : ClockSame(req[x], req'[x])
  <2>1. req' = req \/ \E r \in Requests : req' = [req EXCEPT ![r].held = FALSE]
    BY DEF Tick, RespondUnknown, Release, Block
  <2>2. req \in [Requests -> RequestRecord]
    BY DEF TypeOK
  <2>3. ASSUME NEW r \in Requests, req' = [req EXCEPT ![r].held = FALSE],
               NEW x \in Requests
        PROVE  ClockSame(req[x], req'[x])
    <3>1. req'[x] = req[x] \/ req'[x] = [req[x] EXCEPT !.held = FALSE]
      BY <2>2, <2>3
    <3>2. req[x] \in RequestRecord
      BY <2>2
    <3>. QED BY <3>1, <3>2 DEF ClockSame, RequestRecord
  <2>. QED BY <2>1, <2>3 DEF ClockSame
<1>6. Plainly(<<>>) /\ <<>> \in Frames /\ Unscanned(<<>>)
  BY <1>2, <1>3, UnscannedFew DEF Plainly
<1>. QED BY <1>1, <1>4, <1>5, <1>6, TimingSame DEF Unscanned

\* The owner goes, and the next scan is due; members leave their group.
LEMMA TimingUnblock ==
  ASSUME TypeOK, Tables, Timing, MaxDepth = 0,
         NEW g \in Groups, Unblock(g) \/ FreeGroup(g)
  PROVE  Timing'
<1>0. base \in BaseRecord
  BY DEF TypeOK
<1>1. UserTurn /\ UNCHANGED <<req, net, link>>
  BY DEF Unblock, FreeGroup
<1>2. TimerSame(base, base')
  <2>1. UnblockBase(g) \in BaseRecord
    BY <1>0, UnblockBaseType
  <2>2. TimerSame(base, UnblockBase(g))
    BY <1>0 DEF TimerSame, UnblockBase, BaseRecord
  <2>3. base' = UnblockBase(g) \/ base' = [UnblockBase(g) EXCEPT !.groups = @ \ {g}]
    BY DEF Unblock, FreeGroup
  <2>. QED BY <2>1, <2>2, <2>3 DEF TimerSame, BaseRecord
<1>3. UnblockCalls(g) \in Frames /\ Unscanned(UnblockCalls(g))
  <2>. DEFINE h == Call("unblocked", None)
              fs == <<Call("start", None), h>>
  <2>1. h \in Frame /\ h.op \in Tails
    BY PlainCallType DEF Ops, RequestOps, Call, Tails
  <2>2. fs \in Frames /\ Unscanned(fs)
    BY <2>1, StartFirst
  <2>3. UnblockCalls(g) = fs \/ UnblockCalls(g) = <<>>
    BY <2>2, NoHandler, NoneFirst DEF UnblockCalls
  <2>. HIDE DEF fs
  <2>. QED BY <2>2, <2>3, UnscannedFew
<1>4. \E fs \in Frames : Enter(fs) /\ Unscanned(fs)
  <2>1. CASE Unblock(g)
    BY <1>3, <2>1 DEF Unblock
  <2>2. CASE FreeGroup(g)
    <3>. DEFINE f == [Call("unlink", None) EXCEPT !.g = g]
    <3>1. f \in Frame /\ f.op = "unlink"
      <4>1. Call("unlink", None) \in Frame
        BY PlainCallType DEF Ops, RequestOps
      <4>. QED BY <4>1 DEF Frame, MaybeGroup, Call
    <3>2. Enter(UnblockCalls(g) \o <<f>>)
      BY <2>2 DEF FreeGroup
    <3>. HIDE DEF f
    <3>3. <<f>> \in Frames /\ Calls(<<f>>) = {f}
      BY <3>1, CallsOfOne
    <3>4. Unscanned(<<f>>)
      BY <3>1, <3>3, UnscannedFew DEF Scanners
    <3>. QED BY <1>3, <3>2, <3>3, <3>4, UnscannedBoth
  <2>. QED BY <2>1, <2>2
<1>5. PICK fs \in Frames : Plainly(fs) /\ Unscanned(fs)
  BY <1>1, <1>4, UsersIdle DEF Plainly
<1>6. \A x \in Requests : ClockSame(req[x], req'[x])
  BY <1>1 DEF ClockSame
<1>. QED BY <1>1, <1>2, <1>5, <1>6, TimingSame DEF Unscanned

\* The instance connects: a scan follows.
LEMMA TimingConnected ==
  ASSUME TypeOK, Tables, Timing, MaxDepth = 0, Connected
  PROVE  Timing'
<1>. DEFINE h == Call("connected", None)
            fs == <<Call("start", None), h>>
<1>1. h \in Frame /\ h.op \in Tails
  BY PlainFrames DEF Call, Tails
<1>2. fs \in Frames /\ Unscanned(fs) /\ Starts(Calls(fs))
  BY <1>1, StartFirst
<1>3. Idle /\ Enter(fs) /\ UNCHANGED <<req, base>>
  BY <1>2, NoHandler, NoneFirst DEF Connected, EventTurn
<1>. HIDE DEF fs
<1>4. Plainly(fs)
  BY <1>3 DEF Plainly
<1>5. Starts(Calls(stack'))
  BY <1>2, <1>3, GoingCalls DEF Going, Starts
<1>6. TimerSame(base, base') /\ \A x \in Requests : ClockSame(req[x], req'[x])
  BY <1>3 DEF TimerSame, ClockSame
<1>. QED BY <1>2, <1>4, <1>5, <1>6, TimingSame DEF Unscanned

\* The config dies, and a group is cancelled.
LEMMA TimingBegins ==
  ASSUME TypeOK, Tables, Timing, MaxDepth = 0,
         ConfigDeath \/ \E g \in Groups : CancelGroup(g)
  PROVE  Timing'
<1>1. Idle /\ UNCHANGED base
  BY UsersIdle DEF ConfigDeath, CancelGroup, EventTurn
<1>2. PICK f \in Frame : Enter(<<f>>) /\ f.op \in {"die", "cancel"}
  <2>1. CASE ConfigDeath
    <3>1. Call("die", None) \in Frame /\ Call("die", None).op = "die"
      BY PlainCallType DEF Ops, RequestOps, Call
    <3>2. <<Call("die", None)>> \in Frames
      BY <3>1, CallsOfOne
    <3>3. Enter(<<Call("die", None)>>)
      BY <2>1, <3>2, NoHandler, NoneFirst DEF ConfigDeath
    <3>. QED BY <3>1, <3>3
  <2>2. ASSUME NEW g \in Groups, CancelGroup(g)
        PROVE  \E f \in Frame : Enter(<<f>>) /\ f.op \in {"die", "cancel"}
    <3>1. Members(g) \in SUBSET Requests
      BY DEF Members
    <3>2. ListCall("cancel", Members(g)) \in Frame
          /\ ListCall("cancel", Members(g)).op = "cancel"
      BY <3>1, ListCallType DEF ListCall, Call
    <3>. QED BY <2>2, <3>2 DEF CancelGroup
  <2>. QED BY <2>1, <2>2
<1>3. <<f>> \in Frames /\ Calls(<<f>>) = {f}
  BY CallsOfOne
<1>4. Unscanned(<<f>>)
  BY <1>2, <1>3, UnscannedFew DEF Scanners
<1>5. Plainly(<<f>>)
  BY <1>1, <1>2 DEF Plainly
<1>6. \A x \in Requests : ClockSame(req[x], req'[x])
  <2>1. req' = req \/ \E G : req' = Ungroup(G)
    BY DEF ConfigDeath, CancelGroup
  <2>. QED BY <2>1, ClockUngroup DEF ClockSame
<1>7. link'.connected => link.connected
  BY DEF ConfigDeath, CancelGroup
<1>8. TimerSame(base, base')
  BY <1>1 DEF TimerSame
<1>. QED BY <1>3, <1>4, <1>5, <1>6, <1>7, <1>8, TimingSame DEF Unscanned

\* Calls that end, or complete a request.
LEMMA TimingEnds ==
  ASSUME TypeOK, Tables, Timing, MaxDepth = 0,
         \/ Unlink \/ Done \/ Unregister \/ Finish
         \/ (FailNext \/ CancelNext) /\ Top.todo = {}
  PROVE  Timing'
<1>0. req \in RequestMap
  BY DEF TypeOK, RequestMap
<1>1. /\ UNCHANGED <<base, link>> /\ ~Idle
      /\ Top.op \in Plain \/ (Top.op = "fail" /\ Top.todo = {})
  BY RunningTop DEF Unlink, Done, Unregister, Finish, FailNext, CancelNext, Plain
<1>2. Become(<<>>)
  BY NoHandler DEF Unlink, Done, Unregister, Finish, FailNext, CancelNext, CompleteCalls
<1>3. \A x \in Requests : ClockSame(req[x], req'[x])
  <2>1. CASE req' = req
    BY <2>1 DEF ClockSame
  <2>2. ASSUME NEW G, req' = Ungroup(G)
        PROVE  \A x \in Requests : ClockSame(req[x], req'[x])
    BY <2>2, ClockUngroup
  <2>3. CASE Done
    BY <1>0, <2>3 DEF Done, CompleteReq, ClockSame, RequestMap, RequestRecord
  <2>4. CASE Unregister
    <3>1. req' = req \/ req' = [req EXCEPT ![Top.r] = [@ EXCEPT !.registered = FALSE,
                                                  !.serial2 = 0]]
      BY <2>4, Zenon DEF Unregister
    <3>2. ASSUME NEW x \in Requests
          PROVE  \/ req'[x] = req[x]
                 \/ req'[x] = [req[x] EXCEPT !.registered = FALSE, !.serial2 = 0]
      BY <1>0, <3>1 DEF RequestMap
    <3>3. \A x \in Requests : req[x] \in RequestRecord
      BY <1>0 DEF RequestMap
    <3>. QED BY <3>2, <3>3 DEF ClockSame, RequestRecord
  <2>5. CASE Finish
    <3>. DEFINE r == Top.r
                c == CompleteReq(req, r)
    <3>1. c \in RequestMap /\ \A x \in Requests : ClockSame(req[x], c[x])
      <4>1. r \in Requests
        BY <2>5, TopType, RunningTop DEF Finish, RequestOps
      <4>2. c \in RequestMap
        BY <1>0, <4>1, CompleteReqType
      <4>. QED BY <1>0, <4>2 DEF CompleteReq, ClockSame, RequestMap, RequestRecord
    <3>2. req' = [c EXCEPT ![r].freed = TRUE] \/ req' = [req EXCEPT ![r].freed = TRUE]
      BY <2>5, Zenon DEF Finish
    <3>. HIDE DEF c, r
    <3>. QED BY <1>0, <3>1, <3>2 DEF ClockSame, RequestMap, RequestRecord
  <2>6. \/ req' = req \/ (\E G : req' = Ungroup(G)) \/ Done \/ Unregister \/ Finish
    BY DEF Unlink, FailNext, CancelNext
  <2>. QED BY <2>1, <2>2, <2>3, <2>4, <2>5, <2>6
<1>4. Plainly(<<>>) /\ <<>> \in Frames /\ Unscanned(<<>>)
  BY <1>1, <1>2, UnscannedFew DEF Plainly
<1>5. TimerSame(base, base')
  BY <1>1 DEF TimerSame
<1>. QED BY <1>1, <1>3, <1>4, <1>5, TimingSame DEF Unscanned

-----------------------------------------------------------------------------
(***************************************************************************)
(* Requests that enter the queue, and requests that are cancelled.         *)
(***************************************************************************)

\* One procedure after the other.
LEMMA ClocksThen ==
  ASSUME NEW q, NEW u, NEW w, Clocks(q, u), Clocks(u, w)
  PROVE  Clocks(q, w)
BY DEF Clocks, ClockAt

\* No request gets another deadline.
LEMMA DatedKept ==
  ASSUME NEW q, NEW u, NEW b \in BaseRecord, NEW c, Dated(q, b), Clocks(q, u),
         c.active \subseteq b.active, c.timeout = b.timeout
  PROVE  Dated(u, c)
BY DEF Dated, Clocks, ClockAt, TimeoutOf, BaseRecord

\* A request is submitted.
LEMMA TimingSubmit ==
  ASSUME TypeOK, Tables, Timing, NEW r \in Requests, Submit(r)
  PROVE  Timing'
<1>. DEFINE p == QueueReq(req, base, r)
            d == now + TimeoutOf(base, req[r].timeout)
            h == [Call("submitted", r) EXCEPT !.some = req[r].complete]
            fs == <<Call("start", None), h>>
<1>1. /\ UserTurn /\ req[r].state = "NEW" /\ UNCHANGED link /\ Enter(fs)
      /\ req' = [p EXCEPT ![r] = [@ EXCEPT !.complete = FALSE, !.deadline = d]]
      /\ base' = [QueueBase(base, r) EXCEPT !.active = @ \cup {r}]
  BY DEF Submit
<1>2. /\ Idle /\ req \in RequestMap /\ base \in BaseRecord
      /\ p \in RequestMap /\ Clocks(req, p)
  BY <1>1, UsersIdle, QueueReqType, ClocksKept DEF TypeOK, RequestMap
<1>3. h \in Frame /\ h.op = "submitted"
  <2>1. Call("submitted", r) \in Frame /\ req[r].complete \in BOOLEAN
    BY <1>2, RequestCallType DEF Ops, ObservedOps, RequestMap, RequestRecord
  <2>. QED BY <2>1 DEF Frame, Call
<1>. HIDE DEF h
<1>4. fs \in Frames /\ Unscanned(fs) /\ Starts(Calls(fs))
  BY <1>3, StartFirst DEF Tails
<1>5. Plainly(fs)
  BY <1>1, <1>2 DEF Plainly
<1>. HIDE DEF fs
<1>6. Starts(Calls(stack')) /\ \A x : Out(Calls(stack), x) => Out(Calls(stack'), x)
  <2>1. Calls(stack') = Calls(fs) \cup Calls(stack)
    BY <1>1, <1>4, GoingCalls DEF Going
  <2>. QED BY <1>4, <2>1 DEF Starts, Out, Leaving, Ending
<1>7. ASSUME NEW x \in Requests
      PROVE  /\ p[x].timeout = req[x].timeout /\ p[x].deadline = req[x].deadline
             /\ p[x].state = IF x = r THEN "QUEUED" ELSE req[x].state
             /\ p[x].scheduled = req[x].scheduled
  <2>1. p[x].timeout = req[x].timeout /\ p[x].deadline = req[x].deadline
    BY <1>2 DEF Clocks, ClockAt
  <2>. QED BY <1>2, <2>1, QueueFields
<1>8. base.block \in MaybeRequest /\ base.timeout \in Nat
  BY <1>2 DEF BaseRecord
<1>. HIDE DEF p, d
<1>9. ASSUME NEW x \in Requests
      PROVE  /\ req'[x].timeout = req[x].timeout
             /\ req'[x].deadline = IF x = r THEN d ELSE req[x].deadline
             /\ req'[x].state = IF x = r THEN "QUEUED" ELSE req[x].state
             /\ req'[x].scheduled = req[x].scheduled
  <2>1. p[x] \in RequestRecord
    BY <1>2 DEF RequestMap
  <2>2. req'[x] = IF x = r THEN [p[x] EXCEPT !.complete = FALSE, !.deadline = d] ELSE p[x]
    BY <1>1, <1>2 DEF RequestMap
  <2>3. /\ req'[x].timeout = p[x].timeout
        /\ req'[x].deadline = IF x = r THEN d ELSE p[x].deadline
        /\ req'[x].state = p[x].state /\ req'[x].scheduled = p[x].scheduled
    BY <2>1, <2>2 DEF RequestRecord
  <2>. QED BY <1>7, <2>3
<1>10. /\ base'.active = base.active \cup {r} /\ base'.pending = base.pending
       /\ base'.block = base.block /\ base'.timer = base.timer
       /\ base'.timeout = base.timeout
  BY <1>1, <1>2 DEF QueueBase, BaseRecord
<1>11. Dated(req', base')
  <2>1. now \in Nat \ {0} /\ base.active \subseteq Requests
    BY <1>2 DEF TypeOK, BaseRecord
  <2>2. Dated(req, base)
    BY DEF Timing
  <2>3. TimeoutOf(base, req[r].timeout) \in Nat
    <3>1. req[r].timeout \in Nat
      BY <1>2 DEF RequestMap, RequestRecord
    <3>. QED BY <1>8, <3>1 DEF TimeoutOf
  <2>4. \A v : TimeoutOf(base', v) = TimeoutOf(base, v)
    BY <1>10 DEF TimeoutOf
  <2>5. d >= 1 + TimeoutOf(base, req[r].timeout)
    BY <2>1, <2>3 DEF d
  <2>. QED BY <1>9, <1>10, <2>1, <2>2, <2>4, <2>5 DEF Dated
<1>12. Unscheduled(req')
  BY <1>9 DEF Timing, Unscheduled
<1>13. \A x \in base'.pending : req'[x].deadline = req[x].deadline
  <2>1. r \notin base.pending /\ base.pending \subseteq Requests
    BY <1>1, <1>2 DEF Tables, Placed, Tabled, BaseRecord
  <2>. QED BY <1>9, <1>10, <2>1
<1>14. \A x \in Waiting(req', Calls(stack')) :
         \/ x \in Waiting(req, Calls(stack)) /\ req'[x].scheduled = req[x].scheduled
         \/ Starts(Calls(stack')) /\ req'[x].scheduled = 0
  BY <1>1, <1>6, <1>9 DEF Waiting, Timing, Unscheduled
<1>. QED BY <1>1, <1>4, <1>5, <1>10, <1>11, <1>12, <1>13, <1>14, TimingKept
     DEF Unscanned, Scans

\* A request is sent once more.
LEMMA TimingRetry ==
  ASSUME TypeOK, Tables, Timing, LifeStep, NEW r \in Requests, Retry(r)
  PROVE  Timing'
<1>. DEFINE q == CancelReq(req, r)
            p == QueueReq(q, base, r)
            h == Call("retried", r)
            fs == <<Call("start", None), h>>
<1>1. /\ UserTurn /\ UNCHANGED link /\ Enter(fs)
      /\ req' = [p EXCEPT ![r].retries = @ + 1]
      /\ base' = [QueueBase(base, r) EXCEPT !.pending = @ \ {r}]
  BY Zenon DEF Retry
<1>2. /\ Idle /\ req \in RequestMap /\ base \in BaseRecord /\ p \in RequestMap
  BY <1>1, UsersIdle, RequeueFields DEF TypeOK, RequestMap
<1>3. h \in Frame /\ h.op = "retried"
  BY RequestCallType DEF Ops, ObservedOps, Call
<1>. HIDE DEF h
<1>4. fs \in Frames /\ Unscanned(fs) /\ Starts(Calls(fs))
  BY <1>3, StartFirst DEF Tails
<1>5. Plainly(fs)
  BY <1>1, <1>2 DEF Plainly
<1>. HIDE DEF fs
<1>6. Starts(Calls(stack')) /\ \A x : Out(Calls(stack), x) => Out(Calls(stack'), x)
  <2>1. Calls(stack') = Calls(fs) \cup Calls(stack)
    BY <1>1, <1>4, GoingCalls DEF Going
  <2>. QED BY <1>4, <2>1 DEF Starts, Out, Leaving, Ending
<1>7. ASSUME NEW x \in Requests
      PROVE  /\ p[x].state = IF x = r THEN "QUEUED" ELSE req[x].state
             /\ p[x].scheduled = IF x = r THEN 0 ELSE req[x].scheduled
  BY RequeueFields
<1>8. Clocks(req, p)
  <2>1. q \in RequestMap /\ Clocks(req, q)
    BY <1>2, CancelReqType, ClocksKept
  <2>. HIDE DEF q
  <2>2. Clocks(q, p)
    BY <2>1, ClocksKept
  <2>. QED BY <2>1, <2>2, ClocksThen
<1>. HIDE DEF p
<1>9. ASSUME NEW x \in Requests
      PROVE  ClockAt(req[x], req'[x]) /\ req'[x].state = p[x].state
             /\ req'[x].scheduled = p[x].scheduled
  <2>1. p[x] \in RequestRecord /\ ClockAt(req[x], p[x])
    BY <1>2, <1>8 DEF RequestMap, Clocks
  <2>2. req'[x] = p[x] \/ \E v : req'[x] = [p[x] EXCEPT !.retries = v]
    BY <1>1, <1>2 DEF RequestMap
  <2>. QED BY <2>1, <2>2 DEF RequestRecord, ClockAt
<1>10. Clocks(req, req')
  BY <1>9 DEF Clocks
<1>11. /\ base'.active = base.active /\ base'.pending = base.pending \ {r}
       /\ base'.block = base.block /\ base'.timer = base.timer
       /\ base'.timeout = base.timeout
  BY <1>1, <1>2 DEF QueueBase, BaseRecord
<1>12. Dated(req', base') /\ Unscheduled(req')
  BY <1>2, <1>10, <1>11, DatedKept, UnscheduledKept DEF Timing
<1>13. \A x \in base'.pending : req'[x].deadline = req[x].deadline
  BY <1>2, <1>10, <1>11 DEF BaseRecord, Clocks, ClockAt
<1>14. \A x \in Waiting(req', Calls(stack')) :
         \/ x \in Waiting(req, Calls(stack)) /\ req'[x].scheduled = req[x].scheduled
         \/ Starts(Calls(stack')) /\ req'[x].scheduled = 0
  BY <1>6, <1>7, <1>9 DEF Waiting
<1>. QED BY <1>1, <1>4, <1>5, <1>11, <1>12, <1>13, <1>14, TimingKept
     DEF Unscanned, Scans

\* A request is cancelled: if it waits it is dropped, which starts a scan.
LEMMA TimingCancels ==
  ASSUME TypeOK, Tables, Timing, LifeStep, NEW r \in Requests,
         \/ req' = ObjectCancelReq(req, r)
         \/ req' = Withdraw(ObjectCancelReq(req, r), r),
         UNCHANGED <<base, link>>, NEW fs \in Frames, Plainly(fs), Unscanned(fs),
         \A f \in Calls(ObjectCancelCalls(req, r)) : f \in Calls(fs)
  PROVE  Timing'
<1>. DEFINE S == Calls(stack)
            T == Calls(stack')
            o == ObjectCancelReq(req, r)
<1>1. /\ Starts(S) => Starts(T)
      /\ \A x : Out(S, x) => Out(T, x)
      /\ Calls(fs) \subseteq T
  BY PlainlyKept
<1>2. req \in RequestMap /\ base \in BaseRecord
  BY DEF TypeOK, RequestMap
<1>3. Clocks(req, req')
  BY <1>2, ClocksKept
<1>4. ASSUME NEW x \in Requests
      PROVE  /\ x # r => req'[x] = req[x]
             /\ req'[r].state = req[r].state
  BY <1>2, WithdrawFields
<1>5. req'[r].scheduled = 0
  <2>1. CancelReq(req, r) \in RequestMap /\ CancelReq(req, r)[r].scheduled = 0
    BY <1>2, CancelReqType, CancelFields
  <2>2. o \in RequestMap /\ o[r].scheduled = 0
    <3>1. o \in RequestMap
      BY <1>2, ObjectCancelReqType
    <3>. QED BY <2>1, <3>1 DEF ObjectCancelReq, RequestMap, RequestRecord
  <2>. HIDE DEF o
  <2>3. Withdraw(o, r)[r].scheduled = 0
    BY <2>2 DEF Withdraw, RequestMap, RequestRecord
  <2>. QED BY <2>2, <2>3 DEF o
<1>6. Dated(req', base') /\ Unscheduled(req')
  BY <1>2, <1>3, DatedKept, UnscheduledKept DEF Timing
<1>7. \A x \in base'.pending : req'[x].deadline = req[x].deadline
  BY <1>2, <1>3 DEF BaseRecord, Clocks, ClockAt
<1>. HIDE DEF S, T
<1>8. r \in Waiting(req, S) => Starts(T)
  <2>1. SUFFICES ASSUME r \in Waiting(req, S)
                 PROVE  Starts(T)
    OBVIOUS
  <2>2. Detached(req, base, S, r)
    BY DEF Tables, Placed, S
  <2>3. CASE DropDue(S, r)
    BY <1>1, <2>3 DEF DropDue, Starts
  <2>4. CASE ~DropDue(S, r)
    <3>1. ~req[r].dropped /\ req[r].registered
      BY <2>1, <2>2, <2>4 DEF Detached, Off
    <3>2. Call("drop", r) \in T /\ Call("drop", r).op = "drop"
      BY <1>1, <1>2, <3>1, CancelCalls
    <3>. QED BY <3>2 DEF Starts
  <2>. QED BY <2>3, <2>4
<1>9. \A x \in Waiting(req', T) :
        \/ x \in Waiting(req, S) /\ req'[x].scheduled = req[x].scheduled
        \/ Starts(T) /\ req'[x].scheduled = 0
  BY <1>1, <1>4, <1>5, <1>8 DEF Waiting
<1>. QED BY <1>6, <1>7, <1>9, TimingKept DEF Unscanned, S, T

\* By its user, with its group, or because nothing refers to it.
LEMMA TimingCancel ==
  ASSUME TypeOK, Tables, Timing, LifeStep,
         \/ \E r \in Requests : Cancel(r) \/ Free(r)
         \/ CancelNext /\ Top.todo # {}
  PROVE  Timing'
<1>0. req \in RequestMap
  BY DEF TypeOK, RequestMap
<1>1. ASSUME NEW r \in Requests
      PROVE  /\ ObjectCancelCalls(req, r) \in Frames
             /\ Unscanned(ObjectCancelCalls(req, r))
  <2>. DEFINE gs == ObjectCancelCalls(req, r)
  <2>1. gs \in Frames /\ \A f \in Calls(gs) : f.op \in {"drop", "unregister"}
    BY <1>0, CancelCalls
  <2>. HIDE DEF gs
  <2>2. Unscanned(gs)
    BY <2>1, UnscannedCalls DEF Scanners
  <2>. QED BY <2>1, <2>2 DEF gs
<1>2. ASSUME NEW r \in Requests, NEW c \in Frame, c.op \in {"finish", "cancel"}
      PROVE  LET gs == ObjectCancelCalls(req, r)
             IN  /\ gs \o <<c>> \in Frames /\ Unscanned(gs \o <<c>>)
                 /\ \A f \in Calls(gs) : f \in Calls(gs \o <<c>>)
  <2>. DEFINE gs == ObjectCancelCalls(req, r)
  <2>1. <<c>> \in Frames /\ Unscanned(<<c>>)
    BY <1>2, UnscannedFew DEF Scanners
  <2>2. gs \in Frames /\ Unscanned(gs)
    BY <1>1
  <2>. HIDE DEF gs
  <2>3. gs \o <<c>> \in Frames /\ Calls(gs \o <<c>>) = Calls(gs) \cup Calls(<<c>>)
        /\ Unscanned(gs \o <<c>>)
    BY <2>1, <2>2, UnscannedBoth
  <2>. QED BY <2>3 DEF gs
<1>3. ASSUME NEW r \in Requests, Cancel(r)
      PROVE  Timing'
  <2>1. Plainly(ObjectCancelCalls(req, r))
    BY <1>3, UsersIdle DEF Cancel, Plainly
  <2>. QED BY <1>1, <1>3, <2>1, TimingCancels DEF Cancel
<1>4. ASSUME NEW r \in Requests, Free(r)
      PROVE  Timing'
  <2>1. Call("finish", r) \in Frame /\ Call("finish", r).op = "finish"
    BY RequestCallType DEF Ops, ObservedOps, Call
  <2>. DEFINE fs == ObjectCancelCalls(req, r) \o <<Call("finish", r)>>
  <2>2. fs \in Frames /\ Unscanned(fs)
        /\ \A f \in Calls(ObjectCancelCalls(req, r)) : f \in Calls(fs)
    BY <1>2, <2>1
  <2>3. Enter(fs) /\ ~Clean /\ req' = ObjectCancelReq(req, r) /\ UNCHANGED <<base, link>>
    BY <1>4 DEF Free, Clean
  <2>. HIDE DEF fs
  <2>4. Plainly(fs)
    BY <2>3 DEF Plainly
  <2>. QED BY <2>2, <2>3, <2>4, TimingCancels
<1>5. ASSUME CancelNext, Top.todo # {}
      PROVE  Timing'
  <2>1. ~Idle /\ Top.op = "cancel" /\ UNCHANGED <<base, link>>
    BY <1>5, RunningTop DEF CancelNext
  <2>2. PICK r \in Top.todo :
          /\ req' = Withdraw(ObjectCancelReq(req, r), r)
          /\ Become(ObjectCancelCalls(req, r) \o <<[Top EXCEPT !.todo = @ \ {r}]>>)
    BY <1>5 DEF CancelNext
  <2>. DEFINE c == [Top EXCEPT !.todo = @ \ {r}]
              fs == ObjectCancelCalls(req, r) \o <<c>>
  <2>3. r \in Requests
    BY <2>1, TopType
  <2>4. c \in Frame /\ c.op = "cancel"
    <3>1. c \in Frame /\ Top \in Frame
      BY <2>1, TodoType, TopType
    <3>. QED BY <2>1, <3>1 DEF Frame
  <2>5. Become(fs)
    BY <2>2
  <2>. HIDE DEF c
  <2>6. fs \in Frames /\ Unscanned(fs)
        /\ \A f \in Calls(ObjectCancelCalls(req, r)) : f \in Calls(fs)
    BY <1>2, <2>3, <2>4
  <2>. HIDE DEF fs
  <2>7. Plainly(fs)
    BY <2>1, <2>5 DEF Plainly, Plain
  <2>. QED BY <2>1, <2>2, <2>3, <2>6, <2>7, TimingCancels
<1>. QED BY <1>3, <1>4, <1>5

-----------------------------------------------------------------------------
(***************************************************************************)
(* Steps after which the queue is scanned and the timer reset.             *)
(***************************************************************************)

\* The procedures leave the default timeout alone.
LEMMA TimeoutFields ==
  ASSUME NEW q, NEW b \in BaseRecord, NEW r
  PROVE  /\ DeactivateBase(q, b, r).timeout = b.timeout
         /\ MoveOwnerQueue(q, b).timeout = b.timeout
         /\ QueueBase(b, r).timeout = b.timeout
<1>1. ASSUME NEW c \in {b, UnlinkBase(q, b, r, Before(q, b, r))}
      PROVE  c.timeout = b.timeout /\ DOMAIN c = DOMAIN b
  BY <1>1 DEF UnlinkBase, BaseRecord
<1>2. ASSUME NEW c, DOMAIN c = DOMAIN b
      PROVE  [c EXCEPT !.pending = @ \ {r}, !.active = @ \ {r},
                       !.block = IF @ = r THEN None ELSE @].timeout = c.timeout
  BY <1>2 DEF BaseRecord
<1>3. DeactivateBase(q, b, r).timeout = b.timeout
  BY <1>1, <1>2 DEF DeactivateBase
<1>. QED BY <1>3 DEF MoveOwnerQueue, QueueBase, BaseRecord

\* A request leaves the tables.
LEMMA DeactivateClock ==
  ASSUME NEW q \in RequestMap, NEW b \in BaseRecord, NEW r \in Requests
  PROVE  /\ DeactivateBase(q, b, r).active \subseteq b.active
         /\ DeactivateBase(q, b, r).timeout = b.timeout
<1>1. DeactivateBase(q, b, r).active = b.active \ {r}
  BY DeactivateTables
<1>2. DeactivateBase(q, b, r).timeout = b.timeout
  BY TimeoutFields
<1>. QED BY <1>1, <1>2

\* The calls made see to both.
LEMMA AgainStep ==
  ASSUME TypeOK, Tables, Timing, LifeStep, NEW fs \in Frames,
         \/ Idle /\ Enter(fs)
         \/ ~Idle /\ Become(fs) /\ ~Scans(Top),
         \A i \in DOMAIN fs : fs[i].op \in Scanners => FollowedAt(fs, i),
         \A f \in Calls(fs) : ~Scans(f),
         Starts(Calls(fs)), Resets(Calls(fs)),
         Clocks(req, req'), base'.active \subseteq base.active,
         base'.timeout = base.timeout
  PROVE  Timing'
<1>1. PICK U : Going(fs, U) /\ (Idle \/ ~Scans(Top))
  BY DEF Going
<1>2. Calls(fs) \subseteq Calls(stack')
  BY <1>1, GoingCalls
<1>3. Starts(Calls(stack')) /\ Resets(Calls(stack'))
  BY <1>2 DEF Starts, Resets
<1>4. base \in BaseRecord
  BY DEF TypeOK
<1>5. Dated(req', base') /\ Unscheduled(req')
  BY <1>4, DatedKept, UnscheduledKept DEF Timing
<1>. QED BY <1>1, <1>3, <1>5, TimingAgain

\* A request is to be sent again after a while.
LEMMA TimingRespondRetry ==
  ASSUME TypeOK, Tables, Timing, RespondRetry
  PROVE  Timing'
<1>1. PICK m \in net.answers :
        LET r == m[1]
            q == CancelReq(req, r)
        IN  /\ Found(m)
            /\ req' = [QueueReq(q, base, r) EXCEPT
                         ![r] = [@ EXCEPT !.retries = q[r].retries + 1,
                                          !.scheduled = now + RetryDelay]]
            /\ base' = [QueueBase(base, r) EXCEPT !.pending = @ \ {r}]
  BY Zenon DEF RespondRetry
<1>. DEFINE r == m[1]
            q == CancelReq(req, r)
            p == QueueReq(q, base, r)
            h == Call("reset", None)
            fs == <<Call("start", None), h>>
            k == q[r].retries + 1
            d == now + RetryDelay
<1>2. /\ Idle /\ UNCHANGED link /\ Enter(fs)
  BY DEF RespondRetry, EventTurn
<1>3. r \in Requests
  BY <1>1, <1>2, FoundPending
<1>4. /\ req' = [p EXCEPT ![r] = [p[r] EXCEPT !.retries = k, !.scheduled = d]]
      /\ base' = [QueueBase(base, r) EXCEPT !.pending = @ \ {r}]
  BY <1>1
<1>5. h \in Frame /\ h.op = "reset"
  BY PlainFrames DEF Call
<1>. HIDE DEF r, h
<1>6. /\ fs \in Frames /\ Calls(fs) = {Call("start", None), h}
      /\ Unscanned(fs) /\ Starts(Calls(fs))
  BY <1>5, StartFirst DEF Tails
<1>. HIDE DEF fs
<1>7. Going(fs, Calls(stack)) /\ Calls(fs) \subseteq Calls(stack')
  BY <1>2, <1>6, GoingCalls DEF Going
<1>8. Starts(Calls(stack')) /\ Resets(Calls(stack'))
  BY <1>5, <1>6, <1>7 DEF Starts, Resets
<1>9. /\ req \in RequestMap /\ q \in RequestMap /\ base \in BaseRecord
      /\ p \in RequestMap
  BY <1>3, CancelReqType, RequeueFields DEF TypeOK, RequestMap
<1>10. Clocks(req, p)
  <2>1. Clocks(req, q)
    BY <1>3, <1>9, ClocksKept
  <2>. HIDE DEF q
  <2>2. Clocks(q, p)
    BY <1>3, <1>9, ClocksKept
  <2>. QED BY <2>1, <2>2, ClocksThen
<1>11. \A x \in Requests : p[x].state = IF x = r THEN "QUEUED" ELSE req[x].state
  BY <1>3, RequeueFields
<1>. HIDE DEF p, k, d
<1>12. ASSUME NEW x \in Requests
       PROVE  /\ req'[x].deadline = req[x].deadline /\ req'[x].timeout = req[x].timeout
              /\ req'[x].state = "NEW" => req[x].state = "NEW"
                                          /\ req'[x].scheduled \in {req[x].scheduled, 0}
  <2>1. p[x] \in RequestRecord /\ ClockAt(req[x], p[x])
    BY <1>9, <1>10 DEF RequestMap, Clocks
  <2>2. /\ x # r => req'[x] = p[x]
        /\ x = r => req'[x] = [p[x] EXCEPT !.retries = k, !.scheduled = d]
    BY <1>4, <1>9 DEF RequestMap
  <2>. QED BY <1>11, <2>1, <2>2 DEF RequestRecord, ClockAt
<1>13. base'.active = base.active /\ base'.timeout = base.timeout
  BY <1>4, <1>9 DEF QueueBase, BaseRecord
<1>14. Dated(req', base') /\ Unscheduled(req')
  BY <1>9, <1>12, <1>13 DEF Timing, Dated, Unscheduled, TimeoutOf, BaseRecord
<1>. QED BY <1>2, <1>6, <1>7, <1>8, <1>14, TimingAgain DEF Unscanned

\* A request is done.
LEMMA TimingRespondDone ==
  ASSUME TypeOK, Tables, Timing, LifeStep, MaxDepth = 0, RespondDone
  PROVE  Timing'
<1>1. PICK m \in net.answers :
        LET r == m[1]
            q == [CancelReq(req, r) EXCEPT ![r].state = "DONE"]
            b == DeactivateBase(q, base, r)
        IN  /\ Found(m)
            /\ req' = q
            /\ base' = MoveOwnerQueue(q, b)
            /\ Enter((IF MovesOwner(q, b) THEN Callback(None) ELSE <<>>)
                     \o <<Call("done", r), Call("start", None),
                          Call("reset", None)>>)
  BY Zenon DEF RespondDone
<1>. DEFINE r == m[1]
            p == CancelReq(req, r)
            q == [p EXCEPT ![r].state = "DONE"]
            b == DeactivateBase(q, base, r)
            d == Call("done", r)
            f == Call("start", None)
            h == Call("reset", None)
            fs == <<d, f, h>>
<1>2. Idle
  BY DEF RespondDone, EventTurn
<1>3. r \in Requests
  BY <1>1, <1>2, FoundPending
<1>4. /\ req' = q /\ base' = MoveOwnerQueue(q, b)
      /\ Enter((IF MovesOwner(q, b) THEN Callback(None) ELSE <<>>) \o fs)
  BY <1>1
<1>. HIDE DEF r
<1>5. /\ d \in Frame /\ f \in Frame /\ h \in Frame
      /\ d.op = "done" /\ f.op = "start" /\ h.op = "reset"
  BY <1>3, PlainFrames, RequestCallType DEF Ops, ObservedOps, Call
<1>. HIDE DEF d, f, h
<1>6. fs \in Frames /\ Calls(fs) = {d, f, h}
  BY <1>5, CallsOf, FramesType
<1>7. Enter(fs)
  <2>. HIDE DEF fs
  <2>. QED BY <1>4, <1>6, NoHandler, NoneFirst
<1>8. /\ \A i \in DOMAIN fs : fs[i].op \in Scanners => FollowedAt(fs, i)
      /\ \A g \in Calls(fs) : ~Scans(g)
      /\ Starts(Calls(fs)) /\ Resets(Calls(fs))
  <2>1. Len(fs) = 3 /\ fs[1] = d /\ fs[2] = f /\ fs[3] = h /\ DOMAIN fs = 1 .. 3
    OBVIOUS
  <2>. HIDE DEF fs
  <2>2. FollowedAt(fs, 2)
    BY <1>5, <2>1 DEF FollowedAt, Tails
  <2>. QED BY <1>5, <1>6, <2>1, <2>2 DEF Scanners, Scans, Starts, Resets
<1>9. /\ req \in RequestMap /\ p \in RequestMap /\ base \in BaseRecord
      /\ Clocks(req, p)
  BY <1>3, CancelReqType, ClocksKept DEF TypeOK, RequestMap
<1>. HIDE DEF p
<1>10. q \in RequestMap /\ Clocks(req, q)
  <2>1. q \in RequestMap
    BY <1>3, <1>9, StateType DEF States
  <2>2. Clocks(p, q)
    BY <1>9 DEF Clocks, ClockAt, RequestMap, RequestRecord
  <2>. QED BY <1>9, <2>1, <2>2, ClocksThen
<1>. HIDE DEF q
<1>11. b \in BaseRecord /\ b.active \subseteq base.active /\ b.timeout = base.timeout
  BY <1>3, <1>9, <1>10, DeactivateBaseType, DeactivateClock
<1>. HIDE DEF b
<1>12. base'.active \subseteq base.active /\ base'.timeout = base.timeout
  <2>1. SameTables(b, MoveOwnerQueue(q, b))
    BY <1>11, MoveOwnerFields
  <2>2. MoveOwnerQueue(q, b).timeout = b.timeout
    BY <1>11, TimeoutFields
  <2>. QED BY <1>4, <1>11, <2>1, <2>2 DEF SameTables
<1>. HIDE DEF fs
<1>. QED BY <1>2, <1>4, <1>6, <1>7, <1>8, <1>10, <1>12, AgainStep

\* A transaction ends, or its request fails.
LEMMA TimingSent ==
  ASSUME TypeOK, Tables, Timing, LifeStep, MaxDepth = 0, Sent
  PROVE  Timing'
<1>1. PICK t \in net.outstanding :
        LET q == [req EXCEPT ![t[1]].tx = 0]
        IN  \/ req' = q /\ UNCHANGED stack
            \/ req' = FailReq(q, t[1]) /\ Enter(FailCalls(q, t[1]))
  BY Zenon DEF Sent
<1>. DEFINE r == t[1]
            q == [req EXCEPT ![r].tx = 0]
            d == Call("drop", r)
<1>2. Idle /\ UNCHANGED <<base, link>>
  BY DEF Sent, EventTurn
<1>3. req \in RequestMap /\ r \in Requests
  BY DEF TypeOK, RequestMap, NetRecord, Transmissions
<1>4. /\ q \in RequestMap
      /\ \A x \in Requests : ClockSame(req[x], q[x])
  <2>1. q \in RequestMap
    BY <1>3, FieldType
  <2>2. ASSUME NEW x \in Requests
        PROVE  ClockSame(req[x], q[x])
    <3>1. q[x] = req[x] \/ q[x] = [req[x] EXCEPT !.tx = 0]
      BY <1>3 DEF RequestMap
    <3>2. req[x] \in RequestRecord
      BY <1>3 DEF RequestMap
    <3>. QED BY <3>1, <3>2 DEF ClockSame, RequestRecord
  <2>. QED BY <2>1, <2>2
<1>5. \/ req' = q /\ UNCHANGED stack
      \/ req' = FailReq(q, r) /\ Enter(FailCalls(q, r))
  BY <1>1
<1>. HIDE DEF r, q
<1>6. CASE req' = q /\ UNCHANGED stack
  <2>1. Enter(<<>>) /\ <<>> \in Frames /\ Unscanned(<<>>)
    BY <1>6, NoCalls, UnscannedFew
  <2>2. Plainly(<<>>) /\ TimerSame(base, base')
    BY <1>2, <2>1 DEF Plainly, TimerSame
  <2>. QED BY <1>2, <1>4, <1>6, <2>1, <2>2, TimingSame DEF Unscanned
<1>7. CASE req' = FailReq(q, r) /\ Enter(FailCalls(q, r))
  <2>1. d \in Frame /\ d.op = "drop"
    BY <1>3, RequestCallType DEF Ops, ObservedOps, Call
  <2>2. <<d>> \in Frames /\ Calls(<<d>>) = {d} /\ Unscanned(<<d>>)
    <3>. HIDE DEF d
    <3>. QED BY <2>1, UnscannedFew DEF Scanners
  <2>3. Enter(<<d>>)
    BY <1>7, <2>2, NoHandler, NoneFirst DEF FailCalls, CompleteCalls
  <2>4. Clocks(req, req')
    <3>1. Clocks(q, req')
      BY <1>3, <1>4, <1>7, ClocksKept
    <3>2. Clocks(req, q)
      BY <1>4 DEF Clocks, ClockAt, ClockSame
    <3>. QED BY <3>1, <3>2, ClocksThen
  <2>. HIDE DEF d
  <2>5. Starts(Calls(<<d>>)) /\ Resets(Calls(<<d>>))
    BY <2>1, <2>2 DEF Starts, Resets
  <2>. QED BY <1>2, <2>2, <2>3, <2>4, <2>5, AgainStep DEF Unscanned
<1>. QED BY <1>5, <1>6, <1>7

\* The timer fires.
LEMMA TimingTimeout ==
  ASSUME TypeOK, Tables, Timing, LifeStep, Timeout
  PROVE  Timing'
<1>. DEFINE E == {r \in base.active : req[r].deadline <= now}
            c == ListCall("expire", E)
            s == Call("start", None)
            t == Call("reset", None)
            fs == <<c, s, t>>
<1>1. /\ Idle /\ UNCHANGED <<req, net, link>>
      /\ base' = [base EXCEPT !.timer = 0, !.active = @ \ E] /\ Enter(fs)
  BY DEF Timeout, EventTurn
<1>2. E \in SUBSET Requests
  BY DEF TypeOK, BaseRecord
<1>. HIDE DEF E
<1>3. base'.active \subseteq base.active /\ base'.timeout = base.timeout
  BY <1>1 DEF TypeOK, BaseRecord
<1>4. /\ c \in Frame /\ s \in Frame /\ t \in Frame
      /\ c.op = "expire" /\ s.op = "start" /\ t.op = "reset"
  BY <1>2, ListCallType, PlainFrames DEF ListCall, Call
<1>. HIDE DEF c, s, t
<1>5. fs \in Frames /\ Calls(fs) = {c, s, t}
  BY <1>4, CallsOf, FramesType
<1>6. Len(fs) = 3 /\ fs[1] = c /\ fs[2] = s /\ fs[3] = t /\ DOMAIN fs = 1 .. 3
  OBVIOUS
<1>. HIDE DEF fs
<1>7. /\ \A i \in DOMAIN fs : fs[i].op \in Scanners => FollowedAt(fs, i)
      /\ \A g \in Calls(fs) : ~Scans(g)
      /\ Starts(Calls(fs)) /\ Resets(Calls(fs))
  <2>1. FollowedAt(fs, 2)
    BY <1>4, <1>6 DEF FollowedAt, Tails
  <2>. QED BY <1>4, <1>5, <1>6, <2>1 DEF Scanners, Scans, Starts, Resets
<1>8. Clocks(req, req')
  BY <1>1 DEF Clocks, ClockAt
<1>. QED BY <1>1, <1>3, <1>5, <1>7, <1>8, AgainStep

\* A request is dropped.
LEMMA TimingDrop ==
  ASSUME TypeOK, Tables, Timing, LifeStep, Drop
  PROVE  Timing'
<1>. DEFINE r == Top.r
            q == CancelReq(req, r)
            d == Call("dropped", r)
            fs == <<Call("start", None), d>>
<1>1. /\ ~Idle /\ Top.op = "drop" /\ req' = DeactivateReq(q, base, r)
      /\ base' = DeactivateBase(q, base, r) /\ Become(fs)
  BY RunningTop DEF Drop
<1>2. /\ r \in Requests /\ req \in RequestMap /\ q \in RequestMap
      /\ base \in BaseRecord
  BY <1>1, TopType, CancelReqType DEF TypeOK, RequestMap, RequestOps
<1>3. d \in Frame /\ d.op = "dropped"
  BY <1>2, RequestCallType DEF Ops, ObservedOps, Call
<1>. HIDE DEF r, d
<1>4. /\ fs \in Frames /\ Calls(fs) = {Call("start", None), d}
      /\ Unscanned(fs) /\ Starts(Calls(fs))
  BY <1>3, StartFirst DEF Tails
<1>5. Resets(Calls(fs))
  BY <1>3, <1>4 DEF Resets
<1>6. Clocks(req, q)
  BY <1>2, ClocksKept
<1>. HIDE DEF q
<1>7. Clocks(req, req')
  <2>1. Clocks(q, req')
    BY <1>1, <1>2, ClocksKept
  <2>. QED BY <1>6, <2>1, ClocksThen
<1>8. base'.active \subseteq base.active /\ base'.timeout = base.timeout
  BY <1>1, <1>2, DeactivateClock
<1>9. ~Scans(Top)
  BY <1>1 DEF Scans
<1>. HIDE DEF fs
<1>. QED BY <1>1, <1>4, <1>5, <1>7, <1>8, <1>9, AgainStep DEF Unscanned

\* A request of the list fails.
LEMMA TimingFailNext ==
  ASSUME TypeOK, Tables, Timing, LifeStep, MaxDepth = 0, FailNext, Top.todo # {}
  PROVE  Timing'
<1>1. ~Idle /\ Top.op = "fail" /\ UNCHANGED base
  BY RunningTop DEF FailNext
<1>2. PICK r \in Top.todo :
        /\ req' = FailReq(req, r)
        /\ Become(FailCalls(req, r) \o <<ListCall("fail", Top.todo \ {r})>>)
  BY DEF FailNext
<1>3. r \in Requests /\ Top.todo \ {r} \in SUBSET Requests
  BY <1>1, TopType
<1>. DEFINE d == Call("drop", r)
            c == ListCall("fail", Top.todo \ {r})
            fs == <<d>> \o <<c>>
<1>4. d \in Frame /\ d.op = "drop" /\ c \in Frame /\ c.op = "fail"
  BY <1>3, RequestCallType, ListCallType DEF Ops, ObservedOps, Call, ListCall
<1>5. <<>> \o <<d>> = <<d>>
  BY <1>4, CallsOfOne, NoneFirst
<1>6. Become(fs)
  BY <1>2, <1>5, NoHandler DEF FailCalls, CompleteCalls
<1>. HIDE DEF d, c
<1>7. /\ <<d>> \in Frames /\ Calls(<<d>>) = {d} /\ Unscanned(<<d>>)
      /\ <<c>> \in Frames /\ Unscanned(<<c>>)
  BY <1>4, UnscannedFew DEF Scanners
<1>8. fs \in Frames /\ Calls(fs) = Calls(<<d>>) \cup Calls(<<c>>) /\ Unscanned(fs)
  BY <1>7, UnscannedBoth
<1>. HIDE DEF fs
<1>9. Starts(Calls(fs)) /\ Resets(Calls(fs))
  BY <1>4, <1>7, <1>8 DEF Starts, Resets
<1>10. Clocks(req, req')
  <2>1. req \in RequestMap
    BY DEF TypeOK, RequestMap
  <2>. QED BY <1>2, <1>3, <2>1, ClocksKept
<1>11. ~Scans(Top)
  BY <1>1 DEF Scans
<1>. QED BY <1>1, <1>6, <1>8, <1>9, <1>10, <1>11, AgainStep DEF Unscanned

\* Requests expire, above the scan and the reset that follow.
LEMMA TimingExpire ==
  ASSUME TypeOK, Tables, Timing, LifeStep, Expire
  PROVE  Timing'
<1>1. ~Idle /\ Top.op = "expire"
  BY RunningTop DEF Expire
<1>2. /\ Top \in Frame /\ Top.todo \in SUBSET Requests /\ Top.refs \in SUBSET Requests
      /\ req \in RequestMap /\ base \in BaseRecord
  BY <1>1, TopType DEF TypeOK, RequestMap
<1>3. /\ Clocks(req, req')
      /\ base'.active \subseteq base.active /\ base'.timeout = base.timeout
  <2>1. \/ UNCHANGED <<req, base>>
        \/ \E r \in Top.todo : /\ req' = DeactivateReq(req, base, r)
                               /\ base' = DeactivateBase(req, base, r)
    BY DEF Expire
  <2>2. CASE UNCHANGED <<req, base>>
    BY <2>2 DEF Clocks, ClockAt
  <2>3. ASSUME NEW r \in Top.todo, req' = DeactivateReq(req, base, r),
               base' = DeactivateBase(req, base, r)
        PROVE  /\ Clocks(req, req')
               /\ base'.active \subseteq base.active /\ base'.timeout = base.timeout
    <3>1. r \in Requests
      BY <1>2
    <3>. QED BY <1>2, <2>3, <3>1, ClocksKept, DeactivateClock
  <2>. QED BY <2>1, <2>2, <2>3
<1>4. PICK c \in Frame : Become(<<c>>) /\ c.op \in {"expire", "fail"}
  <2>1. CASE Become(<<ListCall("fail", Top.refs)>>)
    <3>1. ListCall("fail", Top.refs) \in Frame /\ ListCall("fail", Top.refs).op = "fail"
      BY <1>2, ListCallType DEF ListCall, Call
    <3>. QED BY <2>1, <3>1
  <2>2. ASSUME NEW r \in Top.todo, Become(<<[Top EXCEPT !.todo = @ \ {r}]>>)
        PROVE  \E c \in Frame : Become(<<c>>) /\ c.op \in {"expire", "fail"}
    <3>. DEFINE c == [Top EXCEPT !.todo = @ \ {r}]
    <3>1. c \in Frame /\ c.op = "expire"
      <4>1. c \in Frame
        BY <1>1, TodoType
      <4>. QED BY <1>1, <1>2, <4>1 DEF Frame
    <3>. QED BY <2>2, <3>1
  <2>. QED BY <2>1, <2>2 DEF Expire
<1>. DEFINE U == Calls(Tail(stack))
<1>5. <<c>> \in Frames /\ Calls(<<c>>) = {c} /\ DOMAIN <<c>> = 1 .. 1
  BY CallsOfOne
<1>6. /\ Going(<<c>>, U) /\ Calls(stack') = {c} \cup U
      /\ Calls(stack) \subseteq U \cup {Top} /\ Top \in Calls(stack)
  BY <1>1, <1>4, <1>5, TopCalls
<1>. HIDE DEF U
<1>7. Starts(Calls(stack')) /\ Resets(Calls(stack'))
  <2>1. Starts(Calls(stack)) /\ Resets(Calls(stack))
    BY <1>1, <1>6 DEF Timing
  <2>. QED BY <1>1, <1>6, <2>1 DEF Starts, Resets
<1>8. Dated(req', base') /\ Unscheduled(req')
  BY <1>2, <1>3, DatedKept, UnscheduledKept DEF Timing
<1>9. /\ \A i \in DOMAIN <<c>> : <<c>>[i].op \in Scanners => FollowedAt(<<c>>, i)
      /\ \A f \in Calls(<<c>>) : ~Scans(f)
  BY <1>4, <1>5 DEF Scanners, Scans
<1>10. ~Scans(Top)
  BY <1>1 DEF Scans
<1>. QED BY <1>5, <1>6, <1>7, <1>8, <1>9, <1>10, TimingAgain

\* The service dies: nothing is left in the queue.
LEMMA TimingDeaths ==
  ASSUME TypeOK, Tables, Tables', Timing, LifeStep, MaxDepth = 0, Death \/ HandleDeath
  PROVE  Timing'
<1>. DEFINE T == Calls(stack')
            c == ListCall("fail", base.active)
<1>1. req \in RequestMap /\ base \in BaseRecord
  BY DEF TypeOK, RequestMap
<1>2. c \in Frame /\ c.op = "fail"
  <2>1. base.active \in SUBSET Requests
    BY <1>1 DEF BaseRecord
  <2>. QED BY <2>1, ListCallType DEF ListCall, Call
<1>3. /\ req' = HandleDeathReq /\ base' = HandleDeathBase
      /\ \/ Idle /\ Enter(<<c>> \o Callback(None))
         \/ ~Idle /\ Top.op = "die" /\ Become(<<c>>)
  BY RunningTop DEF Death, HandleDeath, EventTurn
<1>. HIDE DEF c
<1>4. <<c>> \in Frames /\ Unscanned(<<c>>)
  BY <1>2, UnscannedFew DEF Scanners
<1>5. <<c>> \o Callback(None) = <<c>>
  <2>1. Callback(None) = <<>>
    BY NoHandler
  <2>2. <<c>> \in Seq(Frame)
    BY <1>2
  <2>3. <<c>> \o <<>> = <<c>>
    BY <2>2
  <2>. QED BY <2>1, <2>3
<1>6. PICK U : Going(<<c>>, U) /\ (Idle \/ ~Scans(Top))
               /\ (~Idle => Top.op = "die")
  BY <1>3, <1>5 DEF Going, Scans
<1>7. ASSUME NEW x \in Requests
      PROVE  ClockAt(req[x], req'[x])
  <2>1. req'[x] = req[x] \/ req'[x] = [req[x] EXCEPT !.state = "QUEUED", !.next = None]
    BY <1>3 DEF HandleDeathReq
  <2>. QED BY <1>1, <2>1 DEF ClockAt, RequestMap, RequestRecord
<1>8. /\ base'.active = {} /\ base'.pending = {} /\ base'.first = None
      /\ base'.timeout = base.timeout
  BY <1>1, <1>3 DEF HandleDeathBase, BaseRecord
<1>9. Dated(req', base') /\ Unscheduled(req')
  BY <1>7, <1>8, UnscheduledKept DEF Dated, Clocks
<1>10. Waiting(req', T) = {}
  <2>1. PICK n, s : Row(req', base', Waiting(req', T), n, s)
    BY DEF Tables, Lined
  <2>2. n = 0
    BY <1>8, <2>1, ConstantsAssumption DEF Row, Chain
  <2>3. \A x \in Requests : x \notin Waiting(req', T)
    BY <2>1, <2>2 DEF Row
  <2>. QED BY <2>3 DEF Waiting
<1>11. \A f \in T : f.op # "expire"
  <2>1. \A f \in Calls(stack) : f.op # "expire"
    BY <1>6, SteadyTop, IdleCalls DEF Tables, Steady
  <2>. QED BY <1>4, <1>6, <2>1, GoingCalls DEF Unscanned
<1>12. Timed(req', base', T) /\ Looked(req', base', link', T)
  BY <1>8, <1>10 DEF Timed, Looked
<1>. QED BY <1>4, <1>6, <1>9, <1>11, <1>12, TimingStep DEF Unscanned

-----------------------------------------------------------------------------
(***************************************************************************)
(* The timer is reset.                                                     *)
(***************************************************************************)

\* Without groups only a blocking request keeps others from being sent.
LEMMA FreeSubmit ==
  ASSUME Groups = {}, NEW q \in RequestMap, NEW b \in BaseRecord,
         NEW r \in Requests
  PROVE  CanSubmitRequest(q, b, r) <=> Allowed(b, r)
<1>1. q[r].group = None /\ b.owner = None
  BY DEF RequestMap, RequestRecord, BaseRecord, MaybeGroup
<1>2. b.waiting = <<>>
  <2>1. b.waiting \in Seq({})
    BY DEF BaseRecord
  <2>. QED BY <2>1
<1>. QED BY <1>1, <1>2 DEF CanSubmitRequest, OwnerAllows, Allowed

\* The timer fires in time for the active requests.
Covered(q, b) ==
  \A r \in b.active :
    /\ Covers(b, q[r].deadline)
    /\ Groups = {} /\ Allowed(b, r) /\ q[r].scheduled # 0 => Covers(b, q[r].scheduled)

\* That is what radio_base_reset_timeout is for.
LEMMA ResetCovers ==
  ASSUME NEW q \in RequestMap, NEW b \in BaseRecord, Dated(q, b),
         NEW t \in ResetTimeout(q, b)
  PROVE  Covered(q, [b EXCEPT !.timer = t])
<1>. DEFINE W == Wakeups(q, b)
            c == [b EXCEPT !.timer = t]
<1>1. c.timer = t /\ c.active = b.active /\ c.block = b.block
  BY DEF BaseRecord
<1>2. b.active \subseteq Requests
  BY DEF BaseRecord
<1>3. ASSUME NEW r \in b.active
      PROVE  /\ q[r].deadline \in W /\ q[r].deadline \in Int /\ q[r].deadline >= 1
             /\ q[r].scheduled \in Nat
             /\ q[r].scheduled # 0 /\ CanSubmitRequest(q, b, r) => q[r].scheduled \in W
  <2>1. q[r] \in RequestRecord /\ b.timeout \in Nat
    BY <1>2 DEF RequestMap, BaseRecord
  <2>2. TimeoutOf(b, q[r].timeout) \in Nat
    BY <2>1 DEF TimeoutOf, RequestRecord
  <2>3. q[r].deadline \in Int /\ q[r].deadline >= 1 /\ q[r].scheduled \in Nat
    BY <2>1, <2>2 DEF Dated, RequestRecord
  <2>. QED BY <2>3 DEF Wakeups
<1>4. \A w \in W : \E r \in b.active :
        w = q[r].deadline \/ (w = q[r].scheduled /\ q[r].scheduled # 0)
  BY DEF Wakeups
<1>5. b.active # {} => t \in W /\ \A v \in W : t <= v
  BY <1>3 DEF ResetTimeout
<1>. HIDE DEF W
<1>6. ASSUME NEW r \in b.active
      PROVE  t # 0 /\ t <= q[r].deadline
             /\ (q[r].scheduled # 0 /\ CanSubmitRequest(q, b, r) => t <= q[r].scheduled)
  <2>1. t # 0
    BY <1>3, <1>4, <1>5
  <2>. QED BY <1>3, <1>5, <2>1
<1>7. ASSUME Groups = {}, NEW r \in b.active
      PROVE  CanSubmitRequest(q, b, r) <=> Allowed(c, r)
  <2>1. CanSubmitRequest(q, b, r) <=> Allowed(b, r)
    BY <1>2, <1>7, FreeSubmit
  <2>. QED BY <1>1, <2>1 DEF Allowed
<1>. HIDE DEF c
<1>8. Covered(q, c)
  BY <1>1, <1>6, <1>7 DEF Covered, Covers
<1>. QED BY <1>8 DEF c

\* The requests that wait are active, or will be dropped.
LEMMA ActiveTimed ==
  ASSUME Tables', TypeOK', Covered(req', base'),
         \A f \in Calls(stack') : f.op # "expire"
  PROVE  Resets(Calls(stack')) \/ Timed(req', base', Calls(stack'))
<1>. DEFINE T == Calls(stack')
<1>1. SUFFICES ASSUME ~Resets(T)
               PROVE  Timed(req', base', T)
  OBVIOUS
<1>2. ASSUME NEW x \in Requests
      PROVE  Tabled(req', base', T, x) /\ ~DropDue(T, x) /\ ~Stolen(T, x)
  BY <1>1 DEF Tables, Placed, Resets, DropDue, Stolen
<1>3. base'.pending \subseteq Requests
  BY DEF TypeOK, BaseRecord
<1>. HIDE DEF T
<1>4. \A x \in base'.pending : x \in base'.active
  BY <1>2, <1>3 DEF Tabled, Underway
<1>5. \A x \in Waiting(req', T) : x \in base'.active
  BY <1>2 DEF Tabled, Underway, Waiting
<1>. QED BY <1>4, <1>5 DEF Covered, Timed

\* A call that may reset the timer ends.
LEMMA ResetStep ==
  ASSUME TypeOK, TypeOK', Tables, Tables', Timing, ~Idle, Become(<<>>), UNCHANGED link,
         Top.op \in {"retried", "connected", "unblocked", "reset", "submitted", "dropped"},
         \A x \in Requests : /\ req'[x].deadline = req[x].deadline
                             /\ req'[x].timeout = req[x].timeout
                             /\ req'[x].scheduled = req[x].scheduled,
         Unscheduled(req'),
         \A x \in Waiting(req', Calls(stack')) : x \in Waiting(req, Calls(stack)),
         \/ \E t \in ResetTimeout(req, base) : base' = [base EXCEPT !.timer = t]
         \/ UNCHANGED base /\ ~ret /\ Top.op \notin {"reset", "dropped"}
  PROVE  Timing'
<1>. DEFINE S == Calls(stack)
            T == Calls(stack')
            U == Calls(Tail(stack))
<1>1. <<>> \in Frames /\ Calls(<<>>) = {} /\ Unscanned(<<>>)
  BY UnscannedFew
<1>2. /\ Going(<<>>, U) /\ T = U /\ U \subseteq S /\ S \subseteq U \cup {Top}
      /\ \A h \in U : h.op \notin Steady
  BY <1>1, TopCalls
<1>3. /\ req \in RequestMap /\ base \in BaseRecord
      /\ base.active \subseteq Requests /\ base.pending \subseteq Requests
  BY DEF TypeOK, RequestMap, BaseRecord
<1>4. /\ base'.active = base.active /\ base'.pending = base.pending
      /\ base'.block = base.block /\ base'.timeout = base.timeout
  BY <1>3 DEF BaseRecord
<1>5. Dated(req', base')
  BY <1>3, <1>4 DEF Timing, Dated, TimeoutOf
<1>. HIDE DEF S, T, U
<1>6. \A f \in T : f.op # "expire" /\ ~Scans(f)
  BY <1>2 DEF Steady, Scans
<1>7. Resets(T) \/ Timed(req', base', T)
  <2>1. ASSUME NEW t \in ResetTimeout(req, base), base' = [base EXCEPT !.timer = t]
        PROVE  Resets(T) \/ Timed(req', base', T)
    <3>1. Covered(req, base')
      BY <1>3, <2>1, ResetCovers DEF Timing
    <3>2. Covered(req', base')
      BY <1>3, <1>4, <3>1 DEF Covered
    <3>. QED BY <1>6, <3>2, ActiveTimed DEF T
  <2>2. CASE UNCHANGED base /\ ~ret /\ Top.op \notin {"reset", "dropped"}
    <3>1. Resets(S) \/ Asking \/ Timed(req, base, S)
      BY DEF Timing, S
    <3>2. ~Asking
      BY <2>2 DEF Asking, Scans
    <3>3. Resets(S) => Resets(T)
      BY <1>2, <2>2 DEF Resets
    <3>4. Timed(req, base, S) => Timed(req', base', T)
      BY <1>3, <2>2 DEF Timed, S, T, Waiting
    <3>. QED BY <3>1, <3>2, <3>3, <3>4
  <2>. QED BY <2>1, <2>2
<1>8. ASSUME Groups = {}
      PROVE  Looked(req', base', link', T)
  <2>1. Looked(req, base, link, S)
    BY <1>8 DEF Timing, S
  <2>2. ~\E f \in S : Scans(f)
    BY <1>2, <1>6 DEF Scans
  <2>3. Starts(S) => Starts(T)
    BY <1>2 DEF Starts
  <2>4. \A x \in Waiting(req', T) : x \in Waiting(req, S) /\ x \in Requests
    BY DEF Waiting, S, T
  <2>. QED BY <1>4, <2>1, <2>2, <2>3, <2>4 DEF Looked, Ready, Allowed
<1>9. Idle \/ ~Scans(Top)
  BY DEF Scans
<1>. QED BY <1>1, <1>2, <1>5, <1>6, <1>7, <1>8, <1>9, TimingStep DEF Unscanned, T

\* A call that does not concern the request leaves it where it was.
LEMMA WaitingLeft ==
  ASSUME TypeOK, Tables, ~Idle, Become(<<>>),
         Top.op \in {"retried", "connected", "unblocked", "reset", "submitted", "dropped"},
         NEW x \in Requests, Top.op = "dropped" => x # Top.r
  PROVE  Out(Calls(stack), x) => Out(Calls(stack'), x)
<1>1. /\ Calls(stack) \subseteq Calls(stack') \cup {Top}
  BY CallsOfNone, TopCalls
<1>. QED BY <1>1 DEF Out, Leaving, Ending

\* The calls that end with a reset, some only if the scan has sent something.
LEMMA TimingReset ==
  ASSUME TypeOK, TypeOK', Tables, Tables', Timing, LifeStep,
         Reset \/ Submitted \/ Dropped
  PROVE  Timing'
<1>. DEFINE op == Top.op
            T == Calls(stack')
<1>1. /\ ~Idle /\ Become(<<>>) /\ UNCHANGED link
      /\ op \in {"retried", "connected", "unblocked", "reset", "submitted", "dropped"}
  BY RunningTop DEF Reset, Submitted, Dropped
<1>2. \/ \E t \in ResetTimeout(req, base) : base' = [base EXCEPT !.timer = t]
      \/ UNCHANGED base /\ ~ret /\ op \notin {"reset", "dropped"}
  <2>1. CASE Reset
    <3>1. op \in {"retried", "connected", "unblocked", "reset"}
      BY <2>1 DEF Reset
    <3>2. \/ \E t \in ResetTimeout(req, base) : base' = [base EXCEPT !.timer = t]
          \/ /\ UNCHANGED base
             /\ ~(\/ op \in {"retried", "connected"} /\ ret
                  \/ op = "unblocked" /\ (ret \/ base.owner = None)
                  \/ op = "reset")
      BY <2>1 DEF Reset
    <3>. QED BY <3>1, <3>2
  <2>2. CASE Submitted
    <3>1. op = "submitted"
      BY <2>2, RunningTop DEF Submitted
    <3>2. \/ \E t \in ResetTimeout(req, base) : base' = [base EXCEPT !.timer = t]
          \/ UNCHANGED base /\ ~ret
      BY <2>2 DEF Submitted
    <3>. QED BY <3>1, <3>2
  <2>3. CASE Dropped
    BY <2>3 DEF Dropped
  <2>. QED BY <2>1, <2>2, <2>3
<1>3. req \in RequestMap
  BY DEF TypeOK, RequestMap
<1>4. ASSUME NEW x \in Requests
      PROVE  /\ ClockAt(req[x], req'[x]) /\ req'[x].scheduled = req[x].scheduled
             /\ req'[x].state = "QUEUED" => req[x].state = "QUEUED"
                                            /\ (op = "dropped" => x # Top.r)
  <2>1. req[x] \in RequestRecord
    BY <1>3 DEF RequestMap
  <2>2. CASE Reset
    BY <2>2 DEF Reset, ClockAt
  <2>3. CASE Submitted
    <3>1. \/ req' = req
          \/ req' = [req EXCEPT ![Top.r] = [@ EXCEPT !.complete = Top.some,
                                                    !.submitted = TRUE]]
      BY <2>3 DEF Submitted
    <3>2. \/ req'[x] = req[x]
          \/ req'[x] = [req[x] EXCEPT !.complete = Top.some, !.submitted = TRUE]
      BY <1>3, <3>1 DEF RequestMap
    <3>3. op = "submitted"
      BY <2>3, RunningTop DEF Submitted
    <3>. QED BY <2>1, <3>2, <3>3 DEF ClockAt, RequestRecord
  <2>4. CASE Dropped
    <3>1. req' = [req EXCEPT ![Top.r].state = IF @ \in Live THEN "CANCELLED" ELSE @]
      BY <2>4 DEF Dropped
    <3>2. x # Top.r => req'[x] = req[x]
      BY <1>3, <3>1 DEF RequestMap
    <3>3. x = Top.r =>
            req'[x] = [req[x] EXCEPT !.state = IF @ \in Live THEN "CANCELLED" ELSE @]
      BY <1>3, <3>1 DEF RequestMap
    <3>4. x = Top.r => ClockAt(req[x], req'[x]) /\ req'[x].scheduled = req[x].scheduled
                       /\ req'[x].state # "QUEUED"
      BY <2>1, <3>3 DEF ClockAt, RequestRecord, Live
    <3>. QED BY <3>2, <3>4 DEF ClockAt
  <2>. QED BY <2>2, <2>3, <2>4
<1>5. Unscheduled(req')
  BY <1>4, UnscheduledKept DEF Clocks
<1>6. \A x \in Waiting(req', T) : x \in Waiting(req, Calls(stack))
  <2>1. SUFFICES ASSUME NEW x \in Requests, req'[x].state = "QUEUED", ~Out(T, x)
                 PROVE  req[x].state = "QUEUED" /\ ~Out(Calls(stack), x)
    BY DEF Waiting
  <2>2. req[x].state = "QUEUED" /\ (op = "dropped" => x # Top.r)
    BY <1>4, <2>1
  <2>. QED BY <1>1, <2>1, <2>2, WaitingLeft
<1>7. \A x \in Requests : /\ req'[x].deadline = req[x].deadline
                          /\ req'[x].timeout = req[x].timeout
                          /\ req'[x].scheduled = req[x].scheduled
  BY <1>4 DEF ClockAt
<1>. QED BY <1>1, <1>2, <1>5, <1>6, <1>7, ResetStep

-----------------------------------------------------------------------------
(***************************************************************************)
(* A user changes a timeout.                                               *)
(***************************************************************************)

\* States, schedules and tables stay as they are; deadlines may change.
LEMMA TimingSettled ==
  ASSUME TypeOK, TypeOK', Tables, Tables', Timing, Idle, UNCHANGED <<link, stack>>,
         \A x \in Requests : /\ req'[x].state = req[x].state
                             /\ req'[x].scheduled = req[x].scheduled,
         base'.block = base.block, base'.active = base.active,
         base'.pending = base.pending, Dated(req', base'),
         \/ Covered(req', base')
         \/ /\ base'.timer = base.timer
            /\ \A x \in base.pending : req'[x].deadline = req[x].deadline
  PROVE  Timing'
<1>. DEFINE T == Calls(stack')
<1>1. T = {} /\ Calls(stack) = {}
  BY IdleCalls
<1>2. Going(<<>>, Calls(stack)) /\ <<>> \in Frames /\ Unscanned(<<>>)
  BY NoCalls, UnscannedFew DEF Going
<1>3. Waiting(req', T) = Waiting(req, Calls(stack))
  BY <1>1 DEF Waiting
<1>4. base.pending \subseteq Requests
  BY DEF TypeOK, BaseRecord
<1>. HIDE DEF T
<1>5. Unscheduled(req')
  BY DEF Timing, Unscheduled
<1>6. Resets(T) \/ Timed(req', base', T)
  <2>1. CASE Covered(req', base')
    BY <1>1, <2>1, ActiveTimed DEF T
  <2>2. CASE /\ base'.timer = base.timer
             /\ \A x \in base.pending : req'[x].deadline = req[x].deadline
    <3>1. Timed(req, base, Calls(stack))
      BY <1>1 DEF Timing, Resets, Asking
    <3>2. \A x \in Waiting(req, Calls(stack)) : req'[x].scheduled = req[x].scheduled
      BY DEF Waiting
    <3>. QED BY <1>3, <1>4, <2>2, <3>1, <3>2 DEF Timed, Covers, Allowed
  <2>. QED BY <2>1, <2>2
<1>7. Groups = {} => Looked(req', base', link', T)
  <2>1. \A x \in Waiting(req, Calls(stack)) : req'[x].scheduled = req[x].scheduled
    BY DEF Waiting
  <2>. QED BY <1>1, <1>3, <2>1 DEF Timing, Looked, Ready, Allowed, Starts
<1>. QED BY <1>1, <1>2, <1>5, <1>6, <1>7, TimingStep DEF Unscanned, T

\* The timeout of a request: its deadline counts from now on.
LEMMA TimingSetTimeout ==
  ASSUME TypeOK, TypeOK', Tables, Tables', Timing, NEW r \in Requests,
         NEW ms \in Timeouts, SetTimeout(r, ms)
  PROVE  Timing'
<1>. DEFINE started == req[r].registered /\ req[r].state # "NEW"
            d == IF started THEN now + TimeoutOf(base, ms) ELSE req[r].deadline
            q == [req EXCEPT ![r] = [req[r] EXCEPT !.timeout = ms, !.deadline = d]]
<1>1. UserTurn /\ UNCHANGED <<link, stack>> /\ req' = q
      /\ IF started
         THEN \E t \in ResetTimeout(q, base) : base' = [base EXCEPT !.timer = t]
         ELSE UNCHANGED base
  BY DEF SetTimeout
<1>2. /\ Idle /\ req \in RequestMap /\ base \in BaseRecord /\ q \in RequestMap
      /\ base.active \subseteq Requests /\ base.pending \subseteq base.active
  <2>1. \A x \in Requests : Tabled(req, base, Calls(stack), x)
    BY DEF Tables, Placed
  <2>2. Idle /\ Calls(stack) = {}
    BY <1>1, UsersIdle, IdleCalls
  <2>3. base.pending \subseteq Requests /\ base.active \subseteq Requests
    BY DEF TypeOK, BaseRecord
  <2>4. base.pending \subseteq base.active
    BY <2>1, <2>2, <2>3 DEF Tabled, Underway, DropDue, Stolen
  <2>. QED BY <1>1, <2>2, <2>3, <2>4 DEF TypeOK, RequestMap
<1>3. base'.active = base.active /\ base'.pending = base.pending
      /\ base'.block = base.block /\ base'.timeout = base.timeout
  BY <1>1, <1>2 DEF BaseRecord
<1>4. now \in Nat \ {0} /\ ms \in Nat /\ base.timeout \in Nat
  BY <1>2, ConstantsAssumption DEF TypeOK, BaseRecord
<1>5. ASSUME NEW x \in Requests
      PROVE  /\ q[x].state = req[x].state /\ q[x].scheduled = req[x].scheduled
             /\ q[x].timeout = IF x = r THEN ms ELSE req[x].timeout
             /\ q[x].deadline = IF x = r THEN d ELSE req[x].deadline
  <2>1. q[x] = IF x = r THEN [req[x] EXCEPT !.timeout = ms, !.deadline = d] ELSE req[x]
    BY <1>2 DEF RequestMap
  <2>2. req[x] \in RequestRecord
    BY <1>2 DEF RequestMap
  <2>. HIDE DEF q, d
  <2>. QED BY <2>1, <2>2 DEF RequestRecord
<1>6. ~started => r \notin base.active
  <2>1. Placed(req, base, net, Calls(stack), r) /\ Calls(stack) = {}
    BY <1>2, IdleCalls DEF Tables
  <2>. QED BY <2>1 DEF Placed, Tabled, Detached, Off, Underway, DropDue
<1>7. Dated(q, base)
  <2>1. started => d >= 1 + TimeoutOf(base, ms)
    <3>1. TimeoutOf(base, ms) \in Nat
      BY <1>4 DEF TimeoutOf
    <3>. QED BY <1>4, <3>1
  <2>2. Dated(req, base)
    BY DEF Timing
  <2>. HIDE DEF q, d, started
  <2>. QED BY <1>2, <1>5, <1>6, <2>1, <2>2 DEF Dated
<1>8. Dated(req', base')
  BY <1>1, <1>3, <1>7 DEF Dated, TimeoutOf
<1>9. \/ Covered(req', base')
      \/ /\ base'.timer = base.timer
         /\ \A x \in base.pending : req'[x].deadline = req[x].deadline
  <2>1. CASE started
    <3>1. PICK t \in ResetTimeout(q, base) : base' = [base EXCEPT !.timer = t]
      BY <1>1, <2>1
    <3>2. Covered(q, [base EXCEPT !.timer = t])
      <4>. HIDE DEF q
      <4>. QED BY <1>2, <1>7, ResetCovers
    <3>. QED BY <1>1, <3>1, <3>2
  <2>2. CASE ~started
    <3>. HIDE DEF q, d
    <3>. QED BY <1>1, <1>2, <1>5, <1>6, <2>2
  <2>. QED BY <2>1, <2>2
<1>. HIDE DEF q, d, started
<1>. QED BY <1>1, <1>2, <1>3, <1>5, <1>8, <1>9, TimingSettled

\* The default timeout: the deadlines of active requests move with it.
LEMMA TimingDefaultTimeout ==
  ASSUME TypeOK, TypeOK', Tables, Tables', Timing, NEW ms \in Timeouts,
         SetDefaultTimeout(ms)
  PROVE  Timing'
<1>. DEFINE affected == {x \in base.active : req[x].timeout = 0}
            q == [x \in Requests |->
                    IF x \in affected
                    THEN [req[x] EXCEPT !.deadline = @ + (ms - base.timeout)]
                    ELSE req[x]]
            b == [base EXCEPT !.timeout = ms]
<1>1. UserTurn /\ UNCHANGED <<link, stack>> /\ req' = q
      /\ IF affected # {}
         THEN \E t \in ResetTimeout(q, b) : base' = [b EXCEPT !.timer = t]
         ELSE base' = b
  BY DEF SetDefaultTimeout
<1>2. Idle /\ req \in RequestMap /\ base \in BaseRecord /\ base.active \subseteq Requests
      /\ base.pending \subseteq Requests /\ ms \in Nat /\ base.timeout \in Nat
  BY <1>1, UsersIdle, ConstantsAssumption DEF TypeOK, RequestMap, BaseRecord
<1>3. b \in BaseRecord /\ b.active = base.active /\ b.pending = base.pending
      /\ b.block = base.block /\ b.timeout = ms /\ b.timer = base.timer
  BY <1>2 DEF BaseRecord
<1>4. base'.active = base.active /\ base'.pending = base.pending
      /\ base'.block = base.block /\ base'.timeout = ms
      /\ (affected = {} => base'.timer = base.timer)
  <2>. HIDE DEF q, affected
  <2>1. \A t : LET c == [b EXCEPT !.timer = t]
               IN  c.active = b.active /\ c.pending = b.pending
                   /\ c.block = b.block /\ c.timeout = b.timeout
    <3>. HIDE DEF b
    <3>. QED BY <1>3 DEF BaseRecord
  <2>. QED BY <1>1, <1>3, <2>1
<1>5. ASSUME NEW x \in Requests
      PROVE  /\ q[x].state = req[x].state /\ q[x].scheduled = req[x].scheduled
             /\ q[x].timeout = req[x].timeout
             /\ x \notin affected => q[x].deadline = req[x].deadline
             /\ x \in affected =>
                  q[x].deadline = req[x].deadline + (ms - base.timeout)
  <2>1. q[x] = IF x \in affected
               THEN [req[x] EXCEPT !.deadline = @ + (ms - base.timeout)]
               ELSE req[x]
    OBVIOUS
  <2>2. req[x] \in RequestRecord
    BY <1>2 DEF RequestMap
  <2>. HIDE DEF q, affected
  <2>. QED BY <2>1, <2>2 DEF RequestRecord
<1>6. Dated(q, b)
  <2>1. SUFFICES ASSUME NEW x \in base.active
                 PROVE  q[x].deadline >= 1 + TimeoutOf(b, q[x].timeout)
    BY <1>3 DEF Dated
  <2>2. /\ req[x].deadline >= 1 + TimeoutOf(base, req[x].timeout)
        /\ req[x].deadline \in Int /\ req[x].timeout \in Nat
    BY <1>2 DEF Timing, Dated, RequestMap, RequestRecord
  <2>3. CASE req[x].timeout = 0
    <3>1. x \in affected
      BY <2>3
    <3>2. TimeoutOf(b, q[x].timeout) = ms /\ TimeoutOf(base, req[x].timeout) = base.timeout
      BY <1>2, <1>3, <1>5, <2>3 DEF TimeoutOf
    <3>3. q[x].deadline = req[x].deadline + (ms - base.timeout)
      BY <1>2, <1>5, <3>1
    <3>. HIDE DEF q, b, affected
    <3>. QED BY <1>2, <2>2, <3>2, <3>3
  <2>4. CASE req[x].timeout # 0
    <3>1. q[x].timeout = req[x].timeout /\ q[x].deadline = req[x].deadline
      BY <1>2, <1>5, <2>4
    <3>. HIDE DEF q, b
    <3>. QED BY <2>2, <2>4, <3>1 DEF TimeoutOf
  <2>. QED BY <2>3, <2>4
<1>7. Dated(req', base')
  <2>. HIDE DEF q, b
  <2>. QED BY <1>1, <1>3, <1>4, <1>6 DEF Dated, TimeoutOf
<1>8. \/ Covered(req', base')
      \/ /\ base'.timer = base.timer
         /\ \A x \in base.pending : req'[x].deadline = req[x].deadline
  <2>1. CASE affected # {}
    <3>1. PICK t \in ResetTimeout(q, b) : base' = [b EXCEPT !.timer = t]
      BY <1>1, <2>1
    <3>2. q \in RequestMap
      BY <1>1 DEF TypeOK, RequestMap
    <3>3. Covered(q, [b EXCEPT !.timer = t])
      <4>. HIDE DEF q, b
      <4>. QED BY <1>3, <1>6, <3>1, <3>2, ResetCovers
    <3>. QED BY <1>1, <3>1, <3>3
  <2>2. CASE affected = {}
    <3>. HIDE DEF q, affected, b
    <3>. QED BY <1>1, <1>2, <1>4, <1>5, <2>2
  <2>. QED BY <2>1, <2>2
<1>. HIDE DEF q, b, affected
<1>. QED BY <1>1, <1>2, <1>4, <1>5, <1>7, <1>8, TimingSettled

-----------------------------------------------------------------------------
(***************************************************************************)
(* The scan.                                                               *)
(***************************************************************************)

\* What a step that goes on scanning has to show.
LEMMA TimingGoes ==
  ASSUME TypeOK, Tables, Timing, ~Idle, Top.op \in Scanners,
         NEW c \in Frame, Scans(c), c.refs = {}, Become(<<c>>),
         Dated(req', base'), Unscheduled(req'),
         \/ Resets(Calls(stack')) \/ Asking'
         \/ Timed(req', base', Calls(stack')),
         Groups = {} => Behind(req', base', Calls(stack'), c)
  PROVE  Timing'
<1>. DEFINE T == Calls(stack')
            U == Calls(Tail(stack))
            fs == <<c>>
<1>1. fs \in Frames /\ Calls(fs) = {c} /\ Len(fs) = 1 /\ DOMAIN fs = 1 .. 1
  BY CallsOfOne
<1>2. /\ Going(fs, U) /\ T = {c} \cup U
      /\ \A h \in U : ~Scans(h) /\ h.op \notin Steady
  <2>1. \A f \in Calls(fs) : Scans(f)
    BY <1>1
  <2>. QED BY <1>1, <2>1, ScanCalls
<1>3. Followed(stack')
  <2>1. \A i \in DOMAIN fs : i = Len(fs) /\ ~Idle /\ Become(fs) /\ Top.op \in Scanners
    BY <1>1
  <2>2. Followed(stack)
    BY DEF Timing
  <2>. HIDE DEF fs, U
  <2>. QED BY <1>1, <1>2, <2>1, <2>2, FollowedGoing
<1>. HIDE DEF T, U, fs
<1>4. \A f \in T : /\ Scans(f) => f.refs = {} /\ f = c
                   /\ f.op # "expire"
  BY <1>2 DEF Steady, Scans
<1>5. Groups = {} => Looked(req', base', link', T)
  BY <1>2 DEF Looked
<1>. QED BY <1>3, <1>4, <1>5 DEF Timing, T

\* The calls below the scan are still there.
LEMMA ScanKeeps ==
  ASSUME TypeOK, Tables, ~Idle, Top.op \in Scanners,
         NEW fs \in Frames, \A f \in Calls(fs) : Scans(f), Become(fs)
  PROVE  /\ Resets(Calls(stack)) => Resets(Calls(stack'))
         /\ \A x \in Requests : RolesAt(Calls(stack), Calls(stack'), x)
         /\ \A x \in Requests : Out(Calls(stack'), x) <=> Out(Calls(stack), x)
<1>1. /\ Calls(stack') = Calls(fs) \cup Calls(Tail(stack))
      /\ Calls(stack) = {Top} \cup Calls(Tail(stack))
      /\ \A x \in Requests : RolesAt(Calls(stack), Calls(stack'), x)
  BY ScanCalls
<1>2. Resets(Calls(stack)) => Resets(Calls(stack'))
  BY <1>1 DEF Resets, Scanners
<1>. QED BY <1>1, <1>2 DEF RolesAt, Out

\* The scan starts at the head of the queue.
LEMMA TimingScanStart ==
  ASSUME TypeOK, Tables, Timing, ScanStart
  PROVE  Timing'
<1>. DEFINE S == Calls(stack)
            T == Calls(stack')
<1>1. ~Idle /\ Top.op = "start" /\ UNCHANGED <<req, base, link>>
  BY RunningTop DEF ScanStart
<1>2. Top.op \in Scanners /\ ~Asking
  BY <1>1 DEF Scanners, Asking, Scans, Tails
<1>3. ASSUME NEW fs \in Frames, \A f \in Calls(fs) : Scans(f), Become(fs)
      PROVE  /\ Resets(T) \/ Timed(req', base', T)
             /\ Waiting(req', T) = Waiting(req, S)
  <2>1. /\ Resets(S) => Resets(T)
        /\ \A x \in Requests : Out(T, x) <=> Out(S, x)
    BY <1>1, <1>2, <1>3, ScanKeeps
  <2>. HIDE DEF S, T
  <2>2. Waiting(req', T) = Waiting(req, S)
    BY <1>1, <2>1 DEF Waiting
  <2>3. Resets(S) \/ Timed(req, base, S)
    BY <1>2 DEF Timing, S
  <2>. QED BY <1>1, <2>1, <2>2, <2>3 DEF Timed
<1>4. Dated(req', base') /\ Unscheduled(req')
  BY <1>1 DEF Timing
<1>5. CASE link.connected
  <2>. DEFINE c == Call("scan", base.first)
  <2>1. Become(<<c>>)
    BY <1>5 DEF ScanStart
  <2>2. c \in Frame /\ c.op = "scan" /\ c.r = base.first /\ c.prev = None /\ c.refs = {}
    <3>1. base.first \in MaybeRequest /\ "scan" \in (Ops \ RequestOps) \ ObservedOps
      BY DEF TypeOK, BaseRecord, Ops, RequestOps, ObservedOps
    <3>2. c \in Frame
      BY <3>1, CallType
    <3>. QED BY <3>2 DEF Call
  <2>. HIDE DEF c
  <2>3. <<c>> \in Frames /\ Calls(<<c>>) = {c} /\ Scans(c)
    BY <2>2, CallsOfOne DEF Scans
  <2>4. /\ Resets(T) \/ Timed(req', base', T)
        /\ Waiting(req', T) = Waiting(req, S)
    BY <1>3, <2>1, <2>3
  <2>5. PICK l, s : Row(req, base, Waiting(req, S), l, s)
    BY DEF Tables, Lined
  <2>. HIDE DEF S, T
  <2>6. Passed(req', base', T, c)
    <3>1. l \in Nat /\ base.first = IF l = 0 THEN None ELSE s[1]
      BY <2>5 DEF Row, Chain
    <3>2. 1 \in 1 .. l + 1 /\ Ahead(c) = IF 1 <= l THEN s[1] ELSE None
      BY <2>2, <3>1 DEF Ahead
    <3>3. \A j \in 1 .. l : ~(j < 1)
      BY <3>1
    <3>. QED BY <1>1, <2>2, <2>4, <2>5, <3>2, <3>3 DEF Passed
  <2>7. Behind(req', base', T, c)
    BY <2>2, <2>6 DEF Behind
  <2>. QED BY <1>1, <1>2, <1>4, <2>1, <2>2, <2>3, <2>4, <2>7, TimingGoes DEF T
<1>6. CASE ~link.connected
  <2>1. Become(<<>>) /\ <<>> \in Frames /\ Calls(<<>>) = {} /\ Unscanned(<<>>)
    BY <1>6, UnscannedFew DEF ScanStart
  <2>2. Resets(T) \/ Timed(req', base', T)
    BY <1>3, <2>1
  <2>3. Going(<<>>, Calls(Tail(stack))) /\ \A f \in T : f.op \notin Steady
    BY <1>1, <2>1, TopCalls
  <2>4. (Idle \/ ~Scans(Top)) /\ \A f \in T : f.op # "expire"
    BY <1>1, <2>3 DEF Scans, Steady
  <2>5. Looked(req', base', link', T)
    BY <1>1, <1>6 DEF Looked
  <2>. QED BY <1>4, <2>1, <2>2, <2>3, <2>4, <2>5, TimingStep DEF Unscanned, T
<1>. QED BY <1>5, <1>6

\* The scan passes only what it cannot send.
LEMMA TimingScanSkip ==
  ASSUME TypeOK, Tables, Timing, ScanSkip
  PROVE  Timing'
<1>. DEFINE S == Calls(stack)
            T == Calls(stack')
<1>1. PICK r \in Requests :
        /\ Scanning(r) /\ ~(CanSubmitRequest(req, base, r) /\ Due(r))
        /\ Become(<<[Top EXCEPT !.r = req[r].next, !.prev = r]>>)
  BY DEF ScanSkip
<1>2. /\ Running("scan") /\ ~Idle /\ Top.op = "scan" /\ r = Top.r
      /\ UNCHANGED <<req, base, link>> /\ r # None
  BY <1>1, RunningTop DEF Scanning, ScanSkip
<1>3. Scans(Top) /\ Top \in Frame /\ Top \in S /\ Top.op \in Scanners
  BY <1>2, TopType, ScanStands DEF Scans
<1>. DEFINE c == [Top EXCEPT !.r = req[r].next, !.prev = r]
<1>4. /\ c \in Frame /\ c.op = "scan" /\ c.r = req[r].next /\ c.prev = r
      /\ c.refs = {} /\ c.some = Top.some
  <2>1. r \in MaybeRequest /\ req[r].next \in MaybeRequest
    BY DEF TypeOK, RequestRecord, MaybeRequest
  <2>2. c \in Frame
    BY <1>2, <2>1, ScanFrameType
  <2>3. Top.refs = {}
    BY <1>3 DEF Timing
  <2>. QED BY <1>2, <1>3, <2>2, <2>3 DEF Frame
<1>5. Become(<<c>>)
  BY <1>1
<1>. HIDE DEF c
<1>6. <<c>> \in Frames /\ Calls(<<c>>) = {c} /\ Scans(c)
  BY <1>4, CallsOfOne DEF Scans
<1>7. /\ Resets(S) => Resets(T)
      /\ \A x \in Requests : Out(T, x) <=> Out(S, x)
  BY <1>2, <1>3, <1>5, <1>6, ScanKeeps
<1>8. Asking => Asking'
  <2>1. Asking => Top.some
    BY <1>2 DEF Asking, Tails
  <2>2. ~Idle' /\ Top' = c
    BY <1>5, <1>6 DEF Become, Idle, Top, Frames, TypeOK
  <2>. QED BY <1>4, <1>6, <2>1, <2>2 DEF Asking, Scans
<1>. HIDE DEF S, T
<1>9. Waiting(req', T) = Waiting(req, S)
  BY <1>2, <1>7 DEF Waiting
<1>10. Resets(T) \/ Asking' \/ Timed(req', base', T)
  <2>1. Resets(S) \/ Asking \/ Timed(req, base, S)
    BY DEF Timing, S
  <2>. QED BY <1>2, <1>7, <1>8, <1>9, <2>1 DEF Timed
<1>11. ASSUME Groups = {} PROVE Behind(req', base', T, c)
  <2>1. Behind(req, base, S, Top)
    BY <1>3, <1>11 DEF Timing, S
  <2>2. PICK l, s, k :
          /\ Row(req, base, Waiting(req, S), l, s)
          /\ k \in 1 .. l + 1
          /\ Top.prev = IF k = 1 THEN None ELSE s[k - 1]
          /\ Ahead(Top) = IF k <= l THEN s[k] ELSE None
          /\ \A j \in 1 .. l : j < k => ~Ready(req, base, s[j])
    BY <1>2, <2>1 DEF Behind, Passed
  <2>3. /\ l \in Nat /\ s \in [1 .. l -> Requests]
        /\ \A i \in 1 .. l : req[s[i]].next = IF i < l THEN s[i + 1] ELSE None
    BY <2>2 DEF Row, Chain
  <2>4. k \in 1 .. l /\ s[k] = r
    BY <1>2, <2>2, <2>3 DEF Ahead
  <2>5. ~Ready(req, base, r)
    <3>1. req \in RequestMap /\ base \in BaseRecord
      BY DEF TypeOK, RequestMap
    <3>2. CanSubmitRequest(req, base, r) <=> Allowed(base, r)
      BY <1>11, <3>1, FreeSubmit
    <3>. QED BY <1>1, <3>2 DEF Ready, Due
  <2>6. k + 1 \in 1 .. l + 1 /\ c.prev = IF k + 1 = 1 THEN None ELSE s[(k + 1) - 1]
    <3>1. k + 1 # 1 /\ (k + 1) - 1 = k /\ k + 1 \in 1 .. l + 1
      BY <2>3, <2>4
    <3>. QED BY <1>4, <2>4, <3>1
  <2>7. Ahead(c) = IF k + 1 <= l THEN s[k + 1] ELSE None
    BY <1>4, <2>3, <2>4 DEF Ahead
  <2>8. \A j \in 1 .. l : j < k + 1 => ~Ready(req, base, s[j])
    <3>1. \A j \in 1 .. l : j < k + 1 => j < k \/ j = k
      BY <2>3, <2>4
    <3>. QED BY <2>2, <2>4, <2>5, <3>1
  <2>9. Row(req', base', Waiting(req', T), l, s)
    BY <1>2, <1>9, <2>2
  <2>10. \A j \in 1 .. l : j < k + 1 => ~Ready(req', base', s[j])
    BY <1>2, <2>8
  <2>11. Passed(req', base', T, c)
    BY <2>6, <2>7, <2>9, <2>10 DEF Passed
  <2>. QED BY <1>4, <2>11 DEF Behind
<1>12. Dated(req', base') /\ Unscheduled(req')
  BY <1>2 DEF Timing
<1>. QED BY <1>2, <1>3, <1>4, <1>5, <1>6, <1>10, <1>11, <1>12, TimingGoes DEF T

\* A blocking request that was sent holds back all the others.
LEMMA TimingScanSent ==
  ASSUME TypeOK, Tables, Timing, ScanSent
  PROVE  Timing'
<1>. DEFINE S == Calls(stack)
            T == Calls(stack')
            r == Top.r
            x0 == IF r \in Blocking THEN None ELSE Top.next
            c == [Top EXCEPT !.op = "scan", !.r = x0]
<1>1. /\ ~Idle /\ Top.op = "sent" /\ UNCHANGED <<req, link>> /\ Become(<<c>>)
      /\ IF r \in Blocking
         THEN base' = [base EXCEPT !.block = IF @ = None THEN r ELSE @]
         ELSE base' = base
  BY RunningTop DEF ScanSent
<1>2. Scans(Top) /\ Top \in Frame /\ Top \in S /\ Top.op \in Scanners
  BY <1>1, TopType, ScanStands DEF Scans
<1>3. /\ c \in Frame /\ c.op = "scan" /\ c.r = x0 /\ c.prev = Top.prev
      /\ c.refs = {} /\ c.some = Top.some
  <2>1. x0 \in MaybeRequest
    BY <1>2 DEF Frame, MaybeRequest
  <2>2. Top.refs = {}
    BY <1>2 DEF Timing
  <2>. HIDE DEF x0
  <2>. QED BY <1>2, <2>1, <2>2 DEF Frame, Ops, RequestOps, ObservedOps
<1>. HIDE DEF c
<1>4. <<c>> \in Frames /\ Calls(<<c>>) = {c} /\ Scans(c)
  BY <1>3, CallsOfOne DEF Scans
<1>5. /\ Resets(S) => Resets(T)
      /\ \A x \in Requests : Out(T, x) <=> Out(S, x)
  BY <1>1, <1>2, <1>4, ScanKeeps
<1>6. Asking => Asking'
  <2>1. Asking => Top.some
    BY <1>1 DEF Asking, Tails
  <2>2. ~Idle' /\ Top' = c
    BY <1>1, <1>4 DEF Become, Idle, Top, Frames, TypeOK
  <2>. QED BY <1>3, <1>4, <2>1, <2>2 DEF Asking, Scans
<1>7. /\ base'.active = base.active /\ base'.pending = base.pending
      /\ base'.first = base.first /\ base'.last = base.last
      /\ base'.timer = base.timer /\ base'.timeout = base.timeout
      /\ base'.block = base.block \/ (r \in Blocking /\ base.block = None /\ base'.block = r)
      /\ (r \in Blocking /\ base.block = None => base'.block = r)
  BY <1>1 DEF TypeOK, BaseRecord
<1>8. \A x : Allowed(base', x) => Allowed(base, x)
  BY <1>7 DEF Allowed
<1>. HIDE DEF S, T, x0
<1>9. Waiting(req', T) = Waiting(req, S)
  BY <1>1, <1>5 DEF Waiting
<1>10. Resets(T) \/ Asking' \/ Timed(req', base', T)
  <2>1. Resets(S) \/ Asking \/ Timed(req, base, S)
    BY DEF Timing, S
  <2>2. Timed(req, base, S) => Timed(req', base', T)
    BY <1>1, <1>7, <1>8, <1>9 DEF Timed, Covers
  <2>. QED BY <1>5, <1>6, <2>1, <2>2
<1>11. ASSUME Groups = {} PROVE Behind(req', base', T, c)
  <2>1. Behind(req, base, S, Top)
    BY <1>2, <1>11 DEF Timing, S
  <2>2. CASE r \in Blocking
    <3>1. r \in base.pending /\ Allowed(base, r)
      BY <1>1, <2>1 DEF Behind
    <3>2. base'.block = r /\ r # None /\ r \in Requests
      <4>1. r \in Requests /\ None \notin Requests
        BY <3>1, ConstantsAssumption DEF TypeOK, BaseRecord
      <4>. QED BY <1>7, <2>2, <3>1, <4>1 DEF Allowed
    <3>3. r \notin Waiting(req, S)
      <4>1. Tabled(req, base, S, r)
        BY <3>2 DEF Tables, Placed, S
      <4>. QED BY <3>1, <4>1 DEF Tabled, Waiting
    <3>4. \A x \in Waiting(req', T) : x \in Requests /\ x # r
      BY <1>9, <3>3 DEF Waiting
    <3>5. \A x \in Waiting(req', T) : ~Ready(req', base', x)
      BY <3>2, <3>4, ConstantsAssumption DEF Ready, Allowed
    <3>. QED BY <1>3, <2>2, <3>5 DEF Behind, x0
  <2>3. CASE r \notin Blocking
    <3>1. Passed(req, base, S, Top) /\ base' = base
      BY <1>1, <2>1, <2>3 DEF Behind
    <3>2. Ahead(c) = Ahead(Top)
      BY <1>1, <1>3, <2>3 DEF Ahead, x0
    <3>3. Passed(req', base', T, c)
      BY <1>1, <1>3, <1>9, <3>1, <3>2 DEF Passed
    <3>. QED BY <1>3, <3>3 DEF Behind
  <2>. QED BY <2>2, <2>3
<1>12. Dated(req', base') /\ Unscheduled(req')
  BY <1>1, <1>7 DEF Timing, Dated, TimeoutOf
<1>. QED BY <1>1, <1>2, <1>3, <1>4, <1>10, <1>11, <1>12, TimingGoes DEF T

\* submit_transaction leaves the clocks of the others alone.
LEMMA SendClock ==
  ASSUME NEW q \in RequestMap, NEW r \in Requests, NEW p, NEW x \in Requests
  PROVE  /\ SentReq(q, r, p)[x].deadline = q[x].deadline
         /\ SentReq(q, r, p)[x].timeout = q[x].timeout
<1>. DEFINE v == UnlinkReq(q, r, p)
            q1 == NewSerialReq(v, r)
            u == SentReq(q, r, p)
<1>1. /\ DOMAIN v = Requests /\ q[x] \in RequestRecord
      /\ \E n : v[x] = [q[x] EXCEPT !.next = n]
  BY DEF UnlinkReq, RequestMap
<1>2. /\ v[x].deadline = q[x].deadline /\ v[x].timeout = q[x].timeout
      /\ DOMAIN v[x] = DOMAIN q[x]
  BY <1>1 DEF RequestRecord
<1>. HIDE DEF v
<1>3. /\ DOMAIN q1 = Requests
      /\ \/ q1[x] = v[x]
         \/ \E a, b : q1[x] = [v[x] EXCEPT !.sends = a, !.serial2 = b]
  BY <1>1 DEF NewSerialReq
<1>4. /\ q1[x].deadline = v[x].deadline /\ q1[x].timeout = v[x].timeout
      /\ DOMAIN q1[x] = DOMAIN q[x]
  BY <1>1, <1>2, <1>3 DEF RequestRecord
<1>5. u = [q1 EXCEPT ![r] = [@ EXCEPT !.scheduled = 0, !.state = "PENDING",
                                      !.tx = q1[r].sends]]
  BY DEF SentReq, v
<1>. HIDE DEF q1, u
<1>6. \/ u[x] = q1[x]
      \/ \E a : u[x] = [q1[x] EXCEPT !.scheduled = 0, !.state = "PENDING", !.tx = a]
  BY <1>3, <1>5
<1>7. u[x].deadline = q1[x].deadline /\ u[x].timeout = q1[x].timeout
  BY <1>1, <1>4, <1>6 DEF RequestRecord
<1>. QED BY <1>2, <1>4, <1>7 DEF u

\* ... and the default timeout.
LEMMA SendTimer ==
  ASSUME NEW q, NEW u, NEW b \in BaseRecord, NEW r, NEW p
  PROVE  SentBase(q, u, b, r, p).timeout = b.timeout
<1>. DEFINE b0 == UnlinkBase(q, b, r, p)
            b1 == NewSerialBase(q, b0, r)
            b2 == [b1 EXCEPT !.pending = @ \cup {r}]
            c == SentBase(q, u, b, r, p)
<1>1. b0.timeout = b.timeout /\ DOMAIN b0 = DOMAIN b
  BY DEF UnlinkBase, BaseRecord
<1>. HIDE DEF b0
<1>2. b1.timeout = b0.timeout /\ DOMAIN b1 = DOMAIN b0
  BY <1>1 DEF NewSerialBase, BaseRecord
<1>. HIDE DEF b1
<1>3. b2.timeout = b1.timeout /\ DOMAIN b2 = DOMAIN b1
  BY <1>1, <1>2 DEF BaseRecord
<1>4. c = MoveOwnerQueue(u, b2)
  BY DEF b2, b1, b0, SentBase
<1>. HIDE DEF b2, c
<1>5. c.timeout = b2.timeout
  BY <1>1, <1>2, <1>3, <1>4 DEF MoveOwnerQueue, BaseRecord
<1>. QED BY <1>1, <1>2, <1>3, <1>5 DEF c

\* A request is sent: the scan will ask for a reset.
LEMMA TimingScanSend ==
  ASSUME TypeOK, TypeOK', Tables, Timing, MaxDepth = 0, ScanSend
  PROVE  Timing'
<1>. DEFINE S == Calls(stack)
            T == Calls(stack')
            p == Top.prev
<1>1. PICK r \in Requests :
        /\ Scanning(r)
        /\ CanSubmitRequest(req, base, r) /\ Due(r)
        /\ LET q1 == NewSerialReq(UnlinkReq(req, r, Top.prev), r)
               q2 == [q1 EXCEPT ![r] = [@ EXCEPT !.scheduled = 0,
                                                 !.state = "PENDING",
                                                 !.tx = q1[r].sends]]
               b1 == NewSerialBase(req, UnlinkBase(req, base, r, Top.prev), r)
               b2 == [b1 EXCEPT !.pending = @ \cup {r}]
           IN  /\ req' = q2
               /\ base' = MoveOwnerQueue(q2, b2)
               /\ Become((IF MovesOwner(q2, b2) THEN Callback(None) ELSE <<>>)
                         \o <<[Top EXCEPT !.op = "sent", !.next = req[r].next,
                                          !.some = TRUE]>>)
  BY DEF ScanSend
<1>2. /\ ~Idle /\ Top.op = "scan" /\ r = Top.r /\ UNCHANGED link /\ r # None
      /\ req \in RequestMap /\ base \in BaseRecord /\ base' \in BaseRecord
  BY <1>1, RunningTop, ConstantsAssumption DEF Scanning, ScanSend, TypeOK, RequestMap
<1>3. Scans(Top) /\ Top \in Frame /\ Top \in S /\ Top.op \in Scanners
  BY <1>2, TopType, ScanStands DEF Scans
<1>. DEFINE c == [Top EXCEPT !.op = "sent", !.next = req[r].next, !.some = TRUE]
<1>4. /\ c \in Frame /\ c.op = "sent" /\ c.next = req[r].next /\ c.prev = p
      /\ c.r = r /\ c.refs = {} /\ c.some = TRUE
  <2>1. req[r].next \in MaybeRequest
    BY <1>2 DEF RequestMap, RequestRecord
  <2>2. Top.refs = {}
    BY <1>3 DEF Timing
  <2>. QED BY <1>2, <1>3, <2>1, <2>2 DEF Frame, Ops, ObservedOps
<1>5. Become(<<c>>)
  <2>1. Callback(None) = <<>> /\ <<c>> \in Frames
    BY <1>4, NoHandler, CallsOfOne
  <2>. QED BY <1>1, <2>1, NoneFirst
<1>. HIDE DEF c
<1>6. <<c>> \in Frames /\ Calls(<<c>>) = {c} /\ Scans(c)
  BY <1>4, CallsOfOne DEF Scans
<1>7. \A x \in Requests : Out(T, x) <=> Out(S, x)
  BY <1>2, <1>3, <1>5, <1>6, ScanKeeps
<1>8. Asking'
  <2>1. ~Idle' /\ Top' = c
    BY <1>5, <1>6 DEF Become, Idle, Top, Frames, TypeOK
  <2>. QED BY <1>4, <1>6, <2>1 DEF Asking
<1>9. PICK l, s, k : /\ Row(req, base, Waiting(req, S), l, s)
                     /\ At(req, net, S, Top, s, l, k)
  BY <1>2, <1>3, ScanStands
<1>. HIDE DEF S, T, p
<1>10. req' = SentReq(req, r, p) /\ base' = SentBase(req, req', base, r, p)
       /\ p \in MaybeRequest
  BY <1>1, <1>3 DEF SentReq, SentBase, p, Frame
<1>11. /\ \A x \in Requests :
            req'[x].next = CASE x = r -> None
                             [] x = p /\ x # r -> req[r].next
                             [] OTHER -> req[x].next
       /\ \A x \in Requests : x # r => /\ req'[x].state = req[x].state
                                       /\ req'[x].scheduled = req[x].scheduled
       /\ req'[r].state = "PENDING"
  <2>. DEFINE u == req'
  <2>1. u = SentReq(req, r, p)
    BY <1>10
  <2>. HIDE DEF u
  <2>2. /\ \A x \in Requests :
             u[x].next = CASE x = r -> None
                           [] x = p /\ x # r -> req[r].next
                           [] OTHER -> req[x].next
        /\ \A x \in Requests : x # r => /\ u[x].state = req[x].state
                                        /\ u[x].scheduled = req[x].scheduled
        /\ u[r].state = "PENDING"
    BY <1>2, <1>10, <2>1, SendFields
  <2>. QED BY <2>2 DEF u
<1>12. /\ base'.active \in {base.active, base.active \cup {r}}
       /\ base'.pending = base.pending \cup {r} /\ base'.block = base.block
       /\ base'.timeout = base.timeout
       /\ base'.first = IF p = None THEN req[r].next ELSE base.first
       /\ base'.last = IF req[r].next = None THEN p ELSE base.last
  <2>. DEFINE d == base'
              u == req'
  <2>1. d = SentBase(req, u, base, r, p)
    BY <1>10
  <2>0. req \in RequestMap /\ base \in BaseRecord /\ p \in MaybeRequest
    BY <1>2, <1>10
  <2>. HIDE DEF u, d
  <2>2. d.active \in {base.active, base.active \cup {r}}
    BY <2>0, <2>1, SendTables
  <2>3. d.pending = base.pending \cup {r}
    BY <2>0, <2>1, SendTables
  <2>4. d.block = base.block
    BY <2>0, <2>1, SendTables
  <2>5. d.timeout = base.timeout
    BY <2>0, <2>1, SendTimer
  <2>6. d.first = IF p = None THEN req[r].next ELSE base.first
    BY <2>0, <2>1, SendHead
  <2>7. d.last = IF req[r].next = None THEN p ELSE base.last
    BY <2>0, <2>1, SendTail
  <2>. QED BY <2>2, <2>3, <2>4, <2>5, <2>6, <2>7 DEF d
<1>13. /\ l \in Nat /\ s \in [1 .. l -> Requests]
       /\ \A i \in 1 .. l : req[s[i]].next = IF i < l THEN s[i + 1] ELSE None
       /\ \A i, j \in 1 .. l : s[i] = s[j] => i = j
       /\ \A x \in Requests : (\E i \in 1 .. l : s[i] = x) <=> x \in Waiting(req, S)
  BY <1>9 DEF Row, Chain
<1>14. \A x \in Requests : x \in Waiting(req', T) <=> x \in Waiting(req, S) /\ x # r
  BY <1>7, <1>11 DEF Waiting
<1>15. r \in Waiting(req, S)
  <2>1. k \in 1 .. l + 1 /\ Ahead(Top) = IF k <= l THEN s[k] ELSE None
    BY <1>2, <1>9 DEF At
  <2>2. k \in 1 .. l /\ s[k] = r
    BY <1>2, <1>13, <2>1 DEF Ahead
  <2>. QED BY <1>13, <2>2
<1>16. base'.active = base.active
  <2>1. Tabled(req, base, S, r) /\ ~Stolen(S, r)
    <3>1. Tabled(req, base, S, r)
      BY DEF Tables, Placed, S
    <3>2. ~Stolen(S, r)
      BY <1>2, <1>3, <1>5, <1>6, ScanCalls DEF S
    <3>. QED BY <3>1, <3>2
  <2>2. r \in base.active
    BY <1>15, <2>1 DEF Tabled, Waiting, Underway
  <2>. QED BY <1>12, <2>2
<1>17. Dated(req', base')
  <2>1. base.active \subseteq Requests
    BY <1>2 DEF BaseRecord
  <2>2. \A x \in Requests : /\ req'[x].deadline = req[x].deadline
                            /\ req'[x].timeout = req[x].timeout
    BY <1>2, <1>10, SendClock
  <2>. QED BY <1>12, <1>16, <2>1, <2>2 DEF Timing, Dated, TimeoutOf
<1>18. Unscheduled(req')
  BY <1>11 DEF Timing, Unscheduled
<1>19. ASSUME Groups = {} PROVE Behind(req', base', T, c)
  <2>1. Allowed(base, r)
    BY <1>1, <1>2, <1>19, FreeSubmit
  <2>2. Behind(req, base, S, Top)
    BY <1>3, <1>19 DEF Timing, S
  <2>3. PICK m, w, j :
          /\ Row(req, base, Waiting(req, S), m, w)
          /\ j \in 1 .. m + 1
          /\ p = IF j = 1 THEN None ELSE w[j - 1]
          /\ Ahead(Top) = IF j <= m THEN w[j] ELSE None
          /\ \A i \in 1 .. m : i < j => ~Ready(req, base, w[i])
    BY <1>2, <2>2 DEF Behind, Passed, p
  <2>4. /\ m \in Nat /\ w \in [1 .. m -> Requests]
        /\ \A i \in 1 .. m : req[w[i]].next = IF i < m THEN w[i + 1] ELSE None
        /\ \A i, h \in 1 .. m : w[i] = w[h] => i = h
    BY <2>3 DEF Row, Chain
  <2>5. j \in 1 .. m /\ w[j] = r
    BY <1>2, <2>3, <2>4 DEF Ahead
  <2>. DEFINE v == Without(m, w, j)
  <2>6. Row(req', base', Waiting(req', T), m - 1, v)
    <3>. DEFINE W == Waiting(req, S)
                V == Waiting(req', T)
                u == req'
                d == base'
    <3>1. \A x \in Requests :
            u[x].next = CASE x = w[j] -> None
                          [] x = p /\ x # w[j] -> req[w[j]].next
                          [] OTHER -> req[x].next
      BY <1>11, <2>5
    <3>2. \A x \in Requests : x \in V <=> x \in W /\ x # w[j]
      BY <1>14, <2>5
    <3>3. d.first = IF p = None THEN req[w[j]].next ELSE base.first
      BY <1>12, <2>5
    <3>4. d.last = IF req[w[j]].next = None THEN p ELSE base.last
      BY <1>12, <2>5
    <3>5. Row(req, base, W, m, w) /\ p = IF j = 1 THEN None ELSE w[j - 1]
      BY <2>3
    <3>. HIDE DEF W, V, u, d
    <3>6. Row(u, d, V, m - 1, Without(m, w, j))
      BY <2>5, <3>1, <3>2, <3>3, <3>4, <3>5, RowRemove
    <3>. QED BY <3>6 DEF u, d, V
  <2>7. \A i \in 1 .. m - 1 : v[i] = IF i < j THEN w[i] ELSE w[i + 1]
    BY DEF Without
  <2>. HIDE DEF v
  <2>8. /\ m - 1 \in Nat /\ j \in 1 .. (m - 1) + 1
        /\ c.prev = IF j = 1 THEN None ELSE v[j - 1]
    <3>1. m - 1 \in Nat /\ j \in 1 .. (m - 1) + 1
      BY <2>4, <2>5
    <3>2. j # 1 => v[j - 1] = w[j - 1]
      BY <2>4, <2>5, <2>7
    <3>. QED BY <1>4, <2>3, <3>1, <3>2
  <2>9. Ahead(c) = IF j <= m - 1 THEN v[j] ELSE None
    <3>1. Ahead(c) = IF j < m THEN w[j + 1] ELSE None
      BY <1>4, <2>4, <2>5 DEF Ahead
    <3>2. j < m => j \in 1 .. m - 1 /\ v[j] = w[j + 1]
      BY <2>4, <2>5, <2>7
    <3>. QED BY <2>4, <2>5, <3>1, <3>2
  <2>10. ASSUME NEW i \in 1 .. m - 1, i < j
         PROVE  ~Ready(req', base', v[i])
    <3>1. v[i] = w[i] /\ i \in 1 .. m /\ w[i] \in Requests
      BY <2>4, <2>7, <2>10
    <3>2. w[i] # r
      BY <2>4, <2>5, <2>10, <3>1
    <3>3. req'[w[i]].scheduled = req[w[i]].scheduled
      BY <1>11, <3>1, <3>2
    <3>4. ~Ready(req, base, w[i])
      BY <2>3, <2>10, <3>1
    <3>. QED BY <1>12, <3>1, <3>3, <3>4 DEF Ready, Allowed
  <2>11. Passed(req', base', T, c)
    BY <2>6, <2>8, <2>9, <2>10 DEF Passed
  <2>12. c.r \in base'.pending /\ Allowed(base', c.r)
    BY <1>4, <1>12, <2>1 DEF Allowed
  <2>. QED BY <2>11, <2>12 DEF Behind
<1>. QED BY <1>2, <1>3, <1>4, <1>5, <1>6, <1>8, <1>17, <1>18, <1>19, TimingGoes
     DEF T

\* The scan ends: nothing that could be sent at once is left.
LEMMA TimingScanEnd ==
  ASSUME TypeOK, Tables, Timing, ScanEnd
  PROVE  Timing'
<1>. DEFINE S == Calls(stack)
            T == Calls(stack')
            U == Calls(Tail(stack))
<1>1. /\ ~Idle /\ Top.op = "scan" /\ Clean /\ Top.r = None /\ Become(<<>>)
      /\ UNCHANGED <<req, base, net, link>> /\ ret' = Top.some
  BY RunningTop DEF ScanEnd
<1>2. <<>> \in Frames /\ Calls(<<>>) = {} /\ Unscanned(<<>>)
  BY UnscannedFew
<1>3. Scans(Top) /\ Top \in S /\ Top.op \in Scanners
  BY <1>1, ScanStands DEF Scans
<1>4. /\ Going(<<>>, U) /\ T = U /\ S = {Top} \cup U
      /\ \A h \in U : ~Scans(h) /\ h.op \notin Steady
  BY <1>1, <1>2, <1>3, ScanCalls
<1>5. /\ Resets(S) => Resets(T)
      /\ \A x \in Requests : Out(T, x) <=> Out(S, x)
  BY <1>1, <1>2, <1>3, ScanKeeps
<1>6. Followed(stack) /\ stack \in Seq(Frame) /\ Len(stack) \in Nat \ {0}
      /\ Top = stack[1] /\ stack' = Tail(stack)
  <2>1. stack' = <<>> \o Tail(stack) /\ stack \in Seq(Frame) /\ stack # <<>>
    BY <1>1 DEF Become, TypeOK, Idle
  <2>. QED BY <2>1 DEF Timing, Top
<1>7. 2 \in DOMAIN stack /\ stack[2].op \in Tails
  <2>1. 1 \in DOMAIN stack
    BY <1>6
  <2>2. FollowedAt(stack, 1)
    BY <1>3, <1>6, <2>1 DEF Followed
  <2>. QED BY <2>2 DEF FollowedAt
<1>8. Asking => Asking'
  <2>1. Asking => Top.some
    BY <1>1 DEF Asking, Tails
  <2>2. ~Idle' /\ Top' = stack[2]
    <3>1. /\ Tail(stack) \in Seq(Frame) /\ Len(Tail(stack)) = Len(stack) - 1
          /\ \A i \in 1 .. Len(stack) - 1 : Tail(stack)[i] = stack[i + 1]
      BY <1>6
    <3>2. Len(stack) - 1 >= 1 /\ 1 \in 1 .. Len(stack) - 1
      BY <1>6, <1>7
    <3>3. Tail(stack)[1] = stack[2] /\ Tail(stack) # <<>>
      <4>1. Tail(stack)[1] = stack[1 + 1]
        BY <3>1, <3>2
      <4>2. Len(Tail(stack)) # 0
        BY <1>6, <3>1, <3>2
      <4>3. 1 + 1 = 2 /\ Len(<<>>) = 0
        OBVIOUS
      <4>. QED BY <4>1, <4>2, <4>3, Zenon
    <3>4. Head(Tail(stack)) = Tail(stack)[1]
      BY <3>1, <3>3
    <3>5. stack' = Tail(stack)
      BY <1>6
    <3>. QED BY <3>3, <3>4, <3>5 DEF Idle, Top
  <2>3. Clean'
    <3>1. FrameRefs(Top) = {}
      BY <1>1, <1>3 DEF Timing, FrameRefs
    <3>2. \A x \in Requests : KeptBesides(base, net, S, x)
                                => KeptBesides(base', net', T, x)
      BY <1>1, <1>4, <3>1 DEF KeptBesides
    <3>. QED BY <1>1, <3>2, CleanKept
  <2>. QED BY <1>1, <1>7, <2>1, <2>2, <2>3 DEF Asking
<1>9. Followed(stack')
  <2>1. \A i \in DOMAIN <<>> : <<>>[i].op \in Scanners => FollowedAt(<<>>, i)
    OBVIOUS
  <2>. QED BY <1>2, <1>4, <1>6, <2>1, FollowedGoing
<1>. HIDE DEF S, T, U
<1>10. Waiting(req', T) = Waiting(req, S)
  BY <1>1, <1>5 DEF Waiting
<1>11. Resets(T) \/ Asking' \/ Timed(req', base', T)
  <2>1. Resets(S) \/ Asking \/ Timed(req, base, S)
    BY DEF Timing, S
  <2>. QED BY <1>1, <1>5, <1>8, <1>10, <2>1 DEF Timed
<1>12. Groups = {} => Looked(req', base', link', T)
  <2>1. ASSUME Groups = {}
        PROVE  \A x \in Waiting(req, S) : ~Ready(req, base, x)
    <3>1. Behind(req, base, S, Top)
      BY <1>3, <2>1 DEF Timing, S
    <3>2. ASSUME Passed(req, base, S, Top)
          PROVE  \A x \in Waiting(req, S) : ~Ready(req, base, x)
      <4>1. PICK l, s, k :
              /\ Row(req, base, Waiting(req, S), l, s)
              /\ k \in 1 .. l + 1
              /\ Ahead(Top) = IF k <= l THEN s[k] ELSE None
              /\ \A j \in 1 .. l : j < k => ~Ready(req, base, s[j])
        BY <3>2 DEF Passed
      <4>2. /\ l \in Nat /\ s \in [1 .. l -> Requests]
            /\ \A x \in Requests : (\E i \in 1 .. l : s[i] = x) <=> x \in Waiting(req, S)
        BY <4>1 DEF Row
      <4>3. k = l + 1
        <5>1. ASSUME k <= l PROVE FALSE
          <6>1. s[k] \in Requests /\ s[k] = None
            BY <1>1, <4>1, <4>2, <5>1 DEF Ahead
          <6>. QED BY <6>1, ConstantsAssumption
        <5>. QED BY <4>1, <4>2, <5>1
      <4>4. \A j \in 1 .. l : ~Ready(req, base, s[j])
        BY <4>1, <4>2, <4>3
      <4>. QED BY <4>2, <4>4 DEF Waiting
    <3>. QED BY <1>1, <3>1, <3>2 DEF Behind
  <2>. QED BY <1>1, <1>10, <2>1 DEF Looked
<1>13. \A f \in T : ~Scans(f) /\ f.op # "expire"
  BY <1>4 DEF Steady
<1>14. Dated(req', base') /\ Unscheduled(req')
  BY <1>1 DEF Timing
<1>. QED BY <1>9, <1>11, <1>12, <1>13, <1>14 DEF Timing, T

-----------------------------------------------------------------------------
(***************************************************************************)
(* All steps, and what the invariant means between events.                 *)
(***************************************************************************)

\* At first nothing waits.
LEMMA TimingInit ==
  ASSUME Init
  PROVE  TimingInv
<1>1. /\ stack = <<>> /\ base.active = {} /\ base.pending = {}
      /\ \A r \in Requests : req[r].state = "NEW" /\ req[r].scheduled = 0
  BY DEF Init
<1>2. Calls(stack) = {} /\ Followed(stack)
  BY <1>1 DEF Calls, Followed
<1>3. Waiting(req, Calls(stack)) = {}
  BY <1>1 DEF Waiting
<1>. QED BY <1>1, <1>2, <1>3 DEF TimingInv, Timing, Dated, Unscheduled, Timed, Looked

\* What happens outside.
LEMMA TimingEvent ==
  ASSUME Orderly, TypeOK, Tables, Tables', Timing, LifeStep, Event
  PROVE  Timing'
<1>1. MaxDepth = 0
  BY DEF Orderly
<1>2. CASE Tick \/ RespondUnknown \/ Connected \/ ConfigDeath
  BY <1>1, <1>2, TimingQuiet, TimingConnected, TimingBegins
<1>3. CASE RespondRetry \/ RespondDone \/ Sent
  BY <1>1, <1>3, TimingRespondRetry, TimingRespondDone, TimingSent
<1>4. CASE Timeout \/ Death
  BY <1>1, <1>4, TimingTimeout, TimingDeaths
<1>. QED BY <1>2, <1>3, <1>4 DEF Event

\* The calls of users.
LEMMA TimingUser ==
  ASSUME Orderly, TypeOK, TypeOK', Tables, Tables', Timing, LifeStep,
         User, ~Finalize
  PROVE  Timing'
<1>1. MaxDepth = 0
  BY DEF Orderly
<1>2. ASSUME NEW r \in Requests, Submit(r) \/ Retry(r) \/ Cancel(r) \/ Release(r)
      PROVE  Timing'
  BY <1>1, <1>2, TimingSubmit, TimingRetry, TimingCancel, TimingQuiet
<1>3. ASSUME NEW r \in Requests, NEW ms \in Timeouts, SetTimeout(r, ms)
      PROVE  Timing'
  BY <1>3, TimingSetTimeout
<1>4. ASSUME NEW ms \in Timeouts, SetDefaultTimeout(ms)
      PROVE  Timing'
  BY <1>4, TimingDefaultTimeout
<1>5. ASSUME NEW g \in Groups, Block(g)
      PROVE  Timing'
  BY <1>1, <1>5, TimingQuiet
<1>6. ASSUME NEW g \in Groups, Unblock(g) \/ FreeGroup(g)
      PROVE  Timing'
  BY <1>1, <1>6, TimingUnblock
<1>7. ASSUME NEW g \in Groups, CancelGroup(g)
      PROVE  Timing'
  BY <1>1, <1>7, TimingBegins
<1>. QED BY <1>2, <1>3, <1>4, <1>5, <1>6, <1>7 DEF User

\* The calls in progress.
LEMMA TimingContinue ==
  ASSUME Orderly, TypeOK, TypeOK', Tables, Tables', Timing, LifeStep, Continue
  PROVE  Timing'
<1>1. MaxDepth = 0
  BY DEF Orderly
<1>2. ~ScanFail
  BY DEF ScanFail, Orderly
<1>3. ~Return
  <2>1. SUFFICES ASSUME Return PROVE FALSE
    OBVIOUS
  <2>2. ~Idle /\ Top.op = "callback" /\ UserTurn
    BY <2>1, RunningTop DEF Return, UserTurn
  <2>. QED BY <2>2, UsersIdle
<1>4. CASE ScanStart \/ ScanSkip \/ ScanSend \/ ScanSent \/ ScanEnd
  BY <1>1, <1>4, TimingScanStart, TimingScanSkip, TimingScanSend, TimingScanSent,
     TimingScanEnd
<1>5. CASE Submitted \/ Reset \/ Dropped
  BY <1>5, TimingReset
<1>6. CASE Done \/ Unregister \/ Finish \/ Unlink
  BY <1>1, <1>6, TimingEnds
<1>7. CASE FailNext \/ CancelNext
  BY <1>1, <1>7, TimingEnds, TimingFailNext, TimingCancel
<1>8. CASE Drop \/ Expire \/ HandleDeath
  BY <1>1, <1>8, TimingDrop, TimingExpire, TimingDeaths
<1>9. ASSUME NEW r \in Requests, Free(r)
      PROVE  Timing'
  BY <1>9, TimingCancel
<1>. QED BY <1>2, <1>3, <1>4, <1>5, <1>6, <1>7, <1>8, <1>9, OrderlyObservers
     DEF Continue

\* Every step, while the object lives.
LEMMA TimingNext ==
  ASSUME Orderly, TypeOK, TypeOK', CompletionInv, SilenceInv, TablesInv, TablesInv',
         TimingInv, Next
  PROVE  TimingInv'
<1>1. SUFFICES ASSUME base'.alive PROVE Timing'
  BY DEF TimingInv
<1>2. ~Finalize
  BY <1>1 DEF Finalize, FinalizeBase, TypeOK, BaseRecord
<1>3. base.alive
  BY <1>1, <1>2, AliveEvent, AliveUser, AliveContinue DEF AliveStays, Next
<1>4. Tables /\ Tables' /\ Timing
  BY <1>1, <1>3 DEF TablesInv, TimingInv
<1>5. LifeStep
  BY <1>4, LifeNext
<1>. QED BY <1>2, <1>4, <1>5, TimingEvent, TimingUser, TimingContinue DEF Next

\* If sending does not fail, no handler calls the library and a user who
\* retries requests leaves nothing in their way: whatever has changed a
\* deadline, a schedule or the tables is followed by a reset of the timer, and
\* the scan never passes a request that could be sent at once.
THEOREM TimingInvariant ==
  ASSUME Orderly
  PROVE  Spec => []TimingInv
<1>1. TypeOK /\ TypeOK' /\ CompletionInv /\ SilenceInv /\ TablesInv /\ TablesInv'
        /\ TimingInv /\ [Next]_vars => TimingInv'
  <2>1. ASSUME TimingInv, UNCHANGED vars
        PROVE  TimingInv'
    <3>1. /\ req' = req /\ base' = base /\ link' = link /\ stack' = stack
          /\ ret' = ret /\ net' = net
      BY <2>1 DEF vars
    <3>2. Clean' = Clean
      BY <3>1 DEF Clean, Garbage, Referenced
    <3>3. Asking' = Asking
      BY <3>1, <3>2 DEF Asking, Idle, Top
    <3>. QED BY <2>1, <3>1, <3>3 DEF TimingInv, Timing
  <2>2. ASSUME TypeOK, TypeOK', CompletionInv, SilenceInv, TablesInv, TablesInv',
               TimingInv, Next
        PROVE  TimingInv'
    BY <2>2, TimingNext
  <2>. QED BY <2>1, <2>2
<1>2. Init => TimingInv
  BY TimingInit
<1>3. Spec => []SilenceInv
  BY OrderlyObservers, SilenceInvariant
<1>. QED BY <1>1, <1>2, <1>3, TypeCorrect, CompletionInvariant, TablesInvariant,
            PTL DEF Spec

\* Between events the timer always fires by the deadline of every request
\* that waits for its answer, so none of them waits for ever.
THEOREM TimerCovers ==
  ASSUME Orderly
  PROVE  Spec => []TimerCoversPending
<1>1. TimingInv => TimerCoversPending
  <2>1. SUFFICES ASSUME Timing, Idle PROVE Timed(req, base, Calls(stack))
    BY DEF TimingInv, TimerCoversPending, EventTurn, Timed, Covers
  <2>2. Calls(stack) = {}
    BY <2>1, IdleCalls
  <2>. QED BY <2>1, <2>2 DEF Timing, Resets, Asking
<1>. QED BY <1>1, TimingInvariant, PTL

\* Without groups nothing is forgotten in the queue: between events, while
\* the service is connected, a request that nothing holds back is scheduled
\* for a retry and the timer fires in time for it.
THEOREM QueueKeepsMoving ==
  ASSUME Orderly, Groups = {}
  PROVE  Spec => []QueueMoves
<1>1. TypeOK /\ TablesInv /\ TimingInv => QueueMoves
  <2>. SUFFICES ASSUME TypeOK, Tables, Timing, Idle, link.connected, NEW r \in Queue,
                       CanSubmitRequest(req, base, r)
                PROVE  /\ req[r].scheduled # 0
                       /\ base.timer # 0 /\ base.timer <= req[r].scheduled
    BY DEF QueueMoves, EventTurn, TablesInv, TimingInv
  <2>1. Calls(stack) = {}
    BY IdleCalls
  <2>2. /\ Timed(req, base, Calls(stack))
        /\ \A x \in Waiting(req, Calls(stack)) : ~Ready(req, base, x)
    BY <2>1 DEF Timing, Resets, Asking, Looked, Starts
  <2>3. r \in Requests /\ r \in Waiting(req, Calls(stack))
    <3>1. Queue = Queued(req)
      BY RestFacts, TailChosen DEF Orderly
    <3>. QED BY <3>1, RestFacts DEF Queue
  <2>4. Allowed(base, r)
    <3>1. req \in RequestMap /\ base \in BaseRecord
      BY DEF TypeOK, RequestMap
    <3>. QED BY <2>3, <3>1, FreeSubmit
  <2>. QED BY <2>2, <2>3, <2>4 DEF Timed, Ready, Covers
<1>. QED BY <1>1, TypeCorrect, TablesInvariant, TimingInvariant, PTL
=============================================================================
