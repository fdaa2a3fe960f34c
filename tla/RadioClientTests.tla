--------------------------- MODULE RadioClientTests ----------------------------
(***************************************************************************)
(* The unit tests of RadioClient, and those of RadioConfig about requests, *)
(* as scenarios of RadioClient: what the test does and asserts, and what   *)
(* its service does with each request.  While a test runs the main loop,   *)
(* answers, confirmations and timers come in any order.                    *)
(*                                                                         *)
(* All requests and groups exist from the start.  r2 is a blocking         *)
(* request, r1 and r2 have one retry and the others two; in1a and in1b are *)
(* created in g1, in2 in g2, in3 in g3.  A short timeout is 1 and a long   *)
(* one is beyond the clock.                                                *)
(***************************************************************************)
EXTENDS RadioClient

CONSTANTS r1, r2, u1, u2, u3, in1a, in1b, in2, in3, g1, g2, g3

VARIABLES
  outcome,  \* what the service does with each request
  steps     \* the rest of the test

testVars == <<vars, outcome, steps>>

Short == 1
Long == 9

\* From this step on everything may happen, in any order.
Explore == <<"explore">>

Answered == [r \in Requests |-> "ok"]
Test(outcomes, todo) == [outcome |-> outcomes, steps |-> todo]

-----------------------------------------------------------------------------
(***************************************************************************)
(* unit_client.c.                                                          *)
(***************************************************************************)
\* The client ends when its last reference and its groups are released.
FreeGroups == <<<<"free group", g1>>, <<"free group", g2>>, <<"free group", g3>>>>

BasicTest ==
  Test(Answered,
    <<<<"cancel", u1>>, <<"cancel", u1>>, <<"state", u1, {"CANCELLED"}>>,
      <<"release", u1>>, <<"release", u2>>>> \o FreeGroups \o
    <<<<"finalize">>, <<"submit refused", u3>>, <<"cancel", u3>>, <<"release", u3>>,
      <<"freed", {u1, u2, u3}>>, <<"silent", {u1, u2, u3}>>>>)

CancelTest ==
  Test(Answered,
    <<<<"submit", u1>>, <<"cancel", u1>>, <<"state", u1, {"CANCELLED"}>>,
      <<"release", u1>>, <<"freed", {u1}>>, <<"silent", {u1}>>>>)

CancelQueueTest ==
  Test(Answered,
    <<<<"block", g1>>, <<"owner", g1>>,
      <<"submit", u1>>, <<"submit", u2>>, <<"submit", u3>>,
      <<"cancel", u1>>, <<"cancel", u3>>, <<"cancel", u2>>,
      <<"state", u1, {"CANCELLED"}>>, <<"state", u2, {"CANCELLED"}>>,
      <<"state", u3, {"CANCELLED"}>>,
      <<"release", u1>>, <<"release", u2>>, <<"release", u3>>,
      <<"freed", {u1, u2, u3}>>, <<"silent", {u1, u2, u3}>>>>)

ResponsesTest ==
  Test(Answered,
    <<<<"submit", u1>>, <<"submit refused", u1>>, <<"submit", u2>>, <<"connect">>,
      <<"release", u1>>, <<"release", u2>>, <<"loop", {u1, u2}>>,
      <<"ended", {u1, u2}, "DONE">>>>)

\* A third request of the group, cancelled before it is submitted, is left out.
GroupTest ==
  Test(Answered,
    <<<<"connect">>, <<"block", g1>>, <<"owner", g1>>,
      <<"block", g2>>, <<"owner", g1>>, <<"waiting", <<g2>>>>, <<"free group", g2>>,
      <<"submit", in1a>>, <<"release", in1a>>, <<"submit", in1b>>, <<"release", in1b>>,
      <<"submit", u1>>, <<"state", u1, {"QUEUED"}>>, <<"release", u1>>,
      <<"cancel group", g1>>, <<"freed", {in1a, in1b}>>, <<"silent", {in1a, in1b}>>,
      <<"unblock", g1>>, <<"loop", {u1}>>, <<"ended", {u1}, "DONE">>,
      <<"free group", g1>>>>)

Group2Test ==
  Test(Answered,
    <<<<"connect">>, <<"submit", in1a>>, <<"state", in1a, {"PENDING"}>>,
      <<"owner", None>>, <<"block", g1>>, <<"owner", g1>>,
      <<"free group", g1>>, <<"owner", None>>, <<"state", in1a, {"PENDING"}>>,
      <<"cancel", in1a>>, <<"state", in1a, {"CANCELLED"}>>,
      <<"release", in1a>>, <<"freed", {in1a}>>, <<"silent", {in1a}>>>>)

Group3Test ==
  Test(Answered,
    <<<<"connect">>, <<"submit", u1>>, <<"state", u1, {"PENDING"}>>, <<"release", u1>>,
      <<"block", g1>>, <<"block", g2>>, <<"block", g3>>,
      <<"owner", None>>, <<"waiting", <<g1, g2, g3>>>>,
      <<"submit", in3>>, <<"state", in3, {"QUEUED"}>>,
      <<"submit", in2>>, <<"state", in2, {"QUEUED"}>>,
      <<"submit", in1a>>, <<"state", in1a, {"QUEUED"}>>,
      <<"loop", {u1}>>, <<"ended", {u1}, "DONE">>,
      <<"owner", g1>>, <<"state", in1a, {"PENDING", "DONE"}>>,
      <<"release", in1a>>, <<"loop", {in1a}>>,
      <<"waiting", <<g2, g3>>>>, <<"free group", g1>>,
      <<"owner", g2>>, <<"state", in2, {"PENDING", "DONE"}>>,
      <<"release", in2>>, <<"loop", {in2}>>,
      <<"waiting", <<g3>>>>, <<"unblock", g2>>, <<"owner", g3>>, <<"free group", g2>>,
      <<"state", in3, {"PENDING", "DONE"}>>,
      <<"release", in3>>, <<"loop", {in3}>>,
      <<"ended", {in1a, in2, in3}, "DONE">>, <<"free group", g3>>>>)

BlockTest ==
  Test(Answered,
    <<<<"connect">>, <<"submit", r2>>, <<"state", r2, {"PENDING"}>>, <<"release", r2>>,
      <<"submit", u1>>, <<"state", u1, {"QUEUED"}>>, <<"release", u1>>,
      <<"submit", u2>>, <<"state", u2, {"QUEUED"}>>, <<"release", u2>>,
      <<"loop", {r2}>>, <<"loop", {u1, u2}>>, <<"ended", {r2, u1, u2}, "DONE">>>>)

Block2Test ==
  Test(Answered,
    <<<<"connect">>, <<"submit", r2>>, <<"state", r2, {"PENDING"}>>,
      <<"set timeout", u1, Long>>, <<"submit", u1>>, <<"state", u1, {"QUEUED"}>>,
      <<"release", u1>>, <<"cancel", r2>>, <<"state", r2, {"CANCELLED"}>>,
      <<"state", u1, {"PENDING"}>>, <<"release", r2>>, <<"loop", {u1}>>,
      <<"ended", {u1}, "DONE">>, <<"freed", {r2, u1}>>, <<"silent", {r2}>>>>)

BlockTimeoutTest ==
  Test([Answered EXCEPT ![r2] = "ignored"],
    <<<<"connect">>, <<"set timeout", r2, Short>>,
      <<"submit", r2>>, <<"state", r2, {"PENDING"}>>, <<"release", r2>>,
      <<"submit", u1>>, <<"state", u1, {"QUEUED"}>>, <<"release", u1>>,
      <<"loop", {r2, u1}>>, <<"ended", {r2}, "FAILED">>, <<"ended", {u1}, "DONE">>>>)

\* One retry instead of five.
BlockRetryTest ==
  Test([Answered EXCEPT ![r2] = "error"],
    <<<<"connect">>, <<"submit", r2>>, <<"state", r2, {"PENDING"}>>, <<"release", r2>>,
      <<"submit", u1>>, <<"state", u1, {"QUEUED"}>>, <<"release", u1>>,
      <<"loop", {r2, u1}>>, <<"ended", {r2, u1}, "DONE">>, <<"retries", r2, 1>>>>)

Retry1Test ==
  Test([Answered EXCEPT ![u1] = "error"],
    <<<<"connect">>, <<"set timeout", u1, Long>>, <<"submit", u1>>, <<"release", u1>>,
      <<"loop", {u1}>>, <<"ended", {u1}, "DONE">>, <<"retries", u1, 2>>>>)

Retry2Test ==
  Test([Answered EXCEPT ![u1] = "error"],
    <<<<"connect">>, <<"set timeout", u1, Long>>,
      <<"submit", u1>>, <<"state", u1, {"PENDING"}>>,
      <<"retry", u1>>, <<"state", u1, {"PENDING"}>>,
      <<"retry", u1>>, <<"state", u1, {"PENDING"}>>,
      <<"retry refused", u1>>, <<"release", u1>>,
      <<"loop", {u1}>>, <<"ended", {u1}, "DONE">>, <<"retries", u1, 2>>>>)

Retry3Test ==
  Test([Answered EXCEPT ![in1a] = "error"],
    <<<<"connect">>, <<"set timeout", u1, Long>>, <<"submit", u1>>,
      <<"set timeout", in1a, Long>>, <<"submit", in1a>>, <<"state", in1a, {"PENDING"}>>,
      <<"retry", in1a>>, <<"state", in1a, {"PENDING"}>>,
      <<"retry", in1a>>, <<"state", in1a, {"PENDING"}>>,
      <<"retry refused", in1a>>, <<"release", in1a>>, <<"release", u1>>,
      <<"loop", {u1, in1a}>>, <<"ended", {u1, in1a}, "DONE">>, <<"retries", in1a, 2>>,
      <<"free group", g1>>>>)

FailTest ==
  Test(Answered,
    <<<<"connect">>, <<"die">>, <<"submit refused", u1>>, <<"state", u1, {"NEW"}>>,
      <<"cancel", u1>>, <<"release", u1>>, <<"freed", {u1}>>, <<"silent", {u1}>>>>)

FailTxTest ==
  Test([Answered EXCEPT ![u1] = "unsent"],
    <<<<"connect">>, <<"submit", u1>>, <<"state", u1, {"FAILED"}>>,
      <<"cancel", u1>>, <<"release", u1>>, <<"freed", {u1}>>, <<"silent", {u1}>>>>)

ErrTest ==
  Test([Answered EXCEPT ![u1] = "failed"],
    <<<<"submit", u1>>, <<"release", u1>>, <<"connect">>, <<"loop", {u1}>>,
      <<"ended", {u1}, "FAILED">>, <<"retries", u1, 0>>>>)

Err2Test ==
  Test([Answered EXCEPT ![r1] = "error"],
    <<<<"submit", r1>>, <<"release", r1>>, <<"connect">>, <<"loop", {r1}>>,
      <<"ended", {r1}, "DONE">>, <<"retries", r1, 1>>>>)

TimeoutTest ==
  Test([Answered EXCEPT ![u1] = "ignored"],
    <<<<"set timeout", u1, Long>>, <<"submit", u1>>, <<"set timeout", u1, Short>>,
      <<"release", u1>>, <<"connect">>, <<"loop", {u1}>>, <<"ended", {u1}, "FAILED">>>>)

Timeout2Test ==
  Test([Answered EXCEPT ![u1] = "ignored"],
    <<<<"set timeout", u1, Long>>, <<"submit", u1>>, <<"set timeout", u1, Short>>,
      <<"release", u1>>, <<"loop", {u1}>>, <<"ended", {u1}, "FAILED">>>>)

Timeout3Test ==
  Test([Answered EXCEPT ![u1] = "error"],
    <<<<"set timeout", u1, Long>>, <<"submit", u1>>, <<"set timeout", u1, Short>>,
      <<"connect">>, <<"loop", {u1}>>, <<"state", u1, {"FAILED"}>>, <<"retries", u1, 1>>,
      <<"release", u1>>, <<"ended", {u1}, "FAILED">>>>)

Timeout4Test ==
  Test([Answered EXCEPT ![u1] = "ignored", ![u2] = "ignored"],
    <<<<"connect">>, <<"set timeout", u1, Long>>, <<"submit", u1>>,
      <<"submit", u2>>, <<"release", u2>>, <<"set default timeout", Short>>,
      <<"loop", {u2}>>, <<"ended", {u2}, "FAILED">>, <<"state", u1, {"PENDING"}>>,
      <<"cancel", u1>>, <<"state", u1, {"CANCELLED"}>>, <<"retry refused", u1>>,
      <<"release", u1>>, <<"freed", {u1}>>, <<"silent", {u1}>>>>)

DestroyTest ==
  Test(Answered,
    <<<<"submit", u1>>, <<"release", u1>>>> \o FreeGroups \o
    <<<<"finalize">>, <<"loop", {u1}>>, <<"freed", {u1}>>>>)

ClientDeathTest ==
  Test(Answered,
    <<<<"submit", r2>>, <<"release", r2>>, <<"submit", r1>>, <<"release", r1>>,
      <<"submit", u1>>, <<"release", u1>>, <<"submit", u2>>, <<"release", u2>>,
      <<"submit", u3>>, <<"release", u3>>, <<"die">>,
      <<"loop", {r2, r1, u1, u2, u3}>>, <<"ended", {r2, r1, u1, u2, u3}, "FAILED">>,
      <<"submit refused", in1a>>, <<"cancel", in1a>>, <<"release", in1a>>, <<"silent", {in1a}>>>>)

-----------------------------------------------------------------------------
(***************************************************************************)
(* unit_config.c: a RadioConfig is connected from the start.               *)
(***************************************************************************)
ConfigCancelTest ==
  Test(Answered,
    <<<<"connect">>, <<"submit", u1>>, <<"cancel", u1>>, <<"state", u1, {"CANCELLED"}>>,
      <<"release", u1>>, <<"freed", {u1}>>, <<"silent", {u1}>>>>)

ConfigFailTxTest ==
  Test([Answered EXCEPT ![u1] = "unsent"],
    <<<<"connect">>, <<"submit", u1>>, <<"state", u1, {"FAILED"}>>,
      <<"cancel", u1>>, <<"release", u1>>, <<"freed", {u1}>>, <<"silent", {u1}>>>>)

ConfigRequestDeathTest ==
  Test(Answered,
    <<<<"connect">>, <<"submit", u1>>, <<"release", u1>>, <<"config dies">>,
      <<"loop", {u1}>>, <<"ended", {u1}, "FAILED">>>>)

ClientTests ==
  {BasicTest, CancelTest, CancelQueueTest, ResponsesTest, GroupTest, Group2Test,
   Group3Test, BlockTest, Block2Test, BlockTimeoutTest, BlockRetryTest,
   Retry1Test, Retry2Test, Retry3Test, FailTest, FailTxTest, ErrTest, Err2Test,
   TimeoutTest, Timeout2Test, Timeout3Test, Timeout4Test, DestroyTest,
   ClientDeathTest, ConfigCancelTest, ConfigFailTxTest, ConfigRequestDeathTest}

\* No test: r1 and r2 may or may not be answered, fail, be retried or cancelled.
Exploration == Test(Answered, <<<<"connect">>, Explore>>)

-----------------------------------------------------------------------------
(***************************************************************************)
(* The steps of a test.                                                    *)
(***************************************************************************)
Reached(op) == steps # <<>> /\ steps[1][1] = op

IsAssertion(step) ==
  step[1] \in {"state", "owner", "waiting", "ended", "retries", "freed", "silent",
               "submit refused", "retry refused"}

Asserted(step) ==
  CASE step[1] = "state" -> req[step[2]].state \in step[3]
    [] step[1] = "owner" -> base.owner = step[2]
    [] step[1] = "waiting" -> base.waiting = step[2]
    [] step[1] = "ended" ->
         \A r \in step[2] : req[r].state = step[3] /\ req[r].freed /\ req[r].calls = 1
    [] step[1] = "retries" -> req[step[2]].retries = step[3]
    [] step[1] = "freed" -> \A r \in step[2] : req[r].freed
    [] step[1] = "silent" -> \A r \in step[2] : req[r].calls = 0
    [] step[1] = "submit refused" -> ~ENABLED Submit(step[2])
    [] step[1] = "retry refused" -> ~ENABLED Retry(step[2])

CallStep(step) ==
  \/ step[1] = "submit" /\ Submit(step[2])
  \/ step[1] = "retry" /\ Retry(step[2])
  \/ step[1] = "cancel" /\ Cancel(step[2])
  \/ step[1] = "release" /\ Release(step[2])
  \/ step[1] = "set timeout" /\ SetTimeout(step[2], step[3])
  \/ step[1] = "set default timeout" /\ SetDefaultTimeout(step[2])
  \/ step[1] = "finalize" /\ Finalize

GroupStep(step) ==
  \/ step[1] = "block" /\ Block(step[2])
  \/ step[1] = "unblock" /\ Unblock(step[2])
  \/ step[1] = "free group" /\ FreeGroup(step[2])
  \/ step[1] = "cancel group" /\ CancelGroup(step[2])

ServiceStep(step) ==
  \/ step[1] = "connect" /\ Connected
  \/ step[1] = "die" /\ Death
  \/ step[1] = "config dies" /\ ConfigDeath

\* test_run: the main loop runs until the test quits it.
LoopEnds(step) ==
  step[1] = "loop" /\ \A r \in step[2] : req[r].calls = 1

NextStep ==
  /\ EventTurn /\ steps # <<>> /\ ~Reached("explore")
  /\ LET step == steps[1]
     IN  \/ CallStep(step) \/ GroupStep(step) \/ ServiceStep(step)
         \/ (IsAssertion(step) \/ LoopEnds(step)) /\ UNCHANGED vars
  /\ steps' = Tail(steps)
  /\ UNCHANGED outcome

\* What the fake service of the tests makes of a transaction: a request it
\* answers, with an error or not, a request it ignores, or a failure.
ServiceAnswers ==
  \/ RespondUnknown
  \/ RespondRetry /\ \A m \in net.answers \ net'.answers : outcome[m[1]] = "error"
  \/ RespondDone /\ \A m \in net.answers \ net'.answers :
                      \/ outcome[m[1]] = "ok"
                      \/ outcome[m[1]] = "error" /\ ~CanRetry(m[1])
  \/ Sent /\ \A t \in net.outstanding \ net'.outstanding :
               (req'[t[1]].state = "FAILED") <=> (outcome[t[1]] = "failed")

\* Time does not pass before the service has done all that, nor once the main
\* loop is to end.
ServiceIdle ==
  /\ net.outstanding = {}
  /\ \A m \in net.answers : Found(m) => outcome[m[1]] = "ignored"
  /\ base.timer = 0 \/ now < base.timer
  /\ ~LoopEnds(steps[1])

ClientContinue ==
  /\ Continue
  /\ \A r \in Requests :
       req'[r].sends # req[r].sends =>
         ((req'[r].state = "FAILED") <=> (outcome[r] = "unsent"))
  /\ UNCHANGED <<outcome, steps>>

LoopAnswers == Reached("loop") /\ ServiceAnswers /\ UNCHANGED <<outcome, steps>>

Time ==
  /\ \/ Reached("loop") /\ ServiceIdle
     \/ Reached("explore")
  /\ Tick
  /\ UNCHANGED <<outcome, steps>>

TimerFires ==
  /\ Reached("loop") \/ Reached("explore")
  /\ Timeout
  /\ UNCHANGED <<outcome, steps>>

Explores ==
  /\ Reached("explore")
  /\ \/ RespondUnknown \/ RespondRetry \/ RespondDone \/ Sent
     \/ \E r \in {r1, r2} : Submit(r) \/ Cancel(r)
  /\ UNCHANGED <<outcome, steps>>

ClientInit ==
  /\ Init
  /\ \E test \in ClientTests \cup {Exploration} :
       outcome = test.outcome /\ steps = test.steps

ClientNext ==
  NextStep \/ ClientContinue \/ LoopAnswers \/ Time \/ TimerFires \/ Explores

\* What the unit tests assert holds.
ClientTestsHold ==
  EventTurn /\ steps # <<>> /\ IsAssertion(steps[1]) => Asserted(steps[1])
=============================================================================
