--------------------------- MODULE MCRadioScenarios ----------------------------
(***************************************************************************)
(* The scenarios of the unit tests, and two explorations without a script. *)
(* A behaviour is one scenario: of the requests of a client (then nothing  *)
(* is dispatched) or of the dispatching of messages (then no request is    *)
(* made).                                                                  *)
(***************************************************************************)
EXTENDS RadioClientTests, RadioDispatchTests

scenarioVars == <<testVars, dispatchVars, script>>

ScenarioGroups ==
  [r \in Requests |-> CASE r \in {in1a, in1b} -> g1 [] r = in2 -> g2 [] r = in3 -> g3
                        [] OTHER -> None]

ScenarioRetries == [r \in Requests |-> IF r \in {r1, r2} THEN 1 ELSE 2]

MCInit ==
  \/ /\ ClientInit
     /\ radio = NewObject("radio", 0) /\ subs = <<>> /\ calls = <<>>
     /\ msg = NoMessage /\ script = <<>>
  \/ /\ Init /\ outcome = Answered /\ steps = <<>>
     /\ ScriptInit

ClientStep(A) == A /\ UNCHANGED <<dispatchVars, script>>
DispatchStep == ScriptNext /\ UNCHANGED testVars

MCNext == ClientStep(ClientNext) \/ DispatchStep

(***************************************************************************)
(* A call in progress goes on, a test goes on, its service answers, time   *)
(* passes, and the main loop dispatches a timer that stays due even when   *)
(* other sources keep it busy.  In the exploration nothing else is assumed *)
(* of the users, the radio service or the binder driver.                   *)
(***************************************************************************)
MCSpec ==
  /\ MCInit /\ [][MCNext]_scenarioVars
  /\ WF_scenarioVars(ClientStep(ClientContinue))
  /\ WF_scenarioVars(ClientStep(NextStep))
  /\ WF_scenarioVars(ClientStep(LoopAnswers))
  /\ SF_scenarioVars(ClientStep(Time))
  /\ SF_scenarioVars(ClientStep(TimerFires))
  /\ WF_scenarioVars(DispatchStep)

\* What the unit tests assert holds in every order of the events they leave
\* to the main loop.
TestsHold == ClientTestsHold /\ DispatchTestsHold

\* Every unit test comes to its end: no assertion waits for an answer, a
\* timeout or a completion that never comes.
TestsEnd == <>(script = <<>> /\ (steps = <<>> \/ Reached("explore")))
=============================================================================
