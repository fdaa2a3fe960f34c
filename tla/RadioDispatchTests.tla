-------------------------- MODULE RadioDispatchTests --------------------------
(***************************************************************************)
(* The unit tests of RadioInstance and RadioConfig, and of what RadioClient *)
(* passes on, as scenarios of RadioDispatch: a script of what the test     *)
(* does and of what it asserts.                                            *)
(***************************************************************************)
EXTENDS RadioDispatch

VARIABLE script  \* the rest of the test

\* The step from which on everything may happen, in any order.
Anything == <<"anything">>

\* In a test, the listeners do nothing but watch.
Quiet(object) == [object EXCEPT !.changes = MaxChanges]

DIAL == 11
DIAL_RESP == 10
GET_MUTE == 53
RIL_CONNECTED == 33
CALL_STATE_CHANGED == 2
RESPONSE_ACKNOWLEDGEMENT == 130
ACKNOWLEDGE_REQUEST == 129
SIM_SLOTS_STATUS_CHANGED == 1
SET_PREFERRED_DATA_MODEM == 5
SET_PREFERRED_DATA_MODEM_RESP == 4
GET_MODEMS_CONFIG == 7

-----------------------------------------------------------------------------
(***************************************************************************)
(* unit_instance.c.  The service implements version 1.0; its address is    *)
(* the interface of the messages, which "foo" is not.                      *)
(***************************************************************************)
Api_1_0 == <<"radio", 0>>
Foo == <<"foo", 0>>

ConnectedTest ==
  <<<<"listen", Observer("low", "indication", Lowest, 0)>>,
    <<"listen", Observer("default", "indication", Default, 0)>>,
    <<"listen", Observer("high", "indication", Highest + 1, 0)>>,
    <<"listen", Handler("connected", "connected", 0, FALSE)>>,
    <<"connected", FALSE>>,
    <<"indication", Api_1_0, RIL_CONNECTED, "ack_exp">>, <<"status", "ok">>,
    <<"told", <<"high", "connected", "default", "low", "binder">>>>, <<"connected", TRUE>>,
    <<"indication", Api_1_0, RIL_CONNECTED, "ack_exp">>, <<"status", "ok">>,
    <<"told", <<"high", "default", "low", "binder">>>>, <<"connected", TRUE>>>>

IndicationTest ==
  <<<<"listen", Handler("handler", "handle indication", RIL_CONNECTED, TRUE)>>,
    <<"listen", Observer("observer", "indication", Default, 0)>>,
    <<"indication", Api_1_0, RIL_CONNECTED, "none">>, <<"status", "failed">>, <<"told", <<>>>>,
    <<"indication", Api_1_0, RIL_CONNECTED, "invalid">>, <<"status", "failed">>, <<"told", <<>>>>,
    <<"indication", Api_1_0, RIL_CONNECTED, "ack_exp">>, <<"status", "ok">>,
    <<"told", <<"handler", "binder", "observer">>>>, <<"acks", 1>>,
    <<"remove", "handler">>,
    <<"indication", Api_1_0, CALL_STATE_CHANGED, "ack_exp">>, <<"status", "ok">>,
    <<"told", <<"observer", "binder">>>>, <<"acks", 1>>,
    <<"indication", Api_1_0, CALL_STATE_CHANGED, "unsolicited">>, <<"status", "ok">>,
    <<"told", <<"observer">>>>, <<"acks", 0>>,
    <<"indication", Foo, 0, "none">>, <<"status", "failed">>>>

RequestTest ==
  <<<<"listen", Observer("any", "request", Default, 0)>>,
    <<"listen", Observer("dial", "request", Default, DIAL)>>,
    <<"listen", Observer("other", "request", Default, DIAL + 1)>>,
    <<"send", DIAL, {}>>, <<"told", <<"any", "dial", "binder">>>>>>

ResponseTest ==
  <<<<"listen", Handler("handler", "handle response", DIAL_RESP, TRUE)>>,
    <<"listen", Observer("high", "response", Highest, DIAL_RESP)>>,
    <<"listen", Observer("default", "response", Default, DIAL_RESP)>>,
    <<"listen", Observer("ack", "request", Default, RESPONSE_ACKNOWLEDGEMENT)>>,
    <<"response", Api_1_0, DIAL_RESP, "none">>, <<"status", "ok">>, <<"told", <<>>>>,
    <<"response", Api_1_0, DIAL_RESP, "ack_exp">>, <<"status", "ok">>,
    <<"told", <<"high", "handler", "ack", "binder", "default">>>>, <<"acks", 1>>,
    <<"remove", "handler">>,
    <<"response", Api_1_0, DIAL_RESP, "ack_exp">>, <<"status", "ok">>,
    <<"told", <<"high", "default", "ack", "binder">>>>, <<"acks", 1>>,
    <<"response", Api_1_0, DIAL_RESP, "solicited">>, <<"status", "ok">>,
    <<"told", <<"high", "default">>>>, <<"acks", 0>>,
    <<"response", Foo, 0, "none">>, <<"status", "failed">>, <<"told", <<>>>>>>

AckTest ==
  <<<<"listen", Handler("ack", "ack", 0, FALSE)>>,
    <<"listen", Handler("handler", "handle response", 0, FALSE)>>,
    <<"listen", Observer("observer", "response", Default, ACKNOWLEDGE_REQUEST)>>,
    <<"response", Api_1_0, ACKNOWLEDGE_REQUEST, "none">>, <<"status", "ok">>, <<"told", <<>>>>,
    <<"response", Api_1_0, ACKNOWLEDGE_REQUEST, "serial">>, <<"status", "ok">>, <<"told", <<"ack">>>>>>

SendRequestTest ==
  <<<<"send", GET_MUTE, {"complete"}>>, <<"end transaction">>, <<"told", <<"complete">>>>,
    <<"send", GET_MUTE, {"destroy"}>>, <<"end transaction">>, <<"told", <<"destroy">>>>,
    <<"send", GET_MUTE, {"complete", "destroy"}>>, <<"cancel">>,
    <<"end transaction">>, <<"told", <<"destroy">>>>,
    <<"send", GET_MUTE, {}>>, <<"told", <<"binder">>>>,
    <<"die">>, <<"send", GET_MUTE, {"destroy"}>>, <<"told", <<>>>>>>

EnabledTest ==
  <<<<"listen", Handler("enabled", "enabled", 0, FALSE)>>, <<"is enabled", FALSE>>,
    <<"enable", TRUE>>, <<"told", <<"enabled">>>>, <<"is enabled", TRUE>>,
    <<"enable", TRUE>>, <<"told", <<>>>>, <<"is enabled", TRUE>>,
    <<"enable", FALSE>>, <<"told", <<"enabled">>>>, <<"is enabled", FALSE>>>>

DeathTest ==
  <<<<"listen", Handler("death", "death", 0, FALSE)>>, <<"dead", FALSE>>,
    <<"die">>, <<"told", <<"death">>>>, <<"dead", TRUE>>, <<"remove", "death">>>>

-----------------------------------------------------------------------------
(***************************************************************************)
(* unit_client.c, "ind": what RadioClient passes on.                       *)
(***************************************************************************)
ConnectClient == [i \in DOMAIN ClientListeners |-> <<"listen", ClientListeners[i]>>]

ClientIndicationTest ==
  ConnectClient \o
  <<<<"listen", Handler("never", "client indication", 0, FALSE)>>, <<"remove", "never">>,
    <<"listen", Handler("any", "client indication", 0, FALSE)>>,
    <<"listen", Handler("ril connected", "client indication", RIL_CONNECTED, FALSE)>>,
    <<"listen", Handler("call state", "client indication", CALL_STATE_CHANGED, FALSE)>>,
    <<"listen", Handler("connected", "client connected", 0, FALSE)>>,
    <<"indication", Api_1_0, RIL_CONNECTED, "ack_exp">>,
    <<"told", <<"handle_connected", "connected", "base",
                "handle_ind", "any", "ril connected", "binder">>>>>>

-----------------------------------------------------------------------------
(***************************************************************************)
(* unit_config.c.                                                          *)
(***************************************************************************)
ConfigApi_1_1 == <<"config", 1>>

ConfigIndicationTest ==
  <<<<"listen", Observer("never", "indication", Default, 0)>>, <<"remove", "never">>,
    <<"listen", Observer("first", "indication", Highest, SIM_SLOTS_STATUS_CHANGED)>>,
    <<"listen", Observer("second", "indication", Default, SIM_SLOTS_STATUS_CHANGED)>>,
    <<"indication", ConfigApi_1_1, SIM_SLOTS_STATUS_CHANGED, "none">>, <<"told", <<>>>>,
    <<"indication", ConfigApi_1_1, SIM_SLOTS_STATUS_CHANGED, "ack_exp">>, <<"told", <<>>>>,
    <<"indication", ConfigApi_1_1, SIM_SLOTS_STATUS_CHANGED, "unsolicited">>, <<"told", <<"first", "second">>>>>>

ConfigResponseTest ==
  <<<<"listen", Observer("req high", "request", Highest, 0)>>,
    <<"listen", Observer("req low", "request", Lowest, 0)>>,
    <<"listen", Observer("resp high", "response", Highest, 0)>>,
    <<"listen", Observer("resp low", "response", Lowest, 0)>>,
    <<"send", SET_PREFERRED_DATA_MODEM, {"complete"}>>, <<"told", <<"req high", "req low", "binder">>>>,
    <<"response", ConfigApi_1_1, SET_PREFERRED_DATA_MODEM_RESP, "solicited">>,
    <<"told", <<"resp high", "base", "resp low">>>>>>

ConfigDeathTest ==
  <<<<"listen", Handler("death", "death", 0, FALSE)>>,
    <<"send", GET_MODEMS_CONFIG, {"complete"}>>, <<"dead", FALSE>>,
    <<"die">>, <<"dead", TRUE>>, <<"told", <<"death", "base">>>>>>

-----------------------------------------------------------------------------
(***************************************************************************)
(* unit_util.c, "req_resp2": who waits for the expected answer gets it.    *)
(***************************************************************************)
AnswerTest(c, v) ==
  <<<<"listen", Observer("expecting", "response", Default, ReqResp2(c, v))>>,
    <<"send", c, {}>>,
    <<"response", <<"radio", v>>, ServiceAnswer(c, v), "solicited">>,
    <<"told", <<"expecting">>>>>>

-----------------------------------------------------------------------------
(***************************************************************************)
(* Running a script.  The calls a step makes end before the next one.      *)
(***************************************************************************)
IsCheck(step) ==
  step[1] \in {"told", "acks", "status", "connected", "dead", "is enabled"}

Holds(step) ==
  CASE step[1] = "told" -> msg.told = step[2]
    [] step[1] = "acks" -> msg.acks = step[2]
    [] step[1] = "status" -> msg.status = step[2]
    [] step[1] = "connected" -> radio.connected = step[2]
    [] step[1] = "dead" -> radio.dead = step[2]
    [] step[1] = "is enabled" -> radio.enabled = step[2]

Listen(step) ==
  /\ step[1] = "listen"
  /\ Connect(step[2])
  /\ UNCHANGED <<radio, calls, msg>>

StopListening(step) ==
  /\ step[1] = "remove"
  /\ Disconnect(step[2])
  /\ UNCHANGED <<radio, calls, msg>>

Deliver(step) ==
  \/ /\ step[1] = "indication"
     /\ \/ Indication(step[2], step[3], step[4])
        \/ ConfigIndication(step[2], step[3], step[4])
  \/ /\ step[1] = "response"
     /\ \/ Response(step[2], step[3], step[4])
        \/ ConfigResponse(step[2], step[3], step[4])
  \/ step[1] = "die" /\ Died

UseObject(step) ==
  \/ step[1] = "send" /\ Send(step[2], step[3])
  \/ step[1] = "cancel" /\ CancelTransaction
  \/ step[1] = "end transaction" /\ EndTransaction
  \/ step[1] = "enable" /\ SetEnabled(step[2])

TestStep ==
  /\ D!Idle /\ script # <<>> /\ script[1] # Anything
  /\ script' = Tail(script)
  /\ LET step == Head(script)
     IN  \/ IsCheck(step) /\ UNCHANGED dispatchVars
         \/ Listen(step) \/ StopListening(step)
         \/ Deliver(step) \/ UseObject(step)

(***************************************************************************)
(* Instead of a script: one message comes to an object that acknowledges   *)
(* messages, to one that does not, or to a RadioConfig, and while it is    *)
(* delivered the listeners do what they like.                              *)
(***************************************************************************)
FreeCodes ==
  [radio |-> [event |-> RIL_CONNECTED, answer |-> DIAL_RESP],
   ims |-> [event |-> 1, answer |-> 1],
   config |-> [event |-> SIM_SLOTS_STATUS_CHANGED, answer |-> SET_PREFERRED_DATA_MODEM_RESP]]

FreeListeners(api) ==
  LET event == FreeCodes[api].event
      answer == FreeCodes[api].answer
      all == <<Observer("default", "indication", Default, 0),
               Observer("high", "indication", Highest, event),
               Handler("asks", "handle indication", event, FALSE),
               Handler("takes", "handle indication", 0, TRUE),
               Observer("low", "indication", Lowest, 0),
               Observer("answered", "response", Highest, answer),
               Observer("last", "response", Lowest, 0),
               Handler("handles", "handle response", 0, TRUE)>>
  IN  SelectSeq(all, LAMBDA s : Offers(api, s.sig))

LateListeners == {Observer("late", "indication", Highest, 0),
                  Handler("also takes", "handle indication", 0, TRUE)}

FreeMessage ==
  /\ D!Idle /\ script # <<>> /\ script[1] = Anything
  /\ LET iface == <<radio.api, radio.version>>
         event == FreeCodes[radio.api].event
         answer == FreeCodes[radio.api].answer
     IN  \/ \E type \in {"unsolicited", "ack_exp"} :
              Indication(iface, event, type) \/ ConfigIndication(iface, event, type)
         \/ \E type \in {"solicited", "ack_exp"} :
              Response(iface, answer, type) \/ ConfigResponse(iface, answer, type)
  /\ script' = Tail(script)

-----------------------------------------------------------------------------
InstanceTests ==
  {ConnectedTest, IndicationTest, RequestTest, ResponseTest, AckTest,
   SendRequestTest, EnabledTest, DeathTest, ClientIndicationTest}

ConfigTests == {ConfigIndicationTest, ConfigResponseTest, ConfigDeathTest}

ScriptInit ==
  /\ calls = <<>> /\ msg = NoMessage
  /\ \/ \E api \in DOMAIN FreeCodes :
          /\ radio = NewObject(api, 0) /\ subs = FreeListeners(api)
          /\ script = <<Anything>>
     \/ /\ subs = <<>>
        /\ \/ /\ radio = Quiet(NewObject("radio", 0)) /\ script \in InstanceTests
           \/ /\ radio = Quiet(NewObject("config", 1)) /\ script \in ConfigTests
           \/ \E v \in Versions : \E c \in RequestCodes(Radio) :
                /\ c <= LastRequest(v)
                /\ radio = Quiet(NewObject("radio", v)) /\ script = AnswerTest(c, v)

ScriptNext ==
  \/ TestStep \/ FreeMessage
  \/ DispatchContinue /\ UNCHANGED script

\* What the unit tests assert holds.
DispatchTestsHold ==
  D!Idle /\ script # <<>> /\ IsCheck(script[1]) => Holds(script[1])
=============================================================================
