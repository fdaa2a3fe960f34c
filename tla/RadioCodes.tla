------------------------------ MODULE RadioCodes ------------------------------
(***************************************************************************)
(* The transaction codes of the radio interfaces (the *_types.h headers),  *)
(* those that have a name (radio_util.c and radio_config.c), and the       *)
(* answer to expect to each request (radio_req_resp2).  A table of calls   *)
(* is a function from the code of a request to the code of its answer; 0   *)
(* is the code ANY or NONE.                                                *)
(***************************************************************************)
EXTENDS Integers, FiniteSets, TLC

\* The codes C, each answered by the code that is d higher.
Shift(C, d) == [c \in C |-> c + d]

\* A number for each version of a HIDL interface, 1.0 first.
Versions == 0 .. 5
UpTo(values, v) == values[v + 1]

-----------------------------------------------------------------------------
(***************************************************************************)
(* IRadio 1.0 to 1.5.                                                      *)
(***************************************************************************)
Call_1_0 == Shift(2 .. 129, -1)
Call_1_1 == Shift(131 .. 136, -1)
Call_1_2 == Shift(139 .. 140, -1)
Call_1_3 == Shift(143 .. 145, 1)
Call_1_4 == Shift({146}, 9) @@ Shift(149 .. 150, -2)
              @@ Shift(151 .. 152, 1) @@ Shift(153 .. 155, 3)
Call_1_5 == Shift(156 .. 162, 3) @@ Shift(163 .. 169, 4) @@ Shift(170 .. 172, 5)

\* Requests that are answered as an older one: startNetworkScan_1_2,
\* setIndicationFilter_1_2, setupDataCall_1_2, deactivateDataCall_1_2,
\* setInitialAttachApn_1_4 and setDataProfile_1_4.
AnsweredAs ==
  (137 :> 133) @@ (138 :> 128) @@ (141 :> 28) @@ (142 :> 40)
    @@ (147 :> 102) @@ (148 :> 117)

Events == 1 .. 65

\* The answers no request has in the tables of calls.
LaterAnswers == {136, 137, 140, 141, 142, 143} \cup {149, 150, 151, 154} \cup {166, 174, 178}

LastRequest(v) == UpTo(<<130, 136, 142, 145, 155, 172>>, v)
LastAnswer(v) == UpTo(<<129, 135, 143, 146, 158, 178>>, v)
LastEvent(v) == UpTo(<<45, 48, 53, 53, 59, 65>>, v)

Radio ==
  [calls |-> Call_1_0 @@ Call_1_1 @@ Call_1_2 @@ Call_1_3 @@ Call_1_4 @@ Call_1_5,
   events |-> Events, setup |-> 1, ack |-> 130, resp_ack |-> 129, ril_connected |-> 33,
   more_requests |-> DOMAIN AnsweredAs, more_answers |-> LaterAnswers]

-----------------------------------------------------------------------------
(***************************************************************************)
(* The AIDL interfaces.  A service without an acknowledgement has 0 for    *)
(* its codes; only the modem tells when it is connected.                   *)
(***************************************************************************)
Data ==
  [calls |-> Shift(1 .. 6, 1) @@ Shift(8 .. 11, 0) @@ Shift(13 .. 16, -1),
   events |-> 1 .. 5, setup |-> 12, ack |-> 7, resp_ack |-> 1, ril_connected |-> 0,
   more_requests |-> {}, more_answers |-> {}]

Ims ==
  [calls |-> Shift(1 .. 5, 0) @@ Shift(7 .. 8, -1),
   events |-> 1 .. 3, setup |-> 6, ack |-> 0, resp_ack |-> 0, ril_connected |-> 0,
   more_requests |-> {}, more_answers |-> {}]

Messaging ==
  [calls |-> Shift((1 .. 3) \cup {13} \cup (16 .. 19), 0)
               @@ Shift((4 .. 9) \cup {11, 14}, 1)
               @@ Shift({12, 15} \cup (21 .. 23), -1),
   events |-> 1 .. 7, setup |-> 20, ack |-> 10, resp_ack |-> 4, ril_connected |-> 0,
   more_requests |-> {}, more_answers |-> {}]

Modem ==
  [calls |-> Shift(1 .. 12, 1) @@ Shift(14 .. 16, 0),
   events |-> 1 .. 5, setup |-> 17, ack |-> 13, resp_ack |-> 1, ril_connected |-> 5,
   more_requests |-> {}, more_answers |-> {}]

Network ==
  [calls |-> Shift(1 .. 15, 1) @@ Shift(17 .. 27, 0) @@ Shift(29 .. 36, -1),
   events |-> 1 .. 14, setup |-> 28, ack |-> 16, resp_ack |-> 1, ril_connected |-> 0,
   more_requests |-> {}, more_answers |-> {}]

Sim ==
  [calls |-> Shift(1 .. 19, 1) @@ Shift(21 .. 27, 0) @@ Shift(29 .. 36, -1),
   events |-> 1 .. 11, setup |-> 28, ack |-> 20, resp_ack |-> 1, ril_connected |-> 0,
   more_requests |-> {}, more_answers |-> {}]

\* hangup and its answer are listed apart from the calls.
Voice ==
  [calls |-> Shift({1} \cup (24 .. 33), 0) @@ Shift((2 .. 17) \cup (19 .. 22), 1)
               @@ Shift(35 .. 39, -1),
   events |-> 1 .. 15, setup |-> 34, ack |-> 23, resp_ack |-> 2, ril_connected |-> 0,
   more_requests |-> {18}, more_answers |-> {19}]

-----------------------------------------------------------------------------
(***************************************************************************)
(* IRadioConfig 1.0 to 1.2 and its AIDL successor.                         *)
(***************************************************************************)
Config ==
  [calls |-> Shift(2 .. 7, -1),
   events |-> 1 .. 2, setup |-> 1, ack |-> 0, resp_ack |-> 0, ril_connected |-> 0,
   more_requests |-> {}, more_answers |-> {7}]

ConfigAidl ==
  [calls |-> Shift(1 .. 6, 0) @@ Shift({8}, -1),
   events |-> {1}, setup |-> 7, ack |-> 0, resp_ack |-> 0, ril_connected |-> 0,
   more_requests |-> {}, more_answers |-> {}]

Interfaces ==
  [radio |-> Radio, data |-> Data, ims |-> Ims, messaging |-> Messaging,
   modem |-> Modem, network |-> Network, sim |-> Sim, voice |-> Voice,
   config |-> Config, config_aidl |-> ConfigAidl]

\* The last version of each.
LastVersion(api) == CASE api = "radio" -> 5 [] api = "config" -> 2 [] OTHER -> 0

-----------------------------------------------------------------------------
(***************************************************************************)
(* radio_req_name2, radio_resp_name2 and radio_ind_name2: the codes that   *)
(* have a name.  No two of them share one.                                 *)
(***************************************************************************)
RequestCodes(d) ==
  DOMAIN d.calls \cup ({d.setup, d.ack} \ {0}) \cup d.more_requests
AnswerCodes(d) ==
  {d.calls[c] : c \in DOMAIN d.calls} \cup ({d.resp_ack} \ {0}) \cup d.more_answers
EventCodes(d) == d.events

-----------------------------------------------------------------------------
(***************************************************************************)
(* The answer to a request of IRadio.                                      *)
(***************************************************************************)
\* radio_req_resp
ReqResp(c) ==
  CASE c \in DOMAIN Radio.calls -> Radio.calls[c]
    [] c \in DOMAIN AnsweredAs -> Radio.calls[AnsweredAs[c]]
    [] OTHER -> 0

\* Mutant: the answer of version 1.4 is expected one version too early.
IccCardStatusAnswersEarly == <<1, 1, 137, 151, 151, 178>>

IccCardStatusAnswers == <<1, 1, 137, 137, 151, 178>>
CellInfoListAnswers == <<99, 99, 136, 136, 149, 174>>
CurrentCallsAnswers == <<9, 9, 140, 140, 140, 140>>
SignalStrengthAnswers == <<19, 19, 141, 141, 141, 141>>
VoiceRegistrationAnswers == <<20, 20, 142, 142, 142, 142>>
DataRegistrationAnswers == <<21, 21, 143, 143, 150, 150>>
DataCallListAnswers == <<54, 54, 54, 54, 154, 166>>

\* radio_req_resp2: the answer may depend on the version of the interface.
ReqResp2(c, v) ==
  CASE c = 2 -> UpTo(IccCardStatusAnswers, v)
    [] c = 100 -> UpTo(CellInfoListAnswers, v)
    [] c = 10 -> UpTo(CurrentCallsAnswers, v)
    [] c = 20 -> UpTo(SignalStrengthAnswers, v)
    [] c = 21 -> UpTo(VoiceRegistrationAnswers, v)
    [] c = 22 -> UpTo(DataRegistrationAnswers, v)
    [] c = 55 -> UpTo(DataCallListAnswers, v)
    [] OTHER -> ReqResp(c)

(***************************************************************************)
(* What the service sends: the answers to these requests grew with the     *)
(* interface, and it picks the newest form the response interface has.     *)
(* The other answers are those of the unit test of radio_req_resp2.        *)
(***************************************************************************)
AnswerForms(c) ==
  CASE c = 2 -> {1, 137, 151, 178}
    [] c = 100 -> {99, 136, 149, 174}
    [] c = 10 -> {9, 140}
    [] c = 20 -> {19, 141}
    [] c = 21 -> {20, 142}
    [] c = 22 -> {21, 143, 150}
    [] c = 55 -> {54, 154, 166}
    [] OTHER -> {ReqResp(c)}

ServiceAnswer(c, v) ==
  LET known == {a \in AnswerForms(c) : a <= LastAnswer(v)}
  IN  CHOOSE a \in known : \A b \in known : b <= a
=============================================================================
