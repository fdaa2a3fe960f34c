---------------------------- MODULE RadioDispatch -----------------------------
(***************************************************************************)
(* What happens between the binder driver and the listeners of a           *)
(* RadioInstance or a RadioConfig: radio_instance.c and radio_config.c     *)
(* turn every message of the radio service, and every request sent to it,  *)
(* into a series of GObject signals; radio_client.c listens to them and    *)
(* emits its own.  Listeners are called one after another and may connect  *)
(* and disconnect listeners, themselves included, and send requests.       *)
(***************************************************************************)
EXTENDS RadioCodes, Sequences

CONSTANTS
  MaxChanges,   \* bound on what listeners do with the object
  Newcomers,    \* the listeners they may connect
  UserRequest   \* the request they send

VARIABLES
  radio,    \* the object: a RadioInstance or a RadioConfig
  subs,     \* its listeners, in the order they were connected; those who
            \* are disconnected stay, turned off
  calls,    \* the calls in progress
  msg       \* the last message, and who was told since it came

dispatchVars == <<radio, subs, calls, msg>>

D == INSTANCE CallStack WITH stack <- calls

Desc == Interfaces[radio.api]
IsConfig == radio.api \in {"config", "config_aidl"}

-----------------------------------------------------------------------------
(***************************************************************************)
(* Listeners.  The observers of requests, responses and indications have a *)
(* priority and, as the handlers, a code, 0 for any.  Only a handler of    *)
(* the object may tell it, by its result, that it has taken the message.   *)
(***************************************************************************)
Lowest == 0
Default == 2
Highest == 7

PriorityIndex(p) == IF p < Lowest THEN Lowest ELSE IF p > Highest THEN Highest ELSE p

Listener(id, sig, p, code, handles) ==
  [id |-> id, sig |-> sig, p |-> PriorityIndex(p), code |-> code,
   handles |-> handles, on |-> TRUE]
Observer(id, sig, p, code) == Listener(id, sig, p, code, FALSE)
Handler(id, sig, code, handles) == Listener(id, sig, Lowest, code, handles)

Handling == {"handle indication", "handle response"}
Signals ==
  {"none", "request", "indication", "response", "ack", "death", "enabled", "connected",
   "client indication", "client connected", "client death"} \cup Handling
Reserved == {"binder", "base", "complete", "destroy"}  \* who else is told

Listeners ==
  {s \in [id : STRING \ Reserved, sig : Signals, p : Lowest .. Highest, code : Nat,
          handles : BOOLEAN, on : {TRUE}] :
     /\ s.handles => s.sig \in Handling
     /\ s.sig \in Handling => s.p = Lowest}

\* Acknowledgements are left to the library.
ASSUME DispatchAssumption ==
  /\ MaxChanges \in Nat
  /\ \A s \in Newcomers : s \in Listeners
  /\ UserRequest \in Nat
  /\ \A api \in DOMAIN Interfaces : UserRequest # Interfaces[api].ack

\* A RadioConfig has observers only: handlers are a matter of RadioInstance.
Offers(api, sig) ==
  api \in {"config", "config_aidl"} => sig \notin Handling

\* The listeners radio_client_new connects, named after their procedures.
ClientListeners ==
  <<Observer("handle_ind", "indication", Default, 0),
    Observer("handle_resp", "response", Default, 0),
    Handler("handle_ack", "ack", 0, FALSE), Handler("handle_death", "death", 0, FALSE),
    Handler("handle_connected", "connected", 0, FALSE)>>

\* The detail of a signal is the quark of a name: no two codes share one.
Hears(s, sig, p, code) == s.on /\ s.sig = sig /\ s.p = p /\ s.code \in {0, code}

Told(sig, p, code) == {i \in DOMAIN subs : Hears(subs[i], sig, p, code)}

\* Each connection has an id of its own.
Connect(s) ==
  /\ Offers(radio.api, s.sig) /\ \A i \in DOMAIN subs : subs[i].id # s.id
  /\ subs' = Append(subs, s)

\* Disconnected listeners are not told by the emissions in progress either.
Disconnect(id) ==
  subs' = [i \in DOMAIN subs |-> [subs[i] EXCEPT !.on = @ /\ subs[i].id # id]]

-----------------------------------------------------------------------------
(***************************************************************************)
(* Calls.  An "emit" frame emits a signal: once it started, as a "tell"    *)
(* frame, left has the listeners it still has to tell.  A "transact" frame *)
(* has in ends the callbacks the transaction will end with.                *)
(***************************************************************************)
Step(op) == [op |-> op, sig |-> "none", p |-> 0, code |-> 0, left |-> {}, ends |-> {}]
Emit(sig, p, code) == [Step("emit") EXCEPT !.sig = sig, !.p = p, !.code = code]

\* The observers of the priorities from hi down to lo.
Observers(sig, hi, lo, code) ==
  [i \in 1 .. hi - lo + 1 |-> Emit(sig, hi + 1 - i, code)]

\* radio_instance_send_request, radio_instance_send_request_sync and
\* radio_config_send_request
SendCalls(code, callbacks) ==
  Observers("request", Highest, Lowest, code)
    \o <<[Step("transact") EXCEPT !.code = code, !.ends = callbacks]>>

\* radio_instance_ack
AckCalls == IF Desc.ack = 0 THEN <<>> ELSE SendCalls(Desc.ack, {})

\* Mutant: the observers of default priority come before the handlers, too.
IndicationCallsDefaultFirst(code, type) ==
  Observers("indication", Highest, Default, code)
    \o (IF code = Desc.ril_connected THEN <<Step("connect")>> ELSE <<>>)
    \o <<Emit("handle indication", Lowest, code)>>
    \o Observers("indication", Default - 1, Lowest, code)
    \o (IF type = "ack_exp" THEN <<Step("ack unhandled")>> ELSE <<>>)

\* What radio_instance_indication does with a valid indication.
IndicationCalls(code, type) ==
  Observers("indication", Highest, Default + 1, code)
    \o (IF code = Desc.ril_connected THEN <<Step("connect")>> ELSE <<>>)
    \o <<Emit("handle indication", Lowest, code)>>
    \o Observers("indication", Default, Lowest, code)
    \o (IF type = "ack_exp" THEN <<Step("ack unhandled")>> ELSE <<>>)

\* What radio_instance_response does with a valid response.
ResponseCalls(code, type) ==
  Observers("response", Highest, Default + 1, code)
    \o <<Emit("handle response", Lowest, code)>>
    \o Observers("response", Default, Lowest, code)
    \o (IF type = "ack_exp" THEN <<Step("ack unhandled")>> ELSE <<>>)

\* What radio_config_response does with a valid response.
ConfigResponseCalls(code) ==
  Observers("response", Highest, Default + 1, code)
    \o <<Step("base")>>
    \o Observers("response", Default, Lowest, code)

\* What the handlers of a RadioClient do: they tell its RadioBase and its users.
ClientCalls(id, code) ==
  CASE id = "handle_ind" -> <<Emit("client indication", Lowest, code)>>
    [] id = "handle_connected" -> <<Emit("client connected", Lowest, 0), Step("base")>>
    [] id = "handle_death" -> <<Step("base"), Emit("client death", Lowest, 0)>>
    [] id \in {"handle_ack", "handle_resp"} -> <<Step("base")>>
    [] OTHER -> <<>>

\* The callbacks a transaction ends with: complete, and then destroy.
Callbacks == {"complete", "destroy"}
EndCalls(callbacks) ==
  (IF "complete" \in callbacks THEN <<Step("complete")>> ELSE <<>>)
    \o (IF "destroy" \in callbacks THEN <<Step("destroy")>> ELSE <<>>)

\* While a listener is told something, it may use the object.
UserCode == IF radio.changes < MaxChanges THEN <<Step("callback")>> ELSE <<>>

-----------------------------------------------------------------------------
(***************************************************************************)
(* Messages of the service.  iface is the interface one is addressed to:   *)
(* its name and its version.                                               *)
(***************************************************************************)
NoMessage ==
  [kind |-> "none", code |-> 0, type |-> "none", status |-> "unset",
   handled |-> FALSE, told |-> <<>>, acks |-> 0, present |-> 0]

Message(kind, code, type, status) ==
  [NoMessage EXCEPT !.kind = kind, !.code = code, !.type = type, !.status = status,
                    !.present = Len(subs)]

Accepts(iface) == iface[1] = radio.api /\ iface[2] <= radio.version

\* A message arrives: it gets a status and, if it is valid, starts calls.
Receive(kind, code, type, status, frames) ==
  /\ D!Idle /\ ~radio.dead
  /\ msg' = Message(kind, code, type, status)
  /\ D!Enter(IF status = "ok" THEN frames ELSE <<>>)
  /\ UNCHANGED <<radio, subs>>

\* radio_instance_indication
Indication(iface, code, type) ==
  /\ ~IsConfig
  /\ Receive("indication", code, type,
             IF Accepts(iface) /\ type \in {"unsolicited", "ack_exp"} THEN "ok" ELSE "failed",
             IndicationCalls(code, type))

\* radio_config_indication looks for the interface among those of HIDL only.
ConfigIndication(iface, code, type) ==
  /\ IsConfig
  /\ Receive("indication", code, type,
             CASE iface[1] # "config" -> "unset"
               [] iface[1] = "config" /\ type = "unsolicited" -> "ok"
               [] OTHER -> "failed",
             Observers("indication", Highest, Lowest, code))

\* radio_instance_response: type is "none" when the message has no info, or
\* no serial where the service asks for an acknowledgement.
Response(iface, code, type) ==
  /\ ~IsConfig
  /\ LET status == IF Accepts(iface) THEN "ok" ELSE "failed"
     IN  IF type # "none" /\ code # Desc.resp_ack
         THEN Receive("response", code, type, status, ResponseCalls(code, type))
         ELSE Receive("other", code, type, status,
                      IF type = "none" THEN <<>> ELSE <<Emit("ack", Lowest, 0)>>)

\* radio_config_response
ConfigResponse(iface, code, type) ==
  /\ IsConfig
  /\ Receive("response", code, type,
             CASE ~Accepts(iface) -> "failed"
               [] Accepts(iface) /\ type = "none" -> "unset"
               [] OTHER -> "ok",
             ConfigResponseCalls(code))

\* radio_instance_died and radio_config_died
Died ==
  /\ D!Idle /\ ~radio.dead
  /\ radio' = [radio EXCEPT !.dead = TRUE, !.connected = FALSE]
  /\ msg' = Message("death", 0, "none", "unset")
  /\ D!Enter(<<Emit("death", Lowest, 0)>>
               \o (IF IsConfig THEN <<Step("base")>> ELSE <<>>))
  /\ UNCHANGED subs

\* radio_instance_set_enabled
SetEnabled(enabled) ==
  /\ D!Idle
  /\ radio' = [radio EXCEPT !.enabled = enabled]
  /\ msg' = Message("enabled", 0, "none", "unset")
  /\ D!Enter(IF radio.enabled # enabled THEN <<Emit("enabled", Lowest, 0)>> ELSE <<>>)
  /\ UNCHANGED subs

\* A user sends a request; callbacks are those he wants of the transaction.
Send(code, callbacks) ==
  /\ D!Idle
  /\ msg' = Message("request", code, "none", "unset")
  /\ D!Enter(SendCalls(code, callbacks))
  /\ UNCHANGED <<radio, subs>>

\* The last transaction is cancelled: it ends without its completion.
CancelTransaction ==
  /\ D!Idle /\ radio.txs # <<>>
  /\ radio' = [radio EXCEPT
       !.txs[Len(radio.txs)] = @ \ {"complete"}]
  /\ UNCHANGED <<subs, calls, msg>>

\* A transaction ends, in the main loop.
EndTransaction ==
  /\ D!Idle /\ radio.txs # <<>>
  /\ radio' = [radio EXCEPT !.txs = Tail(@)]
  /\ msg' = Message("transaction", 0, "none", "unset")
  /\ D!Enter(EndCalls(Head(radio.txs)))
  /\ UNCHANGED subs

-----------------------------------------------------------------------------
(***************************************************************************)
(* Calls in progress.                                                      *)
(***************************************************************************)
\* g_signal_emit: who listens now will be told.
StartEmission ==
  /\ D!Running("emit")
  /\ LET heard == Told(D!Top.sig, D!Top.p, D!Top.code)
     IN  D!Become(IF heard = {} THEN <<>>
                  ELSE <<[D!Top EXCEPT !.op = "tell", !.left = heard]>>)
  /\ UNCHANGED <<radio, subs, msg>>

\* Those the emission f has still to tell.
Waiting(f) == {i \in f.left : subs[i].on}

\* The next listener, in the order of connection, is told.  A handler that
\* returns TRUE ends the emission; it sends the acknowledgement itself.
Tell ==
  /\ D!Running("tell")
  /\ \E i \in Waiting(D!Top) :
       /\ \A j \in Waiting(D!Top) : i <= j
       /\ msg' = [msg EXCEPT !.told = Append(@, subs[i].id),
                              !.handled = @ \/ subs[i].handles]
       /\ D!Become(
            (IF subs[i].handles /\ msg.type = "ack_exp" THEN AckCalls ELSE <<>>)
            \o ClientCalls(subs[i].id, D!Top.code)
            \o UserCode
            \o <<[D!Top EXCEPT !.left = IF subs[i].handles THEN {} ELSE @ \ {i}]>>)
  /\ UNCHANGED <<radio, subs>>

EndEmission ==
  /\ D!Running("tell") /\ Waiting(D!Top) = {}
  /\ D!Become(<<>>)
  /\ UNCHANGED <<radio, subs, msg>>

\* rilConnected is only supposed to be received once.
RilConnected ==
  /\ D!Running("connect")
  /\ radio' = [radio EXCEPT !.connected = TRUE]
  /\ D!Become(IF radio.connected THEN <<>> ELSE <<Emit("connected", Lowest, 0)>>)
  /\ UNCHANGED <<subs, msg>>

\* Mutant: what a handler has acknowledged is acknowledged again.
AckAlways ==
  /\ D!Running("ack unhandled")
  /\ D!Become(AckCalls)
  /\ UNCHANGED <<radio, subs, msg>>

AckUnhandled ==
  /\ D!Running("ack unhandled")
  /\ D!Become(IF msg.handled THEN <<>> ELSE AckCalls)
  /\ UNCHANGED <<radio, subs, msg>>

\* The binder driver takes the request, unless the service is dead: then a
\* transaction with callbacks is forgotten without calling any.
Transact ==
  /\ D!Running("transact")
  /\ IF radio.dead
     THEN UNCHANGED <<radio, msg>>
     ELSE /\ radio' = IF D!Top.ends = {} THEN radio
                      ELSE [radio EXCEPT !.txs = Append(@, D!Top.ends)]
          /\ msg' = [msg EXCEPT
               !.told = Append(@, "binder"),
               !.acks = IF D!Top.code = Desc.ack THEN @ + 1 ELSE @]
  /\ D!Become(<<>>)
  /\ UNCHANGED subs

\* RadioBase is told: what it does is modelled by RadioBase.
BaseTold ==
  /\ D!Running("base")
  /\ msg' = [msg EXCEPT !.told = Append(@, "base")]
  /\ D!Become(<<>>)
  /\ UNCHANGED <<radio, subs>>

\* A callback of a transaction is called.
TransactionEnds ==
  /\ D!Running("complete") \/ D!Running("destroy")
  /\ msg' = [msg EXCEPT !.told = Append(@, D!Top.op)]
  /\ D!Become(UserCode)
  /\ UNCHANGED <<radio, subs>>

\* A listener that is being told something uses the object.
Use ==
  /\ D!Running("callback") /\ radio.changes < MaxChanges
  /\ radio' = [radio EXCEPT !.changes = @ + 1]
  /\ \/ /\ \E i \in DOMAIN subs : Disconnect(subs[i].id)
        /\ UNCHANGED <<calls, msg>>
     \/ /\ \E s \in Newcomers : Connect(s)
        /\ UNCHANGED <<calls, msg>>
     \/ /\ D!Enter(SendCalls(UserRequest, {}))
        /\ UNCHANGED <<subs, msg>>

UseReturns ==
  /\ D!Running("callback")
  /\ D!Become(<<>>)
  /\ UNCHANGED <<radio, subs, msg>>

DispatchContinue ==
  \/ StartEmission \/ Tell \/ EndEmission \/ RilConnected \/ AckUnhandled
  \/ Transact \/ BaseTold \/ TransactionEnds \/ Use \/ UseReturns

\* A new object without listeners; its rilConnected comes if it has one.
\* radio_instance_create, radio_config_create
NewObject(api, version) ==
  [api |-> api, version |-> version,
   connected |-> Interfaces[api].ril_connected = 0 /\ api \notin {"config", "config_aidl"},
   dead |-> FALSE, enabled |-> FALSE, txs |-> <<>>, changes |-> 0]

-----------------------------------------------------------------------------
(***************************************************************************)
(* The life of an object: listeners come and go, users send requests, and  *)
(* the service sends what it likes, one event after the other.  Only the   *)
(* message that asks for an acknowledgement has a serial instead of a type.*)
(***************************************************************************)
Addresses == STRING \X Nat
ResponseTypes(code) ==
  IF code = Desc.resp_ack THEN {"none", "serial"} ELSE {"none", "solicited", "ack_exp"}

Delivery ==
  \/ \E iface \in Addresses, code \in Nat, type \in {"none", "invalid", "unsolicited", "ack_exp"} :
       Indication(iface, code, type) \/ ConfigIndication(iface, code, type)
  \/ \E iface \in Addresses, code \in Nat : \E type \in ResponseTypes(code) :
       Response(iface, code, type) \/ ConfigResponse(iface, code, type)
  \/ Died

UserAction ==
  \/ \E code \in Nat, callbacks \in SUBSET Callbacks : Send(code, callbacks)
  \/ CancelTransaction \/ \E enabled \in BOOLEAN : SetEnabled(enabled)

Watching ==
  /\ D!Idle
  /\ \/ \E s \in Listeners : Connect(s)
     \/ \E i \in DOMAIN subs : Disconnect(subs[i].id)
  /\ UNCHANGED <<radio, calls, msg>>

DispatchInit ==
  /\ \E api \in DOMAIN Interfaces, version \in Versions : radio = NewObject(api, version)
  /\ subs = <<>> /\ calls = <<>> /\ msg = NoMessage

DispatchNext ==
  Delivery \/ UserAction \/ EndTransaction \/ Watching \/ DispatchContinue

DispatchSpec == DispatchInit /\ [][DispatchNext]_dispatchVars

-----------------------------------------------------------------------------
(***************************************************************************)
(* Properties.                                                             *)
(***************************************************************************)

\* A message that asks for it is acknowledged once, by the handler that takes
\* it or else by the object; nothing else is, also when listeners come and go
\* and send requests while it is delivered.
AckedOnce ==
  D!Idle /\ msg.status = "ok" =>
    msg.acks = IF msg.type = "ack_exp" /\ ~IsConfig /\ Desc.ack # 0 THEN 1 ELSE 0

\* The turn of a listener of a message: high priorities, handlers, the rest.
HandlerSignal == [indication |-> "handle indication", response |-> "handle response"]

Turn(s) == IF s.sig = HandlerSignal[msg.kind] THEN Highest - Default
           ELSE IF s.p > Default THEN Highest - s.p ELSE Highest + 1 - s.p

Concerned ==
  {i \in DOMAIN subs :
     /\ i <= msg.present /\ subs[i].on
     /\ subs[i].sig \in {msg.kind, HandlerSignal[msg.kind]}
     /\ subs[i].code \in {0, msg.code}}

Tellings(i) == {k \in DOMAIN msg.told : msg.told[k] = subs[i].id}

\* Those who listen to a message from its arrival to its end are told of it
\* once, by priority and then in the order of their connection, whatever
\* other listeners do meanwhile; only a handler that takes the message keeps
\* it from the handlers after it.
ToldInTurn ==
  D!Idle /\ msg.status = "ok" /\ msg.kind \in DOMAIN HandlerSignal =>
    /\ \A i \in Concerned :
         \/ Cardinality(Tellings(i)) = 1
         \/ /\ msg.handled /\ subs[i].sig = HandlerSignal[msg.kind]
            /\ Tellings(i) = {}
    /\ \A i, j \in Concerned :
         \/ Turn(subs[i]) < Turn(subs[j])
         \/ Turn(subs[i]) = Turn(subs[j]) /\ i < j
         => \A k \in Tellings(i), l \in Tellings(j) : k < l
=============================================================================
