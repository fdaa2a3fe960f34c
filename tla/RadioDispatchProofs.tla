------------------------- MODULE RadioDispatchProofs --------------------------
(***************************************************************************)
(* RadioDispatch: a message is acknowledged once, and its listeners are    *)
(* told of it in turn, for any object, any listeners and any messages.     *)
(*                                                                         *)
(* The emissions of a message are calls in progress like any other, and    *)
(* while they last listeners make calls of their own.  The invariant says  *)
(*   - Listened: what listeners there may be;                              *)
(*   - Signalled: which calls in progress tell of the message, and whom    *)
(*     they still have to tell;                                            *)
(*   - Acknowledged: a message that asks for it was acknowledged, or       *)
(*     exactly one call in progress is going to;                           *)
(*   - Ordered: the calls in progress come in the right order.  A handler  *)
(*     comes before the object looks whether to acknowledge the message;   *)
(*     signals come by rank;                                               *)
(*   - Informed: a listener was told, and nobody will tell it again, or    *)
(*     will be told, and nobody whose turn is later was.                   *)
(***************************************************************************)
EXTENDS RadioDispatch, FiniteSetTheorems, TLAPS

P == INSTANCE CallStackProofs WITH stack <- calls

Kinds == {"indication", "response"}
MessageSignals == Kinds \cup Handling

-----------------------------------------------------------------------------
(***************************************************************************)
(* Types.                                                                  *)
(***************************************************************************)
DispatchOps ==
  {"emit", "tell", "transact", "connect", "ack unhandled", "base", "complete",
   "destroy", "callback"}

RadioObject ==
  [api : DOMAIN Interfaces, version : Versions, connected : BOOLEAN,
   dead : BOOLEAN, enabled : BOOLEAN, txs : Seq(SUBSET Callbacks), changes : Nat]

Subscriber ==
  [id : STRING \ Reserved, sig : Signals, p : Lowest .. Highest, code : Nat,
   handles : BOOLEAN, on : BOOLEAN]

DispatchFrame ==
  [op : DispatchOps, sig : Signals, p : Lowest .. Highest, code : Nat,
   left : SUBSET Nat, ends : SUBSET Callbacks]

DispatchFrames == Seq(DispatchFrame)

MessageKinds ==
  {"none", "indication", "response", "other", "death", "enabled", "request", "transaction"}
MessageTypes == {"none", "invalid", "unsolicited", "solicited", "ack_exp", "serial"}
Statuses == {"unset", "failed", "ok"}

MessageRecord ==
  [kind : MessageKinds, code : Nat, type : MessageTypes, status : Statuses,
   handled : BOOLEAN, told : Seq(STRING \cup Reserved), acks : Nat, present : Nat]

DispatchTypeOK ==
  /\ radio \in RadioObject
  /\ subs \in Seq(Subscriber)
  /\ calls \in DispatchFrames
  /\ msg \in MessageRecord

-----------------------------------------------------------------------------
(***************************************************************************)
(* The listeners.                                                          *)
(***************************************************************************)
Listened ==
  /\ \A i \in DOMAIN subs :
       /\ subs[i].handles => subs[i].sig \in Handling
       /\ subs[i].sig \in Handling => subs[i].p = Lowest
       /\ Offers(radio.api, subs[i].sig)
  /\ \A i, j \in DOMAIN subs : subs[i].id = subs[j].id => i = j
  /\ msg.present <= Len(subs)

-----------------------------------------------------------------------------
(***************************************************************************)
(* The calls in progress.                                                  *)
(***************************************************************************)
Emits(f) == f.op \in {"emit", "tell"}
Delivers(f) == Emits(f) /\ f.sig \in MessageSignals
Handles(f) == Emits(f) /\ f.sig \in Handling /\ (f.op = "tell" => f.left # {})

\* The rank of the emissions of a message.
Rank(s) == IF s.sig \in Handling THEN Highest - Default
           ELSE IF s.p > Default THEN Highest - s.p ELSE Highest + 1 - s.p

\* A message that is being delivered.
Delivered == msg.status = "ok" /\ msg.kind \in Kinds

SignalledBy(f) ==
  /\ f.op = "tell" =>
       \A i \in f.left : i \in DOMAIN subs /\ subs[i].sig = f.sig /\ subs[i].p = f.p
  /\ Delivers(f) =>
       /\ Delivered /\ f.sig \in {msg.kind, HandlerSignal[msg.kind]}
       /\ f.code = msg.code
       /\ f.sig \in Handling => f.p = Lowest
Signalled == \A f \in P!Calls(calls) : SignalledBy(f)

-----------------------------------------------------------------------------
(***************************************************************************)
(* Acknowledgements.                                                       *)
(***************************************************************************)
Expects == msg.type = "ack_exp" /\ ~IsConfig /\ Desc.ack # 0

Acks(f, a) == f.op = "transact" /\ f.code = a
Looks(f) == f.op = "ack unhandled"

\* The call f is going to acknowledge the message; b tells that a handler has
\* taken it.
Due(f, a, b) == Acks(f, a) \/ (Looks(f) /\ ~b)

Acknowledged ==
  LET S == P!Calls(calls)
      due == \E f \in S : Due(f, Desc.ack, msg.handled)
  IN  /\ msg.status = "ok" => ~radio.dead
      /\ \A f \in S : Looks(f) => msg.type = "ack_exp" /\ ~IsConfig /\ Delivered
      /\ \A f \in S : Handles(f) =>
           ~msg.handled /\ (msg.type = "ack_exp" => \E h \in S : Looks(h))
      /\ msg.status = "ok" /\ ~Expects =>
           msg.acks = 0 /\ \A f \in S : ~Acks(f, Desc.ack)
      /\ msg.status = "ok" /\ Expects =>
           Delivered /\ msg.acks = IF due THEN 0 ELSE 1

-----------------------------------------------------------------------------
(***************************************************************************)
(* The order of the calls.                                                 *)
(***************************************************************************)
\* A call f that never precedes the call h.
Clash(f, h, a, b) ==
  \/ Delivers(f) /\ Delivers(h) /\ ~(Rank(f) < Rank(h))
  \/ Looks(f) /\ Handles(h)
  \/ Due(f, a, b) /\ Due(h, a, b)

Apart(s, a, b) == \A i, j \in DOMAIN s : i < j => ~Clash(s[i], s[j], a, b)

Ordered == Apart(calls, Desc.ack, msg.handled)

-----------------------------------------------------------------------------
(***************************************************************************)
(* Who was told.                                                           *)
(***************************************************************************)
Awaits(f, i) ==
  \/ /\ f.op = "emit" /\ f.sig = subs[i].sig /\ f.p = subs[i].p
     /\ subs[i].code \in {0, f.code}
  \/ f.op = "tell" /\ i \in f.left

Awaited(i) == \E f \in P!Calls(calls) : Awaits(f, i)

Sooner(i, j) ==
  \/ Turn(subs[i]) < Turn(subs[j])
  \/ Turn(subs[i]) = Turn(subs[j]) /\ i < j

Informed ==
  Delivered =>
    /\ \A i \in Concerned :
         /\ Awaited(i) => Tellings(i) = {}
         /\ ~Awaited(i) =>
              \/ \E k \in DOMAIN msg.told : Tellings(i) = {k}
              \/ msg.handled /\ subs[i].sig \in Handling /\ Tellings(i) = {}
    /\ \A i, j \in Concerned : Sooner(i, j) =>
         /\ Awaited(i) => Tellings(j) = {}
         /\ \A k \in Tellings(i), l \in Tellings(j) : k < l

DispatchInv == Listened /\ Signalled /\ Acknowledged /\ Ordered /\ Informed
-----------------------------------------------------------------------------
(***************************************************************************)
(* The stack.                                                              *)
(***************************************************************************)
Calls(s) == P!Calls(s)

\* Calls made one after the other.
LEMMA ConcatCalls ==
  ASSUME NEW fs \in DispatchFrames, NEW gs \in DispatchFrames
  PROVE  /\ fs \o gs \in DispatchFrames
         /\ Calls(fs \o gs) = Calls(fs) \cup Calls(gs)
BY P!StackConcat DEF DispatchFrames, Calls

\* One call, and none.
LEMMA OneCall ==
  /\ \A f \in DispatchFrame : <<f>> \in DispatchFrames /\ Calls(<<f>>) = {f}
  /\ <<>> \in DispatchFrames /\ Calls(<<>>) = {}
<1>1. ASSUME NEW f \in DispatchFrame
      PROVE  <<f>> \in DispatchFrames /\ Calls(<<f>>) = {f}
  BY P!StackOne DEF DispatchFrames, Calls
<1>2. <<>> \in DispatchFrames /\ Calls(<<>>) = {}
  BY DEF DispatchFrames, Calls, P!Calls
<1>. QED BY <1>1, <1>2

\* The calls in progress are frames.
LEMMA CallsAreFrames ==
  ASSUME NEW fs \in DispatchFrames
  PROVE  Calls(fs) \subseteq DispatchFrame
<1>1. ASSUME NEW i \in DOMAIN fs
      PROVE  fs[i] \in DispatchFrame
  BY DEF DispatchFrames
<1>. QED BY <1>1 DEF Calls, P!Calls

\* The running call and those below it.
LEMMA TopCalls ==
  ASSUME DispatchTypeOK, ~D!Idle
  PROVE  /\ D!Top \in DispatchFrame /\ Tail(calls) \in DispatchFrames
         /\ Calls(calls) = {D!Top} \cup Calls(Tail(calls))
<1>1. calls \in Seq(DispatchFrame) /\ calls # <<>>
  BY DEF DispatchTypeOK, DispatchFrames, D!Idle
<1>2. /\ D!Top = calls[1] /\ D!Top \in DispatchFrame
      /\ Tail(calls) \in Seq(DispatchFrame) /\ <<D!Top>> \in Seq(DispatchFrame)
      /\ calls = <<D!Top>> \o Tail(calls)
  BY <1>1 DEF D!Top
<1>3. Calls(calls) = Calls(<<D!Top>>) \cup Calls(Tail(calls))
  BY <1>2, ConcatCalls DEF DispatchFrames
<1>. QED BY <1>2, <1>3, OneCall DEF DispatchFrames

\* The running call gives way to others, or makes them first.
LEMMA BecomeCalls ==
  ASSUME DispatchTypeOK, ~D!Idle, NEW fs \in DispatchFrames, D!Become(fs)
  PROVE  /\ calls' = fs \o Tail(calls) /\ calls' \in DispatchFrames
         /\ Calls(calls') = Calls(fs) \cup Calls(Tail(calls))
BY TopCalls, ConcatCalls DEF D!Become

LEMMA EnterCalls ==
  ASSUME DispatchTypeOK, NEW fs \in DispatchFrames, D!Enter(fs)
  PROVE  /\ calls' = fs \o calls /\ calls' \in DispatchFrames
         /\ Calls(calls') = Calls(fs) \cup Calls(calls)
BY ConcatCalls DEF D!Enter, DispatchTypeOK

-----------------------------------------------------------------------------
(***************************************************************************)
(* The calls the code makes, and what they are.                            *)
(***************************************************************************)
LEMMA DescType ==
  ASSUME radio \in RadioObject
  PROVE  /\ Desc.ack \in Nat /\ Desc.resp_ack \in Nat /\ Desc.ril_connected \in Nat
         /\ UserRequest # Desc.ack
<1>1. ASSUME NEW api \in DOMAIN Interfaces
      PROVE  /\ Interfaces[api].ack \in Nat /\ Interfaces[api].resp_ack \in Nat
             /\ Interfaces[api].ril_connected \in Nat
  BY DEF Interfaces, Radio, Data, Ims, Messaging, Modem, Network, Sim, Voice,
         Config, ConfigAidl
<1>2. radio.api \in DOMAIN Interfaces
  BY DEF RadioObject
<1>. QED BY <1>1, <1>2, DispatchAssumption DEF Desc

\* Steps and emissions are frames.
LEMMA StepType ==
  /\ \A op \in DispatchOps : Step(op) \in DispatchFrame
  /\ \A sig \in Signals, p \in Lowest .. Highest, code \in Nat :
       Emit(sig, p, code) \in DispatchFrame
  /\ \A code \in Nat, ends \in SUBSET Callbacks :
       [Step("transact") EXCEPT !.code = code, !.ends = ends] \in DispatchFrame
<1>1. 0 \in Lowest .. Highest /\ "none" \in Signals
  BY DEF Lowest, Highest, Signals
<1>2. ASSUME NEW op \in DispatchOps
      PROVE  Step(op) \in DispatchFrame
  BY <1>1 DEF Step, DispatchFrame
<1>3. Step("emit") \in DispatchFrame /\ Step("transact") \in DispatchFrame
  BY <1>2 DEF DispatchOps
<1>4. ASSUME NEW sig \in Signals, NEW p \in Lowest .. Highest, NEW code \in Nat
      PROVE  Emit(sig, p, code) \in DispatchFrame
  BY <1>3 DEF Emit, DispatchFrame
<1>5. ASSUME NEW code \in Nat, NEW ends \in SUBSET Callbacks
      PROVE  [Step("transact") EXCEPT !.code = code, !.ends = ends] \in DispatchFrame
  BY <1>3 DEF DispatchFrame
<1>. QED BY <1>2, <1>4, <1>5

\* The observers of a range of priorities.
LEMMA ObserversCalls ==
  ASSUME NEW sig \in Signals, NEW hi \in Lowest .. Highest, NEW lo \in Lowest .. Highest,
         lo <= hi, NEW code \in Nat
  PROVE  /\ Observers(sig, hi, lo, code) \in DispatchFrames
         /\ Calls(Observers(sig, hi, lo, code)) = {Emit(sig, p, code) : p \in lo .. hi}
<1>. DEFINE fs == Observers(sig, hi, lo, code)
<1>0. DOMAIN fs = 1 .. hi - lo + 1
  BY DEF Observers
<1>1. /\ hi \in Int /\ lo \in Int /\ hi - lo + 1 \in Nat
      /\ \A i \in 1 .. hi - lo + 1 : hi + 1 - i \in lo .. hi
      /\ lo .. hi \subseteq Lowest .. Highest
  BY DEF Lowest, Highest
<1>2. \A i \in 1 .. hi - lo + 1 :
        fs[i] = Emit(sig, hi + 1 - i, code) /\ fs[i] \in DispatchFrame
  BY <1>1, StepType DEF Observers
<1>3. fs \in DispatchFrames
  <2>1. fs = [i \in 1 .. hi - lo + 1 |-> fs[i]]
    BY <1>1 DEF Observers
  <2>. HIDE DEF fs
  <2>. QED BY <1>0, <1>1, <1>2, <2>1, SMTT(30) DEF DispatchFrames
<1>4. ASSUME NEW p \in lo .. hi
      PROVE  Emit(sig, p, code) \in Calls(fs)
  <2>1. hi + 1 - p \in 1 .. hi - lo + 1 /\ hi + 1 - (hi + 1 - p) = p
    BY <1>1
  <2>2. fs[hi + 1 - p] = Emit(sig, p, code)
    BY <1>2, <2>1
  <2>. QED BY <1>0, <2>1, <2>2 DEF Calls, P!Calls
<1>5. ASSUME NEW i \in DOMAIN fs
      PROVE  fs[i] \in {Emit(sig, p, code) : p \in lo .. hi}
  BY <1>0, <1>1, <1>2
<1>6. Calls(fs) \subseteq {Emit(sig, p, code) : p \in lo .. hi}
  BY <1>5 DEF Calls, P!Calls
<1>7. {Emit(sig, p, code) : p \in lo .. hi} \subseteq Calls(fs)
  BY <1>4
<1>. QED BY <1>3, <1>6, <1>7
-----------------------------------------------------------------------------
(***************************************************************************)
(* The order of calls.                                                     *)
(***************************************************************************)
\* A call that neither tells of a message nor acknowledges it.
Harmless(f) ==
  /\ f.op \notin {"tell", "ack unhandled"}
  /\ f.op = "emit" => f.sig \notin MessageSignals
  /\ f.op = "transact" => f.code # Desc.ack

\* It clashes with none.
LEMMA HarmlessClash ==
  ASSUME NEW f, Harmless(f), NEW b
  PROVE  /\ ~Delivers(f) /\ ~Handles(f) /\ ~Looks(f) /\ ~Acks(f, Desc.ack)
         /\ ~Due(f, Desc.ack, b)
         /\ \A h : ~Clash(f, h, Desc.ack, b) /\ ~Clash(h, f, Desc.ack, b)
<1>1. ~Delivers(f) /\ ~Handles(f) /\ ~Looks(f) /\ ~Acks(f, Desc.ack)
  BY DEF Harmless, Delivers, Handles, Looks, Acks, Emits, MessageSignals
<1>2. ~Due(f, Desc.ack, b)
  BY <1>1 DEF Due
<1>. QED BY <1>1, <1>2 DEF Clash

\* Calls in order, followed by calls in order that none of them clashes with.
LEMMA ApartConcat ==
  ASSUME NEW fs \in DispatchFrames, NEW gs \in DispatchFrames, NEW a, NEW b,
         Apart(fs, a, b), Apart(gs, a, b),
         \A f \in Calls(fs), h \in Calls(gs) : ~Clash(f, h, a, b)
  PROVE  Apart(fs \o gs, a, b)
<1>. DEFINE s == fs \o gs
<1>. SUFFICES ASSUME NEW i \in DOMAIN s, NEW j \in DOMAIN s, i < j
              PROVE  ~Clash(s[i], s[j], a, b)
  BY DEF Apart
<1>1. /\ fs \in Seq(DispatchFrame) /\ gs \in Seq(DispatchFrame)
      /\ Len(fs) \in Nat /\ Len(gs) \in Nat /\ i \in Nat /\ j \in Nat
      /\ i >= 1 /\ j <= Len(fs) + Len(gs)
  BY DEF DispatchFrames
<1>2. \A k \in DOMAIN s : /\ k <= Len(fs) => k \in DOMAIN fs /\ s[k] = fs[k]
                          /\ k > Len(fs) => /\ k - Len(fs) \in DOMAIN gs
                                            /\ s[k] = gs[k - Len(fs)]
  BY <1>1
<1>. HIDE DEF s
<1>3. CASE j <= Len(fs)
  <2>1. i <= Len(fs)
    BY <1>1, <1>3
  <2>. QED BY <1>2, <1>3, <2>1 DEF Apart
<1>4. CASE i > Len(fs)
  <2>1. j > Len(fs) /\ i - Len(fs) < j - Len(fs)
    BY <1>1, <1>4
  <2>. QED BY <1>2, <1>4, <2>1 DEF Apart
<1>5. CASE i <= Len(fs) /\ j > Len(fs)
  <2>1. s[i] \in Calls(fs) /\ s[j] \in Calls(gs)
    BY <1>2, <1>5 DEF Calls, P!Calls
  <2>. QED BY <2>1
<1>. QED BY <1>1, <1>3, <1>4, <1>5

\* One call, or none.
LEMMA ApartOne ==
  ASSUME NEW a, NEW b
  PROVE  Apart(<<>>, a, b) /\ \A f : Apart(<<f>>, a, b)
<1>1. Apart(<<>>, a, b)
  BY DEF Apart
<1>2. ASSUME NEW f
      PROVE  Apart(<<f>>, a, b)
  <2>1. \A i, j \in DOMAIN <<f>> : ~(i < j)
    OBVIOUS
  <2>. QED BY <2>1 DEF Apart
<1>. QED BY <1>1, <1>2

\* Harmless calls.
LEMMA ApartHarmless ==
  ASSUME NEW fs, \A f \in Calls(fs) : Harmless(f), NEW b
  PROVE  Apart(fs, Desc.ack, b)
<1>1. \A i \in DOMAIN fs : Harmless(fs[i])
  BY DEF Calls, P!Calls
<1>. QED BY <1>1, HarmlessClash DEF Apart

\* The running call ends: no other call clashes with it.
LEMMA ApartTail ==
  ASSUME DispatchTypeOK, ~D!Idle, NEW a, NEW b, Apart(calls, a, b)
  PROVE  /\ Apart(Tail(calls), a, b)
         /\ \A h \in Calls(Tail(calls)) : ~Clash(D!Top, h, a, b)
<1>1. /\ calls \in Seq(DispatchFrame) /\ calls # <<>>
      /\ Len(calls) \in Nat /\ Len(calls) > 0 /\ D!Top = calls[1]
      /\ 1 \in DOMAIN calls
  BY DEF DispatchTypeOK, DispatchFrames, D!Idle, D!Top
<1>2. \A i \in DOMAIN Tail(calls) :
        /\ i \in Nat /\ i + 1 > 1
        /\ i + 1 \in DOMAIN calls /\ Tail(calls)[i] = calls[i + 1]
  BY <1>1
<1>3. Apart(Tail(calls), a, b)
  <2>. SUFFICES ASSUME NEW i \in DOMAIN Tail(calls), NEW j \in DOMAIN Tail(calls), i < j
                PROVE  ~Clash(Tail(calls)[i], Tail(calls)[j], a, b)
    BY DEF Apart
  <2>1. i + 1 < j + 1
    BY <1>2
  <2>. QED BY <1>2, <2>1 DEF Apart
<1>4. ASSUME NEW i \in DOMAIN Tail(calls)
      PROVE  ~Clash(D!Top, Tail(calls)[i], a, b)
  BY <1>1, <1>2 DEF Apart
<1>. QED BY <1>3, <1>4 DEF Calls, P!Calls

-----------------------------------------------------------------------------
(***************************************************************************)
(* Calls made while a message is delivered.                                *)
(***************************************************************************)
\* Calls of requests: the observers are told, then the binder driver.
LEMMA SendCallsAre ==
  ASSUME NEW code \in Nat, NEW ends \in SUBSET Callbacks
  PROVE  LET t == [Step("transact") EXCEPT !.code = code, !.ends = ends]
             os == Observers("request", Highest, Lowest, code)
         IN  /\ os \in DispatchFrames /\ t \in DispatchFrame
             /\ SendCalls(code, ends) = os \o <<t>>
             /\ SendCalls(code, ends) \in DispatchFrames
             /\ Calls(SendCalls(code, ends)) = Calls(os) \cup {t}
             /\ \A f \in Calls(os) : Harmless(f) /\ f.op = "emit"
             /\ t.op = "transact" /\ t.code = code
<1>. DEFINE t == [Step("transact") EXCEPT !.code = code, !.ends = ends]
            os == Observers("request", Highest, Lowest, code)
<1>1. t \in DispatchFrame /\ t.op = "transact" /\ t.code = code
  BY StepType DEF Step
<1>2. "request" \in Signals /\ Highest \in Lowest .. Highest
      /\ Lowest \in Lowest .. Highest /\ Lowest <= Highest
  BY DEF Signals, Highest, Lowest
<1>3. os \in DispatchFrames /\ Calls(os) = {Emit("request", p, code) : p \in Lowest .. Highest}
  BY <1>2, ObserversCalls
<1>4. \A p : Harmless(Emit("request", p, code)) /\ Emit("request", p, code).op = "emit"
  BY DEF Harmless, Emit, Step, MessageSignals, Kinds, Handling
<1>5. SendCalls(code, ends) = os \o <<t>>
  BY DEF SendCalls
<1>. HIDE DEF os, t
<1>6. os \o <<t>> \in DispatchFrames /\ Calls(os \o <<t>>) = Calls(os) \cup {t}
  BY <1>1, <1>3, OneCall, ConcatCalls
<1>. QED BY <1>1, <1>3, <1>4, <1>5, <1>6 DEF os, t

\* Requests other than an acknowledgement are harmless.
LEMMA RequestsHarmless ==
  ASSUME NEW code \in Nat, NEW ends \in SUBSET Callbacks
  PROVE  /\ SendCalls(code, ends) \in DispatchFrames
         /\ code # Desc.ack => \A f \in Calls(SendCalls(code, ends)) : Harmless(f)
<1>. DEFINE t == [Step("transact") EXCEPT !.code = code, !.ends = ends]
            os == Observers("request", Highest, Lowest, code)
<1>1. /\ SendCalls(code, ends) \in DispatchFrames
      /\ Calls(SendCalls(code, ends)) = Calls(os) \cup {t}
      /\ \A f \in Calls(os) : Harmless(f)
      /\ t.op = "transact" /\ t.code = code
  BY SendCallsAre
<1>. HIDE DEF os, t
<1>2. code # Desc.ack => Harmless(t)
  BY <1>1 DEF Harmless
<1>. QED BY <1>1, <1>2

\* Requests are in order.
LEMMA RequestsApart ==
  ASSUME NEW code \in Nat, NEW ends \in SUBSET Callbacks, NEW b
  PROVE  Apart(SendCalls(code, ends), Desc.ack, b)
<1>. DEFINE t == [Step("transact") EXCEPT !.code = code, !.ends = ends]
            os == Observers("request", Highest, Lowest, code)
<1>1. /\ os \in DispatchFrames /\ t \in DispatchFrame
      /\ SendCalls(code, ends) = os \o <<t>>
      /\ \A f \in Calls(os) : Harmless(f)
  BY SendCallsAre
<1>. HIDE DEF os, t
<1>2. Apart(os, Desc.ack, b) /\ Apart(<<t>>, Desc.ack, b) /\ <<t>> \in DispatchFrames
  BY <1>1, ApartHarmless, ApartOne, OneCall
<1>3. \A f \in Calls(os), h \in Calls(<<t>>) : ~Clash(f, h, Desc.ack, b)
  BY <1>1, HarmlessClash
<1>. QED BY <1>1, <1>2, <1>3, ApartConcat

\* The acknowledgement: one call sends it.
LEMMA AckCallsAre ==
  ASSUME radio \in RadioObject, NEW b
  PROVE  /\ AckCalls \in DispatchFrames /\ Apart(AckCalls, Desc.ack, b)
         /\ \A f \in Calls(AckCalls) : Harmless(f) \/ Acks(f, Desc.ack)
         /\ Desc.ack = 0 => Calls(AckCalls) = {}
         /\ Desc.ack # 0 => \E f \in Calls(AckCalls) : Acks(f, Desc.ack)
<1>1. CASE Desc.ack = 0
  BY <1>1, OneCall, ApartOne DEF AckCalls
<1>2. CASE Desc.ack # 0
  <2>1. Desc.ack \in Nat /\ {} \in SUBSET Callbacks
    BY DescType
  <2>2. AckCalls = SendCalls(Desc.ack, {})
    BY <1>2 DEF AckCalls
  <2>. DEFINE t == [Step("transact") EXCEPT !.code = Desc.ack, !.ends = {}]
              os == Observers("request", Highest, Lowest, Desc.ack)
  <2>3. /\ AckCalls \in DispatchFrames /\ Calls(AckCalls) = Calls(os) \cup {t}
        /\ \A f \in Calls(os) : Harmless(f)
        /\ t.op = "transact" /\ t.code = Desc.ack
    BY <2>1, <2>2, SendCallsAre
  <2>4. Apart(AckCalls, Desc.ack, b)
    BY <2>1, <2>2, RequestsApart
  <2>. HIDE DEF os, t
  <2>. QED BY <1>2, <2>3, <2>4 DEF Acks
<1>. QED BY <1>1, <1>2

\* What the procedures of a client, the users and transactions call.
LEMMA OtherCallsAre ==
  ASSUME radio \in RadioObject
  PROVE  /\ \A id : \A code \in Nat :
              /\ ClientCalls(id, code) \in DispatchFrames
              /\ \A f \in Calls(ClientCalls(id, code)) : Harmless(f)
         /\ UserCode \in DispatchFrames /\ \A f \in Calls(UserCode) : Harmless(f)
         /\ \A ends \in SUBSET Callbacks :
              /\ EndCalls(ends) \in DispatchFrames
              /\ \A f \in Calls(EndCalls(ends)) : Harmless(f)
<1>0. Lowest \in Lowest .. Highest
  BY DEF Lowest, Highest
<1>1. \A op \in {"base", "callback", "complete", "destroy"} :
        Step(op) \in DispatchFrame /\ Harmless(Step(op))
  BY StepType DEF DispatchOps, Step, Harmless
<1>2. ASSUME NEW sig \in {"client indication", "client connected", "client death"},
             NEW code \in Nat
      PROVE  Emit(sig, Lowest, code) \in DispatchFrame /\ Harmless(Emit(sig, Lowest, code))
  <2>1. sig \in Signals /\ Lowest \in Lowest .. Highest
    <3>1. sig \in Signals
      <4>1. /\ "client indication" \in Signals /\ "client connected" \in Signals
            /\ "client death" \in Signals
        BY DEF Signals
      <4>. QED BY <4>1
    <3>. QED BY <3>1, <1>0
  <2>2. Harmless(Emit(sig, Lowest, code))
    BY DEF Harmless, Emit, Step, MessageSignals, Kinds, Handling
  <2>. QED BY <2>1, <2>2, StepType
<1>3. ASSUME NEW f \in DispatchFrame, Harmless(f)
      PROVE  <<f>> \in DispatchFrames /\ \A h \in Calls(<<f>>) : Harmless(h)
  BY <1>3, OneCall
<1>4. ASSUME NEW f \in DispatchFrame, Harmless(f), NEW g \in DispatchFrame, Harmless(g)
      PROVE  <<f, g>> \in DispatchFrames /\ \A h \in Calls(<<f, g>>) : Harmless(h)
  <2>. DEFINE fs == <<f>>  gs == <<g>>
  <2>1. <<f, g>> = fs \o gs
    OBVIOUS
  <2>2. /\ fs \in DispatchFrames /\ gs \in DispatchFrames
        /\ Calls(fs) = {f} /\ Calls(gs) = {g}
    BY OneCall
  <2>. HIDE DEF fs, gs
  <2>3. fs \o gs \in DispatchFrames /\ Calls(fs \o gs) = {f, g}
    BY <2>2, ConcatCalls
  <2>. QED BY <1>4, <2>1, <2>3
<1>5. <<>> \in DispatchFrames /\ Calls(<<>>) = {}
  BY OneCall
<1>6. ASSUME NEW id, NEW code \in Nat
      PROVE  /\ ClientCalls(id, code) \in DispatchFrames
             /\ \A f \in Calls(ClientCalls(id, code)) : Harmless(f)
  <2>1. CASE id = "handle_ind"
    <3>1. ClientCalls(id, code) = <<Emit("client indication", Lowest, code)>>
      BY <2>1 DEF ClientCalls
    <3>. QED BY <3>1, <1>2, <1>3
  <2>2. CASE id = "handle_connected"
    <3>1. ClientCalls(id, code) = <<Emit("client connected", Lowest, 0), Step("base")>>
      BY <2>2 DEF ClientCalls
    <3>. QED BY <3>1, <1>1, <1>2, <1>4
  <2>3. CASE id = "handle_death"
    <3>1. ClientCalls(id, code) = <<Step("base"), Emit("client death", Lowest, 0)>>
      BY <2>3 DEF ClientCalls
    <3>. QED BY <3>1, <1>1, <1>2, <1>4
  <2>4. CASE id \in {"handle_ack", "handle_resp"}
    <3>1. ClientCalls(id, code) = <<Step("base")>>
      BY <2>4 DEF ClientCalls
    <3>. QED BY <3>1, <1>1, <1>3
  <2>5. CASE id \notin {"handle_ind", "handle_connected", "handle_death",
                        "handle_ack", "handle_resp"}
    <3>1. ClientCalls(id, code) = <<>>
      BY <2>5 DEF ClientCalls
    <3>. QED BY <3>1, <1>5
  <2>. QED BY <2>1, <2>2, <2>3, <2>4, <2>5
<1>7. UserCode \in DispatchFrames /\ \A f \in Calls(UserCode) : Harmless(f)
  BY <1>1, <1>3, <1>5 DEF UserCode
<1>8. ASSUME NEW ends \in SUBSET Callbacks
      PROVE  /\ EndCalls(ends) \in DispatchFrames
             /\ \A f \in Calls(EndCalls(ends)) : Harmless(f)
  <2>. DEFINE cs == IF "complete" \in ends THEN <<Step("complete")>> ELSE <<>>
              ds == IF "destroy" \in ends THEN <<Step("destroy")>> ELSE <<>>
  <2>1. /\ cs \in DispatchFrames /\ ds \in DispatchFrames
        /\ \A f \in Calls(cs) \cup Calls(ds) : Harmless(f)
    BY <1>1, <1>3, <1>5
  <2>2. EndCalls(ends) = cs \o ds
    BY DEF EndCalls
  <2>. HIDE DEF cs, ds
  <2>. QED BY <2>1, <2>2, ConcatCalls
<1>. QED BY <1>6, <1>7, <1>8
-----------------------------------------------------------------------------
(***************************************************************************)
(* The calls a message starts.                                             *)
(***************************************************************************)
\* Calls that tell all listeners of a message, and look for who took it.
Announces(fs, kind, code, type) ==
  /\ fs \in DispatchFrames
  /\ \A a, b : Apart(fs, a, b)
  /\ \A f \in Calls(fs) :
       /\ f.op \in {"emit", "connect", "base", "ack unhandled"}
       /\ f.op = "emit" => /\ f.sig \in {kind, HandlerSignal[kind]} /\ f.code = code
                           /\ f.sig \in Handling => ~IsConfig /\ f.p = Lowest
       /\ Looks(f) => type = "ack_exp" /\ ~IsConfig
  /\ \A p \in Lowest .. Highest : Emit(kind, p, code) \in Calls(fs)
  /\ ~IsConfig => Emit(HandlerSignal[kind], Lowest, code) \in Calls(fs)
  /\ type = "ack_exp" /\ ~IsConfig => \E f \in Calls(fs) : Looks(f)

\* Only emissions have a rank.
LEMMA RankOnly ==
  ASSUME NEW f, NEW h, NEW a, NEW b, f.op \in {"emit", "connect", "base"}
  PROVE  Clash(f, h, a, b) => Delivers(f) /\ Delivers(h) /\ ~(Rank(f) < Rank(h))
BY DEF Clash, Looks, Due, Acks

\* Observers are told by priority.
LEMMA ObserversApart ==
  ASSUME NEW sig, NEW hi \in Lowest .. Highest, NEW lo \in Lowest .. Highest,
         lo <= hi, NEW code, NEW a, NEW b
  PROVE  sig \notin Handling => Apart(Observers(sig, hi, lo, code), a, b)
<1>. SUFFICES ASSUME sig \notin Handling,
                     NEW i \in 1 .. hi - lo + 1, NEW j \in 1 .. hi - lo + 1, i < j
              PROVE  ~Clash(Emit(sig, hi + 1 - i, code), Emit(sig, hi + 1 - j, code), a, b)
  BY DEF Apart, Observers
<1>1. /\ hi + 1 - i \in Int /\ hi + 1 - j \in Int /\ hi + 1 - i > hi + 1 - j
      /\ hi + 1 - i <= Highest /\ hi + 1 - j >= Lowest
  BY DEF Lowest, Highest
<1>2. /\ \A p : Emit(sig, p, code).op = "emit" /\ Emit(sig, p, code).sig = sig
      /\ \A p : Emit(sig, p, code).p = p
  BY DEF Emit, Step
<1>3. \A p, q \in Int : /\ p > q /\ p <= Highest /\ q >= Lowest
                        => Rank(Emit(sig, p, code)) < Rank(Emit(sig, q, code))
  BY <1>2 DEF Rank, Default, Highest, Lowest
<1>. QED BY <1>1, <1>2, <1>3, RankOnly

\* A message's kind and its handlers' signal are signals.
LEMMA KindSignals ==
  ASSUME NEW kind \in Kinds
  PROVE  /\ kind \in Signals /\ kind \notin Handling /\ HandlerSignal[kind] \in Signals
         /\ HandlerSignal[kind] \in Handling /\ HandlerSignal[kind] # kind
         /\ kind \in MessageSignals /\ HandlerSignal[kind] \in MessageSignals
<1>1. CASE kind = "indication"
  <2>1. HandlerSignal[kind] = "handle indication"
    BY <1>1 DEF HandlerSignal
  <2>. QED BY <1>1, <2>1 DEF Kinds, Handling, Signals, MessageSignals
<1>2. CASE kind = "response"
  <2>1. HandlerSignal[kind] = "handle response"
    BY <1>2 DEF HandlerSignal
  <2>. QED BY <1>2, <2>1 DEF Kinds, Handling, Signals, MessageSignals
<1>. QED BY <1>1, <1>2 DEF Kinds

\* The ranks of the observers above some priority, and of the others.
LEMMA ObserverRank ==
  ASSUME NEW kind \in Kinds, NEW p \in Lowest .. Highest, NEW code
  PROVE  /\ p > Default => Rank(Emit(kind, p, code)) < Highest - Default
         /\ p <= Default => Rank(Emit(kind, p, code)) > Highest - Default
         /\ Rank(Emit(HandlerSignal[kind], Lowest, code)) = Highest - Default
<1>1. kind \notin Handling /\ HandlerSignal[kind] \in Handling
  BY KindSignals
<1>2. Rank(Emit(HandlerSignal[kind], Lowest, code)) = Highest - Default
  BY <1>1 DEF Rank, Emit, Step
<1>3. Emit(kind, p, code).sig = kind /\ Emit(kind, p, code).p = p
  BY DEF Emit, Step
<1>4. Rank(Emit(kind, p, code)) = IF p > Default THEN Highest - p ELSE Highest + 1 - p
  BY <1>1, <1>3 DEF Rank
<1>5. /\ p \in Int /\ Highest = 7 /\ Default = 2 /\ p >= 0 /\ p <= 7
  BY DEF Default, Highest, Lowest
<1>6. p > Default => Rank(Emit(kind, p, code)) < Highest - Default
  BY <1>4, <1>5
<1>7. p <= Default => Rank(Emit(kind, p, code)) > Highest - Default
  BY <1>4, <1>5
<1>. QED BY <1>2, <1>6, <1>7

\* The observers of high priority, a call between them and the others.
LEMMA Announcement ==
  ASSUME radio \in RadioObject, NEW kind \in Kinds, NEW code \in Nat, NEW type,
         NEW ms \in DispatchFrames, \A a, b : Apart(ms, a, b),
         \A f \in Calls(ms) :
           \/ f.op \in {"connect", "base"}
           \/ ~IsConfig /\ f = Emit(HandlerSignal[kind], Lowest, code),
         ~IsConfig => Emit(HandlerSignal[kind], Lowest, code) \in Calls(ms),
         NEW ls \in DispatchFrames, \A a, b : Apart(ls, a, b),
         \A f \in Calls(ls) : Looks(f) /\ type = "ack_exp" /\ ~IsConfig,
         type = "ack_exp" /\ ~IsConfig => Calls(ls) # {}
  PROVE  Announces(Observers(kind, Highest, Default + 1, code) \o ms
                     \o Observers(kind, Default, Lowest, code) \o ls,
                   kind, code, type)
<1>. DEFINE hs == Observers(kind, Highest, Default + 1, code)
            os == Observers(kind, Default, Lowest, code)
            hand == Emit(HandlerSignal[kind], Lowest, code)
<1>1. /\ Highest \in Lowest .. Highest /\ Default + 1 \in Lowest .. Highest
      /\ Default \in Lowest .. Highest /\ Lowest \in Lowest .. Highest
      /\ Default + 1 <= Highest /\ Lowest <= Default
      /\ Lowest .. Highest = (Default + 1 .. Highest) \cup (Lowest .. Default)
      /\ \A p \in Lowest .. Highest : p \in Int
      /\ \A p \in Default + 1 .. Highest : p > Default
      /\ \A p \in Lowest .. Default : p <= Default
  BY DEF Highest, Default, Lowest
<1>2. /\ hs \in DispatchFrames /\ os \in DispatchFrames
      /\ Calls(hs) = {Emit(kind, p, code) : p \in Default + 1 .. Highest}
      /\ Calls(os) = {Emit(kind, p, code) : p \in Lowest .. Default}
  BY <1>1, KindSignals, ObserversCalls
<1>3. (\A a, b : Apart(hs, a, b)) /\ (\A a, b : Apart(os, a, b))
  BY <1>1, KindSignals, ObserversApart
<1>4. /\ \A f \in Calls(hs) : f.op = "emit" /\ Rank(f) < Highest - Default
      /\ \A f \in Calls(os) : f.op = "emit" /\ Rank(f) > Highest - Default
      /\ \A f \in Calls(hs) \cup Calls(os) : f.op = "emit" /\ f.sig = kind /\ f.code = code
  <2>1. \A p : /\ Emit(kind, p, code).op = "emit" /\ Emit(kind, p, code).sig = kind
               /\ Emit(kind, p, code).code = code
    BY DEF Emit, Step
  <2>. QED BY <1>1, <1>2, <2>1, ObserverRank
<1>5. hand.op = "emit" /\ hand.sig = HandlerSignal[kind] /\ hand.code = code
      /\ hand.p = Lowest
  BY DEF Emit, Step
<1>6. Rank(hand) = Highest - Default
  BY <1>1, ObserverRank
<1>. HIDE DEF hs, os, hand
<1>7. /\ hs \o ms \in DispatchFrames /\ Calls(hs \o ms) = Calls(hs) \cup Calls(ms)
      /\ \A a, b : Apart(hs \o ms, a, b)
  <2>1. ASSUME NEW f \in Calls(hs), NEW h \in Calls(ms), NEW a, NEW b
        PROVE  ~Clash(f, h, a, b)
    <3>1. CASE h.op \in {"connect", "base"}
      BY <1>4, <3>1, RankOnly DEF Delivers, Emits
    <3>2. CASE h = hand
      <4>1. Rank(f) < Rank(h)
        BY <1>4, <1>6, <3>2
      <4>. QED BY <1>4, <4>1, RankOnly
    <3>. QED BY <3>1, <3>2 DEF hand
  <2>2. \A a, b : Apart(hs \o ms, a, b)
    BY <1>2, <1>3, <2>1, ApartConcat
  <2>. QED BY <1>2, <2>2, ConcatCalls
<1>8. /\ hs \o ms \o os \in DispatchFrames
      /\ Calls(hs \o ms \o os) = Calls(hs) \cup Calls(ms) \cup Calls(os)
      /\ \A a, b : Apart(hs \o ms \o os, a, b)
  <2>1. ASSUME NEW f \in Calls(hs) \cup Calls(ms), NEW h \in Calls(os), NEW a, NEW b
        PROVE  ~Clash(f, h, a, b)
    <3>1. CASE f.op \in {"connect", "base"}
      BY <3>1, RankOnly DEF Delivers, Emits
    <3>2. CASE f \in Calls(hs)
      <4>1. Rank(f) \in Int /\ Rank(h) \in Int
        <5>1. \A p \in Lowest .. Highest : Rank(Emit(kind, p, code)) \in Int
          BY <1>1 DEF Rank, Emit, Step, Highest, Default
        <5>. QED BY <1>1, <1>2, <3>2, <5>1
      <4>2. Rank(f) < Rank(h)
        BY <1>4, <3>2, <4>1 DEF Highest, Default
      <4>. QED BY <1>4, <3>2, <4>2, RankOnly
    <3>3. CASE f = hand
      <4>1. Rank(f) < Rank(h)
        BY <1>4, <1>6, <3>3 DEF Highest, Default
      <4>. QED BY <1>5, <3>3, <4>1, RankOnly
    <3>. QED BY <3>1, <3>2, <3>3 DEF hand
  <2>2. \A a, b : Apart(hs \o ms \o os, a, b)
    BY <1>2, <1>3, <1>7, <2>1, ApartConcat
  <2>. QED BY <1>2, <1>7, <2>2, ConcatCalls
<1>9. /\ hs \o ms \o os \o ls \in DispatchFrames
      /\ Calls(hs \o ms \o os \o ls) = Calls(hs) \cup Calls(ms) \cup Calls(os) \cup Calls(ls)
      /\ \A a, b : Apart(hs \o ms \o os \o ls, a, b)
  <2>1. ASSUME NEW f \in Calls(hs) \cup Calls(ms) \cup Calls(os), NEW h \in Calls(ls),
               NEW a, NEW b
        PROVE  ~Clash(f, h, a, b)
    <3>1. f.op \in {"emit", "connect", "base"}
      BY <1>4, <1>5 DEF hand
    <3>2. ~Delivers(h)
      BY DEF Looks, Delivers, Emits
    <3>. QED BY <3>1, <3>2, RankOnly
  <2>2. \A a, b : Apart(hs \o ms \o os \o ls, a, b)
    BY <1>8, <2>1, ApartConcat
  <2>. QED BY <1>8, <2>2, ConcatCalls
<1>10. ASSUME NEW f \in Calls(hs \o ms \o os \o ls)
       PROVE  /\ f.op \in {"emit", "connect", "base", "ack unhandled"}
              /\ f.op = "emit" => /\ f.sig \in {kind, HandlerSignal[kind]} /\ f.code = code
                                  /\ f.sig \in Handling => ~IsConfig /\ f.p = Lowest
              /\ Looks(f) => type = "ack_exp" /\ ~IsConfig
  <2>1. CASE f \in Calls(hs) \cup Calls(os)
    BY <1>4, <2>1, KindSignals DEF Looks
  <2>2. CASE f \in Calls(ms)
    BY <1>5, <2>2 DEF Looks, hand
  <2>3. CASE f \in Calls(ls)
    BY <2>3 DEF Looks
  <2>. QED BY <1>9, <2>1, <2>2, <2>3
<1>11. \A p \in Lowest .. Highest : Emit(kind, p, code) \in Calls(hs \o ms \o os \o ls)
  BY <1>1, <1>2, <1>9
<1>. QED BY <1>9, <1>10, <1>11 DEF Announces, hs, os

\* What looks for a handler that has taken the message.
LEMMA LookCalls ==
  ASSUME NEW type
  PROVE  LET ls == IF type = "ack_exp" THEN <<Step("ack unhandled")>> ELSE <<>>
         IN  /\ ls \in DispatchFrames /\ \A a, b : Apart(ls, a, b)
             /\ \A f \in Calls(ls) : Looks(f) /\ type = "ack_exp"
             /\ type = "ack_exp" => Calls(ls) # {}
<1>1. Step("ack unhandled") \in DispatchFrame /\ Looks(Step("ack unhandled"))
  BY StepType DEF DispatchOps, Looks, Step
<1>2. CASE type = "ack_exp"
  BY <1>1, <1>2, OneCall, ApartOne
<1>3. CASE type # "ack_exp"
  BY <1>3, OneCall, ApartOne
<1>. QED BY <1>2, <1>3

\* radio_instance_indication
LEMMA IndicationAnnounces ==
  ASSUME radio \in RadioObject, ~IsConfig, NEW code \in Nat, NEW type
  PROVE  Announces(IndicationCalls(code, type), "indication", code, type)
<1>. DEFINE cs == IF code = Desc.ril_connected THEN <<Step("connect")>> ELSE <<>>
            hand == Emit("handle indication", Lowest, code)
            ls == IF type = "ack_exp" THEN <<Step("ack unhandled")>> ELSE <<>>
            ms == cs \o <<hand>>
            hs == Observers("indication", Highest, Default + 1, code)
            os == Observers("indication", Default, Lowest, code)
<1>1. /\ ls \in DispatchFrames /\ \A a, b : Apart(ls, a, b)
      /\ \A f \in Calls(ls) : Looks(f) /\ type = "ack_exp"
      /\ type = "ack_exp" => Calls(ls) # {}
  BY LookCalls
<1>2. HandlerSignal["indication"] = "handle indication" /\ "indication" \in Kinds
  BY DEF HandlerSignal, Kinds
<1>3. hand \in DispatchFrame /\ Step("connect") \in DispatchFrame
      /\ Step("connect").op = "connect"
  <2>1. Lowest \in Lowest .. Highest
    BY DEF Lowest, Highest
  <2>2. "handle indication" \in Signals
    BY <1>2, KindSignals
  <2>3. hand \in DispatchFrame
    BY <2>1, <2>2, StepType
  <2>. QED BY <2>3, StepType DEF Step, DispatchOps
<1>4. /\ cs \in DispatchFrames /\ \A a, b : Apart(cs, a, b)
      /\ \A f \in Calls(cs) : f.op = "connect"
  BY <1>3, OneCall, ApartOne
<1>5. /\ <<hand>> \in DispatchFrames /\ Calls(<<hand>>) = {hand}
      /\ \A a, b : Apart(<<hand>>, a, b)
  BY <1>3, OneCall, ApartOne
<1>. HIDE DEF cs, hand, ls
<1>6. ms \in DispatchFrames /\ Calls(ms) = Calls(cs) \cup {hand}
  BY <1>4, <1>5, ConcatCalls
<1>7. \A a, b : Apart(ms, a, b)
  <2>1. ASSUME NEW f \in Calls(cs), NEW h, NEW a, NEW b
        PROVE  ~Clash(f, h, a, b)
    BY <1>4, RankOnly DEF Delivers, Emits
  <2>. QED BY <1>4, <1>5, <2>1, ApartConcat
<1>8. IndicationCalls(code, type) = hs \o ms \o os \o ls
  <2>1. IndicationCalls(code, type) = hs \o cs \o <<hand>> \o os \o ls
    BY DEF IndicationCalls, cs, hand, ls
  <2>2. hs \in DispatchFrames
    <3>1. /\ Highest \in Lowest .. Highest /\ Default + 1 \in Lowest .. Highest
          /\ Default + 1 <= Highest
      BY DEF Highest, Default, Lowest
    <3>. QED BY <1>2, <3>1, KindSignals, ObserversCalls
  <2>. HIDE DEF hs, os
  <2>3. \A x, y, z \in DispatchFrames : x \o y \o z = x \o (y \o z)
    BY DEF DispatchFrames
  <2>. QED BY <1>4, <1>5, <2>1, <2>2, <2>3
<1>. HIDE DEF ms
<1>9. hand = Emit(HandlerSignal["indication"], Lowest, code)
  BY <1>2 DEF hand
<1>10. /\ \A f \in Calls(ms) :
            \/ f.op \in {"connect", "base"}
            \/ ~IsConfig /\ f = Emit(HandlerSignal["indication"], Lowest, code)
       /\ Emit(HandlerSignal["indication"], Lowest, code) \in Calls(ms)
  BY <1>4, <1>6, <1>9
<1>11. Announces(hs \o ms \o os \o ls, "indication", code, type)
  BY <1>1, <1>2, <1>6, <1>7, <1>10, Announcement
<1>. QED BY <1>8, <1>11

\* radio_instance_response
LEMMA ResponseAnnounces ==
  ASSUME radio \in RadioObject, ~IsConfig, NEW code \in Nat, NEW type
  PROVE  Announces(ResponseCalls(code, type), "response", code, type)
<1>. DEFINE hand == Emit("handle response", Lowest, code)
            ls == IF type = "ack_exp" THEN <<Step("ack unhandled")>> ELSE <<>>
            ms == <<hand>>
<1>1. /\ ls \in DispatchFrames /\ \A a, b : Apart(ls, a, b)
      /\ \A f \in Calls(ls) : Looks(f) /\ type = "ack_exp"
      /\ type = "ack_exp" => Calls(ls) # {}
  BY LookCalls
<1>2. HandlerSignal["response"] = "handle response" /\ "response" \in Kinds
  BY DEF HandlerSignal, Kinds
<1>3. hand \in DispatchFrame
  <2>1. Lowest \in Lowest .. Highest
    BY DEF Lowest, Highest
  <2>2. "handle response" \in Signals
    BY <1>2, KindSignals
  <2>. QED BY <2>1, <2>2, StepType
<1>4. ms \in DispatchFrames /\ Calls(ms) = {hand} /\ \A a, b : Apart(ms, a, b)
  BY <1>3, OneCall, ApartOne
<1>5. ResponseCalls(code, type)
        = Observers("response", Highest, Default + 1, code) \o ms
            \o Observers("response", Default, Lowest, code) \o ls
  BY DEF ResponseCalls
<1>. HIDE DEF hand, ls, ms
<1>. QED BY <1>1, <1>2, <1>4, <1>5, Announcement DEF hand

\* radio_config_response
LEMMA ConfigResponseAnnounces ==
  ASSUME radio \in RadioObject, IsConfig, NEW code \in Nat, NEW type
  PROVE  Announces(ConfigResponseCalls(code), "response", code, type)
<1>. DEFINE ms == <<Step("base")>>
            hs == Observers("response", Highest, Default + 1, code)
            os == Observers("response", Default, Lowest, code)
<1>1. "response" \in Kinds
  BY DEF Kinds
<1>2. Step("base") \in DispatchFrame /\ Step("base").op = "base"
  BY StepType DEF Step, DispatchOps
<1>3. /\ ms \in DispatchFrames /\ \A a, b : Apart(ms, a, b)
      /\ \A f \in Calls(ms) : f.op = "base"
  BY <1>2, OneCall, ApartOne
<1>4. /\ <<>> \in DispatchFrames /\ Calls(<<>>) = {} /\ \A a, b : Apart(<<>>, a, b)
  BY OneCall, ApartOne
<1>. HIDE DEF ms
<1>5. Announces(hs \o ms \o os \o <<>>, "response", code, type)
  BY <1>1, <1>3, <1>4, Announcement
<1>6. hs \o ms \o os \o <<>> = hs \o ms \o os
  <2>1. hs \in DispatchFrames /\ os \in DispatchFrames
    <3>1. /\ Highest \in Lowest .. Highest /\ Default + 1 \in Lowest .. Highest
          /\ Default + 1 <= Highest /\ Default \in Lowest .. Highest
          /\ Lowest \in Lowest .. Highest /\ Lowest <= Default
      BY DEF Highest, Default, Lowest
    <3>. QED BY <1>1, <3>1, KindSignals, ObserversCalls
  <2>. HIDE DEF hs, os
  <2>2. hs \o ms \o os \in DispatchFrames
    BY <1>3, <2>1, ConcatCalls
  <2>. QED BY <2>2 DEF DispatchFrames
<1>7. ConfigResponseCalls(code) = hs \o ms \o os
  BY DEF ConfigResponseCalls, ms
<1>. QED BY <1>5, <1>6, <1>7

\* radio_config_indication
LEMMA ConfigIndicationAnnounces ==
  ASSUME radio \in RadioObject, IsConfig, NEW code \in Nat, NEW type
  PROVE  Announces(Observers("indication", Highest, Lowest, code), "indication", code, type)
<1>. DEFINE fs == Observers("indication", Highest, Lowest, code)
<1>1. /\ Highest \in Lowest .. Highest /\ Lowest \in Lowest .. Highest
      /\ Lowest <= Highest /\ "indication" \in Kinds
  BY DEF Highest, Lowest, Kinds
<1>2. /\ fs \in DispatchFrames
      /\ Calls(fs) = {Emit("indication", p, code) : p \in Lowest .. Highest}
      /\ \A a, b : Apart(fs, a, b)
  BY <1>1, KindSignals, ObserversCalls, ObserversApart
<1>3. \A p : /\ Emit("indication", p, code).op = "emit"
             /\ Emit("indication", p, code).sig = "indication"
             /\ Emit("indication", p, code).code = code
  BY DEF Emit, Step
<1>. HIDE DEF fs
<1>. QED BY <1>1, <1>2, <1>3, KindSignals DEF Announces, Looks, fs
-----------------------------------------------------------------------------
(***************************************************************************)
(* Types.                                                                  *)
(***************************************************************************)

\* A new message.
NewMessage(m, kind, code, type, status) ==
  /\ m \in MessageRecord /\ m.kind = kind /\ m.code = code /\ m.type = type
  /\ m.status = status /\ m.handled = FALSE /\ m.told = <<>>
  /\ m.acks = 0 /\ m.present = Len(subs)

LEMMA MessageType ==
  ASSUME DispatchTypeOK,
         NEW kind \in MessageKinds, NEW code \in Nat, NEW type \in MessageTypes,
         NEW status \in Statuses
  PROVE  NewMessage(Message(kind, code, type, status), kind, code, type, status)
<1>1. Len(subs) \in Nat
  BY DEF DispatchTypeOK
<1>2. <<>> \in Seq(STRING \cup Reserved)
  OBVIOUS
<1>. QED BY <1>1, <1>2 DEF Message, NoMessage, MessageRecord, NewMessage

\* What an event makes of the calls, when nothing is in progress.
LEMMA EventCalls ==
  ASSUME DispatchTypeOK, D!Idle, NEW fs \in DispatchFrames, D!Enter(fs)
  PROVE  calls' = fs /\ calls' \in DispatchFrames
<1>1. calls = <<>> /\ calls' = fs \o <<>>
  BY DEF D!Idle, D!Enter
<1>2. fs \o <<>> = fs
  BY DEF DispatchFrames
<1>. QED BY <1>1, <1>2

\* Somebody else than a listener is told.
LEMMA ToldType ==
  ASSUME DispatchTypeOK, NEW n \in STRING \cup Reserved
  PROVE  [msg EXCEPT !.told = Append(@, n)] \in MessageRecord
<1>1. Append(msg.told, n) \in Seq(STRING \cup Reserved)
  BY DEF DispatchTypeOK, MessageRecord
<1>. QED BY <1>1 DEF DispatchTypeOK, MessageRecord

\* The object when a listener uses it, or when it gets connected.
LEMMA RadioType ==
  ASSUME DispatchTypeOK
  PROVE  /\ [radio EXCEPT !.changes = @ + 1] \in RadioObject
         /\ [radio EXCEPT !.connected = TRUE] \in RadioObject
         /\ [radio EXCEPT !.dead = TRUE, !.connected = FALSE] \in RadioObject
         /\ \A e \in BOOLEAN : [radio EXCEPT !.enabled = e] \in RadioObject
         /\ \A ends \in SUBSET Callbacks :
              [radio EXCEPT !.txs = Append(@, ends)] \in RadioObject
         /\ radio.txs # <<>> =>
              /\ [radio EXCEPT !.txs = Tail(@)] \in RadioObject
              /\ [radio EXCEPT !.txs[Len(radio.txs)] = @ \ {"complete"}] \in RadioObject
              /\ Head(radio.txs) \in SUBSET Callbacks
<1>1. radio \in RadioObject /\ radio.txs \in Seq(SUBSET Callbacks)
  BY DEF DispatchTypeOK, RadioObject
<1>2. \A ends \in SUBSET Callbacks : Append(radio.txs, ends) \in Seq(SUBSET Callbacks)
  BY <1>1
<1>3. ASSUME radio.txs # <<>>
      PROVE  /\ Tail(radio.txs) \in Seq(SUBSET Callbacks)
             /\ Head(radio.txs) \in SUBSET Callbacks
             /\ [radio.txs EXCEPT ![Len(radio.txs)] = @ \ {"complete"}] \in Seq(SUBSET Callbacks)
  BY <1>1, <1>3
<1>4. /\ [radio EXCEPT !.changes = @ + 1] \in RadioObject
      /\ [radio EXCEPT !.connected = TRUE] \in RadioObject
      /\ [radio EXCEPT !.dead = TRUE, !.connected = FALSE] \in RadioObject
  <2>1. radio.changes + 1 \in Nat
    BY <1>1 DEF RadioObject
  <2>2. [radio EXCEPT !.changes = @ + 1] \in RadioObject
    BY <1>1, <2>1 DEF RadioObject
  <2>3. [radio EXCEPT !.connected = TRUE] \in RadioObject
    BY <1>1 DEF RadioObject
  <2>4. [radio EXCEPT !.dead = TRUE, !.connected = FALSE] \in RadioObject
    BY <1>1 DEF RadioObject
  <2>. QED BY <2>2, <2>3, <2>4
<1>8. ASSUME NEW e \in BOOLEAN
      PROVE  [radio EXCEPT !.enabled = e] \in RadioObject
  BY <1>1 DEF RadioObject
<1>5. ASSUME NEW txs \in Seq(SUBSET Callbacks)
      PROVE  [radio EXCEPT !.txs = txs] \in RadioObject
  BY <1>1 DEF RadioObject
<1>6. \A ends \in SUBSET Callbacks : [radio EXCEPT !.txs = Append(@, ends)] \in RadioObject
  BY <1>2, <1>5
<1>7. ASSUME radio.txs # <<>>
      PROVE  /\ [radio EXCEPT !.txs = Tail(@)] \in RadioObject
             /\ [radio EXCEPT !.txs[Len(radio.txs)] = @ \ {"complete"}] \in RadioObject
  <2>1. [radio EXCEPT !.txs[Len(radio.txs)] = @ \ {"complete"}]
          = [radio EXCEPT !.txs = [radio.txs EXCEPT ![Len(radio.txs)] = @ \ {"complete"}]]
    BY <1>1
  <2>. QED BY <1>3, <1>5, <1>7, <2>1
<1>. QED BY <1>3, <1>4, <1>6, <1>7, <1>8

\* A listener comes.
LEMMA ConnectType ==
  ASSUME DispatchTypeOK, NEW s \in Listeners, Connect(s)
  PROVE  /\ subs' \in Seq(Subscriber) /\ Len(subs') = Len(subs) + 1
         /\ \A i \in DOMAIN subs : i \in DOMAIN subs' /\ subs'[i] = subs[i]
         /\ subs'[Len(subs) + 1] = s
<1>1. s \in Subscriber
  BY DEF Listeners, Subscriber
<1>. QED BY <1>1 DEF DispatchTypeOK, Connect

\* A listener goes.
LEMMA DisconnectType ==
  ASSUME DispatchTypeOK, NEW id, Disconnect(id)
  PROVE  /\ subs' \in Seq(Subscriber) /\ Len(subs') = Len(subs)
         /\ DOMAIN subs' = DOMAIN subs
         /\ \A i \in DOMAIN subs :
              /\ subs'[i].id = subs[i].id /\ subs'[i].sig = subs[i].sig
              /\ subs'[i].p = subs[i].p /\ subs'[i].code = subs[i].code
              /\ subs'[i].handles = subs[i].handles
              /\ subs'[i].on => subs[i].on
<1>1. subs \in Seq(Subscriber) /\ Len(subs) \in Nat /\ DOMAIN subs = 1 .. Len(subs)
  BY DEF DispatchTypeOK
<1>2. subs' = [i \in 1 .. Len(subs) |-> [subs[i] EXCEPT !.on = @ /\ subs[i].id # id]]
  BY <1>1 DEF Disconnect
<1>3. ASSUME NEW i \in 1 .. Len(subs)
      PROVE  /\ subs[i] \in Subscriber
             /\ subs'[i] = [subs[i] EXCEPT !.on = @ /\ subs[i].id # id]
             /\ subs'[i] \in Subscriber
             /\ subs'[i].id = subs[i].id /\ subs'[i].sig = subs[i].sig
             /\ subs'[i].p = subs[i].p /\ subs'[i].code = subs[i].code
             /\ subs'[i].handles = subs[i].handles
             /\ subs'[i].on => subs[i].on
  <2>1. subs[i] \in Subscriber
    BY <1>1
  <2>2. subs'[i] = [subs[i] EXCEPT !.on = @ /\ subs[i].id # id]
    BY <1>2
  <2>3. (subs[i].on /\ subs[i].id # id) \in BOOLEAN
    OBVIOUS
  <2>. QED BY <2>1, <2>2, <2>3 DEF Subscriber
<1>4. subs' \in Seq(Subscriber) /\ Len(subs') = Len(subs) /\ DOMAIN subs' = 1 .. Len(subs)
  <2>1. /\ subs' = [i \in 1 .. Len(subs) |-> subs'[i]]
        /\ \A i \in 1 .. Len(subs) : subs'[i] \in Subscriber
        /\ Len(subs) \in Nat /\ DOMAIN subs' = 1 .. Len(subs)
    BY <1>1, <1>2, <1>3
  <2>2. subs' \in Seq(Subscriber)
    BY <2>1
  <2>. QED BY <1>1, <2>1, <2>2
<1>. QED BY <1>1, <1>3, <1>4
-----------------------------------------------------------------------------
(***************************************************************************)
(* Steps that tell no listener.                                            *)
(***************************************************************************)

\* What most steps leave as it was: the object, what the message is, and the
\* listeners, apart from being turned off.
Kept ==
  /\ radio'.api = radio.api /\ radio'.dead = radio.dead
  /\ msg'.kind = msg.kind /\ msg'.code = msg.code /\ msg'.type = msg.type
  /\ msg'.status = msg.status /\ msg'.present = msg.present
  /\ \A i \in DOMAIN subs :
       /\ i \in DOMAIN subs' /\ (subs'[i].on => subs[i].on)
       /\ subs'[i].id = subs[i].id /\ subs'[i].sig = subs[i].sig
       /\ subs'[i].p = subs[i].p /\ subs'[i].code = subs[i].code

\* An object remains what it is.
LEMMA ApiKept ==
  ASSUME radio'.api = radio.api
  PROVE  Desc' = Desc /\ IsConfig' = IsConfig
BY DEF Desc, IsConfig

\* Nobody who listens is told more when somebody else is told.
LEMMA SameTellings ==
  ASSUME DispatchTypeOK, NEW i \in DOMAIN subs, subs'[i].id = subs[i].id,
         \/ msg'.told = msg.told
         \/ \E n : n # subs[i].id /\ msg'.told = Append(msg.told, n)
  PROVE  Tellings(i)' = Tellings(i)
<1>1. CASE msg'.told = msg.told
  BY <1>1 DEF Tellings
<1>2. ASSUME NEW n, n # subs[i].id, msg'.told = Append(msg.told, n)
      PROVE  Tellings(i)' = Tellings(i)
  <2>1. /\ msg.told \in Seq(STRING \cup Reserved) /\ Len(msg.told) \in Nat
        /\ DOMAIN msg.told = 1 .. Len(msg.told)
    BY DEF DispatchTypeOK, MessageRecord
  <2>2. /\ DOMAIN msg'.told = 1 .. Len(msg.told) + 1 /\ msg'.told[Len(msg.told) + 1] = n
        /\ \A k \in 1 .. Len(msg.told) : msg'.told[k] = msg.told[k]
    BY <1>2, <2>1
  <2>4. \A k : k \in Tellings(i)' <=> k \in Tellings(i)
    <3>1. ASSUME NEW k
          PROVE  k \in Tellings(i)' <=> k \in Tellings(i)
      <4>1. k \in Tellings(i) <=> k \in 1 .. Len(msg.told) /\ msg.told[k] = subs[i].id
        BY <2>1 DEF Tellings
      <4>2. k \in Tellings(i)' <=> k \in 1 .. Len(msg.told) + 1 /\ msg'.told[k] = subs[i].id
        BY <2>2 DEF Tellings
      <4>3. k \in 1 .. Len(msg.told) + 1 <=> k \in 1 .. Len(msg.told) \/ k = Len(msg.told) + 1
        BY <2>1
      <4>. QED BY <1>2, <2>1, <2>2, <4>1, <4>2, <4>3
    <3>. QED BY <3>1
  <2>. QED BY <2>4
<1>. QED BY <1>1, <1>2

\* The names of the listeners are nobody else's.
LEMMA NotReserved ==
  ASSUME DispatchTypeOK, NEW i \in DOMAIN subs
  PROVE  subs[i].id \notin Reserved
<1>1. subs[i] \in Subscriber
  BY DEF DispatchTypeOK
<1>. QED BY <1>1 DEF Subscriber

\* Who is concerned by the message, in what order, and who awaits it.
LEMMA KeptConcerned ==
  ASSUME DispatchTypeOK, DispatchTypeOK', Listened, Kept
  PROVE  /\ Delivered' = Delivered /\ Expects' = Expects
         /\ Concerned \subseteq DOMAIN subs /\ Concerned' \subseteq Concerned
<1>1. msg.present <= Len(subs) /\ msg.present \in Nat /\ Len(subs) \in Nat
      /\ DOMAIN subs = 1 .. Len(subs)
  BY DEF Listened, DispatchTypeOK, MessageRecord
<1>2. Delivered' = Delivered /\ Expects' = Expects
  BY ApiKept DEF Kept, Delivered, Expects
<1>3. ASSUME NEW i \in Concerned'
      PROVE  i \in Concerned
  <2>1. i \in DOMAIN subs' /\ i <= msg'.present
    BY DEF Concerned
  <2>2. i \in Nat /\ i >= 1
    BY <2>1 DEF DispatchTypeOK
  <2>3. i \in DOMAIN subs
    BY <1>1, <2>1, <2>2 DEF Kept
  <2>. QED BY <2>3 DEF Concerned, Kept
<1>4. Concerned \subseteq DOMAIN subs
  BY DEF Concerned
<1>. QED BY <1>2, <1>3, <1>4

LEMMA KeptOrder ==
  ASSUME Kept
  PROVE  /\ \A i, j \in DOMAIN subs : Sooner(i, j)' <=> Sooner(i, j)
         /\ \A i \in DOMAIN subs : \A f : Awaits(f, i)' <=> Awaits(f, i)
         /\ \A f : SignalledBy(f) => SignalledBy(f)'
<1>1. \A i, j \in DOMAIN subs : Sooner(i, j)' <=> Sooner(i, j)
  BY DEF Kept, Sooner, Turn
<1>2. \A i \in DOMAIN subs : \A f : Awaits(f, i)' <=> Awaits(f, i)
  BY DEF Kept, Awaits
<1>3. \A f : SignalledBy(f) => SignalledBy(f)'
  BY DEF Kept, SignalledBy, Delivered
<1>. QED BY <1>1, <1>2, <1>3

\* The calls that acknowledge the message, and no others, are still going to.
LEMMA AcknowledgedKept ==
  ASSUME DispatchTypeOK, DispatchTypeOK', Listened, Kept, Acknowledged,
         msg'.acks = msg.acks, msg'.handled = msg.handled,
         \A f : f \in Calls(calls') /\ (Looks(f) \/ Acks(f, Desc.ack))
                  <=> f \in Calls(calls) /\ (Looks(f) \/ Acks(f, Desc.ack)),
         \A f \in Calls(calls') : Handles(f) => \E h \in Calls(calls) : Handles(h)
  PROVE  Acknowledged'
<1>. DEFINE S == Calls(calls)
            T == Calls(calls')
<1>2. /\ Desc' = Desc /\ IsConfig' = IsConfig /\ Expects' = Expects /\ Delivered' = Delivered
      /\ radio'.dead = radio.dead /\ msg'.status = msg.status /\ msg'.type = msg.type
  BY ApiKept, KeptConcerned DEF Kept
<1>3. /\ \A f \in T : Looks(f) => f \in S
      /\ \A f \in T : Acks(f, Desc.ack) => f \in S
      /\ \A f \in S : Looks(f) \/ Acks(f, Desc.ack) => f \in T
  OBVIOUS
<1>4. (\E f \in T : Due(f, Desc.ack, msg.handled)) <=> (\E f \in S : Due(f, Desc.ack, msg.handled))
  BY <1>3 DEF Due
<1>5. Acknowledged <=>
        /\ msg.status = "ok" => ~radio.dead
        /\ \A f \in S : Looks(f) => msg.type = "ack_exp" /\ ~IsConfig /\ Delivered
        /\ \A f \in S : Handles(f) =>
             ~msg.handled /\ (msg.type = "ack_exp" => \E h \in S : Looks(h))
        /\ msg.status = "ok" /\ ~Expects =>
             msg.acks = 0 /\ \A f \in S : ~Acks(f, Desc.ack)
        /\ msg.status = "ok" /\ Expects =>
             Delivered /\ msg.acks = IF \E f \in S : Due(f, Desc.ack, msg.handled) THEN 0 ELSE 1
  BY DEF Acknowledged, Calls
<1>6. Acknowledged' <=>
        /\ msg.status = "ok" => ~radio.dead
        /\ \A f \in T : Looks(f) => msg.type = "ack_exp" /\ ~IsConfig /\ Delivered
        /\ \A f \in T : Handles(f) =>
             ~msg.handled /\ (msg.type = "ack_exp" => \E h \in T : Looks(h))
        /\ msg.status = "ok" /\ ~Expects =>
             msg.acks = 0 /\ \A f \in T : ~Acks(f, Desc.ack)
        /\ msg.status = "ok" /\ Expects =>
             Delivered /\ msg.acks = IF \E f \in T : Due(f, Desc.ack, msg.handled) THEN 0 ELSE 1
  BY <1>2 DEF Acknowledged, Calls
<1>7. \A f \in T : Handles(f) => \E h \in S : Handles(h)
  OBVIOUS
<1>. HIDE DEF S, T
<1>. QED BY <1>3, <1>4, <1>5, <1>6, <1>7

\* Who listens was told, and will be told, what it was before.
LEMMA InformedKept ==
  ASSUME DispatchTypeOK, DispatchTypeOK', Listened, Kept, Informed,
         msg'.handled = msg.handled, DOMAIN msg.told \subseteq DOMAIN msg'.told,
         Delivered => \A i \in Concerned :
           Tellings(i)' = Tellings(i) /\ (Awaited(i)' <=> Awaited(i))
  PROVE  Informed'
<1>1. /\ Delivered' = Delivered /\ Concerned \subseteq DOMAIN subs
      /\ Concerned' \subseteq Concerned
  BY KeptConcerned
<1>. SUFFICES ASSUME Delivered
              PROVE  Informed'
  BY <1>1 DEF Informed
<1>2. \A i \in Concerned :
        /\ Tellings(i)' = Tellings(i) /\ (Awaited(i)' <=> Awaited(i))
        /\ subs'[i].sig = subs[i].sig
  BY <1>1 DEF Kept
<1>3. \A i, j \in Concerned : Sooner(i, j)' <=> Sooner(i, j)
  BY <1>1, KeptOrder
<1>5. ASSUME NEW i \in Concerned'
      PROVE  /\ Awaited(i)' => Tellings(i)' = {}
             /\ ~Awaited(i)' =>
                  \/ \E k \in DOMAIN msg'.told : Tellings(i)' = {k}
                  \/ msg'.handled /\ subs'[i].sig \in Handling /\ Tellings(i)' = {}
  BY <1>1, <1>2 DEF Informed
<1>6. ASSUME NEW i \in Concerned', NEW j \in Concerned', Sooner(i, j)'
      PROVE  /\ Awaited(i)' => Tellings(j)' = {}
             /\ \A k \in Tellings(i)', l \in Tellings(j)' : k < l
  <2>1. i \in Concerned /\ j \in Concerned
    BY <1>1
  <2>2. Sooner(i, j)
    BY <1>3, <1>6, <2>1
  <2>. QED BY <1>2, <2>1, <2>2 DEF Informed
<1>. QED BY <1>1, <1>5, <1>6 DEF Informed

\* A step that makes harmless calls, fs, before those in R; those that end
\* neither acknowledge the message nor tell a listener of it.
QuietStep(fs, R) ==
  /\ Kept /\ msg'.acks = msg.acks /\ msg'.handled = msg.handled
  /\ msg'.told = msg.told \/ \E n \in Reserved : msg'.told = Append(msg.told, n)
  /\ fs \in DispatchFrames /\ \A f \in Calls(fs) : Harmless(f)
  /\ R \in DispatchFrames /\ Calls(R) \subseteq Calls(calls)
  /\ Apart(R, Desc.ack, msg.handled)
  /\ calls' = fs \o R
  /\ \A f \in Calls(calls) \ Calls(R) :
       ~Looks(f) /\ ~Acks(f, Desc.ack) /\ \A i \in Concerned : ~Awaits(f, i)

LEMMA QuietCalls ==
  ASSUME NEW fs, NEW R, QuietStep(fs, R)
  PROVE  /\ Calls(calls') = Calls(fs) \cup Calls(R)
         /\ Calls(R) \subseteq Calls(calls)
         /\ \A f \in Calls(fs) : Harmless(f)
         /\ Kept
         /\ \A f \in Calls(calls) \ Calls(R) :
              ~Looks(f) /\ ~Acks(f, Desc.ack) /\ \A i \in Concerned : ~Awaits(f, i)
BY ConcatCalls DEF QuietStep

LEMMA QuietSignalled ==
  ASSUME NEW fs, NEW R, QuietStep(fs, R), Signalled
  PROVE  Signalled'
<1>1. \A f : Harmless(f) => SignalledBy(f)'
  BY DEF SignalledBy, Harmless, Delivers, Emits
<1>2. \A f \in Calls(calls') : SignalledBy(f)'
  BY <1>1, QuietCalls, KeptOrder DEF Signalled, Calls
<1>. QED BY <1>2 DEF Signalled, Calls

LEMMA QuietAcknowledged ==
  ASSUME DispatchTypeOK, DispatchTypeOK', Listened,
         NEW fs, NEW R, QuietStep(fs, R), Acknowledged
  PROVE  Acknowledged'
<1>1. \A f : f \in Calls(calls') /\ (Looks(f) \/ Acks(f, Desc.ack))
               <=> f \in Calls(calls) /\ (Looks(f) \/ Acks(f, Desc.ack))
  BY QuietCalls, HarmlessClash
<1>2. \A f \in Calls(calls') : Handles(f) => \E h \in Calls(calls) : Handles(h)
  BY QuietCalls, HarmlessClash
<1>. QED BY <1>1, <1>2, AcknowledgedKept DEF QuietStep

LEMMA QuietOrdered ==
  ASSUME NEW fs, NEW R, QuietStep(fs, R)
  PROVE  Ordered'
<1>1. Apart(fs, Desc.ack, msg.handled)
  BY ApartHarmless DEF QuietStep
<1>2. Apart(fs \o R, Desc.ack, msg.handled)
  BY <1>1, ApartConcat, HarmlessClash DEF QuietStep
<1>3. Desc' = Desc /\ msg'.handled = msg.handled /\ calls' = fs \o R
  BY ApiKept DEF QuietStep, Kept
<1>. QED BY <1>2, <1>3 DEF Ordered

\* A harmless call tells no listener of the message.
LEMMA HarmlessAwaits ==
  ASSUME Delivered, NEW i \in Concerned, NEW f, Harmless(f)
  PROVE  ~Awaits(f, i)
<1>1. subs[i].sig \in MessageSignals
  BY KindSignals DEF Concerned, Delivered
<1>. QED BY <1>1 DEF Harmless, Awaits

LEMMA QuietInformed ==
  ASSUME DispatchTypeOK, DispatchTypeOK', Listened,
         NEW fs, NEW R, QuietStep(fs, R), Informed
  PROVE  Informed'
<1>1. Kept /\ Concerned \subseteq DOMAIN subs
  BY QuietCalls, KeptConcerned
<1>2. ASSUME Delivered, NEW i \in Concerned
      PROVE  Tellings(i)' = Tellings(i) /\ (Awaited(i)' <=> Awaited(i))
  <2>1. i \in DOMAIN subs /\ subs'[i].id = subs[i].id
    BY <1>1 DEF Kept
  <2>2. Tellings(i)' = Tellings(i)
    BY <2>1, SameTellings, NotReserved DEF QuietStep
  <2>3. Awaited(i)' <=> \E f \in Calls(calls') : Awaits(f, i)
    BY <1>1, <2>1, KeptOrder DEF Awaited, Calls
  <2>4. Awaited(i) <=> \E f \in Calls(calls) : Awaits(f, i)
    BY DEF Awaited, Calls
  <2>5. \A f \in Calls(fs) : ~Awaits(f, i)
    BY <1>2, QuietCalls, HarmlessAwaits
  <2>6. Awaited(i)' <=> Awaited(i)
    BY <2>3, <2>4, <2>5, QuietCalls
  <2>. QED BY <2>2, <2>6
<1>3. msg'.handled = msg.handled /\ DOMAIN msg.told \subseteq DOMAIN msg'.told
  BY DEF QuietStep, DispatchTypeOK, MessageRecord
<1>. QED BY <1>1, <1>2, <1>3, InformedKept

LEMMA Quiet ==
  ASSUME DispatchTypeOK, DispatchTypeOK', DispatchInv, Listened',
         NEW fs, NEW R, QuietStep(fs, R)
  PROVE  DispatchInv'
BY QuietSignalled, QuietAcknowledged, QuietOrdered, QuietInformed DEF DispatchInv
-----------------------------------------------------------------------------
(***************************************************************************)
(* Listeners come and go.                                                  *)
(***************************************************************************)

\* Steps that leave the listeners alone.
LEMMA ListenedKept ==
  ASSUME Listened, subs' = subs, radio'.api = radio.api,
         msg'.present = msg.present \/ msg'.present = Len(subs), DispatchTypeOK
  PROVE  Listened'
BY DEF Listened, Offers, DispatchTypeOK

LEMMA ListenedConnect ==
  ASSUME DispatchTypeOK, Listened, NEW s \in Listeners, Connect(s),
         radio'.api = radio.api, msg' = msg
  PROVE  Listened'
<1>1. /\ Len(subs') = Len(subs) + 1 /\ subs'[Len(subs) + 1] = s
      /\ \A i \in DOMAIN subs : i \in DOMAIN subs' /\ subs'[i] = subs[i]
      /\ subs' \in Seq(Subscriber) /\ Len(subs) \in Nat
  BY ConnectType DEF DispatchTypeOK
<1>2. \A i \in DOMAIN subs' : i \in DOMAIN subs \/ i = Len(subs) + 1
  BY <1>1 DEF DispatchTypeOK
<1>3. /\ s.handles => s.sig \in Handling
      /\ s.sig \in Handling => s.p = Lowest
      /\ Offers(radio.api, s.sig) /\ \A i \in DOMAIN subs : subs[i].id # s.id
  BY DEF Listeners, Connect
<1>4. \A i \in DOMAIN subs' :
        /\ subs'[i].handles => subs'[i].sig \in Handling
        /\ subs'[i].sig \in Handling => subs'[i].p = Lowest
        /\ Offers(radio.api, subs'[i].sig)
  BY <1>1, <1>2, <1>3 DEF Listened
<1>5. \A i, j \in DOMAIN subs' : subs'[i].id = subs'[j].id => i = j
  BY <1>1, <1>2, <1>3 DEF Listened
<1>6. msg'.present <= Len(subs')
  BY <1>1 DEF Listened, DispatchTypeOK, MessageRecord
<1>. QED BY <1>4, <1>5, <1>6 DEF Listened, Offers

LEMMA ListenedDisconnect ==
  ASSUME DispatchTypeOK, Listened, NEW id, Disconnect(id), radio'.api = radio.api, msg' = msg
  PROVE  Listened'
<1>1. /\ Len(subs') = Len(subs) /\ DOMAIN subs' = DOMAIN subs
      /\ \A i \in DOMAIN subs :
           /\ subs'[i].id = subs[i].id /\ subs'[i].sig = subs[i].sig
           /\ subs'[i].p = subs[i].p /\ subs'[i].handles = subs[i].handles
  BY DisconnectType
<1>. QED BY <1>1 DEF Listened, Offers

\* Neither tells anybody.
LEMMA WatchingKeeps ==
  ASSUME DispatchTypeOK, DispatchTypeOK', DispatchInv,
         radio'.api = radio.api, radio'.dead = radio.dead, calls' = calls, msg' = msg,
         (\E s \in Listeners : Connect(s)) \/ (\E i \in DOMAIN subs : Disconnect(subs[i].id))
  PROVE  DispatchInv'
<1>1. Listened' /\ Kept
  <2>1. CASE \E s \in Listeners : Connect(s)
    BY <2>1, ListenedConnect, ConnectType DEF DispatchInv, Kept
  <2>2. CASE \E i \in DOMAIN subs : Disconnect(subs[i].id)
    BY <2>2, ListenedDisconnect, DisconnectType DEF DispatchInv, Kept
  <2>. QED BY <2>1, <2>2
<1>2. QuietStep(<<>>, calls)
  <2>1. calls \in DispatchFrames /\ <<>> \in DispatchFrames /\ Calls(<<>>) = {}
        /\ Apart(calls, Desc.ack, msg.handled)
    BY OneCall DEF DispatchTypeOK, DispatchInv, Ordered
  <2>2. <<>> \o calls = calls
    BY <2>1 DEF DispatchFrames
  <2>. QED BY <1>1, <2>1, <2>2 DEF QuietStep
<1>. QED BY <1>1, <1>2, Quiet

-----------------------------------------------------------------------------
(***************************************************************************)
(* Calls in progress that tell no listener.                                *)
(***************************************************************************)

\* Calls before those in progress, in the place of the running one, or none.
LEMMA QuietEnter ==
  ASSUME DispatchTypeOK, DispatchTypeOK', DispatchInv,
         NEW fs \in DispatchFrames, \A f \in Calls(fs) : Harmless(f),
         calls' = fs \o calls, subs' = subs, msg' = msg,
         radio'.api = radio.api, radio'.dead = radio.dead
  PROVE  DispatchInv'
<1>1. Kept /\ Listened'
  BY ListenedKept DEF Kept, DispatchInv
<1>2. QuietStep(fs, calls)
  BY <1>1 DEF QuietStep, DispatchInv, Ordered, DispatchTypeOK
<1>. QED BY <1>1, <1>2, Quiet

LEMMA QuietBecome ==
  ASSUME DispatchTypeOK, DispatchTypeOK', DispatchInv, ~D!Idle,
         NEW fs \in DispatchFrames, \A f \in Calls(fs) : Harmless(f), D!Become(fs),
         subs' = subs, radio'.api = radio.api, radio'.dead = radio.dead,
         \/ msg' = msg
         \/ \E n \in Reserved : msg' = [msg EXCEPT !.told = Append(@, n)],
         ~Looks(D!Top), ~Acks(D!Top, Desc.ack), \A i \in Concerned : ~Awaits(D!Top, i)
  PROVE  DispatchInv'
<1>1. /\ msg'.kind = msg.kind /\ msg'.code = msg.code /\ msg'.type = msg.type
      /\ msg'.status = msg.status /\ msg'.present = msg.present
      /\ msg'.acks = msg.acks /\ msg'.handled = msg.handled
      /\ msg'.told = msg.told \/ \E n \in Reserved : msg'.told = Append(msg.told, n)
  BY DEF DispatchTypeOK, MessageRecord
<1>2. Kept /\ Listened'
  BY <1>1, ListenedKept DEF Kept, DispatchInv
<1>3. /\ Tail(calls) \in DispatchFrames /\ calls' = fs \o Tail(calls)
      /\ Calls(calls) = {D!Top} \cup Calls(Tail(calls))
      /\ Apart(Tail(calls), Desc.ack, msg.handled)
  BY TopCalls, BecomeCalls, ApartTail DEF DispatchInv, Ordered
<1>4. QuietStep(fs, Tail(calls))
  BY <1>1, <1>2, <1>3 DEF QuietStep
<1>. QED BY <1>2, <1>4, Quiet

\* The running call is of a kind that tells no listener.
LEMMA NoAwait ==
  ASSUME NEW f, f.op \notin {"emit", "tell"}, NEW i
  PROVE  ~Awaits(f, i)
BY DEF Awaits
-----------------------------------------------------------------------------
(***************************************************************************)
(* Events: the service, the users and the main loop start calls when none  *)
(* is in progress.                                                         *)
(***************************************************************************)

\* Events other than messages with listeners.
LEMMA OtherEvent ==
  ASSUME DispatchTypeOK, DispatchInv, D!Idle, subs' = subs, radio'.api = radio.api,
         NEW fs \in DispatchFrames, calls' = fs, Apart(fs, Desc.ack, FALSE),
         msg'.handled = FALSE, msg'.acks = 0, msg'.present = Len(subs),
         msg'.status = "ok" =>
           ~radio'.dead /\ msg'.kind \notin Kinds /\ msg'.type # "ack_exp",
         \A f \in Calls(fs) : Harmless(f) \/ (msg'.status # "ok" /\ Acks(f, Desc.ack))
  PROVE  DispatchInv'
<1>1. Desc' = Desc /\ IsConfig' = IsConfig /\ ~Delivered' /\ Listened'
      /\ (msg'.status = "ok" => ~Expects')
  BY ApiKept, ListenedKept DEF Delivered, Expects, DispatchInv
<1>2. ASSUME NEW f \in Calls(fs)
      PROVE  /\ SignalledBy(f)' /\ ~Looks(f) /\ ~Handles(f)
             /\ msg'.status = "ok" => ~Acks(f, Desc.ack)
  <2>1. CASE Harmless(f)
    BY <2>1, HarmlessClash DEF SignalledBy, Harmless
  <2>2. CASE msg'.status # "ok" /\ Acks(f, Desc.ack)
    BY <2>2 DEF Acks, SignalledBy, Looks, Handles, Delivers, Emits
  <2>. QED BY <2>1, <2>2
<1>3. Signalled'
  BY <1>2 DEF Signalled, Calls
<1>4. Acknowledged'
  BY <1>1, <1>2 DEF Acknowledged, Calls
<1>5. Ordered' /\ Informed'
  BY <1>1 DEF Ordered, Informed
<1>. QED BY <1>1, <1>3, <1>4, <1>5 DEF DispatchInv

\* A message is announced to all who listen.
LEMMA AnnouncedEvent ==
  ASSUME DispatchTypeOK, DispatchTypeOK', DispatchInv, D!Idle,
         radio' = radio, subs' = subs, ~radio.dead,
         NEW kind \in Kinds, NEW code \in Nat, NEW type,
         NEW fs, Announces(fs, kind, code, type), calls' = fs,
         msg'.kind = kind, msg'.code = code, msg'.type = type, msg'.status = "ok",
         msg'.handled = FALSE, msg'.told = <<>>, msg'.acks = 0, msg'.present = Len(subs)
  PROVE  DispatchInv'
<1>1. Desc' = Desc /\ IsConfig' = IsConfig /\ Delivered' /\ Listened'
  BY ApiKept, ListenedKept DEF Delivered, DispatchInv
<1>2. ASSUME NEW f \in Calls(fs)
      PROVE  /\ f.op \in {"emit", "connect", "base", "ack unhandled"}
             /\ f.op = "emit" => /\ f.sig \in {kind, HandlerSignal[kind]} /\ f.code = code
                                 /\ f.sig \in Handling => ~IsConfig /\ f.p = Lowest
             /\ Looks(f) => type = "ack_exp" /\ ~IsConfig
  BY DEF Announces
<1>3. Signalled'
  <2>1. ASSUME NEW f \in Calls(fs)
        PROVE  SignalledBy(f)'
    BY <1>1, <1>2 DEF SignalledBy, Delivers, Emits
  <2>. QED BY <2>1 DEF Signalled, Calls
<1>4. Acknowledged'
  <2>1. ASSUME NEW f \in Calls(fs)
        PROVE  /\ ~Acks(f, Desc.ack) /\ (Looks(f) => type = "ack_exp" /\ ~IsConfig)
               /\ Handles(f) /\ type = "ack_exp" => \E h \in Calls(fs) : Looks(h)
    BY <1>2 DEF Acks, Handles, Emits, Announces
  <2>2. Expects' => \E h \in Calls(fs) : Due(h, Desc.ack, FALSE)
    BY <1>1 DEF Expects, Announces, Due
  <2>. QED BY <1>1, <2>1, <2>2 DEF Acknowledged, Calls
<1>5. Ordered'
  BY DEF Ordered, Announces
<1>6. Informed'
  <2>1. ASSUME NEW i \in Concerned'
        PROVE  Awaited(i)'
    <3>1. i \in DOMAIN subs /\ subs[i].sig \in {kind, HandlerSignal[kind]}
          /\ subs[i].code \in {0, code}
      BY DEF Concerned
    <3>2. subs[i].p \in Lowest .. Highest
      <4>1. subs[i] \in Subscriber
        BY <3>1 DEF DispatchTypeOK
      <4>. QED BY <4>1 DEF Subscriber
    <3>3. Emit(subs[i].sig, subs[i].p, code) \in Calls(fs)
      <4>1. CASE subs[i].sig = kind
        BY <3>2, <4>1 DEF Announces
      <4>2. CASE subs[i].sig = HandlerSignal[kind]
        <5>1. subs[i].sig \in Handling
          BY <4>2, KindSignals
        <5>2. subs[i].p = Lowest /\ ~IsConfig
          BY <3>1, <5>1 DEF DispatchInv, Listened, Offers, IsConfig
        <5>. QED BY <4>2, <5>2 DEF Announces
      <4>. QED BY <3>1, <4>1, <4>2
    <3>4. Awaits(Emit(subs[i].sig, subs[i].p, code), i)'
      BY <3>1 DEF Awaits, Emit, Step
    <3>. QED BY <3>3, <3>4 DEF Awaited, Calls
  <2>2. \A i \in Concerned' : Tellings(i)' = {}
    BY DEF Tellings
  <2>. QED BY <2>1, <2>2 DEF Informed
<1>. QED BY <1>1, <1>3, <1>4, <1>5, <1>6 DEF DispatchInv

\* A message of a kind that has listeners arrives, valid or not.
LEMMA ReceiveKeeps ==
  ASSUME DispatchTypeOK, DispatchInv,
         NEW kind \in Kinds, NEW code \in Nat,
         NEW type \in MessageTypes, NEW status \in Statuses,
         NEW fs, Announces(fs, kind, code, type), Receive(kind, code, type, status, fs)
  PROVE  DispatchTypeOK' /\ DispatchInv'
<1>1. D!Idle /\ ~radio.dead /\ radio' = radio /\ subs' = subs
      /\ msg' = Message(kind, code, type, status)
      /\ D!Enter(IF status = "ok" THEN fs ELSE <<>>)
  BY DEF Receive
<1>2. kind \in MessageKinds
  BY DEF Kinds, MessageKinds
<1>3. /\ msg' \in MessageRecord /\ msg'.kind = kind /\ msg'.code = code /\ msg'.type = type
      /\ msg'.status = status /\ msg'.handled = FALSE /\ msg'.told = <<>>
      /\ msg'.acks = 0 /\ msg'.present = Len(subs)
  <2>1. NewMessage(Message(kind, code, type, status), kind, code, type, status)
    BY <1>2, MessageType
  <2>2. NewMessage(msg', kind, code, type, status)
    BY <2>1, <1>1
  <2>. QED BY <2>2 DEF NewMessage
<1>4. CASE status = "ok"
  <2>1. fs \in DispatchFrames /\ D!Enter(fs)
    BY <1>1, <1>4 DEF Announces
  <2>2. calls' = fs /\ calls' \in DispatchFrames
    BY <1>1, <2>1, EventCalls
  <2>3. DispatchTypeOK'
    BY <1>1, <1>3, <2>2 DEF DispatchTypeOK
  <2>. QED BY <1>1, <1>3, <1>4, <2>2, <2>3, AnnouncedEvent
<1>5. CASE status # "ok"
  <2>1. <<>> \in DispatchFrames /\ Calls(<<>>) = {} /\ D!Enter(<<>>)
        /\ Apart(<<>>, Desc.ack, FALSE)
    BY <1>1, <1>5, OneCall, ApartOne
  <2>2. calls' = <<>> /\ calls' \in DispatchFrames
    BY <1>1, <2>1, EventCalls
  <2>3. DispatchTypeOK'
    BY <1>1, <1>3, <2>2 DEF DispatchTypeOK
  <2>. QED BY <1>1, <1>3, <1>5, <2>1, <2>2, <2>3, OtherEvent
<1>. QED BY <1>4, <1>5

\* Another event, with calls in order.
LEMMA EventKeeps ==
  ASSUME DispatchTypeOK, DispatchInv, D!Idle, subs' = subs,
         radio' \in RadioObject, radio'.api = radio.api,
         NEW kind \in {"other", "death", "enabled", "request", "transaction"},
         NEW code \in Nat,
         NEW type \in {"none", "invalid", "unsolicited", "solicited", "serial"},
         NEW status \in Statuses,
         status = "ok" => ~radio'.dead,
         msg' = Message(kind, code, type, status),
         NEW fs \in DispatchFrames, D!Enter(fs), Apart(fs, Desc.ack, FALSE),
         \A f \in Calls(fs) : Harmless(f) \/ (status # "ok" /\ Acks(f, Desc.ack))
  PROVE  DispatchTypeOK' /\ DispatchInv'
<1>1. /\ kind \in MessageKinds /\ kind \notin Kinds
      /\ type \in MessageTypes /\ type # "ack_exp"
  BY DEF Kinds, MessageKinds, MessageTypes
<1>2. /\ msg' \in MessageRecord /\ msg'.kind = kind /\ msg'.type = type
      /\ msg'.status = status /\ msg'.handled = FALSE
      /\ msg'.acks = 0 /\ msg'.present = Len(subs)
  <2>1. NewMessage(Message(kind, code, type, status), kind, code, type, status)
    BY <1>1, MessageType
  <2>2. NewMessage(msg', kind, code, type, status)
    BY <2>1
  <2>. QED BY <2>2 DEF NewMessage
<1>3. calls' = fs /\ calls' \in DispatchFrames
  BY EventCalls
<1>4. DispatchTypeOK'
  BY <1>2, <1>3 DEF DispatchTypeOK
<1>. QED BY <1>1, <1>2, <1>3, <1>4, OtherEvent
-----------------------------------------------------------------------------
(***************************************************************************)
(* Emissions start and end.                                                *)
(***************************************************************************)

\* An emission in progress stands where it stood before it went on.
LEMMA EmissionClash ==
  ASSUME NEW f, NEW g, Emits(f), Emits(g), g.sig = f.sig, g.p = f.p, NEW h, NEW a, NEW b,
         Clash(g, h, a, b)
  PROVE  Clash(f, h, a, b)
<1>1. ~Looks(g) /\ \A c : ~Due(g, a, c)
  BY DEF Emits, Looks, Due, Acks
<1>2. Delivers(g) /\ Delivers(h) /\ ~(Rank(g) < Rank(h))
  BY <1>1 DEF Clash
<1>3. Rank(g) = Rank(f) /\ Delivers(f)
  BY <1>2 DEF Rank, Delivers
<1>. QED BY <1>2, <1>3 DEF Clash

\* Emissions acknowledge nothing.
LEMMA EmissionOnly ==
  ASSUME NEW f, Emits(f), NEW a
  PROVE  ~Looks(f) /\ ~Acks(f, a)
BY DEF Emits, Looks, Acks

LEMMA StartEmissionKeeps ==
  ASSUME DispatchTypeOK, DispatchInv, StartEmission
  PROVE  DispatchTypeOK' /\ DispatchInv'
<1>. DEFINE f == D!Top
            R == Tail(calls)
            heard == Told(f.sig, f.p, f.code)
            g == [f EXCEPT !.op = "tell", !.left = heard]
<1>1. ~D!Idle /\ f.op = "emit" /\ radio' = radio /\ subs' = subs /\ msg' = msg
      /\ D!Become(IF heard = {} THEN <<>> ELSE <<g>>)
  BY DEF StartEmission, D!Running, D!Top
<1>2. f \in DispatchFrame /\ R \in DispatchFrames /\ Calls(calls) = {f} \cup Calls(R)
  BY <1>1, TopCalls
<1>3. Emits(f) /\ \A i \in Concerned : Awaits(f, i) <=> i \in heard
  <2>1. Emits(f)
    BY <1>1 DEF Emits
  <2>2. ASSUME NEW i \in Concerned
        PROVE  Awaits(f, i) <=> i \in heard
    BY <1>1 DEF Concerned, Awaits, Told, Hears
  <2>. QED BY <2>1, <2>2
<1>4. CASE heard = {}
  <2>1. <<>> \in DispatchFrames /\ Calls(<<>>) = {} /\ D!Become(<<>>)
    BY <1>1, <1>4, OneCall
  <2>2. DispatchTypeOK'
    BY <1>1, <2>1, BecomeCalls DEF DispatchTypeOK
  <2>3. ~Looks(f) /\ ~Acks(f, Desc.ack) /\ \A i \in Concerned : ~Awaits(f, i)
    BY <1>3, <1>4, EmissionOnly
  <2>. HIDE DEF heard
  <2>. QED BY <1>1, <2>1, <2>2, <2>3, QuietBecome
<1>5. CASE heard # {}
  <2>1. heard \subseteq DOMAIN subs /\ heard \in SUBSET Nat
        /\ \A i \in heard : subs[i].sig = f.sig /\ subs[i].p = f.p
    BY DEF Told, Hears, DispatchTypeOK
  <2>2. g \in DispatchFrame /\ g.op = "tell" /\ g.sig = f.sig /\ g.p = f.p
        /\ g.code = f.code /\ g.left = heard
    BY <1>2, <2>1 DEF DispatchFrame, DispatchOps
  <2>. HIDE DEF heard, g
  <2>3. <<g>> \in DispatchFrames /\ Calls(<<g>>) = {g} /\ D!Become(<<g>>)
    BY <1>1, <1>5, <2>2, OneCall
  <2>4. calls' = <<g>> \o R /\ calls' \in DispatchFrames /\ Calls(calls') = {g} \cup Calls(R)
    BY <1>1, <2>3, BecomeCalls
  <2>5. DispatchTypeOK' /\ Kept /\ Listened'
    BY <1>1, <2>4, ListenedKept DEF DispatchTypeOK, Kept, DispatchInv
  <2>6. Emits(g)
    BY <2>2 DEF Emits
  <2>7. Signalled'
    <3>1. SignalledBy(g)
      BY <1>1, <1>2, <2>1, <2>2 DEF DispatchInv, Signalled, SignalledBy, Delivers, Emits, Calls
    <3>2. \A h \in Calls(calls') : SignalledBy(h)'
      BY <1>2, <2>4, <2>5, <3>1, KeptOrder DEF DispatchInv, Signalled, Calls
    <3>. QED BY <3>2 DEF Signalled, Calls
  <2>8. Acknowledged'
    <3>1. Handles(g) => Handles(f)
      BY <1>1, <1>3, <2>2 DEF Handles
    <3>2. \A h : h \in Calls(calls') /\ (Looks(h) \/ Acks(h, Desc.ack))
                  <=> h \in Calls(calls) /\ (Looks(h) \/ Acks(h, Desc.ack))
      BY <1>2, <1>3, <2>4, <2>6, EmissionOnly
    <3>3. \A k \in Calls(calls') : Handles(k) => \E h \in Calls(calls) : Handles(h)
      BY <1>2, <2>4, <3>1
    <3>. QED BY <1>1, <2>5, <3>2, <3>3, AcknowledgedKept DEF DispatchInv
  <2>9. Ordered'
    <3>1. Apart(R, Desc.ack, msg.handled) /\ \A h \in Calls(R) : ~Clash(f, h, Desc.ack, msg.handled)
      BY <1>1, ApartTail DEF DispatchInv, Ordered
    <3>2. \A h \in Calls(R) : ~Clash(g, h, Desc.ack, msg.handled)
      BY <1>3, <2>2, <2>6, <3>1, EmissionClash
    <3>3. Apart(<<g>> \o R, Desc.ack, msg.handled)
      BY <1>2, <2>3, <3>1, <3>2, ApartOne, ApartConcat
    <3>. QED BY <1>1, <2>4, <3>3, ApiKept DEF Ordered
  <2>10. Informed'
    <3>1. ASSUME NEW i \in Concerned
          PROVE  Tellings(i)' = Tellings(i) /\ (Awaited(i)' <=> Awaited(i))
      <4>1. i \in DOMAIN subs
        BY DEF Concerned
      <4>2. Tellings(i)' = Tellings(i)
        BY <1>1 DEF Tellings
      <4>3. Awaits(g, i) <=> Awaits(f, i)
        BY <1>3, <2>2 DEF Awaits
      <4>4. Awaited(i)' <=> \E h \in Calls(calls') : Awaits(h, i)
        BY <2>5, <4>1, KeptOrder DEF Awaited, Calls
      <4>5. Awaited(i) <=> \E h \in Calls(calls) : Awaits(h, i)
        BY DEF Awaited, Calls
      <4>. QED BY <1>2, <2>4, <4>2, <4>3, <4>4, <4>5
    <3>. QED BY <1>1, <2>5, <3>1, InformedKept DEF DispatchInv
  <2>. QED BY <2>5, <2>7, <2>8, <2>9, <2>10 DEF DispatchInv
<1>. QED BY <1>4, <1>5

LEMMA EndEmissionKeeps ==
  ASSUME DispatchTypeOK, DispatchInv, EndEmission
  PROVE  DispatchTypeOK' /\ DispatchInv'
<1>. DEFINE f == D!Top
<1>1. ~D!Idle /\ f.op = "tell" /\ radio' = radio /\ subs' = subs /\ msg' = msg
      /\ D!Become(<<>>) /\ Waiting(f) = {}
  BY DEF EndEmission, D!Running, D!Top
<1>2. <<>> \in DispatchFrames /\ Calls(<<>>) = {}
  BY OneCall
<1>3. DispatchTypeOK'
  BY <1>1, <1>2, BecomeCalls DEF DispatchTypeOK
<1>4. ~Looks(f) /\ ~Acks(f, Desc.ack) /\ \A i \in Concerned : ~Awaits(f, i)
  BY <1>1 DEF Looks, Acks, Awaits, Waiting, Concerned
<1>. QED BY <1>1, <1>2, <1>3, <1>4, QuietBecome
-----------------------------------------------------------------------------
(***************************************************************************)
(* A listener is told.                                                     *)
(***************************************************************************)

\* At most one call is going to acknowledge the message.
LEMMA OneDue ==
  ASSUME NEW s \in DispatchFrames, NEW a, NEW b, Apart(s, a, b),
         NEW f \in Calls(s), NEW h \in Calls(s), Due(f, a, b), Due(h, a, b)
  PROVE  f = h
<1>1. PICK i \in DOMAIN s, j \in DOMAIN s : f = s[i] /\ h = s[j]
  BY DEF Calls, P!Calls
<1>2. i \in Int /\ j \in Int
  BY DEF DispatchFrames
<1>3. ~(i < j) /\ ~(j < i)
  BY <1>1 DEF Apart, Clash
<1>. QED BY <1>1, <1>2, <1>3

\* Calls in order remain so when a handler takes the message.
LEMMA ApartTaken ==
  ASSUME NEW s, NEW a, NEW b, NEW c \in BOOLEAN, Apart(s, a, b)
  PROVE  Apart(s, a, b \/ c)
<1>1. \A f, h : Clash(f, h, a, b \/ c) => Clash(f, h, a, b)
  BY DEF Clash, Due
<1>. QED BY <1>1 DEF Apart

\* Those who await the message are told by emissions of their rank.
LEMMA AwaitingRank ==
  ASSUME Signalled, Delivered, NEW i \in Concerned, NEW f \in Calls(calls), Awaits(f, i)
  PROVE  /\ Delivers(f) /\ f.sig = subs[i].sig /\ f.p = subs[i].p
         /\ Rank(f) = Turn(subs[i])
<1>1. f.sig = subs[i].sig /\ f.p = subs[i].p /\ Emits(f)
  BY DEF Signalled, SignalledBy, Awaits, Emits, Calls
<1>2. subs[i].sig \in {msg.kind, HandlerSignal[msg.kind]} /\ msg.kind \in Kinds
  BY DEF Concerned, Delivered
<1>3. subs[i].sig \in Handling <=> subs[i].sig = HandlerSignal[msg.kind]
  BY <1>2, KindSignals
<1>4. Delivers(f)
  BY <1>1, <1>2, KindSignals DEF Delivers
<1>. QED BY <1>1, <1>3, <1>4 DEF Rank, Turn

\* The listener i is told: the calls fs come first, the emission goes on as g.
TellsOne(i, fs, g) ==
  /\ ~D!Idle /\ D!Top.op = "tell" /\ i \in D!Top.left
  /\ i \in DOMAIN subs /\ subs[i].on /\ subs[i].sig = D!Top.sig /\ subs[i].p = D!Top.p
  /\ \A j \in Waiting(D!Top) : i <= j
  /\ radio' = radio /\ subs' = subs
  /\ msg' = [msg EXCEPT !.told = Append(@, subs[i].id), !.handled = @ \/ subs[i].handles]
  /\ fs \in DispatchFrames /\ \A b : Apart(fs, Desc.ack, b)
  /\ \A f \in Calls(fs) :
       Harmless(f) \/ (subs[i].handles /\ msg.type = "ack_exp" /\ Desc.ack # 0
                         /\ Acks(f, Desc.ack))
  /\ subs[i].handles /\ msg.type = "ack_exp" /\ Desc.ack # 0 =>
       \E f \in Calls(fs) : Acks(f, Desc.ack)
  /\ g \in DispatchFrame /\ g.op = "tell"
  /\ g.sig = D!Top.sig /\ g.p = D!Top.p /\ g.code = D!Top.code
  /\ g.left = IF subs[i].handles THEN {} ELSE D!Top.left \ {i}
  /\ calls' = fs \o <<g>> \o Tail(calls)

\* Who is told is told by name.
LEMMA TellMessage ==
  ASSUME DispatchTypeOK, NEW i, NEW fs, NEW g, TellsOne(i, fs, g)
  PROVE  /\ msg' \in MessageRecord /\ msg'.told = Append(msg.told, subs[i].id)
         /\ msg'.handled = (msg.handled \/ subs[i].handles) /\ msg'.acks = msg.acks
         /\ Kept
<1>1. subs[i] \in Subscriber
  BY DEF TellsOne, DispatchTypeOK
<1>2. subs[i].id \in STRING \cup Reserved /\ subs[i].handles \in BOOLEAN
  BY <1>1 DEF Subscriber
<1>3. msg \in MessageRecord
  BY DEF DispatchTypeOK
<1>4. Append(msg.told, subs[i].id) \in Seq(STRING \cup Reserved)
      /\ (msg.handled \/ subs[i].handles) \in BOOLEAN
  BY <1>2, <1>3 DEF MessageRecord
<1>5. msg' = [msg EXCEPT !.told = Append(@, subs[i].id), !.handled = @ \/ subs[i].handles]
      /\ radio' = radio /\ subs' = subs
  BY DEF TellsOne
<1>6. msg' \in MessageRecord
  BY <1>3, <1>4, <1>5 DEF MessageRecord
<1>7. /\ msg'.told = Append(msg.told, subs[i].id)
      /\ msg'.handled = (msg.handled \/ subs[i].handles) /\ msg'.acks = msg.acks
      /\ msg'.kind = msg.kind /\ msg'.code = msg.code /\ msg'.type = msg.type
      /\ msg'.status = msg.status /\ msg'.present = msg.present
  BY <1>3, <1>5 DEF MessageRecord
<1>. QED BY <1>5, <1>6, <1>7 DEF Kept

LEMMA TellCalls ==
  ASSUME DispatchTypeOK, DispatchInv, NEW i, NEW fs, NEW g, TellsOne(i, fs, g)
  PROVE  /\ DispatchTypeOK' /\ Listened'
         /\ Calls(calls) = {D!Top} \cup Calls(Tail(calls))
         /\ Calls(calls') = Calls(fs) \cup {g} \cup Calls(Tail(calls))
         /\ Emits(D!Top) /\ Emits(g) /\ D!Top \in Calls(calls)
         /\ Tail(calls) \in DispatchFrames
         /\ Apart(Tail(calls), Desc.ack, msg.handled)
         /\ \A h \in Calls(Tail(calls)) : ~Clash(D!Top, h, Desc.ack, msg.handled)
<1>1. ~D!Idle /\ D!Top.op = "tell" /\ fs \in DispatchFrames /\ g \in DispatchFrame
      /\ g.op = "tell" /\ calls' = fs \o <<g>> \o Tail(calls)
      /\ radio' = radio /\ subs' = subs
  BY DEF TellsOne
<1>2. Calls(calls) = {D!Top} \cup Calls(Tail(calls)) /\ Tail(calls) \in DispatchFrames
  BY <1>1, TopCalls
<1>3. <<g>> \in DispatchFrames /\ Calls(<<g>>) = {g}
  BY <1>1, OneCall
<1>4. fs \o <<g>> \in DispatchFrames /\ Calls(fs \o <<g>>) = Calls(fs) \cup {g}
  BY <1>1, <1>3, ConcatCalls
<1>5. /\ calls' \in DispatchFrames
      /\ Calls(calls') = Calls(fs) \cup {g} \cup Calls(Tail(calls))
  BY <1>1, <1>2, <1>4, ConcatCalls
<1>6. DispatchTypeOK' /\ Listened'
  BY <1>1, <1>5, TellMessage, ListenedKept DEF DispatchTypeOK, DispatchInv, Kept
<1>7. Emits(D!Top) /\ Emits(g)
  BY <1>1 DEF Emits
<1>8. /\ Apart(Tail(calls), Desc.ack, msg.handled)
      /\ \A h \in Calls(Tail(calls)) : ~Clash(D!Top, h, Desc.ack, msg.handled)
  BY <1>1, ApartTail DEF DispatchInv, Ordered
<1>. QED BY <1>2, <1>5, <1>6, <1>7, <1>8

\* A handler takes the message: there is no other emission to handlers, and
\* the object will look whether to acknowledge it.
LEMMA TellHandler ==
  ASSUME DispatchTypeOK, DispatchInv, NEW i, NEW fs, NEW g, TellsOne(i, fs, g),
         subs[i].handles
  PROVE  /\ Delivers(D!Top) /\ Delivered /\ ~msg.handled
         /\ \A h \in Calls(Tail(calls)) : ~Handles(h)
         /\ msg.type = "ack_exp" => ~IsConfig /\ \E h \in Calls(Tail(calls)) : Looks(h)
<1>1. D!Top.op = "tell" /\ i \in D!Top.left /\ i \in DOMAIN subs /\ subs[i].sig = D!Top.sig
  BY DEF TellsOne
<1>2. D!Top.sig \in Handling
  BY <1>1 DEF DispatchInv, Listened
<1>3. Handles(D!Top) /\ Delivers(D!Top) /\ D!Top \in Calls(calls)
  BY <1>1, <1>2, TellCalls DEF Handles, Delivers, MessageSignals
<1>4. Delivered /\ ~msg.handled /\ (msg.type = "ack_exp" => \E h \in Calls(calls) : Looks(h))
  BY <1>3 DEF DispatchInv, Signalled, SignalledBy, Acknowledged, Calls
<1>5. ASSUME NEW h \in Calls(Tail(calls)), Handles(h)
      PROVE  FALSE
  <2>1. Delivers(h) /\ Rank(h) = Highest - Default /\ Rank(D!Top) = Highest - Default
    BY <1>2, <1>5 DEF Handles, Delivers, Rank, MessageSignals
  <2>2. ~(Rank(D!Top) < Rank(h))
    BY <2>1 DEF Highest, Default
  <2>. QED BY <1>3, <2>1, <2>2, TellCalls DEF Clash
<1>6. \A h \in Calls(calls) : Looks(h) => h \in Calls(Tail(calls)) /\ ~IsConfig
  BY TellCalls, EmissionOnly DEF DispatchInv, Acknowledged, Calls
<1>. QED BY <1>3, <1>4, <1>5, <1>6

LEMMA TellSignalled ==
  ASSUME DispatchTypeOK, DispatchInv, NEW i, NEW fs, NEW g, TellsOne(i, fs, g)
  PROVE  Signalled'
<1>1. SignalledBy(D!Top) /\ \A h \in Calls(Tail(calls)) : SignalledBy(h)
  BY TellCalls DEF DispatchInv, Signalled, Calls
<1>2. SignalledBy(g)
  BY <1>1 DEF TellsOne, SignalledBy, Delivers, Emits
<1>3. \A f \in Calls(fs) : SignalledBy(f)
  BY DEF TellsOne, SignalledBy, Delivers, Emits, Harmless, Acks
<1>4. \A h \in Calls(calls') : SignalledBy(h)'
  BY <1>1, <1>2, <1>3, TellCalls, TellMessage, KeptOrder
<1>. QED BY <1>4 DEF Signalled, Calls

LEMMA TellAcknowledged ==
  ASSUME DispatchTypeOK, DispatchInv, NEW i, NEW fs, NEW g, TellsOne(i, fs, g)
  PROVE  Acknowledged'
<1>. DEFINE R == Tail(calls)
<1>1. /\ Calls(calls) = {D!Top} \cup Calls(R)
      /\ Calls(calls') = Calls(fs) \cup {g} \cup Calls(R)
      /\ Emits(D!Top) /\ Emits(g) /\ R \in DispatchFrames
      /\ Apart(R, Desc.ack, msg.handled) /\ DispatchTypeOK' /\ Listened'
  BY TellCalls
<1>2. /\ Kept /\ msg'.acks = msg.acks
      /\ msg'.handled = (msg.handled \/ subs[i].handles)
  BY TellMessage
<1>. HIDE DEF R
<1>3. CASE ~subs[i].handles
  <2>1. \A f \in Calls(fs) : Harmless(f)
    BY <1>3 DEF TellsOne
  <2>2. \A h : h \in Calls(calls') /\ (Looks(h) \/ Acks(h, Desc.ack))
                <=> h \in Calls(calls) /\ (Looks(h) \/ Acks(h, Desc.ack))
    BY <1>1, <2>1, EmissionOnly, HarmlessClash
  <2>3. Handles(g) => Handles(D!Top)
    BY <1>3 DEF TellsOne, Handles, Emits
  <2>4. \A k \in Calls(calls') : Handles(k) => \E h \in Calls(calls) : Handles(h)
    BY <1>1, <2>1, <2>3, HarmlessClash
  <2>5. msg'.handled = msg.handled
    <3>1. msg.handled \in BOOLEAN
      BY DEF DispatchTypeOK, MessageRecord
    <3>. QED BY <1>2, <1>3, <3>1
  <2>. QED BY <1>1, <1>2, <2>2, <2>4, <2>5, AcknowledgedKept DEF DispatchInv
<1>4. CASE subs[i].handles
  <2>1. /\ Delivered /\ ~msg.handled
        /\ \A h \in Calls(R) : ~Handles(h)
        /\ msg.type = "ack_exp" => ~IsConfig /\ \E h \in Calls(R) : Looks(h)
    BY <1>4, TellHandler DEF R
  <2>2. /\ Desc' = Desc /\ IsConfig' = IsConfig /\ Expects' = Expects /\ Delivered' = Delivered
        /\ radio'.dead = radio.dead /\ msg'.status = msg.status /\ msg'.type = msg.type
        /\ msg'.handled /\ msg'.acks = msg.acks
    BY <1>1, <1>2, <1>4, ApiKept, KeptConcerned DEF Kept, DispatchInv
  <2>3. ~Handles(g) /\ \A f \in Calls(fs) : ~Handles(f) /\ ~Looks(f)
    <3>1. g.left = {} /\ g.op = "tell"
      BY <1>4 DEF TellsOne
    <3>2. ASSUME NEW f \in Calls(fs)
          PROVE  ~Handles(f) /\ ~Looks(f)
      <4>1. Harmless(f) \/ Acks(f, Desc.ack)
        BY DEF TellsOne
      <4>2. CASE Harmless(f)
        BY <4>2, HarmlessClash
      <4>3. CASE Acks(f, Desc.ack)
        BY <4>3 DEF Acks, Handles, Emits, Looks
      <4>. QED BY <4>1, <4>2, <4>3
    <3>. QED BY <3>1, <3>2 DEF Handles
  <2>4. \A f \in Calls(calls') : Looks(f) => msg.type = "ack_exp" /\ ~IsConfig /\ Delivered
    BY <1>1, <2>1, <2>3, EmissionOnly DEF DispatchInv, Acknowledged, Calls
  <2>5. \A f \in Calls(calls') : ~Handles(f)
    BY <1>1, <2>1, <2>3
  <2>6. CASE msg.status = "ok" /\ ~Expects
    <3>1. msg.acks = 0 /\ \A f \in Calls(R) : ~Acks(f, Desc.ack)
      BY <1>1, <2>6 DEF DispatchInv, Acknowledged, Calls
    <3>2. \A f \in Calls(fs) : ~Acks(f, Desc.ack)
      <4>1. msg.type = "ack_exp" => Desc.ack = 0
        BY <2>1, <2>6 DEF Expects
      <4>. QED BY <4>1, HarmlessClash DEF TellsOne
    <3>3. \A f \in Calls(calls') : ~Acks(f, Desc.ack)
      BY <1>1, <3>1, <3>2, EmissionOnly
    <3>. QED BY <2>2, <2>4, <2>5, <2>6, <3>1, <3>3 DEF Acknowledged, Calls, DispatchInv
  <2>7. CASE msg.status = "ok" /\ Expects
    <3>1. PICK h \in Calls(R) : Looks(h)
      BY <2>1, <2>7 DEF Expects
    <3>2. Due(h, Desc.ack, msg.handled) /\ h \in Calls(calls)
      BY <1>1, <2>1, <3>1 DEF Due
    <3>3. msg.acks = 0
      BY <2>7, <3>2 DEF DispatchInv, Acknowledged, Calls
    <3>4. \E f \in Calls(calls') : Due(f, Desc.ack, msg'.handled)
      <4>1. \E f \in Calls(fs) : Acks(f, Desc.ack)
        BY <1>4, <2>7 DEF TellsOne, Expects
      <4>. QED BY <1>1, <4>1 DEF Due
    <3>5. msg'.acks = 0
      BY <2>2, <3>3
    <3>. QED BY <2>1, <2>2, <2>4, <2>5, <2>7, <3>4, <3>5 DEF Acknowledged, Calls, DispatchInv
  <2>8. CASE msg.status # "ok"
    BY <2>1, <2>8 DEF Delivered
  <2>. QED BY <2>6, <2>7, <2>8
<1>. QED BY <1>3, <1>4

LEMMA TellOrdered ==
  ASSUME DispatchTypeOK, DispatchInv, NEW i, NEW fs, NEW g, TellsOne(i, fs, g)
  PROVE  Ordered'
<1>. DEFINE R == Tail(calls)
            b == msg.handled \/ subs[i].handles
<1>1. /\ Emits(D!Top) /\ Emits(g) /\ R \in DispatchFrames
      /\ Apart(R, Desc.ack, msg.handled)
      /\ \A h \in Calls(R) : ~Clash(D!Top, h, Desc.ack, msg.handled)
  BY TellCalls
<1>2. /\ fs \in DispatchFrames /\ Apart(fs, Desc.ack, b)
      /\ g \in DispatchFrame /\ g.sig = D!Top.sig /\ g.p = D!Top.p
      /\ \A f \in Calls(fs) :
           \/ Harmless(f)
           \/ subs[i].handles /\ msg.type = "ack_exp" /\ Acks(f, Desc.ack)
      /\ calls' = fs \o <<g>> \o R
  BY DEF TellsOne
<1>3. subs[i].handles \in BOOLEAN
  <2>1. subs[i] \in Subscriber
    BY DEF TellsOne, DispatchTypeOK
  <2>. QED BY <2>1 DEF Subscriber
<1>4. <<g>> \in DispatchFrames /\ Calls(<<g>>) = {g} /\ Apart(<<g>>, Desc.ack, b)
  BY <1>2, OneCall, ApartOne
<1>5. ASSUME subs[i].handles, msg.type = "ack_exp", NEW h \in Calls(R)
      PROVE  ~Due(h, Desc.ack, TRUE)
  <2>1. PICK l \in Calls(R) : Looks(l)
    BY <1>5, TellHandler
  <2>2. Due(l, Desc.ack, msg.handled)
    BY <1>5, <2>1, TellHandler DEF Due
  <2>3. ASSUME Due(h, Desc.ack, TRUE)
        PROVE  FALSE
    <3>1. Acks(h, Desc.ack) /\ Due(h, Desc.ack, msg.handled)
      BY <2>3 DEF Due
    <3>2. h = l
      BY <1>1, <2>2, <3>1, OneDue
    <3>. QED BY <2>1, <3>1, <3>2 DEF Looks, Acks
  <2>. QED BY <2>3
<1>. HIDE DEF R
<1>6. Apart(R, Desc.ack, b)
  BY <1>1, <1>3, ApartTaken
<1>7. \A h \in Calls(R) : ~Clash(g, h, Desc.ack, b)
  <2>1. ASSUME NEW h \in Calls(R), Clash(g, h, Desc.ack, b)
        PROVE  FALSE
    <3>1. Clash(D!Top, h, Desc.ack, b)
      BY <1>1, <1>2, <2>1, EmissionClash
    <3>2. Clash(D!Top, h, Desc.ack, msg.handled)
      BY <3>1 DEF Clash, Due
    <3>. QED BY <1>1, <3>2
  <2>. QED BY <2>1
<1>8. ASSUME NEW f \in Calls(fs), NEW h \in {g} \cup Calls(R)
      PROVE  ~Clash(f, h, Desc.ack, b)
  <2>1. CASE Harmless(f)
    BY <2>1, HarmlessClash
  <2>2. CASE subs[i].handles /\ msg.type = "ack_exp" /\ Acks(f, Desc.ack)
    <3>1. b
      BY <2>2
    <3>2. ~Due(h, Desc.ack, b)
      <4>1. CASE h = g
        BY <1>1, <4>1, EmissionOnly DEF Due
      <4>2. CASE h \in Calls(R)
        BY <1>5, <2>2, <4>2 DEF Due
      <4>. QED BY <4>1, <4>2
    <3>3. ~Delivers(f) /\ ~Looks(f)
      BY <2>2 DEF Acks, Delivers, Emits, Looks
    <3>. QED BY <3>2, <3>3 DEF Clash
  <2>. QED BY <1>2, <2>1, <2>2
<1>. HIDE DEF b
<1>9. /\ fs \o <<g>> \in DispatchFrames /\ Calls(fs \o <<g>>) = Calls(fs) \cup {g}
      /\ Apart(fs \o <<g>>, Desc.ack, b)
  BY <1>2, <1>4, <1>8, ConcatCalls, ApartConcat
<1>10. Apart(fs \o <<g>> \o R, Desc.ack, b)
  BY <1>1, <1>6, <1>7, <1>8, <1>9, ApartConcat
<1>11. Desc' = Desc /\ msg'.handled = b
  BY TellMessage, ApiKept DEF b, Kept
<1>. QED BY <1>2, <1>10, <1>11 DEF Ordered
\* Who is told, and who is still waiting, among those the message concerns.
LEMMA TellTellings ==
  ASSUME DispatchTypeOK, DispatchInv, NEW i, NEW fs, NEW g, TellsOne(i, fs, g),
         NEW j \in DOMAIN subs
  PROVE  /\ j # i => Tellings(j)' = Tellings(j)
         /\ Tellings(i)' = Tellings(i) \cup {Len(msg.told) + 1}
         /\ Len(msg.told) + 1 \in DOMAIN msg'.told /\ DOMAIN msg.told \subseteq DOMAIN msg'.told
         /\ \A k \in Tellings(j) : k \in DOMAIN msg.told /\ k < Len(msg.told) + 1
<1>1. i \in DOMAIN subs /\ subs' = subs
  BY DEF TellsOne
<1>2. msg'.told = Append(msg.told, subs[i].id)
  BY TellMessage
<1>3. /\ msg.told \in Seq(STRING \cup Reserved) /\ Len(msg.told) \in Nat
      /\ DOMAIN msg.told = 1 .. Len(msg.told)
  BY DEF DispatchTypeOK, MessageRecord
<1>4. /\ DOMAIN msg'.told = 1 .. Len(msg.told) + 1
      /\ msg'.told[Len(msg.told) + 1] = subs[i].id
      /\ \A k \in 1 .. Len(msg.told) : msg'.told[k] = msg.told[k]
  BY <1>2, <1>3
<1>5. j # i => Tellings(j)' = Tellings(j)
  <2>1. j # i => subs[j].id # subs[i].id
    BY <1>1 DEF DispatchInv, Listened
  <2>. QED BY <1>1, <1>2, <2>1, SameTellings
<1>6. Tellings(i)' = Tellings(i) \cup {Len(msg.told) + 1}
  <2>1. Tellings(i)' = {k \in 1 .. Len(msg.told) + 1 : msg'.told[k] = subs[i].id}
    BY <1>1, <1>4 DEF Tellings
  <2>2. Tellings(i) = {k \in 1 .. Len(msg.told) : msg.told[k] = subs[i].id}
    BY <1>3 DEF Tellings
  <2>3. \A k : k \in 1 .. Len(msg.told) + 1 <=> k \in 1 .. Len(msg.told) \/ k = Len(msg.told) + 1
    BY <1>3
  <2>4. Len(msg.told) + 1 \in 1 .. Len(msg.told) + 1
    BY <1>3
  <2>. QED BY <1>4, <2>1, <2>2, <2>3, <2>4
<1>7. \A k \in Tellings(j) : k \in DOMAIN msg.told /\ k < Len(msg.told) + 1
  BY <1>3 DEF Tellings
<1>. QED BY <1>3, <1>4, <1>5, <1>6, <1>7

LEMMA TellAwaited ==
  ASSUME DispatchTypeOK, DispatchInv, NEW i, NEW fs, NEW g, TellsOne(i, fs, g),
         Delivered, NEW j \in Concerned
  PROVE  /\ Awaited(j) <=> j \in D!Top.left \/ \E h \in Calls(Tail(calls)) : Awaits(h, j)
         /\ Awaited(j)' <=> j \in g.left \/ \E h \in Calls(Tail(calls)) : Awaits(h, j)
         /\ \A h \in Calls(Tail(calls)) :
              Awaits(h, j) /\ Delivers(D!Top) => Rank(D!Top) < Turn(subs[j])
         /\ j \in D!Top.left => /\ Delivers(D!Top) /\ Turn(subs[j]) = Rank(D!Top)
                                /\ subs[j].sig = D!Top.sig
<1>1. /\ Calls(calls) = {D!Top} \cup Calls(Tail(calls))
      /\ Calls(calls') = Calls(fs) \cup {g} \cup Calls(Tail(calls))
      /\ D!Top \in Calls(calls)
      /\ \A h \in Calls(Tail(calls)) : ~Clash(D!Top, h, Desc.ack, msg.handled)
  BY TellCalls
<1>2. Kept /\ D!Top.op = "tell" /\ g.op = "tell" /\ j \in DOMAIN subs
  BY TellMessage DEF TellsOne, Concerned
<1>3. (Awaits(D!Top, j) <=> j \in D!Top.left) /\ (Awaits(g, j) <=> j \in g.left)
  BY <1>2 DEF Awaits
<1>4. \A f \in Calls(fs) : ~Awaits(f, j)
  <2>1. ASSUME NEW f \in Calls(fs)
        PROVE  ~Awaits(f, j)
    <3>1. Harmless(f) \/ Acks(f, Desc.ack)
      BY DEF TellsOne
    <3>2. CASE Harmless(f)
      BY <3>2, HarmlessAwaits
    <3>3. CASE Acks(f, Desc.ack)
      BY <3>3 DEF Acks, Awaits
    <3>. QED BY <3>1, <3>2, <3>3
  <2>. QED BY <2>1
<1>5. Awaited(j) <=> \E h \in Calls(calls) : Awaits(h, j)
  BY DEF Awaited, Calls
<1>6. Awaited(j)' <=> \E h \in Calls(calls') : Awaits(h, j)
  BY <1>2, KeptOrder DEF Awaited, Calls
<1>7. ASSUME NEW h \in Calls(Tail(calls)), Awaits(h, j), Delivers(D!Top)
      PROVE  Rank(D!Top) < Turn(subs[j])
  <2>1. h \in Calls(calls)
    BY <1>1
  <2>2. Delivers(h) /\ Rank(h) = Turn(subs[j])
    BY <1>7, <2>1, AwaitingRank DEF DispatchInv
  <2>. QED BY <1>1, <1>7, <2>2 DEF Clash
<1>8. j \in D!Top.left => /\ Delivers(D!Top) /\ Turn(subs[j]) = Rank(D!Top)
                          /\ subs[j].sig = D!Top.sig
  BY <1>1, <1>3, AwaitingRank DEF DispatchInv
<1>. QED BY <1>1, <1>3, <1>4, <1>5, <1>6, <1>7, <1>8

\* Turns are numbers.
LEMMA TurnType ==
  ASSUME DispatchTypeOK, NEW i \in DOMAIN subs
  PROVE  Turn(subs[i]) \in Int
<1>1. subs[i] \in Subscriber
  BY DEF DispatchTypeOK
<1>2. subs[i].p \in Int
  BY <1>1 DEF Subscriber, Lowest, Highest
<1>. QED BY <1>2 DEF Turn, Highest, Default

\* Nobody who is sooner than the one who is told still awaits the message.
LEMMA TellNoSooner ==
  ASSUME DispatchTypeOK, DispatchInv, NEW i, NEW fs, NEW g, TellsOne(i, fs, g),
         Delivered, i \in Concerned, NEW j \in Concerned, Sooner(j, i)
  PROVE  ~Awaited(j)'
<1>1. /\ i \in D!Top.left /\ \A k \in Waiting(D!Top) : i <= k
      /\ g.left = IF subs[i].handles THEN {} ELSE D!Top.left \ {i}
  BY DEF TellsOne
<1>2. i \in DOMAIN subs /\ j \in DOMAIN subs /\ subs[j].on
  BY DEF Concerned
<1>3. Turn(subs[i]) \in Int /\ Turn(subs[j]) \in Int /\ i \in Int /\ j \in Int
  BY <1>2, TurnType DEF DispatchTypeOK
<1>4. Delivers(D!Top) /\ Turn(subs[i]) = Rank(D!Top)
  BY <1>1, TellAwaited
<1>5. ~(\E h \in Calls(Tail(calls)) : Awaits(h, j))
  <2>1. \A h \in Calls(Tail(calls)) : Awaits(h, j) => Turn(subs[i]) < Turn(subs[j])
    BY <1>4, TellAwaited
  <2>. QED BY <1>3, <2>1 DEF Sooner
<1>6. j \notin g.left
  <2>1. ASSUME j \in g.left
        PROVE  FALSE
    <3>1. j \in D!Top.left /\ j # i
      BY <1>1, <2>1
    <3>2. i <= j
      BY <1>1, <1>2, <3>1 DEF Waiting
    <3>3. Turn(subs[j]) = Turn(subs[i])
      BY <1>4, <3>1, TellAwaited
    <3>. QED BY <1>3, <3>1, <3>2, <3>3 DEF Sooner
  <2>. QED BY <2>1
<1>. QED BY <1>5, <1>6, TellAwaited

LEMMA TellInformed ==
  ASSUME DispatchTypeOK, DispatchInv, NEW i, NEW fs, NEW g, TellsOne(i, fs, g)
  PROVE  Informed'
<1>1. Kept /\ DispatchTypeOK' /\ Listened
  BY TellMessage, TellCalls DEF DispatchInv
<1>2. /\ Delivered' = Delivered /\ Concerned \subseteq DOMAIN subs
      /\ Concerned' \subseteq Concerned
  BY <1>1, KeptConcerned
<1>. SUFFICES ASSUME Delivered
              PROVE  Informed'
  BY <1>2 DEF Informed
<1>3. /\ i \in D!Top.left /\ i \in DOMAIN subs /\ subs' = subs
      /\ g.left = IF subs[i].handles THEN {} ELSE D!Top.left \ {i}
      /\ subs[i].sig = D!Top.sig
  BY DEF TellsOne
<1>4. msg'.handled = (msg.handled \/ subs[i].handles)
  BY TellMessage
<1>5. /\ \A j \in DOMAIN subs : j # i => Tellings(j)' = Tellings(j)
      /\ Tellings(i)' = Tellings(i) \cup {Len(msg.told) + 1}
      /\ Len(msg.told) + 1 \in DOMAIN msg'.told /\ DOMAIN msg.told \subseteq DOMAIN msg'.told
      /\ \A j \in DOMAIN subs : \A k \in Tellings(j) :
           k \in DOMAIN msg.told /\ k < Len(msg.told) + 1
  BY <1>3, TellTellings
<1>6. /\ \A j \in Concerned :
           /\ Awaited(j) => Tellings(j) = {}
           /\ ~Awaited(j) =>
                \/ \E k \in DOMAIN msg.told : Tellings(j) = {k}
                \/ msg.handled /\ subs[j].sig \in Handling /\ Tellings(j) = {}
      /\ \A j, k \in Concerned : Sooner(j, k) =>
           /\ Awaited(j) => Tellings(k) = {}
           /\ \A l \in Tellings(j), m \in Tellings(k) : l < m
  BY DEF DispatchInv, Informed
<1>7. \A j \in Concerned : Awaited(j)' => Awaited(j)
  BY <1>3, TellAwaited
<1>8. i \in Concerned => Awaited(i) /\ ~Awaited(i)'
  <2>1. ASSUME i \in Concerned
        PROVE  Awaited(i) /\ ~Awaited(i)'
    <3>1. Delivers(D!Top) /\ Turn(subs[i]) = Rank(D!Top) /\ Turn(subs[i]) \in Int
      BY <1>3, <2>1, TellAwaited, TurnType
    <3>2. \A h \in Calls(Tail(calls)) : ~Awaits(h, i)
      BY <2>1, <3>1, TellAwaited
    <3>. QED BY <1>3, <2>1, <3>2, TellAwaited
  <2>. QED BY <2>1
<1>9. ASSUME NEW j \in Concerned'
      PROVE  /\ Awaited(j)' => Tellings(j)' = {}
             /\ ~Awaited(j)' =>
                  \/ \E k \in DOMAIN msg'.told : Tellings(j)' = {k}
                  \/ msg'.handled /\ subs'[j].sig \in Handling /\ Tellings(j)' = {}
  <2>1. j \in Concerned /\ j \in DOMAIN subs
    BY <1>2
  <2>2. CASE j = i
    <3>1. Tellings(i)' = {Len(msg.told) + 1} /\ ~Awaited(i)'
      BY <1>5, <1>6, <1>8, <2>1, <2>2
    <3>. QED BY <1>5, <2>2, <3>1
  <2>3. CASE j # i /\ ~Awaited(j)' /\ Awaited(j)
    <3>1. subs[i].handles /\ j \in D!Top.left
      BY <1>3, <2>1, <2>3, TellAwaited
    <3>2. subs[j].sig \in Handling
      BY <1>3, <2>1, <3>1, TellAwaited DEF DispatchInv, Listened
    <3>3. Tellings(j)' = {}
      BY <1>5, <1>6, <2>1, <2>3
    <3>. QED BY <1>3, <1>4, <2>3, <3>1, <3>2, <3>3
  <2>4. CASE j # i /\ (Awaited(j)' \/ ~Awaited(j))
    BY <1>3, <1>4, <1>5, <1>6, <1>7, <2>1, <2>4
  <2>. QED BY <2>2, <2>3, <2>4
<1>10. ASSUME NEW j \in Concerned', NEW k \in Concerned', Sooner(j, k)'
       PROVE  /\ Awaited(j)' => Tellings(k)' = {}
              /\ \A l \in Tellings(j)', m \in Tellings(k)' : l < m
  <2>1. j \in Concerned /\ k \in Concerned /\ j \in DOMAIN subs /\ k \in DOMAIN subs
    BY <1>2
  <2>2. Sooner(j, k)
    BY <1>1, <1>10, <2>1, KeptOrder
  <2>3. j # k
    BY <2>1, <2>2, TurnType DEF Sooner, DispatchTypeOK
  <2>4. CASE k = i
    <3>1. ~Awaited(j)' /\ Tellings(j)' = Tellings(j)
      BY <1>5, <2>1, <2>2, <2>3, <2>4, TellNoSooner
    <3>2. Tellings(i)' = {Len(msg.told) + 1}
      BY <1>5, <1>6, <1>8, <2>1, <2>4
    <3>3. \A l \in Tellings(j) : l < Len(msg.told) + 1
      BY <1>5, <2>1
    <3>. QED BY <2>4, <3>1, <3>2, <3>3
  <2>5. CASE j = i
    <3>1. Tellings(k)' = {}
      BY <1>5, <1>6, <1>8, <2>1, <2>2, <2>3, <2>5
    <3>. QED BY <3>1
  <2>6. CASE j # i /\ k # i
    BY <1>5, <1>6, <1>7, <2>1, <2>2, <2>6
  <2>. QED BY <2>4, <2>5, <2>6
<1>. QED BY <1>9, <1>10 DEF Informed

\* What the code does when it tells a listener.
LEMMA TellIs ==
  ASSUME DispatchTypeOK, DispatchInv, Tell
  PROVE  \E i, fs, g : TellsOne(i, fs, g)
<1>1. ~D!Idle /\ D!Top.op = "tell" /\ radio' = radio /\ subs' = subs
  BY DEF Tell, D!Running, D!Top
<1>2. PICK i \in Waiting(D!Top) :
        /\ \A j \in Waiting(D!Top) : i <= j
        /\ msg' = [msg EXCEPT !.told = Append(@, subs[i].id), !.handled = @ \/ subs[i].handles]
        /\ D!Become(
             (IF subs[i].handles /\ msg.type = "ack_exp" THEN AckCalls ELSE <<>>)
             \o ClientCalls(subs[i].id, D!Top.code)
             \o UserCode
             \o <<[D!Top EXCEPT !.left = IF subs[i].handles THEN {} ELSE @ \ {i}]>>)
  BY DEF Tell
<1>. DEFINE as == IF subs[i].handles /\ msg.type = "ack_exp" THEN AckCalls ELSE <<>>
            cs == ClientCalls(subs[i].id, D!Top.code)
            us == UserCode
            fs == as \o cs \o us
            g == [D!Top EXCEPT !.left = IF subs[i].handles THEN {} ELSE @ \ {i}]
<1>3. calls' = fs \o <<g>> \o Tail(calls)
  BY <1>2 DEF D!Become
<1>4. D!Top \in DispatchFrame /\ D!Top \in Calls(calls)
  BY <1>1, TopCalls
<1>5. i \in D!Top.left /\ i \in DOMAIN subs /\ subs[i].on
      /\ subs[i].sig = D!Top.sig /\ subs[i].p = D!Top.p
  BY <1>1, <1>4 DEF Waiting, DispatchInv, Signalled, SignalledBy, Calls
<1>6. /\ g \in DispatchFrame /\ g.op = "tell" /\ g.sig = D!Top.sig /\ g.p = D!Top.p
      /\ g.code = D!Top.code
      /\ g.left = IF subs[i].handles THEN {} ELSE D!Top.left \ {i}
  BY <1>1, <1>4 DEF DispatchFrame
<1>7. radio \in RadioObject /\ D!Top.code \in Nat
  BY <1>4 DEF DispatchTypeOK, DispatchFrame
<1>8. /\ as \in DispatchFrames /\ \A b : Apart(as, Desc.ack, b)
      /\ \A f \in Calls(as) :
           Harmless(f) \/ (subs[i].handles /\ msg.type = "ack_exp" /\ Desc.ack # 0
                             /\ Acks(f, Desc.ack))
      /\ subs[i].handles /\ msg.type = "ack_exp" /\ Desc.ack # 0 =>
           \E f \in Calls(as) : Acks(f, Desc.ack)
  <2>1. CASE subs[i].handles /\ msg.type = "ack_exp"
    BY <1>7, <2>1, AckCallsAre
  <2>2. CASE ~(subs[i].handles /\ msg.type = "ack_exp")
    BY <2>2, OneCall, ApartOne
  <2>. QED BY <2>1, <2>2
<1>9. /\ cs \in DispatchFrames /\ \A f \in Calls(cs) : Harmless(f)
      /\ us \in DispatchFrames /\ \A f \in Calls(us) : Harmless(f)
  BY <1>7, OtherCallsAre
<1>10. (\A b : Apart(cs, Desc.ack, b)) /\ (\A b : Apart(us, Desc.ack, b))
  BY <1>9, ApartHarmless
<1>. HIDE DEF as, cs, us
<1>11. /\ as \o cs \in DispatchFrames /\ Calls(as \o cs) = Calls(as) \cup Calls(cs)
       /\ \A b : Apart(as \o cs, Desc.ack, b)
  <2>1. \A f, h, b : h \in Calls(cs) => ~Clash(f, h, Desc.ack, b)
    BY <1>9, HarmlessClash
  <2>. QED BY <1>8, <1>9, <1>10, <2>1, ConcatCalls, ApartConcat
<1>12. /\ fs \in DispatchFrames /\ Calls(fs) = Calls(as) \cup Calls(cs) \cup Calls(us)
       /\ \A b : Apart(fs, Desc.ack, b)
  <2>1. \A f, h, b : h \in Calls(us) => ~Clash(f, h, Desc.ack, b)
    BY <1>9, HarmlessClash
  <2>. QED BY <1>9, <1>10, <1>11, <2>1, ConcatCalls, ApartConcat
<1>. HIDE DEF fs, g
<1>13. TellsOne(i, fs, g)
  BY <1>1, <1>2, <1>3, <1>5, <1>6, <1>8, <1>9, <1>12 DEF TellsOne
<1>. QED BY <1>13

LEMMA TellKeeps ==
  ASSUME DispatchTypeOK, DispatchInv, Tell
  PROVE  DispatchTypeOK' /\ DispatchInv'
<1>1. PICK i, fs, g : TellsOne(i, fs, g)
  BY TellIs
<1>. QED BY <1>1, TellCalls, TellSignalled, TellAcknowledged, TellOrdered, TellInformed
         DEF DispatchInv
-----------------------------------------------------------------------------
(***************************************************************************)
(* Acknowledgements.                                                       *)
(***************************************************************************)

\* The running call is one whose end no listener notices.
LEMMA StillInformed ==
  ASSUME DispatchTypeOK, DispatchTypeOK', DispatchInv, Kept, subs' = subs,
         ~Emits(D!Top), ~D!Idle, msg'.handled = msg.handled,
         msg'.told = msg.told \/ \E n \in Reserved : msg'.told = Append(msg.told, n),
         NEW fs, Calls(calls') = Calls(fs) \cup Calls(Tail(calls)),
         \A f \in Calls(fs) : Harmless(f) \/ ~Emits(f)
  PROVE  Informed'
<1>1. Calls(calls) = {D!Top} \cup Calls(Tail(calls))
  BY TopCalls
<1>2. ASSUME Delivered, NEW i \in Concerned
      PROVE  Tellings(i)' = Tellings(i) /\ (Awaited(i)' <=> Awaited(i))
  <2>1. i \in DOMAIN subs
    BY DEF Concerned
  <2>2. Tellings(i)' = Tellings(i)
    BY <2>1, SameTellings, NotReserved
  <2>3. Awaited(i)' <=> \E f \in Calls(calls') : Awaits(f, i)
    BY <2>1, KeptOrder DEF Awaited, Calls
  <2>4. Awaited(i) <=> \E f \in Calls(calls) : Awaits(f, i)
    BY DEF Awaited, Calls
  <2>5. \A f : ~Emits(f) => ~Awaits(f, i)
    BY DEF Emits, Awaits
  <2>6. \A f \in Calls(fs) : ~Awaits(f, i)
    BY <1>2, <2>5, HarmlessAwaits
  <2>. QED BY <1>1, <2>2, <2>3, <2>4, <2>5, <2>6
<1>3. DOMAIN msg.told \subseteq DOMAIN msg'.told
  BY DEF DispatchTypeOK, MessageRecord
<1>. QED BY <1>2, <1>3, InformedKept DEF DispatchInv

LEMMA AckUnhandledKeeps ==
  ASSUME DispatchTypeOK, DispatchInv, AckUnhandled
  PROVE  DispatchTypeOK' /\ DispatchInv'
<1>. DEFINE fs == IF msg.handled THEN <<>> ELSE AckCalls
            R == Tail(calls)
<1>1. ~D!Idle /\ D!Top.op = "ack unhandled" /\ radio' = radio /\ subs' = subs /\ msg' = msg
      /\ D!Become(fs)
  BY DEF AckUnhandled, D!Running, D!Top
<1>2. Calls(calls) = {D!Top} \cup Calls(R) /\ R \in DispatchFrames /\ D!Top \in Calls(calls)
  BY <1>1, TopCalls
<1>3. Looks(D!Top) /\ ~Emits(D!Top) /\ ~Acks(D!Top, Desc.ack)
  BY <1>1 DEF Looks, Emits, Acks
<1>4. msg.type = "ack_exp" /\ ~IsConfig /\ Delivered
  BY <1>2, <1>3 DEF DispatchInv, Acknowledged, Calls
<1>5. radio \in RadioObject /\ msg.handled \in BOOLEAN
  BY DEF DispatchTypeOK, MessageRecord
<1>6. /\ fs \in DispatchFrames /\ Apart(fs, Desc.ack, msg.handled)
      /\ \A f \in Calls(fs) :
           Harmless(f) \/ (~msg.handled /\ Desc.ack # 0 /\ Acks(f, Desc.ack))
      /\ ~msg.handled /\ Desc.ack # 0 => \E f \in Calls(fs) : Acks(f, Desc.ack)
  BY <1>5, AckCallsAre, OneCall, ApartOne
<1>7. /\ Apart(R, Desc.ack, msg.handled)
      /\ \A h \in Calls(R) : ~Clash(D!Top, h, Desc.ack, msg.handled)
  BY <1>1, ApartTail DEF DispatchInv, Ordered
<1>8. \A h \in Calls(R) : ~Handles(h) /\ (~msg.handled => ~Due(h, Desc.ack, msg.handled))
  BY <1>3, <1>7 DEF Clash, Due
<1>. HIDE DEF fs, R
<1>9. calls' = fs \o R /\ calls' \in DispatchFrames /\ Calls(calls') = Calls(fs) \cup Calls(R)
  BY <1>1, <1>6, BecomeCalls DEF R
<1>10. DispatchTypeOK' /\ Kept /\ Listened'
  BY <1>1, <1>9, ListenedKept DEF DispatchTypeOK, Kept, DispatchInv
<1>11. Signalled'
  <2>1. \A f \in Calls(fs) : SignalledBy(f)
    BY <1>6 DEF SignalledBy, Delivers, Emits, Harmless, Acks
  <2>2. \A f \in Calls(calls') : SignalledBy(f)'
    BY <1>2, <1>9, <1>10, <2>1, KeptOrder DEF DispatchInv, Signalled, Calls
  <2>. QED BY <2>2 DEF Signalled, Calls
<1>12. Acknowledged'
  <2>1. \A f \in Calls(fs) : ~Handles(f) /\ ~Looks(f)
    <3>1. \A f : Acks(f, Desc.ack) => ~Handles(f) /\ ~Looks(f)
      BY DEF Acks, Handles, Emits, Looks
    <3>. QED BY <1>6, <3>1, HarmlessClash
  <2>2. \A f \in Calls(calls') :
          ~Handles(f) /\ (Looks(f) => msg.type = "ack_exp" /\ ~IsConfig /\ Delivered)
    BY <1>4, <1>8, <1>9, <2>1
  <2>3. /\ Desc' = Desc /\ IsConfig' = IsConfig /\ Expects' = Expects /\ Delivered' = Delivered
    BY <1>10, ApiKept, KeptConcerned DEF Kept, DispatchInv
  <2>4. CASE Desc.ack = 0
    <3>1. msg.status = "ok" /\ ~Expects /\ ~radio.dead
          /\ msg.acks = 0 /\ \A f \in Calls(calls) : ~Acks(f, Desc.ack)
      BY <1>4, <2>4 DEF Expects, DispatchInv, Acknowledged, Delivered, Calls
    <3>2. \A f \in Calls(calls') : ~Acks(f, Desc.ack)
      BY <1>2, <1>6, <1>9, <2>4, <3>1, HarmlessClash
    <3>. QED BY <1>1, <2>2, <2>3, <3>1, <3>2 DEF Acknowledged, Calls
  <2>5. CASE Desc.ack # 0
    <3>1. msg.status = "ok" /\ Expects /\ ~radio.dead
      BY <1>4, <2>5 DEF Expects, DispatchInv, Acknowledged, Delivered
    <3>2. (\E f \in Calls(calls') : Due(f, Desc.ack, msg.handled))
            <=> (\E f \in Calls(calls) : Due(f, Desc.ack, msg.handled))
      <4>1. CASE msg.handled
        <5>1. ~Due(D!Top, Desc.ack, msg.handled)
          BY <1>3, <4>1 DEF Due
        <5>2. \A f \in Calls(fs) : ~Due(f, Desc.ack, msg.handled)
          BY <1>6, <4>1, HarmlessClash
        <5>. QED BY <1>2, <1>9, <5>1, <5>2
      <4>2. CASE ~msg.handled
        BY <1>2, <1>3, <1>6, <1>9, <2>5, <4>2 DEF Due
      <4>. QED BY <4>1, <4>2
    <3>3. msg.acks = IF \E f \in Calls(calls) : Due(f, Desc.ack, msg.handled) THEN 0 ELSE 1
      BY <3>1 DEF DispatchInv, Acknowledged, Calls
    <3>4. msg.acks = IF \E f \in Calls(calls') : Due(f, Desc.ack, msg.handled) THEN 0 ELSE 1
      BY <3>2, <3>3
    <3>. QED BY <1>1, <1>4, <2>2, <2>3, <3>1, <3>4 DEF Acknowledged, Calls
  <2>. QED BY <2>4, <2>5
<1>13. Ordered'
  <2>1. ASSUME NEW f \in Calls(fs), NEW h \in Calls(R)
        PROVE  ~Clash(f, h, Desc.ack, msg.handled)
    <3>1. CASE Harmless(f)
      BY <3>1, HarmlessClash
    <3>2. CASE ~msg.handled /\ Acks(f, Desc.ack)
      BY <1>8, <3>2 DEF Clash, Acks, Delivers, Emits, Looks
    <3>. QED BY <1>6, <3>1, <3>2
  <2>2. Apart(fs \o R, Desc.ack, msg.handled)
    BY <1>2, <1>6, <1>7, <2>1, ApartConcat
  <2>. QED BY <1>1, <1>9, <2>2, ApiKept DEF Ordered
<1>14. Informed'
  <2>1. \A f \in Calls(fs) : Harmless(f) \/ ~Emits(f)
    BY <1>6 DEF Acks, Emits
  <2>. QED BY <1>1, <1>3, <1>9, <1>10, <2>1, StillInformed DEF R
<1>. QED BY <1>10, <1>11, <1>12, <1>13, <1>14 DEF DispatchInv

\* A request reaches the binder driver.
LEMMA TransactType ==
  ASSUME DispatchTypeOK, Transact
  PROVE  /\ DispatchTypeOK' /\ subs' = subs /\ radio'.api = radio.api /\ radio'.dead = radio.dead
         /\ ~D!Idle /\ D!Top.op = "transact" /\ D!Become(<<>>)
<1>1. ~D!Idle /\ D!Top.op = "transact" /\ D!Become(<<>>) /\ subs' = subs
  BY DEF Transact, D!Running, D!Top
<1>2. D!Top \in DispatchFrame
  BY <1>1, TopCalls
<1>3. calls' \in DispatchFrames
  BY <1>1, OneCall, BecomeCalls
<1>4. radio \in RadioObject /\ D!Top.ends \in SUBSET Callbacks
  BY <1>2 DEF DispatchTypeOK, DispatchFrame
<1>5. radio' \in RadioObject /\ radio'.api = radio.api /\ radio'.dead = radio.dead
  <2>1. \/ radio' = radio
        \/ radio' = [radio EXCEPT !.txs = Append(@, D!Top.ends)]
    BY DEF Transact
  <2>2. [radio EXCEPT !.txs = Append(@, D!Top.ends)] \in RadioObject
    BY <1>4, RadioType
  <2>3. /\ [radio EXCEPT !.txs = Append(@, D!Top.ends)].api = radio.api
        /\ [radio EXCEPT !.txs = Append(@, D!Top.ends)].dead = radio.dead
    BY <1>4 DEF RadioObject
  <2>. QED BY <1>4, <2>1, <2>2, <2>3
<1>6. msg' \in MessageRecord
  <2>1. CASE radio.dead
    BY <2>1 DEF Transact, DispatchTypeOK
  <2>2. CASE ~radio.dead
    <3>1. msg' = [msg EXCEPT !.told = Append(@, "binder"),
                             !.acks = IF D!Top.code = Desc.ack THEN @ + 1 ELSE @]
      BY <2>2 DEF Transact
    <3>2. Append(msg.told, "binder") \in Seq(STRING \cup Reserved)
      BY DEF DispatchTypeOK, MessageRecord, Reserved
    <3>3. (IF D!Top.code = Desc.ack THEN msg.acks + 1 ELSE msg.acks) \in Nat
      BY DEF DispatchTypeOK, MessageRecord
    <3>. QED BY <3>1, <3>2, <3>3 DEF DispatchTypeOK, MessageRecord
  <2>. QED BY <2>1, <2>2
<1>. QED BY <1>1, <1>3, <1>5, <1>6 DEF DispatchTypeOK

LEMMA TransactKeeps ==
  ASSUME DispatchTypeOK, DispatchInv, Transact
  PROVE  DispatchTypeOK' /\ DispatchInv'
<1>. DEFINE R == Tail(calls)
<1>1. /\ DispatchTypeOK' /\ subs' = subs /\ radio'.api = radio.api /\ radio'.dead = radio.dead
      /\ ~D!Idle /\ D!Top.op = "transact" /\ D!Become(<<>>)
  BY TransactType
<1>2. /\ Calls(calls) = {D!Top} \cup Calls(R) /\ R \in DispatchFrames
      /\ <<>> \in DispatchFrames /\ Calls(<<>>) = {}
  BY <1>1, TopCalls, OneCall
<1>3. ~Looks(D!Top) /\ ~Emits(D!Top) /\ \A i \in Concerned : ~Awaits(D!Top, i)
  BY <1>1, NoAwait DEF Looks, Emits
<1>4. CASE radio.dead /\ ~Acks(D!Top, Desc.ack)
  <2>1. msg' = msg
    BY <1>4 DEF Transact
  <2>. QED BY <1>1, <1>2, <1>3, <1>4, <2>1, QuietBecome
<1>5. CASE ~radio.dead /\ ~Acks(D!Top, Desc.ack)
  <2>1. msg' = [msg EXCEPT !.told = Append(@, "binder")]
    <3>1. D!Top.code # Desc.ack
      BY <1>1, <1>5 DEF Acks
    <3>2. msg' = [msg EXCEPT !.told = Append(@, "binder"), !.acks = @]
      BY <1>5, <3>1 DEF Transact
    <3>. QED BY <3>2 DEF DispatchTypeOK, MessageRecord
  <2>2. "binder" \in Reserved
    BY DEF Reserved
  <2>. QED BY <1>1, <1>2, <1>3, <1>5, <2>1, <2>2, QuietBecome
<1>6. CASE Acks(D!Top, Desc.ack)
  <2>1. /\ msg'.kind = msg.kind /\ msg'.code = msg.code /\ msg'.type = msg.type
        /\ msg'.status = msg.status /\ msg'.present = msg.present /\ msg'.handled = msg.handled
        /\ msg'.told = msg.told \/ \E n \in Reserved : msg'.told = Append(msg.told, n)
        /\ ~radio.dead => msg'.acks = msg.acks + 1
    <3>1. CASE radio.dead
      BY <3>1 DEF Transact
    <3>2. CASE ~radio.dead
      <4>1. msg' = [msg EXCEPT !.told = Append(@, "binder"), !.acks = @ + 1]
        BY <1>6, <3>2 DEF Transact, Acks
      <4>2. "binder" \in Reserved
        BY DEF Reserved
      <4>. QED BY <4>1, <4>2 DEF DispatchTypeOK, MessageRecord
    <3>. QED BY <3>1, <3>2
  <2>2. Kept /\ Listened'
    BY <1>1, <2>1, ListenedKept DEF Kept, DispatchInv
  <2>3. /\ Apart(R, Desc.ack, msg.handled)
        /\ \A h \in Calls(R) : ~Clash(D!Top, h, Desc.ack, msg.handled)
    BY <1>1, ApartTail DEF DispatchInv, Ordered
  <2>4. calls' = <<>> \o R /\ Calls(calls') = Calls(<<>>) \cup Calls(R)
    BY <1>1, <1>2, BecomeCalls
  <2>5. calls' = R
    BY <1>2, <2>4 DEF DispatchFrames
  <2>6. Signalled'
    <3>1. \A f \in Calls(calls') : SignalledBy(f)'
      BY <1>2, <2>2, <2>5, KeptOrder DEF DispatchInv, Signalled, Calls
    <3>. QED BY <3>1 DEF Signalled, Calls
  <2>7. Ordered'
    BY <1>1, <2>1, <2>3, <2>5, ApiKept DEF Ordered
  <2>8. Informed'
    BY <1>1, <1>2, <1>3, <2>1, <2>2, <2>4, StillInformed
  <2>9. Acknowledged'
    <3>1. /\ Desc' = Desc /\ IsConfig' = IsConfig /\ Expects' = Expects
          /\ Delivered' = Delivered /\ msg'.status = msg.status
      BY <1>1, <2>1, <2>2, ApiKept, KeptConcerned DEF DispatchInv
    <3>2. \A f \in Calls(R) : Looks(f) => msg.type = "ack_exp" /\ ~IsConfig /\ Delivered
      BY <1>2 DEF DispatchInv, Acknowledged, Calls
    <3>3. \A f \in Calls(R) : Handles(f) =>
            ~msg.handled /\ (msg.type = "ack_exp" => \E h \in Calls(R) : Looks(h))
      BY <1>2, <1>3 DEF DispatchInv, Acknowledged, Calls
    <3>4. CASE msg.status # "ok"
      BY <1>1, <2>1, <2>5, <3>1, <3>2, <3>3, <3>4 DEF Acknowledged, Calls
    <3>5. CASE msg.status = "ok"
      <4>1. ~radio.dead /\ Expects /\ Delivered
        BY <1>2, <1>6, <3>5 DEF DispatchInv, Acknowledged, Calls
      <4>2. Due(D!Top, Desc.ack, msg.handled) /\ D!Top \in Calls(calls)
        BY <1>2, <1>6 DEF Due
      <4>3. msg.acks = 0
        BY <3>5, <4>1, <4>2 DEF DispatchInv, Acknowledged, Calls
      <4>4. \A f \in Calls(R) : ~Due(f, Desc.ack, msg.handled)
        BY <2>3, <4>2 DEF Clash
      <4>5. msg'.acks = 1
        BY <2>1, <4>1, <4>3
      <4>. QED BY <1>1, <2>1, <2>5, <3>1, <3>2, <3>3, <3>5, <4>1, <4>4, <4>5
               DEF Acknowledged, Calls
    <3>. QED BY <3>4, <3>5
  <2>. QED BY <1>1, <2>2, <2>6, <2>7, <2>8, <2>9 DEF DispatchInv
<1>. QED BY <1>4, <1>5, <1>6
-----------------------------------------------------------------------------
(***************************************************************************)
(* The other calls in progress.                                            *)
(***************************************************************************)

\* The running call gives way to harmless ones; it is not about listeners.
LEMMA PlainKeeps ==
  ASSUME DispatchTypeOK, DispatchInv, ~D!Idle,
         D!Top.op \in {"connect", "base", "complete", "destroy", "callback"},
         NEW fs \in DispatchFrames, \A f \in Calls(fs) : Harmless(f), D!Become(fs),
         subs' = subs, radio' \in RadioObject, radio'.api = radio.api, radio'.dead = radio.dead,
         \/ msg' = msg
         \/ \E n \in Reserved : msg' = [msg EXCEPT !.told = Append(@, n)]
  PROVE  DispatchTypeOK' /\ DispatchInv'
<1>1. msg' \in MessageRecord
  BY ToldType DEF DispatchTypeOK
<1>2. DispatchTypeOK'
  BY <1>1, BecomeCalls DEF DispatchTypeOK
<1>3. ~Looks(D!Top) /\ ~Acks(D!Top, Desc.ack) /\ \A i \in Concerned : ~Awaits(D!Top, i)
  BY NoAwait DEF Looks, Acks
<1>. QED BY <1>2, <1>3, QuietBecome

LEMMA RilConnectedKeeps ==
  ASSUME DispatchTypeOK, DispatchInv, RilConnected
  PROVE  DispatchTypeOK' /\ DispatchInv'
<1>. DEFINE fs == IF radio.connected THEN <<>> ELSE <<Emit("connected", Lowest, 0)>>
<1>1. ~D!Idle /\ D!Top.op = "connect" /\ radio' = [radio EXCEPT !.connected = TRUE]
      /\ D!Become(fs) /\ subs' = subs /\ msg' = msg
  BY DEF RilConnected, D!Running, D!Top
<1>2. radio' \in RadioObject /\ radio'.api = radio.api /\ radio'.dead = radio.dead
  BY <1>1, RadioType DEF DispatchTypeOK, RadioObject
<1>3. Lowest \in Lowest .. Highest
  BY DEF Lowest, Highest
<1>4. "connected" \in Signals
  BY DEF Signals
<1>5. Emit("connected", Lowest, 0) \in DispatchFrame
  BY <1>3, <1>4, StepType
<1>6. Harmless(Emit("connected", Lowest, 0))
  BY DEF Harmless, Emit, Step, MessageSignals, Kinds, Handling
<1>7. fs \in DispatchFrames /\ \A f \in Calls(fs) : Harmless(f)
  BY <1>5, <1>6, OneCall
<1>. HIDE DEF fs
<1>. QED BY <1>1, <1>2, <1>7, PlainKeeps

LEMMA BaseToldKeeps ==
  ASSUME DispatchTypeOK, DispatchInv, BaseTold
  PROVE  DispatchTypeOK' /\ DispatchInv'
<1>1. ~D!Idle /\ D!Top.op = "base" /\ radio' = radio /\ subs' = subs
      /\ msg' = [msg EXCEPT !.told = Append(@, "base")] /\ D!Become(<<>>)
  BY DEF BaseTold, D!Running, D!Top
<1>2. radio' \in RadioObject /\ "base" \in Reserved
  BY <1>1 DEF DispatchTypeOK, Reserved
<1>. QED BY <1>1, <1>2, OneCall, PlainKeeps

LEMMA TransactionEndsKeeps ==
  ASSUME DispatchTypeOK, DispatchInv, TransactionEnds
  PROVE  DispatchTypeOK' /\ DispatchInv'
<1>1. ~D!Idle /\ D!Top.op \in {"complete", "destroy"} /\ radio' = radio /\ subs' = subs
      /\ msg' = [msg EXCEPT !.told = Append(@, D!Top.op)] /\ D!Become(UserCode)
  BY DEF TransactionEnds, D!Running, D!Top
<1>2. radio \in RadioObject /\ D!Top.op \in Reserved
  BY <1>1 DEF DispatchTypeOK, Reserved
<1>3. UserCode \in DispatchFrames /\ \A f \in Calls(UserCode) : Harmless(f)
  BY <1>2, OtherCallsAre
<1>. QED BY <1>1, <1>2, <1>3, PlainKeeps

LEMMA UseReturnsKeeps ==
  ASSUME DispatchTypeOK, DispatchInv, UseReturns
  PROVE  DispatchTypeOK' /\ DispatchInv'
<1>1. ~D!Idle /\ D!Top.op = "callback" /\ radio' = radio /\ subs' = subs /\ msg' = msg
      /\ D!Become(<<>>)
  BY DEF UseReturns, D!Running, D!Top
<1>2. radio' \in RadioObject
  BY <1>1 DEF DispatchTypeOK
<1>. QED BY <1>1, <1>2, OneCall, PlainKeeps

\* A listener uses the object.
LEMMA UseKeeps ==
  ASSUME DispatchTypeOK, DispatchInv, Use
  PROVE  DispatchTypeOK' /\ DispatchInv'
<1>1. radio' = [radio EXCEPT !.changes = @ + 1] /\ radio \in RadioObject
  BY DEF Use, DispatchTypeOK
<1>2. radio' \in RadioObject /\ radio'.api = radio.api /\ radio'.dead = radio.dead
  BY <1>1, RadioType DEF RadioObject
<1>3. CASE /\ \E i \in DOMAIN subs : Disconnect(subs[i].id)
           /\ UNCHANGED <<calls, msg>>
  <2>1. DispatchTypeOK'
    BY <1>2, <1>3, DisconnectType DEF DispatchTypeOK
  <2>. QED BY <1>2, <1>3, <2>1, WatchingKeeps
<1>4. CASE (\E s \in Newcomers : Connect(s)) /\ UNCHANGED <<calls, msg>>
  <2>1. PICK s \in Listeners : Connect(s)
    BY <1>4, DispatchAssumption
  <2>2. DispatchTypeOK'
    BY <1>2, <1>4, <2>1, ConnectType DEF DispatchTypeOK
  <2>. QED BY <1>2, <1>4, <2>1, <2>2, WatchingKeeps
<1>5. CASE D!Enter(SendCalls(UserRequest, {})) /\ UNCHANGED <<subs, msg>>
  <2>1. UserRequest \in Nat /\ UserRequest # Desc.ack /\ {} \in SUBSET Callbacks
    BY <1>1, DescType, DispatchAssumption
  <2>2. /\ SendCalls(UserRequest, {}) \in DispatchFrames
        /\ \A f \in Calls(SendCalls(UserRequest, {})) : Harmless(f)
    BY <2>1, RequestsHarmless
  <2>3. /\ calls' = SendCalls(UserRequest, {}) \o calls /\ calls' \in DispatchFrames
    BY <1>5, <2>2, EnterCalls
  <2>4. DispatchTypeOK'
    BY <1>2, <1>5, <2>3 DEF DispatchTypeOK
  <2>. QED BY <1>2, <1>5, <2>2, <2>3, <2>4, QuietEnter
<1>. QED BY <1>3, <1>4, <1>5 DEF Use

-----------------------------------------------------------------------------
(***************************************************************************)
(* The events.                                                             *)
(***************************************************************************)

LEMMA IndicationKeeps ==
  ASSUME DispatchTypeOK, DispatchInv, NEW iface, NEW code \in Nat,
         NEW type \in {"none", "invalid", "unsolicited", "ack_exp"},
         Indication(iface, code, type) \/ ConfigIndication(iface, code, type)
  PROVE  DispatchTypeOK' /\ DispatchInv'
<1>1. type \in MessageTypes /\ "indication" \in Kinds /\ radio \in RadioObject
  BY DEF MessageTypes, Kinds, DispatchTypeOK
<1>2. CASE Indication(iface, code, type)
  <2>1. PICK status \in Statuses :
          /\ ~IsConfig
          /\ Receive("indication", code, type, status, IndicationCalls(code, type))
    BY <1>2 DEF Indication, Statuses
  <2>2. Announces(IndicationCalls(code, type), "indication", code, type)
    BY <1>1, <2>1, IndicationAnnounces
  <2>. QED BY <1>1, <2>1, <2>2, ReceiveKeeps
<1>3. CASE ConfigIndication(iface, code, type)
  <2>1. PICK status \in Statuses :
          /\ IsConfig
          /\ Receive("indication", code, type, status,
                     Observers("indication", Highest, Lowest, code))
    <3>. DEFINE st == CASE iface[1] # "config" -> "unset"
                        [] iface[1] = "config" /\ type = "unsolicited" -> "ok"
                        [] OTHER -> "failed"
    <3>1. st \in Statuses
      BY DEF Statuses
    <3>2. /\ IsConfig
          /\ Receive("indication", code, type, st,
                     Observers("indication", Highest, Lowest, code))
      BY <1>3 DEF ConfigIndication
    <3>. HIDE DEF st
    <3>. QED BY <3>1, <3>2
  <2>2. Announces(Observers("indication", Highest, Lowest, code), "indication", code, type)
    BY <1>1, <2>1, ConfigIndicationAnnounces
  <2>. QED BY <1>1, <2>1, <2>2, ReceiveKeeps
<1>. QED BY <1>2, <1>3

LEMMA ResponseKeeps ==
  ASSUME DispatchTypeOK, DispatchInv, NEW iface, NEW code \in Nat,
         NEW type \in ResponseTypes(code),
         Response(iface, code, type) \/ ConfigResponse(iface, code, type)
  PROVE  DispatchTypeOK' /\ DispatchInv'
<1>1. type \in MessageTypes /\ "response" \in Kinds /\ radio \in RadioObject
  BY DEF MessageTypes, Kinds, ResponseTypes, DispatchTypeOK
<1>2. CASE Response(iface, code, type) /\ type # "none" /\ code # Desc.resp_ack
  <2>1. PICK status \in Statuses :
          ~IsConfig /\ Receive("response", code, type, status, ResponseCalls(code, type))
    BY <1>2 DEF Response, Statuses
  <2>2. Announces(ResponseCalls(code, type), "response", code, type)
    BY <1>1, <2>1, ResponseAnnounces
  <2>. QED BY <1>1, <2>1, <2>2, ReceiveKeeps
<1>3. CASE Response(iface, code, type) /\ ~(type # "none" /\ code # Desc.resp_ack)
  <2>. DEFINE as == IF type = "none" THEN <<>> ELSE <<Emit("ack", Lowest, 0)>>
  <2>1. PICK status \in Statuses : Receive("other", code, type, status, as)
    BY <1>3 DEF Response, Statuses
  <2>2. type \in {"none", "serial"}
    BY <1>3 DEF ResponseTypes
  <2>3. Lowest \in Lowest .. Highest
    BY DEF Lowest, Highest
  <2>4. "ack" \in Signals
    BY DEF Signals
  <2>5. Emit("ack", Lowest, 0) \in DispatchFrame
    BY <2>3, <2>4, StepType
  <2>6. Harmless(Emit("ack", Lowest, 0))
    BY DEF Harmless, Emit, Step, MessageSignals, Kinds, Handling
  <2>7. as \in DispatchFrames /\ \A f \in Calls(as) : Harmless(f)
    BY <2>5, <2>6, OneCall
  <2>. HIDE DEF as
  <2>. DEFINE fs == IF status = "ok" THEN as ELSE <<>>
  <2>8. fs \in DispatchFrames /\ \A f \in Calls(fs) : Harmless(f)
    BY <2>7, OneCall
  <2>9. /\ D!Idle /\ ~radio.dead /\ radio' = radio /\ subs' = subs
        /\ msg' = Message("other", code, type, status) /\ D!Enter(fs)
    BY <2>1 DEF Receive
  <2>. HIDE DEF fs
  <2>10. Apart(fs, Desc.ack, FALSE)
    BY <2>8, ApartHarmless
  <2>. QED BY <1>1, <2>2, <2>8, <2>9, <2>10, EventKeeps
<1>4. CASE ConfigResponse(iface, code, type)
  <2>1. PICK status \in Statuses :
          IsConfig /\ Receive("response", code, type, status, ConfigResponseCalls(code))
    <3>. DEFINE st == CASE ~Accepts(iface) -> "failed"
                        [] Accepts(iface) /\ type = "none" -> "unset"
                        [] OTHER -> "ok"
    <3>1. st \in Statuses
      BY DEF Statuses
    <3>2. IsConfig /\ Receive("response", code, type, st, ConfigResponseCalls(code))
      BY <1>4 DEF ConfigResponse
    <3>. HIDE DEF st
    <3>. QED BY <3>1, <3>2
  <2>2. Announces(ConfigResponseCalls(code), "response", code, type)
    BY <1>1, <2>1, ConfigResponseAnnounces
  <2>. QED BY <1>1, <2>1, <2>2, ReceiveKeeps
<1>. QED BY <1>2, <1>3, <1>4

LEMMA DiedKeeps ==
  ASSUME DispatchTypeOK, DispatchInv, Died
  PROVE  DispatchTypeOK' /\ DispatchInv'
<1>. DEFINE ds == <<Emit("death", Lowest, 0)>>
            bs == IF IsConfig THEN <<Step("base")>> ELSE <<>>
            fs == ds \o bs
<1>1. /\ D!Idle /\ radio' = [radio EXCEPT !.dead = TRUE, !.connected = FALSE]
      /\ msg' = Message("death", 0, "none", "unset") /\ D!Enter(fs) /\ subs' = subs
  BY DEF Died
<1>2. radio' \in RadioObject /\ radio'.api = radio.api
  BY <1>1, RadioType DEF DispatchTypeOK, RadioObject
<1>3. Lowest \in Lowest .. Highest
  BY DEF Lowest, Highest
<1>4. "death" \in Signals
  BY DEF Signals
<1>5. Emit("death", Lowest, 0) \in DispatchFrame /\ Step("base") \in DispatchFrame
  BY <1>3, <1>4, StepType DEF DispatchOps
<1>6. Harmless(Emit("death", Lowest, 0)) /\ Harmless(Step("base"))
  BY DEF Harmless, Emit, Step, MessageSignals, Kinds, Handling
<1>7. /\ ds \in DispatchFrames /\ bs \in DispatchFrames
      /\ \A f \in Calls(ds) \cup Calls(bs) : Harmless(f)
  BY <1>5, <1>6, OneCall
<1>. HIDE DEF ds, bs
<1>8. fs \in DispatchFrames /\ \A f \in Calls(fs) : Harmless(f)
  BY <1>7, ConcatCalls
<1>. HIDE DEF fs
<1>9. Apart(fs, Desc.ack, FALSE)
  BY <1>8, ApartHarmless
<1>10. 0 \in Nat /\ "unset" \in Statuses
  BY DEF Statuses
<1>. QED BY <1>1, <1>2, <1>8, <1>9, <1>10, EventKeeps

LEMMA SetEnabledKeeps ==
  ASSUME DispatchTypeOK, DispatchInv, NEW enabled \in BOOLEAN, SetEnabled(enabled)
  PROVE  DispatchTypeOK' /\ DispatchInv'
<1>. DEFINE fs == IF radio.enabled # enabled THEN <<Emit("enabled", Lowest, 0)>> ELSE <<>>
<1>1. /\ D!Idle /\ radio' = [radio EXCEPT !.enabled = enabled]
      /\ msg' = Message("enabled", 0, "none", "unset") /\ D!Enter(fs) /\ subs' = subs
  BY DEF SetEnabled
<1>2. radio' \in RadioObject /\ radio'.api = radio.api
  BY <1>1, RadioType DEF DispatchTypeOK, RadioObject
<1>3. Lowest \in Lowest .. Highest
  BY DEF Lowest, Highest
<1>4. "enabled" \in Signals
  BY DEF Signals
<1>5. Emit("enabled", Lowest, 0) \in DispatchFrame
  BY <1>3, <1>4, StepType
<1>6. Harmless(Emit("enabled", Lowest, 0))
  BY DEF Harmless, Emit, Step, MessageSignals, Kinds, Handling
<1>7. fs \in DispatchFrames /\ \A f \in Calls(fs) : Harmless(f)
  BY <1>5, <1>6, OneCall
<1>. HIDE DEF fs
<1>8. Apart(fs, Desc.ack, FALSE)
  BY <1>7, ApartHarmless
<1>9. 0 \in Nat /\ "unset" \in Statuses
  BY DEF Statuses
<1>. QED BY <1>1, <1>2, <1>7, <1>8, <1>9, EventKeeps

\* Acknowledgements that users send are not about the last message.
LEMMA SendKeeps ==
  ASSUME DispatchTypeOK, DispatchInv, NEW code \in Nat, NEW callbacks \in SUBSET Callbacks,
         Send(code, callbacks)
  PROVE  DispatchTypeOK' /\ DispatchInv'
<1>. DEFINE t == [Step("transact") EXCEPT !.code = code, !.ends = callbacks]
            os == Observers("request", Highest, Lowest, code)
            fs == SendCalls(code, callbacks)
<1>1. /\ D!Idle /\ msg' = Message("request", code, "none", "unset") /\ D!Enter(fs)
      /\ radio' = radio /\ subs' = subs
  BY DEF Send
<1>2. /\ fs \in DispatchFrames /\ Calls(fs) = Calls(os) \cup {t}
      /\ \A f \in Calls(os) : Harmless(f)
      /\ t.op = "transact" /\ t.code = code
  BY SendCallsAre
<1>3. Apart(fs, Desc.ack, FALSE)
  BY RequestsApart
<1>. HIDE DEF t, os, fs
<1>4. \A f \in Calls(fs) : Harmless(f) \/ ("unset" # "ok" /\ Acks(f, Desc.ack))
  BY <1>2 DEF Harmless, Acks
<1>5. "unset" \in Statuses /\ radio' \in RadioObject /\ radio'.api = radio.api
  BY <1>1 DEF Statuses, DispatchTypeOK
<1>6. "request" \in {"other", "death", "enabled", "request", "transaction"}
      /\ "none" \in {"none", "invalid", "unsolicited", "solicited", "serial"}
  OBVIOUS
<1>7. fs \in DispatchFrames
  BY <1>2
<1>. QED BY <1>1, <1>3, <1>4, <1>5, <1>6, <1>7, EventKeeps, ZenonT(60)

LEMMA CancelTransactionKeeps ==
  ASSUME DispatchTypeOK, DispatchInv, CancelTransaction
  PROVE  DispatchTypeOK' /\ DispatchInv'
<1>1. /\ radio' = [radio EXCEPT !.txs[Len(radio.txs)] = @ \ {"complete"}]
      /\ radio.txs # <<>> /\ subs' = subs /\ calls' = calls /\ msg' = msg
  BY DEF CancelTransaction
<1>2. radio' \in RadioObject
  BY <1>1, RadioType
<1>3. radio'.api = radio.api /\ radio'.dead = radio.dead
  BY <1>1 DEF DispatchTypeOK, RadioObject
<1>4. <<>> \in DispatchFrames /\ Calls(<<>>) = {} /\ calls' = <<>> \o calls
  BY <1>1, OneCall DEF DispatchTypeOK, DispatchFrames
<1>5. DispatchTypeOK'
  BY <1>1, <1>2 DEF DispatchTypeOK
<1>. QED BY <1>1, <1>3, <1>4, <1>5, QuietEnter

LEMMA EndTransactionKeeps ==
  ASSUME DispatchTypeOK, DispatchInv, EndTransaction
  PROVE  DispatchTypeOK' /\ DispatchInv'
<1>. DEFINE fs == EndCalls(Head(radio.txs))
<1>1. /\ D!Idle /\ radio.txs # <<>> /\ radio' = [radio EXCEPT !.txs = Tail(@)]
      /\ msg' = Message("transaction", 0, "none", "unset") /\ D!Enter(fs) /\ subs' = subs
  BY DEF EndTransaction
<1>2. radio \in RadioObject /\ Head(radio.txs) \in SUBSET Callbacks /\ radio' \in RadioObject
  BY <1>1, RadioType DEF DispatchTypeOK
<1>3. radio'.api = radio.api
  BY <1>1, <1>2 DEF RadioObject
<1>4. fs \in DispatchFrames /\ \A f \in Calls(fs) : Harmless(f)
  BY <1>2, OtherCallsAre
<1>. HIDE DEF fs
<1>5. Apart(fs, Desc.ack, FALSE)
  BY <1>4, ApartHarmless
<1>6. 0 \in Nat /\ "unset" \in Statuses
  BY DEF Statuses
<1>. QED BY <1>1, <1>2, <1>3, <1>4, <1>5, <1>6, EventKeeps

LEMMA WatchingEventKeeps ==
  ASSUME DispatchTypeOK, DispatchInv, Watching
  PROVE  DispatchTypeOK' /\ DispatchInv'
<1>1. /\ (\E s \in Listeners : Connect(s)) \/ (\E i \in DOMAIN subs : Disconnect(subs[i].id))
      /\ radio' = radio /\ calls' = calls /\ msg' = msg
  BY DEF Watching
<1>2. DispatchTypeOK'
  BY <1>1, ConnectType, DisconnectType DEF DispatchTypeOK
<1>. QED BY <1>1, <1>2, WatchingKeeps
-----------------------------------------------------------------------------
(***************************************************************************)
(* The theorems.                                                           *)
(***************************************************************************)

LEMMA DispatchInitially ==
  ASSUME DispatchInit
  PROVE  DispatchTypeOK /\ DispatchInv
<1>1. PICK api \in DOMAIN Interfaces, version \in Versions : radio = NewObject(api, version)
  BY DEF DispatchInit
<1>2. subs = <<>> /\ calls = <<>> /\ msg = NoMessage
  BY DEF DispatchInit
<1>3. radio \in RadioObject
  <2>1. <<>> \in Seq(SUBSET Callbacks)
    OBVIOUS
  <2>2. \E b \in BOOLEAN : radio = [api |-> api, version |-> version, connected |-> b,
                                    dead |-> FALSE, enabled |-> FALSE, txs |-> <<>>,
                                    changes |-> 0]
    BY <1>1 DEF NewObject
  <2>. QED BY <2>1, <2>2 DEF RadioObject
<1>4. msg \in MessageRecord
  <2>1. <<>> \in Seq(STRING \cup Reserved)
    OBVIOUS
  <2>. QED BY <1>2, <2>1 DEF NoMessage, MessageRecord, MessageKinds, MessageTypes, Statuses
<1>5. calls \in DispatchFrames /\ Calls(calls) = {}
  BY <1>2, OneCall
<1>6. DispatchTypeOK
  BY <1>2, <1>3, <1>4, <1>5 DEF DispatchTypeOK
<1>7. msg.status = "unset" /\ msg.present = 0
  BY <1>2 DEF NoMessage
<1>8. Listened
  BY <1>2, <1>7 DEF Listened
<1>9. Signalled /\ Acknowledged
  BY <1>5, <1>7 DEF Signalled, Acknowledged, Calls
<1>10. Ordered
  BY <1>2, ApartOne DEF Ordered
<1>11. Informed
  BY <1>7 DEF Informed, Delivered
<1>. QED BY <1>6, <1>8, <1>9, <1>10, <1>11 DEF DispatchInv

\* Every step of an object, of its users and of the service keeps the
\* invariant.
LEMMA DispatchStep ==
  ASSUME DispatchTypeOK, DispatchInv, [DispatchNext]_dispatchVars
  PROVE  DispatchTypeOK' /\ DispatchInv'
<1>1. CASE Delivery
  BY <1>1, IndicationKeeps, ResponseKeeps, DiedKeeps DEF Delivery
<1>2. CASE UserAction
  BY <1>2, SendKeeps, CancelTransactionKeeps, SetEnabledKeeps DEF UserAction
<1>3. CASE EndTransaction
  BY <1>3, EndTransactionKeeps
<1>4. CASE Watching
  BY <1>4, WatchingEventKeeps
<1>5. CASE DispatchContinue
  BY <1>5, StartEmissionKeeps, TellKeeps, EndEmissionKeeps, RilConnectedKeeps,
     AckUnhandledKeeps, TransactKeeps, BaseToldKeeps, TransactionEndsKeeps, UseKeeps,
     UseReturnsKeeps DEF DispatchContinue
<1>6. CASE UNCHANGED dispatchVars
  <2>1. radio' = radio /\ subs' = subs /\ calls' = calls /\ msg' = msg
    BY <1>6 DEF dispatchVars
  <2>2. DispatchTypeOK'
    BY <2>1 DEF DispatchTypeOK
  <2>3. <<>> \in DispatchFrames /\ Calls(<<>>) = {} /\ calls' = <<>> \o calls
    BY <2>1, OneCall DEF DispatchTypeOK, DispatchFrames
  <2>. QED BY <2>1, <2>2, <2>3, QuietEnter
<1>. QED BY <1>1, <1>2, <1>3, <1>4, <1>5, <1>6 DEF DispatchNext

\* Whatever listeners do while they are told of a message, the calls in
\* progress keep their order and tell who is to be told.
THEOREM DispatchInvariant == DispatchSpec => [](DispatchTypeOK /\ DispatchInv)
<1>1. DispatchInit => DispatchTypeOK /\ DispatchInv
  BY DispatchInitially
<1>2. DispatchTypeOK /\ DispatchInv /\ [DispatchNext]_dispatchVars
        => (DispatchTypeOK /\ DispatchInv)'
  BY DispatchStep
<1>. QED BY <1>1, <1>2, PTL DEF DispatchSpec

\* A message that asks for it is acknowledged exactly once.
THEOREM AcknowledgedOnce == DispatchSpec => []AckedOnce
<1>1. DispatchTypeOK /\ DispatchInv => AckedOnce
  <2>. SUFFICES ASSUME DispatchTypeOK, DispatchInv, D!Idle, msg.status = "ok"
                PROVE  msg.acks = IF msg.type = "ack_exp" /\ ~IsConfig /\ Desc.ack # 0
                                  THEN 1 ELSE 0
    BY DEF AckedOnce
  <2>1. Calls(calls) = {}
    BY OneCall DEF D!Idle
  <2>2. ~(\E f \in Calls(calls) : Due(f, Desc.ack, msg.handled))
    BY <2>1
  <2>3. CASE Expects
    BY <2>2, <2>3 DEF DispatchInv, Acknowledged, Calls, Expects
  <2>4. CASE ~Expects
    BY <2>4 DEF DispatchInv, Acknowledged, Calls, Expects
  <2>. QED BY <2>3, <2>4
<1>. QED BY <1>1, DispatchInvariant, PTL

\* Those who listen to a message all the time are told of it once, each in
\* its turn, unless a handler before them has taken it.
THEOREM ListenersToldInTurn == DispatchSpec => []ToldInTurn
<1>1. DispatchTypeOK /\ DispatchInv => ToldInTurn
  <2>. SUFFICES ASSUME DispatchTypeOK, DispatchInv, D!Idle, msg.status = "ok",
                       msg.kind \in DOMAIN HandlerSignal
                PROVE  ToldInTurn
    BY DEF ToldInTurn
  <2>1. Delivered
    BY DEF Delivered, HandlerSignal, Kinds
  <2>2. \A i : ~Awaited(i)
    <3>1. Calls(calls) = {}
      BY OneCall DEF D!Idle
    <3>. QED BY <3>1 DEF Awaited, Calls
  <2>3. ASSUME NEW i \in Concerned
        PROVE  \/ Cardinality(Tellings(i)) = 1
               \/ /\ msg.handled /\ subs[i].sig = HandlerSignal[msg.kind]
                  /\ Tellings(i) = {}
    <3>1. \/ \E k \in DOMAIN msg.told : Tellings(i) = {k}
          \/ msg.handled /\ subs[i].sig \in Handling /\ Tellings(i) = {}
      BY <2>1, <2>2 DEF DispatchInv, Informed
    <3>2. \A k : Cardinality({k}) = 1
      BY FS_Singleton
    <3>3. subs[i].sig \in Handling => subs[i].sig = HandlerSignal[msg.kind]
      BY <2>1, KindSignals DEF Concerned, Delivered
    <3>. QED BY <3>1, <3>2, <3>3
  <2>4. ASSUME NEW i \in Concerned, NEW j \in Concerned, Sooner(i, j)
        PROVE  \A k \in Tellings(i), l \in Tellings(j) : k < l
    BY <2>1, <2>4 DEF DispatchInv, Informed
  <2>. QED BY <2>3, <2>4 DEF ToldInTurn, Sooner
<1>. QED BY <1>1, DispatchInvariant, PTL
=============================================================================
