------------------------ MODULE RadioConfigSharedProofs ------------------------
(***************************************************************************)
(* RadioConfigShared: a shared pointer always names the living config of   *)
(* its version, and no config is freed under its own handler, for any      *)
(* number of versions, objects, references and handlers.                   *)
(***************************************************************************)
EXTENDS RadioConfigShared, CallStackProofs

-----------------------------------------------------------------------------
(***************************************************************************)
(* The calls in progress.                                                  *)
(***************************************************************************)

\* A call about a config is a frame.
LEMMA CallType ==
  ASSUME NEW o \in Configs
  PROVE  Call("unref", o) \in Frame /\ Call("observe", o) \in Frame
BY SharedAssumption DEF Call, Frame

\* User code, and then the rest of the procedure that runs it.
LEMMA HandlersThen ==
  ASSUME NEW f \in Frame
  PROVE  /\ Handlers \o <<f>> \in Seq(Frame)
         /\ \A g \in Calls(Handlers \o <<f>>) : g.op = "callback" \/ g = f
<1>1. Call("callback", None) \in Frame
  BY DEF Call, Frame
<1>2. Handlers \in Seq(Frame)
  BY <1>1 DEF Handlers
<1>3. \A g \in Calls(Handlers) : g.op = "callback"
  BY DEF Handlers, Calls, Call
<1>4. <<f>> \in Seq(Frame) /\ Calls(<<f>>) = {f}
  BY StackOne
<1>5. /\ Handlers \o <<f>> \in Seq(Frame)
      /\ Calls(Handlers \o <<f>>) = Calls(Handlers) \cup Calls(<<f>>)
  BY <1>2, <1>4, StackConcat
<1>. QED BY <1>3, <1>4, <1>5

\* CallsAlive speaks of the calls in progress, not of their order.
LEMMA AliveCalls ==
  /\ CallsAlive <=> \A f \in Calls(stack) :
                      f.op = "unref" => conf[f.o].life = "alive"
  /\ CallsAlive' <=> \A f \in Calls(stack') :
                       f.op = "unref" => conf'[f.o].life = "alive"
BY DEF CallsAlive, Calls

-----------------------------------------------------------------------------
(***************************************************************************)
(* The steps.                                                              *)
(***************************************************************************)

\* A step after which the configs are as alive as before and shared as
\* before, and that starts no call about one that is not alive.
LEMMA QuietStep ==
  ASSUME TypeOK, SharedInv,
         conf' \in [Configs -> ConfigRecord],
         \A o \in Configs :
           /\ conf'[o].life = conf[o].life /\ conf'[o].version = conf[o].version
           /\ conf'[o].dead = conf[o].dead /\ conf'[o].bound = conf[o].bound
           /\ conf[o].weak > 0 => conf'[o].weak > 0,
         shared' = shared, up' \subseteq Versions, stack' \in Seq(Frame),
         \A f \in Calls(stack') :
           f.op = "unref" => f \in Calls(stack) \/ conf[f.o].life = "alive"
  PROVE  TypeOK' /\ SharedInv'
<1>1. TypeOK'
  BY DEF TypeOK
<1>2. SharedAlive'
  BY DEF SharedInv, SharedAlive, TypeOK
<1>3. LivingShared'
  BY DEF SharedInv, LivingShared, IsShared
<1>4. CallsAlive'
  <2>1. ASSUME NEW f \in Calls(stack'), f.op = "unref"
        PROVE  conf'[f.o].life = "alive"
    <3>1. conf[f.o].life = "alive"
      BY <2>1, AliveCalls DEF SharedInv
    <3>2. f.o \in Configs
      BY <2>1 DEF Calls, Frame
    <3>. QED BY <3>1, <3>2
  <2>. QED BY <2>1, AliveCalls
<1>5. Unborn'
  BY DEF SharedInv, Unborn
<1>. QED BY <1>1, <1>2, <1>3, <1>4, <1>5 DEF SharedInv

\* References and weak notifications more or less.
LEMMA CountStep ==
  ASSUME TypeOK, SharedInv,
         \/ \E v \in Versions : Share(v) \/ Found(v)
         \/ \E o \in Configs : Unref(o)
  PROVE  TypeOK' /\ SharedInv'
<1> DEFINE Kept ==
             /\ conf' \in [Configs -> ConfigRecord]
             /\ \A x \in Configs :
                  /\ conf'[x].life = conf[x].life
                  /\ conf'[x].version = conf[x].version
                  /\ conf'[x].dead = conf[x].dead
                  /\ conf'[x].bound = conf[x].bound
                  /\ conf[x].weak > 0 => conf'[x].weak > 0
<1>1. ASSUME NEW o \in Configs, NEW r \in ConfigRecord,
             r.life = conf[o].life, r.version = conf[o].version,
             r.dead = conf[o].dead, r.bound = conf[o].bound,
             r.weak >= conf[o].weak,
             conf' = [conf EXCEPT ![o] = r]
      PROVE  Kept
  BY <1>1 DEF TypeOK, ConfigRecord
<1>2. Kept
  <2>1. CASE \E v \in Versions : Share(v)
    <3>1. PICK v \in Versions : Share(v)
      BY <2>1
    <3> DEFINE o == shared[v]
               r == [conf[o] EXCEPT !.refs = conf[o].refs + 1]
    <3>2. o \in Configs /\ conf[o] \in ConfigRecord
      BY <3>1 DEF Share, TypeOK
    <3>3. conf' = [conf EXCEPT ![o] = r]
      BY <3>1 DEF Share
    <3>4. /\ r \in ConfigRecord
          /\ r.life = conf[o].life /\ r.version = conf[o].version
          /\ r.dead = conf[o].dead /\ r.bound = conf[o].bound
          /\ r.weak >= conf[o].weak
      <4>. HIDE DEF o
      <4>. QED BY <3>2 DEF ConfigRecord
    <3>. HIDE DEF o, r, Kept
    <3>. QED BY <1>1, <3>2, <3>3, <3>4
  <2>2. CASE \E v \in Versions : Found(v)
    <3>1. PICK v \in Versions : Found(v)
      BY <2>2
    <3>2. PICK w \in Versions :
            /\ shared[w] # None
            /\ conf' = [conf EXCEPT ![shared[w]].refs = @ + 1,
                                 ![shared[w]].weak = @ + 1]
      BY <3>1 DEF Found
    <3> DEFINE o == shared[w]
               r == [conf[o] EXCEPT !.refs = conf[o].refs + 1,
                                    !.weak = conf[o].weak + 1]
    <3>3. o \in Configs /\ conf[o] \in ConfigRecord
      BY <3>2 DEF TypeOK
    <3>4. conf' = [conf EXCEPT ![o] = r]
      BY <3>2, <3>3 DEF TypeOK, ConfigRecord
    <3>5. /\ r \in ConfigRecord
          /\ r.life = conf[o].life /\ r.version = conf[o].version
          /\ r.dead = conf[o].dead /\ r.bound = conf[o].bound
          /\ r.weak >= conf[o].weak
      <4>. HIDE DEF o
      <4>1. /\ conf[o].refs + 1 \in Nat /\ conf[o].weak \in Nat
            /\ conf[o].weak + 1 \in Nat /\ conf[o].weak + 1 >= conf[o].weak
        BY <3>3 DEF ConfigRecord
      <4>2. r \in ConfigRecord
        BY <3>3, <4>1 DEF ConfigRecord
      <4>3. r.weak = conf[o].weak + 1
        BY <3>3 DEF ConfigRecord
      <4>. QED BY <3>3, <4>1, <4>2, <4>3 DEF ConfigRecord
    <3>. HIDE DEF o, r, Kept
    <3>. QED BY <1>1, <3>3, <3>4, <3>5
  <2>3. CASE \E o \in Configs : Unref(o)
    <3>1. PICK o \in Configs : Unref(o)
      BY <2>3
    <3> DEFINE r == [conf[o] EXCEPT !.refs = conf[o].refs - 1]
    <3>2. conf[o] \in ConfigRecord /\ conf[o].refs > 0
      BY <3>1 DEF Unref, TypeOK
    <3>3. conf' = [conf EXCEPT ![o] = r]
      BY <3>1 DEF Unref
    <3>4. /\ r \in ConfigRecord
          /\ r.life = conf[o].life /\ r.version = conf[o].version
          /\ r.dead = conf[o].dead /\ r.bound = conf[o].bound
          /\ r.weak >= conf[o].weak
      BY <3>2 DEF ConfigRecord
    <3>. HIDE DEF r, Kept
    <3>. QED BY <1>1, <3>2, <3>3, <3>4
  <2>. QED BY <2>1, <2>2, <2>3
<1>3. UNCHANGED <<shared, up, stack>>
  BY DEF Share, Found, Unref
<1>4. up' \subseteq Versions /\ stack' \in Seq(Frame)
  BY <1>3 DEF TypeOK
<1>. QED BY <1>2, <1>3, <1>4, QuietStep

\* Services start and crash.
LEMMA ServiceStep ==
  ASSUME TypeOK, SharedInv, NEW v \in Versions, Start(v) \/ Crash(v)
  PROVE  TypeOK' /\ SharedInv'
<1>1. /\ conf' \in [Configs -> ConfigRecord]
      /\ \A o \in Configs :
           /\ conf'[o].life = conf[o].life /\ conf'[o].version = conf[o].version
           /\ conf'[o].dead = conf[o].dead /\ conf'[o].bound = conf[o].bound
           /\ conf'[o].weak = conf[o].weak
  <2>1. CASE Start(v)
    BY <2>1 DEF Start, TypeOK
  <2>2. CASE Crash(v)
    <3>1. ASSUME NEW o \in Configs
          PROVE  [conf[o] EXCEPT
                    !.lost = @ \/ (conf[o].version = v /\ conf[o].bound)]
                   \in ConfigRecord
      BY DEF TypeOK, ConfigRecord
    <3>. QED BY <2>2, <3>1 DEF Crash, TypeOK, ConfigRecord
  <2>. QED BY <2>1, <2>2
<1>2. UNCHANGED <<shared, stack>> /\ up' \subseteq Versions
  BY DEF Start, Crash, TypeOK
<1>3. stack' \in Seq(Frame)
  BY <1>2 DEF TypeOK
<1>. QED BY <1>1, <1>2, <1>3, QuietStep

\* Messages from the service: their config is alive.
LEMMA MessageStep ==
  ASSUME TypeOK, SharedInv, NEW o \in Configs, Respond(o) \/ Indicate(o)
  PROVE  TypeOK' /\ SharedInv'
<1>1. UNCHANGED <<conf, shared, up>> /\ conf[o].life = "alive"
  BY DEF Respond, Indicate, SharedInv, Unborn
<1>2. PICK op \in {"unref", "observe"} : Enter(Handlers \o <<Call(op, o)>>)
  BY DEF Respond, Indicate
<1>3. Call(op, o) \in Frame /\ Call(op, o).o = o
  BY <1>2, CallType DEF Call
<1>4. /\ stack' \in Seq(Frame)
      /\ Calls(stack')
           = Calls(Handlers \o <<Call(op, o)>>) \cup Calls(stack)
  BY <1>2, <1>3, HandlersThen, StackEnter DEF TypeOK
<1>5. ASSUME NEW f \in Calls(stack'), f.op = "unref"
      PROVE  f \in Calls(stack) \/ conf[f.o].life = "alive"
  BY <1>1, <1>3, <1>4, <1>5, HandlersThen
<1>6. /\ conf' \in [Configs -> ConfigRecord] /\ up' \subseteq Versions
      /\ \A x \in Configs : conf'[x] = conf[x]
  BY <1>1 DEF TypeOK
<1>. QED BY <1>1, <1>4, <1>5, <1>6, QuietStep

\* A call returns.
LEMMA ReturnStep ==
  ASSUME TypeOK, SharedInv, Return
  PROVE  TypeOK' /\ SharedInv'
<1>1. UNCHANGED <<conf, shared, up>> /\ ~Idle /\ Become(<<>>)
  BY DEF Return
<1>2. <<>> \in Seq(Frame) /\ Calls(<<>>) = {}
  BY DEF Calls
<1>3. stack' \in Seq(Frame) /\ Calls(stack') \subseteq Calls(stack)
  BY <1>1, <1>2, StackBecome DEF TypeOK
<1>4. /\ conf' \in [Configs -> ConfigRecord] /\ up' \subseteq Versions
      /\ \A o \in Configs : conf'[o] = conf[o]
  BY <1>1 DEF TypeOK
<1>. QED BY <1>1, <1>3, <1>4, QuietStep

\* A new config, of a version that had none.
LEMMA CreateStep ==
  ASSUME TypeOK, SharedInv, NEW v \in Versions, Create(v)
  PROVE  TypeOK' /\ SharedInv'
<1>1. PICK w \in Versions, o \in Configs :
        /\ shared[w] = None /\ conf[o].life = "unused"
        /\ conf' = [conf EXCEPT ![o] =
                      [@ EXCEPT !.life = "alive", !.version = w, !.refs = 1,
                                !.weak = 1, !.bound = TRUE]]
        /\ shared' = [shared EXCEPT ![w] = o]
  BY DEF Create
<1>2. UNCHANGED <<up, stack>>
  BY DEF Create
<1>3. ~conf[o].dead
  BY <1>1 DEF SharedInv, Unborn
<1>4. /\ conf' \in [Configs -> ConfigRecord]
      /\ conf'[o].life = "alive" /\ conf'[o].version = w
      /\ conf'[o].weak > 0 /\ conf'[o].bound /\ ~conf'[o].dead
      /\ \A x \in Configs : x # o => conf'[x] = conf[x]
  <2>1. conf[o] \in ConfigRecord
    BY DEF TypeOK
  <2>2. [conf[o] EXCEPT !.life = "alive", !.version = w, !.refs = 1,
                        !.weak = 1, !.bound = TRUE] \in ConfigRecord
    BY <2>1 DEF ConfigRecord, Lives
  <2>. QED BY <1>1, <1>3, <2>1, <2>2 DEF TypeOK, ConfigRecord
<1>5. /\ shared' \in [Versions -> Configs \cup {None}] /\ shared'[w] = o
      /\ \A x \in Versions : x # w => shared'[x] = shared[x] /\ shared[x] # o
  <2>1. o # None
    BY SharedAssumption
  <2>. QED BY <1>1, <2>1 DEF TypeOK, SharedInv, SharedAlive
<1>6. TypeOK'
  BY <1>2, <1>4, <1>5 DEF TypeOK
<1>7. SharedAlive'
  BY <1>4, <1>5 DEF SharedInv, SharedAlive, TypeOK
<1>8. LivingShared'
  <2>1. ASSUME NEW x \in Configs, conf'[x].life = "alive", ~conf'[x].dead
        PROVE  \E y \in Versions : conf'[x].version = y /\ shared'[y] = x
    <3>1. CASE x = o
      BY <1>4, <1>5, <3>1
    <3>2. CASE x # o
      <4>1. PICK y \in Versions : conf[x].version = y /\ shared[y] = x
        BY <1>4, <2>1, <3>2 DEF SharedInv, LivingShared, IsShared
      <4>2. y # w
        BY <1>1, <4>1, SharedAssumption
      <4>. QED BY <1>4, <1>5, <3>2, <4>1, <4>2
    <3>. QED BY <3>1, <3>2
  <2>. QED BY <2>1 DEF LivingShared, IsShared
<1>9. CallsAlive'
  <2>1. ASSUME NEW f \in Calls(stack'), f.op = "unref"
        PROVE  conf'[f.o].life = "alive"
    <3>1. conf[f.o].life = "alive" /\ f.o \in Configs
      BY <1>2, <2>1, AliveCalls DEF SharedInv, TypeOK, Calls, Frame
    <3>. QED BY <1>1, <1>4, <3>1
  <2>. QED BY <2>1, AliveCalls
<1>10. Unborn'
  BY <1>4 DEF SharedInv, Unborn
<1>. QED BY <1>6, <1>7, <1>8, <1>9, <1>10 DEF SharedInv

\* A config dies: it was the shared one, and nobody will find it again.
LEMMA DeathNoticeStep ==
  ASSUME TypeOK, SharedInv, NEW o \in Configs, DeathNotice(o)
  PROVE  TypeOK' /\ SharedInv'
<1>1. conf[o].life = "alive" /\ ~conf[o].dead
  BY DEF DeathNotice, SharedInv, Unborn
<1>2. PICK v \in Versions : conf[o].version = v /\ shared[v] = o
  BY <1>1 DEF SharedInv, LivingShared, IsShared
<1>3. o # None /\ conf[o].weak > 0 /\ conf[o] \in ConfigRecord /\ IsShared(o)
  BY <1>2, SharedAssumption DEF SharedInv, SharedAlive, TypeOK, IsShared
<1>4. /\ conf' \in [Configs -> ConfigRecord]
      /\ conf'[o].life = "alive" /\ conf'[o].dead /\ ~conf'[o].bound
      /\ \A x \in Configs : x # o => conf'[x] = conf[x]
  <2>1. conf' = [conf EXCEPT ![o] =
                   [conf[o] EXCEPT !.dead = TRUE, !.bound = FALSE,
                                   !.weak = conf[o].weak - 1]]
    BY <1>3 DEF DeathNotice, WeakLeft
  <2>2. [conf[o] EXCEPT !.dead = TRUE, !.bound = FALSE,
                        !.weak = conf[o].weak - 1] \in ConfigRecord
    <3>1. conf[o].weak - 1 \in Nat
      BY <1>3 DEF ConfigRecord
    <3>. QED BY <1>3, <3>1 DEF ConfigRecord
  <2>. QED BY <1>1, <1>3, <2>1, <2>2 DEF TypeOK, ConfigRecord
<1>5. /\ shared' \in [Versions -> Configs \cup {None}] /\ shared'[v] = None
      /\ \A x \in Versions : x # v => shared'[x] = shared[x] /\ shared[x] # o
  BY <1>2, <1>3 DEF DeathNotice, TypeOK, SharedInv, SharedAlive
<1>6. Call("unref", o) \in Frame /\ Call("unref", o).o = o
  BY CallType DEF Call
<1>7. /\ stack' \in Seq(Frame)
      /\ Calls(stack')
           = Calls(Handlers \o <<Call("unref", o)>>) \cup Calls(stack)
  BY <1>6, HandlersThen, StackEnter DEF DeathNotice, TypeOK
<1>8. TypeOK'
  BY <1>4, <1>5, <1>7 DEF DeathNotice, TypeOK
<1>9. SharedAlive'
  BY <1>4, <1>5 DEF SharedInv, SharedAlive, TypeOK
<1>10. LivingShared'
  <2>1. ASSUME NEW x \in Configs, conf'[x].life = "alive", ~conf'[x].dead
        PROVE  \E y \in Versions : conf'[x].version = y /\ shared'[y] = x
    <3>1. x # o
      BY <1>4, <2>1
    <3>2. PICK y \in Versions : conf[x].version = y /\ shared[y] = x
      BY <1>4, <2>1, <3>1 DEF SharedInv, LivingShared, IsShared
    <3>. QED BY <1>2, <1>4, <1>5, <3>1, <3>2
  <2>. QED BY <2>1 DEF LivingShared, IsShared
<1>11. CallsAlive'
  <2>1. ASSUME NEW f \in Calls(stack'), f.op = "unref"
        PROVE  conf'[f.o].life = "alive"
    <3>1. CASE f \in Calls(stack)
      <4>1. conf[f.o].life = "alive" /\ f.o \in Configs
        BY <2>1, <3>1, AliveCalls DEF SharedInv, TypeOK, Calls, Frame
      <4>. QED BY <1>4, <4>1
    <3>2. CASE f \notin Calls(stack)
      BY <1>4, <1>6, <1>7, <2>1, <3>2, HandlersThen
    <3>. QED BY <3>1, <3>2
  <2>. QED BY <2>1, AliveCalls
<1>12. Unborn'
  BY <1>4 DEF SharedInv, Unborn
<1>. QED BY <1>8, <1>9, <1>10, <1>11, <1>12 DEF SharedInv

\* The last reference goes: only the pointer to this config is cleared, and
\* no call about it is in progress.
LEMMA FreeStep ==
  ASSUME TypeOK, SharedInv, NEW o \in Configs, Free(o)
  PROVE  TypeOK' /\ SharedInv'
<1>1. UNCHANGED <<up, stack>>
  BY DEF Free
<1>2. /\ conf' \in [Configs -> ConfigRecord]
      /\ conf'[o].life = "freed" /\ ~conf'[o].bound
      /\ \A x \in Configs : x # o => conf'[x] = conf[x]
  <2>1. conf[o] \in ConfigRecord
    BY DEF TypeOK
  <2>2. [conf[o] EXCEPT !.life = "freed", !.weak = 0, !.bound = FALSE]
          \in ConfigRecord
    BY <2>1 DEF ConfigRecord, Lives
  <2>. QED BY <2>1, <2>2 DEF Free, TypeOK, ConfigRecord
<1>3. /\ shared' \in [Versions -> Configs \cup {None}]
      /\ \A v \in Versions :
           shared'[v] = IF Cleared(o, v) THEN None ELSE shared[v]
  BY DEF Free, TypeOK
<1>4. \A v \in Versions :
        shared'[v] # None => shared'[v] = shared[v] /\ shared[v] # o
  BY <1>3 DEF SharedInv, SharedAlive, Cleared
<1>5. TypeOK'
  BY <1>1, <1>2, <1>3 DEF TypeOK
<1>6. SharedAlive'
  BY <1>2, <1>4 DEF SharedInv, SharedAlive, TypeOK
<1>7. LivingShared'
  <2>1. ASSUME NEW x \in Configs, conf'[x].life = "alive", ~conf'[x].dead
        PROVE  \E y \in Versions : conf'[x].version = y /\ shared'[y] = x
    <3>1. x # o
      BY <1>2, <2>1
    <3>2. PICK y \in Versions : conf[x].version = y /\ shared[y] = x
      BY <1>2, <2>1, <3>1 DEF SharedInv, LivingShared, IsShared
    <3>. QED BY <1>2, <1>3, <3>1, <3>2 DEF Cleared
  <2>. QED BY <2>1 DEF LivingShared, IsShared
<1>8. CallsAlive'
  <2>1. ASSUME NEW f \in Calls(stack'), f.op = "unref"
        PROVE  conf'[f.o].life = "alive"
    <3>1. /\ conf[f.o].life = "alive" /\ f.o \in Configs
          /\ f \in Frame /\ f \in Calls(stack)
      BY <1>1, <2>1, AliveCalls DEF SharedInv, TypeOK, Calls, Frame
    <3>2. f = Call("unref", f.o)
      BY <2>1, <3>1 DEF Call, Frame
    <3>3. Call("unref", o) \notin Calls(stack)
      BY DEF Free, Garbage, Referenced, Calls
    <3>4. f.o # o
      BY <3>1, <3>2, <3>3
    <3>. QED BY <1>2, <3>1, <3>4
  <2>. QED BY <2>1, AliveCalls
<1>9. Unborn'
  BY <1>2 DEF SharedInv, Unborn
<1>. QED BY <1>5, <1>6, <1>7, <1>8, <1>9 DEF SharedInv

-----------------------------------------------------------------------------
(***************************************************************************)
(* The invariant.                                                          *)
(***************************************************************************)

\* It holds when the library is loaded.
LEMMA SharedInit ==
  ASSUME Init
  PROVE  TypeOK /\ SharedInv
<1>1. TypeOK
  <2>1. [life |-> "unused", version |-> None, refs |-> 0, weak |-> 0,
         dead |-> FALSE, bound |-> FALSE, lost |-> FALSE] \in ConfigRecord
    BY DEF ConfigRecord, Lives
  <2>2. <<>> \in Seq(Frame)
    OBVIOUS
  <2>. QED BY <2>1, <2>2 DEF Init, TypeOK
<1>2. SharedInv
  BY DEF Init, SharedInv, SharedAlive, LivingShared, CallsAlive, Unborn
<1>. QED BY <1>1, <1>2

\* Every step of the library, of its users and of the services keeps it.
LEMMA SharedNext ==
  ASSUME TypeOK, SharedInv, [Next]_vars
  PROVE  TypeOK' /\ SharedInv'
<1>1. CASE User
  BY <1>1, CountStep, CreateStep DEF User
<1>2. CASE Library
  BY <1>2, ReturnStep, FreeStep DEF Library
<1>3. CASE Event
  BY <1>3, ServiceStep, DeathNoticeStep, MessageStep DEF Event
<1>4. CASE UNCHANGED vars
  <2>1. TypeOK'
    BY <1>4 DEF vars, TypeOK
  <2>2. SharedInv'
    BY <1>4 DEF vars, SharedInv, SharedAlive, LivingShared, IsShared,
                CallsAlive, Unborn
  <2>. QED BY <2>1, <2>2
<1>. QED BY <1>1, <1>2, <1>3, <1>4 DEF Next

\* The types of the shared configs and of the calls in progress, together
\* with what makes the properties below inductive.
THEOREM SharedInvariant == Spec => [](TypeOK /\ SharedInv)
<1>1. Init => TypeOK /\ SharedInv
  BY SharedInit
<1>2. (TypeOK /\ SharedInv) /\ [Next]_vars => (TypeOK /\ SharedInv)'
  BY SharedNext
<1>. QED BY <1>1, <1>2, PTL DEF Spec

\* The shared pointers, the configs and the calls in progress are of their
\* types.
THEOREM SharedTypeCorrect == Spec => []TypeOK
BY SharedInvariant, PTL

\* radio_config_new only returns a config that is alive, has not been told
\* to be dead and is of the version it was looked up as.
THEOREM SharedIsAlive == Spec => []SharedAlive
<1>1. TypeOK /\ SharedInv => SharedAlive
  BY DEF SharedInv
<1>. QED BY <1>1, SharedInvariant, PTL

\* Two living configs never have the same version: the pointer of a version
\* names the only one.
THEOREM LivingIsShared == Spec => []LivingShared
<1>1. TypeOK /\ SharedInv => LivingShared
  BY DEF SharedInv
<1>. QED BY <1>1, SharedInvariant, PTL

\* A config is not freed while its response or death handler runs.
THEOREM HandlersKeepAlive == Spec => []CallsAlive
<1>1. TypeOK /\ SharedInv => CallsAlive
  BY DEF SharedInv
<1>. QED BY <1>1, SharedInvariant, PTL
=============================================================================
