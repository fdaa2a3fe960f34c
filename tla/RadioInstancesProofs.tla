------------------------- MODULE RadioInstancesProofs -------------------------
(***************************************************************************)
(* RadioInstances: what the registry tells is what the table holds, the    *)
(* table never points to freed or dead instances, and it goes when it is   *)
(* empty, for any number of slots, objects, references and handlers.       *)
(***************************************************************************)
EXTENDS RadioInstances, CallStackProofs

Frames == Seq(Frame)

-----------------------------------------------------------------------------
(***************************************************************************)
(* The stack.                                                              *)
(***************************************************************************)

\* A call about an instance is a frame, and so is one about none.
LEMMA CallType ==
  /\ \A op \in Ops, o \in Instances : Call(op, o) \in Frame
  /\ Call("callback", None) \in Frame
  /\ Call("removed", None) \in Frame
BY InstancesAssumption DEF Call, Frame, Ops

\* The handlers of a signal, and what radio_instance_remove calls.
LEMMA CallsType ==
  /\ Handlers \in Frames
  /\ \A k \in Keys \cup {None} : RemoveCalls(k) \in Frames
BY CallType DEF Handlers, RemoveCalls, Frames

\* Neither ends an instance.
LEMMA CallsQuiet ==
  /\ \A f \in Calls(Handlers) : f.op = "callback"
  /\ \A k \in Keys \cup {None} : \A f \in Calls(RemoveCalls(k)) :
       f.op \in {"callback", "removed"}
<1>1. \A f \in Calls(Handlers) : f.op = "callback"
  BY DEF Handlers, Calls, Call
<1>2. ASSUME NEW k \in Keys \cup {None}, NEW f \in Calls(RemoveCalls(k))
      PROVE  f.op \in {"callback", "removed"}
  BY DEF RemoveCalls, Handlers, Calls, Call
<1>. QED BY <1>1, <1>2

\* Calls made one after the other.
LEMMA ConcatCalls ==
  ASSUME NEW fs \in Frames, NEW gs \in Frames
  PROVE  fs \o gs \in Frames /\ Calls(fs \o gs) = Calls(fs) \cup Calls(gs)
BY StackConcat DEF Frames

\* One call.
LEMMA OneCall ==
  ASSUME NEW f \in Frame
  PROVE  <<f>> \in Frames /\ Calls(<<f>>) = {f}
BY StackOne DEF Frames

\* Calls put on the stack join those that were there.
LEMMA EnterCalls ==
  ASSUME TypeOK, NEW fs \in Frames, Enter(fs)
  PROVE  stack' \in Frames /\ Calls(stack') = Calls(fs) \cup Calls(stack)
BY StackEnter DEF TypeOK, Frames

\* The same when the running call gives way to others.
LEMMA BecomeCalls ==
  ASSUME TypeOK, ~Idle, NEW fs \in Frames, Become(fs)
  PROVE  /\ stack' \in Frames
         /\ Calls(stack') \subseteq Calls(fs) \cup Calls(stack)
         /\ Calls(fs) \subseteq Calls(stack')
         /\ Calls(stack) \subseteq Calls(stack') \cup {Top}
         /\ Top \in Frame
BY StackBecome DEF TypeOK, Frames

-----------------------------------------------------------------------------
(***************************************************************************)
(* radio_instance_remove.                                                  *)
(***************************************************************************)

\* What it does to the table and to what the registry has told.
LEMMA RemoveTable ==
  ASSUME TypeOK, InstancesInv, NEW k \in Keys \cup {None}, Remove(k)
  PROVE  /\ table' \in [Keys -> Instances \cup {None}]
         /\ told' \in [Keys -> [added: Nat, removed: Nat]]
         /\ k \in Keys => table'[k] = None
         /\ \A x \in Keys : x # k => table'[x] = table[x]
         /\ ToldOfTable'
<1>1. /\ table' \in [Keys -> Instances \cup {None}]
      /\ k \in Keys => table'[k] = None
      /\ \A x \in Keys : x # k => table'[x] = table[x]
  BY DEF Remove, TypeOK
<1>2. told' = ToldRemoved(k) /\ told \in [Keys -> [added: Nat, removed: Nat]]
  BY DEF Remove, TypeOK
<1>3. \A x \in Keys : told[x].added \in Nat /\ told[x].removed \in Nat
  BY <1>2
<1>4. CASE table[k] # None
  <2>1. told' = [told EXCEPT ![k].removed = @ + 1]
    BY <1>2, <1>4 DEF ToldRemoved
  <2>2. /\ k \in Keys => /\ told'[k].added = told[k].added
                         /\ told'[k].removed = told[k].removed + 1
        /\ \A x \in Keys : x # k => told'[x] = told[x]
        /\ told' \in [Keys -> [added: Nat, removed: Nat]]
    <3>1. \A x \in Keys : [told[x] EXCEPT !.removed = @ + 1]
                             \in [added: Nat, removed: Nat]
      BY <1>2
    <3>. QED BY <1>2, <1>3, <2>1, <3>1
  <2>3. ToldOfTable'
    BY <1>1, <1>3, <1>4, <2>2 DEF InstancesInv, ToldOfTable
  <2>. QED BY <1>1, <2>2, <2>3
<1>5. CASE table[k] = None
  <2>1. told' = told /\ \A x \in Keys : table'[x] = table[x]
    BY <1>1, <1>2, <1>5 DEF ToldRemoved
  <2>. QED BY <1>1, <1>2, <2>1 DEF InstancesInv, ToldOfTable
<1>. QED BY <1>4, <1>5

-----------------------------------------------------------------------------
(***************************************************************************)
(* The invariant speaks of the calls in progress, not of their order.      *)
(***************************************************************************)
Dead(k) == table[k] # None /\ inst[table[k]].dead

\* The calls that hold a reference.
Holding(o) == {Call("dying", o), Call("send", o), Call("unref", o)}

\* The parts of the invariant that are about calls.
LEMMA InvCalls ==
  /\ DeadLeave <=>
       \A k \in Keys : Dead(k) => Call("dying", table[k]) \in Calls(stack)
  /\ FinalizedEnded <=>
       \A f \in Calls(stack) :
         f.op = "finalize" => inst[f.o].life \in {"disposed", "freed"}
  /\ TableKept <=>
       IF Empty THEN exists => \E f \in Calls(stack) : f.op = "removed"
       ELSE exists
  /\ BoundEnds <=>
       \A o \in Instances :
         inst[o].bound =>
           inst[o].life = "alive" \/ Call("finalize", o) \in Calls(stack)
  /\ \A o \in Instances : HeldByCall(o) <=> Holding(o) \cap Calls(stack) # {}
BY DEF DeadLeave, FinalizedEnded, TableKept, BoundEnds, HeldByCall, Holding,
       Calls, Dead

\* The same of the next state.
LEMMA InvCallsNext ==
  /\ DeadLeave' <=>
       \A k \in Keys : Dead(k)' => Call("dying", table'[k]) \in Calls(stack')
  /\ FinalizedEnded' <=>
       \A f \in Calls(stack') :
         f.op = "finalize" => inst'[f.o].life \in {"disposed", "freed"}
  /\ TableKept' <=>
       IF Empty' THEN exists' => \E f \in Calls(stack') : f.op = "removed"
       ELSE exists'
  /\ BoundEnds' <=>
       \A o \in Instances :
         inst'[o].bound =>
           inst'[o].life = "alive" \/ Call("finalize", o) \in Calls(stack')
  /\ HeldAlive' <=>
       \A o \in Instances :
         inst'[o].refs > 0 \/ inst'[o].txs > 0
           \/ Holding(o) \cap Calls(stack') # {} => inst'[o].life = "alive"
BY DEF DeadLeave, FinalizedEnded, TableKept, BoundEnds, HeldAlive, HeldByCall,
       Holding, Calls, Dead, Call

\* What is being finalized has ended.
LEMMA FinalizeCall ==
  ASSUME TypeOK, InstancesInv, NEW f \in Calls(stack), f.op = "finalize"
  PROVE  f.o \in Instances /\ inst[f.o].life \in {"disposed", "freed"}
<1>1. f \in Frame
  BY DEF TypeOK, Calls
<1>2. f.o \in Instances
  BY <1>1 DEF Frame
<1>3. FinalizedEnded
  BY DEF InstancesInv
<1>. QED BY <1>2, <1>3, InvCalls

-----------------------------------------------------------------------------
(***************************************************************************)
(* The steps.                                                              *)
(***************************************************************************)

\* A step that leaves the table alone, and the life of instances; who holds
\* or starts to hold a reference has an instance that is alive; and no call
\* that the invariant counts on ends.
LEMMA QuietStep ==
  ASSUME TypeOK, InstancesInv,
         UNCHANGED <<table, exists, told>>, up' \subseteq Keys,
         inst' \in [Instances -> InstanceRecord],
         \A o \in Instances :
           /\ inst'[o].life = inst[o].life /\ inst'[o].key = inst[o].key
           /\ inst'[o].dead = inst[o].dead /\ inst'[o].bound = inst[o].bound
           /\ inst'[o].refs > 0 \/ inst'[o].txs > 0 => inst[o].life = "alive"
           /\ inst'[o].connected =>
                inst[o].connected \/ (inst[o].bound /\ ~inst[o].dead),
         stack' \in Frames,
         \A f \in Calls(stack') :
           \/ f \in Calls(stack) \/ f.op \in {"callback", "observe"}
           \/ f.op \in {"send", "unref"} /\ inst[f.o].life = "alive",
         \A f \in Calls(stack) :
           f.op \in {"dying", "removed", "finalize"} => f \in Calls(stack')
  PROVE  TypeOK' /\ InstancesInv'
<1>1. TypeOK'
  BY DEF TypeOK, Frames
<1>2. \A k \in Keys : table[k] # None => table[k] \in Instances
  BY DEF TypeOK
<1>3. ToldOfTable' /\ TableAlive' /\ UnusedFresh' /\ DeadUnconnected'
  BY <1>2
  DEF InstancesInv, ToldOfTable, TableAlive, UnusedFresh, DeadUnconnected
<1>4. DeadLeave'
  <2>1. ASSUME NEW k \in Keys, Dead(k)'
        PROVE  Call("dying", table'[k]) \in Calls(stack')
    <3>1. Dead(k) /\ Call("dying", table[k]).op = "dying"
      BY <1>2, <2>1 DEF Dead, Call
    <3>. QED BY <3>1, InvCalls DEF InstancesInv
  <2>. QED BY <2>1, InvCallsNext
<1>5. HeldAlive'
  <2>1. ASSUME NEW o \in Instances, NEW f \in Holding(o), f \in Calls(stack')
        PROVE  inst[o].life = "alive"
    <3>1. f.o = o /\ f.op \in {"dying", "send", "unref"}
      BY <2>1 DEF Holding, Call
    <3>2. CASE f \in Calls(stack)
      BY <2>1, <3>2, InvCalls DEF InstancesInv, HeldAlive
    <3>3. CASE f \notin Calls(stack)
      BY <2>1, <3>1, <3>3
    <3>. QED BY <3>2, <3>3
  <2>. QED BY <2>1, InvCallsNext
<1>6. BoundEnds'
  <2>1. ASSUME NEW o \in Instances, inst'[o].bound
        PROVE  inst'[o].life = "alive" \/ Call("finalize", o) \in Calls(stack')
    <3>1. Call("finalize", o).op = "finalize"
      BY DEF Call
    <3>. QED BY <2>1, <3>1, InvCalls DEF InstancesInv
  <2>. QED BY <2>1, InvCallsNext
<1>7. FinalizedEnded'
  <2>1. ASSUME NEW f \in Calls(stack'), f.op = "finalize"
        PROVE  inst'[f.o].life \in {"disposed", "freed"}
    <3>1. f.o \in Instances /\ inst[f.o].life \in {"disposed", "freed"}
      BY <2>1, FinalizeCall
    <3>. QED BY <3>1
  <2>. QED BY <2>1, InvCallsNext
<1>8. TableKept'
  <2>1. Empty' <=> Empty
    BY DEF Empty
  <2>. QED BY <2>1, InvCalls, InvCallsNext DEF InstancesInv
<1>. QED BY <1>1, <1>3, <1>4, <1>5, <1>6, <1>7, <1>8 DEF InstancesInv

\* A reference of a user more or less, or a service that starts or crashes.
LEMMA ReferenceStep ==
  ASSUME TypeOK, InstancesInv,
         \/ \E k \in Keys : Share(k) \/ Start(k) \/ Crash(k)
         \/ \E o \in Instances : Unref(o)
  PROVE  TypeOK' /\ InstancesInv'
<1> DEFINE Kept ==
             /\ inst' \in [Instances -> InstanceRecord]
             /\ \A o \in Instances :
                  /\ inst'[o].life = inst[o].life /\ inst'[o].key = inst[o].key
                  /\ inst'[o].dead = inst[o].dead
                  /\ inst'[o].bound = inst[o].bound
                  /\ inst'[o].refs > 0 \/ inst'[o].txs > 0 =>
                       inst[o].life = "alive"
                  /\ inst'[o].connected = inst[o].connected
<1>1. \A o \in Instances :
        inst[o].refs > 0 \/ inst[o].txs > 0 => inst[o].life = "alive"
  BY DEF InstancesInv, HeldAlive
<1>2. Kept
  <2>1. ASSUME NEW o \in Instances, NEW n \in Nat, inst[o].life = "alive",
               inst' = [inst EXCEPT ![o].refs = n]
        PROVE  Kept
    <3>1. inst[o] \in InstanceRecord /\ inst \in [Instances -> InstanceRecord]
      BY DEF TypeOK
    <3>2. [inst[o] EXCEPT !.refs = n] \in InstanceRecord
      BY <3>1 DEF InstanceRecord
    <3>. QED BY <1>1, <2>1, <3>1, <3>2 DEF InstanceRecord
  <2>2. CASE \E k \in Keys : Share(k)
    <3>1. PICK k \in Keys : Share(k)
      BY <2>2
    <3>2. /\ table[k] \in Instances /\ inst[table[k]].refs + 1 \in Nat
          /\ inst[table[k]].life = "alive"
      BY <3>1 DEF Share, TypeOK, InstanceRecord, InstancesInv, TableAlive
    <3>3. inst' = [inst EXCEPT ![table[k]].refs = inst[table[k]].refs + 1]
      BY <3>1 DEF Share
    <3>. QED BY <2>1, <3>2, <3>3
  <2>3. CASE \E k \in Keys : Start(k)
    BY <1>1, <2>3 DEF Start, TypeOK
  <2>4. CASE \E k \in Keys : Crash(k)
    <3>1. PICK k \in Keys : Crash(k)
      BY <2>4
    <3>2. ASSUME NEW o \in Instances
          PROVE  [inst[o] EXCEPT
                    !.lost = @ \/ (inst[o].key = k /\ inst[o].bound)]
                   \in InstanceRecord
      BY DEF TypeOK, InstanceRecord
    <3>. QED BY <1>1, <3>1, <3>2 DEF Crash, TypeOK, InstanceRecord
  <2>5. CASE \E o \in Instances : Unref(o)
    <3>1. PICK o \in Instances : Unref(o)
      BY <2>5
    <3>2. inst[o].refs - 1 \in Nat /\ inst[o].life = "alive"
      BY <1>1, <3>1 DEF Unref, TypeOK, InstanceRecord
    <3>3. inst' = [inst EXCEPT ![o].refs = inst[o].refs - 1]
      BY <3>1 DEF Unref
    <3>. QED BY <2>1, <3>2, <3>3
  <2>. QED BY <2>2, <2>3, <2>4, <2>5
<1>3. UNCHANGED <<table, exists, told, stack>> /\ up' \subseteq Keys
  BY DEF Share, Start, Crash, Unref, TypeOK
<1>4. stack' \in Frames
  BY <1>3 DEF TypeOK, Frames
<1>. QED BY <1>2, <1>3, <1>4, QuietStep

\* References outlive a step: users and transactions hold none to an instance
\* that is not alive, new calls neither, and what a call holds stays alive.
LEMMA HeldStep ==
  ASSUME TypeOK, InstancesInv,
         \A o \in Instances :
           /\ inst'[o].refs > 0 \/ inst'[o].txs > 0 => inst'[o].life = "alive"
           /\ HeldByCall(o) /\ inst[o].life = "alive" => inst'[o].life = "alive",
         \A f \in Calls(stack') :
           \/ f \in Calls(stack) \/ f.op \notin {"dying", "send", "unref"}
           \/ inst'[f.o].life = "alive"
  PROVE  HeldAlive'
<1>1. ASSUME NEW o \in Instances, NEW f \in Holding(o), f \in Calls(stack')
      PROVE  inst'[o].life = "alive"
  <2>1. f.o = o /\ f.op \in {"dying", "send", "unref"}
    BY <1>1 DEF Holding, Call
  <2>2. CASE f \in Calls(stack)
    <3>1. HeldByCall(o)
      BY <1>1, <2>2, InvCalls
    <3>. QED BY <3>1 DEF InstancesInv, HeldAlive
  <2>3. CASE f \notin Calls(stack)
    BY <1>1, <2>1, <2>3
  <2>. QED BY <2>2, <2>3
<1>. QED BY <1>1, InvCallsNext

\* User code, and then the rest of the procedure that runs it.
LEMMA HandlersThen ==
  ASSUME NEW op \in Ops, NEW o \in Instances
  PROVE  /\ Handlers \o <<Call(op, o)>> \in Frames
         /\ \A f \in Calls(Handlers \o <<Call(op, o)>>) :
              f.op = "callback" \/ f = Call(op, o)
<1>1. Call(op, o) \in Frame
  BY CallType
<1>2. <<Call(op, o)>> \in Frames /\ Calls(<<Call(op, o)>>) = {Call(op, o)}
  BY <1>1, OneCall
<1>3. /\ Handlers \o <<Call(op, o)>> \in Frames
      /\ Calls(Handlers \o <<Call(op, o)>>)
           = Calls(Handlers) \cup Calls(<<Call(op, o)>>)
  BY <1>2, CallsType, ConcatCalls
<1>. QED BY <1>2, <1>3, CallsQuiet

\* Transactions start and end, and messages arrive, for instances that are
\* alive; only one that has its binder objects becomes connected.
LEMMA MessageStep ==
  ASSUME TypeOK, InstancesInv, NEW o \in Instances,
         Transact(o) \/ TxDone(o) \/ Indicate(o) \/ Respond(o)
  PROVE  TypeOK' /\ InstancesInv'
<1>1. UNCHANGED <<table, exists, up, told>>
  BY DEF Transact, TxDone, Indicate, Respond
<1>2. inst[o] \in InstanceRecord /\ inst \in [Instances -> InstanceRecord]
  BY DEF TypeOK
<1>3. inst[o].bound => ~inst[o].dead
  BY DEF InstancesInv, UnusedFresh
<1>4. \A x \in Instances :
        inst[x].refs > 0 \/ inst[x].txs > 0 => inst[x].life = "alive"
  BY DEF InstancesInv, HeldAlive
<1>5. /\ inst' \in [Instances -> InstanceRecord]
      /\ \A x \in Instances :
           /\ inst'[x].life = inst[x].life /\ inst'[x].key = inst[x].key
           /\ inst'[x].dead = inst[x].dead /\ inst'[x].bound = inst[x].bound
           /\ inst'[x].refs > 0 \/ inst'[x].txs > 0 => inst[x].life = "alive"
           /\ inst'[x].connected =>
                inst[x].connected \/ (inst[x].bound /\ ~inst[x].dead)
  <2>1. CASE inst' = inst
    BY <1>2, <1>4, <2>1
  <2>2. CASE TxDone(o)
    <3>1. inst[o].txs - 1 \in Nat /\ inst[o].life = "alive"
      BY <1>2, <1>4, <2>2 DEF TxDone, InstanceRecord
    <3>2. inst' = [inst EXCEPT ![o].txs = inst[o].txs - 1]
      BY <2>2 DEF TxDone
    <3>3. [inst[o] EXCEPT !.txs = inst[o].txs - 1] \in InstanceRecord
      BY <1>2, <3>1 DEF InstanceRecord
    <3>. QED BY <1>2, <1>4, <3>1, <3>2, <3>3 DEF InstanceRecord
  <2>3. CASE inst[o].bound /\ inst' = [inst EXCEPT ![o].connected = TRUE]
    <3>1. [inst[o] EXCEPT !.connected = TRUE] \in InstanceRecord
      BY <1>2 DEF InstanceRecord
    <3>. QED BY <1>2, <1>3, <1>4, <2>3, <3>1 DEF InstanceRecord
  <2>. QED BY <2>1, <2>2, <2>3 DEF Transact, Indicate, Respond
<1>6. PICK op \in {"send", "unref", "observe"} :
        /\ Enter(Handlers \o <<Call(op, o)>>)
        /\ op # "observe" => inst[o].refs > 0 \/ inst[o].txs > 0
  BY DEF Transact, TxDone, Indicate, Respond
<1>7. /\ Handlers \o <<Call(op, o)>> \in Frames
      /\ \A f \in Calls(Handlers \o <<Call(op, o)>>) :
           f.op = "callback" \/ f = Call(op, o)
  <2>1. op \in Ops
    BY <1>6 DEF Ops
  <2>. QED BY <2>1, HandlersThen
<1>8. /\ stack' \in Frames
      /\ Calls(stack')
           = Calls(Handlers \o <<Call(op, o)>>) \cup Calls(stack)
  BY <1>6, <1>7, EnterCalls
<1>9. ASSUME NEW f \in Calls(stack')
      PROVE  \/ f \in Calls(stack) \/ f.op \in {"callback", "observe"}
             \/ f.op \in {"send", "unref"} /\ inst[f.o].life = "alive"
  <2>1. Call(op, o).op = op /\ Call(op, o).o = o
    BY DEF Call
  <2>. QED BY <1>4, <1>6, <1>7, <1>8, <1>9, <2>1
<1>10. up' \subseteq Keys
  BY <1>1 DEF TypeOK
<1>. QED BY <1>1, <1>5, <1>8, <1>9, <1>10, QuietStep

\* The call that sends a transaction still has its reference.
LEMMA SendStep ==
  ASSUME TypeOK, InstancesInv, Send
  PROVE  TypeOK' /\ InstancesInv'
<1>1. UNCHANGED <<table, exists, up, told>>
  BY DEF Send
<1>2. ~Idle /\ Become(<<>>) /\ Top.op = "send"
  BY DEF Send, Running, Top
<1>3. <<>> \in Frames /\ Calls(<<>>) = {}
  BY DEF Frames, Calls
<1>4. /\ stack' \in Frames /\ Calls(stack') \subseteq Calls(stack)
      /\ Calls(stack) \subseteq Calls(stack') \cup {Top}
      /\ Top \in Frame /\ Top \in Calls(stack)
  BY <1>2, <1>3, StackBecome DEF TypeOK, Frames
<1> DEFINE o == Top.o
<1>5. o \in Instances /\ Top = Call("send", o)
  BY <1>2, <1>4 DEF Frame, Call
<1>6. inst[o].life = "alive"
  BY <1>4, <1>5, InvCalls DEF InstancesInv, HeldAlive, Holding
<1>7. \A x \in Instances :
        inst[x].refs > 0 \/ inst[x].txs > 0 => inst[x].life = "alive"
  BY DEF InstancesInv, HeldAlive
<1>8. /\ inst' \in [Instances -> InstanceRecord]
      /\ \A x \in Instances :
           /\ inst'[x].life = inst[x].life /\ inst'[x].key = inst[x].key
           /\ inst'[x].dead = inst[x].dead /\ inst'[x].bound = inst[x].bound
           /\ inst'[x].refs > 0 \/ inst'[x].txs > 0 => inst[x].life = "alive"
           /\ inst'[x].connected = inst[x].connected
  <2>1. CASE inst' = inst
    BY <1>7, <2>1 DEF TypeOK
  <2>2. CASE inst' # inst
    <3>1. inst' = [inst EXCEPT ![o].txs = inst[o].txs + 1]
      BY <2>2 DEF Send
    <3>2. inst[o] \in InstanceRecord /\ inst \in [Instances -> InstanceRecord]
      BY <1>5 DEF TypeOK
    <3>. HIDE DEF o
    <3>3. inst[o].txs + 1 \in Nat
      BY <3>2 DEF InstanceRecord
    <3>4. [inst[o] EXCEPT !.txs = inst[o].txs + 1] \in InstanceRecord
      BY <3>2, <3>3 DEF InstanceRecord
    <3>. QED BY <1>5, <1>6, <1>7, <3>1, <3>2, <3>4 DEF InstanceRecord
  <2>. QED BY <2>1, <2>2
<1>9. up' \subseteq Keys
  BY <1>1 DEF TypeOK
<1>. QED BY <1>1, <1>2, <1>4, <1>8, <1>9, QuietStep

\* A new instance: it was not in the table, and it has no past.
LEMMA CreateStep ==
  ASSUME TypeOK, InstancesInv, NEW k \in Keys, Create(k)
  PROVE  TypeOK' /\ InstancesInv'
<1>1. PICK o \in Instances, c \in BOOLEAN :
        /\ inst[o].life = "unused"
        /\ inst' = [inst EXCEPT ![o] =
                      [@ EXCEPT !.life = "alive", !.key = k, !.refs = 1,
                                !.bound = TRUE, !.connected = c]]
        /\ table' = [table EXCEPT ![k] = o]
  BY DEF Create
<1>2. /\ inst' \in [Instances -> InstanceRecord]
      /\ inst'[o].life = "alive" /\ inst'[o].key = k
      /\ inst'[o].dead = inst[o].dead /\ inst'[o].bound
      /\ \A x \in Instances : x # o => inst'[x] = inst[x]
  <2>1. inst[o] \in InstanceRecord
    BY DEF TypeOK
  <2>2. [inst[o] EXCEPT !.life = "alive", !.key = k, !.refs = 1,
                        !.bound = TRUE, !.connected = c] \in InstanceRecord
    BY <2>1 DEF InstanceRecord, Lives
  <2>. QED BY <1>1, <2>1, <2>2 DEF TypeOK, InstanceRecord
<1>3. /\ table' \in [Keys -> Instances \cup {None}]
      /\ table'[k] = o /\ o # None
      /\ \A x \in Keys : x # k => table'[x] = table[x] /\ table[x] # o
  BY <1>1, InstancesAssumption, SMTT(30) DEF TypeOK, InstancesInv, TableAlive
<1>4. Calls(stack') = Calls(Handlers) \cup Calls(stack) /\ stack' \in Frames
  BY EnterCalls, CallsType DEF Create
<1>5. /\ told' \in [Keys -> [added: Nat, removed: Nat]]
      /\ told'[k].added = told[k].added + 1
      /\ told'[k].removed = told[k].removed
      /\ \A x \in Keys : x # k => told'[x] = told[x]
      /\ told[k].added \in Nat /\ told[k].removed \in Nat
  <2>1. told' = [told EXCEPT ![k].added = told[k].added + 1]
    BY DEF Create
  <2>2. told \in [Keys -> [added: Nat, removed: Nat]]
    BY DEF TypeOK
  <2>3. [told[k] EXCEPT !.added = told[k].added + 1]
          \in [added: Nat, removed: Nat]
    BY <2>2
  <2>. QED BY <2>1, <2>2, <2>3
<1>6. exists' = TRUE /\ ~Empty' /\ up' = up /\ table[k] = None
  BY <1>3 DEF Create, Empty
<1>7. TypeOK'
  BY <1>2, <1>3, <1>4, <1>5, <1>6 DEF TypeOK, Frames
<1>8. ToldOfTable'
  BY <1>3, <1>5, <1>6 DEF InstancesInv, ToldOfTable
<1>9. TableAlive'
  <2>1. ASSUME NEW x \in Keys, table'[x] # None
        PROVE  inst'[table'[x]].life = "alive" /\ inst'[table'[x]].key = x
    <3>1. CASE x = k
      BY <1>2, <1>3, <3>1
    <3>2. CASE x # k
      <4>1. table[x] \in Instances /\ table[x] # o /\ table'[x] = table[x]
        BY <1>3, <2>1, <3>2 DEF TypeOK
      <4>2. inst[table[x]].life = "alive" /\ inst[table[x]].key = x
        BY <2>1, <4>1 DEF InstancesInv, TableAlive
      <4>. QED BY <1>2, <4>1, <4>2
    <3>. QED BY <3>1, <3>2
  <2>. QED BY <2>1 DEF TableAlive
<1>10. DeadLeave'
  <2>1. ~inst[o].dead
    BY <1>1 DEF InstancesInv, UnusedFresh
  <2>2. ASSUME NEW x \in Keys, Dead(x)'
        PROVE  Call("dying", table'[x]) \in Calls(stack')
    <3>1. x # k /\ table'[x] = table[x] /\ Dead(x)
      BY <1>2, <1>3, <2>1, <2>2 DEF Dead, TypeOK
    <3>. QED BY <1>4, <3>1, InvCalls DEF InstancesInv
  <2>. QED BY <2>2, InvCallsNext
<1>11. UnusedFresh' /\ DeadUnconnected'
  <2>1. ~inst[o].dead
    BY <1>1 DEF InstancesInv, UnusedFresh
  <2>. QED BY <1>2, <2>1 DEF InstancesInv, UnusedFresh, DeadUnconnected
<1>12. FinalizedEnded'
  <2>1. ASSUME NEW f \in Calls(stack'), f.op = "finalize"
        PROVE  inst'[f.o].life \in {"disposed", "freed"}
    <3>1. f \in Calls(stack)
      BY <1>4, <2>1, CallsQuiet
    <3>2. f.o \in Instances /\ inst[f.o].life \in {"disposed", "freed"}
      BY <2>1, <3>1, FinalizeCall
    <3>. QED BY <1>1, <1>2, <3>2
  <2>. QED BY <2>1, InvCallsNext
<1>13. TableKept'
  BY <1>6, InvCallsNext
<1>14. HeldAlive'
  <2>1. \A f \in Calls(stack') : f \in Calls(stack) \/ f.op = "callback"
    BY <1>4, CallsQuiet
  <2>2. \A x \in Instances :
          inst[x].refs > 0 \/ inst[x].txs > 0 => inst[x].life = "alive"
    BY DEF InstancesInv, HeldAlive
  <2>3. \A x \in Instances :
          inst'[x].refs > 0 \/ inst'[x].txs > 0 => inst'[x].life = "alive"
    BY <1>2, <2>2
  <2>4. \A x \in Instances : inst[x].life = "alive" => inst'[x].life = "alive"
    BY <1>2
  <2>. QED BY <2>1, <2>3, <2>4, HeldStep
<1>15. BoundEnds'
  BY <1>2, <1>4, InvCalls, InvCallsNext DEF InstancesInv
<1>. QED BY <1>7, <1>8, <1>9, <1>10, <1>11, <1>12, <1>13, <1>14, <1>15
     DEF InstancesInv

\* The death of the service: the instance may still be in the table, but the
\* call that takes it out is in progress.
LEMMA DeathNoticeStep ==
  ASSUME TypeOK, InstancesInv, NEW o \in Instances, DeathNotice(o)
  PROVE  TypeOK' /\ InstancesInv'
<1>1. /\ inst' \in [Instances -> InstanceRecord]
      /\ inst'[o].life = inst[o].life /\ inst'[o].key = inst[o].key
      /\ inst'[o].life = "alive" /\ ~inst'[o].bound /\ ~inst'[o].connected
      /\ inst'[o].refs = inst[o].refs /\ inst'[o].txs = inst[o].txs
      /\ \A x \in Instances : x # o => inst'[x] = inst[x]
  <2>1. inst[o] \in InstanceRecord
    BY DEF TypeOK
  <2>2. [inst[o] EXCEPT !.dead = TRUE, !.bound = FALSE, !.connected = FALSE]
          \in InstanceRecord
    BY <2>1 DEF InstanceRecord
  <2>3. inst[o].life = "alive"
    <3>1. Calls(stack) = {}
      BY DEF DeathNotice, EventTurn, Idle, Calls
    <3>. QED BY <3>1, InvCalls DEF DeathNotice, InstancesInv
  <2>. QED BY <2>1, <2>2, <2>3 DEF DeathNotice, TypeOK, InstanceRecord
<1>2. UNCHANGED <<table, exists, up, told>>
  BY DEF DeathNotice
<1>3. /\ Handlers \o <<Call("dying", o)>> \in Frames
      /\ Calls(Handlers \o <<Call("dying", o)>>)
           = Calls(Handlers) \cup {Call("dying", o)}
  <2>1. Call("dying", o) \in Frame
    BY CallType DEF Ops
  <2>. QED BY <2>1, OneCall, ConcatCalls, CallsType
<1>4. /\ stack' \in Frames
      /\ Calls(stack') = Calls(Handlers \o <<Call("dying", o)>>) \cup Calls(stack)
  BY <1>3, EnterCalls DEF DeathNotice
<1>5. /\ Call("dying", o) \in Calls(stack')
      /\ \A f \in Calls(stack') : f.op # "finalize" \/ f \in Calls(stack)
  <2>1. Call("dying", o).op # "finalize"
    BY DEF Call
  <2>. QED BY <1>3, <1>4, <2>1, CallsQuiet
<1>6. TypeOK'
  BY <1>1, <1>2, <1>4 DEF TypeOK, Frames
<1>7. ToldOfTable' /\ UnusedFresh' /\ DeadUnconnected'
  <2>1. ToldOfTable'
    BY <1>2 DEF InstancesInv, ToldOfTable
  <2>2. UnusedFresh'
    BY <1>1 DEF InstancesInv, UnusedFresh
  <2>3. DeadUnconnected'
    BY <1>1 DEF InstancesInv, DeadUnconnected
  <2>. QED BY <2>1, <2>2, <2>3
<1>8. TableAlive'
  <2>1. \A x \in Instances :
          inst'[x].life = inst[x].life /\ inst'[x].key = inst[x].key
    BY <1>1
  <2>2. \A k \in Keys : table[k] # None => table[k] \in Instances
    BY DEF TypeOK
  <2>. QED BY <1>2, <2>1, <2>2 DEF InstancesInv, TableAlive
<1>9. DeadLeave'
  <2>1. ASSUME NEW k \in Keys, Dead(k)'
        PROVE  Call("dying", table'[k]) \in Calls(stack')
    <3>1. CASE table[k] = o
      BY <1>2, <1>5, <3>1
    <3>2. CASE table[k] # o
      <4>1. Dead(k)
        BY <1>1, <1>2, <2>1, <3>2 DEF Dead, TypeOK
      <4>. QED BY <1>2, <1>4, <4>1, InvCalls DEF InstancesInv
    <3>. QED BY <3>1, <3>2
  <2>. QED BY <2>1, InvCallsNext
<1>10. FinalizedEnded'
  <2>1. ASSUME NEW f \in Calls(stack'), f.op = "finalize"
        PROVE  inst'[f.o].life \in {"disposed", "freed"}
    <3>1. f \in Calls(stack)
      BY <1>5, <2>1
    <3>2. f.o \in Instances /\ inst[f.o].life \in {"disposed", "freed"}
      BY <2>1, <3>1, FinalizeCall
    <3>. QED BY <1>1, <3>2
  <2>. QED BY <2>1, InvCallsNext
<1>11. TableKept'
  <2>1. Empty' = Empty
    BY <1>2 DEF Empty
  <2>. QED BY <1>2, <1>4, <2>1, InvCalls, InvCallsNext DEF InstancesInv
<1>12. HeldAlive'
  <2>1. \A f \in Calls(stack') :
          f \in Calls(stack) \/ f.op = "callback" \/ inst'[f.o].life = "alive"
    <3>1. Call("dying", o).o = o
      BY DEF Call
    <3>. QED BY <1>1, <1>3, <1>4, <3>1, CallsQuiet
  <2>2. \A x \in Instances :
          inst[x].refs > 0 \/ inst[x].txs > 0 => inst[x].life = "alive"
    BY DEF InstancesInv, HeldAlive
  <2>. QED BY <1>1, <2>1, <2>2, HeldStep
<1>13. BoundEnds'
  <2>1. ASSUME NEW x \in Instances, inst'[x].bound
        PROVE  inst'[x].life = "alive" \/ Call("finalize", x) \in Calls(stack')
    <3>1. x # o
      BY <1>1, <2>1
    <3>. QED BY <1>1, <1>4, <2>1, <3>1, InvCalls DEF InstancesInv
  <2>. QED BY <2>1, InvCallsNext
<1>. QED BY <1>6, <1>7, <1>8, <1>9, <1>10, <1>11, <1>12, <1>13 DEF InstancesInv

\* The key of an instance that was created.
LEMMA KeyOfDying ==
  ASSUME TypeOK, InstancesInv, NEW k \in Keys, Dead(k)
  PROVE  table[k] \in Instances /\ inst[table[k]].key = k
BY DEF Dead, TypeOK, InstancesInv, TableAlive

\* What leaves the table is followed by the check for an empty table.
LEMMA RemoveCheck ==
  ASSUME NEW k \in Keys \cup {None}, table[k] # None
  PROVE  Call("removed", None) \in Calls(RemoveCalls(k))
<1>1. RemoveCalls(k) = Handlers \o <<Call("removed", None)>>
  BY DEF RemoveCalls
<1>2. Calls(RemoveCalls(k)) = Calls(Handlers) \cup {Call("removed", None)}
  BY <1>1, CallType, CallsType, OneCall, ConcatCalls
<1>. QED BY <1>2

\* Hence radio_instance_remove keeps the table as long as it has something.
LEMMA RemoveKept ==
  ASSUME TypeOK, InstancesInv, NEW k \in Keys \cup {None}, Remove(k),
         exists' = exists, Calls(RemoveCalls(k)) \subseteq Calls(stack'),
         \A f \in Calls(stack) : f.op = "removed" => f \in Calls(stack')
  PROVE  TableKept'
<1>1. /\ k \in Keys => table'[k] = None
      /\ \A x \in Keys : x # k => table'[x] = table[x]
  BY RemoveTable
<1>2. ~Empty' => ~Empty
  BY <1>1 DEF Empty
<1>3. CASE table[k] # None
  <2>1. Call("removed", None) \in Calls(stack') /\ Call("removed", None).op = "removed"
    BY <1>3, RemoveCheck DEF Call
  <2>. QED BY <1>2, <2>1, InvCalls, InvCallsNext DEF InstancesInv
<1>4. CASE table[k] = None
  <2>1. Empty' <=> Empty
    BY <1>1, <1>4 DEF Empty
  <2>. QED BY <2>1, InvCalls, InvCallsNext DEF InstancesInv
<1>. QED BY <1>3, <1>4

\* The end of radio_instance_remove.
LEMMA RemovedStep ==
  ASSUME TypeOK, InstancesInv, Removed
  PROVE  TypeOK' /\ InstancesInv'
<1>1. UNCHANGED <<inst, table, up, told>> /\ exists' = DropTable
  BY DEF Removed
<1>2. <<>> \in Frames /\ Calls(<<>>) = {}
  BY DEF Frames, Calls
<1>3. /\ stack' \in Frames /\ Calls(stack') \subseteq Calls(stack)
      /\ Calls(stack) \subseteq Calls(stack') \cup {Top}
  BY <1>2, BecomeCalls DEF Removed, Running
<1>4. TypeOK'
  BY <1>1, <1>3 DEF TypeOK, Frames, DropTable
<1>5. ToldOfTable' /\ TableAlive' /\ UnusedFresh' /\ DeadUnconnected'
  BY <1>1
  DEF InstancesInv, ToldOfTable, TableAlive, UnusedFresh, DeadUnconnected
<1>6. DeadLeave'
  <2>1. ASSUME NEW k \in Keys, Dead(k)'
        PROVE  Call("dying", table'[k]) \in Calls(stack')
    <3>1. Dead(k) /\ table'[k] = table[k]
      BY <1>1, <2>1 DEF Dead
    <3>2. Call("dying", table[k]) # Top
      BY DEF Removed, Running, Top, Call
    <3>. QED BY <1>3, <3>1, <3>2, InvCalls DEF InstancesInv
  <2>. QED BY <2>1, InvCallsNext
<1>7. FinalizedEnded'
  BY <1>1, <1>3, InvCalls, InvCallsNext DEF InstancesInv
<1>8. TableKept'
  <2>1. Empty' <=> Empty
    BY <1>1 DEF Empty
  <2>2. ~Empty => exists
    BY DEF InstancesInv, TableKept
  <2>. QED BY <1>1, <2>1, <2>2, InvCallsNext DEF DropTable
<1>9. HeldAlive'
  <2>1. \A x \in Instances :
          inst[x].refs > 0 \/ inst[x].txs > 0 => inst[x].life = "alive"
    BY DEF InstancesInv, HeldAlive
  <2>. QED BY <1>1, <1>3, <2>1, HeldStep
<1>10. BoundEnds'
  <2>1. \A x \in Instances : Call("finalize", x) # Top
    BY DEF Removed, Running, Top, Call
  <2>. QED BY <1>1, <1>3, <2>1, InvCalls, InvCallsNext DEF InstancesInv
<1>. QED BY <1>4, <1>5, <1>6, <1>7, <1>8, <1>9, <1>10 DEF InstancesInv

\* A handler returns, or a reference held by a call is given back.
LEMMA ReturnStep ==
  ASSUME TypeOK, InstancesInv, Return
  PROVE  TypeOK' /\ InstancesInv'
<1>1. UNCHANGED <<inst, table, exists, up, told>>
  BY DEF Return
<1>2. <<>> \in Frames /\ Calls(<<>>) = {}
  BY DEF Frames, Calls
<1>3. ~Idle /\ Become(<<>>) /\ Top.op \in {"callback", "observe", "unref"}
  BY DEF Return, Running, Top
<1>4. /\ stack' \in Frames /\ Calls(stack') \subseteq Calls(stack)
      /\ Calls(stack) \subseteq Calls(stack') \cup {Top}
  BY <1>2, <1>3, BecomeCalls
<1>5. /\ inst' \in [Instances -> InstanceRecord] /\ up' \subseteq Keys
      /\ \A o \in Instances : inst'[o] = inst[o]
  BY <1>1 DEF TypeOK
<1>6. \A o \in Instances :
        inst[o].refs > 0 \/ inst[o].txs > 0 => inst[o].life = "alive"
  BY DEF InstancesInv, HeldAlive
<1>. QED BY <1>1, <1>3, <1>4, <1>5, <1>6, QuietStep

\* The last reference goes: the key of the instance leaves the table, and
\* with it the instance, if it was still there.
LEMMA GoneStep ==
  ASSUME TypeOK, InstancesInv, NEW o \in Instances, Gone(o)
  PROVE  TypeOK' /\ InstancesInv'
<1> DEFINE k == inst[o].key
           fs == RemoveCalls(k) \o <<Call("finalize", o)>>
<1>1. /\ inst' \in [Instances -> InstanceRecord]
      /\ inst[o].life = "alive" /\ inst'[o].life = "disposed"
      /\ inst'[o].bound = inst[o].bound /\ inst'[o].dead = inst[o].dead
      /\ inst'[o].refs = inst[o].refs /\ inst'[o].txs = inst[o].txs
      /\ k \in Keys \cup {None}
      /\ \A x \in Instances : x # o => inst'[x] = inst[x]
  <2>1. inst[o] \in InstanceRecord
    BY DEF TypeOK
  <2>2. [inst[o] EXCEPT !.life = "disposed"] \in InstanceRecord
    BY <2>1 DEF InstanceRecord, Lives
  <2>. QED BY <2>1, <2>2 DEF Gone, Garbage, TypeOK, InstanceRecord
<1>2. Remove(k) /\ exists' = exists /\ up' = up /\ Enter(fs)
  BY DEF Gone
<1>3. /\ table' \in [Keys -> Instances \cup {None}]
      /\ told' \in [Keys -> [added: Nat, removed: Nat]]
      /\ k \in Keys => table'[k] = None
      /\ \A x \in Keys : x # k => table'[x] = table[x]
      /\ ToldOfTable'
  BY <1>1, <1>2, RemoveTable
<1>4. /\ fs \in Frames
      /\ Calls(fs) = Calls(RemoveCalls(k)) \cup {Call("finalize", o)}
  <2>1. Call("finalize", o) \in Frame
    BY CallType DEF Ops
  <2>2. RemoveCalls(k) \in Frames
    BY <1>1, CallsType
  <2>. QED BY <2>1, <2>2, OneCall, ConcatCalls
<1>5. stack' \in Frames /\ Calls(stack') = Calls(fs) \cup Calls(stack)
  BY <1>2, <1>4, EnterCalls
<1>6. TypeOK'
  BY <1>1, <1>2, <1>3, <1>5 DEF TypeOK, Frames
<1>7. \A x \in Keys : table'[x] # None => table'[x] = table[x] /\ table[x] # o
  BY <1>3 DEF InstancesInv, TableAlive
<1>8. TableAlive'
  BY <1>1, <1>3, <1>7 DEF InstancesInv, TableAlive, TypeOK
<1>9. DeadLeave'
  <2>1. ASSUME NEW x \in Keys, Dead(x)'
        PROVE  Call("dying", table'[x]) \in Calls(stack')
    <3>1. Dead(x) /\ table'[x] = table[x]
      BY <1>1, <1>7, <2>1 DEF Dead, TypeOK
    <3>. QED BY <1>5, <3>1, InvCalls DEF InstancesInv
  <2>. QED BY <2>1, InvCallsNext
<1>10. UnusedFresh' /\ DeadUnconnected'
  BY <1>1 DEF InstancesInv, UnusedFresh, DeadUnconnected
<1>11. FinalizedEnded'
  <2>1. ASSUME NEW f \in Calls(stack'), f.op = "finalize"
        PROVE  inst'[f.o].life \in {"disposed", "freed"}
    <3>1. CASE f = Call("finalize", o)
      BY <1>1, <3>1 DEF Call
    <3>2. CASE f # Call("finalize", o)
      <4>1. f \in Calls(stack)
        BY <1>1, <1>4, <1>5, <2>1, <3>2, CallsQuiet
      <4>2. f.o \in Instances /\ inst[f.o].life \in {"disposed", "freed"}
        BY <2>1, <4>1, FinalizeCall
      <4>. QED BY <1>1, <4>2
    <3>. QED BY <3>1, <3>2
  <2>. QED BY <2>1, InvCallsNext
<1>12. TableKept'
  <2>1. /\ Calls(RemoveCalls(k)) \subseteq Calls(stack')
        /\ \A f \in Calls(stack) : f.op = "removed" => f \in Calls(stack')
    BY <1>4, <1>5
  <2>. QED BY <1>1, <1>2, <2>1, RemoveKept
<1>13. HeldAlive'
  <2>1. ~(inst[o].refs > 0) /\ ~(inst[o].txs > 0) /\ ~HeldByCall(o)
    BY DEF Gone, Garbage, Referenced
  <2>2. \A f \in Calls(stack') :
          f \in Calls(stack) \/ f.op \notin {"dying", "send", "unref"}
    <3>1. Call("finalize", o).op = "finalize"
      BY DEF Call
    <3>. QED BY <1>1, <1>4, <1>5, <3>1, CallsQuiet
  <2>3. \A x \in Instances :
          inst[x].refs > 0 \/ inst[x].txs > 0 => inst[x].life = "alive"
    BY DEF InstancesInv, HeldAlive
  <2>. QED BY <1>1, <2>1, <2>2, <2>3, HeldStep
<1>14. BoundEnds'
  BY <1>1, <1>4, <1>5, InvCalls, InvCallsNext DEF InstancesInv
<1>. QED BY <1>3, <1>6, <1>8, <1>9, <1>10, <1>11, <1>12, <1>13, <1>14
     DEF InstancesInv


\* The end of an instance, which is no longer in the table.
LEMMA FinalizeStep ==
  ASSUME TypeOK, InstancesInv, Finalize
  PROVE  TypeOK' /\ InstancesInv'
<1> DEFINE o == Top.o
<1>1. UNCHANGED <<table, exists, up, told>>
  BY DEF Finalize
<1>2. <<>> \in Frames /\ Calls(<<>>) = {}
  BY DEF Frames, Calls
<1>3. ~Idle /\ Become(<<>>) /\ Top.op = "finalize"
  BY DEF Finalize, Running, Top
<1>4. /\ stack' \in Frames /\ Calls(stack') \subseteq Calls(stack)
      /\ Calls(stack) \subseteq Calls(stack') \cup {Top}
      /\ Top \in Frame
  BY <1>2, <1>3, BecomeCalls
<1>5. o \in Instances /\ inst[o].life \in {"disposed", "freed"}
  <2>1. Top \in Calls(stack)
    BY <1>3 DEF TypeOK, Idle, Top, Calls
  <2>. QED BY <1>3, <1>4, <2>1, InvCalls DEF InstancesInv, Frame
<1>6. /\ inst' \in [Instances -> InstanceRecord]
      /\ inst'[o].life = "freed" /\ ~inst'[o].bound
      /\ inst'[o].refs = inst[o].refs /\ inst'[o].txs = inst[o].txs
      /\ \A x \in Instances : x # o => inst'[x] = inst[x]
  <2>1. [inst[o] EXCEPT !.life = "freed", !.bound = FALSE] \in InstanceRecord
    <3>1. inst[o] \in InstanceRecord
      BY <1>5 DEF TypeOK
    <3>. HIDE DEF o
    <3>. QED BY <3>1 DEF InstanceRecord, Lives
  <2>2. inst' = [inst EXCEPT ![o] =
                   [inst[o] EXCEPT !.life = "freed", !.bound = FALSE]]
    BY DEF Finalize
  <2>. QED BY <1>5, <2>1, <2>2 DEF TypeOK, InstanceRecord
<1>7. TypeOK'
  BY <1>1, <1>4, <1>6 DEF TypeOK, Frames
<1>8. \A k \in Keys : table[k] # None => table[k] # o /\ table[k] \in Instances
  BY <1>5 DEF InstancesInv, TableAlive, TypeOK
<1>9. ToldOfTable' /\ UnusedFresh' /\ DeadUnconnected'
  BY <1>1, <1>6
  DEF InstancesInv, ToldOfTable, UnusedFresh, DeadUnconnected
<1>10. TableAlive'
  BY <1>1, <1>6, <1>8 DEF InstancesInv, TableAlive
<1>11. DeadLeave'
  <2>1. ASSUME NEW k \in Keys, Dead(k)'
        PROVE  Call("dying", table'[k]) \in Calls(stack')
    <3>1. Dead(k) /\ table'[k] = table[k]
      BY <1>1, <1>6, <1>8, <2>1 DEF Dead
    <3>2. Call("dying", table[k]) # Top
      BY <1>3 DEF Call
    <3>. QED BY <1>4, <3>1, <3>2, InvCalls DEF InstancesInv
  <2>. QED BY <2>1, InvCallsNext
<1>12. FinalizedEnded'
  <2>1. ASSUME NEW f \in Calls(stack'), f.op = "finalize"
        PROVE  inst'[f.o].life \in {"disposed", "freed"}
    <3>1. f \in Calls(stack)
      BY <1>4, <2>1
    <3>2. f.o \in Instances /\ inst[f.o].life \in {"disposed", "freed"}
      BY <2>1, <3>1, FinalizeCall
    <3>. QED BY <1>6, <3>2
  <2>. QED BY <2>1, InvCallsNext
<1>13. TableKept'
  <2>1. Empty' <=> Empty
    BY <1>1 DEF Empty
  <2>. QED BY <1>1, <1>3, <1>4, <2>1, InvCalls, InvCallsNext DEF InstancesInv
<1>14. HeldAlive'
  <2>1. \A x \in Instances :
          inst[x].refs > 0 \/ inst[x].txs > 0 => inst[x].life = "alive"
    BY DEF InstancesInv, HeldAlive
  <2>2. \A x \in Instances :
          /\ inst'[x].refs > 0 \/ inst'[x].txs > 0 => inst'[x].life = "alive"
          /\ inst[x].life = "alive" => inst'[x].life = "alive"
    BY <1>5, <1>6, <2>1
  <2>. QED BY <1>4, <2>2, HeldStep
<1>15. BoundEnds'
  <2>1. ASSUME NEW x \in Instances, inst'[x].bound
        PROVE  inst'[x].life = "alive" \/ Call("finalize", x) \in Calls(stack')
    <3>1. x # o /\ inst'[x] = inst[x]
      BY <1>6, <2>1
    <3>2. Call("finalize", x) # Top
      BY <3>1 DEF Call
    <3>. QED BY <1>4, <2>1, <3>1, <3>2, InvCalls DEF InstancesInv
  <2>. QED BY <2>1, InvCallsNext
<1>. QED BY <1>7, <1>9, <1>10, <1>11, <1>12, <1>13, <1>14, <1>15
     DEF InstancesInv

\* The key of a dead instance leaves the table after its users were told: no
\* other dead instance has that key, and if the table has a newer instance
\* there, it goes too.
LEMMA DyingStep ==
  ASSUME TypeOK, InstancesInv, Dying
  PROVE  TypeOK' /\ InstancesInv'
<1> DEFINE o == Top.o
           k == inst[o].key
           fs == RemoveCalls(k) \o <<Call("unref", o)>>
<1>1. ~Idle /\ Top.op = "dying" /\ Become(fs) /\ Remove(k)
  BY DEF Dying, Running, Top
<1>2. UNCHANGED <<inst, exists, up>>
  BY DEF Dying
<1>3. Top \in Frame
  BY <1>1 DEF TypeOK, Idle, Top
<1>4. o \in Instances /\ k \in Keys \cup {None}
  BY <1>1, <1>3 DEF Frame, TypeOK, InstanceRecord
<1>5. /\ table' \in [Keys -> Instances \cup {None}]
      /\ told' \in [Keys -> [added: Nat, removed: Nat]]
      /\ k \in Keys => table'[k] = None
      /\ \A x \in Keys : x # k => table'[x] = table[x]
      /\ ToldOfTable'
  BY <1>1, <1>4, RemoveTable
<1>6. /\ fs \in Frames
      /\ Calls(fs) = Calls(RemoveCalls(k)) \cup {Call("unref", o)}
  <2>1. Call("unref", o) \in Frame
    BY <1>4, CallType DEF Ops
  <2>2. RemoveCalls(k) \in Frames
    BY <1>4, CallsType
  <2>. QED BY <2>1, <2>2, OneCall, ConcatCalls
<1>7. /\ stack' \in Frames
      /\ Calls(stack') \subseteq Calls(fs) \cup Calls(stack)
      /\ Calls(fs) \subseteq Calls(stack')
      /\ Calls(stack) \subseteq Calls(stack') \cup {Top}
  BY <1>1, <1>6, BecomeCalls
<1>8. TypeOK'
  BY <1>2, <1>5, <1>7 DEF TypeOK, Frames
<1>9. \A x \in Keys : table'[x] # None => x # k /\ table'[x] = table[x]
  BY <1>5
<1>10. TableAlive' /\ UnusedFresh' /\ DeadUnconnected'
  BY <1>2, <1>9 DEF InstancesInv, TableAlive, UnusedFresh, DeadUnconnected
<1>11. DeadLeave'
  <2>1. ASSUME NEW x \in Keys, Dead(x)'
        PROVE  Call("dying", table'[x]) \in Calls(stack')
    <3>1. Dead(x) /\ table'[x] = table[x] /\ x # k
      BY <1>2, <1>9, <2>1 DEF Dead
    <3>2. Call("dying", table[x]) # Top
      BY <3>1, KeyOfDying DEF Call
    <3>. QED BY <1>7, <3>1, <3>2, InvCalls DEF InstancesInv
  <2>. QED BY <2>1, InvCallsNext
<1>12. FinalizedEnded'
  <2>1. ASSUME NEW f \in Calls(stack'), f.op = "finalize"
        PROVE  f \in Calls(stack)
    BY <1>4, <1>6, <1>7, <2>1, CallsQuiet DEF Call
  <2>. QED BY <1>2, <2>1, InvCalls, InvCallsNext DEF InstancesInv
<1>13. TableKept'
  <2>1. /\ Calls(RemoveCalls(k)) \subseteq Calls(stack')
        /\ \A f \in Calls(stack) : f.op = "removed" => f \in Calls(stack')
    BY <1>1, <1>6, <1>7
  <2>. QED BY <1>1, <1>2, <1>4, <2>1, RemoveKept
<1>14. HeldAlive'
  <2>1. inst[o].life = "alive"
    <3>1. Top = Call("dying", o)
      BY <1>1, <1>3 DEF Frame, Call
    <3>2. Top \in Calls(stack)
      BY <1>1 DEF TypeOK, Idle, Top, Calls
    <3>. QED BY <1>4, <3>1, <3>2, InvCalls DEF InstancesInv, HeldAlive, Holding
  <2>2. \A f \in Calls(stack') :
          \/ f \in Calls(stack) \/ f.op \notin {"dying", "send", "unref"}
          \/ inst'[f.o].life = "alive"
    <3>1. Call("unref", o).o = o
      BY DEF Call
    <3>. QED BY <1>2, <1>4, <1>6, <1>7, <2>1, <3>1, CallsQuiet
  <2>3. \A x \in Instances :
          inst[x].refs > 0 \/ inst[x].txs > 0 => inst[x].life = "alive"
    BY DEF InstancesInv, HeldAlive
  <2>. QED BY <1>2, <2>2, <2>3, HeldStep
<1>15. BoundEnds'
  <2>1. \A x \in Instances : Call("finalize", x) # Top
    BY <1>1 DEF Call
  <2>. QED BY <1>2, <1>7, <2>1, InvCalls, InvCallsNext DEF InstancesInv
<1>. QED BY <1>5, <1>8, <1>10, <1>11, <1>12, <1>13, <1>14, <1>15
     DEF InstancesInv

-----------------------------------------------------------------------------
(***************************************************************************)
(* The invariant.                                                          *)
(***************************************************************************)

\* It holds when the library is loaded.
LEMMA InstancesInit ==
  ASSUME Init
  PROVE  TypeOK /\ InstancesInv
<1>1. TypeOK
  <2>1. [life |-> "unused", key |-> None, refs |-> 0, txs |-> 0,
         connected |-> FALSE, dead |-> FALSE, bound |-> FALSE, lost |-> FALSE]
          \in InstanceRecord
    BY DEF InstanceRecord, Lives
  <2>2. [added |-> 0, removed |-> 0] \in [added: Nat, removed: Nat]
    OBVIOUS
  <2>3. <<>> \in Seq(Frame)
    OBVIOUS
  <2>. QED BY <2>1, <2>2, <2>3 DEF Init, TypeOK
<1>2. InstancesInv
  BY DEF Init, InstancesInv, ToldOfTable, TableAlive, DeadLeave, UnusedFresh,
         BoundEnds, HeldAlive, HeldByCall, DeadUnconnected, FinalizedEnded,
         TableKept, Empty
<1>. QED BY <1>1, <1>2

\* Every step of the library, of its users and of the services keeps it.
LEMMA InstancesNext ==
  ASSUME TypeOK, InstancesInv, [Next]_vars
  PROVE  TypeOK' /\ InstancesInv'
<1>1. CASE User
  BY <1>1, ReferenceStep, CreateStep, MessageStep DEF User
<1>2. CASE Library
  BY <1>2, SendStep, RemovedStep, DyingStep, ReturnStep, FinalizeStep, GoneStep
  DEF Library
<1>3. CASE Event
  BY <1>3, ReferenceStep, DeathNoticeStep, MessageStep DEF Event
<1>4. CASE UNCHANGED vars
  <2>1. TypeOK'
    BY <1>4 DEF vars, TypeOK
  <2>2. InstancesInv'
    BY <1>4 DEF vars, InstancesInv, ToldOfTable, TableAlive, DeadLeave,
                UnusedFresh, BoundEnds, HeldAlive, HeldByCall, DeadUnconnected,
                FinalizedEnded, TableKept, Empty
  <2>. QED BY <2>1, <2>2
<1>. QED BY <1>1, <1>2, <1>3, <1>4 DEF Next

\* The types of radio_instance.c's table, its instances and the calls in
\* progress, together with what makes the properties below inductive.
THEOREM InstancesInvariant == Spec => [](TypeOK /\ InstancesInv)
<1>1. Init => TypeOK /\ InstancesInv
  BY InstancesInit
<1>2. (TypeOK /\ InstancesInv) /\ [Next]_vars => (TypeOK /\ InstancesInv)'
  BY InstancesNext
<1>. QED BY <1>1, <1>2, PTL DEF Spec

\* The table, the instances and the calls in progress are of their types: no
\* call is about an instance that does not exist.
THEOREM InstancesTypeCorrect == Spec => []TypeOK
BY InstancesInvariant, PTL

\* The registry has told of exactly the instances the table holds, however
\* its handlers call radio_instance_new and radio_instance_unref.
THEOREM RegistryTellsOfTable == Spec => []ToldOfTable
<1>1. TypeOK /\ InstancesInv => ToldOfTable
  BY DEF InstancesInv
<1>. QED BY <1>1, InstancesInvariant, PTL

\* radio_instance_new never returns a freed object, nor one of another slot.
THEOREM TablePointsToLive == Spec => []TableAlive
<1>1. TypeOK /\ InstancesInv => TableAlive
  BY DEF InstancesInv
<1>. QED BY <1>1, InstancesInvariant, PTL

\* A dead instance is in the table only until radio_instance_died has told
\* its users, so radio_instance_new connects to the restarted service.
THEOREM DeadLeaveTable == Spec => []DeadLeave
<1>1. TypeOK /\ InstancesInv => DeadLeave
  BY DEF InstancesInv
<1>. QED BY <1>1, InstancesInvariant, PTL

\* No instance is disposed of while a user or a transaction refers to it, or
\* while it is told of its death.
THEOREM HeldStayAlive == Spec => []HeldAlive
<1>1. TypeOK /\ InstancesInv => HeldAlive
  BY DEF InstancesInv
<1>. QED BY <1>1, InstancesInvariant, PTL

\* An instance that has died is never connected again.
THEOREM DeadStayUnconnected == Spec => []DeadUnconnected
<1>1. TypeOK /\ InstancesInv => DeadUnconnected
  BY DEF InstancesInv
<1>. QED BY <1>1, InstancesInvariant, PTL

\* Between events the table exists exactly when it has an instance.
THEOREM EmptyTableFreed == Spec => []TableFreed
<1>1. TypeOK /\ InstancesInv => TableFreed
  BY DEF InstancesInv, TableKept, TableFreed, EventTurn, Idle
<1>. QED BY <1>1, InstancesInvariant, PTL
=============================================================================
