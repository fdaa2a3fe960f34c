---------------------------- MODULE RadioInstances ----------------------------
(***************************************************************************)
(* radio_instance.c: the table of instances, who refers to them, their     *)
(* transactions and messages, what the death of a service and the end of   *)
(* an instance do to the table, and what radio_registry.c tells of it.     *)
(* Handlers, observers and completions may call the library again from the *)
(* middle of each of these.                                                *)
(***************************************************************************)
EXTENDS CallStack

CONSTANTS
  Keys,        \* device, slot, version and interface: what names an instance
  Instances,   \* the RadioInstance objects that may be created
  None,        \* NULL, for instances and keys alike
  MaxRefs,     \* bound on the references users hold to an instance
  MaxTxs,      \* bound on the transactions in flight of an instance
  MaxDepth     \* bound on nested handlers that call the library

ASSUME InstancesAssumption ==
  /\ None \notin Instances \cup Keys
  /\ MaxRefs \in Nat \ {0}
  /\ MaxTxs \in Nat
  /\ MaxDepth \in Nat

VARIABLES
  inst,    \* struct radio_instance of each object
  table,   \* radio_instance_table: the instance of each key
  exists,  \* whether radio_instance_table is not NULL
  up,      \* the services known to the service manager
  told     \* history: signals the registry has emitted for each key

vars == <<inst, table, exists, up, told, stack>>

Lives == {"unused", "alive", "disposed", "freed"}

(***************************************************************************)
(* refs counts the references of users and txs those of transactions in    *)
(* flight; bound is FALSE once the binder objects are dropped; lost means  *)
(* that the remote object has died and its death handler was not called    *)
(* yet.                                                                    *)
(***************************************************************************)
InstanceRecord ==
  [life: Lives, key: Keys \cup {None}, refs: Nat, txs: Nat, connected: BOOLEAN,
   dead: BOOLEAN, bound: BOOLEAN, lost: BOOLEAN]

Ops ==
  {"dying", "unref", "removed", "finalize", "send", "observe", "callback"}

\* Every call but a handler and the end of radio_instance_remove is about an
\* instance.
Frame ==
  {f \in [op: Ops, o: Instances \cup {None}] :
     f.op \notin {"removed", "callback"} => f.o # None}

Call(op, o) == [op |-> op, o |-> o]

TypeOK ==
  /\ inst \in [Instances -> InstanceRecord]
  /\ table \in [Keys -> Instances \cup {None}]
  /\ exists \in BOOLEAN
  /\ up \subseteq Keys
  /\ told \in [Keys -> [added: Nat, removed: Nat]]
  /\ stack \in Seq(Frame)

Init ==
  /\ inst = [o \in Instances |->
       [life |-> "unused", key |-> None, refs |-> 0, txs |-> 0,
        connected |-> FALSE, dead |-> FALSE, bound |-> FALSE, lost |-> FALSE]]
  /\ table = [k \in Keys |-> None]
  /\ exists = FALSE
  /\ up = {}
  /\ told = [k \in Keys |-> [added |-> 0, removed |-> 0]]
  /\ stack = <<>>

-----------------------------------------------------------------------------
\* The user code that an event runs, as one callback: what it calls is what
\* several in a row could call.
Handlers ==
  IF Depth < MaxDepth THEN <<Call("callback", None)>> ELSE <<>>

\* radio_instance_died and a transaction that starts or ends hold a reference;
\* what delivers indications and responses holds none.
HeldByCall(o) ==
  \E i \in DOMAIN stack :
    stack[i] \in {Call("dying", o), Call("send", o), Call("unref", o)}

\* Mutant: a transaction holds no reference.
ReferencedByOthers(o) == inst[o].refs > 0 \/ HeldByCall(o)

\* Users, transactions and some calls hold references.
Referenced(o) == inst[o].refs > 0 \/ inst[o].txs > 0 \/ HeldByCall(o)

\* An instance whose last reference is gone is disposed of at once.
Garbage == {o \in Instances : inst[o].life = "alive" /\ ~Referenced(o)}
Clean == Garbage = {}
EventTurn == Idle /\ Clean
UserTurn == (Idle \/ Running("callback")) /\ Clean

Empty == \A k \in Keys : table[k] = None

-----------------------------------------------------------------------------
(***************************************************************************)
(* radio_instance_new and its variants.                                    *)
(***************************************************************************)
\* The table has the instance: one more reference to it.
Share(k) ==
  /\ UserTurn
  /\ table[k] # None
  /\ inst[table[k]].refs < MaxRefs
  /\ inst' = [inst EXCEPT ![table[k]].refs = @ + 1]
  /\ UNCHANGED <<table, exists, up, told, stack>>

\* The service is there: a new instance, connected already if its interface
\* has no rilConnected, and the registry tells of it.
Create(k) ==
  /\ UserTurn
  /\ table[k] = None
  /\ k \in up
  /\ \E o \in Instances, c \in BOOLEAN :
       /\ inst[o].life = "unused"
       /\ inst' = [inst EXCEPT ![o] =
                     [@ EXCEPT !.life = "alive", !.key = k, !.refs = 1,
                               !.bound = TRUE, !.connected = c]]
       /\ table' = [table EXCEPT ![k] = o]
  /\ exists' = TRUE
  /\ told' = [told EXCEPT ![k].added = @ + 1]
  /\ Enter(Handlers)
  /\ UNCHANGED up

\* Mutant: a user gives back a reference twice.
UnrefTwice(o) ==
  /\ UserTurn
  /\ inst[o].life = "alive"
  /\ inst' = [inst EXCEPT ![o].refs = @ - 1]
  /\ UNCHANGED <<table, exists, up, told, stack>>

\* radio_instance_unref by a user
Unref(o) ==
  /\ UserTurn
  /\ inst[o].refs > 0
  /\ inst' = [inst EXCEPT ![o].refs = @ - 1]
  /\ UNCHANGED <<table, exists, up, told, stack>>

-----------------------------------------------------------------------------
(***************************************************************************)
(* Transactions and messages.                                              *)
(***************************************************************************)
\* radio_instance_send_request: the transaction takes its reference, the
\* observers of requests run, then it is sent, or fails and gives it back.
Transact(o) ==
  /\ UserTurn
  /\ inst[o].refs > 0 /\ inst[o].txs < MaxTxs
  /\ Enter(Handlers \o <<Call("send", o)>>)
  /\ UNCHANGED <<inst, table, exists, up, told>>

Send ==
  /\ Running("send") /\ Clean
  /\ \/ inst' = inst
     \/ /\ inst[Top.o].txs < MaxTxs
        /\ inst' = [inst EXCEPT ![Top.o].txs = @ + 1]
  /\ Become(<<>>)
  /\ UNCHANGED <<table, exists, up, told>>

\* The transaction has ended or was cancelled: its completion and destroy
\* functions are user code here, then it gives its reference back.
TxDone(o) ==
  /\ EventTurn
  /\ inst[o].txs > 0
  /\ inst' = [inst EXCEPT ![o].txs = @ - 1]
  /\ Enter(Handlers \o <<Call("unref", o)>>)
  /\ UNCHANGED <<table, exists, up, told>>

\* radio_instance_indication, which may be rilConnected
Indicate(o) ==
  /\ EventTurn
  /\ inst[o].bound
  /\ \/ inst' = inst
     \/ inst' = [inst EXCEPT ![o].connected = TRUE]
  /\ Enter(Handlers \o <<Call("observe", o)>>)
  /\ UNCHANGED <<table, exists, up, told>>

\* radio_instance_response
Respond(o) ==
  /\ EventTurn
  /\ inst[o].bound
  /\ Enter(Handlers \o <<Call("observe", o)>>)
  /\ UNCHANGED <<inst, table, exists, up, told>>

-----------------------------------------------------------------------------
(***************************************************************************)
(* radio_instance_remove: whatever the key names leaves the table, and the *)
(* registry tells of it; the table goes when it is empty.                  *)
(***************************************************************************)
\* Mutant: the registry tells of a key that the table does not have.
ToldRemovedAlways(k) == [told EXCEPT ![k].removed = @ + 1]

ToldRemoved(k) ==
  IF table[k] # None THEN [told EXCEPT ![k].removed = @ + 1] ELSE told

Remove(k) ==
  /\ table' = [table EXCEPT ![k] = None]
  /\ told' = ToldRemoved(k)

RemoveCalls(k) ==
  IF table[k] # None THEN Handlers \o <<Call("removed", None)>>
  ELSE <<>>

\* Mutant: the table is kept for the next instance.
DropTableNever == exists

DropTable == exists /\ ~Empty

Removed ==
  /\ Running("removed") /\ Clean
  /\ exists' = DropTable
  /\ Become(<<>>)
  /\ UNCHANGED <<inst, table, up, told>>

-----------------------------------------------------------------------------
(***************************************************************************)
(* radio_instance_died: the users are told, then the key leaves the table. *)
(***************************************************************************)
\* Mutant: the binder objects stay until the instance is finalized.
DeathKeepsBinder(o) ==
  /\ EventTurn
  /\ inst[o].lost /\ ~inst[o].dead
  /\ inst' = [inst EXCEPT ![o] = [@ EXCEPT !.dead = TRUE, !.connected = FALSE]]
  /\ Enter(Handlers \o <<Call("dying", o)>>)
  /\ UNCHANGED <<table, exists, up, told>>

DeathNotice(o) ==
  /\ EventTurn
  /\ inst[o].lost /\ inst[o].bound
  /\ inst' = [inst EXCEPT ![o] = [@ EXCEPT !.dead = TRUE, !.bound = FALSE,
                                           !.connected = FALSE]]
  /\ Enter(Handlers \o <<Call("dying", o)>>)
  /\ UNCHANGED <<table, exists, up, told>>

\* Mutant: the instance stays in the table until nobody refers to it.
DyingKeepsKey ==
  /\ Running("dying") /\ Clean
  /\ Become(<<Call("unref", Top.o)>>)
  /\ UNCHANGED <<inst, table, exists, up, told>>

Dying ==
  /\ Running("dying") /\ Clean
  /\ Remove(inst[Top.o].key)
  /\ Become(RemoveCalls(inst[Top.o].key) \o <<Call("unref", Top.o)>>)
  /\ UNCHANGED <<inst, exists, up>>

\* A handler or the delivery of a message returns, or radio_instance_died or
\* the end of a transaction gives its own reference back.
Return ==
  /\ Running("callback") \/ Running("observe") \/ Running("unref")
  /\ Clean
  /\ Become(<<>>)
  /\ UNCHANGED <<inst, table, exists, up, told>>

(***************************************************************************)
(* The last reference goes: the weak notification radio_instance_gone, set *)
(* when the instance was created, then radio_instance_finalize.            *)
(***************************************************************************)
\* Mutant: there is no weak notification.
GoneUnnoticed(o) ==
  /\ o \in Garbage
  /\ inst' = [inst EXCEPT ![o].life = "disposed"]
  /\ Enter(<<Call("finalize", o)>>)
  /\ UNCHANGED <<table, exists, up, told>>

Gone(o) ==
  /\ o \in Garbage
  /\ inst' = [inst EXCEPT ![o].life = "disposed"]
  /\ Remove(inst[o].key)
  /\ Enter(RemoveCalls(inst[o].key) \o <<Call("finalize", o)>>)
  /\ UNCHANGED <<exists, up>>

Finalize ==
  /\ Running("finalize") /\ Clean
  /\ inst' = [inst EXCEPT ![Top.o] = [@ EXCEPT !.life = "freed",
                                               !.bound = FALSE]]
  /\ Become(<<>>)
  /\ UNCHANGED <<table, exists, up, told>>

-----------------------------------------------------------------------------
(***************************************************************************)
(* The services: they start, and die with the remote objects of all who    *)
(* are connected to them.                                                  *)
(***************************************************************************)
Start(k) ==
  /\ EventTurn
  /\ k \notin up
  /\ up' = up \cup {k}
  /\ UNCHANGED <<inst, table, exists, told, stack>>

Crash(k) ==
  /\ EventTurn
  /\ k \in up
  /\ up' = up \ {k}
  /\ inst' = [o \in Instances |->
                [inst[o] EXCEPT !.lost = @ \/ (inst[o].key = k /\ inst[o].bound)]]
  /\ UNCHANGED <<table, exists, told, stack>>

User == \/ \E k \in Keys : Share(k) \/ Create(k)
        \/ \E o \in Instances : Unref(o) \/ Transact(o)

Library == \/ Send \/ Removed \/ Dying \/ Return \/ Finalize
           \/ \E o \in Instances : Gone(o)

Event == \/ \E k \in Keys : Start(k) \/ Crash(k)
         \/ \E o \in Instances :
              DeathNotice(o) \/ TxDone(o) \/ Indicate(o) \/ Respond(o)

Next == User \/ Library \/ Event

Spec == Init /\ [][Next]_vars

-----------------------------------------------------------------------------
(***************************************************************************)
(* Properties.                                                             *)
(***************************************************************************)
\* Whoever counts the signals of the registry knows the table: each key in
\* it was added once more than removed, also when a handler creates or
\* releases instances while it is being told.
ToldOfTable ==
  \A k \in Keys :
    told[k].added = told[k].removed + (IF table[k] = None THEN 0 ELSE 1)

\* The table has no pointer to freed memory, and an instance is found under
\* its own key.
TableAlive ==
  \A k \in Keys :
    table[k] # None => inst[table[k]].life = "alive" /\ inst[table[k]].key = k

\* A dead instance is in the table only while its users are being told, so
\* that the next radio_instance_new connects to the service again.
DeadLeave ==
  \A k \in Keys :
    table[k] # None /\ inst[table[k]].dead =>
      \E i \in DOMAIN stack : stack[i] = Call("dying", table[k])

\* An instance is not disposed of while somebody has a reference, while one
\* of its transactions is in flight or completes, or while it dies.
HeldAlive ==
  \A o \in Instances :
    inst[o].refs > 0 \/ inst[o].txs > 0 \/ HeldByCall(o) =>
      inst[o].life = "alive"

\* A dead instance does not become connected again, so that no client submits
\* requests to it: rilConnected may arrive until the binder objects go.
DeadUnconnected ==
  \A o \in Instances :
    inst[o].life = "alive" /\ inst[o].connected => inst[o].bound /\ ~inst[o].dead

\* Why these hold: an object that is not used yet has no past, one that has
\* its binder objects is alive or about to be finalized, one that is being
\* finalized is no longer alive, and an empty table is about to go.
UnusedFresh ==
  \A o \in Instances :
    /\ inst[o].life = "unused" => ~inst[o].dead /\ ~inst[o].bound
    /\ inst[o].bound => ~inst[o].dead
BoundEnds ==
  \A o \in Instances :
    inst[o].bound =>
      \/ inst[o].life = "alive"
      \/ \E i \in DOMAIN stack : stack[i] = Call("finalize", o)
FinalizedEnded ==
  \A i \in DOMAIN stack :
    stack[i].op = "finalize" => inst[stack[i].o].life \in {"disposed", "freed"}
TableKept ==
  IF Empty THEN exists => \E i \in DOMAIN stack : stack[i].op = "removed"
  ELSE exists
InstancesInv ==
  /\ ToldOfTable /\ TableAlive /\ DeadLeave /\ HeldAlive /\ DeadUnconnected
  /\ UnusedFresh /\ BoundEnds /\ FinalizedEnded /\ TableKept

\* Between events the table is there if and only if something is in it.
TableFreed == EventTurn => (exists <=> ~Empty)

\* An instance that somebody uses and that has not died stays in the table.
StillThere ==
  [][\A k \in Keys :
       table[k] # None /\ table'[k] # table[k] =>
         inst[table[k]].dead \/ inst'[table[k]].life # "alive"]_vars

\* Whoever may call radio_instance_get_all finds no empty table.
TableNotEmpty == UserTurn => (exists => ~Empty)
=============================================================================
