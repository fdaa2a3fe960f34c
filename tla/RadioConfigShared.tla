--------------------------- MODULE RadioConfigShared ---------------------------
(***************************************************************************)
(* radio_config.c: the RadioConfig objects shared by all who ask for the   *)
(* same version, one pointer per version of the interface.  (HIDL and AIDL *)
(* each have such an array; they do not interact.)                         *)
(* Handlers of signals and completions of requests may call the library    *)
(* again from the middle of each event.                                    *)
(***************************************************************************)
EXTENDS CallStack

CONSTANTS
  Versions,    \* versions of the interface
  Configs,     \* the RadioConfig objects that may be created
  None,        \* NULL, for configs and versions alike
  MaxRefs,     \* bound on the references users hold to a config
  MaxWeak,     \* bound on the weak notifications of a config
  MaxDepth     \* bound on nested handlers that call the library

ASSUME SharedAssumption ==
  /\ Versions \subseteq Nat
  /\ None \notin Configs \cup Versions
  /\ MaxRefs \in Nat \ {0}
  /\ MaxWeak \in Nat \ {0}
  /\ MaxDepth \in Nat

VARIABLES
  conf,        \* struct radio_config of each object
  shared,      \* radio_config_instance: the config of each version
  up           \* the services known to the service manager

vars == <<conf, shared, up, stack>>

Lives == {"unused", "alive", "freed"}

(***************************************************************************)
(* refs counts the references of users and weak the notifications for      *)
(* radio_config_gone; bound is FALSE once the binder objects are dropped;  *)
(* lost means that the remote object has died and its death handler was    *)
(* not called yet.                                                         *)
(***************************************************************************)
ConfigRecord ==
  [life: Lives, version: Versions \cup {None}, refs: Nat, weak: Nat,
   dead: BOOLEAN, bound: BOOLEAN, lost: BOOLEAN]

\* Every call but a callback is about a config.
Frame ==
  {f \in [op: {"callback", "unref", "observe"}, o: Configs \cup {None}] :
     f.op # "callback" => f.o # None}

Call(op, o) == [op |-> op, o |-> o]

TypeOK ==
  /\ conf \in [Configs -> ConfigRecord]
  /\ shared \in [Versions -> Configs \cup {None}]
  /\ up \subseteq Versions
  /\ stack \in Seq(Frame)

Init ==
  /\ conf = [o \in Configs |->
       [life |-> "unused", version |-> None, refs |-> 0, weak |-> 0,
        dead |-> FALSE, bound |-> FALSE, lost |-> FALSE]]
  /\ shared = [v \in Versions |-> None]
  /\ up = {}
  /\ stack = <<>>

-----------------------------------------------------------------------------
\* The user code that an event runs, as one callback: what it calls is what
\* several in a row could call.
Handlers ==
  IF Depth < MaxDepth THEN <<Call("callback", None)>> ELSE <<>>

\* Mutant: nobody but users holds a reference.
ReferencedByUsers(o) == conf[o].refs > 0

\* radio_config_died and radio_config_response hold a reference until they
\* give it back; radio_config_indication holds none.
Referenced(o) ==
  \/ conf[o].refs > 0
  \/ \E i \in DOMAIN stack : stack[i] = Call("unref", o)

\* A config whose last reference is gone is freed at once.
Garbage == {o \in Configs : conf[o].life = "alive" /\ ~Referenced(o)}
Clean == Garbage = {}
EventTurn == Idle /\ Clean
UserTurn == (Idle \/ Running("callback")) /\ Clean

-----------------------------------------------------------------------------
(***************************************************************************)
(* radio_config_new_with_version_and_interface_type(v).                    *)
(***************************************************************************)
\* The config of the requested version is there.
Share(v) ==
  /\ UserTurn
  /\ shared[v] # None
  /\ conf[shared[v]].refs < MaxRefs
  /\ conf' = [conf EXCEPT ![shared[v]].refs = @ + 1]
  /\ UNCHANGED <<shared, up, stack>>

\* w is the maximum available version not exceeding v.
BestVersion(v, w) ==
  /\ w \in up /\ w <= v
  /\ \A x \in up : x <= v => x <= w

\* The config of that version is there: one more reference to it, and one
\* more weak notification.
Found(v) ==
  /\ UserTurn
  /\ shared[v] = None
  /\ \E w \in Versions :
       /\ BestVersion(v, w)
       /\ shared[w] # None
       /\ conf[shared[w]].refs < MaxRefs /\ conf[shared[w]].weak < MaxWeak
       /\ conf' = [conf EXCEPT ![shared[w]].refs = @ + 1,
                               ![shared[w]].weak = @ + 1]
  /\ UNCHANGED <<shared, up, stack>>

\* Mutant: a new config is shared under the version that was asked for.
CreateAsked(v) ==
  /\ UserTurn
  /\ shared[v] = None
  /\ \E w \in Versions, o \in Configs :
       /\ BestVersion(v, w) /\ shared[w] = None
       /\ conf[o].life = "unused"
       /\ conf' = [conf EXCEPT ![o] =
                     [@ EXCEPT !.life = "alive", !.version = w, !.refs = 1,
                               !.weak = 1, !.bound = TRUE]]
       /\ shared' = [shared EXCEPT ![v] = o]
  /\ UNCHANGED <<up, stack>>

\* A new config for that version.
Create(v) ==
  /\ UserTurn
  /\ shared[v] = None
  /\ \E w \in Versions, o \in Configs :
       /\ BestVersion(v, w) /\ shared[w] = None
       /\ conf[o].life = "unused"
       /\ conf' = [conf EXCEPT ![o] =
                     [@ EXCEPT !.life = "alive", !.version = w, !.refs = 1,
                               !.weak = 1, !.bound = TRUE]]
       /\ shared' = [shared EXCEPT ![w] = o]
  /\ UNCHANGED <<up, stack>>

\* Mutant: a user gives back a reference twice.
UnrefTwice(o) ==
  /\ UserTurn
  /\ conf[o].life = "alive"
  /\ conf' = [conf EXCEPT ![o].refs = @ - 1]
  /\ UNCHANGED <<shared, up, stack>>

\* radio_config_unref by a user
Unref(o) ==
  /\ UserTurn
  /\ conf[o].refs > 0
  /\ conf' = [conf EXCEPT ![o].refs = @ - 1]
  /\ UNCHANGED <<shared, up, stack>>

-----------------------------------------------------------------------------
(***************************************************************************)
(* radio_config_died: the pointer to the config is cleared first, then its *)
(* users are told and its requests fail.                                   *)
(***************************************************************************)
IsShared(o) == \E v \in Versions : conf[o].version = v /\ shared[v] = o

\* The notification is taken back with the pointer.
WeakLeft(o) == IF IsShared(o) THEN conf[o].weak - 1 ELSE conf[o].weak

DeathNotice(o) ==
  /\ EventTurn
  /\ conf[o].lost /\ conf[o].bound
  /\ conf' = [conf EXCEPT ![o] = [@ EXCEPT !.dead = TRUE, !.bound = FALSE,
                                           !.weak = WeakLeft(o)]]
  /\ shared' = [v \in Versions |->
                  IF IsShared(o) /\ v = conf[o].version THEN None ELSE shared[v]]
  /\ Enter(Handlers \o <<Call("unref", o)>>)
  /\ UNCHANGED up

\* radio_config_response, whose observers and completion are user code
Respond(o) ==
  /\ EventTurn
  /\ conf[o].bound
  /\ Enter(Handlers \o <<Call("unref", o)>>)
  /\ UNCHANGED <<conf, shared, up>>

\* radio_config_indication, whose observers are user code
Indicate(o) ==
  /\ EventTurn
  /\ conf[o].bound
  /\ Enter(Handlers \o <<Call("observe", o)>>)
  /\ UNCHANGED <<conf, shared, up>>

\* User code or one of these procedures returns.
Return ==
  /\ ~Idle /\ Clean
  /\ Become(<<>>)
  /\ UNCHANGED <<conf, shared, up>>

\* Mutant: the end of a config clears the pointer, whatever it points to.
ClearedAny(o, v) == conf[o].weak > 0 /\ conf[o].version = v

\* What the weak notifications radio_config_gone clear.
Cleared(o, v) ==
  conf[o].weak > 0 /\ conf[o].version = v /\ shared[v] = o

\* The last reference goes: radio_config_gone, then radio_config_finalize.
Free(o) ==
  /\ o \in Garbage
  /\ conf' = [conf EXCEPT ![o] = [@ EXCEPT !.life = "freed", !.weak = 0,
                                           !.bound = FALSE]]
  /\ shared' = [v \in Versions |-> IF Cleared(o, v) THEN None ELSE shared[v]]
  /\ UNCHANGED <<up, stack>>

-----------------------------------------------------------------------------
(***************************************************************************)
(* The services: they start, and die with the remote objects of all who    *)
(* are connected to them.                                                  *)
(***************************************************************************)
Start(v) ==
  /\ EventTurn
  /\ v \notin up
  /\ up' = up \cup {v}
  /\ UNCHANGED <<conf, shared, stack>>

Crash(v) ==
  /\ EventTurn
  /\ v \in up
  /\ up' = up \ {v}
  /\ conf' = [o \in Configs |->
        [conf[o] EXCEPT !.lost = @ \/ (conf[o].version = v /\ conf[o].bound)]]
  /\ UNCHANGED <<shared, stack>>

User == \/ \E v \in Versions : Share(v) \/ Found(v) \/ Create(v)
        \/ \E o \in Configs : Unref(o)

Library == Return \/ \E o \in Configs : Free(o)

Event == \/ \E v \in Versions : Start(v) \/ Crash(v)
         \/ \E o \in Configs : DeathNotice(o) \/ Respond(o) \/ Indicate(o)

Next == User \/ Library \/ Event

Spec == Init /\ [][Next]_vars

-----------------------------------------------------------------------------
(***************************************************************************)
(* Properties.                                                             *)
(***************************************************************************)
\* radio_config_new never returns a freed or dead config, nor one of another
\* version than it looked for, and the pointer to it will be cleared when it
\* is freed, however often it was found.
SharedAlive ==
  \A v \in Versions :
    shared[v] # None =>
      /\ conf[shared[v]].life = "alive" /\ ~conf[shared[v]].dead
      /\ conf[shared[v]].version = v /\ conf[shared[v]].weak > 0

\* There is one config per version: the end of a dead one does not hide the
\* one that has replaced it from the next who asks.
LivingShared ==
  \A o \in Configs :
    conf[o].life = "alive" /\ ~conf[o].dead => IsShared(o)

\* A config is not freed while its response or its death is being handled,
\* whatever its observers release.
CallsAlive ==
  \A i \in DOMAIN stack :
    stack[i].op = "unref" => conf[stack[i].o].life = "alive"

\* Why these hold: an object that is not used yet is not dead, and only one
\* that is alive has binder objects.
Unborn ==
  \A o \in Configs :
    /\ conf[o].life = "unused" => ~conf[o].dead
    /\ conf[o].bound => conf[o].life = "alive" /\ ~conf[o].dead

SharedInv == SharedAlive /\ LivingShared /\ CallsAlive /\ Unborn
=============================================================================
