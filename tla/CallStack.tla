------------------------------ MODULE CallStack -------------------------------
(***************************************************************************)
(* The calls in progress, the running one first.  The library runs in one  *)
(* glib main loop, but its procedures nest and its callbacks and signal    *)
(* handlers may call it again: each step of the other modules is what the  *)
(* code does between two calls.  The main loop delivers its next event     *)
(* when the stack is empty.                                                *)
(***************************************************************************)
EXTENDS Integers, Sequences, FiniteSets

VARIABLE stack  \* frames: records with the field op and the locals of a call

Idle == stack = <<>>
Running(op) == ~Idle /\ Head(stack).op = op
Top == Head(stack)

\* The running call makes these calls first, in order.
Enter(frames) == stack' = frames \o stack

\* The running call ends, or goes on as the given frames.
Become(frames) == stack' = frames \o Tail(stack)

\* How deep the callbacks of users are nested.
Depth == Cardinality({i \in DOMAIN stack : stack[i].op = "callback"})
=============================================================================
