------------------------------ MODULE RadioState ------------------------------
(***************************************************************************)
(* The state that RadioBase, RadioRequest and RadioRequestGroup share:     *)
(* struct radio_request, struct radio_base_priv and the transactions the   *)
(* binder driver still owes an answer for.                                 *)
(* Calls nest: a scan of the queue fails a request, failing it starts      *)
(* another scan, and every completion or signal callback may call the      *)
(* library again.                                                          *)
(***************************************************************************)
EXTENDS CallStack

CONSTANTS
  Requests,       \* the requests the users of the client create
  Groups,         \* the request groups
  None,           \* NULL, for requests and groups alike
  GroupOf,        \* the group a request is created in, or None
  Blocking,       \* requests with radio_request_set_blocking(TRUE)
  MaxRetries,     \* radio_request_set_retry: negative = no limit
  RetryBound,     \* bound on the retries a user asks for
  RetryDelay,     \* radio_request_set_retry: delay before a retry
  DefaultTimeout, \* the timeout of a request which has none of its own
  Timeouts,       \* other timeouts a user may set
  MaxTime,        \* bound on the clock
  MaxDepth,       \* bound on nested callbacks that call the library
  Faults,         \* what the environment does wrong
  UserCalls       \* optional calls the users make

AllFaults ==
  {"send", "tx", "death", "config death", "finalize", "disconnected"}
AllUserCalls == {"cancel", "retry", "release", "timeout", "observe"}

\* Handlers of the signals that tell of requests being sent call the library;
\* where they do not, they change nothing.
Observed == "observe" \in UserCalls /\ MaxDepth > 0

ASSUME ConstantsAssumption ==
  /\ None \notin Requests \cup Groups
  /\ GroupOf \in [Requests -> Groups \cup {None}]
  /\ Blocking \subseteq Requests
  /\ MaxRetries \in [Requests -> Int]
  /\ RetryBound \in Nat
  /\ RetryDelay \in Nat
  /\ DefaultTimeout \in Nat \ {0}
  /\ Timeouts \subseteq Nat \ {0}
  /\ MaxTime \in Nat \ {0}
  /\ MaxDepth \in Nat
  /\ Faults \subseteq AllFaults
  /\ UserCalls \subseteq AllUserCalls

VARIABLES
  req,      \* struct radio_request of each request
  base,     \* struct radio_base_priv
  net,      \* transactions and answers on their way
  link,     \* RadioInstance as RadioClient sees it: connected, dead
  ret,      \* what the last radio_base_submit_queued_requests returned
  now       \* monotonic time

vars == <<req, base, net, link, stack, ret, now>>

States == {"NEW", "QUEUED", "PENDING", "FAILED", "CANCELLED", "DONE"}

\* States below RADIO_REQUEST_STATE_FAILED; the others are meant to be final.
Live == {"NEW", "QUEUED", "PENDING"}
Terminal == States \ Live

MaybeRequest == Requests \cup {None}
MaybeGroup == Groups \cup {None}

(***************************************************************************)
(* A serial is abstracted to the number of the transmission that uses it:  *)
(* 1 is req->serial, chosen at creation; serial2 is 0 until the request is *)
(* sent.  tx is the number of the transmission whose binder transaction    *)
(* has not been confirmed, 0 for none; next is queue_next; scheduled = 0   *)
(* means not scheduled.                                                    *)
(***************************************************************************)
RequestRecord ==
  [state: States, complete: BOOLEAN, submitted: BOOLEAN, dropped: BOOLEAN,
   registered: BOOLEAN, held: BOOLEAN, freed: BOOLEAN, group: MaybeGroup,
   serial2: Nat, sends: Nat, tx: Nat, retries: Nat, scheduled: Nat,
   deadline: Int, timeout: Nat, next: MaybeRequest,
   calls: Nat]      \* history: how many times the user's callback has run

(***************************************************************************)
(* Both hash tables hold a request under its current serial, hence at most *)
(* once: they are sets of requests.                                        *)
(***************************************************************************)
BaseRecord ==
  [active: SUBSET Requests, pending: SUBSET Requests,
   first: MaybeRequest, last: MaybeRequest, block: MaybeRequest,
   owner: MaybeGroup, waiting: Seq(Groups), groups: SUBSET Groups,
   timer: Int, timeout: Nat, alive: BOOLEAN]

Transmissions == Requests \X Nat

NetRecord == [outstanding: SUBSET Transmissions, answers: SUBSET Transmissions]

LinkRecord == [connected: BOOLEAN, dead: BOOLEAN]

(***************************************************************************)
(* A frame is a call in progress: what it does next and its locals.        *)
(***************************************************************************)
Ops == {"start", "scan", "sent", "submitted", "retried", "connected", "reset",
        "unblocked", "drop", "dropped", "unregister", "finish", "done",
        "expire", "fail", "cancel", "unlink", "die", "callback", "send",
        "refused"}

\* The calls that are about a request.
RequestOps == {"sent", "submitted", "retried", "drop", "dropped", "unregister",
               "finish", "done", "send", "refused"}

\* The calls that stop to let observers call the library.
ObservedOps == {"send", "refused"}

Frame ==
  {f \in [op: Ops, r: MaybeRequest, prev: MaybeRequest, next: MaybeRequest,
          g: MaybeGroup, some: BOOLEAN, todo: SUBSET Requests,
          refs: SUBSET Requests] :
     /\ f.op \in RequestOps => f.r # None
     /\ f.op \in ObservedOps => Observed}

Call(op, r) == [op |-> op, r |-> r, prev |-> None, next |-> None, g |-> None,
                some |-> FALSE, todo |-> {}, refs |-> {}]

ListCall(op, S) == [Call(op, None) EXCEPT !.todo = S, !.refs = S]

TypeOK ==
  /\ req \in [Requests -> RequestRecord]
  /\ base \in BaseRecord
  /\ net \in NetRecord
  /\ link \in LinkRecord
  /\ stack \in Seq(Frame)
  /\ ret \in BOOLEAN
  /\ now \in Nat \ {0}

Init ==
  /\ req = [r \in Requests |->
       [state |-> "NEW", complete |-> TRUE, submitted |-> FALSE,
        dropped |-> FALSE, registered |-> TRUE, held |-> TRUE,
        freed |-> FALSE, group |-> GroupOf[r], serial2 |-> 0, sends |-> 0,
        tx |-> 0, retries |-> 0, scheduled |-> 0, deadline |-> 0,
        timeout |-> 0, next |-> None, calls |-> 0]]
  /\ base = [active |-> {}, pending |-> {}, first |-> None, last |-> None,
             block |-> None, owner |-> None, waiting |-> <<>>,
             groups |-> Groups, timer |-> 0, timeout |-> DefaultTimeout,
             alive |-> TRUE]
  /\ net = [outstanding |-> {}, answers |-> {}]
  /\ link = [connected |-> "disconnected" \notin Faults, dead |-> FALSE]
  /\ stack = <<>>
  /\ ret = FALSE
  /\ now = 1

-----------------------------------------------------------------------------
\* A user's callback, about request r, which may call the library again.
Callback(r) == IF Depth < MaxDepth THEN <<Call("callback", r)>> ELSE <<>>

(***************************************************************************)
(* References.  Hash tables, block_req, transactions and most calls hold   *)
(* one, send_request too; the scan of the queue does not.                  *)
(***************************************************************************)
FrameRefs(f) == f.refs \cup
  IF f.op \in {"scan", "sent", "refused"} THEN {} ELSE {f.r} \ {None}

Referenced(r) ==
  \/ req[r].held
  \/ r \in base.active \cup base.pending
  \/ base.block = r
  \/ \E t \in net.outstanding : t[1] = r
  \/ \E i \in DOMAIN stack : r \in FrameRefs(stack[i])

Garbage == {r \in Requests : ~req[r].freed /\ ~Referenced(r)}

\* Dropping the last reference frees the request at once, before anything
\* else happens.
Clean == Garbage = {}

\* The main loop can deliver an event.
EventTurn == Idle /\ Clean

\* A user can call the library: from the main loop, or from a callback.
UserTurn == (Idle \/ Running("callback")) /\ Clean
=============================================================================
