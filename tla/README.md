# libgbinder-radio in TLA+

libgbinder-radio lets a phone's middleware (ofono) talk to the radio services
of Android over binder. A caller creates a *request*, submits it, and gets one
completion callback: with the answer of the radio, or without one. In between
the library queues requests, numbers them, sends them as one-way binder
transactions, matches the answers, retries, gives up after a timeout, lets a
group of requests own the object for a while, lets one request block all
others, and survives the death of the service.

The library has no threads. What is hard in it is that its procedures *nest*:
a scan of the queue fails a request, failing it scans the queue again, and the
completion callbacks and the owner signal may call any function of the library
from the middle of any other. The modules are built to show that.

Paths such as `radio_base.c:437` are relative to the repository's `src/`.

## The system

| part | state it keeps | operations | talks to |
|---|---|---|---|
| **RadioBase** (`radio_base.c`) | queue of requests (`queue_first/last`, `queue_next`), tables `active` and `pending`, serials, `block_req`, `owner` and `owner_queue`, one timer, the default timeout | register, submit, retry, cancel, answer, ack, timeout, block, unblock, death, finalize | its subclass (RadioClient, RadioConfig) through virtual functions; requests; groups |
| **RadioRequest** (`radio_request.c`) | reference count, state, callbacks, retry count and delay, deadline, transaction id, the two serials | new, submit, retry, cancel, drop, ref/unref, setters | RadioBase |
| **RadioRequestGroup** (`radio_request_group.c`) | its members | block, unblock, cancel, ref/unref | RadioBase, requests |
| **RadioClient** (`radio_client.c`) | handlers of one RadioInstance | forwards answers, acks, death and connection to its RadioBase, signals to its users | RadioInstance, RadioBase |
| **RadioInstance** (`radio_instance.c`) | remote and local binder objects of one slot, `connected`, `dead`, `enabled`, versions; a table of all instances | new, ref/unref, send, dispatch of answers and indications to observers and handlers, ack, death | binder, RadioClient, RadioRegistry |
| **RadioConfig** (`radio_config.c`) | as RadioInstance and RadioClient together, for the config service; one shared pointer per version of the interface | new, ref/unref, send, answers, indications, death | binder, RadioBase |
| **RadioRegistry** (`radio_registry.c`) | the instances by slot, signals | instance added, removed | RadioInstance |
| **RadioUtil** (`radio_util.c`) | tables of names and codes | pure functions: the answer to expect to a request, names | everything |

Calls go down: user → request or group → RadioBase → subclass → binder. Events
come up from the glib main loop: the end of a transaction, an answer, an ack,
the death of the service, `rilConnected`, the timer. All state is shared in
one process; nothing is persistent.

What makes each part correct:

* **RadioBase**: a request is in the queue exactly when it is QUEUED, and in
  `pending` when it is PENDING; it is sent once per attempt; nothing that may
  be sent is forgotten; the timer covers every deadline; a blocking request
  and an owner exclude the others; no transaction outlives its request.
* **RadioRequest**: one completion, or none after a cancellation; an ended
  request stays ended; a released request is freed, never used afterwards.
* **RadioRequestGroup**: groups own the object in the order they asked, and a
  freed group leaves no pointer behind.
* **RadioClient, RadioConfig**: death fails every request once, and events
  after it do nothing.
* **RadioInstance, RadioRegistry**: the table points to live instances; a dead
  one leaves it, so that the next caller connects to the restarted service;
  who is told of an instance is told when it goes; nothing that is referred to
  is disposed of. A message of the radio is acknowledged once if it asks for
  it, and reaches its listeners once each, in the order of their priorities.
* **RadioConfig** objects: the pointer of a version names its one living
  config, and is cleared when that config dies or is freed.
* **Serials**: an answer finds the request its number was sent for, however
  often the counter has wrapped.
* **RadioUtil**: the answer that `radio_req_resp2` expects is the one a service
  of that version sends.

## Modules

| module | what it models |
|---|---|
| `CallStack` | the C call stack, for frames of any kind: `Enter`, `Become`, `Running`, `Depth`. Used by all modules with calls in progress |
| `RadioState` | the shared state of requests: `struct radio_request`, `struct radio_base_priv`, transactions and answers on their way; `Init`, `TypeOK` |
| `RadioBase` | `radio_base.c` |
| `RadioRequest` | `radio_request.c` |
| `RadioRequestGroup` | `radio_request_group.c` |
| `RadioConfig` | how the death of a config drives its RadioBase |
| `RadioClient` | how `radio_client.c` drives a RadioBase; composes the five modules above into the next-state relation and states the properties |
| `RequestLifecycle` | abstract specification: what the library promises of each request |
| `RadioClientTests` | the unit tests of requests, groups, timeouts and deaths, as scripts |
| `RadioSerials` | `radio_base.c` again: the counter of serials and the tables by serial, with numbers that wrap around |
| `RadioInstances` | `radio_instance.c`: the table of instances, their references, transactions, messages and deaths, and the signals of `radio_registry.c` |
| `RadioConfigShared` | `radio_config.c`: the config objects shared by all who ask for a version |
| `RadioDispatch` | `radio_instance.c`, `radio_config.c` and `radio_client.c`: how one message becomes a series of signals to listeners that come and go |
| `RadioDispatchTests` | the unit tests of messages, observers, handlers and acknowledgements, as scripts |
| `RadioCodes` | the codes of the interfaces (`*_types.h`) and `radio_util.c` |
| `MCRadioClient`, `MCRadioScenarios`, `MCRadioInstances`, `MCRadioShared` | instances for TLC |
| `RadioClientProofs`, `RadioTablesProofs`, `RadioTimerProofs` | lemmas and proofs about RadioClient: types, completion, ownership, blocking, and the completions that may not be lost or come too late; the tables, the queue, and the lifecycle; the timer, and the requests that nothing holds back |
| `CallStackProofs`, `RadioInstancesProofs`, `RadioConfigSharedProofs`, `RadioSerialsProofs`, `RadioDispatchProofs` | lemmas about the call stack, proofs about the other four |

The models meet at narrow interfaces. RadioClient sees its RadioInstance
as `link` (connected, dead), holds a reference to it, and drops its requests
when it dies; RadioInstances is what makes `link` true: `dead` instances stay
unconnected, and one that is referred to is there. RadioDispatch opens up the
events of both: its `base` steps are the events that RadioClient answers, its
`callback` steps the user code that may call anything in the others.
RadioClient takes a serial to be the transmission that uses it; RadioSerials
is what makes that true: a number in use is not given again.

### State of RadioClient and the modules under it

* `req[r]` is `struct radio_request`: `state`, `scheduled`, `deadline`,
  `timeout`, `retries` (`retry_count`), `next` (`queue_next`), `group`,
  `complete` (whether the user's callback is still set), `submitted`,
  `dropped`, `registered` (`object` is set), `held` (the user has a
  reference), `freed`. A serial is the number of the transmission that uses
  it: 1 for the serial of the request's creation (`serial`), `sends` for a new
  one; `serial2` is 0 until the request is sent. `tx` is the transmission
  whose binder transaction has not ended. `calls`, a history variable, counts
  the runs of the completion callback.
* `base` is `struct radio_base_priv`. `active` and `pending` are hash tables
  from serials to requests; each has a request at most once, under its current
  serial, so they are sets of requests here. `timer` is the time the glib
  source fires, 0 for none.
* `net` holds the transactions that have not ended and the answers that may
  still arrive. An answer may come before the end of its transaction, late,
  in any order, or never; a transaction that fails takes its answer away.
* `link` is RadioInstance as the client sees it.
* `stack` holds the calls in progress, the running one first: each frame is
  what a C procedure has yet to do, with its locals. One step runs the code
  between two calls (or events). `ret` is what the last
  `radio_base_submit_queued_requests` returned. A completion callback or a
  signal handler is a frame `callback` under which the users may call
  anything again, nested up to `MaxDepth`; with `MaxDepth = 0` callbacks do
  nothing.
* A reference count is not a number but the set of those who hold a reference
  (`Referenced`): the user, the tables, `block_req`, transactions, frames. A
  request nobody references is `Garbage`, and is freed before anything else
  happens (`Clean` guards every other step), as `radio_request_unref` does it.
  The scan of the queue holds no reference, as in the code.

Sending a request tells the request observers before it reaches the binder
driver (`send_request` at `radio_base.c:291`, which leads to
`radio_instance.c:774` or `radio_config.c:1034-1044`). At that moment the
request has left the queue, has its new serial, and is neither PENDING nor
recorded in `block_req`. Observers that only watch are part of `ScanSend` and
`ScanFail`, each one step. Observers that call the library are user code like
any other, enabled by `"observe"` in `UserCalls` (`Observed`): `ScanTell` runs
the code up to them and puts a `callback` frame above a frame `send`; when they
have returned, `Accept` gives the request to the driver or `Refuse` does not,
and `Refused` is what the scan does then. Theorems that take the observers of
requests to only watch say so with `~Observed`, which follows from `Orderly`.

| actions | code |
|---|---|
| `Submit`, `ScanStart`, `ScanSkip`, `ScanSend`, `ScanFail`, `ScanTell`, `Accept`, `Refuse`, `Refused`, `ScanSent`, `ScanEnd`, `Submitted` | `radio_base_submit_request`, `radio_base_submit_queued_requests`, `radio_base_submit_transaction`, `radio_client_send_request` with the observers it tells |
| `Retry`, `Reset` | `radio_base_retry_request`, `radio_base_reset_timeout` |
| `RespondUnknown`, `RespondRetry`, `RespondDone`, `Done` | `radio_base_handle_resp` |
| `Sent`, `Drop`, `Dropped` | `radio_base_request_sent`, `radio_base_request_failed`, `radio_base_drop_req` |
| `Timeout`, `Expire`, `FailNext` | `radio_base_timeout` |
| `Death`, `FailNext` | `radio_client_handle_death`, `radio_base_handle_death` |
| `ConfigDeath`, `HandleDeath`, `FailNext` | `radio_config_died`, `radio_base_handle_death` |
| `Connected`, `Finalize`, `Return` | `radio_client_handle_connected`, `radio_base_object_finalize`, the user's callback |
| `Cancel`, `Release`, `Unregister`, `Free`, `Finish`, `SetTimeout`, `SetDefaultTimeout` | `radio_request.c`; `radio_base_set_default_timeout` |
| `Block`, `Unblock`, `FreeGroup`, `Unlink`, `CancelGroup`, `CancelNext` | `radio_base_block`, `radio_base_unblock`, `radio_request_group.c` |

A hash table is walked in no particular order, so `Expire`, `FailNext` and
`CancelNext` pick any of the requests left. `Faults` and `UserCalls` say which
failures and which calls of the users an instance has; the theorems hold for
any choice.

### State of RadioInstances

`inst[o]` is a RadioInstance: `life`, `key`, the references of users (`refs`)
and of transactions in flight (`txs`), `connected`, `dead`, `bound` (it has its
binder objects, so that messages and the news of its death can reach it), and
`lost` (the remote object died and the death handler was not called yet).
`table` is `radio_instance_table` and `exists` tells an empty table from NULL.
`up` is what the service manager knows. `told` is a history: how often the
registry has announced and withdrawn each key.

A handler, an observer or a completion is one `callback` frame per event: what
it calls is what several in a row could call. `dying`, `send` and `unref`
frames hold the references that `radio_instance_died` and a transaction hold
while they run user code; an `observe` frame (`radio_instance_indication`,
`radio_instance_response`) holds none, as in the code. The last reference
disposes of the instance before anything else happens: `Gone` is the weak
notification `radio_instance_gone`, `Finalize` is `radio_instance_finalize`.

| actions | code |
|---|---|
| `Share`, `Create`, `Unref` | `radio_instance_new_with_modem_slot_version_and_interface`, `radio_instance_create`, `radio_instance_unref` |
| `Transact`, `Send`, `TxDone` | `radio_instance_send_request`: the observers of requests, then the transaction, then its completion and its end |
| `Indicate`, `Respond` | `radio_instance_indication` (also `rilConnected`), `radio_instance_response` |
| `DeathNotice`, `Dying`, `Return` | `radio_instance_died`, `radio_instance_drop_binder` |
| `Remove`, `Removed` | `radio_instance_remove`, `radio_registry_instance_removed` |
| `Gone`, `Finalize` | `radio_instance_gone`, `radio_instance_finalize` |
| `Start`, `Crash` | a service starts; a service dies with the remote objects of all who are connected to it |

### State of RadioConfigShared

`conf[o]` is a RadioConfig: as above, with `version` for the key and `weak`,
the number of weak notifications `radio_config_gone`: every lookup that ends at
a config of a lower version (`Found`) adds one more. `shared` is
`radio_config_instance`; HIDL and AIDL have an array each, and one is modelled.
`Respond`, `Indicate` and `DeathNotice` run user code.

### State of RadioSerials

`last_serial` is the counter, one for all objects. `num[r]` has the object of
a request, its state and its two serials; `requests`, `active` and `pending`
are the three hash tables of each object, functions from serials here, and
`queue` is the set of queued requests. Two histories: `wrapped` tells whether
the counter has started over, and `leaving` that a call has answered, failed
or cancelled the request or is about to.

A step is what the code does to the tables at one place. The order in which
the steps of different calls come is left open, so every nesting of callbacks
is covered; queue order, timers and finalization are left to RadioBase. The
memory of a request is used again (`Unused`), so numbers come and go for ever.

| actions | code |
|---|---|
| `Register` (`Reserve`), `Forget` | `radio_base_register_request`, `radio_base_reserve_serial`, `radio_base_unregister_request` |
| `Enqueue`, `Transmit`, `Retransmit` | `radio_base_submit_request`, `radio_base_submit_transaction` |
| `RetryPending`, `AnswerRetried`, `Answered` | `radio_base_retry_request`, `radio_base_handle_resp` |
| `Remove`, `Expired`, `End`, `DeathOf` | `radio_base_drop_req`, `radio_base_timeout`, `radio_base_fail_request`, `radio_base_handle_death` |

### State of RadioDispatch

`radio` is a RadioInstance or a RadioConfig: `api`, `version`, `connected`,
`dead`, `enabled`, and `txs`, the transactions that have not ended with the
callbacks each will end with. `subs` are the listeners in the order they were
connected: observers with a priority, handlers with the answer they give, the
five procedures `radio_client_new` connects (`ClientListeners`). One that was
disconnected stays there turned off (`on`), so that a place in `subs` names
one connection for ever. `calls` are the calls in progress: an emission that
has started has in `left` the listeners it still has to tell, a transaction in
`ends` the callbacks it will end with. `msg` is the last message, how many
listeners there were when it came (`present`) and whom it was told to.

`DispatchSpec` has any interface and version, any messages, any users who
connect, disconnect and send requests, one event after another. Its inputs are
unbounded; TLC runs the same actions under the scripts of `RadioDispatchTests`
(`ScriptNext`), with the messages and listeners these choose.

| actions | code |
|---|---|
| `Indication`, `Response` | `radio_instance_indication`, `radio_instance_response` |
| `ConfigIndication`, `ConfigResponse` | `radio_config_indication`, `radio_config_response` |
| `Died`, `SetEnabled` | `radio_instance_died`, `radio_config_died`, `radio_instance_set_enabled` |
| `Send`, `Transact`, `CancelTransaction`, `EndTransaction` | `radio_instance_send_request`, `radio_instance_send_request_sync`, `radio_config_send_request` |
| `StartEmission`, `Tell`, `EndEmission` | one `g_signal_emit`: who listens when it starts is told, unless disconnected meanwhile |
| `Watching` | `radio_instance_add_..._observer`, `radio_instance_add_..._handler`, `radio_instance_remove_handler` between messages |
| `TransactionEnds` | `radio_instance_tx_complete`, `radio_instance_tx_destroy`: the callbacks of a transaction, which may use the object |
| `RilConnected`, `AckUnhandled` | the inner steps of `radio_instance_indication` and `radio_instance_response` |
| `BaseTold` and the `ClientCalls` in `Tell` | `radio_client_handle_ind`, `..._resp`, `..._ack`, `..._death`, `..._connected` |
| `Use`, `UseReturns` | a listener connects or disconnects listeners, itself included, or sends a request |

### Tests as scripts

`RadioClientTests` and `RadioDispatchTests` restate the unit tests: `steps` and
`script` are what the test has still to do and to assert, `outcome` is what the
fake service of the test does with each request (answer, answer with an error,
ignore, fail, refuse). Where a test runs the main loop (`loop`), answers, ends
of transactions and the timer come in any order the test leaves open. A test
holds if each assertion holds in every such order, and it ends. The scripts
show that the models do what the code is known to do, and that the tests do
not depend on an order the main loop happens to choose. Left out are the tests
of NULL arguments, names and formatting, calls that do nothing (setting the
timeout a request has, blocking a group that owns already), the third request
in the queue of the group test, and the answer to nothing in the test of
answers. `BlockRetryTest` has one retry instead of five.

### State of RadioCodes

None: the codes of each interface, the table of calls (a function from the
code of a request to that of its answer), which codes have a name, and
`radio_req_resp2` as `ReqResp2`. `AnswerTest` in `RadioDispatchTests` sends
each request of each version and lets the service answer in the newest form
its response interface has (`ServiceAnswer`); who waits for `ReqResp2` gets it.

## What TLC checks

In the runs of RadioClient and the scenarios, requests, groups and `None`
are model values without symmetry: the queue and the waiting groups are
ordered, and the requests differ in their groups and blocking. The other runs
take objects, slots, and requests that differ in nothing but the order of
their creation, so symmetry is sound for the invariants they check; versions
and serials are ordered and have none. Runs allow deadlock: the users may stop
calling, the clock stops at `MaxTime`, and objects are used once, so an idle
end is expected.

Bounds: `RetryBound` limits the retries the users ask for, `MaxTime` the
clock, `MaxDepth` the nesting of callbacks, `MaxRefs`, `MaxTxs` and `MaxWeak`
what is counted of an object, `MaxChanges` what listeners do during a message.
Time is in units: a timeout of 1 or 2 is enough to put every deadline before,
at and after the events around it. Two requests suffice for one to be first
and the other last in the queue, to be sent while the other fails, and to be
called back inside the other's callback; three are used where a scan must have
a "next" besides the two that interact (`sent_twice`, `stuck_blocker`) and
where a request outside the groups matters (`groups`). Three objects are one
in the table, one that is dead and still referenced, and one that replaces or
follows them; nesting two deep puts a removal inside a handler of another one.
Three changes are enough for a listener to disconnect itself, to connect
another and to send a request while one message is delivered. `MaxSerial` is
5: two requests of one object occupy at most two numbers each, and one more
while one is sent again, so the counter has to wrap and skip with every number
but the last few taken.

### Runs that pass

| run | instance | properties |
|---|---|---|
| `requests` | 2 requests, one retry each, delay 1, timeout 2 or 1, time 3; transactions fail, the radio connects late; users cancel, retry, change timeouts. 1.9M states | `SendsMatchRetries`, `NoOrphanTransaction`, `TimerCoversPending`, `TablesAgree`, `Lifecycle`, `EndedForGood` |
| `callbacks` | 2 requests, one blocking, the other with a retry; callbacks nested two deep, request observers among them, cancel, release, retry, submit; sending fails, transactions fail, a client or a config dies. 598k states | `TypeOK`, `CompletionInv`, `CompleteOnce`, `NoLostCompletion`, `DeadKeepsNothing`, `SilentWhenCancelled` |
| `groups` | 3 requests: one in each of 2 groups and one in none; groups block, unblock, are cancelled and freed; the client is finalized. 2.4M states | `OwnersAlive`, `FinalizeFrees`, `OwnersInTurn`, `OwnerExcludes`, `OwnerWaits` |
| `scenarios` | 27 unit tests of clients and configs, 12 of messages, those of `radio_req_resp2` for every request and version, and two explorations without a script; fairness. 211k states | `TestsHold`, `BlockerActive`, `QueueMoves`, `AckedOnce`, `ToldInTurn`, `BlockingExcludes`, `RequestsEnd`, `BlockerReleases`, `TestsEnd` |
| `instances` | 2 slots, 3 objects, 2 references and 1 transaction each; services die and restart; handlers nested two deep. 3.3M states | `TypeOK`, `ToldOfTable`, `TableAlive`, `DeadLeave`, `TableFreed`, `HeldAlive`, `DeadUnconnected` |
| `shared` | configs: 3 versions, 3 objects, 2 references and 2 weak notifications each; services die and restart; handlers nested two deep. Serials: 2 objects, 2 requests, numbers up to 5. 974k states | `TypeOK`, `SharedAlive`, `LivingShared`, `CallsAlive`, `SerialsFind`, `SerialsDiffer` |

* `requests` is about the machinery of one client without groups and without
  reentrance: it shows that a request is sent once and once more per retry,
  that the tables, the linked queue and the states agree between events, that
  the timer always covers the earliest deadline, that every transaction in
  flight can be cancelled, that an ended request never comes back, and that
  each request refines `RequestLifecycle`.
* `callbacks` is about reentrance: however callbacks nest, and also when a
  request observer calls the library while a request is on its way to the
  driver, each completion runs at most once, none is lost, and a request that
  is cancelled from anywhere but inside its own submission is silent for ever;
  a dead client or config keeps no request, also when its handlers submit some.
* `groups` is about ownership and lifetimes: while a group keeps the object
  nobody else sends, an object without an owner gets one only when nobody
  else's request is pending, groups own in turn, owners are never freed
  groups, and finalization leaks nothing.
* `scenarios`: all that the unit tests assert holds, in every order of the
  events they leave to the main loop, and every test ends. (A step of a
  dispatch script that checks something is passed whether or not the check
  succeeds: `TestsHold` is what tells, `TestsEnd` only that no script waits for
  something that never comes.) One exploration has
  a blocking and an ordinary request that are answered, fail, expire or are
  cancelled in any order: the blocking one excludes the other while it is
  pending, is an active request as long as it blocks, and does not hold it up
  for ever, nothing that may be sent stays in the queue without a timer, and
  every request whose deadline the clock
  reaches ends (`RequestsEnd`: again and again, all of them have). The other
  delivers one message to up to eight listeners that connect, disconnect and
  send requests meanwhile: it is acknowledged once if it asks for it, and those who
  listen all the while are told once, in turn. A behaviour is one scenario, so
  the requests of one and the messages of another never mix.
* `instances`: handlers may take, give back and create instances in the middle
  of each signal, transactions may outlive all users, and a service may be
  back before its death was noticed.
* `shared`: the same for the shared configs, where one object may be found
  under several versions; and the other thing objects share, the counter of
  serials. A behaviour does one or the other, as neither touches what the
  other shares.

Each property has a mutant: an operator `<Definition><What>` defined before
the definition it replaces, which changes it as a plausible bug would (a head
pointer not moved, a `block_req` not cleared, a weak notification not set, a
serial given without looking whether it is used). TLC finds the property
violated with the mutant in place.

### Fairness

`MCSpec` of `MCRadioScenarios` assumes, for each kind of scenario:

* `WF(ClientContinue)`, `WF(DispatchStep)`: a C call in progress goes on to
  its next statement; it cannot be interrupted.
* `WF(NextStep)`: the test goes on. It is a program of its own.
* `WF(LoopAnswers)`: within a test, the fake service does what it was set up
  to do. In the explorations nothing of the kind is assumed: answers may never
  come, transactions may never end, users may never call.
* `SF(Time)`: time passes whatever the main loop is doing.
* `SF(TimerFires)`: glib dispatches a due timer even when other sources are
  ready again and again, because a source of equal priority cannot starve
  another one.

The clock is bounded, so the liveness properties speak of deadlines the clock
can reach. In the exploration users do not call `radio_request_retry`: a late
answer to a request that waits for a retry leaves an ended request in the
queue (`late_answer`), which then holds up the others.

### Runs that find a violation

Six places where the code does something else than its comments, headers and
tests say. Each run is one property, checked on a small instance that shows it.

| run | property | what the run shows |
|---|---|---|
| `sent_twice` | `SendsMatchRetries` | The scan remembers the next request (`radio_base.c:437`) across `radio_base_request_failed`, which scans the queue itself and may send that request; the outer scan then sends it again, though `retry_count` is 0. |
| `late_answer` | `EndedForGood` | `radio_base_handle_resp` (`radio_base.c:814`) completes a request that is QUEUED for a retry; it becomes DONE but stays in the queue and is sent again. "States >= RADIO_REQUEST_STATE_FAILED are assumed to be terminal states" (`radio_request_p.h:101`). |
| `lost_wakeup` | `QueueMoves` | A group that gives up waiting (`radio_base.c:778`) leaves the queue unlooked at, so a request it held back stays until the next event. |
| `stuck_blocker` | `BlockerActive` | An owner signal handler cancels the blocking request that was just sent; it becomes `block_req` afterwards (`radio_base.c:447`) and nothing clears that. |
| `slot_stolen` | `StillThere` | A service dies and restarts; the last unref of the dead instance runs `radio_instance_gone` (`radio_instance.c:571`), which removes the new instance of that key, alive and in use. |
| `empty_table` | `TableNotEmpty` | A handler of the removed signal finds the table there and empty (`radio_instance.c:544`), where `radio_instance_get_all` takes "If the table exists, it must be non-empty" (`:969`) for granted. |

These behaviours are in the models. The passing runs leave out the combination
that leads to them (`requests` has no groups, `callbacks` no late connection,
the exploration in `scenarios` no groups) or do not check the property they
break; the properties they check hold in spite of them.

More divergences met while reading, without a run of their own:

* `radio_base_unblock` (756-780) hands the ownership to the next waiting group
  without `radio_base_can_set_owner`, though `unit_client.c:1122` says "No
  group can become the owner until pending request gets completed". This is
  why `OwnerWaits` speaks of an object that had no owner, and `OwnerExcludes`
  of steps that keep the owner.
* `radio_base.c:46-48` says that pending requests prevent blocking requests
  from being submitted; `radio_base_can_submit_request` (366-403) has no such
  condition.
* `radio_request_group.h:47-48` says that "only requests belonging to this
  group will be submitted until the block is released". But `block_req` is let
  through before the owner is looked at (371-373): a blocking request that
  waits for a scheduled retry is sent again while a group that blocked
  meanwhile owns the object. `OwnerExcludes` excepts it.
* `radio_base.c:101` says that a common counter "practically guarantees" that
  objects do not share serials. `SerialsDiffer` holds until the counter wraps;
  after that `radio_base_reserve_serial` looks at the requests of its own
  object only.
* "States >= RADIO_REQUEST_STATE_FAILED are assumed to be terminal states"
  (`radio_request_p.h:101`), but a request observer that cancels the request
  which is being sent is undone: `radio_base_submit_transaction` overwrites
  CANCELLED with PENDING (`radio_base.c:295`) when the driver has taken the
  request. If this happens inside the call that submits it,
  `radio_base_submit_request` also puts the withdrawn callback back (601), and
  a failed transaction then runs the callback of a cancelled request.
  `SilentWhenCancelled` does not hold of such cancellations and leaves them
  out: it speaks of those that do not come from inside the request's own
  submission. `EndedForGood` is not checked where observers call the library.
* A blocking request that is cancelled that way becomes `block_req` (447)
  without being in the table `active`, where answers and deadlines are looked
  for, so neither ends it and it holds up all others: as in `stuck_blocker`,
  here with neither a group nor the owner signal. This is why
  `BlockerActive` is checked in `scenarios`, whose callbacks do nothing, and not
  in `callbacks`.
* A request observer may also block a group, or submit a blocking request which
  is sent at once, while another request is on its way to the driver. That one
  is then sent all the same, although a group owns the object or a blocking
  request is pending. `OwnerExcludes` and `BlockingExcludes` are checked and
  proved where the observers of requests only watch.
* The request that the scan remembers as next (`radio_base.c:437`) is held by
  no reference of the scan. `radio_base_request_failed` (454) scans the queue
  itself and runs completion callbacks, and together they may free it: two
  requests are queued before the radio connects, the user gives up the second
  one; on connection sending the first fails, the nested scan sends the second,
  which fails as well and is freed, and the outer scan goes on at it (460, 435).
  The model gets there and has no step for what follows: `Scanning`, `ScanSent`
  and `Refused` require a request that is not freed.
* A blocking request may also become `block_req` for ever when a callback
  retries it while it is being cancelled: `radio_base_drop_req` (180-193) sets
  CANCELLED only after its scan of the queue.
* `radio_request_p.h:89` says that the timeout starts to tick when the request
  becomes PENDING; the deadline is set when it is submitted
  (`radio_base.c:588`) and so runs in the queue.
* `radio_base_object_finalize` (986-1002) does not drop `block_req`. The
  request would leak if it were blocking at that moment; in the code a
  registered request keeps its object alive through its user, which the
  `groups` run has no blocking request to show.
* `radio_base_handle_death` (879-882) has the comment "Make sure that request
  state isn't QUEUED" and sets QUEUED; what it needs is that the request is
  found in no queue, and it empties the queue first.
* `radio_instance_indication`, `radio_instance_response` and
  `radio_config_indication` hold no reference to the object whose signals they
  emit, one after the other; an observer that releases the last one leaves
  them with freed memory. `radio_config_response` and both death handlers do
  hold one. `HeldAlive` and `CallsAlive` speak of the calls that do.
* A nested `radio_instance_remove` may free the table before the outer one
  asks for its size (`radio_instance.c:546`): GLib takes NULL with a warning.
* `radio_client_handle_connected` holds no reference to its client while its
  own users are told, before it lets the queue go on.
* `radio_config_indication` compares with `radio_config_indication_ifaces`,
  the HIDL list (`radio_config.c:453`), not with `desc->ind_ifaces`, so the
  indications of an AIDL config reach nobody and get no status. Likewise the
  status of a config's answer without info is never set.
* `radio_config_aidl_iface_info` takes `RADIO_CONFIG_1_1_REQ_LAST`, 7, for the
  last request, and an AIDL config has one with the code 8.

## What TLAPS proves

Everything below is for all values of the constants: any number of requests,
groups, slots, versions and objects, any retries, timeouts, references and
nesting, any range of serials, any messages and listeners. The assumptions
(`ConstantsAssumption`, `InstancesAssumption`, `SharedAssumption`,
`SerialsAssumption`, `DispatchAssumption`) give the constants their types and
keep `None` or `Null` apart. One more is about users: `DispatchAssumption`
leaves acknowledgements to the library: the request a listener sends while it
is told of a message (`UserRequest`) is not the acknowledgement of any
interface. Between messages users send any code.

* `TypeCorrect` (`RadioClientProofs`): `Spec => []TypeOK`. It is inductive as
  it stands, given that a frame about a request names one (`RequestOps` in
  `Frame`). What it takes is that no step looks up a request that does not
  exist: the queue's links, `Before`, the transmissions and the frames all
  stay in range.
* `CompletionInvariant` (`RadioClientProofs`): `Spec => []CompletionInv`, and
  from it `CompletesOnce`: `Spec => []CompleteOnce`. "At most one run of the
  callback" is not inductive: `radio_base_submit_request` takes the callback
  away during its scan and puts it back. `CompletionInv` adds that a callback
  still due has not run (`CallbackUnused`), that a call which withholds one is
  about a request with no callback of its own that is not NEW and has not been
  completed (`CallbackWithheld`), and that two calls never withhold the
  callback of one request (`WithheldOnce`, from the state: only a NEW request
  can be submitted). Most steps are *calm*: they give no request a callback,
  run none and return none to NEW; one lemma settles all of these. What is
  left is `Submit`, `Submitted`, and the steps that complete a request.
* `CancelledStaysSilent` (`RadioClientProofs`): `Spec => SilentWhenCancelled`,
  with no hypothesis: observers that call the library and any nesting of
  callbacks are included. `Silent` says that a cancelled request has no callback
  and that no call which withholds one is about it. Calm steps keep that, and one
  that cancels a request either establishes it, or is the freeing of the
  request, or comes from inside the call that submits it, which are the two
  exceptions the property states; `Silences` says so of a step, and the steps
  that are not calm have a lemma each.
* `SilenceInvariant` (`RadioClientProofs`): `Spec => []SilenceInv`, and from
  it `NothingIsLost`: `Spec => []NoLostCompletion`, both where the observers of
  requests only watch (`~Observed`). The property speaks of the moments at
  which a request has ended; the invariant has to say who is going to complete
  it until then. With observers that call the library `CancelledHeard` below is
  false, since a cancellation may be undone, and `NoLostCompletion` is only
  model-checked, by `callbacks`. The invariant has three parts.
  - *Accounts*: what the state of a request says of its callback. A submitted
    one without a callback was completed or withdrawn (`Heard`); one that has
    ended and still has its callback has a `done` call in progress
    (`EndedHeard`); a cancelled one has none (`CancelledHeard`); one that is
    being dropped has lost it already (`DropsHeard`). `Ordered` says which
    calls are never made on behalf of which: no request is submitted from
    inside its own drop.
  - *References*: whatever a table, a link of the queue, a transaction or a
    call in progress points to was submitted once or was cancelled (`Seen`). So
    the request that is being created has nobody who could complete it.
  - *Tracks*: a submitted request with a callback is in the table `active`, on
    the list of a death or an expiry that goes through its requests, or about
    to be completed (`Tracked`). This is what makes a completion impossible to
    lose: these three are the ways to find it. The rest of the part keeps it
    through `radio_base_submit_request`, which takes the callback away during
    its scan.

  The invariant was model-checked first, on the instances of `requests`,
  `callbacks`, `groups`, `sent_twice` and `late_answer`. It holds in the two
  latter as well: a request that is sent once too often is not lost.
* `OwnersAreAlive` (`RadioClientProofs`): `Spec => []OwnersAlive`: the owner
  and the groups that wait are live groups, all different, and a request is in
  a live group. That is inductive because of its exception: a group on its way
  out has an `unlink` call in progress, which takes its requests out before
  its memory goes. Most steps are *kept*: they leave the owner and those who
  wait (`SameOwners`), take requests out of groups only (`LessGroups`), and
  let the calls that free a group go on (`FreesGoOn`); one lemma settles all
  of these. The rest move the queue of owners by one place.
* `OwnersTakeTurns`, `OwnersWaitForPending`, `OwnerSendsAlone`: `Spec =>
  OwnersInTurn`, `OwnerWaits`, `OwnerExcludes`, action properties of the run
  `groups`. They come from the same lemmas: what a step may do to the owner
  (`Turns`, `Waits`), and that only what `CanSubmitRequest` allows is sent
  (`Sends`). `OwnerSendsAlone` takes the observers of requests to only watch
  (`~Observed`): one that blocks a group makes it the owner while the request
  that is being sent, of another group or of none, has passed
  `CanSubmitRequest` already. The other two need no hypothesis.
* `BlockerSendsAlone`: `Spec => BlockingExcludes`, an action property of the run
  `scenarios`, under `QuietHandlers`: callbacks do not call the library (as in
  that run, with `MaxDepth = 0`), or there are no groups and the observers of
  requests only watch. Without it the theorem is false: the code records a
  blocking request in `block_req` only after the owner signal its transmission
  may raise, and what a handler of that signal does comes in between
  (`stuck_blocker` shows the same gap); and an observer may submit a blocking
  request while another one is on its way to the driver. The inductive
  invariant `Blocks` follows the code through it. It is in one of two states:
  `Between`, where no scan has just sent a request and every blocking request
  that is pending is `block_req`; or `Sending`, where the running scan has just
  sent one, and that one may be pending without being `block_req` yet. By
  `QuietHandlers` the step after `Sending` can only be the one that records it
  (`SentNext`), every step that sends nothing keeps `Between`
  (`SendsNothing`, one lemma per group of steps), and from `Between` only what
  `CanSubmitRequest` allows is sent, which is `block_req` itself.
* `TablesInvariant` (`RadioTablesProofs`): `Spec => []TablesInv`, under
  `Orderly`, which is three hypotheses about the constants.
  - `"send" \notin Faults`: sending does not fail. When it does, the scan goes on
    with a request that another scan, inside the failure, may have taken out
    of the queue (`sent_twice`).
  - `MaxDepth = 0`: handlers and completion callbacks do not call the library.
    When they do, `block_req` and the tables may disagree for ever
    (`stuck_blocker`): the scan is in the middle of sending a request then.
  - Users do not call `radio_request_retry`, or there are no groups and no
    blocking requests (`Prompt`). A user may retry a request whose answer is on
    its way; the request then waits in the queue under the serial of that
    answer. If it is sent at once it gets a new serial and the answer finds
    nobody. If a group or a blocking request holds it back, the answer ends a
    request that is still in the queue (`late_answer`).

  `requests` satisfies it without groups or blocking requests, `groups` without
  retries. The runs named above break the invariant, each without one of the
  three. All else is free: any number of requests and groups, any retries and
  timeouts, and any faults but the one.

  `TablesAgree` speaks of the time between events. During one the tables are
  wrong on purpose: a request is QUEUED and in no queue since it is on a list
  to be failed, FAILED and in all tables since it is about to be dropped, and
  the queue changes under the scan. So `TablesInv` has to say what the calls in
  progress make of it:
  - `Placed` (of each request): `Tabled`, in which tables it is, by its state
    and by whether a call has it on its list (`Stolen`, `Ending`) or is going
    to drop it (`DropDue`, `Leaving`); `Claimed`, that only one of these has
    it; `Detached`, what holds of a request that was dropped, unregistered or
    freed; `Counted`, that one which waits was sent as often as it was retried
    and one that is PENDING once more; `Wired`, that a transaction in flight is
    the one its request would cancel.
  - `Lined`: the queue is a row of distinct requests linked by `queue_next`
    from head to tail, and they are exactly the ones that wait. The lemmas
    about rows say what appending, unlinking and sending do to it, and that the
    search from the head (`Before`) finds the predecessor. There is no
    induction in them: the row is a function given by the invariant, and of two
    places where searches differ `WellFoundedInduction` gives the first.
  - `Cursors`: a scan stands between two neighbours of the row, and after it
    has sent a request between those that were next to it.
  - `Promptly`: a request that waits under the serial of an answer is due, its
    radio is connected, and a scan that will reach it is in progress or about
    to start.
  - `Nested`, `Fitting`, `Linked`: which calls are in progress above which
    others, what they need, and that after the death of the service the tables
    stay empty.

  After `Finalize` the invariant is `Gone`: nothing but the end of requests
  that are already detached is left to do. The invariant was model-checked
  first, on the instances of `requests` and `groups` and variants of both with
  blocking requests and with deaths. The proof has a lemma for each action,
  and they share a few about steps that leave most of it alone: `TailStep`
  (nothing about requests changes), `MoveStep` (some requests change, the
  others stay), `QueueStep` (one joins the queue).
* From it, all under `Orderly`: `TablesAgreement`, `TransactionsOwned`,
  `SentOncePerRetry`, `BlockerStaysActive`,
  `NothingKeptByDead`, and `FinalizedFrees`, which are `TablesAgree`,
  `NoOrphanTransaction`, `SendsMatchRetries`,
  `BlockerActive`, `DeadKeepsNothing` and `FinalizeFrees`. The last one also
  takes `Blocking = {}`: `radio_base_object_finalize` does not drop
  `block_req`.
  `DeadKeepsNothing` is checked by `callbacks`, with handlers that call the
  library and sending that fails: there the run shows more than the theorem,
  which in turn has any number of requests and groups. `BlockerActive` is
  checked by `scenarios`, whose transactions fail and whose callbacks do
  nothing.
* `EndsForGood`: `Spec => EndedForGood` under `Orderly`, and `FollowsLifecycle`:
  `Spec => Lifecycle`, the refinement of `RequestLifecycle`, under `Orderly`
  and without `Finalize`. Initial states map to initial states, and for each
  action a lemma says which of the steps of the lifecycle one request takes, if
  any (`LifeMoves`); a death is one step of many requests (`LifeDies`). What a
  step of the lifecycle is allowed from is the hard part: that a request which
  is sent waits and has no transmission too many comes from `Counted`, that one
  which fails has not been completed from `CompletionInv`, and that nothing
  fails or answers a request that has ended from `Placed`. After `Finalize`
  requests that were PENDING keep that state and are forgotten.
* `TimingInvariant` (`RadioTimerProofs`): `Spec => []TimingInv`, under
  `Orderly`, and from it `TimerCovers`: `Spec => []TimerCoversPending`, and
  `QueueKeepsMoving`: `Spec => []QueueMoves`, the latter where there are no
  groups. Both speak of the time between events; during one the timer and the
  queue lag behind, and the invariant says which call makes good for it.
  - `Followed`: above which call each scan runs. In the code that is the
    function which asks `radio_base_submit_requests` whether it has sent
    something, and resets the timer if so.
  - `Resets`, `Asking` or `Timed`: the timer is reset in any case before the
    event ends, or it is reset because the scan has sent something, or it fires
    by the deadline of each pending request and by the time of each scheduled
    retry that nothing holds back.
  - `Dated`: a deadline is later than zero by at least the timeout the request
    has now. `radio_base_set_default_timeout` moves the deadlines of requests
    that have no timeout of their own by the difference, and must not make one
    of them zero, which for the timer means none.
  - `Looked`: where the radio is connected, no request that could be sent at
    once is in the queue, or a scan is going to start or is running; and
    `Behind`: the scan has passed no such request. The second is about the row
    of `Lined`: what a scan has behind it is the part of the row before its
    place.

  The proof has a lemma for each action; `TimingKept` settles the
  steps that leave the timer and the queue alone, `TimingStep` those outside
  the scan, `TimingAgain` those after which the timer is reset and the queue
  scanned in any case; `ResetCovers` says that the time which
  `radio_base_reset_timeout` computes is early enough for all. The run
  `requests` satisfies both hypotheses, and the invariant was model-checked on
  its instance first.
  Groups are left out of `QueueKeepsMoving` since with them it is false: when a
  group gives up waiting, nobody looks at the requests it held back
  (`lost_wakeup`).
* `SerialsInvariant` (`RadioSerialsProofs`): `SerialsSpec => [](SerialsTypeOK
  /\ SerialsInv)`, and from it `SerialsFindRequests` and `SerialsDifferBefore`,
  for a counter of any width. `SerialsFind` has two parts. `TableComplete`
  says that the table of all requests has each request under its two serials
  and nothing else, so that two requests of one object share no number; from
  that follows `AnswersFind`, that no step about one request removes or
  replaces another in `active` or `pending`. It speaks of requests that
  nobody has answered, failed or cancelled yet (`leaving`): the others are
  taken out of the tables in several steps. `SerialsInv` adds `OwnTables` (a
  request is in the tables of its own object only), `StatesTell` (what its
  state says of its numbers) and `SerialsBelow` (before the counter wraps, no
  number is above it), which `SerialsDiffer` needs.
* `InstancesInvariant` (`RadioInstancesProofs`): `Spec => [](TypeOK /\
  InstancesInv)`. The five properties are not inductive one by one, and
  `InstancesInv` adds what ties them to the calls in progress: an object not
  created yet has no past and one with binder objects is not dead
  (`UnusedFresh`), one with binder objects is alive or about to be finalized
  (`BoundEnds`), what is being finalized has ended (`FinalizedEnded`), and an
  empty table exists only while a removal is in progress (`TableKept`). Its
  parts speak of the *set* of calls in progress; `CallStackProofs` says what
  `Enter` and `Become` do to that set, so no lemma is about the order of the
  stack. From it `InstancesTypeCorrect`, `RegistryTellsOfTable`, `TablePointsToLive`,
  `DeadLeaveTable`, `HeldStayAlive`, `DeadStayUnconnected` and
  `EmptyTableFreed`, each a property of the run `instances`.
* `SharedInvariant` (`RadioConfigSharedProofs`): `Spec => [](TypeOK /\
  SharedInv)`, and from it `SharedTypeCorrect`, `SharedIsAlive`,
  `LivingIsShared` and `HandlersKeepAlive`, properties of the run `shared`. `SharedInv` adds
  `Unborn`: an unused object is not dead, and only a living one has binder
  objects.
* `DispatchInvariant` (`RadioDispatchProofs`): `DispatchSpec =>
  [](DispatchTypeOK /\ DispatchInv)`, and from it `AcknowledgedOnce`:
  `DispatchSpec => []AckedOnce`, and `ListenersToldInTurn`: `DispatchSpec =>
  []ToldInTurn`. Both speak of the time after a delivery. During one, what is
  still to come is in the calls in progress, and the emissions of the message
  are among those that its listeners started. `DispatchInv` says
  - what listeners there may be, each connection with its own id (`Listened`);
  - which calls tell of this message and that those they have still to tell
    listen to that signal at that priority (`Signalled`);
  - that a message which asks for it has been acknowledged or exactly one call
    is going to: a transaction with that code, or `ack unhandled` as long as no
    handler has taken the message (`Acknowledged`). Only one handler can take
    it, since the emission to handlers ends with that;
  - in which order the calls come: the emissions by rank, the handlers before
    `ack unhandled`, and never two calls that would acknowledge (`Ordered`). It
    is the one part that is about the stack and not the set of its calls;
  - that a listener was told and nobody will tell it again, or it awaits its
    turn and nobody whose turn is later was told (`Informed`). A listener that
    is turned off may do without, and one that came later than the message may
    be told or not, as in g_signal_emit.

  The invariant was model-checked first, on the instance of `scenarios`.

Only model-checked:
* liveness under fairness (`RequestsEnd`, `BlockerReleases`, `TestsEnd`), which
  is beyond the prover;
* `TestsHold`, which is about scripts of finite length, and the operators of
  `RadioCodes`, which are evaluated for all codes there are.

`TablesAgree`, `NoOrphanTransaction`, `SendsMatchRetries`,
`BlockerActive`, `DeadKeepsNothing`, `FinalizeFrees`, `EndedForGood`,
`Lifecycle`, `TimerCoversPending` and `QueueMoves` are theorems under the
hypotheses named above only; what their runs check beyond these is checked on
small instances, such as `QueueMoves` with the groups of `scenarios`. For most
of them there are faults and calls of users that violate them otherwise, by the
behaviours of "Runs that find a violation" and what follows from them.
`BlockingExcludes` is false where there are groups and callbacks use the
library, it and `OwnerExcludes` also where request observers do, and
`NoLostCompletion` is model-checked there but not proved.

## Not modelled

* `radio_base_handle_ack` and the flag `acked`: nothing reads it. RadioDispatch
  has the way of an acknowledgement up to it.
* What the code does with a request that was freed while a scan, or a call
  that sends it, was about to go on with it: the model stops there.
* A retry function that itself calls the library; it is a free choice between
  retrying and completing, within the retry count.
* `Finalize` of a client happens between events only. A finalization from
  inside a callback is excluded by the reference the event's caller holds.
* In RadioClient two requests never share a serial (RadioSerials is about
  that). A request that is sent after it was unregistered uses serial 0 in the
  code and there (`Key`), which cannot collide in the model.
* The contents of requests and answers, the names of interfaces and services
  and their parsing, and the enumerations and structures of the public types,
  which are layouts without behaviour. Names of codes are kept as far as which
  codes have one.
* `radio_req_resp2` for a version that does not exist.
* In RadioInstances and RadioConfigShared, the user code of an event is one
  callback, and `rilConnected` connects before it runs; the order of observers
  and handlers is a matter of RadioDispatch, which in turn has one object that
  stays alive.
* Transactions without a completion, which take no reference, do not occur in
  RadioInstances; they do in RadioDispatch.
* Creating and releasing the registry: somebody is taken to watch it. It keeps
  no state besides its handlers.
* A lookup of an instance under another version or interface than the one it
  was created with: these are part of its key.
* Constructors that only fill in fields, getters, and the setters of a request
  that are called before it is submitted: blocking, retry count and delay are
  constants of the model.

## Plan

Done: the requests of a client or config with groups, blocking, timers and
death; serials; the table of instances; the shared configs; dispatch; the codes
of the interfaces; the unit tests as scripts. Proved: completion, completions
that are neither lost nor late, ownership, blocking where no handler comes in
between, the tables with the queue and the transactions, the refinement of
`RequestLifecycle`, the timer, serials, instances, configs and dispatch.

What could follow:

1. `DeadKeepsNothing` with handlers that call the library and with sending that
   fails, and `NoLostCompletion` with request observers that do, as `callbacks`
   checks them. `TablesInv` and `SilenceInv` are false there, so they need
   invariants that say less.
2. `QueueMoves` with groups, apart from the behaviour of `lost_wakeup`.
3. An abstract registry, which at any time knows the live instances, and
   RadioInstances shown to implement it between events.
