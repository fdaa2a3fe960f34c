----------------------------- MODULE RadioSerials -----------------------------
(***************************************************************************)
(* The serials of requests in radio_base.c: one counter for all objects,   *)
(* and in each object the tables that find a request by its serial.  The   *)
(* other modules take a serial for the transmission that uses it; here it  *)
(* is a number that wraps around and is used again.                        *)
(* A step is what the code does to the tables at one place; when a request *)
(* is sent, expires or is retried, and what callbacks do in between, is    *)
(* left open, as RadioBase is about that.                                  *)
(***************************************************************************)
EXTENDS Integers

CONSTANTS
  Bases,       \* the RadioBase objects
  Numbered,    \* the requests, by their memory, which is used again
  Null,        \* NULL, for requests and objects alike
  MaxSerial    \* the largest number a serial can be: 2^32 - 1 in the code

ASSUME SerialsAssumption ==
  /\ Null \notin Bases \cup Numbered
  /\ MaxSerial \in Nat \ {0}

VARIABLES
  last_serial, \* the counter
  wrapped,     \* history: whether it has started over
  num,         \* object, state and serials of each request
  requests, active, pending,   \* tables of each object, by serial
  queue        \* the requests in the queue of each object

tables == <<requests, active, pending, queue>>
serialVars == <<last_serial, wrapped, num, tables>>

Serials == 0 .. MaxSerial
Empty == [n \in Serials |-> Null]

\* leaving, a history variable, tells that a call has answered, failed or
\* cancelled the request, or is about to.
NumberRecord ==
  [object: Bases \cup {Null}, state: {"NEW", "QUEUED", "PENDING", "ENDED"},
   serial: Serials, serial2: Serials, leaving: BOOLEAN]

Table == [Bases -> [Serials -> Numbered \cup {Null}]]

SerialsTypeOK ==
  /\ last_serial \in Serials /\ wrapped \in BOOLEAN
  /\ num \in [Numbered -> NumberRecord]
  /\ requests \in Table /\ active \in Table /\ pending \in Table
  /\ queue \in [Bases -> SUBSET Numbered]

SerialsInit ==
  /\ last_serial = 0 /\ wrapped = FALSE
  /\ num = [r \in Numbered |-> [object |-> Null, state |-> "ENDED", serial |-> 0,
                                serial2 |-> 0, leaving |-> TRUE]]
  /\ requests = [o \in Bases |-> Empty]
  /\ active = [o \in Bases |-> Empty]
  /\ pending = [o \in Bases |-> Empty]
  /\ queue = [o \in Bases |-> {}]

-----------------------------------------------------------------------------
Without(table, keys) == [n \in Serials |-> IF n \in keys THEN Null ELSE table[n]]
Keys(r) == {num[r].serial, num[r].serial2}

\* Steps of the counter until it shows n.
Ahead(n) == (n - last_serial - 1) % (MaxSerial + 1)

\* Mutant: the next number, whether or not the object still uses it.
ReserveNext(o, n) ==
  /\ n = IF last_serial = MaxSerial THEN 1 ELSE last_serial + 1
  /\ last_serial' = n
  /\ wrapped' = (wrapped \/ n <= last_serial)

\* radio_base_reserve_serial: the next number but 0 that this object does
\* not use.
Reserve(o, n) ==
  /\ n # 0 /\ requests[o][n] = Null
  /\ \A m \in Serials \ {0} : Ahead(m) < Ahead(n) => requests[o][m] # Null
  /\ last_serial' = n
  /\ wrapped' = (wrapped \/ n <= last_serial)

\* Nobody refers to the memory of a request any more, and no object has it.
Unused(r) ==
  /\ num[r].object = Null
  /\ \A o \in Bases :
       /\ r \notin queue[o]
       /\ \A n \in Serials : r \notin {requests[o][n], active[o][n], pending[o][n]}

\* Mutant: every object counts for itself.
RegisterOwnCount(r, o, n) ==
  /\ Unused(r) /\ n # 0 /\ requests[o][n] = Null
  /\ num' = [num EXCEPT ![r] = [object |-> o, state |-> "NEW", serial |-> n,
                                serial2 |-> 0, leaving |-> FALSE]]
  /\ requests' = [requests EXCEPT ![o][n] = r]
  /\ UNCHANGED <<last_serial, wrapped, active, pending, queue>>

Register(r, o, n) ==
  /\ Unused(r) /\ Reserve(o, n)
  /\ num' = [num EXCEPT ![r] = [object |-> o, state |-> "NEW", serial |-> n,
                                serial2 |-> 0, leaving |-> FALSE]]
  /\ requests' = [requests EXCEPT ![o][n] = r]
  /\ UNCHANGED <<active, pending, queue>>

\* radio_base_submit_request: into the queue and the table of active requests.
Enqueue(r, o) ==
  /\ num[r].object = o /\ num[r].state = "NEW"
  /\ num' = [num EXCEPT ![r].state = "QUEUED"]
  /\ active' = [active EXCEPT ![o][num[r].serial] = r]
  /\ queue' = [queue EXCEPT ![o] = @ \cup {r}]
  /\ UNCHANGED <<last_serial, wrapped, requests, pending>>

\* How radio_base_submit_transaction leaves the request: pending under the
\* serial that was sent, or failed.
Outcome(r, o, n, sent) ==
  /\ num' = [num EXCEPT ![r].serial2 = n,
                        ![r].state = IF sent THEN "PENDING" ELSE "ENDED",
                        ![r].leaving = @ \/ ~sent]
  /\ queue' = [queue EXCEPT ![o] = @ \ {r}]

Transmit(r, o, sent) ==
  LET n == num[r].serial IN
  /\ r \in queue[o] /\ num[r].serial2 = 0
  /\ Outcome(r, o, n, sent)
  /\ pending' = IF sent THEN [pending EXCEPT ![o][n] = r] ELSE pending
  /\ UNCHANGED <<last_serial, wrapped, requests, active>>

\* Sent again, under another serial; the first one stays reserved.
Retransmit(r, o, n, sent) ==
  LET used == num[r].serial2
      others == [pending EXCEPT ![o] = Without(@, {used})]
  IN
  /\ r \in queue[o] /\ used # 0
  /\ Reserve(o, n)
  /\ Outcome(r, o, n, sent)
  /\ requests' = [requests EXCEPT ![o] =
       Without([@ EXCEPT ![n] = r], IF used # num[r].serial THEN {used} ELSE {})]
  /\ active' = [active EXCEPT ![o] = Without([@ EXCEPT ![n] = r], {used})]
  /\ pending' = IF sent THEN [others EXCEPT ![o][n] = r] ELSE others

\* radio_base_retry_request.
RetryPending(r, o) ==
  /\ num[r].object = o /\ num[r].state = "PENDING"
  /\ num' = [num EXCEPT ![r].state = "QUEUED"]
  /\ pending' = [pending EXCEPT ![o] = Without(@, {num[r].serial2})]
  /\ queue' = [queue EXCEPT ![o] = @ \cup {r}]
  /\ UNCHANGED <<last_serial, wrapped, requests, active>>

\* radio_base_handle_resp: an answer under the serial n is to be retried.
AnswerRetried(r, o, n) ==
  /\ active[o][n] = r
  /\ num' = [num EXCEPT ![r].state = "QUEUED"]
  /\ pending' = [pending EXCEPT ![o] = Without(@, {n})]
  /\ queue' = [queue EXCEPT ![o] = @ \cup {r}]
  /\ UNCHANGED <<last_serial, wrapped, requests, active>>

\* radio_base_handle_resp: an answer under the serial n ends the request.
Answered(r, o, n) ==
  /\ active[o][n] = r
  /\ num' = [num EXCEPT ![r].state = "ENDED", ![r].leaving = TRUE]
  /\ active' = [active EXCEPT ![o] = Without(@, Keys(r) \cup {n})]
  /\ pending' = [pending EXCEPT ![o] = Without(@, Keys(r) \cup {n})]
  /\ UNCHANGED <<last_serial, wrapped, requests, queue>>

\* radio_base_fail_request, up to its callback, and the end of
\* radio_base_drop_req.
End(r) ==
  /\ num[r].leaving \/ num[r].state = "PENDING"
  /\ num' = [num EXCEPT ![r].state = "ENDED", ![r].leaving = TRUE]
  /\ UNCHANGED <<last_serial, wrapped, tables>>

\* radio_base_deactivate_request.
Deactivate(r, o, stolen) ==
  /\ active' = [active EXCEPT ![o] = Without(@, Keys(r) \cup stolen)]
  /\ pending' = [pending EXCEPT ![o] = Without(@, Keys(r))]
  /\ queue' = [queue EXCEPT ![o] = IF num[r].state = "QUEUED" THEN @ \ {r} ELSE @]
  /\ num' = [num EXCEPT ![r].leaving = TRUE]
  /\ UNCHANGED <<last_serial, wrapped, requests>>

\* radio_base_drop_req, which cancellations and failures come to.
Remove(r, o) == num[r].object = o /\ Deactivate(r, o, {})

\* radio_base_timeout steals what has expired.
Expired(r, o, n) == active[o][n] = r /\ Deactivate(r, o, {n})

\* radio_base_handle_death, up to the failure of each request.
DeathOf(o) ==
  /\ active' = [active EXCEPT ![o] = Empty]
  /\ pending' = [pending EXCEPT ![o] = Empty]
  /\ queue' = [queue EXCEPT ![o] = {}]
  /\ num' = [r \in Numbered |-> IF \E n \in Serials : active[o][n] = r
                                THEN [num[r] EXCEPT !.state = "QUEUED", !.leaving = TRUE]
                                ELSE num[r]]
  /\ UNCHANGED <<last_serial, wrapped, requests>>

\* radio_base_unregister_request, after radio_base_drop_req.
Forget(r, o) ==
  /\ num[r].object = o /\ num[r].leaving
  /\ num' = [num EXCEPT ![r].object = Null, ![r].serial = 0, ![r].serial2 = 0]
  /\ requests' = [requests EXCEPT ![o] = Without(@, Keys(r))]
  /\ UNCHANGED <<last_serial, wrapped, active, pending, queue>>

SerialsNext ==
  \/ \E r \in Numbered, o \in Bases, n \in Serials :
       \/ Register(r, o, n) \/ AnswerRetried(r, o, n) \/ Answered(r, o, n) \/ Expired(r, o, n)
       \/ \E sent \in BOOLEAN : Retransmit(r, o, n, sent)
  \/ \E r \in Numbered, o \in Bases :
       \/ Enqueue(r, o) \/ RetryPending(r, o) \/ Remove(r, o) \/ Forget(r, o)
       \/ \E sent \in BOOLEAN : Transmit(r, o, sent)
  \/ \E r \in Numbered : End(r)
  \/ \E o \in Bases : DeathOf(o)

SerialsSpec == SerialsInit /\ [][SerialsNext]_serialVars

-----------------------------------------------------------------------------
\* The table of all requests has every request under the serial it was
\* created with and the one it was last sent with, and nothing else: however
\* often the counter wraps, no request takes the place of another one.
TableComplete ==
  \A o \in Bases, n \in Serials, r \in Numbered :
    requests[o][n] = r <=> num[r].object = o /\ n \in Keys(r) \ {0}

\* What is sent, or sent again.
Current(r) == IF num[r].serial2 = 0 THEN num[r].serial ELSE num[r].serial2

\* Until somebody answers, fails or cancels it, a request that was submitted
\* is active under its current serial and no other, and pending under it when
\* it is PENDING: no operation on another request removes or replaces it.
AnswersFind ==
  \A r \in Numbered, n \in Serials :
    LET o == num[r].object IN
    ~num[r].leaving =>
      /\ active[o][n] = r <=> n = Current(r) /\ num[r].state \in {"QUEUED", "PENDING"}
      /\ pending[o][n] = r <=> n = Current(r) /\ num[r].state = "PENDING"

\* An answer is taken for the one request its serial was sent for
\* (radio_base_reserve_serial, radio_base_handle_resp).
SerialsFind == TableComplete /\ AnswersFind

\* "Using a static counter practically guarantees that different serials
\* would never be in use simultanously by different RadioBase-derived
\* objects" (radio_base.c:101): until the counter wraps, they are not.
SerialsDiffer ==
  ~wrapped => \A r, q \in Numbered : r # q => Keys(r) \cap Keys(q) \subseteq {0}

\* Why SerialsDiffer holds.
SerialsBelow == ~wrapped => \A r \in Numbered : \A n \in Keys(r) : n <= last_serial

\* A request that belongs to an object has a number and is in the tables and
\* the queue of no other object.
OwnTables ==
  \A r \in Numbered : num[r].object # Null =>
    /\ num[r].serial # 0
    /\ \A o \in Bases \ {num[r].object} :
         /\ r \notin queue[o]
         /\ \A n \in Serials : r \notin {active[o][n], pending[o][n]}

\* What the state of a request says about its numbers, as long as it lasts.
StatesTell ==
  \A r \in Numbered :
    /\ num[r].object = Null =>
         num[r].leaving /\ num[r].serial = 0 /\ num[r].serial2 = 0
    /\ ~num[r].leaving =>
         /\ num[r].state # "ENDED"
         /\ num[r].state = "NEW" => num[r].serial2 = 0
         /\ num[r].state = "PENDING" => num[r].serial2 # 0
         /\ r \in queue[num[r].object] => num[r].state = "QUEUED"

SerialsInv == SerialsFind /\ SerialsDiffer /\ SerialsBelow /\ OwnTables /\ StatesTell
=============================================================================
