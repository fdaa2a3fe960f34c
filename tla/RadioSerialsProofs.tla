-------------------------- MODULE RadioSerialsProofs --------------------------
(***************************************************************************)
(* RadioSerials: an answer is taken for the one request its serial was     *)
(* sent for, however often the counter wraps, for any number of objects,   *)
(* requests and serials.                                                   *)
(***************************************************************************)
EXTENDS RadioSerials, TLAPS

-----------------------------------------------------------------------------
(***************************************************************************)
(* Numbers and tables.                                                     *)
(***************************************************************************)

LEMMA NullApart == \A r \in Numbered, o \in Bases : r # Null /\ o # Null
BY SerialsAssumption

\* What it means for the tables and numbers to have their types.
LEMMA Types ==
  ASSUME SerialsTypeOK, NEW r \in Numbered, NEW o \in Bases
  PROVE  /\ num[r] \in NumberRecord
         /\ num[r].serial \in Serials /\ num[r].serial2 \in Serials
         /\ Keys(r) \subseteq Serials /\ Current(r) \in Keys(r)
         /\ requests[o] \in [Serials -> Numbered \cup {Null}]
         /\ active[o] \in [Serials -> Numbered \cup {Null}]
         /\ pending[o] \in [Serials -> Numbered \cup {Null}]
         /\ 0 \in Serials /\ \A n \in Serials : n \in Int /\ n <= MaxSerial
BY SerialsAssumption DEF SerialsTypeOK, NumberRecord, Keys, Current, Table, Serials

\* What writing one request does.
LEMMA RecordUpdate ==
  ASSUME SerialsTypeOK, NEW r \in Numbered, NEW f \in NumberRecord,
         num' = [num EXCEPT ![r] = f]
  PROVE  /\ num' \in [Numbered -> NumberRecord] /\ num'[r] = f
         /\ \A q \in Numbered \ {r} : num'[q] = num[q]
BY DEF SerialsTypeOK

\* Two requests of one object share no number.
LEMMA NumbersApart ==
  ASSUME SerialsTypeOK, TableComplete, NEW r \in Numbered, NEW q \in Numbered, r # q,
         num[r].object \in Bases, num[r].object = num[q].object,
         NEW n \in Keys(r) \cap Keys(q)
  PROVE  n = 0
BY Types DEF TableComplete

\* A request that nobody ended belongs to an object and has a number.
LEMMA StayingOwned ==
  ASSUME SerialsTypeOK, SerialsInv, NEW q \in Numbered, ~num[q].leaving
  PROVE  /\ num[q].object \in Bases /\ Current(q) # 0 /\ Current(q) \in Serials
         /\ num[q].serial # 0
BY Types, NullApart DEF SerialsInv, StatesTell, OwnTables, Current, SerialsTypeOK, NumberRecord

\* A step that changes neither numbers nor the table of all requests.
LEMMA SameNumbers ==
  ASSUME SerialsTypeOK, SerialsInv, requests' = requests,
         UNCHANGED <<last_serial, wrapped>>,
         \A r \in Numbered : /\ num'[r].object = num[r].object
                             /\ num'[r].serial = num[r].serial
                             /\ num'[r].serial2 = num[r].serial2
  PROVE  TableComplete' /\ SerialsDiffer' /\ SerialsBelow'
<1>1. \A r \in Numbered : Keys(r)' = Keys(r)
  BY DEF Keys
<1>2. TableComplete'
  BY <1>1 DEF SerialsInv, SerialsFind, TableComplete
<1>3. SerialsDiffer'
  BY <1>1 DEF SerialsInv, SerialsDiffer
<1>4. SerialsBelow'
  BY <1>1 DEF SerialsInv, SerialsBelow
<1>. QED BY <1>2, <1>3, <1>4

\* A step about one request takes from active and pending nothing that
\* another one, still wanted, has under its current serial, and gives nothing
\* to others.
OthersKept(r) ==
  \A q \in Numbered \ {r}, o \in Bases, n \in Serials :
    /\ active'[o][n] = q => active[o][n] = q
    /\ pending'[o][n] = q => pending[o][n] = q
    /\ o = num[q].object /\ n = Current(q) /\ ~num[q].leaving =>
         /\ active[o][n] = q => active'[o][n] = q
         /\ pending[o][n] = q => pending'[o][n] = q

\* Then the others are found as before.
LEMMA OthersFound ==
  ASSUME SerialsTypeOK, SerialsInv, NEW r \in Numbered,
         \A q \in Numbered \ {r} : num'[q] = num[q],
         OthersKept(r)
  PROVE  \A q \in Numbered \ {r}, n \in Serials :
           LET o == num'[q].object IN
           ~num'[q].leaving =>
             /\ active'[o][n] = q <=> n = Current(q)' /\ num'[q].state \in {"QUEUED", "PENDING"}
             /\ pending'[o][n] = q <=> n = Current(q)' /\ num'[q].state = "PENDING"
<1>. SUFFICES ASSUME NEW q \in Numbered \ {r}, NEW n \in Serials, ~num[q].leaving
              PROVE  /\ active'[num[q].object][n] = q
                          <=> n = Current(q) /\ num[q].state \in {"QUEUED", "PENDING"}
                     /\ pending'[num[q].object][n] = q
                          <=> n = Current(q) /\ num[q].state = "PENDING"
  BY DEF Current
<1>1. num[q].object \in Bases
  BY StayingOwned
<1>2. /\ active[num[q].object][n] = q
           <=> n = Current(q) /\ num[q].state \in {"QUEUED", "PENDING"}
      /\ pending[num[q].object][n] = q
           <=> n = Current(q) /\ num[q].state = "PENDING"
  BY DEF SerialsInv, SerialsFind, AnswersFind
<1>. QED BY <1>1, <1>2 DEF OthersKept

\* What a step about one request, or none, has to show.
LEMMA StepParts ==
  ASSUME SerialsTypeOK, SerialsInv, NEW r \in Numbered,
         \A q \in Numbered \ {r} : num'[q] = num[q],
         TableComplete' /\ SerialsDiffer' /\ SerialsBelow',
         OthersKept(r),
         \A q \in Numbered \ {r}, o \in Bases : q \in queue'[o] => q \in queue[o],
         \* the request itself
         num'[r].leaving /\ num'[r].object # Null => num'[r].serial # 0,
         num'[r].object = Null =>
           num'[r].leaving /\ num'[r].serial = 0 /\ num'[r].serial2 = 0,
         num'[r].object # Null => \A o \in Bases \ {num'[r].object} :
           r \notin queue'[o] /\ \A n \in Serials : r \notin {active'[o][n], pending'[o][n]},
         ~num'[r].leaving =>
           /\ num'[r].serial # 0 /\ num'[r].state # "ENDED"
           /\ num'[r].state = "NEW" => num'[r].serial2 = 0
           /\ num'[r].state = "PENDING" => num'[r].serial2 # 0
           /\ r \in queue'[num'[r].object] => num'[r].state = "QUEUED"
           /\ \A n \in Serials :
                /\ active'[num'[r].object][n] = r
                     <=> n = Current(r)' /\ num'[r].state \in {"QUEUED", "PENDING"}
                /\ pending'[num'[r].object][n] = r
                     <=> n = Current(r)' /\ num'[r].state = "PENDING"
  PROVE  SerialsInv'
<1>1. AnswersFind'
  BY OthersFound DEF AnswersFind
<1>2. OwnTables'
  BY DEF SerialsInv, OwnTables, OthersKept
<1>3. StatesTell'
  <2>. SUFFICES ASSUME NEW q \in Numbered \ {r}
                PROVE  /\ num[q].object = Null =>
                            num[q].leaving /\ num[q].serial = 0 /\ num[q].serial2 = 0
                       /\ ~num[q].leaving =>
                            /\ num[q].state # "ENDED"
                            /\ num[q].state = "NEW" => num[q].serial2 = 0
                            /\ num[q].state = "PENDING" => num[q].serial2 # 0
                            /\ q \in queue'[num[q].object] => num[q].state = "QUEUED"
    BY DEF StatesTell
  <2>. QED BY StayingOwned DEF SerialsInv, StatesTell
<1>. QED BY <1>1, <1>2, <1>3 DEF SerialsInv, SerialsFind

-----------------------------------------------------------------------------
(***************************************************************************)
(* The steps.                                                              *)
(***************************************************************************)

LEMMA EnqueueStep ==
  ASSUME SerialsTypeOK, SerialsInv, NEW r \in Numbered, NEW o \in Bases, Enqueue(r, o)
  PROVE  SerialsTypeOK' /\ SerialsInv'
<1>1. SerialsTypeOK'
  BY ZenonT(60) DEF Enqueue, SerialsTypeOK, NumberRecord, Table
<1>2. TableComplete' /\ SerialsDiffer' /\ SerialsBelow'
  BY SameNumbers DEF Enqueue, SerialsTypeOK, NumberRecord
<1>. USE NullApart
<1>3. num[r].serial \in Keys(r) /\ num[r].serial # 0
  BY DEF Keys, Enqueue, SerialsInv, OwnTables
<1>4. OthersKept(r)
  <2>. SUFFICES ASSUME NEW q \in Numbered \ {r}, NEW p \in Bases, NEW n \in Serials
                PROVE  /\ active'[p][n] = q => active[p][n] = q
                       /\ p = num[q].object /\ n = Current(q) /\ active[p][n] = q => active'[p][n] = q
    BY DEF Enqueue, OthersKept
  <2>1. active'[p][n] = IF p = o /\ n = num[r].serial THEN r ELSE active[p][n]
    BY Types DEF Enqueue, SerialsTypeOK, Table
  <2>2. ~(p = o /\ n = num[r].serial /\ p = num[q].object /\ n = Current(q))
    BY <1>3, NumbersApart, Types DEF SerialsInv, SerialsFind, Enqueue
  <2>. QED BY <2>1, <2>2
<1>5. Current(r) = num[r].serial \/ num[r].leaving
  BY DEF Enqueue, SerialsInv, StatesTell, Current
<1>6. ~num[r].leaving => \A n \in Serials :
         /\ active[o][n] # r /\ pending[o][n] # r
         /\ active'[o][n] = r <=> n = Current(r)
         /\ pending'[o][n] # r
  BY <1>5, Types DEF Enqueue, SerialsInv, SerialsFind, AnswersFind, SerialsTypeOK, Table
<1>7. Current(r)' = Current(r)
  BY DEF Current, Enqueue, SerialsTypeOK
<1>8. num' = [num EXCEPT ![r].state = "QUEUED"] /\ num'[r] = [num[r] EXCEPT !.state = "QUEUED"]
  BY DEF Enqueue, SerialsTypeOK
<1>9. \A p \in Bases \ {o} :
        r \notin queue'[p] /\ \A n \in Serials : r \notin {active'[p][n], pending'[p][n]}
  BY DEF Enqueue, SerialsInv, OwnTables, SerialsTypeOK, Table
<1>10. \A q \in Numbered \ {r} :
         num'[q] = num[q] /\ \A p \in Bases : q \in queue'[p] => q \in queue[p]
  BY DEF Enqueue, SerialsTypeOK
<1>11. /\ num'[r].object = o /\ num'[r].serial = num[r].serial
       /\ num'[r].leaving = num[r].leaving /\ num'[r].state = "QUEUED"
  BY <1>8 DEF Enqueue, SerialsTypeOK, NumberRecord
<1>. QED BY <1>1, <1>2, <1>3, <1>4, <1>6, <1>7, <1>9, <1>10, <1>11, StepParts

\* A step that ends a request, or has done so, and takes it out of the tables
\* and the queue, wholly or in part.
LEMMA EndingStep ==
  ASSUME SerialsTypeOK, SerialsInv, NEW r \in Numbered,
         \A q \in Numbered \ {r} : num'[q] = num[q],
         /\ num'[r].object = num[r].object /\ num'[r].leaving
         /\ num'[r].serial = num[r].serial /\ num'[r].serial2 = num[r].serial2,
         UNCHANGED <<last_serial, wrapped, requests>>,
         \A p \in Bases : queue'[p] \subseteq queue[p],
         \A p \in Bases, n \in Serials :
           /\ active'[p][n] \in {active[p][n], Null}
           /\ pending'[p][n] \in {pending[p][n], Null}
           /\ active'[p][n] # active[p][n] \/ pending'[p][n] # pending[p][n] =>
                active[p][n] = r \/ n = 0 \/ (num[r].object = p /\ n \in Keys(r))
  PROVE  SerialsInv'
<1>. USE NullApart
<1>1. TableComplete' /\ SerialsDiffer' /\ SerialsBelow'
  BY SameNumbers
<1>2. OthersKept(r)
  <2>. SUFFICES ASSUME NEW q \in Numbered \ {r}, NEW p \in Bases, NEW n \in Serials,
                       p = num[q].object, n = Current(q), ~num[q].leaving
                PROVE  /\ active[p][n] = q => active'[p][n] = q
                       /\ pending[p][n] = q => pending'[p][n] = q
    BY DEF OthersKept
  <2>1. n # 0 /\ n \in Keys(q)
    BY StayingOwned, Types
  <2>2. ~(num[r].object = p /\ n \in Keys(r))
    BY <2>1, NumbersApart DEF SerialsInv, SerialsFind
  <2>3. pending[p][n] = q => active[p][n] = q
    BY DEF SerialsInv, SerialsFind, AnswersFind
  <2>. QED BY <2>1, <2>2, <2>3
<1>3. num[r].object # Null =>
        /\ num[r].serial # 0
        /\ \A p \in Bases \ {num[r].object} :
             r \notin queue'[p] /\ \A n \in Serials : r \notin {active'[p][n], pending'[p][n]}
  BY DEF SerialsInv, OwnTables
<1>4. num[r].object = Null => num[r].serial = 0 /\ num[r].serial2 = 0
  BY DEF SerialsInv, StatesTell
<1>. QED BY <1>1, <1>2, <1>3, <1>4, StepParts

LEMMA AnsweredStep ==
  ASSUME SerialsTypeOK, SerialsInv, NEW r \in Numbered, NEW o \in Bases, NEW n \in Serials,
         Answered(r, o, n)
  PROVE  SerialsTypeOK' /\ SerialsInv'
<1>. USE NullApart
<1>. DEFINE f == [num[r] EXCEPT !.state = "ENDED", !.leaving = TRUE]
<1>1. f \in NumberRecord /\ num' = [num EXCEPT ![r] = f]
  BY DEF Answered, SerialsTypeOK, NumberRecord
<1>2. /\ num' \in [Numbered -> NumberRecord] /\ num'[r] = f
      /\ \A q \in Numbered \ {r} : num'[q] = num[q]
  BY <1>1, RecordUpdate
<1>3. /\ active' \in Table /\ pending' \in Table
      /\ \A p \in Bases, m \in Serials :
           /\ active'[p][m] \in {active[p][m], Null}
           /\ pending'[p][m] \in {pending[p][m], Null}
           /\ active'[p][m] # active[p][m] \/ pending'[p][m] # pending[p][m] =>
                p = o /\ m \in Keys(r) \cup {n}
  <2>1. /\ active' = [active EXCEPT ![o] = Without(@, Keys(r) \cup {n})]
        /\ pending' = [pending EXCEPT ![o] = Without(@, Keys(r) \cup {n})]
        /\ active \in Table /\ pending \in Table
        /\ Keys(r) \cup {n} \in SUBSET Serials
    BY Types DEF Answered, SerialsTypeOK
  <2>2. active' \in Table /\ \A p \in Bases, m \in Serials :
          active'[p][m] = IF p = o /\ m \in Keys(r) \cup {n} THEN Null ELSE active[p][m]
    BY <2>1 DEF Without, Table
  <2>3. pending' \in Table /\ \A p \in Bases, m \in Serials :
          pending'[p][m] = IF p = o /\ m \in Keys(r) \cup {n} THEN Null ELSE pending[p][m]
    BY <2>1 DEF Without, Table
  <2>. QED BY <2>2, <2>3
<1>4. SerialsTypeOK'
  BY <1>2, <1>3 DEF Answered, SerialsTypeOK
<1>5. num[r].object \in {o, Null} /\ (num[r].object = Null => Keys(r) = {0})
  BY DEF Answered, SerialsInv, OwnTables, StatesTell, Keys, SerialsTypeOK, NumberRecord
<1>6. SerialsInv'
  <2>1. /\ num'[r].object = num[r].object /\ num'[r].leaving
        /\ num'[r].serial = num[r].serial /\ num'[r].serial2 = num[r].serial2
    BY <1>2 DEF SerialsTypeOK, NumberRecord
  <2>2. \A p \in Bases, m \in Serials :
          /\ active'[p][m] \in {active[p][m], Null}
          /\ pending'[p][m] \in {pending[p][m], Null}
          /\ active'[p][m] # active[p][m] \/ pending'[p][m] # pending[p][m] =>
               active[p][m] = r \/ m = 0 \/ (num[r].object = p /\ m \in Keys(r))
    BY <1>3, <1>5 DEF Answered
  <2>3. UNCHANGED <<last_serial, wrapped, requests>> /\ \A p \in Bases : queue'[p] \subseteq queue[p]
    BY DEF Answered
  <2>4. \A q \in Numbered \ {r} : num'[q] = num[q]
    BY <1>2
  <2>. HIDE DEF f
  <2>. QED BY <2>1, <2>2, <2>3, <2>4, EndingStep
<1>. QED BY <1>4, <1>6

LEMMA EndStep ==
  ASSUME SerialsTypeOK, SerialsInv, NEW r \in Numbered, End(r)
  PROVE  SerialsTypeOK' /\ SerialsInv'
<1>. DEFINE f == [num[r] EXCEPT !.state = "ENDED", !.leaving = TRUE]
<1>1. f \in NumberRecord /\ num' = [num EXCEPT ![r] = f]
  BY DEF End, SerialsTypeOK, NumberRecord
<1>2. /\ num' \in [Numbered -> NumberRecord] /\ num'[r] = f
      /\ \A q \in Numbered \ {r} : num'[q] = num[q]
  BY <1>1, RecordUpdate
<1>3. SerialsTypeOK'
  BY <1>2 DEF End, SerialsTypeOK, tables
<1>4. SerialsInv'
  BY <1>2, EndingStep DEF End, SerialsTypeOK, NumberRecord, tables
<1>. QED BY <1>3, <1>4

LEMMA DeactivateStep ==
  ASSUME SerialsTypeOK, SerialsInv, NEW r \in Numbered, NEW o \in Bases,
         NEW stolen \in SUBSET Serials, \A n \in stolen : active[o][n] = r,
         num[r].object = o \/ stolen # {}, Deactivate(r, o, stolen)
  PROVE  SerialsTypeOK' /\ SerialsInv'
<1>. USE NullApart
<1>. DEFINE f == [num[r] EXCEPT !.leaving = TRUE]
<1>1. f \in NumberRecord /\ num' = [num EXCEPT ![r] = f]
  BY ZenonT(60) DEF Deactivate, SerialsTypeOK, NumberRecord
<1>2. /\ num' \in [Numbered -> NumberRecord] /\ num'[r] = f
      /\ \A q \in Numbered \ {r} : num'[q] = num[q]
  BY <1>1, RecordUpdate
<1>3. /\ active' \in Table /\ pending' \in Table
      /\ \A p \in Bases, m \in Serials :
           /\ active'[p][m] \in {active[p][m], Null}
           /\ pending'[p][m] \in {pending[p][m], Null}
           /\ active'[p][m] # active[p][m] \/ pending'[p][m] # pending[p][m] =>
                p = o /\ m \in Keys(r) \cup stolen
  <2>1. /\ active' = [active EXCEPT ![o] = Without(@, Keys(r) \cup stolen)]
        /\ pending' = [pending EXCEPT ![o] = Without(@, Keys(r))]
        /\ active \in Table /\ pending \in Table
        /\ Keys(r) \cup stolen \in SUBSET Serials /\ Keys(r) \in SUBSET Serials
    BY Types DEF Deactivate, SerialsTypeOK
  <2>2. active' \in Table /\ \A p \in Bases, m \in Serials :
          active'[p][m] = IF p = o /\ m \in Keys(r) \cup stolen THEN Null ELSE active[p][m]
    BY <2>1 DEF Without, Table
  <2>3. pending' \in Table /\ \A p \in Bases, m \in Serials :
          pending'[p][m] = IF p = o /\ m \in Keys(r) THEN Null ELSE pending[p][m]
    BY <2>1 DEF Without, Table
  <2>. QED BY <2>2, <2>3
<1>4. SerialsTypeOK' /\ \A p \in Bases : queue'[p] \subseteq queue[p]
  BY <1>2, <1>3 DEF Deactivate, SerialsTypeOK
<1>5. num[r].object \in {o, Null} /\ (num[r].object = Null => Keys(r) = {0})
  BY DEF SerialsInv, OwnTables, StatesTell, Keys, SerialsTypeOK, NumberRecord
<1>6. SerialsInv'
  <2>1. /\ num'[r].object = num[r].object /\ num'[r].leaving
        /\ num'[r].serial = num[r].serial /\ num'[r].serial2 = num[r].serial2
    BY <1>2 DEF SerialsTypeOK, NumberRecord
  <2>2. \A p \in Bases, m \in Serials :
          /\ active'[p][m] \in {active[p][m], Null}
          /\ pending'[p][m] \in {pending[p][m], Null}
          /\ active'[p][m] # active[p][m] \/ pending'[p][m] # pending[p][m] =>
               active[p][m] = r \/ m = 0 \/ (num[r].object = p /\ m \in Keys(r))
    BY <1>3, <1>5 DEF Deactivate
  <2>3. UNCHANGED <<last_serial, wrapped, requests>> /\ \A p \in Bases : queue'[p] \subseteq queue[p]
    BY <1>4 DEF Deactivate
  <2>4. \A q \in Numbered \ {r} : num'[q] = num[q]
    BY <1>2
  <2>. HIDE DEF f
  <2>. QED BY <2>1, <2>2, <2>3, <2>4, EndingStep
<1>. QED BY <1>4, <1>6

LEMMA RemoveStep ==
  ASSUME SerialsTypeOK, SerialsInv, NEW r \in Numbered, NEW o \in Bases, Remove(r, o)
  PROVE  SerialsTypeOK' /\ SerialsInv'
BY DeactivateStep DEF Remove

LEMMA ExpiredStep ==
  ASSUME SerialsTypeOK, SerialsInv, NEW r \in Numbered, NEW o \in Bases, NEW n \in Serials,
         Expired(r, o, n)
  PROVE  SerialsTypeOK' /\ SerialsInv'
BY DeactivateStep DEF Expired

\* A step that puts a request back into the queue, and takes it out of the
\* table of pending requests when it was there.
Requeue(r, o, n) ==
  /\ num[r].object = o \/ (num[r].leaving /\ num[r].object = Null)
  /\ active[o][n] = r \/ (num[r].object = o /\ n \in Keys(r))
  /\ ~num[r].leaving => n = Current(r) /\ num[r].state \in {"QUEUED", "PENDING"}
  /\ num' = [num EXCEPT ![r].state = "QUEUED"]
  /\ pending' = [pending EXCEPT ![o] = Without(@, {n})]
  /\ queue' = [queue EXCEPT ![o] = @ \cup {r}]
  /\ UNCHANGED <<last_serial, wrapped, requests, active>>

LEMMA RequeueStep ==
  ASSUME SerialsTypeOK, SerialsInv, NEW r \in Numbered, NEW o \in Bases, NEW n \in Serials,
         Requeue(r, o, n)
  PROVE  SerialsTypeOK' /\ SerialsInv'
<1>. USE NullApart
<1>. DEFINE f == [num[r] EXCEPT !.state = "QUEUED"]
<1>1. f \in NumberRecord /\ num' = [num EXCEPT ![r] = f]
  BY DEF Requeue, SerialsTypeOK, NumberRecord
<1>2. /\ num' \in [Numbered -> NumberRecord] /\ num'[r] = f
      /\ \A q \in Numbered \ {r} : num'[q] = num[q]
  BY <1>1, RecordUpdate
<1>3. /\ num'[r].object = num[r].object /\ num'[r].leaving = num[r].leaving
      /\ num'[r].serial = num[r].serial /\ num'[r].serial2 = num[r].serial2
      /\ num'[r].state = "QUEUED"
  BY <1>2 DEF SerialsTypeOK, NumberRecord
<1>4. pending' \in Table /\ \A p \in Bases, m \in Serials :
        pending'[p][m] = IF p = o /\ m = n THEN Null ELSE pending[p][m]
  BY DEF Requeue, Without, Table, SerialsTypeOK
<1>5. queue' \in [Bases -> SUBSET Numbered] /\ \A p \in Bases :
        queue'[p] = IF p = o THEN queue[p] \cup {r} ELSE queue[p]
  BY DEF Requeue, SerialsTypeOK
<1>6. SerialsTypeOK'
  BY <1>2, <1>4, <1>5 DEF Requeue, SerialsTypeOK
<1>7. TableComplete' /\ SerialsDiffer' /\ SerialsBelow'
  BY <1>2, <1>3, SameNumbers DEF Requeue
<1>8. OthersKept(r)
  <2>. SUFFICES ASSUME NEW q \in Numbered \ {r}, NEW p \in Bases, NEW m \in Serials,
                       p = num[q].object, m = Current(q), ~num[q].leaving,
                       pending[p][m] = q
                PROVE  ~(p = o /\ m = n)
    <3>1. active' = active
      BY DEF Requeue
    <3>2. \A q \in Numbered \ {r}, p \in Bases, m \in Serials :
            pending'[p][m] = q <=> pending[p][m] = q /\ ~(p = o /\ m = n)
      BY <1>4
    <3>. QED BY <3>1, <3>2 DEF OthersKept
  <2>1. active[p][m] = q
    BY DEF SerialsInv, SerialsFind, AnswersFind
  <2>2. p = o /\ m = n => num[r].object = o /\ n \in Keys(r)
    BY <2>1 DEF Requeue
  <2>3. m # 0 /\ m \in Keys(q)
    BY StayingOwned, Types
  <2>. QED BY <2>2, <2>3, NumbersApart DEF SerialsInv, SerialsFind
<1>9. Current(r)' = Current(r)
  BY <1>3 DEF Current
<1>10. ~num[r].leaving => \A m \in Serials :
         /\ active'[o][m] = r <=> m = Current(r)
         /\ pending'[o][m] # r
  <2>1. ~num[r].leaving => num[r].object = o
    BY StayingOwned DEF Requeue
  <2>2. ~num[r].leaving => \A m \in Serials :
          /\ active[o][m] = r <=> m = Current(r) /\ num[r].state \in {"QUEUED", "PENDING"}
          /\ pending[o][m] = r => m = Current(r)
    BY <2>1 DEF SerialsInv, SerialsFind, AnswersFind
  <2>. QED BY <1>4, <2>2, SMTT(30) DEF Requeue
<1>11. num[r].object # Null =>
         /\ num[r].serial # 0
         /\ \A p \in Bases \ {num[r].object} :
              r \notin queue'[p] /\ \A m \in Serials : r \notin {active'[p][m], pending'[p][m]}
  BY <1>4, <1>5 DEF Requeue, SerialsInv, OwnTables
<1>12. /\ num[r].object = Null => num[r].serial = 0 /\ num[r].serial2 = 0
       /\ ~num[r].leaving => num[r].object = o
  BY DEF Requeue, SerialsInv, StatesTell
<1>13. \A q \in Numbered \ {r}, p \in Bases : q \in queue'[p] => q \in queue[p]
  BY <1>5
<1>. HIDE DEF f
<1>14. SerialsInv'
  BY <1>2, <1>3, <1>7, <1>8, <1>9, <1>10, <1>11, <1>12, <1>13, StepParts
<1>. QED BY <1>6, <1>14

LEMMA RetryPendingStep ==
  ASSUME SerialsTypeOK, SerialsInv, NEW r \in Numbered, NEW o \in Bases, RetryPending(r, o)
  PROVE  SerialsTypeOK' /\ SerialsInv'
<1>. USE NullApart
<1>1. num[r].serial2 \in Serials /\ num[r].serial2 \in Keys(r)
  BY Types DEF Keys
<1>2. ~num[r].leaving => num[r].serial2 = Current(r)
  BY DEF RetryPending, SerialsInv, StatesTell, Current
<1>. QED BY <1>1, <1>2, RequeueStep DEF RetryPending, Requeue

LEMMA AnswerRetriedStep ==
  ASSUME SerialsTypeOK, SerialsInv, NEW r \in Numbered, NEW o \in Bases, NEW n \in Serials,
         AnswerRetried(r, o, n)
  PROVE  SerialsTypeOK' /\ SerialsInv'
<1>. USE NullApart
<1>1. num[r].object \in {o, Null} /\ (num[r].object = Null => num[r].leaving)
  BY DEF AnswerRetried, SerialsInv, OwnTables, StatesTell, SerialsTypeOK, NumberRecord
<1>2. ~num[r].leaving => n = Current(r) /\ num[r].state \in {"QUEUED", "PENDING"}
  BY <1>1 DEF AnswerRetried, SerialsInv, SerialsFind, AnswersFind
<1>. QED BY <1>1, <1>2, RequeueStep DEF AnswerRetried, Requeue

LEMMA TransmitStep ==
  ASSUME SerialsTypeOK, SerialsInv, NEW r \in Numbered, NEW o \in Bases, NEW sent \in BOOLEAN,
         Transmit(r, o, sent)
  PROVE  SerialsTypeOK' /\ SerialsInv'
<1>. USE NullApart
<1>. DEFINE n == num[r].serial
            f == [num[r] EXCEPT !.serial2 = n, !.state = IF sent THEN "PENDING" ELSE "ENDED",
                                !.leaving = @ \/ ~sent]
<1>1. n \in Serials /\ f \in NumberRecord /\ num' = [num EXCEPT ![r] = f]
  BY Types, ZenonT(60) DEF Transmit, Outcome, SerialsTypeOK, NumberRecord
<1>2. /\ num' \in [Numbered -> NumberRecord] /\ num'[r] = f
      /\ \A q \in Numbered \ {r} : num'[q] = num[q]
  BY <1>1, RecordUpdate
<1>3. /\ num'[r].object = num[r].object /\ num'[r].serial = n /\ num'[r].serial2 = n
      /\ num'[r].leaving = (num[r].leaving \/ ~sent)
      /\ sent => num'[r].state = "PENDING"
  BY <1>2 DEF SerialsTypeOK, NumberRecord
<1>4. pending' \in Table /\ \A p \in Bases, m \in Serials :
        pending'[p][m] = IF sent /\ p = o /\ m = n THEN r ELSE pending[p][m]
  BY <1>1 DEF Transmit, Table, SerialsTypeOK
<1>5. queue' \in [Bases -> SUBSET Numbered] /\ \A p \in Bases :
        queue'[p] = IF p = o THEN queue[p] \ {r} ELSE queue[p]
  BY DEF Transmit, Outcome, SerialsTypeOK
<1>. HIDE DEF f
<1>6. SerialsTypeOK'
  BY <1>2, <1>4, <1>5 DEF Transmit, SerialsTypeOK
<1>7. Keys(r) = {n, 0} /\ Keys(r)' = {n} /\ \A q \in Numbered \ {r} : Keys(q)' = Keys(q)
  BY <1>2, <1>3 DEF Transmit, Keys
<1>8. TableComplete'
  BY <1>2, <1>3, <1>7 DEF Transmit, SerialsInv, SerialsFind, TableComplete
<1>9. SerialsDiffer' /\ SerialsBelow'
  BY <1>7 DEF Transmit, SerialsInv, SerialsDiffer, SerialsBelow
<1>10. num[r].object \in {o, Null} /\ (num[r].object = Null => n = 0 /\ num[r].leaving)
  BY DEF Transmit, SerialsInv, OwnTables, StatesTell, SerialsTypeOK, NumberRecord
<1>11. OthersKept(r)
  <2>. SUFFICES ASSUME NEW q \in Numbered \ {r}, NEW p \in Bases, NEW m \in Serials,
                       p = num[q].object, m = Current(q), ~num[q].leaving, p = o, m = n
                PROVE  FALSE
    BY <1>4 DEF OthersKept, Transmit
  <2>1. n # 0 /\ n \in Keys(q) /\ n \in Keys(r)
    BY StayingOwned, Types, <1>7
  <2>. QED BY <2>1, <1>10, NumbersApart DEF SerialsInv, SerialsFind
<1>12. num[r].object # Null =>
         /\ num[r].serial # 0
         /\ \A p \in Bases \ {num[r].object} :
              r \notin queue'[p] /\ \A m \in Serials : r \notin {active'[p][m], pending'[p][m]}
  BY <1>4, <1>5, <1>10 DEF Transmit, SerialsInv, OwnTables
<1>13. Current(r) = n /\ Current(r)' = n
  BY <1>3 DEF Transmit, Current
<1>14. ~num'[r].leaving => \A m \in Serials :
         /\ active'[o][m] = r <=> m = n
         /\ pending'[o][m] = r <=> m = n
  <2>. SUFFICES ASSUME ~num[r].leaving, sent PROVE \A m \in Serials :
         /\ active'[o][m] = r <=> m = n
         /\ pending'[o][m] = r <=> m = n
    BY <1>3
  <2>1. num[r].object = o /\ num[r].state = "QUEUED"
    BY <1>10 DEF Transmit, SerialsInv, StatesTell
  <2>2. \A m \in Serials : /\ active[o][m] = r <=> m = n
                          /\ pending[o][m] # r
    BY <1>13, <2>1 DEF SerialsInv, SerialsFind, AnswersFind
  <2>. QED BY <1>4, <2>2 DEF Transmit
<1>15. \A q \in Numbered \ {r}, p \in Bases : q \in queue'[p] => q \in queue[p]
  BY <1>5
<1>16. r \notin queue'[o]
  BY <1>5
<1>17. /\ num'[r].object = Null =>
            num'[r].leaving /\ num'[r].serial = 0 /\ num'[r].serial2 = 0
       /\ num'[r].object # Null => num'[r].serial # 0
       /\ ~num'[r].leaving =>
            num'[r].object = o /\ num'[r].serial # 0 /\ num'[r].state = "PENDING" /\ n # 0
  BY <1>3, <1>10, <1>12
<1>. HIDE DEF n
<1>18. SerialsInv'
  BY <1>2, <1>3, <1>8, <1>9, <1>11, <1>12, <1>13, <1>14, <1>15, <1>16, <1>17, StepParts
<1>. QED BY <1>6, <1>18

LEMMA ForgetStep ==
  ASSUME SerialsTypeOK, SerialsInv, NEW r \in Numbered, NEW o \in Bases, Forget(r, o)
  PROVE  SerialsTypeOK' /\ SerialsInv'
<1>. USE NullApart
<1>. DEFINE f == [num[r] EXCEPT !.object = Null, !.serial = 0, !.serial2 = 0]
<1>1. f \in NumberRecord /\ num' = [num EXCEPT ![r] = f]
  BY Types DEF Forget, SerialsTypeOK, NumberRecord
<1>2. /\ num' \in [Numbered -> NumberRecord] /\ num'[r] = f
      /\ \A q \in Numbered \ {r} : num'[q] = num[q]
  BY <1>1, RecordUpdate
<1>3. /\ num'[r].object = Null /\ num'[r].serial = 0 /\ num'[r].serial2 = 0
      /\ num'[r].leaving
  BY <1>2 DEF Forget, SerialsTypeOK, NumberRecord
<1>. HIDE DEF f
<1>4. requests' \in Table /\ \A p \in Bases, m \in Serials :
        requests'[p][m] = IF p = o /\ m \in Keys(r) THEN Null ELSE requests[p][m]
  BY DEF Forget, Without, Table, SerialsTypeOK
<1>5. SerialsTypeOK'
  BY <1>2, <1>4 DEF Forget, SerialsTypeOK
<1>6. Keys(r)' = {0} /\ \A q \in Numbered \ {r} : Keys(q)' = Keys(q)
  BY <1>2, <1>3 DEF Keys
<1>7. TableComplete'
  <2>. SUFFICES ASSUME NEW p \in Bases, NEW m \in Serials, NEW q \in Numbered
                PROVE  requests'[p][m] = q <=> num'[q].object = p /\ m \in Keys(q)' \ {0}
    BY DEF TableComplete
  <2>1. num[r].object = o
    BY DEF Forget
  <2>2. requests[p][m] = q <=> num[q].object = p /\ m \in Keys(q) \ {0}
    BY DEF SerialsInv, SerialsFind, TableComplete
  <2>3. CASE q = r
    BY <1>3, <1>4, <1>6, <2>1, <2>2, <2>3
  <2>4. CASE q # r
    <3>1. num[q].object = p /\ m \in Keys(q) \ {0} => ~(p = o /\ m \in Keys(r))
      BY <2>1, <2>4, NumbersApart DEF SerialsInv, SerialsFind
    <3>. QED BY <1>2, <1>4, <1>6, <2>2, <2>4, <3>1
  <2>. QED BY <2>3, <2>4
<1>8. SerialsDiffer'
  BY <1>6 DEF Forget, SerialsInv, SerialsDiffer
<1>9. SerialsBelow'
  BY <1>6 DEF Forget, SerialsInv, SerialsBelow, SerialsTypeOK, Serials
<1>10. OthersKept(r)
  BY DEF Forget, OthersKept
<1>11. \A q \in Numbered \ {r}, p \in Bases : q \in queue'[p] => q \in queue[p]
  BY DEF Forget
<1>12. SerialsInv'
  BY <1>2, <1>3, <1>7, <1>8, <1>9, <1>10, <1>11, StepParts
<1>. QED BY <1>5, <1>12

LEMMA RegisterStep ==
  ASSUME SerialsTypeOK, SerialsInv, NEW r \in Numbered, NEW o \in Bases, NEW n \in Serials,
         Register(r, o, n)
  PROVE  SerialsTypeOK' /\ SerialsInv'
<1>. USE NullApart
<1>. DEFINE f == [object |-> o, state |-> "NEW", serial |-> n, serial2 |-> 0, leaving |-> FALSE]
<1>1. f \in NumberRecord /\ num' = [num EXCEPT ![r] = f]
  BY Types DEF Register, NumberRecord
<1>2. /\ num' \in [Numbered -> NumberRecord] /\ num'[r] = f
      /\ \A q \in Numbered \ {r} : num'[q] = num[q]
  BY <1>1, RecordUpdate
<1>3. /\ num'[r].object = o /\ num'[r].serial = n /\ num'[r].serial2 = 0
      /\ ~num'[r].leaving /\ num'[r].state = "NEW"
  BY <1>2
<1>. HIDE DEF f
<1>4. /\ n # 0 /\ requests[o][n] = Null /\ last_serial' = n
      /\ wrapped' = (wrapped \/ n <= last_serial)
      /\ UNCHANGED <<active, pending, queue>>
  BY DEF Register, Reserve
<1>5. requests' \in Table /\ \A p \in Bases, m \in Serials :
        requests'[p][m] = IF p = o /\ m = n THEN r ELSE requests[p][m]
  BY DEF Register, Table, SerialsTypeOK
<1>6. SerialsTypeOK'
  BY <1>2, <1>4, <1>5 DEF SerialsTypeOK
<1>7. /\ num[r].object = Null
      /\ \A p \in Bases : r \notin queue[p]
      /\ \A p \in Bases, m \in Serials : active[p][m] # r /\ pending[p][m] # r
  BY DEF Register, Unused
<1>8. Keys(r)' = {n, 0} /\ \A q \in Numbered \ {r} : Keys(q)' = Keys(q)
  BY <1>2, <1>3 DEF Keys
<1>9. TableComplete'
  BY <1>2, <1>3, <1>4, <1>5, <1>7, <1>8 DEF SerialsInv, SerialsFind, TableComplete
<1>10. ~wrapped' => ~wrapped /\ last_serial < n
  <2>1. ~wrapped' => ~wrapped /\ ~(n <= last_serial)
    BY <1>4, Zenon
  <2>. QED BY <2>1, SerialsAssumption DEF SerialsTypeOK, Serials
<1>11. \A q \in Numbered : \A m \in Keys(q) : m \in Nat
  BY Types DEF Serials
<1>12. SerialsDiffer'
  BY <1>8, <1>10, <1>11 DEF SerialsInv, SerialsDiffer, SerialsBelow, SerialsTypeOK, Serials
<1>13. SerialsBelow'
  BY <1>4, <1>8, <1>10, <1>11 DEF SerialsInv, SerialsBelow, SerialsTypeOK, Serials
<1>14. OthersKept(r)
  BY <1>4 DEF OthersKept
<1>15. /\ \A q \in Numbered \ {r}, p \in Bases : q \in queue'[p] => q \in queue[p]
       /\ \A p \in Bases :
            r \notin queue'[p] /\ \A m \in Serials : r \notin {active'[p][m], pending'[p][m]}
  BY <1>4, <1>7
<1>16. SerialsInv'
  BY <1>2, <1>3, <1>4, <1>9, <1>12, <1>13, <1>14, <1>15, StepParts
<1>. QED BY <1>6, <1>16

LEMMA DeathOfStep ==
  ASSUME SerialsTypeOK, SerialsInv, NEW o \in Bases, DeathOf(o)
  PROVE  SerialsTypeOK' /\ SerialsInv'
<1>. USE NullApart
<1>. DEFINE Hit(q) == \E n \in Serials : active[o][n] = q
<1>1. \A q \in Numbered :
        /\ num'[q] \in NumberRecord
        /\ num'[q].object = num[q].object
        /\ num'[q].serial = num[q].serial /\ num'[q].serial2 = num[q].serial2
        /\ Hit(q) => num'[q].leaving
        /\ ~Hit(q) => num'[q] = num[q]
  BY ZenonT(60) DEF DeathOf, SerialsTypeOK, NumberRecord
<1>2. \A p \in Bases, m \in Serials :
        /\ active'[p][m] = IF p = o THEN Null ELSE active[p][m]
        /\ pending'[p][m] = IF p = o THEN Null ELSE pending[p][m]
  BY DEF DeathOf, Empty, SerialsTypeOK, Table
<1>3. \A p \in Bases : queue'[p] = IF p = o THEN {} ELSE queue[p]
  BY DEF DeathOf, SerialsTypeOK
<1>4. active' \in Table /\ pending' \in Table
  BY DEF DeathOf, Empty, SerialsTypeOK, Table
<1>5. SerialsTypeOK'
  <2>1. num' \in [Numbered -> NumberRecord]
    BY <1>1 DEF DeathOf
  <2>2. queue' \in [Bases -> SUBSET Numbered]
    BY DEF DeathOf, SerialsTypeOK
  <2>. QED BY <1>4, <2>1, <2>2 DEF DeathOf, SerialsTypeOK
<1>6. TableComplete' /\ SerialsDiffer' /\ SerialsBelow'
  BY <1>1, SameNumbers DEF DeathOf
<1>7. \A q \in Numbered : Current(q)' = Current(q)
  BY <1>1 DEF Current
<1>8. AnswersFind'
  <2>. SUFFICES ASSUME NEW q \in Numbered, NEW n \in Serials, ~num'[q].leaving
                PROVE  /\ active'[num[q].object][n] = q
                            <=> n = Current(q) /\ num'[q].state \in {"QUEUED", "PENDING"}
                       /\ pending'[num[q].object][n] = q
                            <=> n = Current(q) /\ num'[q].state = "PENDING"
    BY <1>1, <1>7 DEF AnswersFind
  <2>1. ~Hit(q) /\ num'[q] = num[q] /\ ~num[q].leaving
    BY <1>1
  <2>2. num[q].object \in Bases /\ Current(q) \in Serials
    BY <2>1, StayingOwned
  <2>3. \A m \in Serials :
          /\ active[num[q].object][m] = q
               <=> m = Current(q) /\ num[q].state \in {"QUEUED", "PENDING"}
          /\ pending[num[q].object][m] = q <=> m = Current(q) /\ num[q].state = "PENDING"
    BY <2>1 DEF SerialsInv, SerialsFind, AnswersFind
  <2>4. num[q].object = o => num[q].state \notin {"QUEUED", "PENDING"}
    BY <2>1, <2>2, <2>3
  <2>. QED BY <1>2, <2>1, <2>2, <2>3, <2>4
<1>9. OwnTables'
  BY <1>1, <1>2, <1>3 DEF SerialsInv, OwnTables
<1>10. StatesTell'
  <2>. SUFFICES ASSUME NEW q \in Numbered
                PROVE  /\ num'[q].object = Null =>
                            num'[q].leaving /\ num'[q].serial = 0 /\ num'[q].serial2 = 0
                       /\ ~num'[q].leaving =>
                            /\ num'[q].state # "ENDED"
                            /\ num'[q].state = "NEW" => num'[q].serial2 = 0
                            /\ num'[q].state = "PENDING" => num'[q].serial2 # 0
                            /\ q \in queue'[num'[q].object] => num'[q].state = "QUEUED"
    BY DEF StatesTell
  <2>1. CASE Hit(q)
    BY <1>1, <2>1 DEF SerialsInv, StatesTell
  <2>2. CASE ~Hit(q)
    <3>1. num'[q] = num[q]
      BY <1>1, <2>2
    <3>2. ~num[q].leaving => num[q].object \in Bases
      BY StayingOwned
    <3>. QED BY <1>3, <3>1, <3>2 DEF SerialsInv, StatesTell
  <2>. QED BY <2>1, <2>2
<1>. QED BY <1>5, <1>6, <1>8, <1>9, <1>10 DEF SerialsInv, SerialsFind

LEMMA RetransmitStep ==
  ASSUME SerialsTypeOK, SerialsInv, NEW r \in Numbered, NEW o \in Bases, NEW n \in Serials,
         NEW sent \in BOOLEAN, Retransmit(r, o, n, sent)
  PROVE  SerialsTypeOK' /\ SerialsInv'
<1>. USE NullApart
<1>. DEFINE used == num[r].serial2
            f == [num[r] EXCEPT !.serial2 = n, !.state = IF sent THEN "PENDING" ELSE "ENDED",
                                !.leaving = @ \/ ~sent]
<1>1. f \in NumberRecord /\ num' = [num EXCEPT ![r] = f]
  BY Types DEF Retransmit, Outcome, SerialsTypeOK, NumberRecord
<1>2. /\ num' \in [Numbered -> NumberRecord] /\ num'[r] = f
      /\ \A q \in Numbered \ {r} : num'[q] = num[q]
  BY <1>1, RecordUpdate
<1>3. /\ num'[r].object = num[r].object /\ num'[r].serial = num[r].serial
      /\ num'[r].serial2 = n /\ num'[r].leaving = (num[r].leaving \/ ~sent)
      /\ sent => num'[r].state = "PENDING"
  BY <1>2 DEF SerialsTypeOK, NumberRecord
<1>. HIDE DEF f
<1>4. /\ r \in queue[o] /\ used # 0 /\ used \in Serials
      /\ n # 0 /\ requests[o][n] = Null /\ last_serial' = n
      /\ wrapped' = (wrapped \/ n <= last_serial)
  BY Types DEF Retransmit, Reserve
<1>5. num[r].object = o
  BY <1>4 DEF SerialsInv, OwnTables, StatesTell, SerialsTypeOK, NumberRecord
<1>6. requests' \in Table /\ \A p \in Bases, m \in Serials :
        requests'[p][m] = IF p = o /\ m = used /\ used # num[r].serial THEN Null
                          ELSE IF p = o /\ m = n THEN r ELSE requests[p][m]
  BY DEF Retransmit, Without, Table, SerialsTypeOK
<1>7. active' \in Table /\ \A p \in Bases, m \in Serials :
        active'[p][m] = IF p = o /\ m = used THEN Null
                        ELSE IF p = o /\ m = n THEN r ELSE active[p][m]
  BY DEF Retransmit, Without, Table, SerialsTypeOK
<1>8. pending' \in Table /\ \A p \in Bases, m \in Serials :
        pending'[p][m] = IF sent /\ p = o /\ m = n THEN r
                         ELSE IF p = o /\ m = used THEN Null ELSE pending[p][m]
  BY DEF Retransmit, Without, Table, SerialsTypeOK
<1>9. queue' \in [Bases -> SUBSET Numbered] /\ \A p \in Bases :
        queue'[p] = IF p = o THEN queue[p] \ {r} ELSE queue[p]
  BY DEF Retransmit, Outcome, SerialsTypeOK
<1>10. SerialsTypeOK'
  BY <1>2, <1>4, <1>6, <1>7, <1>8, <1>9 DEF SerialsTypeOK
<1>11. /\ Keys(r) = {num[r].serial, used} /\ Keys(r)' = {num[r].serial, n}
       /\ \A q \in Numbered \ {r} : Keys(q)' = Keys(q)
  BY <1>2, <1>3 DEF Keys
<1>12. \A q \in Numbered, m \in Serials :
         requests[o][m] = q <=> num[q].object = o /\ m \in Keys(q) \ {0}
  BY DEF SerialsInv, SerialsFind, TableComplete
<1>13. \A q \in Numbered : num[q].object = o => n \notin Keys(q)
  BY <1>4, <1>12
<1>14. num[r].serial # 0 /\ num[r].serial \in Serials
  BY <1>5, Types DEF SerialsInv, OwnTables
<1>15. \A q \in Numbered \ {r} :
         num[q].object = o => used \notin Keys(q) /\ num[r].serial \notin Keys(q)
  BY <1>4, <1>5, <1>11, <1>14, NumbersApart DEF SerialsInv, SerialsFind
<1>16. TableComplete'
  <2>. SUFFICES ASSUME NEW p \in Bases, NEW m \in Serials, NEW q \in Numbered
                PROVE  requests'[p][m] = q <=> num'[q].object = p /\ m \in Keys(q)' \ {0}
    BY DEF TableComplete
  <2>1. requests[p][m] = q <=> num[q].object = p /\ m \in Keys(q) \ {0}
    BY DEF SerialsInv, SerialsFind, TableComplete
  <2>2. used # n
    BY <1>5, <1>11, <1>13
  <2>3. CASE q = r
    BY <1>3, <1>4, <1>5, <1>6, <1>11, <1>14, <2>1, <2>2, <2>3
  <2>4. CASE q # r
    BY <1>2, <1>6, <1>11, <1>13, <1>15, <2>1, <2>4
  <2>. QED BY <2>3, <2>4
<1>17. ~wrapped' => ~wrapped /\ last_serial < n
  <2>1. ~wrapped' => ~wrapped /\ ~(n <= last_serial)
    BY <1>4, Zenon
  <2>. QED BY <2>1, SerialsAssumption DEF SerialsTypeOK, Serials
<1>18. \A q \in Numbered : \A m \in Keys(q) : m \in Nat
  BY Types DEF Serials
<1>19. SerialsDiffer'
  BY <1>11, <1>17, <1>18 DEF SerialsInv, SerialsDiffer, SerialsBelow, SerialsTypeOK, Serials
<1>20. SerialsBelow'
  BY <1>4, <1>11, <1>17, <1>18 DEF SerialsInv, SerialsBelow, SerialsTypeOK, Serials
<1>21. OthersKept(r)
  <2>. SUFFICES ASSUME NEW q \in Numbered \ {r}, NEW p \in Bases, NEW m \in Serials
                PROVE  /\ active'[p][m] = q => active[p][m] = q
                       /\ pending'[p][m] = q => pending[p][m] = q
                       /\ p = num[q].object /\ m = Current(q) /\ ~num[q].leaving =>
                            /\ active[p][m] = q => active'[p][m] = q
                            /\ pending[p][m] = q => pending'[p][m] = q
    BY DEF OthersKept
  <2>1. p = num[q].object /\ m = Current(q) => ~(p = o /\ m \in {used, n})
    BY <1>13, <1>15, Types
  <2>. QED BY <1>7, <1>8, <2>1
<1>22. \A p \in Bases \ {o} :
         r \notin queue'[p] /\ \A m \in Serials : r \notin {active'[p][m], pending'[p][m]}
  BY <1>5, <1>7, <1>8, <1>9 DEF SerialsInv, OwnTables
<1>23. Current(r) = used /\ Current(r)' = n
  BY <1>3, <1>4 DEF Current
<1>24. ~num'[r].leaving => \A m \in Serials :
         /\ active'[o][m] = r <=> m = n
         /\ pending'[o][m] = r <=> m = n
  <2>. SUFFICES ASSUME ~num[r].leaving, sent PROVE \A m \in Serials :
         /\ active'[o][m] = r <=> m = n
         /\ pending'[o][m] = r <=> m = n
    BY <1>3
  <2>1. \A m \in Serials : (active[o][m] = r => m = used) /\ (pending[o][m] = r => m = used)
    BY <1>5, <1>23 DEF SerialsInv, SerialsFind, AnswersFind
  <2>2. used # n
    BY <1>5, <1>11, <1>13
  <2>. QED BY <1>7, <1>8, <2>1, <2>2
<1>25. /\ \A q \in Numbered \ {r}, p \in Bases : q \in queue'[p] => q \in queue[p]
       /\ r \notin queue'[o]
  BY <1>9
<1>26. /\ num'[r].object = o /\ num'[r].serial # 0
       /\ ~num'[r].leaving => num'[r].state = "PENDING"
  BY <1>3, <1>5, <1>14
<1>27. SerialsInv'
  BY <1>2, <1>3, <1>4, <1>16, <1>19, <1>20, <1>21, <1>22, <1>23, <1>24, <1>25, <1>26, StepParts
<1>. QED BY <1>10, <1>27

-----------------------------------------------------------------------------
(***************************************************************************)
(* The theorems.                                                           *)
(***************************************************************************)

LEMMA SerialsInitially ==
  ASSUME SerialsInit
  PROVE  SerialsTypeOK /\ SerialsInv
<1>. USE NullApart
<1>1. 0 \in Serials /\ Empty \in [Serials -> Numbered \cup {Null}]
      /\ \A n \in Serials : Empty[n] = Null
  BY SerialsAssumption DEF Serials, Empty
<1>2. SerialsTypeOK
  BY <1>1 DEF SerialsInit, SerialsTypeOK, NumberRecord, Table
<1>3. \A r \in Numbered :
        /\ num[r].object = Null /\ num[r].leaving /\ num[r].serial = 0 /\ num[r].serial2 = 0
        /\ Keys(r) = {0}
  BY DEF SerialsInit, Keys
<1>4. TableComplete /\ AnswersFind
  BY <1>1, <1>3 DEF SerialsInit, TableComplete, AnswersFind
<1>5. SerialsDiffer /\ SerialsBelow /\ OwnTables /\ StatesTell
  BY <1>3 DEF SerialsInit, SerialsDiffer, SerialsBelow, OwnTables, StatesTell
<1>. QED BY <1>2, <1>4, <1>5 DEF SerialsInv, SerialsFind

LEMMA SerialsStep ==
  ASSUME SerialsTypeOK, SerialsInv, [SerialsNext]_serialVars
  PROVE  SerialsTypeOK' /\ SerialsInv'
<1>1. CASE UNCHANGED serialVars
  <2>1. UNCHANGED <<last_serial, wrapped, num, requests, active, pending, queue>>
    BY <1>1 DEF serialVars, tables
  <2>2. SerialsTypeOK'
    BY <2>1 DEF SerialsTypeOK
  <2>3. TableComplete' /\ SerialsDiffer' /\ SerialsBelow'
    BY <2>1, SameNumbers
  <2>4. AnswersFind' /\ OwnTables' /\ StatesTell'
    BY <2>1 DEF SerialsInv, SerialsFind, AnswersFind, OwnTables, StatesTell, Current
  <2>. QED BY <2>2, <2>3, <2>4 DEF SerialsInv, SerialsFind
<1>2. ASSUME NEW r \in Numbered, NEW o \in Bases, NEW n \in Serials,
             Register(r, o, n) \/ AnswerRetried(r, o, n) \/ Answered(r, o, n) \/ Expired(r, o, n)
      PROVE  SerialsTypeOK' /\ SerialsInv'
  BY <1>2, RegisterStep, AnswerRetriedStep, AnsweredStep, ExpiredStep
<1>3. ASSUME NEW r \in Numbered, NEW o \in Bases, NEW n \in Serials, NEW sent \in BOOLEAN,
             Retransmit(r, o, n, sent)
      PROVE  SerialsTypeOK' /\ SerialsInv'
  BY <1>3, RetransmitStep
<1>4. ASSUME NEW r \in Numbered, NEW o \in Bases,
             Enqueue(r, o) \/ RetryPending(r, o) \/ Remove(r, o) \/ Forget(r, o)
      PROVE  SerialsTypeOK' /\ SerialsInv'
  BY <1>4, EnqueueStep, RetryPendingStep, RemoveStep, ForgetStep
<1>5. ASSUME NEW r \in Numbered, NEW o \in Bases, NEW sent \in BOOLEAN, Transmit(r, o, sent)
      PROVE  SerialsTypeOK' /\ SerialsInv'
  BY <1>5, TransmitStep
<1>6. ASSUME NEW r \in Numbered, End(r) PROVE SerialsTypeOK' /\ SerialsInv'
  BY <1>6, EndStep
<1>7. ASSUME NEW o \in Bases, DeathOf(o) PROVE SerialsTypeOK' /\ SerialsInv'
  BY <1>7, DeathOfStep
<1>. QED BY <1>1, <1>2, <1>3, <1>4, <1>5, <1>6, <1>7 DEF SerialsNext

\* The inductive invariant of the serials, types included, for the counter
\* and the tables of radio_base.c.
THEOREM SerialsInvariant == SerialsSpec => [](SerialsTypeOK /\ SerialsInv)
<1>1. SerialsInit => SerialsTypeOK /\ SerialsInv
  BY SerialsInitially
<1>2. SerialsTypeOK /\ SerialsInv /\ [SerialsNext]_serialVars => (SerialsTypeOK /\ SerialsInv)'
  BY SerialsStep
<1>. QED BY <1>1, <1>2, PTL DEF SerialsSpec

\* However often the counter wraps, a serial finds the one request it was
\* sent for (radio_base_reserve_serial, radio_base_handle_resp).
THEOREM SerialsFindRequests == SerialsSpec => []SerialsFind
<1>1. SerialsInv => SerialsFind
  BY DEF SerialsInv
<1>. QED BY <1>1, SerialsInvariant, PTL

\* Until the counter wraps, no two requests share a serial, those of
\* different objects included (radio_base.c:101).
THEOREM SerialsDifferBefore == SerialsSpec => []SerialsDiffer
<1>1. SerialsInv => SerialsDiffer
  BY DEF SerialsInv
<1>. QED BY <1>1, SerialsInvariant, PTL
=============================================================================
