-------------------------- MODULE RadioTablesProofs ---------------------------
(***************************************************************************)
(* The tables, the queue, the transactions and the states of RadioBase     *)
(* agree, and each request goes through the lifecycle of RequestLifecycle. *)
(*                                                                         *)
(* Between events that is what TablesAgree says.  While calls are in       *)
(* progress it is not so: a request may be QUEUED and stand in a list of   *)
(* requests to be failed, or FAILED and still in the tables because it is  *)
(* about to be dropped, and the scan walks along a queue that it changes.  *)
(* The invariant TablesInv says how the calls in progress make up for it:  *)
(*   - Placed: where each request is, by its state and by the calls that   *)
(*     are about it;                                                       *)
(*   - Lined: the queue is a row of distinct requests, linked in order,    *)
(*     and they are the ones that wait;                                    *)
(*   - Cursors: the scan stands between two neighbours of that row;        *)
(*   - Promptly: a request that waits under the serial of an answer on the *)
(*     way is sent under a new one before that answer can arrive;          *)
(*   - Nested, Fitting, Linked: which calls may be in progress above which *)
(*     others, and what each relies on.                                    *)
(* A finalized object has only what Gone says.                             *)
(*                                                                         *)
(* The parts follow that order: sequences of linked requests; the          *)
(* invariant; lemmas for steps that leave most of it alone; one lemma per  *)
(* action; the theorems about the tables; the lifecycle.                   *)
(***************************************************************************)
EXTENDS RadioClientProofs, FiniteSetTheorems, WellFoundedInduction

-----------------------------------------------------------------------------
(***************************************************************************)
(* The queue as a sequence of requests.                                    *)
(***************************************************************************)

\* s[1], ..., s[n] are linked through queue_next, from the head of the queue
\* to its tail, and no request is met twice.
Chain(q, b, n, s) ==
  /\ b.first = IF n = 0 THEN None ELSE s[1]
  /\ b.last = IF n = 0 THEN None ELSE s[n]
  /\ \A i \in 1 .. n : q[s[i]].next = IF i < n THEN s[i + 1] ELSE None
  /\ \A i, j \in 1 .. n : s[i] = s[j] => i = j

\* They are the requests of W, and no other request points into the queue.
Row(q, b, W, n, s) ==
  /\ n \in Nat /\ s \in [1 .. n -> Requests]
  /\ Chain(q, b, n, s)
  /\ \A x \in Requests : (\E i \in 1 .. n : s[i] = x) <=> x \in W
  /\ \A x \in Requests : x \notin W => q[x].next = None

Lined(q, b, W) == \E n, s : Row(q, b, W, n, s)

\* A set of numbers has a least one.
LEMMA Least ==
  ASSUME NEW T \in SUBSET Nat, T # {}
  PROVE  \E m \in T : \A k \in T : m <= k
<1>. DEFINE R == OpToRel(<, Nat)
<1>1. IsWellFoundedOn(R, Nat)
  BY NatLessThanWellFounded
<1>2. \A x, y \in Nat : <<x, y>> \in R <=> x < y
  BY DEF OpToRel
<1>. HIDE DEF R
<1>3. PICK m \in T : \A k \in T : ~(<<k, m>> \in R)
  BY <1>1, WFMin
<1>4. \A k \in T : k \in Nat /\ m \in Nat /\ ~(k < m)
  BY <1>2, <1>3
<1>. QED BY <1>4

\* The walk along the queue meets the requests of the chain in order.
LEMMA WalkChain ==
  ASSUME IsFiniteSet(Requests), NEW q, NEW b, NEW n \in Nat,
         NEW s \in [1 .. n -> Requests], Chain(q, b, n, s)
  PROVE  Walk(q, b) =
           [k \in 0 .. Cardinality(Requests) |-> IF k < n THEN s[k + 1] ELSE None]
<1>. DEFINE D == 0 .. Cardinality(Requests)
            g == [k \in D |-> IF k < n THEN s[k + 1] ELSE None]
            W == Walk(q, b)
            Walks(h) == h = [k \in D |-> IF k = 0 THEN b.first
                       ELSE IF h[k - 1] \in Requests THEN q[h[k - 1]].next
                            ELSE None]
<1>1. Cardinality(Requests) \in Nat
  BY FS_CardinalityType
<1>2. Walks(g)
  <2>1. ASSUME NEW k \in D
        PROVE  g[k] = IF k = 0 THEN b.first
                      ELSE IF g[k - 1] \in Requests THEN q[g[k - 1]].next
                           ELSE None
    <3>1. CASE k = 0
      BY <1>1, <2>1, <3>1 DEF Chain
    <3>2. CASE k # 0 /\ k <= n
      <4>1. k - 1 \in D /\ k \in 1 .. n
        BY <1>1, <2>1, <3>2
      <4>2. g[k - 1] = s[k] /\ s[k] \in Requests
        BY <4>1, <3>2
      <4>. QED BY <2>1, <3>2, <4>1, <4>2 DEF Chain
    <3>3. CASE k > n
      <4>1. k - 1 \in D /\ ~(k < n) /\ ~(k - 1 < n) /\ k # 0
        BY <1>1, <2>1, <3>3
      <4>2. g[k] = None /\ g[k - 1] = None
        BY <2>1, <4>1
      <4>. QED BY <4>1, <4>2, ConstantsAssumption
    <3>. QED BY <1>1, <2>1, <3>1, <3>2, <3>3
  <2>. QED BY <2>1, Zenon
<1>3. W = CHOOSE h : Walks(h)
  BY DEF Walk
<1>4. Walks(W)
  <2>. HIDE DEF Walks, W, g
  <2>. QED BY <1>2, <1>3
<1>5. \A k \in D : W[k] = g[k]
  <2>1. SUFFICES ASSUME \E k \in D : W[k] # g[k] PROVE FALSE
    OBVIOUS
  <2>. DEFINE T == {k \in D : W[k] # g[k]}
  <2>2. PICK m \in T : \A k \in T : m <= k
    <3>. HIDE DEF W, g
    <3>1. T # {} /\ T \in SUBSET Nat
      BY <1>1, <2>1
    <3>. HIDE DEF T
    <3>. QED BY <3>1, Least
  <2>3. m \in D /\ W[m] # g[m] /\ (m = 0 \/ (m - 1 \in D /\ W[m - 1] = g[m - 1]))
    <3>. HIDE DEF W, g
    <3>. QED BY <1>1, <2>2
  <2>4. W[m] = g[m]
    <3>. HIDE DEF W, g
    <3>. QED BY <1>2, <1>4, <2>3
  <2>. QED BY <2>3, <2>4
<1>. QED
  <2>. HIDE DEF W
  <2>1. W = [k \in D |-> W[k]]
    BY <1>4
  <2>2. W = g
    <3>. HIDE DEF g
    <3>1. g = [k \in D |-> g[k]]
      BY DEF g
    <3>. QED BY <1>5, <2>1, <3>1
  <2>. QED BY <2>2 DEF W

\* The queue is no longer than there are requests.
LEMMA RowLength ==
  ASSUME IsFiniteSet(Requests), NEW q, NEW b, NEW W, NEW n, NEW s,
         Row(q, b, W, n, s)
  PROVE  n <= Cardinality(Requests) /\ Cardinality(Requests) \in Nat
<1>1. n \in Nat /\ s \in [1 .. n -> Requests] /\ Chain(q, b, n, s)
  BY DEF Row
<1>2. s \in Injection(1 .. n, Requests)
  BY <1>1 DEF Chain, Injection, IsInjective
<1>3. Cardinality(1 .. n) <= Cardinality(Requests)
  BY <1>2, FS_Injection
<1>4. Cardinality(1 .. n) = n
  BY <1>1, FS_Interval
<1>. QED BY <1>3, <1>4, FS_CardinalityType

\* Exactly the requests of W are found in the queue.
LEMMA RowFinds ==
  ASSUME IsFiniteSet(Requests), NEW q, NEW b, NEW W, NEW n, NEW s,
         Row(q, b, W, n, s), NEW r \in Requests
  PROVE  InQueue(q, b, r) <=> r \in W
<1>. DEFINE N == Cardinality(Requests)
<1>1. /\ n \in Nat /\ s \in [1 .. n -> Requests] /\ Chain(q, b, n, s)
      /\ (\E i \in 1 .. n : s[i] = r) <=> r \in W
  BY DEF Row
<1>2. n <= N /\ N \in Nat
  BY RowLength
<1>3. Walk(q, b) = [k \in 0 .. N |-> IF k < n THEN s[k + 1] ELSE None]
  BY <1>1, WalkChain
<1>4. r # None
  BY ConstantsAssumption
<1>5. ASSUME NEW k \in 0 .. N, Walk(q, b)[k] = r
      PROVE  k + 1 \in 1 .. n /\ s[k + 1] = r
  BY <1>1, <1>2, <1>3, <1>4, <1>5
<1>6. ASSUME NEW i \in 1 .. n, s[i] = r
      PROVE  i - 1 \in 0 .. N /\ Walk(q, b)[i - 1] = r
  BY <1>1, <1>2, <1>3, <1>6
<1>7. DOMAIN Walk(q, b) = 0 .. N
  BY <1>3
<1>. QED BY <1>1, <1>5, <1>6, <1>7 DEF InQueue

\* What comes before a request in the queue.
LEMMA RowBefore ==
  ASSUME IsFiniteSet(Requests), NEW q, NEW b, NEW W, NEW n, NEW s,
         Row(q, b, W, n, s), NEW k \in 1 .. n
  PROVE  Before(q, b, s[k]) = IF k = 1 THEN None ELSE s[k - 1]
<1>. DEFINE N == Cardinality(Requests)
            met == Walk(q, b)
            r == s[k]
            P(i) == met[i] = r /\ \A j \in DOMAIN met : j < i => met[j] # r
            m == CHOOSE i \in DOMAIN met : P(i)
<1>1. /\ n \in Nat /\ s \in [1 .. n -> Requests] /\ Chain(q, b, n, s)
  BY DEF Row
<1>2. n <= N /\ N \in Nat
  BY RowLength
<1>3. met = [i \in 0 .. N |-> IF i < n THEN s[i + 1] ELSE None]
  BY <1>1, WalkChain
<1>4. r \in Requests /\ r # None
  BY <1>1, ConstantsAssumption
<1>5. DOMAIN met = 0 .. N
  BY <1>3
<1>6. \A i \in 0 .. N : met[i] = r <=> i = k - 1
  <2>1. ASSUME NEW i \in 0 .. N, met[i] = r
        PROVE  i = k - 1
    <3>1. i < n /\ s[i + 1] = s[k]
      BY <1>1, <1>2, <1>3, <1>4, <2>1
    <3>2. i + 1 \in 1 .. n
      BY <1>1, <1>2, <2>1, <3>1
    <3>3. i + 1 = k
      BY <3>1, <3>2 DEF Chain, Row
    <3>. QED BY <3>3, <2>1
  <2>2. k - 1 \in 0 .. N /\ met[k - 1] = r
    BY <1>1, <1>2, <1>3
  <2>. QED BY <2>1, <2>2
<1>7. k - 1 \in 0 .. N /\ P(k - 1)
  <2>1. k - 1 \in 0 .. N /\ met[k - 1] = r
    BY <1>1, <1>2, <1>3
  <2>. HIDE DEF met, r
  <2>2. \A j \in 0 .. N : j < k - 1 => met[j] # r
    BY <1>1, <1>6
  <2>. QED BY <1>5, <2>1, <2>2
<1>8. m \in 0 .. N /\ P(m)
  <2>. HIDE DEF P
  <2>. QED BY <1>5, <1>7
<1>9. m = k - 1
  BY <1>6, <1>8
<1>10. Before(q, b, r) = IF m # 0 /\ met[m - 1] \in Requests THEN met[m - 1] ELSE None
  BY DEF Before
<1>11. CASE k = 1
  BY <1>9, <1>10, <1>11
<1>12. CASE k # 1
  <2>. HIDE DEF N, m, met
  <2>1. m # 0 /\ m - 1 \in 0 .. N /\ m - 1 = k - 2 /\ k - 2 < n /\ k - 2 + 1 = k - 1
    BY <1>1, <1>2, <1>9, <1>12
  <2>2. met[m - 1] = s[k - 1] /\ s[k - 1] \in Requests
    BY <1>1, <1>3, <1>12, <2>1
  <2>. QED BY <1>10, <1>12, <2>1, <2>2
<1>. QED BY <1>11, <1>12

\* A row depends only on the links.
LEMMA RowKept ==
  ASSUME NEW q, NEW b, NEW W, NEW n, NEW s, Row(q, b, W, n, s),
         NEW u, NEW c, NEW V,
         \A x \in Requests : u[x].next = q[x].next,
         \A x \in Requests : x \in V <=> x \in W,
         c.first = b.first, c.last = b.last
  PROVE  Row(u, c, V, n, s)
<1>1. /\ n \in Nat /\ s \in [1 .. n -> Requests] /\ Chain(q, b, n, s)
      /\ \A x \in Requests : (\E i \in 1 .. n : s[i] = x) <=> x \in W
      /\ \A x \in Requests : x \notin W => q[x].next = None
  BY DEF Row
<1>2. Chain(u, c, n, s)
  BY <1>1 DEF Chain
<1>. QED BY <1>1, <1>2, Zenon DEF Row

\* A request that was nowhere in the queue becomes its tail.
LEMMA RowAppend ==
  ASSUME NEW q, NEW b, NEW W, NEW n, NEW s, Row(q, b, W, n, s),
         NEW r \in Requests, r \notin W, NEW u, NEW c, NEW V,
         \A x \in Requests : u[x].next = IF x = b.last THEN r ELSE q[x].next,
         \A x \in Requests : x \in V <=> x \in W \/ x = r,
         c.first = IF b.last = None THEN r ELSE b.first, c.last = r
  PROVE  Lined(u, c, V)
<1>. DEFINE t == [i \in 1 .. n + 1 |-> IF i = n + 1 THEN r ELSE s[i]]
<1>1. /\ n \in Nat /\ s \in [1 .. n -> Requests] /\ Chain(q, b, n, s)
      /\ \A x \in Requests : (\E i \in 1 .. n : s[i] = x) <=> x \in W
      /\ \A x \in Requests : x \notin W => q[x].next = None
  BY DEF Row
<1>2. /\ \A i \in 1 .. n : i \in 1 .. n + 1 /\ t[i] = s[i] /\ s[i] \in Requests
      /\ n + 1 \in 1 .. n + 1 /\ t[n + 1] = r
      /\ t \in [1 .. n + 1 -> Requests]
      /\ \A i \in 1 .. n + 1 : i \in 1 .. n \/ i = n + 1
  BY <1>1
<1>3. /\ b.first = IF n = 0 THEN None ELSE s[1]
      /\ b.last = IF n = 0 THEN None ELSE s[n]
      /\ \A i \in 1 .. n : q[s[i]].next = IF i < n THEN s[i + 1] ELSE None
      /\ \A i, j \in 1 .. n : s[i] = s[j] => i = j
  BY <1>1 DEF Chain
<1>. HIDE DEF t
<1>4. \A i \in 1 .. n : s[i] # r
  BY <1>1
<1>5. c.first = t[1] /\ c.last = t[n + 1]
  BY <1>1, <1>2, <1>3, ConstantsAssumption
<1>6. ASSUME NEW i \in 1 .. n + 1
      PROVE  u[t[i]].next = IF i < n + 1 THEN t[i + 1] ELSE None
  <2>1. CASE i = n + 1
    BY <1>1, <1>2, <1>3, <1>4, <2>1, ConstantsAssumption
  <2>2. CASE i = n /\ n # 0
    <3>1. n \in 1 .. n /\ t[n] = s[n] /\ s[n] \in Requests /\ b.last = s[n]
      BY <1>1, <1>2, <1>3, <2>2
    <3>. QED BY <1>1, <1>2, <2>2, <3>1
  <2>3. CASE i < n
    <3>1. i \in 1 .. n /\ i + 1 \in 1 .. n /\ n \in 1 .. n /\ i # n
      BY <1>1, <2>3
    <3>2. s[i] # b.last
      BY <1>1, <1>3, <2>3, <3>1
    <3>. QED BY <1>1, <1>2, <1>3, <2>3, <3>1, <3>2
  <2>. QED BY <1>1, <2>1, <2>2, <2>3
<1>7. ASSUME NEW i \in 1 .. n + 1, NEW j \in 1 .. n + 1, t[i] = t[j]
      PROVE  i = j
  BY <1>1, <1>2, <1>3, <1>4, <1>7
<1>8. ASSUME NEW x \in Requests
      PROVE  (\E i \in 1 .. n + 1 : t[i] = x) <=> x \in V
  BY <1>1, <1>2
<1>9. ASSUME NEW x \in Requests, x \notin V
      PROVE  u[x].next = None
  <2>1. x \notin W /\ x # r
    BY <1>9
  <2>2. x # b.last
    BY <1>1, <1>3, <2>1, ConstantsAssumption
  <2>. QED BY <1>1, <2>1, <2>2
<1>10. Chain(u, c, n + 1, t)
  BY <1>1, <1>5, <1>6, <1>7 DEF Chain
<1>11. Row(u, c, V, n + 1, t)
  BY <1>1, <1>2, <1>8, <1>9, <1>10 DEF Row
<1>. QED BY <1>11 DEF Lined

\* What is left of a sequence without its k-th element.
Without(n, s, k) == [i \in 1 .. n - 1 |-> IF i < k THEN s[i] ELSE s[i + 1]]

\* A request leaves the queue.
LEMMA RowRemove ==
  ASSUME NEW q, NEW b, NEW W, NEW n, NEW s, Row(q, b, W, n, s),
         NEW k \in 1 .. n, NEW prev, prev = IF k = 1 THEN None ELSE s[k - 1],
         NEW u, NEW c, NEW V,
         \A x \in Requests :
           u[x].next = CASE x = s[k] -> None
                         [] x = prev /\ x # s[k] -> q[s[k]].next
                         [] OTHER -> q[x].next,
         \A x \in Requests : x \in V <=> x \in W /\ x # s[k],
         c.first = IF prev = None THEN q[s[k]].next ELSE b.first,
         c.last = IF q[s[k]].next = None THEN prev ELSE b.last
  PROVE  Row(u, c, V, n - 1, Without(n, s, k))
<1>. DEFINE t == Without(n, s, k)
<1>1. /\ n \in Nat \ {0} /\ s \in [1 .. n -> Requests] /\ Chain(q, b, n, s)
      /\ \A x \in Requests : (\E i \in 1 .. n : s[i] = x) <=> x \in W
      /\ \A x \in Requests : x \notin W => q[x].next = None
  BY DEF Row
<1>2. /\ b.first = s[1] /\ b.last = s[n]
      /\ \A i \in 1 .. n : q[s[i]].next = IF i < n THEN s[i + 1] ELSE None
      /\ \A i, j \in 1 .. n : s[i] = s[j] => i = j
  BY <1>1 DEF Chain
<1>3. /\ n - 1 \in Nat
      /\ \A i \in 1 .. n - 1 :
           /\ i \in 1 .. n /\ i + 1 \in 1 .. n
           /\ t[i] = IF i < k THEN s[i] ELSE s[i + 1]
  BY <1>1 DEF Without
<1>4. t \in [1 .. n - 1 -> Requests]
  <2>1. \A i \in 1 .. n - 1 : t[i] \in Requests
    BY <1>1, <1>3
  <2>2. t = [i \in 1 .. n - 1 |-> t[i]]
    BY DEF Without
  <2>. HIDE DEF t
  <2>. QED BY <2>1, <2>2
<1>. HIDE DEF t
<1>5. \A i \in 1 .. n : s[i] \in Requests /\ s[i] # None
  BY <1>1, ConstantsAssumption
<1>6. /\ c.first = IF n - 1 = 0 THEN None ELSE t[1]
      /\ c.last = IF n - 1 = 0 THEN None ELSE t[n - 1]
  <2>1. c.first = IF n - 1 = 0 THEN None ELSE t[1]
    BY <1>1, <1>2, <1>3, <1>5
  <2>2. c.last = IF n - 1 = 0 THEN None ELSE t[n - 1]
    <3>1. CASE k = n
      BY <1>1, <1>2, <1>3, <1>5, <3>1
    <3>2. CASE k < n
      <4>1. q[s[k]].next = s[k + 1] /\ k + 1 \in 1 .. n
        BY <1>1, <1>2, <3>2
      <4>2. n - 1 \in 1 .. n - 1 /\ t[n - 1] = s[n]
        BY <1>1, <1>3, <3>2
      <4>. QED BY <1>1, <1>2, <1>5, <3>2, <4>1, <4>2
    <3>. QED BY <1>1, <3>1, <3>2
  <2>. QED BY <2>1, <2>2
<1>7. ASSUME NEW i \in 1 .. n, i # k
      PROVE  u[s[i]].next = IF i = k - 1 THEN q[s[k]].next ELSE q[s[i]].next
  <2>1. s[i] # s[k] /\ s[i] \in Requests
    BY <1>1, <1>2, <1>7
  <2>2. s[i] = prev <=> i = k - 1
    BY <1>1, <1>2, <1>5, <1>7
  <2>. QED BY <2>1, <2>2
<1>8. ASSUME NEW i \in 1 .. n - 1
      PROVE  u[t[i]].next = IF i < n - 1 THEN t[i + 1] ELSE None
  <2>1. CASE i < k - 1
    <3>1. i \in 1 .. n /\ i # k /\ i # k - 1 /\ i < k /\ i < n - 1 /\ i + 1 < k /\ i < n
          /\ i + 1 \in 1 .. n - 1
      BY <1>1, <2>1
    <3>. QED BY <1>2, <1>3, <1>7, <3>1
  <2>2. CASE i = k - 1
    <3>1. i \in 1 .. n /\ i # k /\ i < k
      BY <1>1, <2>2
    <3>2. u[t[i]].next = q[s[k]].next
      BY <1>3, <1>7, <2>2, <3>1
    <3>3. CASE k < n
      <4>1. i < n - 1 /\ i + 1 \in 1 .. n - 1 /\ i + 1 = k
        BY <1>1, <2>2, <3>3
      <4>. QED BY <1>2, <1>3, <3>2, <3>3, <4>1
    <3>4. CASE k = n
      BY <1>1, <1>2, <2>2, <3>2, <3>4
    <3>. QED BY <1>1, <3>3, <3>4
  <2>3. CASE i >= k
    <3>1. i + 1 \in 1 .. n /\ i + 1 # k /\ i + 1 # k - 1 /\ ~(i < k) /\ ~(i + 1 < k)
      BY <1>1, <2>3
    <3>2. u[t[i]].next = q[s[i + 1]].next
      BY <1>3, <1>7, <3>1
    <3>3. CASE i < n - 1
      <4>1. i + 1 < n /\ i + 1 \in 1 .. n - 1
        BY <1>1, <3>3
      <4>. QED BY <1>2, <1>3, <3>1, <3>2, <3>3, <4>1
    <3>4. CASE i = n - 1
      BY <1>1, <1>2, <3>1, <3>2, <3>4
    <3>. QED BY <1>1, <3>3, <3>4
  <2>. QED BY <2>1, <2>2, <2>3
<1>9. ASSUME NEW i \in 1 .. n - 1, NEW j \in 1 .. n - 1, t[i] = t[j]
      PROVE  i = j
  BY <1>1, <1>2, <1>3, <1>9
<1>10. ASSUME NEW x \in Requests
       PROVE  (\E i \in 1 .. n - 1 : t[i] = x) <=> x \in V
  <2>1. ASSUME NEW i \in 1 .. n - 1, t[i] = x
        PROVE  x \in V
    <3>1. PICK j \in 1 .. n : j # k /\ s[j] = x
      BY <1>1, <1>3, <2>1
    <3>. QED BY <1>1, <1>2, <3>1
  <2>2. ASSUME x \in V
        PROVE  \E i \in 1 .. n - 1 : t[i] = x
    <3>1. PICK j \in 1 .. n : s[j] = x /\ j # k
      BY <1>1, <2>2
    <3>2. CASE j < k
      <4>1. j \in 1 .. n - 1 /\ t[j] = x
        BY <1>1, <1>3, <3>1, <3>2
      <4>. QED BY <4>1
    <3>3. CASE j > k
      <4>1. j - 1 \in 1 .. n - 1 /\ ~(j - 1 < k) /\ j - 1 + 1 = j
        BY <1>1, <3>1, <3>3
      <4>2. t[j - 1] = x
        BY <1>3, <3>1, <4>1
      <4>. QED BY <4>1, <4>2
    <3>. QED BY <3>1, <3>2, <3>3
  <2>. QED BY <2>1, <2>2
<1>11. ASSUME NEW x \in Requests, x \notin V
       PROVE  u[x].next = None
  <2>1. CASE x = s[k]
    BY <2>1
  <2>2. CASE x # s[k]
    <3>1. x \notin W
      BY <1>11, <2>2
    <3>2. x # prev
      <4>1. ASSUME k # 1 PROVE s[k - 1] \in W /\ k - 1 \in 1 .. n
        BY <1>1, <1>5, <4>1
      <4>. QED BY <3>1, <4>1, ConstantsAssumption
    <3>. QED BY <1>1, <2>2, <3>1, <3>2
  <2>. QED BY <2>1, <2>2
<1>12. Chain(u, c, n - 1, t)
  BY <1>3, <1>6, <1>8, <1>9 DEF Chain
<1>. QED BY <1>3, <1>4, <1>10, <1>11, <1>12 DEF Row, t

\* Without groups and blocking requests nothing keeps a request from being
\* sent but its schedule and the connection.
Prompt == Groups = {} /\ Blocking = {}

\* What the code relies on without saying so: sending does not fail, the
\* handlers of users do not call the library, and a user who retries requests
\* leaves nothing in the way of their transmission.
Orderly ==
  /\ IsFiniteSet(Requests)
  /\ "send" \notin Faults /\ MaxDepth = 0
  /\ "retry" \notin UserCalls \/ Prompt

\* The observers of requests are handlers too: they only watch.
LEMMA OrderlyObservers ==
  ASSUME Orderly
  PROVE  /\ ~Observed
         /\ TypeOK => ~(ScanTell \/ Accept \/ Refuse \/ Refused)
<1>1. ~Observed
  BY DEF Orderly, Observed
<1>. QED BY <1>1, Unobserved

-----------------------------------------------------------------------------
(***************************************************************************)
(* The calls in progress that are about a request.                         *)
(***************************************************************************)
DropDue(S, r) == \E f \in S : f.op = "drop" /\ f.r = r
Leaving(S, r) == \E f \in S : f.op = "dropped" /\ f.r = r
Unregisters(S, r) == \E f \in S : f.op = "unregister" /\ f.r = r
Stolen(S, r) == \E f \in S : f.op = "expire" /\ r \in f.todo
Ending(S, r) ==
  \E f \in S : \/ f.op = "expire" /\ r \in f.refs \ f.todo
               \/ f.op = "fail" /\ r \in f.todo

\* Out of the queue, whatever the state says.
Out(S, r) == Leaving(S, r) \/ Ending(S, r)
Waiting(q, S) == {x \in Requests : q[x].state = "QUEUED" /\ ~Out(S, x)}

\* In no table, nor about to be failed.
Off(q, b, S, r) ==
  /\ r \notin b.active \cup b.pending
  /\ r \notin Waiting(q, S) /\ ~Stolen(S, r) /\ ~Ending(S, r)

Underway == {"QUEUED", "PENDING"}

(***************************************************************************)
(* Each request: where it is, and what may still be done about it.         *)
(***************************************************************************)
Tabled(q, b, S, r) ==
  /\ r \in b.pending =>
       /\ ~Out(S, r)
       /\ q[r].state = "PENDING" \/ (q[r].state = "FAILED" /\ DropDue(S, r))
  /\ q[r].state = "PENDING" /\ ~Out(S, r) => r \in b.pending
  /\ r \in b.active =>
       /\ ~Out(S, r) /\ ~Stolen(S, r)
       /\ q[r].state \in Underway \/ (q[r].state = "FAILED" /\ DropDue(S, r))
  /\ q[r].state \in Underway /\ ~Out(S, r) /\ ~Stolen(S, r) => r \in b.active
  /\ b.block = r =>
       r \in b.active \/ Stolen(S, r) \/ Ending(S, r) \/ DropDue(S, r)

Claimed(q, S, r) ==
  /\ Stolen(S, r) \/ Ending(S, r) =>
       q[r].state \in Underway /\ ~DropDue(S, r) /\ ~Leaving(S, r)
  /\ ~(Stolen(S, r) /\ Ending(S, r))
  /\ Answered(S, r) => q[r].state = "DONE"

Detached(q, b, S, r) ==
  /\ Unregisters(S, r) \/ q[r].dropped => DropDue(S, r) \/ Off(q, b, S, r)
  /\ ~q[r].registered => ~DropDue(S, r) /\ Off(q, b, S, r)
  /\ q[r].dropped => ~q[r].registered \/ Unregisters(S, r)
  /\ q[r].freed \/ Finishing(S, r) => ~q[r].held /\ Off(q, b, S, r)

Counted(q, S, r) ==
  /\ q[r].state = "NEW" => q[r].sends = 0 /\ q[r].retries = 0
  /\ r \in Waiting(q, S) => q[r].sends = q[r].retries
  /\ q[r].state = "PENDING" => q[r].sends = q[r].retries + 1
  /\ q[r].sends <= q[r].retries + 1
  /\ q[r].calls # 0 => q[r].state \in Terminal

Wired(q, n, S, r) ==
  /\ \A t \in n.outstanding : t[1] = r =>
       /\ q[r].tx = t[2]
       /\ r \notin Waiting(q, S) /\ ~Leaving(S, r)
       /\ q[r].state = "PENDING" \/ Ending(S, r) \/ DropDue(S, r)
  /\ \A m \in n.answers : m[1] = r => q[r].sends # 0

Placed(q, b, n, S, r) ==
  /\ Tabled(q, b, S, r) /\ Claimed(q, S, r) /\ Detached(q, b, S, r)
  /\ Counted(q, S, r) /\ Wired(q, n, S, r)

(***************************************************************************)
(* A request that a user retries while its answer is on the way waits in   *)
(* the queue under the serial of that answer, until the scan that is due   *)
(* sends it under another one.                                             *)
(***************************************************************************)
KeyOf(q, r) ==
  IF q[r].serial2 # 0 THEN q[r].serial2
  ELSE IF q[r].registered THEN 1 ELSE 0
Overdue(q, n, S, r) == r \in Waiting(q, S) /\ <<r, KeyOf(q, r)>> \in n.answers

Scans(f) == f.op \in {"scan", "sent"}
ToStart(S) == \E f \in S : f.op = "start"
Promptly(q, n, l, S) ==
  \A r \in Requests : Overdue(q, n, S, r) =>
    /\ Prompt /\ q[r].scheduled = 0 /\ l.connected
    /\ ToStart(S) \/ \E f \in S : Scans(f)

\* The scan stands before s[k]; what it has passed is not overdue, unless
\* another scan follows.
Ahead(f) == IF f.op = "scan" THEN f.r ELSE f.next
At(q, n, S, f, s, l, k) ==
  /\ k \in 1 .. l + 1
  /\ f.prev = IF k = 1 THEN None ELSE s[k - 1]
  /\ \/ Ahead(f) = IF k <= l THEN s[k] ELSE None
     \/ f.op = "scan" /\ f.r = None /\ Blocking # {}
  /\ \A j \in 1 .. l : Overdue(q, n, S, s[j]) /\ ~ToStart(S) => j >= k
ScanAt(q, b, n, S, f) ==
  \E l, s, k : Row(q, b, Waiting(q, S), l, s) /\ At(q, n, S, f, s, l, k)
Cursors(q, b, n, S) == \A f \in S : Scans(f) => ScanAt(q, b, n, S, f)

(***************************************************************************)
(* The calls in progress.  Nothing is called while the queue is scanned,   *)
(* while requests expire or a service dies; lists are failed one at a      *)
(* time; and whoever drops a request is done before it is unregistered.    *)
(***************************************************************************)
Steady == {"scan", "sent", "expire", "die"}
Crosses(f, h) ==
  \/ f.op \in {"die", "cancel"} \/ h.op \in Steady
  \/ Lists(f) /\ Lists(h)
  \/ /\ f.op \in {"unregister", "finish"} /\ h.op \in {"drop", "dropped"}
     /\ f.r = h.r
Nested == \A i, j \in DOMAIN stack : i < j => ~Crosses(stack[i], stack[j])

FrameFits(b, l, f) ==
  /\ f.op # "callback"
  /\ f.op = "start" => f = Call("start", None)
  /\ Scans(f) => l.connected
  /\ f.op = "sent" => f.r \in b.active
Linked(b, l) ==
  /\ l.dead => ~l.connected
  /\ Blocking = {} => b.block = None
  /\ \/ \E f \in Calls(stack) : f.op = "die"
     \/ /\ b.pending # {} => l.connected
        /\ l.dead => /\ b.active = {} /\ b.pending = {}
                     /\ b.first = None /\ b.last = None
Fitting ==
  /\ \A f \in Calls(stack) : FrameFits(base, link, f)
  /\ (\E f \in Calls(stack) : f.op \in Steady) => Clean

Tables ==
  /\ \A r \in Requests : Placed(req, base, net, Calls(stack), r)
  /\ Lined(req, base, Waiting(req, Calls(stack)))
  /\ Cursors(req, base, net, Calls(stack))
  /\ Promptly(req, net, link, Calls(stack))
  /\ Nested /\ Fitting /\ Linked(base, link)

\* What a finalized object leaves behind.
Gone ==
  /\ base.groups = {} /\ base.active = {} /\ base.pending = {}
  /\ net.outstanding = {}
  /\ \A r \in Requests : /\ ~req[r].registered
                         /\ req[r].sends <= req[r].retries + 1
  /\ \A f \in Calls(stack) : f.op \in {"unregister", "finish"}
  /\ Blocking = {} => base.block = None
  /\ link.dead => base.first = None

TablesInv == IF base.alive THEN Tables ELSE Gone

-----------------------------------------------------------------------------
(***************************************************************************)
(* Calls that come and go.                                                 *)
(***************************************************************************)

\* The calls fs are made on top of the calls U.
Going(fs, U) ==
  \/ Enter(fs) /\ U = Calls(stack)
  \/ ~Idle /\ Become(fs) /\ U = Calls(Tail(stack))

\* What remains of the stack, and how it fits together.
LEMMA GoingCalls ==
  ASSUME TypeOK, NEW fs \in Frames, NEW U, Going(fs, U)
  PROVE  /\ Calls(stack') = Calls(fs) \cup U
         /\ U \subseteq Calls(stack) /\ Calls(stack) \subseteq U \cup {Top}
         /\ Enter(fs) => U = Calls(stack)
         /\ ~Enter(fs) => ~Idle /\ Top \in Calls(stack)
         /\ ~Enter(fs) /\ Nested => \A h \in U : ~Crosses(Top, h)
<1>1. stack \in Seq(Frame) /\ fs \in Seq(Frame)
  BY DEF TypeOK, Frames
<1>2. CASE Enter(fs) /\ U = Calls(stack)
  BY <1>1, <1>2, StackEnter
<1>3. CASE ~Idle /\ Become(fs) /\ U = Calls(Tail(stack))
  <2>1. /\ stack # <<>> /\ Tail(stack) \in Seq(Frame)
        /\ Len(stack) \in Nat \ {0} /\ Len(Tail(stack)) = Len(stack) - 1
        /\ Top = stack[1] /\ Top \in Frame /\ 1 \in DOMAIN stack
        /\ \A i \in 1 .. Len(stack) - 1 : Tail(stack)[i] = stack[i + 1]
    BY <1>1, <1>3 DEF Idle, Top
  <2>2. stack' = fs \o Tail(stack) /\ Calls(stack') = Calls(fs) \cup U
    BY <1>1, <1>3, <2>1, StackConcat DEF Become
  <2>3. ~Enter(fs)
    <3>1. /\ Len(fs \o Tail(stack)) = Len(fs) + (Len(stack) - 1)
          /\ Len(fs \o stack) = Len(fs) + Len(stack) /\ Len(fs) \in Nat
      BY <1>1, <2>1
    <3>2. fs \o Tail(stack) # fs \o stack
      BY <2>1, <3>1
    <3>. QED BY <2>2, <3>2 DEF Enter
  <2>4. \A i \in DOMAIN stack : i = 1 \/ (i - 1 \in DOMAIN Tail(stack)
                                       /\ Tail(stack)[i - 1] = stack[i])
    BY <1>1, <2>1
  <2>5. \A i \in DOMAIN Tail(stack) : i + 1 \in DOMAIN stack
                               /\ Tail(stack)[i] = stack[i + 1] /\ 1 < i + 1
    BY <1>1, <2>1
  <2>6. U \subseteq Calls(stack) /\ Calls(stack) \subseteq U \cup {Top}
    BY <1>3, <2>1, <2>4, <2>5 DEF Calls
  <2>7. Top \in Calls(stack)
    BY <2>1 DEF Calls
  <2>8. Nested => \A h \in U : ~Crosses(Top, h)
    BY <1>3, <2>1, <2>5 DEF Calls, Nested
  <2>. QED BY <1>3, <2>2, <2>3, <2>6, <2>7, <2>8
<1>. QED BY <1>2, <1>3 DEF Going

\* Calls that neither cross each other nor those below are made in order.
LEMMA NestedGoing ==
  ASSUME TypeOK, Nested, NEW fs \in Frames, NEW U, Going(fs, U),
         \A i, j \in DOMAIN fs : i < j => ~Crosses(fs[i], fs[j]),
         \A f \in Calls(fs), h \in U : ~Crosses(f, h)
  PROVE  Nested'
<1>. DEFINE n == Len(fs)
            below == IF Enter(fs) THEN stack ELSE Tail(stack)
            m == IF Enter(fs) THEN 0 ELSE 1
<1>1. /\ stack \in Seq(Frame) /\ fs \in Seq(Frame) /\ n \in Nat
      /\ Len(stack) \in Nat
  BY DEF TypeOK, Frames
<1>2. ASSUME NEW i \in DOMAIN stack'
      PROVE  /\ i \in Int
             /\ \/ i \in DOMAIN fs /\ stack'[i] = fs[i] /\ i <= n
                \/ /\ i > n /\ i - n + m \in DOMAIN stack
                   /\ stack'[i] = stack[i - n + m] /\ stack'[i] \in U
  <2>1. CASE Enter(fs) /\ U = Calls(stack)
    <3>1. stack' = fs \o stack
      BY <2>1 DEF Enter
    <3>. QED BY <1>1, <2>1, <3>1 DEF Calls
  <2>2. CASE ~Enter(fs) /\ ~Idle /\ Become(fs) /\ U = Calls(Tail(stack))
    <3>1. /\ stack # <<>> /\ Tail(stack) \in Seq(Frame)
          /\ Len(Tail(stack)) = Len(stack) - 1
          /\ \A k \in 1 .. Len(stack) - 1 : Tail(stack)[k] = stack[k + 1]
      BY <1>1, <2>2 DEF Idle
    <3>5. \A k \in 1 .. Len(stack) - 1 : Tail(stack)[k] \in U
      <4>1. DOMAIN Tail(stack) = 1 .. Len(stack) - 1
        BY <1>1, <3>1
      <4>. QED BY <2>2, <4>1 DEF Calls
    <3>2. stack' = fs \o Tail(stack)
      BY <2>2 DEF Become
    <3>3. /\ i \in 1 .. n + (Len(stack) - 1)
          /\ i <= n => i \in DOMAIN fs /\ stack'[i] = fs[i]
          /\ i > n => /\ i - n \in 1 .. Len(stack) - 1
                      /\ stack'[i] = Tail(stack)[i - n]
      <4>. HIDE DEF m
      <4>. QED BY <1>1, <1>2, <3>1, <3>2
    <3>4. m = 1
      BY <2>2
    <3>. HIDE DEF m, n
    <3>. QED BY <1>1, <3>1, <3>3, <3>4, <3>5
  <2>. QED BY <2>1, <2>2, GoingCalls DEF Going
<1>3. ASSUME NEW i \in DOMAIN stack', NEW j \in DOMAIN stack', i < j
      PROVE  ~Crosses(stack'[i], stack'[j])
  <2>. HIDE DEF n, m
  <2>0. m \in Int /\ n \in Int
    BY DEF m, n
  <2>1. CASE j <= n
    BY <1>2, <1>3, <2>0, <2>1
  <2>2. CASE i <= n /\ j > n
    BY <1>2, <2>0, <2>2 DEF Calls
  <2>3. CASE i > n /\ j > n
    <3>1. i - n + m < j - n + m
      BY <1>2, <1>3, <2>0
    <3>. QED BY <1>2, <2>0, <2>3, <3>1 DEF Nested
  <2>. QED BY <1>2, <2>0, <2>1, <2>2, <2>3
<1>. QED BY <1>3 DEF Nested

\* Steady calls are on top of the stack.
LEMMA SteadyTop ==
  ASSUME TypeOK, Nested, NEW f \in Calls(stack), f.op \in Steady
  PROVE  ~Idle /\ f = Top
<1>1. PICK i \in DOMAIN stack : stack[i] = f
  BY DEF Calls
<1>2. stack \in Seq(Frame) /\ Len(stack) \in Nat /\ stack # <<>> /\ 1 \in DOMAIN stack
  BY <1>1 DEF TypeOK
<1>3. i = 1
  BY <1>1, <1>2 DEF Nested, Crosses
<1>. QED BY <1>1, <1>2, <1>3 DEF Idle, Top

-----------------------------------------------------------------------------
(***************************************************************************)
(* What a step leaves alone.                                               *)
(***************************************************************************)
Handling == {"drop", "dropped", "unregister", "finish", "done"}
Concerns(f, x) ==
  \/ f.op \in Handling /\ f.r = x
  \/ Lists(f) /\ x \in f.refs \cup f.todo

\* The calls in progress do the same for a request.
RolesAt(S, T, x) ==
  /\ DropDue(T, x) <=> DropDue(S, x)
  /\ Leaving(T, x) <=> Leaving(S, x)
  /\ Unregisters(T, x) <=> Unregisters(S, x)
  /\ Finishing(T, x) <=> Finishing(S, x)
  /\ Answered(T, x) <=> Answered(S, x)
  /\ Stolen(T, x) <=> Stolen(S, x)
  /\ Ending(T, x) <=> Ending(S, x)

\* The request, its place in the tables and its transmissions stay the same;
\* the user may let it go, transmissions may end.
RequestAt(q, u, x) ==
  /\ u[x].state = q[x].state /\ u[x].registered = q[x].registered
  /\ u[x].dropped = q[x].dropped /\ u[x].freed = q[x].freed
  /\ u[x].sends = q[x].sends /\ u[x].retries = q[x].retries
  /\ u[x].calls = q[x].calls /\ u[x].tx = q[x].tx
  /\ u[x].held => q[x].held
TablesAt(b, c, x) ==
  /\ x \in c.active <=> x \in b.active
  /\ x \in c.pending <=> x \in b.pending
  /\ c.block = x => b.block = x
WireAt(n, m, x) ==
  /\ \A t \in m.outstanding : t[1] = x => t \in n.outstanding
  /\ \A t \in m.answers : t[1] = x => t \in n.answers
LeftAt(x) ==
  /\ RequestAt(req, req', x) /\ TablesAt(base, base', x) /\ WireAt(net, net', x)
  /\ RolesAt(Calls(stack), Calls(stack'), x)

\* Calls that do not concern a request come and go.
LEMMA RolesGo ==
  ASSUME NEW S, NEW T, NEW F, NEW U, NEW W, NEW x,
         T = F \cup U, U \subseteq S, S \subseteq U \cup W,
         \A f \in F \cup W : ~Concerns(f, x)
  PROVE  RolesAt(S, T, x)
<1>1. ASSUME NEW f, Concerns(f, x)
      PROVE  f \in S <=> f \in T
  BY <1>1
<1>2. /\ \A f : f.op = "drop" /\ f.r = x => Concerns(f, x)
      /\ \A f : f.op = "dropped" /\ f.r = x => Concerns(f, x)
      /\ \A f : f.op = "unregister" /\ f.r = x => Concerns(f, x)
      /\ \A f : f.op = "finish" /\ f.r = x => Concerns(f, x)
      /\ \A f : f.op = "done" /\ f.r = x => Concerns(f, x)
  BY DEF Concerns, Handling
<1>3. /\ \A f : f.op = "expire" /\ x \in f.todo => Concerns(f, x)
      /\ \A f : f.op = "expire" /\ x \in f.refs \ f.todo => Concerns(f, x)
      /\ \A f : f.op = "fail" /\ x \in f.todo => Concerns(f, x)
  BY DEF Concerns, Lists
<1>. HIDE DEF Concerns
<1>4. /\ DropDue(T, x) <=> DropDue(S, x)
      /\ Leaving(T, x) <=> Leaving(S, x)
      /\ Unregisters(T, x) <=> Unregisters(S, x)
  BY <1>1, <1>2 DEF DropDue, Leaving, Unregisters
<1>5. /\ Finishing(T, x) <=> Finishing(S, x)
      /\ Answered(T, x) <=> Answered(S, x)
  BY <1>1, <1>2 DEF Finishing, Answered
<1>6. /\ Stolen(T, x) <=> Stolen(S, x)
      /\ Ending(T, x) <=> Ending(S, x)
  BY <1>1, <1>3 DEF Stolen, Ending
<1>. QED BY <1>4, <1>5, <1>6 DEF RolesAt

\* The queue waits for the same requests.
LEMMA WaitingKept ==
  ASSUME NEW q, NEW u, NEW S, NEW T, NEW x \in Requests,
         u[x].state = q[x].state, RolesAt(S, T, x)
  PROVE  x \in Waiting(u, T) <=> x \in Waiting(q, S)
BY DEF RolesAt, Waiting, Out

\* A request that is left alone keeps its place.
LEMMA PlacedKept ==
  ASSUME TypeOK, NEW x \in Requests, LeftAt(x),
         Placed(req, base, net, Calls(stack), x)
  PROVE  Placed(req', base', net', Calls(stack'), x)
<1>. DEFINE S == Calls(stack)
            T == Calls(stack')
<1>1. /\ Tabled(req, base, S, x) /\ Claimed(req, S, x)
      /\ Detached(req, base, S, x) /\ Counted(req, S, x) /\ Wired(req, net, S, x)
  BY DEF Placed
<1>2. /\ req'[x].state = req[x].state /\ req'[x].registered = req[x].registered
      /\ req'[x].dropped = req[x].dropped /\ req'[x].freed = req[x].freed
      /\ req'[x].sends = req[x].sends /\ req'[x].retries = req[x].retries
      /\ req'[x].calls = req[x].calls /\ req'[x].tx = req[x].tx
      /\ req'[x].held => req[x].held
  BY DEF LeftAt, RequestAt
<1>3. /\ x \in base'.active <=> x \in base.active
      /\ x \in base'.pending <=> x \in base.pending
      /\ base'.block = x => base.block = x
  BY DEF LeftAt, TablesAt
<1>4. RolesAt(S, T, x) /\ WireAt(net, net', x)
  BY DEF LeftAt
<1>5. x \in Waiting(req', T) <=> x \in Waiting(req, S)
  BY <1>2, <1>4, WaitingKept
<1>. HIDE DEF S, T
<1>6. Off(req', base', T, x) <=> Off(req, base, S, x)
  BY <1>3, <1>4, <1>5 DEF Off, RolesAt
<1>7. Tabled(req', base', T, x)
  BY <1>1, <1>2, <1>3, <1>4 DEF Tabled, RolesAt, Out
<1>8. Claimed(req', T, x)
  BY <1>1, <1>2, <1>4 DEF Claimed, RolesAt
<1>9. Detached(req', base', T, x)
  BY <1>1, <1>2, <1>4, <1>6 DEF Detached, RolesAt
<1>10. Counted(req', T, x)
  BY <1>1, <1>2, <1>5 DEF Counted
<1>11. Wired(req', net', T, x)
  BY <1>1, <1>2, <1>4, <1>5 DEF Wired, RolesAt, WireAt
<1>. QED BY <1>7, <1>8, <1>9, <1>10, <1>11 DEF Placed, T

-----------------------------------------------------------------------------
(***************************************************************************)
(* Steps outside the scan.                                                 *)
(***************************************************************************)

\* Calls whose own steps the queue does not depend on.
Simple(f) ==
  /\ f.op \notin Steady /\ f.op # "callback"
  /\ f.op = "start" => f = Call("start", None)
Simply(fs) ==
  /\ \A f \in Calls(fs) : Simple(f)
  /\ \A i, j \in DOMAIN fs : i < j => ~Crosses(fs[i], fs[j])

\* While a service is alive or its death was dealt with.
Up(b, l) ==
  /\ b.pending # {} => l.connected
  /\ l.dead => /\ b.active = {} /\ b.pending = {}
               /\ b.first = None /\ b.last = None

\* The calls fs are made by the main loop, or by calls other than a scan.
Resting == Idle \/ Top.op \notin Steady

\* No scan and no dying service is on the stack.
LEMMA RestingCalls ==
  ASSUME TypeOK, Tables, Resting
  PROVE  /\ \A f \in Calls(stack) : Simple(f) /\ ~Scans(f)
         /\ Up(base, link)
<1>1. Nested /\ Fitting /\ Linked(base, link)
  BY DEF Tables
<1>2. ASSUME NEW f \in Calls(stack)
      PROVE  Simple(f) /\ ~Scans(f) /\ f.op # "die"
  <2>1. f.op \notin Steady
    BY <1>1, <1>2, SteadyTop DEF Resting
  <2>. QED BY <1>1, <1>2, <2>1 DEF Fitting, FrameFits, Simple, Scans, Steady
<1>3. Up(base, link)
  BY <1>1, <1>2 DEF Linked, Up
<1>. QED BY <1>2, <1>3

\* What a step outside the scan has to show.
LEMMA RestingStep ==
  ASSUME TypeOK, Tables, Resting, NEW fs \in Frames, NEW U, Going(fs, U),
         Simply(fs), \A f \in Calls(fs), h \in U : ~Crosses(f, h),
         NEW R \in SUBSET Requests,
         \A x \in Requests \ R : LeftAt(x),
         \A r \in R : Placed(req', base', net', Calls(stack'), r),
         Lined(req', base', Waiting(req', Calls(stack'))),
         Promptly(req', net', link', Calls(stack')),
         link'.dead => ~link'.connected,
         Blocking = {} => base'.block = None,
         Up(base', link')
  PROVE  Tables'
<1>1. /\ Calls(stack') = Calls(fs) \cup U /\ U \subseteq Calls(stack)
  BY GoingCalls
<1>2. \A f \in Calls(stack') : Simple(f)
  BY <1>1, RestingCalls DEF Simply
<1>3. \A f \in Calls(stack') : FrameFits(base', link', f) /\ f.op \notin Steady /\ ~Scans(f)
  BY <1>2 DEF Simple, FrameFits, Scans, Steady
<1>4. Cursors(req', base', net', Calls(stack'))
  BY <1>3 DEF Cursors
<1>5. Nested'
  BY NestedGoing DEF Tables, Simply
<1>6. Fitting'
  BY <1>3 DEF Fitting
<1>7. Linked(base, link)'
  BY DEF Linked, Up
<1>8. \A x \in Requests : Placed(req', base', net', Calls(stack'), x)
  BY PlacedKept DEF Tables
<1>. QED BY <1>4, <1>5, <1>6, <1>7, <1>8 DEF Tables

-----------------------------------------------------------------------------
(***************************************************************************)
(* The queue, when a step leaves it alone.                                 *)
(***************************************************************************)

\* The same requests wait in the same order.
LEMMA LinedKept ==
  ASSUME Tables,
         \A x \in Requests : req'[x].next = req[x].next,
         \A x \in Requests : x \in Waiting(req', Calls(stack'))
                               <=> x \in Waiting(req, Calls(stack)),
         base'.first = base.first, base'.last = base.last
  PROVE  Lined(req', base', Waiting(req', Calls(stack')))
<1>1. PICK n, s : Row(req, base, Waiting(req, Calls(stack)), n, s)
  BY DEF Tables, Lined
<1>. DEFINE V == Waiting(req', Calls(stack'))
<1>. HIDE DEF V
<1>2. \A x \in Requests : x \in V <=> x \in Waiting(req, Calls(stack))
  BY DEF V
<1>3. Row(req', base', V, n, s)
  BY <1>1, <1>2, RowKept
<1>. QED BY <1>3 DEF Lined, V

\* No other request becomes overdue, and the scan that is due stays so.
LEMMA PromptlyKept ==
  ASSUME TypeOK, Tables, Resting,
         NEW u, NEW n, NEW l, NEW T,
         \A x \in Requests : Overdue(u, n, T, x) =>
           /\ Overdue(req, net, Calls(stack), x)
           /\ u[x].scheduled = req[x].scheduled,
         link.connected => l.connected,
         ToStart(Calls(stack)) => ToStart(T)
  PROVE  Promptly(u, n, l, T)
<1>1. ~\E f \in Calls(stack) : Scans(f)
  BY RestingCalls
<1>2. Promptly(req, net, link, Calls(stack))
  BY DEF Tables
<1>. QED BY <1>1, <1>2 DEF Promptly

\* A request that is left alone, its serial included, does not become overdue.
LEMMA OverdueKept ==
  ASSUME NEW q, NEW u, NEW n, NEW m, NEW S, NEW T, NEW x \in Requests,
         x \in Waiting(u, T) => x \in Waiting(q, S),
         u[x].serial2 = q[x].serial2, u[x].registered = q[x].registered,
         WireAt(n, m, x)
  PROVE  Overdue(u, m, T, x) => Overdue(q, n, S, x)
<1>1. KeyOf(u, x) = KeyOf(q, x)
  BY DEF KeyOf
<1>2. <<x, KeyOf(q, x)>>[1] = x
  OBVIOUS
<1>. QED BY <1>1, <1>2 DEF Overdue, WireAt

\* The running call is not the start of a scan.
StartStays(fs) == Enter(fs) \/ Top.op # "start"

\* A start that was due stays due.
LEMMA StartKept ==
  ASSUME TypeOK, NEW fs \in Frames, NEW U, Going(fs, U), StartStays(fs)
  PROVE  ToStart(Calls(stack)) => ToStart(Calls(stack'))
<1>1. /\ Calls(stack') = Calls(fs) \cup U /\ Calls(stack) \subseteq U \cup {Top}
      /\ Enter(fs) => U = Calls(stack)
  BY GoingCalls
<1>. QED BY <1>1 DEF ToStart, StartStays

-----------------------------------------------------------------------------
(***************************************************************************)
(* Steps that leave all requests where they are.                           *)
(***************************************************************************)
Settled(q, u) ==
  \A x \in Requests :
    /\ RequestAt(q, u, x)
    /\ u[x].next = q[x].next /\ u[x].serial2 = q[x].serial2
    /\ u[x].scheduled = q[x].scheduled
SameTables(b, c) ==
  /\ c.active = b.active /\ c.pending = b.pending /\ c.block = b.block
  /\ c.first = b.first /\ c.last = b.last
SmallerWire(n, m) ==
  m.outstanding \subseteq n.outstanding /\ m.answers \subseteq n.answers

\* Calls that are about no request.
Aside(f) == f.op \notin Handling \cup {"expire", "fail"}

\* Calls made aside concern no request.
LEMMA AsideConcerns ==
  ASSUME NEW f, Aside(f), NEW x
  PROVE  ~Concerns(f, x)
BY DEF Aside, Concerns, Handling, Lists

\* Such a step keeps the tables.
LEMMA SettledStep ==
  ASSUME TypeOK, Tables, Resting, NEW fs \in Frames, NEW U, Going(fs, U),
         Simply(fs), \A f \in Calls(fs), h \in U : ~Crosses(f, h),
         \A f \in Calls(fs) : Aside(f),
         Enter(fs) \/ (Aside(Top) /\ Top.op # "start"),
         Settled(req, req'), SameTables(base, base'), SmallerWire(net, net'),
         link.connected => link'.connected, link'.dead = link.dead,
         link'.dead => ~link'.connected
  PROVE  Tables'
<1>. DEFINE S == Calls(stack)
            T == Calls(stack')
<1>1. /\ T = Calls(fs) \cup U /\ U \subseteq S /\ S \subseteq U \cup {Top}
      /\ Enter(fs) => U = S
  BY GoingCalls
<1>. HIDE DEF S, T
<1>2. ASSUME NEW x \in Requests
      PROVE  RolesAt(S, T, x)
  <2>1. CASE Enter(fs)
    <3>1. S \subseteq U \cup {}
      BY <1>1, <2>1
    <3>2. \A f \in Calls(fs) \cup {} : ~Concerns(f, x)
      BY AsideConcerns
    <3>. QED BY <1>1, <3>1, <3>2, RolesGo
  <2>2. CASE Aside(Top)
    <3>1. \A f \in Calls(fs) \cup {Top} : ~Concerns(f, x)
      BY <2>2, AsideConcerns
    <3>. QED BY <1>1, <3>1, RolesGo
  <2>. QED BY <2>1, <2>2
<1>3. ASSUME NEW x \in Requests
      PROVE  LeftAt(x) /\ (x \in Waiting(req', T) <=> x \in Waiting(req, S))
  <2>1. RequestAt(req, req', x) /\ TablesAt(base, base', x) /\ WireAt(net, net', x)
    BY DEF Settled, SameTables, SmallerWire, TablesAt, WireAt
  <2>2. x \in Waiting(req', T) <=> x \in Waiting(req, S)
    BY <1>2, <2>1, WaitingKept DEF RequestAt
  <2>. QED BY <1>2, <2>1, <2>2 DEF LeftAt, S, T
<1>4. Lined(req', base', Waiting(req', Calls(stack')))
  BY <1>3, LinedKept DEF Settled, SameTables, S, T
<1>5. Promptly(req', net', link', Calls(stack'))
  <2>1. ASSUME NEW x \in Requests
        PROVE  Overdue(req', net', T, x) => Overdue(req, net, S, x)
    <3>1. /\ req'[x].serial2 = req[x].serial2
          /\ req'[x].registered = req[x].registered
      BY DEF Settled, RequestAt
    <3>2. WireAt(net, net', x)
      BY <1>3 DEF LeftAt
    <3>. QED BY <1>3, <3>1, <3>2, OverdueKept
  <2>2. ToStart(S) => ToStart(T)
    BY StartKept DEF StartStays, S, T
  <2>. QED BY <2>1, <2>2, PromptlyKept DEF Settled, S, T
<1>6. Up(base', link')
  <2>1. Up(base, link)
    BY RestingCalls
  <2>. QED BY <2>1 DEF Up, SameTables
<1>7. Blocking = {} => base'.block = None
  BY DEF Tables, Linked, SameTables
<1>8. /\ {} \in SUBSET Requests
      /\ \A x \in Requests \ {} : LeftAt(x)
      /\ \A r \in {} : Placed(req', base', net', Calls(stack'), r)
  BY <1>3
<1>. QED BY <1>4, <1>5, <1>6, <1>7, <1>8, RestingStep

\* A call ends.
LEMMA SettledReturn ==
  ASSUME TypeOK, Tables, ~Idle, Top.op \notin Steady, Become(<<>>),
         Aside(Top), Top.op # "start",
         Settled(req, req'), SameTables(base, base'), UNCHANGED <<net, link>>
  PROVE  Tables'
<1>1. /\ Going(<<>>, Calls(Tail(stack))) /\ <<>> \in Frames
      /\ Calls(<<>>) = {} /\ Simply(<<>>)
  BY CallsOfNone DEF Going, Simply
<1>2. Resting /\ SmallerWire(net, net')
  BY DEF Resting, SmallerWire
<1>3. link'.dead => ~link'.connected
  BY DEF Tables, Linked
<1>. QED BY <1>1, <1>2, <1>3, SettledStep

\* The main loop makes calls.
LEMMA SettledCall ==
  ASSUME TypeOK, Tables, Idle, NEW fs \in Frames, Enter(fs),
         Simply(fs), \A f \in Calls(fs) : Aside(f),
         Settled(req, req'), SameTables(base, base'), SmallerWire(net, net'),
         link.connected => link'.connected, link'.dead = link.dead,
         link'.dead => ~link'.connected
  PROVE  Tables'
<1>1. Going(fs, Calls(stack)) /\ Calls(stack) = {} /\ Resting
  BY IdleCalls DEF Going, Resting
<1>. QED BY <1>1, SettledStep

-----------------------------------------------------------------------------
(***************************************************************************)
(* Calls made one after the other.                                         *)
(***************************************************************************)
Smooth(f) ==
  Simple(f) /\ f.op \notin {"die", "cancel", "expire", "fail", "unregister", "finish"}

\* Handlers of users make no calls.
LEMMA NoHandler ==
  ASSUME TypeOK, MaxDepth = 0, NEW r
  PROVE  Callback(r) = <<>>
BY DepthType DEF Callback

\* Users call the library from the main loop.
LEMMA UsersIdle ==
  ASSUME TypeOK, Tables, UserTurn
  PROVE  Idle /\ Clean
<1>1. CASE Running("callback")
  <2>1. ~Idle /\ Top.op = "callback" /\ Top \in Calls(stack)
    <3>1. stack \in Seq(Frame) /\ stack # <<>>
      BY <1>1 DEF TypeOK, Running, Idle
    <3>. QED BY <1>1, <3>1 DEF Running, Top, Calls, Idle
  <2>. QED BY <2>1 DEF Tables, Fitting, FrameFits
<1>. QED BY <1>1 DEF UserTurn

\* Smooth calls may be made anywhere, above calls that wait for steady ones too.
LEMMA SmoothCalls ==
  ASSUME TypeOK, Tables, Resting, NEW fs \in Frames, NEW U, Going(fs, U),
         \A f \in Calls(fs) : Smooth(f)
  PROVE  Simply(fs) /\ \A f \in Calls(fs), h \in U : ~Crosses(f, h)
<1>1. ASSUME NEW f, NEW h, Smooth(f), Simple(h)
      PROVE  ~Crosses(f, h)
  BY <1>1 DEF Smooth, Simple, Crosses, Lists
<1>2. \A i \in DOMAIN fs : fs[i] \in Calls(fs)
  BY DEF Calls
<1>3. \A h \in U : Simple(h)
  BY GoingCalls, RestingCalls
<1>4. \A f \in Calls(fs) : Simple(f)
  BY DEF Smooth
<1>. QED BY <1>1, <1>2, <1>3, <1>4 DEF Simply

\* The calls that end the procedures of radio_base.c and of its users.
TailOps == {"start", "retried", "connected", "reset", "unblocked", "unlink",
            "submitted"}

\* They are smooth, and made aside.
LEMMA TailCalls ==
  ASSUME NEW f, f.op \in TailOps, f.op = "start" => f = Call("start", None)
  PROVE  Smooth(f) /\ Aside(f)
BY DEF TailOps, Smooth, Simple, Steady, Aside, Handling

\* The same for the calls of the procedures.
LEMMA TailNames ==
  \A op \in TailOps : Smooth(Call(op, None)) /\ Aside(Call(op, None))
<1>1. ASSUME NEW op \in TailOps
      PROVE  Call(op, None).op = op
  BY DEF Call
<1>. QED BY <1>1, TailCalls

\* The main loop makes calls of this kind and moves no request.
LEMMA TailStep ==
  ASSUME TypeOK, Tables, Idle, NEW fs \in Frames, Enter(fs),
         \A f \in Calls(fs) : Smooth(f) /\ Aside(f),
         Settled(req, req'), SameTables(base, base'), SmallerWire(net, net'),
         link.connected => link'.connected, link'.dead = link.dead,
         link'.dead => ~link'.connected
  PROVE  Tables'
<1>1. Going(fs, Calls(stack)) /\ Resting
  BY DEF Going, Resting
<1>2. Simply(fs)
  BY <1>1, SmoothCalls
<1>. QED BY <1>2, SettledCall

\* No call is made.
LEMMA SilentStep ==
  ASSUME TypeOK, Tables, Idle, UNCHANGED <<stack, link>>,
         Settled(req, req'), SameTables(base, base'), SmallerWire(net, net')
  PROVE  Tables'
<1>1. Enter(<<>>) /\ <<>> \in Frames /\ Calls(<<>>) = {}
  BY NoCalls, CallsOfNone
<1>2. link'.dead => ~link'.connected
  BY DEF Tables, Linked
<1>. QED BY <1>1, <1>2, TailStep

\* Nothing happens to the requests.
LEMMA SettledSame ==
  ASSUME UNCHANGED req
  PROVE  Settled(req, req')
BY DEF Settled, RequestAt

\* The clock, answers that come too late, and users who let requests go.
LEMMA TablesSettings ==
  ASSUME TypeOK, Tables,
         \/ Tick \/ RespondUnknown
         \/ \E r \in Requests : Release(r)
         \/ \E r \in Requests, ms \in Timeouts : SetTimeout(r, ms)
         \/ \E ms \in Timeouts : SetDefaultTimeout(ms)
  PROVE  Tables'
<1>0. req \in [Requests -> RequestRecord] /\ base \in BaseRecord /\ net \in NetRecord
  BY DEF TypeOK
<1>1. CASE Tick
  BY <1>1, SettledSame, SilentStep DEF Tick, EventTurn, SameTables, SmallerWire
<1>2. CASE RespondUnknown
  <2>1. SmallerWire(net, net')
    BY <1>0, <1>2 DEF RespondUnknown, NetRecord, SmallerWire
  <2>. QED BY <1>2, <2>1, SettledSame, SilentStep
       DEF RespondUnknown, EventTurn, SameTables
<1>3. ASSUME NEW r \in Requests, Release(r)
      PROVE  Tables'
  <2>1. Settled(req, req')
    BY <1>0, <1>3 DEF Release, Settled, RequestAt, RequestRecord
  <2>. QED BY <1>3, <2>1, UsersIdle, SilentStep
       DEF Release, SameTables, SmallerWire
<1>4. ASSUME NEW r \in Requests, NEW ms \in Timeouts, SetTimeout(r, ms)
      PROVE  Tables'
  <2>1. Settled(req, req')
    <3>1. \E d : req' = [req EXCEPT ![r] = [req[r] EXCEPT !.timeout = ms,
                                                         !.deadline = d]]
      BY <1>4, Zenon DEF SetTimeout
    <3>. QED BY <1>0, <3>1 DEF Settled, RequestAt, RequestRecord
  <2>2. base' = base \/ \E t : base' = [base EXCEPT !.timer = t]
    BY <1>4, Zenon DEF SetTimeout
  <2>3. SameTables(base, base')
    BY <1>0, <2>2 DEF SameTables, BaseRecord
  <2>. QED BY <1>4, <2>1, <2>3, UsersIdle, SilentStep
       DEF SetTimeout, SmallerWire
<1>5. ASSUME NEW ms \in Timeouts, SetDefaultTimeout(ms)
      PROVE  Tables'
  <2>. DEFINE affected == {r \in base.active : req[r].timeout = 0}
              q == [r \in Requests |->
                      IF r \in affected
                      THEN [req[r] EXCEPT !.deadline = @ + (ms - base.timeout)]
                      ELSE req[r]]
              b == [base EXCEPT !.timeout = ms]
  <2>1. /\ UNCHANGED <<net, link, stack>> /\ UserTurn /\ req' = q
        /\ base' = b \/ \E t : base' = [b EXCEPT !.timer = t]
    BY <1>5 DEF SetDefaultTimeout
  <2>2. Settled(req, req')
    <3>1. ASSUME NEW x \in Requests
          PROVE  /\ RequestAt(req, req', x)
                 /\ req'[x].next = req[x].next /\ req'[x].serial2 = req[x].serial2
                 /\ req'[x].scheduled = req[x].scheduled
      <4>1. req'[x] = req[x]
              \/ req'[x] = [req[x] EXCEPT !.deadline = @ + (ms - base.timeout)]
        BY <2>1
      <4>2. req[x] \in RequestRecord
        BY <1>0
      <4>. QED BY <4>1, <4>2 DEF RequestAt, RequestRecord
    <3>. QED BY <3>1 DEF Settled
  <2>3. SameTables(base, base')
    BY <1>0, <2>1 DEF SameTables, BaseRecord
  <2>. QED BY <2>1, <2>2, <2>3, UsersIdle, SilentStep DEF SmallerWire
<1>. QED BY <1>1, <1>2, <1>3, <1>4, <1>5

\* Groups come, go and wait; requests leave them.
LEMMA TablesGroups ==
  ASSUME TypeOK, Tables, MaxDepth = 0,
         \E g \in Groups : Block(g) \/ Unblock(g) \/ FreeGroup(g)
  PROVE  Tables'
<1>0. base \in BaseRecord
  BY DEF TypeOK
<1>1. PICK g \in Groups : Block(g) \/ Unblock(g) \/ FreeGroup(g)
  OBVIOUS
<1>2. UserTurn /\ UNCHANGED <<req, net, link>>
  BY <1>1 DEF Block, Unblock, FreeGroup
<1>3. SameTables(base, UnblockBase(g))
  BY <1>0 DEF SameTables, UnblockBase, BaseRecord
<1>4. SameTables(base, base')
  <2>1. CASE Block(g)
    BY <1>0, <2>1 DEF Block, SameTables, BaseRecord
  <2>2. CASE Unblock(g)
    BY <1>3, <2>2 DEF Unblock
  <2>3. CASE FreeGroup(g)
    <3>1. UnblockBase(g) \in BaseRecord
      BY <1>0, UnblockBaseType
    <3>2. base' = [UnblockBase(g) EXCEPT !.groups = @ \ {g}]
      BY <2>3 DEF FreeGroup
    <3>. QED BY <1>3, <3>1, <3>2 DEF SameTables, BaseRecord
  <2>. QED BY <1>1, <2>1, <2>2, <2>3
<1>5. UnblockCalls(g) \in Frames /\ \A f \in Calls(UnblockCalls(g)) : Smooth(f) /\ Aside(f)
  <2>1. Callback(None) = <<>>
    BY NoHandler
  <2>2. /\ Call("start", None) \in Frame /\ Call("unblocked", None) \in Frame
    BY PlainCallType DEF Ops, RequestOps
  <2>. DEFINE fs == <<Call("start", None), Call("unblocked", None)>>
  <2>3. fs \in Frames /\ Calls(fs) = {Call("start", None), Call("unblocked", None)}
    BY <2>2, CallsOfTwo
  <2>4. UnblockCalls(g) = fs \/ UnblockCalls(g) = <<>>
    BY <2>1, <2>3 DEF UnblockCalls, Frames
  <2>5. /\ Smooth(Call("start", None)) /\ Aside(Call("start", None))
        /\ Smooth(Call("unblocked", None)) /\ Aside(Call("unblocked", None))
    BY TailNames DEF TailOps
  <2>. HIDE DEF fs
  <2>. QED BY <2>3, <2>4, <2>5, CallsOfNone
<1>6. \E fs \in Frames : Enter(fs) /\ \A f \in Calls(fs) : Smooth(f) /\ Aside(f)
  <2>1. CASE Block(g)
    <3>1. Enter(<<>>)
      BY <2>1, NoHandler, NoCalls DEF Block
    <3>. QED BY <3>1, CallsOfNone
  <2>2. CASE Unblock(g)
    BY <1>5, <2>2 DEF Unblock
  <2>3. CASE FreeGroup(g)
    <3>. DEFINE f == [Call("unlink", None) EXCEPT !.g = g]
    <3>1. f \in Frame /\ f.op = "unlink"
      <4>1. Call("unlink", None) \in Frame
        BY PlainCallType DEF Ops, RequestOps
      <4>. QED BY <4>1 DEF Frame, MaybeGroup, Call
    <3>2. Smooth(f) /\ Aside(f)
      <4>. HIDE DEF f
      <4>. QED BY <3>1, TailCalls DEF TailOps
    <3>3. Enter(UnblockCalls(g) \o <<f>>)
      BY <2>3 DEF FreeGroup
    <3>. HIDE DEF f
    <3>4. <<f>> \in Frames /\ Calls(<<f>>) = {f}
      BY <3>1, CallsOfOne
    <3>5. /\ UnblockCalls(g) \o <<f>> \in Frames
          /\ Calls(UnblockCalls(g) \o <<f>>) = Calls(UnblockCalls(g)) \cup {f}
      BY <1>5, <3>4, CallsOfBoth
    <3>. QED BY <1>5, <3>2, <3>3, <3>5
  <2>. QED BY <1>1, <2>1, <2>2, <2>3
<1>7. link'.dead => ~link'.connected
  BY <1>2 DEF Tables, Linked
<1>. QED BY <1>2, <1>4, <1>6, <1>7, UsersIdle, TailStep, SettledSame
     DEF SmallerWire

\* No call made first changes nothing.
LEMMA NoneFirst ==
  ASSUME NEW fs \in Frames
  PROVE  <<>> \o fs = fs
BY DEF Frames

\* The instance connects.
LEMMA TablesConnected ==
  ASSUME TypeOK, Tables, MaxDepth = 0, Connected
  PROVE  Tables'
<1>. DEFINE f == Call("start", None)
            h == Call("connected", None)
<1>1. /\ Idle /\ link' = [link EXCEPT !.connected = TRUE] /\ ~link.dead
      /\ Enter(Callback(None) \o <<f, h>>) /\ UNCHANGED <<req, base, net>>
  BY DEF Connected, EventTurn
<1>2. Smooth(f) /\ Aside(f) /\ Smooth(h) /\ Aside(h)
  BY TailNames DEF TailOps
<1>3. f \in Frame /\ h \in Frame
  BY PlainFrames
<1>. HIDE DEF f, h
<1>4. <<f, h>> \in Frames /\ Calls(<<f, h>>) = {f, h}
  BY <1>3, CallsOfTwo
<1>5. Callback(None) \o <<f, h>> = <<f, h>>
  BY <1>4, NoHandler, NoneFirst
<1>6. link'.connected /\ link'.dead = link.dead
  BY <1>1 DEF TypeOK, LinkRecord
<1>. QED BY <1>1, <1>2, <1>4, <1>5, <1>6, TailStep, SettledSame
     DEF SameTables, SmallerWire

\* A call that only resets the timer ends.
LEMMA TablesReset ==
  ASSUME TypeOK, Tables, Reset
  PROVE  Tables'
<1>1. /\ ~Idle /\ Top.op \in {"retried", "connected", "unblocked", "reset"}
      /\ Become(<<>>) /\ UNCHANGED <<req, net, link>>
      /\ base' = base \/ \E t : base' = [base EXCEPT !.timer = t]
  BY Zenon DEF Reset
<1>2. Top.op \notin Steady /\ Aside(Top) /\ Top.op # "start"
  BY <1>1 DEF Steady, Aside, Handling
<1>3. SameTables(base, base')
  BY <1>1 DEF SameTables, TypeOK, BaseRecord
<1>. QED BY <1>1, <1>2, <1>3, SettledReturn, SettledSame

\* The call that submits a request ends.
LEMMA TablesSubmitted ==
  ASSUME TypeOK, Tables, Submitted
  PROVE  Tables'
<1>1. /\ ~Idle /\ Top.op = "submitted" /\ Become(<<>>) /\ UNCHANGED <<net, link>>
  BY RunningTop DEF Submitted
<1>2. base' = base \/ \E t : base' = [base EXCEPT !.timer = t]
  BY Zenon DEF Submitted
<1>3. req' = req \/ \E c : req' = [req EXCEPT ![Top.r] = [@ EXCEPT !.complete = c,
                                                              !.submitted = TRUE]]
  BY Zenon DEF Submitted
<1>4. Top.op \notin Steady /\ Aside(Top) /\ Top.op # "start"
  BY <1>1 DEF Steady, Aside, Handling
<1>5. SameTables(base, base')
  BY <1>2 DEF SameTables, TypeOK, BaseRecord
<1>6. Settled(req, req')
  <2>1. CASE req' = req
    BY <2>1, SettledSame
  <2>2. ASSUME NEW c, req' = [req EXCEPT ![Top.r] = [req[Top.r] EXCEPT
                                        !.complete = c, !.submitted = TRUE]]
        PROVE  Settled(req, req')
    <3>1. req \in [Requests -> RequestRecord]
      BY DEF TypeOK
    <3>2. ASSUME NEW x \in Requests
          PROVE  /\ RequestAt(req, req', x)
                 /\ req'[x].next = req[x].next /\ req'[x].serial2 = req[x].serial2
                 /\ req'[x].scheduled = req[x].scheduled
      <4>1. CASE x = Top.r
        <5>1. req'[x] = [req[x] EXCEPT !.complete = c, !.submitted = TRUE]
          BY <2>2, <3>1, <4>1
        <5>2. req[x] \in RequestRecord
          BY <3>1
        <5>. QED BY <5>1, <5>2 DEF RequestAt, RequestRecord
      <4>2. CASE x # Top.r
        BY <2>2, <3>1, <4>2 DEF RequestAt
      <4>. QED BY <4>1, <4>2
    <3>. QED BY <3>2 DEF Settled
  <2>. QED BY <1>3, <2>1, <2>2
<1>. QED BY <1>1, <1>4, <1>5, <1>6, SettledReturn

\* Requests leave their groups.
LEMMA SettledUngroup ==
  ASSUME TypeOK, NEW G, req' = Ungroup(G)
  PROVE  Settled(req, req')
BY DEF Ungroup, Settled, RequestAt, TypeOK, RequestRecord

\* The members of a group that was freed leave it.
LEMMA TablesUnlink ==
  ASSUME TypeOK, Tables, Unlink
  PROVE  Tables'
<1>1. /\ ~Idle /\ Top.op = "unlink" /\ Become(<<>>)
      /\ UNCHANGED <<base, net, link>> /\ req' = Ungroup(Members(Top.g))
  BY RunningTop DEF Unlink
<1>2. Top.op \notin Steady /\ Aside(Top) /\ Top.op # "start"
  BY <1>1 DEF Steady, Aside, Handling
<1>. QED BY <1>1, <1>2, SettledReturn, SettledUngroup DEF SameTables

\* The members of a group leave it to be cancelled.
LEMMA TablesCancelGroup ==
  ASSUME TypeOK, Tables, NEW g \in Groups, CancelGroup(g)
  PROVE  Tables'
<1>. DEFINE f == ListCall("cancel", Members(g))
<1>1. /\ UserTurn /\ UNCHANGED <<base, net, link>> /\ req' = Ungroup(Members(g))
      /\ Enter(<<f>>)
  BY DEF CancelGroup
<1>2. f \in Frame /\ f.op = "cancel"
  <2>1. Members(g) \in SUBSET Requests
    BY DEF Members
  <2>. QED BY <2>1, ListCallType DEF ListCall, Call
<1>. HIDE DEF f
<1>3. <<f>> \in Frames /\ Calls(<<f>>) = {f} /\ DOMAIN <<f>> = 1 .. 1
  BY <1>2, CallsOfOne
<1>4. Simple(f) /\ Aside(f)
  BY <1>2 DEF Simple, Aside, Steady, Handling
<1>5. Simply(<<f>>)
  BY <1>3, <1>4 DEF Simply
<1>6. link'.dead => ~link'.connected
  BY <1>1 DEF Tables, Linked
<1>. QED BY <1>1, <1>3, <1>4, <1>5, <1>6, UsersIdle, SettledCall, SettledUngroup
     DEF SameTables, SmallerWire

-----------------------------------------------------------------------------
(***************************************************************************)
(* What the procedures of radio_base.c change in a request.                *)
(***************************************************************************)

\* Everything but the state, the schedule, the transaction and the place in
\* the queue.
Marks(c, d) ==
  /\ d.registered = c.registered /\ d.dropped = c.dropped
  /\ d.freed = c.freed /\ d.held = c.held /\ d.sends = c.sends
  /\ d.retries = c.retries /\ d.calls = c.calls /\ d.serial2 = c.serial2

\* cancel_request
LEMMA CancelFields ==
  ASSUME NEW q \in RequestMap, NEW r \in Requests
  PROVE  /\ \A x \in Requests : x # r => CancelReq(q, r)[x] = q[x]
         /\ Marks(q[r], CancelReq(q, r)[r])
         /\ CancelReq(q, r)[r].state = q[r].state
         /\ CancelReq(q, r)[r].next = q[r].next
         /\ CancelReq(q, r)[r].tx = 0 /\ CancelReq(q, r)[r].scheduled = 0
BY DEF CancelReq, Marks, RequestMap, RequestRecord

\* queue_request
LEMMA QueueFields ==
  ASSUME NEW q \in RequestMap, NEW b, NEW r \in Requests, NEW x \in Requests
  PROVE  /\ Marks(q[x], QueueReq(q, b, r)[x])
         /\ QueueReq(q, b, r)[x].state = IF x = r THEN "QUEUED" ELSE q[x].state
         /\ QueueReq(q, b, r)[x].next = IF x = b.last THEN r ELSE q[x].next
         /\ QueueReq(q, b, r)[x].tx = q[x].tx
         /\ QueueReq(q, b, r)[x].scheduled = q[x].scheduled
BY ZenonT(60) DEF QueueReq, Marks, RequestMap, RequestRecord

\* unlink_request
LEMMA UnlinkFields ==
  ASSUME NEW q \in RequestMap, NEW r \in Requests, NEW prev, NEW x \in Requests
  PROVE  /\ Marks(q[x], UnlinkReq(q, r, prev)[x])
         /\ UnlinkReq(q, r, prev)[x].state = q[x].state
         /\ UnlinkReq(q, r, prev)[x].next = CASE x = r -> None
                                           [] x = prev /\ x # r -> q[r].next
                                           [] OTHER -> q[x].next
         /\ UnlinkReq(q, r, prev)[x].tx = q[x].tx
         /\ UnlinkReq(q, r, prev)[x].scheduled = q[x].scheduled
BY ZenonT(60) DEF UnlinkReq, Marks, RequestMap, RequestRecord

\* deactivate_request
LEMMA DeactivateFields ==
  ASSUME NEW q \in RequestMap, NEW b, NEW r \in Requests, NEW x \in Requests
  PROVE  /\ Marks(q[x], DeactivateReq(q, b, r)[x])
         /\ DeactivateReq(q, b, r)[x].state = q[x].state
         /\ DeactivateReq(q, b, r)[x].tx = q[x].tx
         /\ DeactivateReq(q, b, r)[x].scheduled = q[x].scheduled
<1>1. Marks(q[x], q[x])
  BY DEF Marks
<1>. QED BY <1>1, UnlinkFields DEF DeactivateReq

\* queue_request and deactivate_request, on the tables.
LEMMA QueueTables ==
  ASSUME NEW b \in BaseRecord, NEW r
  PROVE  /\ QueueBase(b, r).active = b.active /\ QueueBase(b, r).pending = b.pending
         /\ QueueBase(b, r).block = b.block /\ QueueBase(b, r).last = r
         /\ QueueBase(b, r).first = IF b.last = None THEN r ELSE b.first
BY DEF QueueBase, BaseRecord

\* deactivate_request takes the request out of the tables and of the queue.
LEMMA DeactivateTables ==
  ASSUME NEW q \in RequestMap, NEW b \in BaseRecord, NEW r \in Requests
  PROVE  /\ DeactivateBase(q, b, r).active = b.active \ {r}
         /\ DeactivateBase(q, b, r).pending = b.pending \ {r}
         /\ DeactivateBase(q, b, r).block = IF b.block = r THEN None ELSE b.block
         /\ ~Dequeues(q, b, r) => /\ DeactivateBase(q, b, r).first = b.first
                                  /\ DeactivateBase(q, b, r).last = b.last
         /\ Dequeues(q, b, r) =>
              /\ DeactivateBase(q, b, r).first =
                   UnlinkBase(q, b, r, Before(q, b, r)).first
              /\ DeactivateBase(q, b, r).last =
                   UnlinkBase(q, b, r, Before(q, b, r)).last
<1>1. ASSUME NEW c \in {b, UnlinkBase(q, b, r, Before(q, b, r))}
      PROVE  /\ c.active = b.active /\ c.pending = b.pending /\ c.block = b.block
             /\ DOMAIN c = DOMAIN b
  BY <1>1 DEF UnlinkBase, BaseRecord
<1>2. ASSUME NEW c, DOMAIN c = DOMAIN b
      PROVE  LET d == [c EXCEPT !.pending = @ \ {r}, !.active = @ \ {r},
                                !.block = IF @ = r THEN None ELSE @]
             IN  /\ d.active = c.active \ {r} /\ d.pending = c.pending \ {r}
                 /\ d.block = IF c.block = r THEN None ELSE c.block
                 /\ d.first = c.first /\ d.last = c.last
  BY <1>2 DEF BaseRecord
<1>. QED BY <1>1, <1>2 DEF DeactivateBase

\* unlink_request, on the tables.
LEMMA UnlinkTables ==
  ASSUME NEW q, NEW b \in BaseRecord, NEW r \in Requests, NEW prev
  PROVE  /\ UnlinkBase(q, b, r, prev).active = b.active
         /\ UnlinkBase(q, b, r, prev).pending = b.pending
         /\ UnlinkBase(q, b, r, prev).block = b.block
         /\ UnlinkBase(q, b, r, prev).first =
              IF prev = None THEN q[r].next ELSE b.first
         /\ UnlinkBase(q, b, r, prev).last =
              IF q[r].next = None THEN prev ELSE b.last
BY DEF UnlinkBase, BaseRecord

\* move_owner_queue
LEMMA MoveOwnerFields ==
  ASSUME NEW q, NEW b \in BaseRecord
  PROVE  SameTables(b, MoveOwnerQueue(q, b))
BY DEF SameTables, MoveOwnerQueue, BaseRecord

-----------------------------------------------------------------------------
(***************************************************************************)
(* Between events.                                                         *)
(***************************************************************************)

\* No call in progress decides where the request is.
NoRoles(S, x) ==
  /\ ~DropDue(S, x) /\ ~Leaving(S, x) /\ ~Unregisters(S, x)
  /\ ~Finishing(S, x) /\ ~Answered(S, x) /\ ~Stolen(S, x) /\ ~Ending(S, x)

\* Where the request is, then.
AtRest(q, b, n, x) ==
  /\ x \in b.pending <=> q[x].state = "PENDING"
  /\ x \in b.active <=> q[x].state \in Underway
  /\ b.block = x => x \in b.active
  /\ q[x].dropped => ~q[x].registered
  /\ x \in b.active => q[x].registered /\ ~q[x].freed
  /\ q[x].freed => ~q[x].held
  /\ q[x].state = "NEW" => q[x].sends = 0 /\ q[x].retries = 0
  /\ q[x].state = "QUEUED" => q[x].sends = q[x].retries
  /\ q[x].state = "PENDING" => q[x].sends = q[x].retries + 1
  /\ q[x].sends <= q[x].retries + 1
  /\ q[x].calls # 0 => q[x].state \in Terminal
  /\ \A t \in n.outstanding : t[1] = x => /\ q[x].tx = t[2]
                                          /\ q[x].state = "PENDING"
  /\ \A t \in n.answers : t[1] = x => q[x].sends # 0

Queued(q) == {x \in Requests : q[x].state = "QUEUED"}

\* Calls that do not concern a request have no role for it.
LEMMA NoConcern ==
  ASSUME NEW S, NEW x, \A f \in S : ~Concerns(f, x)
  PROVE  NoRoles(S, x)
<1>1. RolesAt({}, S, x)
  <2>1. S = S \cup {} /\ {} \subseteq {} /\ {} \subseteq {} \cup {}
    OBVIOUS
  <2>2. \A f \in S \cup {} : ~Concerns(f, x)
    OBVIOUS
  <2>. QED BY <2>1, <2>2, RolesGo
<1>2. NoRoles({}, x)
  BY DEF NoRoles, DropDue, Leaving, Unregisters, Finishing, Answered, Stolen, Ending
<1>. QED BY <1>1, <1>2 DEF NoRoles, RolesAt

\* Without roles a request is at rest where it is placed.
LEMMA AtRestPlaced ==
  ASSUME NEW q, NEW b, NEW n, NEW S, NEW x \in Requests, NoRoles(S, x)
  PROVE  /\ Placed(q, b, n, S, x) <=> AtRest(q, b, n, x)
         /\ x \in Waiting(q, S) <=> x \in Queued(q)
<1>1. ~DropDue(S, x) /\ ~Unregisters(S, x) /\ ~Stolen(S, x) /\ ~Ending(S, x)
      /\ ~Finishing(S, x) /\ ~Answered(S, x) /\ ~Leaving(S, x)
  BY DEF NoRoles
<1>2. x \in Waiting(q, S) <=> q[x].state = "QUEUED"
  BY <1>1 DEF Waiting, Out
<1>3. Off(q, b, S, x) <=> x \notin b.active \cup b.pending /\ q[x].state # "QUEUED"
  BY <1>1, <1>2 DEF Off
<1>4. Tabled(q, b, S, x) <=> /\ x \in b.pending <=> q[x].state = "PENDING"
                             /\ x \in b.active <=> q[x].state \in Underway
                             /\ b.block = x => x \in b.active
  BY <1>1 DEF Tabled, Out
<1>5. Claimed(q, S, x)
  BY <1>1 DEF Claimed
<1>6. Wired(q, n, S, x) <=>
        /\ \A t \in n.outstanding : t[1] = x => /\ q[x].tx = t[2]
                                               /\ q[x].state = "PENDING"
        /\ \A t \in n.answers : t[1] = x => q[x].sends # 0
  BY <1>1, <1>2 DEF Wired
<1>7. Tabled(q, b, S, x) =>
        (Detached(q, b, S, x) <=>
           /\ q[x].dropped => ~q[x].registered
           /\ x \in b.active => q[x].registered /\ ~q[x].freed
           /\ q[x].freed => ~q[x].held)
  BY <1>1, <1>3, <1>4 DEF Detached, Underway
<1>8. Counted(q, S, x) <=>
        /\ q[x].state = "NEW" => q[x].sends = 0 /\ q[x].retries = 0
        /\ q[x].state = "QUEUED" => q[x].sends = q[x].retries
        /\ q[x].state = "PENDING" => q[x].sends = q[x].retries + 1
        /\ q[x].sends <= q[x].retries + 1
        /\ q[x].calls # 0 => q[x].state \in Terminal
  BY <1>2 DEF Counted
<1>9. Placed(q, b, n, S, x) <=> AtRest(q, b, n, x)
  <2>. HIDE DEF Underway
  <2>. QED BY <1>4, <1>5, <1>6, <1>7, <1>8 DEF Placed, AtRest
<1>10. x \in Waiting(q, S) <=> x \in Queued(q)
  BY <1>2 DEF Queued
<1>. QED BY <1>9, <1>10

\* Between events all requests are at rest.
LEMMA RestFacts ==
  ASSUME TypeOK, Tables, Idle
  PROVE  /\ \A x \in Requests : AtRest(req, base, net, x)
         /\ Waiting(req, Calls(stack)) = Queued(req)
         /\ Lined(req, base, Queued(req))
         /\ \A x \in Requests : ~Overdue(req, net, Calls(stack), x)
         /\ Up(base, link) /\ Resting
         /\ link.dead => ~link.connected
         /\ Blocking = {} => base.block = None
<1>1. Calls(stack) = {}
  BY IdleCalls
<1>2. \A x \in Requests : NoRoles(Calls(stack), x)
  BY <1>1, NoConcern
<1>3. \A x \in Requests : AtRest(req, base, net, x)
  BY <1>2, AtRestPlaced DEF Tables
<1>4. Waiting(req, Calls(stack)) = Queued(req)
  BY <1>2, AtRestPlaced DEF Waiting, Queued
<1>5. \A x \in Requests : ~Overdue(req, net, Calls(stack), x)
  BY <1>1 DEF Tables, Promptly, ToStart
<1>6. Resting
  BY DEF Resting
<1>. QED BY <1>3, <1>4, <1>5, <1>6, RestingCalls DEF Tables, Linked

\* What the main loop or a user calls takes the requests R with it.
LEMMA IdleStep ==
  ASSUME TypeOK, Tables, Idle, NEW fs \in Frames, Enter(fs), Simply(fs),
         NEW R \in SUBSET Requests,
         \A x \in Requests \ R : /\ RequestAt(req, req', x)
                                 /\ TablesAt(base, base', x) /\ WireAt(net, net', x)
                                 /\ \A f \in Calls(fs) : ~Concerns(f, x),
         \A r \in R : Placed(req', base', net', Calls(fs), r),
         Lined(req', base', Waiting(req', Calls(fs))),
         Promptly(req', net', link', Calls(fs)),
         link'.dead => ~link'.connected,
         Blocking = {} => base'.block = None,
         Up(base', link')
  PROVE  Tables'
<1>1. /\ Going(fs, Calls(stack)) /\ Resting /\ Calls(stack) = {}
  BY IdleCalls DEF Going, Resting
<1>2. Calls(stack') = Calls(fs)
  BY <1>1, GoingCalls
<1>3. \A x \in Requests \ R : LeftAt(x)
  <2>1. ASSUME NEW x \in Requests \ R
        PROVE  RolesAt(Calls(stack), Calls(stack'), x)
    <3>1. NoRoles(Calls(stack), x)
      BY <1>1, NoConcern
    <3>2. NoRoles(Calls(fs), x)
      BY <2>1, NoConcern
    <3>. QED BY <1>2, <3>1, <3>2 DEF NoRoles, RolesAt
  <2>. QED BY <2>1 DEF LeftAt
<1>4. \A f \in Calls(fs), h \in Calls(stack) : ~Crosses(f, h)
  BY <1>1
<1>. QED BY <1>1, <1>2, <1>3, <1>4, RestingStep

\* Calls of this kind are made one after the other and concern no request.
LEMMA AsideCalls ==
  ASSUME NEW fs, \A f \in Calls(fs) : Smooth(f) /\ Aside(f)
  PROVE  /\ Simply(fs) /\ \A f \in Calls(fs), x \in Requests : ~Concerns(f, x)
         /\ \A x \in Requests : NoRoles(Calls(fs), x)
         /\ \A q : Waiting(q, Calls(fs)) = Queued(q)
<1>1. \A i \in DOMAIN fs : fs[i] \in Calls(fs)
  BY DEF Calls
<1>2. ASSUME NEW f, NEW h, Smooth(f), Smooth(h)
      PROVE  ~Crosses(f, h)
  BY <1>2 DEF Smooth, Simple, Crosses, Lists
<1>3. Simply(fs)
  BY <1>1, <1>2 DEF Simply, Smooth
<1>4. \A f \in Calls(fs), x \in Requests : ~Concerns(f, x)
  BY AsideConcerns
<1>5. \A x \in Requests : NoRoles(Calls(fs), x)
  BY <1>4, NoConcern
<1>6. ASSUME NEW q
      PROVE  Waiting(q, Calls(fs)) = Queued(q)
  BY <1>5, AtRestPlaced DEF Waiting, Queued
<1>. QED BY <1>3, <1>4, <1>5, <1>6

-----------------------------------------------------------------------------
(***************************************************************************)
(* Requests that enter the queue.                                          *)
(***************************************************************************)

\* A request that is left alone is not overdue between events.
LEMMA IdleOverdue ==
  ASSUME TypeOK, Tables, Idle, NEW x \in Requests, NEW T, NoRoles(T, x),
         req'[x].state = req[x].state, req'[x].registered = req[x].registered,
         req'[x].serial2 = req[x].serial2, WireAt(net, net', x)
  PROVE  ~Overdue(req', net', T, x)
<1>1. ~Overdue(req, net, Calls(stack), x) /\ Waiting(req, Calls(stack)) = Queued(req)
  BY RestFacts
<1>2. x \in Waiting(req', T) <=> x \in Queued(req')
  BY AtRestPlaced
<1>3. x \in Waiting(req', T) => x \in Waiting(req, Calls(stack))
  BY <1>1, <1>2 DEF Queued
<1>. QED BY <1>1, <1>3, OverdueKept

\* A request is queued at the end of the queue, and a scan is due.
LEMMA QueueStep ==
  ASSUME TypeOK, Tables, Idle, NEW fs \in Frames, Enter(fs),
         \A f \in Calls(fs) : Smooth(f) /\ Aside(f), ToStart(Calls(fs)),
         NEW r \in Requests, req[r].state # "QUEUED", req'[r].state = "QUEUED",
         \A x \in Requests \ {r} : /\ RequestAt(req, req', x)
                                   /\ req'[x].serial2 = req[x].serial2
                                   /\ WireAt(net, net', x),
         \A x \in Requests :
           req'[x].next = IF x = base.last THEN r ELSE req[x].next,
         base'.active = base.active \cup {r},
         base'.pending = base.pending \ {r}, base'.block = base.block,
         base'.first = IF base.last = None THEN r ELSE base.first,
         base'.last = r,
         AtRest(req', base', net', r),
         Overdue(req', net', Calls(fs), r) =>
           Prompt /\ req'[r].scheduled = 0 /\ link.connected,
         ~link.dead, UNCHANGED link
  PROVE  Tables'
<1>1. /\ Simply(fs) /\ \A f \in Calls(fs), x \in Requests : ~Concerns(f, x)
      /\ \A x \in Requests : NoRoles(Calls(fs), x)
      /\ \A q : Waiting(q, Calls(fs)) = Queued(q)
  BY AsideCalls
<1>2. ASSUME NEW x \in Requests \ {r}
      PROVE  TablesAt(base, base', x)
  BY DEF TablesAt
<1>3. Placed(req', base', net', Calls(fs), r)
  BY <1>1, AtRestPlaced
<1>4. Lined(req', base', Queued(req'))
  <2>1. PICK n, s : Row(req, base, Queued(req), n, s)
    BY RestFacts DEF Lined
  <2>2. \A x \in Requests : x \in Queued(req') <=> x \in Queued(req) \/ x = r
    BY DEF Queued, RequestAt
  <2>3. r \notin Queued(req)
    BY DEF Queued
  <2>. QED BY <2>1, <2>2, <2>3, RowAppend
<1>5. Promptly(req', net', link', Calls(fs))
  <2>1. ASSUME NEW x \in Requests \ {r}
        PROVE  ~Overdue(req', net', Calls(fs), x)
    BY <1>1, IdleOverdue DEF RequestAt
  <2>. QED BY <2>1 DEF Promptly
<1>6. Up(base', link') /\ (link'.dead => ~link'.connected)
      /\ (Blocking = {} => base'.block = None)
  BY RestFacts DEF Up
<1>7. /\ {r} \in SUBSET Requests
      /\ \A x \in Requests \ {r} : /\ RequestAt(req, req', x)
                                 /\ TablesAt(base, base', x) /\ WireAt(net, net', x)
                                 /\ \A f \in Calls(fs) : ~Concerns(f, x)
      /\ \A x \in {r} : Placed(req', base', net', Calls(fs), x)
  BY <1>1, <1>2, <1>3
<1>8. Lined(req', base', Waiting(req', Calls(fs)))
  BY <1>1, <1>4
<1>. QED BY <1>1, <1>5, <1>6, <1>7, <1>8, IdleStep

\* The calls of a request that is queued.
LEMMA StartCalls ==
  ASSUME NEW f \in Frame, f.op \in TailOps, f.op # "start"
  PROVE  /\ <<Call("start", None), f>> \in Frames
         /\ \A h \in Calls(<<Call("start", None), f>>) : Smooth(h) /\ Aside(h)
         /\ ToStart(Calls(<<Call("start", None), f>>))
<1>. DEFINE c == Call("start", None)
<1>1. c \in Frame /\ Smooth(c) /\ Aside(c) /\ c.op = "start"
  BY PlainFrames, TailNames DEF TailOps, Call
<1>2. Smooth(f) /\ Aside(f)
  BY TailCalls
<1>. HIDE DEF c
<1>3. <<c, f>> \in Frames /\ Calls(<<c, f>>) = {c, f}
  BY <1>1, CallsOfTwo
<1>. QED BY <1>1, <1>2, <1>3 DEF ToStart, c

\* A user submits a request.
LEMMA TablesSubmit ==
  ASSUME TypeOK, Tables, SilenceInv, NEW r \in Requests, Submit(r)
  PROVE  Tables'
<1>. DEFINE p == QueueReq(req, base, r)
            f == [Call("submitted", r) EXCEPT !.some = req[r].complete]
<1>1. /\ UserTurn /\ req[r].held /\ req[r].registered
      /\ req[r].state = "NEW" /\ ~link.dead
      /\ \E d : req' = [p EXCEPT ![r] = [@ EXCEPT !.complete = FALSE, !.deadline = d]]
      /\ base' = [QueueBase(base, r) EXCEPT !.active = @ \cup {r}]
      /\ Enter(<<Call("start", None), f>>) /\ UNCHANGED <<net, link>>
  BY Zenon DEF Submit
<1>2. Idle /\ req \in RequestMap /\ base \in BaseRecord
  BY <1>1, UsersIdle DEF TypeOK, RequestMap
<1>3. p \in RequestMap
  BY <1>2, QueueReqType
<1>4. AtRest(req, base, net, r)
  BY <1>2, RestFacts
<1>5. ASSUME NEW x \in Requests
      PROVE  /\ Marks(req[x], req'[x])
             /\ req'[x].state = IF x = r THEN "QUEUED" ELSE req[x].state
             /\ req'[x].next = IF x = base.last THEN r ELSE req[x].next
             /\ req'[x].tx = req[x].tx
             /\ req'[x].scheduled = req[x].scheduled
  <2>. HIDE DEF p
  <2>1. /\ Marks(p[x], req'[x]) /\ req'[x].state = p[x].state
        /\ req'[x].next = p[x].next /\ req'[x].tx = p[x].tx
        /\ req'[x].scheduled = p[x].scheduled
    <3>1. PICK d : req' = [p EXCEPT ![r] = [p[r] EXCEPT !.complete = FALSE,
                                                       !.deadline = d]]
      BY <1>1
    <3>2. CASE x # r
      BY <3>1, <3>2, <1>3 DEF Marks, RequestMap
    <3>3. CASE x = r
      <4>1. req'[x] = [p[r] EXCEPT !.complete = FALSE, !.deadline = d]
        BY <3>1, <3>3, <1>3 DEF RequestMap
      <4>2. p[r] \in RequestRecord
        BY <1>3 DEF RequestMap
      <4>. QED BY <3>3, <4>1, <4>2 DEF Marks, RequestRecord
    <3>. QED BY <3>2, <3>3
  <2>. QED BY <1>2, <2>1, QueueFields DEF p, Marks
<1>6. f \in Frame /\ f.op = "submitted"
  <2>1. Call("submitted", r) \in Frame
    BY RequestCallType DEF Ops, ObservedOps
  <2>2. req[r].complete \in BOOLEAN
    BY <1>2 DEF RequestMap, RequestRecord
  <2>. QED BY <2>1, <2>2 DEF Frame, Call
<1>. HIDE DEF f, p
<1>7. /\ base'.active = base.active \cup {r} /\ base'.pending = base.pending
      /\ base'.block = base.block /\ base'.last = r
      /\ base'.first = IF base.last = None THEN r ELSE base.first
  <2>1. QueueBase(base, r) \in BaseRecord
    BY <1>2, QueueBaseType
  <2>2. /\ QueueBase(base, r).active = base.active
        /\ QueueBase(base, r).pending = base.pending
        /\ QueueBase(base, r).block = base.block /\ QueueBase(base, r).last = r
        /\ QueueBase(base, r).first = IF base.last = None THEN r ELSE base.first
    BY <1>2, QueueTables
  <2>. QED BY <1>1, <2>1, <2>2 DEF BaseRecord
<1>8. r \notin base.pending /\ r \notin base.active /\ base.block # r
  BY <1>1, <1>4 DEF AtRest, Underway
<1>9. /\ req[r].sends = 0 /\ req[r].calls = 0 /\ ~req[r].freed /\ ~req[r].dropped
      /\ \A t \in net.answers : t[1] # r
      /\ \A t \in net.outstanding : t[1] # r
  BY <1>1, <1>4 DEF AtRest, Terminal, States, Live
<1>10. AtRest(req', base', net', r)
  BY <1>1, <1>4, <1>5, <1>7, <1>8, <1>9 DEF AtRest, Marks, Underway
<1>11. \A x \in Requests \ {r} : /\ RequestAt(req, req', x)
                                 /\ req'[x].serial2 = req[x].serial2
                                 /\ WireAt(net, net', x)
  BY <1>1, <1>5 DEF RequestAt, Marks, WireAt
<1>12. ~Overdue(req', net', Calls(<<Call("start", None), f>>), r)
  <2>1. <<r, KeyOf(req', r)>>[1] = r
    OBVIOUS
  <2>. QED BY <1>1, <1>9, <2>1 DEF Overdue
<1>13. base'.pending = base.pending \ {r}
  BY <1>7, <1>8
<1>14. /\ <<Call("start", None), f>> \in Frames
       /\ \A h \in Calls(<<Call("start", None), f>>) : Smooth(h) /\ Aside(h)
       /\ ToStart(Calls(<<Call("start", None), f>>))
  BY <1>6, StartCalls DEF TailOps
<1>15. req[r].state # "QUEUED" /\ req'[r].state = "QUEUED" /\ UNCHANGED link
  BY <1>1, <1>5
<1>16. \A x \in Requests :
         req'[x].next = IF x = base.last THEN r ELSE req[x].next
  BY <1>5
<1>. QED BY <1>1, <1>2, <1>15, <1>16, <1>7, <1>10, <1>11, <1>12, <1>13, <1>14, QueueStep

\* queue_request after cancel_request.
LEMMA RequeueFields ==
  ASSUME TypeOK, NEW r \in Requests, NEW x \in Requests
  PROVE  LET p == QueueReq(CancelReq(req, r), base, r)
         IN  /\ p \in RequestMap
             /\ Marks(req[x], p[x])
             /\ p[x].state = IF x = r THEN "QUEUED" ELSE req[x].state
             /\ p[x].next = IF x = base.last THEN r ELSE req[x].next
             /\ x # r => p[x].tx = req[x].tx /\ p[x].scheduled = req[x].scheduled
             /\ x = r => p[x].scheduled = 0
<1>. DEFINE q == CancelReq(req, r)
            p == QueueReq(q, base, r)
<1>1. q \in RequestMap /\ req \in RequestMap
  BY CancelReqType DEF TypeOK, RequestMap
<1>2. /\ Marks(req[x], q[x]) /\ q[x].state = req[x].state /\ q[x].next = req[x].next
      /\ x # r => q[x].tx = req[x].tx /\ q[x].scheduled = req[x].scheduled
      /\ x = r => q[x].scheduled = 0
  BY <1>1, CancelFields DEF Marks
<1>. HIDE DEF q
<1>3. p \in RequestMap
  BY <1>1, QueueReqType
<1>4. /\ Marks(q[x], p[x])
      /\ p[x].state = IF x = r THEN "QUEUED" ELSE q[x].state
      /\ p[x].next = IF x = base.last THEN r ELSE q[x].next
      /\ p[x].tx = q[x].tx /\ p[x].scheduled = q[x].scheduled
  BY <1>1, QueueFields
<1>. HIDE DEF p
<1>5. Marks(req[x], p[x])
  BY <1>2, <1>4 DEF Marks
<1>. QED BY <1>2, <1>3, <1>4, <1>5 DEF p, q

\* cancel_request ends the transaction of the request.
LEMMA CancelNetFields ==
  ASSUME TypeOK, NEW r \in Requests
  PROVE  /\ CancelNet(req, r).answers = net.answers
         /\ CancelNet(req, r).outstanding = net.outstanding \ {<<r, req[r].tx>>}
         /\ CancelNet(req, r) \in NetRecord
<1>1. net \in NetRecord
  BY DEF TypeOK
<1>2. CancelNet(req, r) \in NetRecord
  BY <1>1, CancelNetType
<1>. QED BY <1>1, <1>2 DEF CancelNet, NetRecord

\* A request that waits for its answer goes back into the queue.
LEMMA RequeueStep ==
  ASSUME TypeOK, Tables, Idle, NEW fs \in Frames, Enter(fs),
         \A f \in Calls(fs) : Smooth(f) /\ Aside(f), ToStart(Calls(fs)),
         NEW r \in Requests, req[r].state = "PENDING",
         \A x \in Requests \ {r} :
           /\ Marks(req[x], req'[x]) /\ req'[x].state = req[x].state
           /\ req'[x].tx = req[x].tx,
         \A x \in Requests :
           req'[x].next = IF x = base.last THEN r ELSE req[x].next,
         req'[r].state = "QUEUED", req'[r].retries = req[r].retries + 1,
         req'[r].registered = req[r].registered, req'[r].dropped = req[r].dropped,
         req'[r].freed = req[r].freed, req'[r].held = req[r].held,
         req'[r].sends = req[r].sends, req'[r].calls = req[r].calls,
         base' = [QueueBase(base, r) EXCEPT !.pending = @ \ {r}],
         net'.outstanding = net.outstanding \ {<<r, req[r].tx>>},
         net'.answers \subseteq net.answers,
         Overdue(req', net', Calls(fs), r) => Prompt /\ req'[r].scheduled = 0,
         UNCHANGED link
  PROVE  Tables'
<1>1. /\ req \in RequestMap /\ base \in BaseRecord /\ net \in NetRecord
  BY DEF TypeOK, RequestMap
<1>2. AtRest(req, base, net, r)
  BY RestFacts
<1>3. /\ base'.active = base.active /\ base'.pending = base.pending \ {r}
      /\ base'.block = base.block /\ base'.last = r
      /\ base'.first = IF base.last = None THEN r ELSE base.first
  <2>1. QueueBase(base, r) \in BaseRecord
    BY <1>1, QueueBaseType
  <2>2. /\ QueueBase(base, r).active = base.active
        /\ QueueBase(base, r).pending = base.pending
        /\ QueueBase(base, r).block = base.block /\ QueueBase(base, r).last = r
        /\ QueueBase(base, r).first = IF base.last = None THEN r ELSE base.first
    BY <1>1, QueueTables
  <2>. QED BY <2>1, <2>2 DEF BaseRecord
<1>4. /\ r \in base.pending /\ r \in base.active
      /\ req[r].sends = req[r].retries + 1
      /\ req[r].calls = 0 /\ ~req[r].dropped /\ req[r].registered /\ ~req[r].freed
  BY <1>2 DEF AtRest, Underway, Terminal, States, Live
<1>5. \A t \in net'.outstanding : t[1] # r
  <2>1. ASSUME NEW t \in net'.outstanding, t[1] = r
        PROVE  FALSE
    <3>1. t \in net.outstanding /\ t # <<r, req[r].tx>>
      BY <2>1
    <3>2. t = <<t[1], t[2]>>
      BY <1>1, <3>1 DEF NetRecord, Transmissions
    <3>3. req[r].tx = t[2]
      BY <1>2, <2>1, <3>1 DEF AtRest
    <3>. QED BY <2>1, <3>1, <3>2, <3>3
  <2>. QED BY <2>1
<1>6. AtRest(req', base', net', r)
  <2>1. \A t \in net'.answers : t[1] = r => req'[r].sends # 0
    BY <1>2 DEF AtRest
  <2>2. req[r].retries \in Nat
    BY <1>1 DEF RequestMap, RequestRecord
  <2>. QED BY <1>2, <1>3, <1>4, <1>5, <2>1, <2>2 DEF AtRest, Underway
<1>7. ASSUME NEW x \in Requests \ {r}
      PROVE  /\ RequestAt(req, req', x) /\ req'[x].serial2 = req[x].serial2
             /\ WireAt(net, net', x)
  BY <1>7 DEF RequestAt, Marks, WireAt
<1>8. link.connected /\ ~link.dead
  BY <1>4, RestFacts DEF Up
<1>9. base'.active = base.active \cup {r} /\ req[r].state # "QUEUED"
  BY <1>3, <1>4
<1>. QED BY <1>3, <1>6, <1>7, <1>8, <1>9, QueueStep

\* A user retries a request.
LEMMA TablesRetry ==
  ASSUME TypeOK, Tables, "retry" \notin UserCalls \/ Prompt,
         NEW r \in Requests, Retry(r)
  PROVE  Tables'
<1>. DEFINE p == QueueReq(CancelReq(req, r), base, r)
            f == Call("retried", r)
<1>1. /\ Prompt /\ UserTurn /\ req[r].state = "PENDING"
      /\ req' = [p EXCEPT ![r].retries = @ + 1]
      /\ base' = [QueueBase(base, r) EXCEPT !.pending = @ \ {r}]
      /\ net' = CancelNet(req, r)
      /\ Enter(<<Call("start", None), f>>) /\ UNCHANGED link
  BY Zenon DEF Retry
<1>2. Idle
  BY <1>1, UsersIdle
<1>3. p \in RequestMap
  BY RequeueFields
<1>4. \A x \in Requests :
        /\ Marks(req[x], p[x])
        /\ p[x].state = IF x = r THEN "QUEUED" ELSE req[x].state
        /\ p[x].next = IF x = base.last THEN r ELSE req[x].next
        /\ x # r => p[x].tx = req[x].tx
        /\ x = r => p[x].scheduled = 0
  BY RequeueFields
<1>5. f \in Frame /\ f.op = "retried"
  BY RequestCallType DEF Ops, ObservedOps, Call
<1>. HIDE DEF f, p
<1>6. /\ <<Call("start", None), f>> \in Frames
      /\ \A h \in Calls(<<Call("start", None), f>>) : Smooth(h) /\ Aside(h)
      /\ ToStart(Calls(<<Call("start", None), f>>))
  BY <1>5, StartCalls DEF TailOps
<1>7. p[r] \in RequestRecord /\ p[r].retries = req[r].retries
  BY <1>3, <1>4 DEF RequestMap, Marks
<1>8. req'[r] = [p[r] EXCEPT !.retries = p[r].retries + 1]
      /\ \A x \in Requests : x # r => req'[x] = p[x]
  BY <1>1, <1>3 DEF RequestMap
<1>9. /\ Marks(p[r], [p[r] EXCEPT !.retries = p[r].retries])
      /\ req'[r].state = p[r].state /\ req'[r].next = p[r].next
      /\ req'[r].scheduled = p[r].scheduled
      /\ req'[r].retries = p[r].retries + 1
      /\ req'[r].registered = p[r].registered /\ req'[r].dropped = p[r].dropped
      /\ req'[r].freed = p[r].freed /\ req'[r].held = p[r].held
      /\ req'[r].sends = p[r].sends /\ req'[r].calls = p[r].calls
  BY <1>7, <1>8 DEF Marks, RequestRecord
<1>10. /\ \A x \in Requests \ {r} :
            /\ Marks(req[x], req'[x]) /\ req'[x].state = req[x].state
            /\ req'[x].tx = req[x].tx
       /\ \A x \in Requests :
            req'[x].next = IF x = base.last THEN r ELSE req[x].next
       /\ req'[r].state = "QUEUED" /\ req'[r].retries = req[r].retries + 1
       /\ req'[r].registered = req[r].registered
       /\ req'[r].dropped = req[r].dropped
       /\ req'[r].freed = req[r].freed /\ req'[r].held = req[r].held
       /\ req'[r].sends = req[r].sends /\ req'[r].calls = req[r].calls
       /\ req'[r].scheduled = 0
  <2>1. ASSUME NEW x \in Requests \ {r}
        PROVE  /\ Marks(req[x], req'[x]) /\ req'[x].state = req[x].state
               /\ req'[x].tx = req[x].tx
               /\ req'[x].next = IF x = base.last THEN r ELSE req[x].next
    BY <1>4, <1>8
  <2>2. Marks(req[r], p[r]) /\ p[r].state = "QUEUED" /\ p[r].scheduled = 0
        /\ p[r].next = IF r = base.last THEN r ELSE req[r].next
    BY <1>4
  <2>. QED BY <1>9, <2>1, <2>2 DEF Marks
<1>11. /\ net'.outstanding = net.outstanding \ {<<r, req[r].tx>>}
       /\ net'.answers \subseteq net.answers
  BY <1>1, CancelNetFields
<1>. QED BY <1>1, <1>2, <1>6, <1>10, <1>11, RequeueStep

\* An answer that is found is the answer of a request that waits for it.
LEMMA FoundPending ==
  ASSUME TypeOK, Tables, Idle, NEW m \in net.answers, Found(m)
  PROVE  /\ m[1] \in Requests /\ req[m[1]].state = "PENDING"
         /\ m = <<m[1], KeyOf(req, m[1])>>
<1>. DEFINE r == m[1]
<1>1. r \in Requests /\ m = <<m[1], m[2]>>
  BY DEF TypeOK, NetRecord, Transmissions
<1>2. r \in base.active /\ KeyOf(req, r) = m[2]
  BY DEF Found, Key, KeyOf
<1>3. req[r].state \in Underway
  BY <1>1, <1>2, RestFacts DEF AtRest
<1>4. m = <<r, KeyOf(req, r)>>
  BY <1>1, <1>2
<1>5. req[r].state # "QUEUED"
  <2>1. ~Overdue(req, net, Calls(stack), r)
    BY <1>1, RestFacts
  <2>2. r \notin Waiting(req, Calls(stack))
    BY <1>4, <2>1 DEF Overdue
  <2>3. Waiting(req, Calls(stack)) = Queued(req)
    BY RestFacts
  <2>. QED BY <1>1, <2>2, <2>3 DEF Queued
<1>. QED BY <1>1, <1>3, <1>4, <1>5 DEF Underway

\* The retry function wants another attempt.
LEMMA TablesRespondRetry ==
  ASSUME TypeOK, Tables, RespondRetry
  PROVE  Tables'
<1>1. PICK m \in net.answers :
        LET r == m[1]
            q == CancelReq(req, r)
        IN  /\ Found(m)
            /\ req' = [QueueReq(q, base, r) EXCEPT
                         ![r] = [@ EXCEPT !.retries = q[r].retries + 1,
                                          !.scheduled = now + RetryDelay]]
            /\ base' = [QueueBase(base, r) EXCEPT !.pending = @ \ {r}]
            /\ net' = [CancelNet(req, r) EXCEPT !.answers = @ \ {m}]
  BY Zenon DEF RespondRetry
<1>. DEFINE r == m[1]
            q == CancelReq(req, r)
            p == QueueReq(q, base, r)
            f == Call("reset", None)
            k == q[r].retries + 1
            d == now + RetryDelay
<1>2. /\ Idle /\ UNCHANGED link /\ Enter(<<Call("start", None), f>>)
  BY DEF RespondRetry, EventTurn
<1>3. r \in Requests /\ req[r].state = "PENDING" /\ m = <<r, KeyOf(req, r)>>
  BY <1>1, <1>2, FoundPending
<1>4. /\ req' = [p EXCEPT ![r] = [p[r] EXCEPT !.retries = k, !.scheduled = d]]
      /\ base' = [QueueBase(base, r) EXCEPT !.pending = @ \ {r}]
      /\ net' = [CancelNet(req, r) EXCEPT !.answers = @ \ {m}]
  BY <1>1
<1>5. k = req[r].retries + 1
  <2>1. req \in RequestMap
    BY DEF TypeOK, RequestMap
  <2>. QED BY <1>3, <2>1, CancelFields DEF Marks
<1>. HIDE DEF r
<1>6. p \in RequestMap
  BY <1>3, RequeueFields
<1>7. \A x \in Requests :
        /\ Marks(req[x], p[x])
        /\ p[x].state = IF x = r THEN "QUEUED" ELSE req[x].state
        /\ p[x].next = IF x = base.last THEN r ELSE req[x].next
        /\ x # r => p[x].tx = req[x].tx
  BY <1>3, RequeueFields
<1>8. f \in Frame /\ f.op = "reset"
  BY PlainFrames DEF Call
<1>. HIDE DEF f, p, q, k, d
<1>9. /\ <<Call("start", None), f>> \in Frames
      /\ \A h \in Calls(<<Call("start", None), f>>) : Smooth(h) /\ Aside(h)
      /\ ToStart(Calls(<<Call("start", None), f>>))
  BY <1>8, StartCalls DEF TailOps
<1>10. /\ p[r] \in RequestRecord
       /\ req'[r] = [p[r] EXCEPT !.retries = k, !.scheduled = d]
       /\ \A x \in Requests : x # r => req'[x] = p[x]
  BY <1>3, <1>4, <1>6 DEF RequestMap
<1>11. /\ req'[r].state = p[r].state /\ req'[r].next = p[r].next
       /\ req'[r].retries = k /\ req'[r].serial2 = p[r].serial2
       /\ req'[r].registered = p[r].registered /\ req'[r].dropped = p[r].dropped
       /\ req'[r].freed = p[r].freed /\ req'[r].held = p[r].held
       /\ req'[r].sends = p[r].sends /\ req'[r].calls = p[r].calls
  BY <1>10 DEF RequestRecord
<1>12. /\ \A x \in Requests \ {r} :
            /\ Marks(req[x], req'[x]) /\ req'[x].state = req[x].state
            /\ req'[x].tx = req[x].tx
       /\ \A x \in Requests :
            req'[x].next = IF x = base.last THEN r ELSE req[x].next
       /\ req'[r].state = "QUEUED" /\ req'[r].retries = req[r].retries + 1
       /\ req'[r].registered = req[r].registered
       /\ req'[r].dropped = req[r].dropped
       /\ req'[r].freed = req[r].freed /\ req'[r].held = req[r].held
       /\ req'[r].sends = req[r].sends /\ req'[r].calls = req[r].calls
       /\ req'[r].serial2 = req[r].serial2
  <2>1. ASSUME NEW x \in Requests \ {r}
        PROVE  /\ Marks(req[x], req'[x]) /\ req'[x].state = req[x].state
               /\ req'[x].tx = req[x].tx
               /\ req'[x].next = IF x = base.last THEN r ELSE req[x].next
    BY <1>7, <1>10
  <2>2. Marks(req[r], p[r]) /\ p[r].state = "QUEUED"
        /\ p[r].next = IF r = base.last THEN r ELSE req[r].next
    BY <1>3, <1>7
  <2>. QED BY <1>3, <1>5, <1>11, <2>1, <2>2 DEF Marks
<1>13. /\ net'.outstanding = net.outstanding \ {<<r, req[r].tx>>}
       /\ net'.answers = net.answers \ {m}
  BY <1>3, <1>4, CancelNetFields DEF NetRecord
<1>14. ~Overdue(req', net', Calls(<<Call("start", None), f>>), r)
  BY <1>3, <1>12, <1>13 DEF Overdue, KeyOf
<1>. QED BY <1>2, <1>3, <1>4, <1>9, <1>12, <1>13, <1>14, RequeueStep

\* Calls of this kind can be made one after the other.
LEMMA SmoothSimply ==
  ASSUME NEW fs, \A f \in Calls(fs) : Smooth(f)
  PROVE  Simply(fs)
<1>1. \A i \in DOMAIN fs : fs[i] \in Calls(fs)
  BY DEF Calls
<1>2. ASSUME NEW f, NEW h, Smooth(f), Smooth(h)
      PROVE  ~Crosses(f, h)
  BY <1>2 DEF Smooth, Simple, Crosses, Lists
<1>. QED BY <1>1, <1>2 DEF Simply, Smooth

\* A handler is about one request.
LEMMA OneConcern ==
  ASSUME NEW f, ~Lists(f), NEW x, f.r # x
  PROVE  ~Concerns(f, x)
BY DEF Concerns

-----------------------------------------------------------------------------
(***************************************************************************)
(* Answers.                                                                *)
(***************************************************************************)

\* The transaction in flight that r knows is the only one of r.
LEMMA OnlyTransaction ==
  ASSUME TypeOK, NEW r \in Requests, AtRest(req, base, net, r),
         NEW t \in net.outstanding, t[1] = r
  PROVE  t = <<r, req[r].tx>> /\ req[r].state = "PENDING"
<1>1. t = <<t[1], t[2]>>
  BY DEF TypeOK, NetRecord, Transmissions
<1>. QED BY <1>1 DEF AtRest

\* The answer completes the request.
LEMMA TablesRespondDone ==
  ASSUME TypeOK, Tables, MaxDepth = 0, RespondDone
  PROVE  Tables'
<1>1. PICK m \in net.answers :
        LET r == m[1]
            q == [CancelReq(req, r) EXCEPT ![r].state = "DONE"]
            b == DeactivateBase(q, base, r)
        IN  /\ Found(m)
            /\ req' = q
            /\ base' = MoveOwnerQueue(q, b)
            /\ net' = [CancelNet(req, r) EXCEPT !.answers = @ \ {m}]
            /\ Enter((IF MovesOwner(q, b) THEN Callback(None) ELSE <<>>)
                     \o <<Call("done", r), Call("start", None),
                          Call("reset", None)>>)
  BY Zenon DEF RespondDone
<1>. DEFINE r == m[1]
            p == CancelReq(req, r)
            q == [p EXCEPT ![r].state = "DONE"]
            b == DeactivateBase(q, base, r)
            d == Call("done", r)
            f == Call("start", None)
            h == Call("reset", None)
            fs == <<d, f, h>>
<1>2. /\ Idle /\ UNCHANGED link
  BY DEF RespondDone, EventTurn
<1>3. r \in Requests /\ req[r].state = "PENDING" /\ m = <<r, KeyOf(req, r)>>
  BY <1>1, <1>2, FoundPending
<1>4. /\ req' = q /\ base' = MoveOwnerQueue(q, b)
      /\ net' = [CancelNet(req, r) EXCEPT !.answers = @ \ {m}]
      /\ Enter((IF MovesOwner(q, b) THEN Callback(None) ELSE <<>>) \o fs)
  BY <1>1
<1>. HIDE DEF r
<1>5. d \in Frame /\ f \in Frame /\ h \in Frame
  BY <1>3, PlainFrames, RequestCallType DEF Ops, ObservedOps
<1>6. d.op = "done" /\ d.r = r /\ f.op = "start" /\ h.op = "reset" /\ f.r = None /\ h.r = None
  BY DEF Call
<1>7. Smooth(f) /\ Smooth(h) /\ Aside(f) /\ Aside(h)
  BY TailNames DEF TailOps
<1>8. Smooth(d)
  <2>. HIDE DEF d
  <2>. QED BY <1>6 DEF Smooth, Simple, Steady
<1>. HIDE DEF d, f, h
<1>9. fs \in Frames /\ Calls(fs) = {d, f, h}
  BY <1>5, CallsOf, FramesType
<1>10. Enter(fs)
  <2>. HIDE DEF fs
  <2>. QED BY <1>4, <1>9, NoHandler, NoneFirst
<1>11. Simply(fs)
  BY <1>7, <1>8, <1>9, SmoothSimply
<1>. HIDE DEF fs
<1>12. req \in RequestMap /\ base \in BaseRecord /\ net \in NetRecord
  BY DEF TypeOK, RequestMap
<1>13. /\ p \in RequestMap
       /\ \A x \in Requests : x # r => p[x] = req[x]
       /\ Marks(req[r], p[r]) /\ p[r].next = req[r].next
  BY <1>3, <1>12, CancelFields, CancelReqType
<1>. HIDE DEF p
<1>14. /\ \A x \in Requests : x # r => q[x] = p[x]
       /\ q[r].state = "DONE" /\ q[r].next = p[r].next
       /\ Marks(p[r], q[r])
  BY <1>3, <1>13 DEF Marks, RequestMap, RequestRecord
<1>15. q \in RequestMap
  BY <1>3, <1>13, StateType DEF States
<1>16. /\ \A x \in Requests : x # r => req'[x] = req[x]
       /\ \A x \in Requests : req'[x].next = req[x].next
       /\ req'[r].state = "DONE" /\ Marks(req[r], req'[r])
  BY <1>3, <1>4, <1>13, <1>14 DEF Marks
<1>17. ~Dequeues(q, base, r)
  BY <1>14 DEF Dequeues
<1>. HIDE DEF q
<1>18. b \in BaseRecord
  BY <1>3, <1>12, <1>15, DeactivateBaseType
<1>19. /\ b.active = base.active \ {r} /\ b.pending = base.pending \ {r}
       /\ b.block = IF base.block = r THEN None ELSE base.block
       /\ b.first = base.first /\ b.last = base.last
  BY <1>3, <1>12, <1>15, <1>17, DeactivateTables
<1>. HIDE DEF b
<1>20. /\ base'.active = base.active \ {r} /\ base'.pending = base.pending \ {r}
       /\ base'.block = IF base.block = r THEN None ELSE base.block
       /\ base'.first = base.first /\ base'.last = base.last
  <2>1. SameTables(b, base')
    BY <1>4, <1>18, MoveOwnerFields
  <2>. QED BY <1>19, <2>1 DEF SameTables
<1>21. /\ net'.outstanding = net.outstanding \ {<<r, req[r].tx>>}
       /\ net'.answers = net.answers \ {m}
  BY <1>3, <1>4, CancelNetFields DEF NetRecord
<1>22. AtRest(req, base, net, r)
  BY <1>2, <1>3, RestFacts
<1>23. \A t \in net'.outstanding : t[1] # r
  BY <1>3, <1>21, <1>22, OnlyTransaction
<1>24. ASSUME NEW x \in Requests \ {r}
       PROVE  /\ RequestAt(req, req', x) /\ TablesAt(base, base', x)
              /\ WireAt(net, net', x) /\ req'[x].serial2 = req[x].serial2
              /\ NoRoles(Calls(fs), x)
              /\ \A c \in Calls(fs) : ~Concerns(c, x)
  <2>1. RequestAt(req, req', x) /\ req'[x].serial2 = req[x].serial2
    BY <1>16, <1>24 DEF RequestAt
  <2>2. TablesAt(base, base', x)
    BY <1>20, <1>24, ConstantsAssumption DEF TablesAt
  <2>3. WireAt(net, net', x)
    BY <1>21 DEF WireAt
  <2>4. ~Concerns(d, x) /\ ~Concerns(f, x) /\ ~Concerns(h, x)
    BY <1>6, <1>7, <1>24, AsideConcerns, OneConcern DEF Lists
  <2>. QED BY <1>9, <2>1, <2>2, <2>3, <2>4, NoConcern
<1>25. /\ ~DropDue(Calls(fs), r) /\ ~Leaving(Calls(fs), r)
       /\ ~Unregisters(Calls(fs), r) /\ ~Finishing(Calls(fs), r)
       /\ ~Stolen(Calls(fs), r) /\ ~Ending(Calls(fs), r)
  BY <1>6, <1>9 DEF DropDue, Leaving, Unregisters, Finishing, Stolen, Ending
<1>26. r \notin Waiting(req', Calls(fs))
  BY <1>16 DEF Waiting
<1>27. Placed(req', base', net', Calls(fs), r)
  <2>1. /\ r \notin base'.active /\ r \notin base'.pending /\ base'.block # r
        /\ req[r].registered /\ ~req[r].dropped /\ ~req[r].freed
    BY <1>3, <1>20, <1>22, ConstantsAssumption DEF AtRest, Underway
  <2>2. Off(req', base', Calls(fs), r)
    BY <1>25, <1>26, <2>1 DEF Off
  <2>3. Tabled(req', base', Calls(fs), r)
    BY <1>16, <2>1 DEF Tabled, Underway
  <2>4. Claimed(req', Calls(fs), r)
    BY <1>16, <1>25 DEF Claimed
  <2>5. Detached(req', base', Calls(fs), r)
    BY <1>16, <1>25, <2>1, <2>2 DEF Detached, Marks
  <2>6. Counted(req', Calls(fs), r)
    BY <1>16, <1>22, <1>26 DEF Counted, AtRest, Marks, Terminal, States, Live
  <2>7. Wired(req', net', Calls(fs), r)
    BY <1>16, <1>21, <1>22, <1>23 DEF Wired, AtRest, Marks
  <2>. QED BY <2>3, <2>4, <2>5, <2>6, <2>7 DEF Placed
<1>28. \A x \in Requests : x \in Waiting(req', Calls(fs)) <=> x \in Queued(req)
  <2>1. ASSUME NEW x \in Requests \ {r}
        PROVE  x \in Waiting(req', Calls(fs)) <=> x \in Queued(req)
    BY <1>24, AtRestPlaced DEF Queued, RequestAt
  <2>. QED BY <1>3, <1>26, <2>1 DEF Queued
<1>29. Lined(req', base', Waiting(req', Calls(fs)))
  <2>1. PICK n, s : Row(req, base, Queued(req), n, s)
    BY <1>2, RestFacts DEF Lined
  <2>. DEFINE V == Waiting(req', Calls(fs))
  <2>. HIDE DEF V
  <2>2. \A x \in Requests : x \in V <=> x \in Queued(req)
    BY <1>28 DEF V
  <2>3. Row(req', base', V, n, s)
    BY <1>16, <1>20, <2>1, <2>2, RowKept
  <2>. QED BY <2>3 DEF Lined, V
<1>30. Promptly(req', net', link', Calls(fs))
  <2>1. ASSUME NEW x \in Requests, Overdue(req', net', Calls(fs), x)
        PROVE  FALSE
    <3>1. x # r
      BY <1>26, <2>1 DEF Overdue
    <3>. QED BY <1>2, <1>24, <2>1, <3>1, IdleOverdue DEF RequestAt
  <2>. QED BY <2>1 DEF Promptly
<1>31. /\ link'.dead => ~link'.connected
       /\ Blocking = {} => base'.block = None
       /\ Up(base', link')
  BY <1>2, <1>20, RestFacts DEF Up
<1>32. /\ {r} \in SUBSET Requests
       /\ \A x \in Requests \ {r} : /\ RequestAt(req, req', x)
                                  /\ TablesAt(base, base', x) /\ WireAt(net, net', x)
                                  /\ \A c \in Calls(fs) : ~Concerns(c, x)
       /\ \A x \in {r} : Placed(req', base', net', Calls(fs), x)
  BY <1>3, <1>24, <1>27
<1>. QED BY <1>2, <1>9, <1>10, <1>11, <1>29, <1>30, <1>31, <1>32, IdleStep

-----------------------------------------------------------------------------
(***************************************************************************)
(* Cancelled requests.                                                     *)
(***************************************************************************)

\* What radio_request_object_cancel changes, but for its calls.
Cancels(r) ==
  /\ \A x \in Requests : x # r => req'[x] = req[x]
  /\ req'[r].state = req[r].state /\ req'[r].registered = req[r].registered
  /\ req'[r].freed = req[r].freed /\ req'[r].held = req[r].held
  /\ req'[r].sends = req[r].sends /\ req'[r].retries = req[r].retries
  /\ req'[r].calls = req[r].calls /\ req'[r].serial2 = req[r].serial2
  /\ req'[r].next = req[r].next /\ req'[r].dropped
  /\ net' = CancelNet(req, r) /\ base' = base

\* radio_request_object_cancel, alone or followed by that of the user, does that.
LEMMA CancelsRequest ==
  ASSUME TypeOK, NEW r \in Requests,
         \/ req' = ObjectCancelReq(req, r)
         \/ req' = Withdraw(ObjectCancelReq(req, r), r),
         net' = CancelNet(req, r), UNCHANGED base
  PROVE  Cancels(r)
<1>. DEFINE c == CancelReq(req, r)
            o == ObjectCancelReq(req, r)
            u == Withdraw(o, r)
<1>0. req \in RequestMap
  BY DEF TypeOK, RequestMap
<1>1. c \in RequestMap /\ Marks(req[r], c[r])
  BY <1>0, CancelFields, CancelReqType
<1>2. o = [c EXCEPT ![r] = [@ EXCEPT !.dropped = TRUE,
                             !.group = IF req[r].dropped THEN req[r].group ELSE None]]
  BY DEF ObjectCancelReq
<1>3. o \in RequestMap
  BY <1>0, ObjectCancelReqType
<1>4. u = [o EXCEPT ![r] = [@ EXCEPT !.complete = FALSE]]
  BY DEF Withdraw
<1>5. /\ \A x \in Requests : x # r => o[x] = req[x]
      /\ \A x \in Requests : x # r => u[x] = req[x]
      /\ o[r].calls = req[r].calls /\ u[r].calls = req[r].calls
      /\ o[r].freed = req[r].freed /\ u[r].freed = req[r].freed
      /\ o[r].held = req[r].held /\ u[r].held = req[r].held
      /\ o[r].state = req[r].state /\ u[r].state = req[r].state
      /\ o[r].next = req[r].next /\ u[r].next = req[r].next
      /\ o[r].dropped /\ u[r].dropped
  BY <1>0, WithdrawFields
<1>. HIDE DEF c, o, u
<1>6. /\ o[r].registered = c[r].registered /\ o[r].sends = c[r].sends
      /\ o[r].retries = c[r].retries /\ o[r].serial2 = c[r].serial2
  BY <1>1, <1>2 DEF RequestMap, RequestRecord
<1>7. /\ u[r].registered = o[r].registered /\ u[r].sends = o[r].sends
      /\ u[r].retries = o[r].retries /\ u[r].serial2 = o[r].serial2
  BY <1>3, <1>4 DEF RequestMap, RequestRecord
<1>8. req' = o \/ req' = u
  BY DEF o, u
<1>. QED BY <1>1, <1>5, <1>6, <1>7, <1>8 DEF Cancels, Marks

\* The calls of a cancellation.
LEMMA CancelCalls ==
  ASSUME NEW q \in RequestMap, NEW r \in Requests
  PROVE  LET fs == ObjectCancelCalls(q, r)
             d == Call("drop", r)
             n == Call("unregister", r)
         IN  /\ fs \in Frames /\ n \in Calls(fs)
             /\ \A f \in Calls(fs) : f = d \/ f = n
             /\ d \in Calls(fs) <=> ~q[r].dropped /\ q[r].registered
             /\ d.op = "drop" /\ n.op = "unregister" /\ d.r = r /\ n.r = r
             /\ Simply(fs)
<1>. DEFINE d == Call("drop", r)
            n == Call("unregister", r)
            c == IF ~q[r].dropped /\ q[r].registered THEN <<d>> ELSE <<>>
            fs == c \o <<n>>
<1>1. /\ d \in Frame /\ d.op = "drop" /\ d.r = r
      /\ n \in Frame /\ n.op = "unregister" /\ n.r = r
  BY RequestCallType DEF Call, Ops, ObservedOps
<1>2. ObjectCancelCalls(q, r) = fs
  BY DEF ObjectCancelCalls
<1>. HIDE DEF d, n
<1>3. /\ Simple(d) /\ Simple(n) /\ ~Crosses(d, n)
  BY <1>1 DEF Simple, Steady, Crosses, Lists
<1>4. CASE ~q[r].dropped /\ q[r].registered
  <2>1. fs = <<d>> \o <<n>>
    BY <1>4
  <2>. HIDE DEF fs
  <2>2. fs \in Frames /\ Calls(fs) = {d, n}
    <3>1. /\ <<d>> \in Frames /\ Calls(<<d>>) = {d}
          /\ <<n>> \in Frames /\ Calls(<<n>>) = {n}
      BY <1>1, CallsOfOne
    <3>2. /\ <<d>> \o <<n>> \in Frames
          /\ Calls(<<d>> \o <<n>>) = Calls(<<d>>) \cup Calls(<<n>>)
      BY <3>1, CallsOfBoth
    <3>. QED BY <2>1, <3>1, <3>2
  <2>3. \A i, j \in DOMAIN fs : i < j => fs[i] = d /\ fs[j] = n
    <3>1. <<d>> \in Seq(Frame) /\ <<n>> \in Seq(Frame) /\ Len(<<d>>) = 1 /\ Len(<<n>>) = 1
      BY <1>1
    <3>2. /\ DOMAIN (<<d>> \o <<n>>) = 1 .. 2
          /\ (<<d>> \o <<n>>)[1] = d /\ (<<d>> \o <<n>>)[2] = n
      BY <3>1
    <3>3. \A i, j \in 1 .. 2 : i < j => i = 1 /\ j = 2
      OBVIOUS
    <3>4. DOMAIN fs = 1 .. 2 /\ fs[1] = d /\ fs[2] = n
      BY <2>1, <3>2
    <3>. QED BY <3>3, <3>4
  <2>4. Simply(fs)
    BY <1>3, <2>2, <2>3 DEF Simply
  <2>. QED BY <1>1, <1>2, <1>4, <2>2, <2>4 DEF d, n
<1>5. CASE ~(~q[r].dropped /\ q[r].registered)
  <2>1. fs = <<n>>
    <3>1. c = <<>>
      BY <1>5
    <3>2. <<>> \o <<n>> = <<n>>
      OBVIOUS
    <3>. QED BY <3>1, <3>2
  <2>. HIDE DEF fs
  <2>2. fs \in Frames /\ Calls(fs) = {n}
    BY <1>1, <2>1, CallsOfOne
  <2>3. \A i, j \in DOMAIN fs : ~(i < j)
    BY <2>1
  <2>4. Simply(fs)
    BY <1>3, <2>2, <2>3 DEF Simply
  <2>5. d # n
    BY <1>1
  <2>. QED BY <1>1, <1>2, <1>5, <2>2, <2>4, <2>5 DEF d, n
<1>. QED BY <1>4, <1>5

\* Where a cancelled request is.
LEMMA CancelledPlaced ==
  ASSUME TypeOK, NEW r \in Requests, AtRest(req, base, net, r), Cancels(r),
         NEW T, NEW V, T = Calls(ObjectCancelCalls(req, r)) \cup V,
         \A f \in V : ~Concerns(f, r) \/ f.op = "finish",
         Finishing(V, r) => ~req[r].held /\ r \notin base.active
  PROVE  Placed(req', base', net', T, r)
<1>. DEFINE d == Call("drop", r)
            n == Call("unregister", r)
<1>0. req \in RequestMap /\ net \in NetRecord
  BY DEF TypeOK, RequestMap
<1>1. /\ n \in T /\ \A f \in T : f = d \/ f = n \/ f \in V
      /\ ~req[r].dropped /\ req[r].registered => d \in T
      /\ d \in Calls(ObjectCancelCalls(req, r)) => ~req[r].dropped /\ req[r].registered
      /\ d.op = "drop" /\ n.op = "unregister" /\ d.r = r /\ n.r = r
  BY <1>0, CancelCalls
<1>. HIDE DEF d, n
<1>2. \A f \in V : \/ f.op \notin {"drop", "dropped", "unregister", "done"} \/ f.r # r
  BY DEF Concerns, Handling
<1>3. \A f \in V : f.op \in {"expire", "fail"} => r \notin f.refs \cup f.todo
  BY DEF Concerns, Lists
<1>4. /\ Unregisters(T, r) /\ ~Leaving(T, r) /\ ~Answered(T, r)
      /\ ~Stolen(T, r) /\ ~Ending(T, r)
      /\ Finishing(T, r) => Finishing(V, r)
      /\ ~req[r].dropped /\ req[r].registered => DropDue(T, r)
  BY <1>1, <1>2, <1>3
     DEF Unregisters, Leaving, Answered, Stolen, Ending, Finishing, DropDue
<1>5. DropDue(T, r) => ~req[r].dropped /\ req[r].registered
  <2>1. ASSUME NEW f \in T, f.op = "drop", f.r = r
        PROVE  f = d /\ d \in Calls(ObjectCancelCalls(req, r))
    <3>1. f \notin V
      BY <1>2, <2>1
    <3>2. f = d
      BY <1>1, <2>1, <3>1
    <3>. QED BY <2>1, <3>1, <3>2
  <2>. QED BY <1>1, <2>1 DEF DropDue
<1>6. \A t \in net'.outstanding : t[1] # r
  <2>1. net'.outstanding = net.outstanding \ {<<r, req[r].tx>>}
    BY CancelNetFields DEF Cancels
  <2>. QED BY <2>1, OnlyTransaction
<1>7. r \in Waiting(req', T) <=> req[r].state = "QUEUED"
  BY <1>4 DEF Waiting, Out, Cancels
<1>8. r \notin base.active => Off(req', base', T, r)
  BY <1>4, <1>7 DEF Off, Cancels, AtRest, Underway
<1>9. Tabled(req', base', T, r)
  BY <1>4 DEF Tabled, Out, Cancels, AtRest
<1>10. Claimed(req', T, r)
  BY <1>4 DEF Claimed
<1>11. Detached(req', base', T, r)
  BY <1>4, <1>5, <1>8 DEF Detached, Cancels, AtRest
<1>12. Counted(req', T, r)
  BY <1>7 DEF Counted, Cancels, AtRest
<1>13. Wired(req', net', T, r)
  <2>1. net'.answers = net.answers
    BY CancelNetFields DEF Cancels
  <2>. QED BY <1>6, <2>1 DEF Wired, Cancels, AtRest
<1>. QED BY <1>9, <1>10, <1>11, <1>12, <1>13 DEF Placed

\* Other requests are left alone.
LEMMA CancelledOthers ==
  ASSUME TypeOK, NEW r \in Requests, Cancels(r), NEW x \in Requests \ {r}
  PROVE  /\ RequestAt(req, req', x) /\ TablesAt(base, base', x)
         /\ WireAt(net, net', x) /\ req'[x] = req[x]
         /\ \A f \in Calls(ObjectCancelCalls(req, r)) : ~Concerns(f, x)
<1>1. req \in RequestMap
  BY DEF TypeOK, RequestMap
<1>2. req'[x] = req[x] /\ base' = base
  BY DEF Cancels
<1>3. WireAt(net, net', x)
  BY CancelNetFields DEF Cancels, WireAt
<1>4. ASSUME NEW f \in Calls(ObjectCancelCalls(req, r))
      PROVE  ~Lists(f) /\ f.r # x
  BY <1>1, CancelCalls DEF Lists
<1>. QED BY <1>2, <1>3, <1>4, OneConcern DEF RequestAt, TablesAt

\* A user cancels a request.
LEMMA TablesCancel ==
  ASSUME TypeOK, Tables, NEW r \in Requests, Cancel(r)
  PROVE  Tables'
<1>. DEFINE fs == ObjectCancelCalls(req, r)
            T == Calls(fs)
<1>1. /\ Idle /\ UNCHANGED <<base, link>> /\ Enter(fs) /\ Cancels(r)
  BY UsersIdle, CancelsRequest DEF Cancel
<1>2. req \in RequestMap /\ AtRest(req, base, net, r)
  BY <1>1, RestFacts DEF TypeOK, RequestMap
<1>3. fs \in Frames /\ Simply(fs) /\ \A f \in T : f.op \in {"drop", "unregister"}
  BY <1>2, CancelCalls
<1>4. Placed(req', base', net', T, r)
  <2>1. T = T \cup {} /\ ~Finishing({}, r)
    BY DEF Finishing
  <2>. QED BY <1>1, <1>2, <2>1, CancelledPlaced
<1>5. \A x \in Requests \ {r} :
        /\ RequestAt(req, req', x) /\ TablesAt(base, base', x)
        /\ WireAt(net, net', x) /\ req'[x] = req[x]
        /\ \A f \in T : ~Concerns(f, x)
  BY <1>1, CancelledOthers
<1>. HIDE DEF fs
<1>6. ASSUME NEW x \in Requests
      PROVE  x \in Waiting(req', T) <=> x \in Queued(req)
  <2>1. CASE x = r
    BY <1>1, <1>3, <2>1 DEF Waiting, Queued, Out, Leaving, Ending, Cancels
  <2>2. CASE x # r
    BY <1>5, <2>2, NoConcern, AtRestPlaced DEF Queued, RequestAt
  <2>. QED BY <2>1, <2>2
<1>7. Lined(req', base', Waiting(req', Calls(stack')))
      /\ Calls(stack') = T
  <2>1. Calls(stack') = T
    <3>1. Going(fs, Calls(stack)) /\ Calls(stack) = {}
      BY <1>1, IdleCalls DEF Going
    <3>. QED BY <1>3, <3>1, GoingCalls
  <2>2. \A x \in Requests : x \in Waiting(req', Calls(stack'))
                              <=> x \in Waiting(req, Calls(stack))
    BY <1>1, <1>6, <2>1, RestFacts
  <2>3. \A x \in Requests : req'[x].next = req[x].next
    BY <1>1 DEF Cancels
  <2>. QED BY <1>1, <2>1, <2>2, <2>3, LinedKept
<1>8. Promptly(req', net', link', T)
  <2>1. ASSUME NEW x \in Requests, Overdue(req', net', T, x)
        PROVE  FALSE
    <3>1. WireAt(net, net', x)
      BY CancelNetFields, <1>1 DEF Cancels, WireAt
    <3>2. /\ req'[x].serial2 = req[x].serial2
          /\ req'[x].registered = req[x].registered
      BY <1>1, <1>5 DEF Cancels
    <3>3. x \in Waiting(req', T) => x \in Waiting(req, Calls(stack))
      BY <1>1, <1>6, RestFacts
    <3>. QED BY <1>1, <2>1, <3>1, <3>2, <3>3, OverdueKept, RestFacts
  <2>. QED BY <2>1 DEF Promptly
<1>9. /\ link'.dead => ~link'.connected
      /\ Blocking = {} => base'.block = None
      /\ Up(base', link')
  BY <1>1, RestFacts
<1>10. /\ {r} \in SUBSET Requests
       /\ \A x \in Requests \ {r} : /\ RequestAt(req, req', x)
                                  /\ TablesAt(base, base', x) /\ WireAt(net, net', x)
                                  /\ \A c \in Calls(fs) : ~Concerns(c, x)
       /\ \A x \in {r} : Placed(req', base', net', Calls(fs), x)
  BY <1>4, <1>5
<1>11. Lined(req', base', Waiting(req', Calls(fs)))
  BY <1>7
<1>. QED BY <1>1, <1>3, <1>8, <1>9, <1>10, <1>11, IdleStep

-----------------------------------------------------------------------------
(***************************************************************************)
(* Requests that fail.                                                     *)
(***************************************************************************)

\* complete_request, for the fields nothing was said of so far.
LEMMA CompleteFields ==
  ASSUME NEW q \in RequestMap, NEW r \in Requests
  PROVE  /\ CompleteReq(q, r)[r].sends = q[r].sends
         /\ CompleteReq(q, r)[r].retries = q[r].retries
         /\ CompleteReq(q, r)[r].tx = q[r].tx
         /\ CompleteReq(q, r)[r].scheduled = q[r].scheduled
BY DEF CompleteReq, RequestMap, RequestRecord

\* Nor of these of a request that fails.
LEMMA FailFields ==
  ASSUME NEW q \in RequestMap, NEW r \in Requests
  PROVE  /\ FailReq(q, r)[r].sends = q[r].sends
         /\ FailReq(q, r)[r].retries = q[r].retries
         /\ FailReq(q, r)[r].tx = q[r].tx
         /\ FailReq(q, r)[r].scheduled = q[r].scheduled
<1>. DEFINE p == [q EXCEPT ![r].state = "FAILED"]
<1>1. p \in RequestMap
  BY StateType DEF States
<1>2. /\ p[r].sends = q[r].sends /\ p[r].retries = q[r].retries
      /\ p[r].tx = q[r].tx /\ p[r].scheduled = q[r].scheduled
  BY DEF RequestMap, RequestRecord
<1>3. FailReq(q, r) = CompleteReq(p, r)
  BY DEF FailReq
<1>. HIDE DEF p
<1>. QED BY <1>1, <1>2, <1>3, CompleteFields

\* Without handlers, only the call that drops the request is made.
LEMMA FailsAlone ==
  ASSUME TypeOK, MaxDepth = 0, NEW q \in RequestMap, NEW r \in Requests
  PROVE  /\ CompleteCalls(q, r) = <<>>
         /\ FailCalls(q, r) = <<Call("drop", r)>>
<1>1. CompleteCalls(q, r) = <<>>
  BY NoHandler DEF CompleteCalls
<1>2. <<Call("drop", r)>> \in Frames
  BY RequestCallType, FramesType DEF Ops, ObservedOps
<1>. HIDE DEF CompleteCalls
<1>. QED BY <1>1, <1>2, NoneFirst DEF FailCalls

\* What an idle step makes of the queue and of what is overdue, when no
\* request enters or leaves the queue.
LEMMA IdleQueue ==
  ASSUME TypeOK, Tables, Idle, NEW T,
         \A x \in Requests : x \in Waiting(req', T) <=> x \in Queued(req),
         \A x \in Requests : /\ req'[x].next = req[x].next
                             /\ x \in Queued(req) =>
                                  /\ req'[x].serial2 = req[x].serial2
                                  /\ req'[x].registered = req[x].registered,
         base'.first = base.first, base'.last = base.last,
         net'.answers \subseteq net.answers
  PROVE  /\ Lined(req', base', Waiting(req', T))
         /\ Promptly(req', net', link', T)
<1>1. Lined(req', base', Waiting(req', T))
  <2>1. PICK n, s : Row(req, base, Queued(req), n, s)
    BY RestFacts DEF Lined
  <2>. DEFINE V == Waiting(req', T)
  <2>2. \A x \in Requests : x \in V <=> x \in Queued(req)
    OBVIOUS
  <2>. HIDE DEF V
  <2>3. Row(req', base', V, n, s)
    BY <2>1, <2>2, RowKept
  <2>. QED BY <2>3 DEF Lined, V
<1>2. Promptly(req', net', link', T)
  <2>1. ASSUME NEW x \in Requests, Overdue(req', net', T, x)
        PROVE  FALSE
    <3>1. x \in Queued(req) /\ <<x, KeyOf(req', x)>> \in net.answers
      BY <2>1 DEF Overdue
    <3>2. KeyOf(req', x) = KeyOf(req, x)
      BY <3>1 DEF KeyOf
    <3>. QED BY <3>1, <3>2, RestFacts DEF Overdue
  <2>. QED BY <2>1 DEF Promptly
<1>. QED BY <1>1, <1>2

\* The binder transaction of a request ends.
LEMMA TablesSent ==
  ASSUME TypeOK, Tables, MaxDepth = 0, Sent
  PROVE  Tables'
<1>1. PICK t \in net.outstanding :
        LET q == [req EXCEPT ![t[1]].tx = 0]
        IN  \/ /\ req' = q
               /\ net' = [net EXCEPT !.outstanding = @ \ {t}]
               /\ UNCHANGED stack
            \/ /\ "tx" \in Faults
               /\ req' = FailReq(q, t[1])
               /\ net' = [outstanding |-> net.outstanding \ {t},
                          answers |-> net.answers \ {t}]
               /\ Enter(FailCalls(q, t[1]))
  BY Zenon DEF Sent
<1>. DEFINE r == t[1]
            q == [req EXCEPT ![r].tx = 0]
            d == Call("drop", r)
<1>2. Idle /\ UNCHANGED <<base, link>>
  BY DEF Sent, EventTurn
<1>3. /\ req \in RequestMap /\ net \in NetRecord /\ r \in Requests
      /\ t \in net.outstanding
  BY DEF TypeOK, RequestMap, NetRecord, Transmissions
<1>4. /\ q \in RequestMap /\ \A x \in Requests : x # r => q[x] = req[x]
      /\ Marks(req[r], q[r]) /\ q[r].state = req[r].state
      /\ q[r].next = req[r].next
  <2>1. q \in RequestMap
    BY <1>3, FieldType
  <2>. QED BY <1>3, <2>1 DEF RequestMap, RequestRecord, Marks
<1>5. \/ req' = q /\ net' = [net EXCEPT !.outstanding = @ \ {t}] /\ UNCHANGED stack
      \/ /\ req' = FailReq(q, r)
         /\ net' = [outstanding |-> net.outstanding \ {t},
                    answers |-> net.answers \ {t}]
         /\ Enter(FailCalls(q, r))
  BY <1>1
<1>. HIDE DEF r, q
<1>6. /\ net'.outstanding = net.outstanding \ {t}
      /\ net'.answers \subseteq net.answers
  BY <1>3, <1>5 DEF NetRecord
<1>7. /\ AtRest(req, base, net, r) /\ req[r].state = "PENDING"
      /\ t = <<r, req[r].tx>>
  <2>1. AtRest(req, base, net, r)
    BY <1>2, <1>3, RestFacts
  <2>. QED BY <1>3, <2>1, OnlyTransaction DEF r
<1>8. \A w \in net'.outstanding : w[1] # r
  BY <1>3, <1>6, <1>7, OnlyTransaction
<1>9. /\ r \in base.active /\ req[r].registered /\ ~req[r].dropped /\ ~req[r].freed
      /\ req[r].calls = 0 /\ req[r].sends = req[r].retries + 1
      /\ \A w \in net'.answers : w[1] = r => req[r].sends # 0
  BY <1>6, <1>7 DEF AtRest, Underway, Terminal, States, Live
<1>10. /\ link'.dead => ~link'.connected
       /\ Blocking = {} => base'.block = None
       /\ Up(base', link')
  BY <1>2, RestFacts
<1>11. \A x \in Requests \ {r} : TablesAt(base, base', x) /\ WireAt(net, net', x)
  BY <1>2, <1>6 DEF TablesAt, WireAt
<1>12. {r} \in SUBSET Requests
  BY <1>3
<1>13. CASE req' = q /\ UNCHANGED stack
  <2>1. Enter(<<>>) /\ <<>> \in Frames /\ Calls(<<>>) = {} /\ Simply(<<>>)
    BY <1>13, NoCalls, CallsOfNone DEF Simply
  <2>2. AtRest(req', base', net', r)
    BY <1>2, <1>4, <1>7, <1>8, <1>9, <1>13 DEF AtRest, Marks
  <2>3. \A x \in Requests : NoRoles({}, x)
    BY NoConcern
  <2>4. Placed(req', base', net', {}, r)
    BY <1>3, <2>2, <2>3, AtRestPlaced
  <2>5. \A x \in Requests : x \in Waiting(req', {}) <=> x \in Queued(req)
    BY <1>4, <1>13, <2>3, AtRestPlaced DEF Queued
  <2>6. /\ Lined(req', base', Waiting(req', {}))
        /\ Promptly(req', net', link', {})
    <3>1. \A x \in Requests : /\ req'[x].next = req[x].next
                              /\ req'[x].serial2 = req[x].serial2
                              /\ req'[x].registered = req[x].registered
      BY <1>4, <1>13 DEF Marks
    <3>. QED BY <1>2, <1>6, <2>5, <3>1, IdleQueue
  <2>7. \A x \in Requests \ {r} : /\ RequestAt(req, req', x)
                                 /\ TablesAt(base, base', x) /\ WireAt(net, net', x)
                                 /\ \A c \in {} : ~Concerns(c, x)
    BY <1>4, <1>11, <1>13 DEF RequestAt
  <2>8. \A x \in {r} : Placed(req', base', net', {}, x)
    BY <2>4
  <2>. QED BY <1>2, <1>10, <1>12, <2>1, <2>6, <2>7, <2>8, IdleStep
<1>14. CASE req' = FailReq(q, r) /\ Enter(FailCalls(q, r))
  <2>1. /\ <<d>> \in Frames /\ Calls(<<d>>) = {d} /\ Enter(<<d>>)
        /\ d.op = "drop" /\ d.r = r
    <3>1. d \in Frame
      BY <1>3, RequestCallType DEF Ops, ObservedOps
    <3>. QED BY <1>3, <1>4, <1>14, <3>1, CallsOfOne, FailsAlone DEF Call
  <2>. HIDE DEF d
  <2>2. Simply(<<d>>)
    <3>1. Smooth(d)
      BY <2>1 DEF Smooth, Simple, Steady
    <3>. QED BY <2>1, <3>1, SmoothSimply
  <2>3. /\ DropDue({d}, r) /\ ~Leaving({d}, r) /\ ~Unregisters({d}, r)
        /\ ~Finishing({d}, r) /\ ~Answered({d}, r) /\ ~Stolen({d}, r)
        /\ ~Ending({d}, r)
    BY <2>1 DEF DropDue, Leaving, Unregisters, Finishing, Answered, Stolen, Ending
  <2>4. ASSUME NEW x \in Requests \ {r}
        PROVE  ~Concerns(d, x) /\ req'[x] = req[x]
    <3>1. FailReq(q, r)[x] = q[x]
      BY <1>3, <1>4, <2>4, FailReqFields
    <3>. QED BY <1>4, <1>14, <2>1, <2>4, <3>1, OneConcern DEF Lists
  <2>5. /\ req'[r].state = "FAILED" /\ req'[r].next = req[r].next
        /\ req'[r].registered = req[r].registered
        /\ req'[r].dropped = req[r].dropped /\ req'[r].freed = req[r].freed
        /\ req'[r].held = req[r].held
    <3>1. /\ FailReq(q, r)[r].state = "FAILED" /\ FailReq(q, r)[r].next = q[r].next
          /\ FailReq(q, r)[r].registered = q[r].registered
          /\ FailReq(q, r)[r].dropped = q[r].dropped
          /\ FailReq(q, r)[r].freed = q[r].freed
          /\ FailReq(q, r)[r].held = q[r].held
      BY <1>3, <1>4, FailReqFields
    <3>. QED BY <1>4, <1>14, <3>1 DEF Marks
  <2>6. req'[r].sends = req[r].sends /\ req'[r].retries = req[r].retries
    <3>1. FailReq(q, r)[r].sends = q[r].sends /\ FailReq(q, r)[r].retries = q[r].retries
      BY <1>3, <1>4, FailFields
    <3>. QED BY <1>4, <1>14, <3>1 DEF Marks
  <2>7. r \notin Waiting(req', {d})
    BY <2>5 DEF Waiting
  <2>8. Placed(req', base', net', {d}, r)
    <3>1. Tabled(req', base', {d}, r)
      BY <1>2, <1>7, <1>9, <2>3, <2>5 DEF Tabled, AtRest, Underway, Out
    <3>2. Claimed(req', {d}, r)
      BY <2>3 DEF Claimed
    <3>3. Detached(req', base', {d}, r)
      BY <1>7, <1>9, <2>3, <2>5 DEF Detached, AtRest
    <3>4. Counted(req', {d}, r)
      <4>1. "FAILED" \in Terminal
        BY DEF Terminal, States, Live
      <4>. QED BY <1>7, <1>9, <2>5, <2>6, <2>7, <4>1 DEF Counted, AtRest
    <3>5. Wired(req', net', {d}, r)
      BY <1>8, <1>9, <2>6 DEF Wired
    <3>. QED BY <3>1, <3>2, <3>3, <3>4, <3>5 DEF Placed
  <2>9. \A x \in Requests : x \in Waiting(req', {d}) <=> x \in Queued(req)
    <3>1. ASSUME NEW x \in Requests \ {r}
          PROVE  x \in Waiting(req', {d}) <=> x \in Queued(req)
      <4>1. NoRoles({d}, x)
        BY <2>4, <3>1, NoConcern
      <4>. QED BY <2>4, <3>1, <4>1, AtRestPlaced DEF Queued
    <3>. QED BY <1>3, <1>7, <2>7, <3>1 DEF Queued
  <2>10. /\ Lined(req', base', Waiting(req', {d}))
         /\ Promptly(req', net', link', {d})
    <3>1. \A x \in Requests : req'[x].next = req[x].next
      BY <2>4, <2>5
    <3>2. \A x \in Requests : x \in Queued(req) => req'[x] = req[x]
      BY <1>7, <2>4 DEF Queued
    <3>. QED BY <1>2, <1>6, <2>9, <3>1, <3>2, IdleQueue
  <2>11. \A x \in Requests \ {r} : /\ RequestAt(req, req', x)
                                 /\ TablesAt(base, base', x) /\ WireAt(net, net', x)
                                 /\ \A c \in {d} : ~Concerns(c, x)
    BY <1>11, <2>4 DEF RequestAt
  <2>12. \A x \in {r} : Placed(req', base', net', {d}, x)
    BY <2>8
  <2>. QED BY <1>2, <1>10, <1>12, <2>1, <2>2, <2>10, <2>11, <2>12, IdleStep
<1>. QED BY <1>5, <1>13, <1>14

\* No call follows.
LEMMA NoneLast ==
  ASSUME NEW fs \in Frames
  PROVE  fs \o <<>> = fs
<1>1. fs \in Seq(Frame) /\ <<>> \in Seq(Frame) /\ Len(fs) \in Nat
  BY DEF Frames
<1>2. Len(fs \o <<>>) = Len(fs) /\ fs \o <<>> \in Seq(Frame)
  BY <1>1
<1>3. \A i \in 1 .. Len(fs) : (fs \o <<>>)[i] = fs[i]
  BY <1>1
<1>. QED BY <1>1, <1>2, <1>3

\* A call that is replaced does not stay.
LEMMA ReplacedCall ==
  ASSUME TypeOK, ~Idle, NEW fs \in Frames, Become(fs)
  PROVE  ~Enter(fs)
<1>1. /\ stack \in Seq(Frame) /\ fs \in Seq(Frame) /\ stack # <<>>
      /\ Tail(stack) \in Seq(Frame) /\ Len(stack) \in Nat \ {0}
      /\ Len(Tail(stack)) = Len(stack) - 1 /\ Len(fs) \in Nat
  BY DEF TypeOK, Frames, Idle
<1>2. /\ Len(fs \o Tail(stack)) = Len(fs) + (Len(stack) - 1)
      /\ Len(fs \o stack) = Len(fs) + Len(stack)
  BY <1>1
<1>3. fs \o Tail(stack) # fs \o stack
  BY <1>1, <1>2
<1>. QED BY <1>3 DEF Enter, Become

-----------------------------------------------------------------------------
(***************************************************************************)
(* The service dies.                                                       *)
(***************************************************************************)

\* What a call that lists requests is about.
LEMMA ListRoles ==
  ASSUME NEW op \in {"expire", "fail"}, NEW A, NEW x, NEW S, S = {ListCall(op, A)}
  PROVE  /\ ~DropDue(S, x) /\ ~Leaving(S, x) /\ ~Unregisters(S, x)
         /\ ~Finishing(S, x) /\ ~Answered(S, x)
         /\ Stolen(S, x) <=> op = "expire" /\ x \in A
         /\ Ending(S, x) <=> op = "fail" /\ x \in A
<1>. DEFINE c == ListCall(op, A)
<1>1. c.op = op /\ c.todo = A /\ c.refs = A
  BY DEF ListCall, Call
<1>. HIDE DEF c
<1>2. /\ ~DropDue({c}, x) /\ ~Leaving({c}, x) /\ ~Unregisters({c}, x)
      /\ ~Finishing({c}, x) /\ ~Answered({c}, x)
  BY <1>1 DEF DropDue, Leaving, Unregisters, Finishing, Answered
<1>3. /\ Stolen({c}, x) <=> op = "expire" /\ x \in A
      /\ Ending({c}, x) <=> op = "fail" /\ x \in A
  BY <1>1 DEF Stolen, Ending
<1>. QED BY <1>2, <1>3 DEF c

\* The queue is empty, and the active requests are about to be failed.
LEMMA DeadTables ==
  ASSUME TypeOK, \A x \in Requests : AtRest(req, base, net, x),
         Lined(req, base, Queued(req)),
         Calls(stack') = {ListCall("fail", base.active)}, Nested',
         req' = HandleDeathReq, base' = HandleDeathBase,
         net'.outstanding = net.outstanding, net'.answers \subseteq net.answers,
         link'.dead => ~link'.connected,
         Blocking = {} => base.block = None
  PROVE  Tables'
<1>. DEFINE c == ListCall("fail", base.active)
            T == Calls(stack')
<1>1. /\ base'.active = {} /\ base'.pending = {} /\ base'.first = None
      /\ base'.last = None /\ base'.block = base.block
  BY DEF HandleDeathBase, TypeOK, BaseRecord
<1>2. ASSUME NEW x \in Requests
      PROVE  /\ x \notin base.active => req'[x] = req[x]
             /\ x \in base.active => /\ Marks(req[x], req'[x])
                                     /\ req'[x].state = "QUEUED"
                                     /\ req'[x].next = None
                                     /\ req'[x].tx = req[x].tx
  BY DEF HandleDeathReq, Marks, TypeOK, RequestRecord
<1>3. T = {c} /\ T = {ListCall("fail", base.active)}
  OBVIOUS
<1>4. c.op = "fail"
  BY DEF ListCall, Call
<1>5. ASSUME NEW x \in Requests
      PROVE  /\ ~DropDue(T, x) /\ ~Leaving(T, x) /\ ~Unregisters(T, x)
             /\ ~Finishing(T, x) /\ ~Answered(T, x) /\ ~Stolen(T, x)
             /\ Ending(T, x) <=> x \in base.active
  <2>1. "fail" \in {"expire", "fail"} /\ "fail" # "expire"
    OBVIOUS
  <2>. HIDE DEF T, c
  <2>. QED BY <1>3, <2>1, ListRoles
<1>. HIDE DEF c, T
<1>6. ASSUME NEW x \in Requests
      PROVE  x \notin Waiting(req', T) /\ req'[x].next = None
  <2>1. CASE x \in base.active
    BY <1>2, <1>5, <2>1 DEF Waiting, Out
  <2>2. CASE x \notin base.active
    <3>1. x \notin Queued(req)
      BY <2>2 DEF AtRest, Queued, Underway
    <3>2. req[x].next = None
      BY <3>1 DEF Lined, Row
    <3>. QED BY <1>2, <2>2, <3>1, <3>2 DEF Waiting, Queued
  <2>. QED BY <2>1, <2>2
<1>7. ASSUME NEW x \in Requests
      PROVE  Placed(req', base', net', T, x)
  <2>1. AtRest(req, base, net, x)
    BY <1>7
  <2>2. CASE x \in base.active
    <3>1. /\ req[x].state \in Underway /\ req[x].registered /\ ~req[x].freed
          /\ ~req[x].dropped /\ req[x].calls = 0
      BY <2>1, <2>2 DEF AtRest, Underway, Terminal, Live
    <3>2. /\ req'[x].state = "QUEUED" /\ req'[x].registered
          /\ ~req'[x].freed /\ ~req'[x].dropped /\ req'[x].calls = 0
          /\ req'[x].sends = req[x].sends /\ req'[x].retries = req[x].retries
          /\ req'[x].tx = req[x].tx
      BY <1>2, <2>2, <3>1 DEF Marks
    <3>3. /\ ~DropDue(T, x) /\ ~Leaving(T, x) /\ ~Unregisters(T, x)
          /\ ~Finishing(T, x) /\ ~Answered(T, x) /\ ~Stolen(T, x) /\ Ending(T, x)
      BY <1>5, <2>2
    <3>4. Tabled(req', base', T, x)
      BY <1>1, <3>2, <3>3 DEF Tabled, Out
    <3>5. Claimed(req', T, x)
      BY <3>2, <3>3 DEF Claimed, Underway
    <3>6. Detached(req', base', T, x)
      BY <3>2, <3>3 DEF Detached
    <3>7. Counted(req', T, x)
      BY <1>6, <2>1, <3>2 DEF Counted, AtRest
    <3>8. Wired(req', net', T, x)
      BY <1>6, <2>1, <3>2, <3>3 DEF Wired, AtRest
    <3>. QED BY <3>4, <3>5, <3>6, <3>7, <3>8 DEF Placed
  <2>3. CASE x \notin base.active
    <3>1. req'[x] = req[x] /\ NoRoles(T, x)
      BY <1>2, <1>5, <2>3 DEF NoRoles
    <3>2. AtRest(req', base', net', x)
      BY <1>1, <2>1, <2>3, <3>1 DEF AtRest, Underway
    <3>. QED BY <3>1, <3>2, AtRestPlaced
  <2>. QED BY <2>2, <2>3
<1>8. Lined(req', base', Waiting(req', T))
  <2>. DEFINE s == [i \in 1 .. 0 |-> None]
  <2>1. Row(req', base', Waiting(req', T), 0, s)
    BY <1>1, <1>6 DEF Row, Chain
  <2>. QED BY <2>1 DEF Lined
<1>9. Promptly(req', net', link', T)
  BY <1>6 DEF Promptly, Overdue
<1>10. Cursors(req', base', net', T)
  BY <1>3, <1>4 DEF Cursors, Scans
<1>11. Fitting'
  BY <1>3, <1>4 DEF Fitting, FrameFits, Scans, Steady, T
<1>12. Linked(base, link)'
  BY <1>1 DEF Linked
<1>. QED BY <1>7, <1>8, <1>9, <1>10, <1>11, <1>12 DEF Tables, T

\* The service dies.
LEMMA TablesDeath ==
  ASSUME TypeOK, Tables, MaxDepth = 0, Death
  PROVE  Tables'
<1>. DEFINE c == ListCall("fail", base.active)
<1>1. /\ Idle /\ req' = HandleDeathReq /\ base' = HandleDeathBase
      /\ net' = [net EXCEPT !.answers = {}]
      /\ link' = [connected |-> FALSE, dead |-> TRUE]
      /\ Enter(<<c>> \o Callback(None))
  BY DEF Death, EventTurn
<1>2. c \in Frame /\ <<c>> \in Frames /\ Calls(<<c>>) = {c}
  BY HandleDeathType, CallsOfOne
<1>. HIDE DEF c
<1>3. Enter(<<c>>)
  BY <1>1, <1>2, NoHandler, NoneLast
<1>4. Going(<<c>>, Calls(stack)) /\ Calls(stack) = {}
  BY <1>1, <1>3, IdleCalls DEF Going
<1>5. Calls(stack') = {c}
  BY <1>2, <1>4, GoingCalls
<1>6. Nested'
  BY <1>2, <1>4, NestedGoing DEF Tables
<1>7. net'.outstanding = net.outstanding /\ net'.answers \subseteq net.answers
  BY <1>1 DEF TypeOK, NetRecord
<1>8. link'.dead => ~link'.connected
  BY <1>1
<1>. QED BY <1>1, <1>5, <1>6, <1>7, <1>8, RestFacts, DeadTables DEF c

\* The requests of a config service that died fail.
LEMMA TablesHandleDeath ==
  ASSUME TypeOK, Tables, HandleDeath
  PROVE  Tables'
<1>. DEFINE c == ListCall("fail", base.active)
            U == Calls(Tail(stack))
<1>1. /\ ~Idle /\ Top.op = "die" /\ req' = HandleDeathReq /\ base' = HandleDeathBase
      /\ Become(<<c>>) /\ UNCHANGED <<net, link>>
  BY RunningTop DEF HandleDeath
<1>2. c \in Frame /\ <<c>> \in Frames /\ Calls(<<c>>) = {c}
  BY HandleDeathType, CallsOfOne
<1>. HIDE DEF c
<1>3. Going(<<c>>, U)
  BY <1>1 DEF Going
<1>. HIDE DEF U
<1>4. /\ Calls(stack') = {c} \cup U /\ Calls(stack) \subseteq U \cup {Top}
      /\ U \subseteq Calls(stack)
      /\ ~Enter(<<c>>) => \A h \in U : ~Crosses(Top, h)
  BY <1>2, <1>3, GoingCalls DEF Tables
<1>5. ~Enter(<<c>>)
  BY <1>1, <1>2, ReplacedCall
<1>6. U = {}
  BY <1>1, <1>4, <1>5 DEF Crosses
<1>7. Calls(stack') = {c} /\ \A f \in Calls(stack) : f = Top
  BY <1>4, <1>6
<1>8. ASSUME NEW x \in Requests
      PROVE  NoRoles(Calls(stack), x)
  <2>1. ~Concerns(Top, x)
    BY <1>1 DEF Concerns, Handling, Lists
  <2>. QED BY <1>7, <2>1, NoConcern
<1>9. /\ \A x \in Requests : AtRest(req, base, net, x)
      /\ Waiting(req, Calls(stack)) = Queued(req)
  BY <1>8, AtRestPlaced DEF Tables, Waiting, Queued
<1>10. Nested'
  BY <1>2, <1>3, <1>6, NestedGoing DEF Tables
<1>. QED BY <1>1, <1>7, <1>9, <1>10, DeadTables DEF Tables, Linked, c

\* A config service dies; the users are told first.
LEMMA TablesConfigDeath ==
  ASSUME TypeOK, Tables, MaxDepth = 0, ConfigDeath
  PROVE  Tables'
<1>. DEFINE d == Call("die", None)
<1>1. /\ Idle /\ Clean /\ UNCHANGED <<req, base>>
      /\ net' = [net EXCEPT !.answers = {}]
      /\ link' = [connected |-> FALSE, dead |-> TRUE]
      /\ Enter(Callback(None) \o <<d>>)
  BY DEF ConfigDeath, EventTurn
<1>2. d \in Frame /\ d.op = "die" /\ <<d>> \in Frames /\ Calls(<<d>>) = {d}
  <2>1. "die" \in Ops \ RequestOps
    BY DEF Ops, RequestOps
  <2>2. d \in Frame
    BY <2>1, PlainCallType
  <2>. QED BY <2>2, CallsOfOne DEF Call
<1>. HIDE DEF d
<1>3. Enter(<<d>>)
  BY <1>1, <1>2, NoHandler, NoneFirst
<1>4. Going(<<d>>, Calls(stack)) /\ Calls(stack) = {}
  BY <1>1, <1>3, IdleCalls DEF Going
<1>5. Calls(stack') = {d}
  BY <1>2, <1>4, GoingCalls
<1>6. Nested'
  BY <1>2, <1>4, NestedGoing DEF Tables
<1>7. net'.outstanding = net.outstanding /\ net'.answers \subseteq net.answers
  BY <1>1 DEF TypeOK, NetRecord
<1>8. ASSUME NEW x \in Requests
      PROVE  NoRoles({d}, x) /\ AtRest(req', base', net', x)
  <2>1. ~Concerns(d, x)
    BY <1>2 DEF Concerns, Handling, Lists
  <2>2. AtRest(req, base, net, x)
    BY <1>1, RestFacts
  <2>3. AtRest(req', base', net', x)
    BY <1>1, <1>7, <2>2 DEF AtRest
  <2>. QED BY <2>1, <2>3, NoConcern
<1>9. /\ \A x \in Requests : Placed(req', base', net', {d}, x)
      /\ \A x \in Requests : x \in Waiting(req', {d}) <=> x \in Queued(req)
  BY <1>1, <1>8, AtRestPlaced DEF Queued
<1>10. /\ Lined(req', base', Waiting(req', {d}))
       /\ Promptly(req', net', link', {d})
  BY <1>1, <1>7, <1>9, IdleQueue
<1>11. Cursors(req', base', net', {d})
  BY <1>2 DEF Cursors, Scans
<1>12. Clean'
  <2>1. \A i \in DOMAIN stack : i \in DOMAIN stack' /\ FrameRefs(stack[i]) = FrameRefs(stack'[i])
    BY <1>4 DEF Calls
  <2>. QED BY <1>1, <1>7, <2>1, CleanSend
<1>13. Fitting'
  BY <1>2, <1>5, <1>12 DEF Fitting, FrameFits, Scans
<1>14. Linked(base, link)'
  BY <1>1, <1>2, <1>5, RestFacts DEF Linked
<1>. QED BY <1>5, <1>6, <1>9, <1>10, <1>11, <1>13, <1>14 DEF Tables

-----------------------------------------------------------------------------
(***************************************************************************)
(* Requests expire.                                                        *)
(***************************************************************************)
LEMMA TablesTimeout ==
  ASSUME TypeOK, Tables, Timeout
  PROVE  Tables'
<1>. DEFINE E == {r \in base.active : req[r].deadline <= now}
            c == ListCall("expire", E)
            s == Call("start", None)
            t == Call("reset", None)
            fs == <<c, s, t>>
<1>1. /\ Idle /\ Clean /\ UNCHANGED <<req, net, link>>
      /\ base' = [base EXCEPT !.timer = 0, !.active = @ \ E] /\ Enter(fs)
  BY DEF Timeout, EventTurn
<1>2. E \in SUBSET Requests /\ E \subseteq base.active
  BY DEF TypeOK, BaseRecord
<1>. HIDE DEF E
<1>3. /\ base'.active = base.active \ E /\ base'.pending = base.pending
      /\ base'.first = base.first /\ base'.last = base.last
      /\ base'.block = base.block
  BY <1>1 DEF TypeOK, BaseRecord
<1>4. /\ c \in Frame /\ s \in Frame /\ t \in Frame
      /\ c.op = "expire" /\ c.refs = E /\ c.todo = E
      /\ s = Call("start", None) /\ s.op = "start" /\ t.op = "reset"
  BY <1>2, ListCallType, PlainFrames DEF ListCall, Call
<1>. HIDE DEF c, s, t
<1>5. /\ fs \in Frames /\ Calls(fs) = {c, s, t}
      /\ fs[1] = c /\ fs[2] = s /\ fs[3] = t /\ DOMAIN fs = 1 .. 3
  <2>1. fs \in Frames
    BY <1>4, FramesType
  <2>3. Calls(<<c, s, t>>) = {c, s, t}
    BY CallsOf
  <2>2. fs[1] = c /\ fs[2] = s /\ fs[3] = t /\ DOMAIN fs = 1 .. 3
    OBVIOUS
  <2>. QED BY <2>1, <2>2, <2>3
<1>6. \A i, j \in DOMAIN fs : i < j => ~Crosses(fs[i], fs[j])
  <2>1. ~Crosses(c, s) /\ ~Crosses(c, t) /\ ~Crosses(s, t)
    BY <1>4 DEF Crosses, Steady, Lists
  <2>. QED BY <1>5, <2>1
<1>. HIDE DEF fs
<1>7. Going(fs, Calls(stack)) /\ Calls(stack) = {}
  BY <1>1, IdleCalls DEF Going
<1>8. Calls(stack') = {c, s, t}
  BY <1>5, <1>7, GoingCalls
<1>9. Nested'
  BY <1>5, <1>6, <1>7, NestedGoing DEF Tables
<1>. DEFINE T == {c, s, t}
<1>10. ASSUME NEW x \in Requests
       PROVE  /\ ~DropDue(T, x) /\ ~Leaving(T, x) /\ ~Unregisters(T, x)
              /\ ~Finishing(T, x) /\ ~Answered(T, x) /\ ~Ending(T, x)
              /\ Stolen(T, x) <=> x \in E
  <2>1. /\ ~DropDue(T, x) /\ ~Leaving(T, x) /\ ~Unregisters(T, x)
        /\ ~Finishing(T, x) /\ ~Answered(T, x)
    BY <1>4 DEF DropDue, Leaving, Unregisters, Finishing, Answered
  <2>2. ~Ending(T, x) /\ (Stolen(T, x) <=> x \in E)
    BY <1>4 DEF Ending, Stolen
  <2>. QED BY <2>1, <2>2
<1>. HIDE DEF T
<1>11. ASSUME NEW x \in Requests
       PROVE  x \in Waiting(req', T) <=> x \in Queued(req)
  BY <1>1, <1>10 DEF Waiting, Queued, Out
<1>12. ASSUME NEW x \in Requests
       PROVE  Placed(req', base', net', T, x)
  <2>1. AtRest(req, base, net, x)
    BY <1>1, RestFacts
  <2>2. CASE x \in E
    <3>1. /\ req[x].state \in Underway /\ req[x].registered /\ ~req[x].freed
          /\ ~req[x].dropped /\ req[x].calls = 0
      BY <1>2, <2>1, <2>2 DEF AtRest, Underway, Terminal, Live
    <3>2. /\ ~DropDue(T, x) /\ ~Leaving(T, x) /\ ~Unregisters(T, x)
          /\ ~Finishing(T, x) /\ ~Answered(T, x) /\ ~Ending(T, x) /\ Stolen(T, x)
      BY <1>10, <2>2
    <3>3. Tabled(req', base', T, x)
      BY <1>1, <1>3, <2>1, <2>2, <3>1, <3>2 DEF Tabled, Out, AtRest
    <3>4. Claimed(req', T, x)
      BY <1>1, <3>1, <3>2 DEF Claimed
    <3>5. Detached(req', base', T, x)
      BY <1>1, <3>1, <3>2 DEF Detached
    <3>6. Counted(req', T, x)
      BY <1>1, <1>11, <2>1, <3>1 DEF Counted, AtRest, Queued
    <3>7. Wired(req', net', T, x)
      BY <1>1, <1>11, <2>1, <3>2 DEF Wired, AtRest, Queued
    <3>. QED BY <3>3, <3>4, <3>5, <3>6, <3>7 DEF Placed
  <2>3. CASE x \notin E
    <3>1. NoRoles(T, x)
      BY <1>10, <2>3 DEF NoRoles
    <3>2. AtRest(req', base', net', x)
      BY <1>1, <1>3, <2>1, <2>3 DEF AtRest
    <3>. QED BY <3>1, <3>2, AtRestPlaced
  <2>. QED BY <2>2, <2>3
<1>13. /\ Lined(req', base', Waiting(req', T))
       /\ Promptly(req', net', link', T)
  BY <1>1, <1>3, <1>11, IdleQueue
<1>14. Cursors(req', base', net', T)
  BY <1>4 DEF Cursors, Scans, T
<1>15. Clean'
  <2>1. ASSUME NEW x \in Requests, ~req'[x].freed
        PROVE  Referenced(x)'
    <3>1. Referenced(x)
      BY <1>1, <2>1 DEF Clean, Garbage
    <3>2. \A i \in DOMAIN stack : FALSE
      BY <1>7 DEF Calls
    <3>3. CASE x \in E
      <4>1. c \in Calls(stack')
        BY <1>8
      <4>2. PICK i \in DOMAIN stack' : stack'[i] = c
        BY <4>1 DEF Calls
      <4>3. x \in FrameRefs(stack'[i])
        BY <1>4, <3>3, <4>2 DEF FrameRefs
      <4>. QED BY <4>3 DEF Referenced
    <3>4. CASE x \notin E
      BY <1>1, <1>3, <3>1, <3>2, <3>4 DEF Referenced
    <3>. QED BY <3>3, <3>4
  <2>. QED BY <2>1 DEF Clean, Garbage
<1>16. Fitting'
  BY <1>4, <1>8, <1>15 DEF Fitting, FrameFits, Scans
<1>17. Linked(base, link)'
  BY <1>1, <1>3, RestFacts DEF Linked, Up
<1>. QED BY <1>8, <1>9, <1>12, <1>13, <1>14, <1>16, <1>17 DEF Tables, T

-----------------------------------------------------------------------------
\* The object is finalized.
LEMMA TablesFinalize ==
  ASSUME TypeOK, Tables, Finalize
  PROVE  Gone'
<1>1. /\ Idle /\ base.groups = {} /\ req' = FinalizeReq /\ base' = FinalizeBase
      /\ net' = FinalizeNet /\ UNCHANGED <<link, stack>>
  BY DEF Finalize, EventTurn
<1>2. /\ base'.active = {} /\ base'.pending = {} /\ base'.groups = {}
      /\ base'.block = base.block /\ base'.first = base.first
  BY <1>1 DEF FinalizeBase, TypeOK, BaseRecord
<1>3. \A x \in Requests : AtRest(req, base, net, x)
  BY <1>1, RestFacts
<1>4. net'.outstanding = {}
  <2>1. net'.outstanding =
          {t \in net.outstanding : ~(req[t[1]].registered /\ req[t[1]].tx = t[2])}
    BY <1>1 DEF FinalizeNet, TypeOK, NetRecord
  <2>2. ASSUME NEW t \in net.outstanding
        PROVE  req[t[1]].registered /\ req[t[1]].tx = t[2]
    <3>1. t[1] \in Requests
      BY DEF TypeOK, NetRecord, Transmissions
    <3>. QED BY <1>3, <3>1 DEF AtRest, Underway
  <2>. QED BY <2>1, <2>2
<1>5. ASSUME NEW x \in Requests
      PROVE  ~req'[x].registered /\ req'[x].sends <= req'[x].retries + 1
  <2>1. /\ ~req'[x].registered /\ req'[x].sends = req[x].sends
        /\ req'[x].retries = req[x].retries
    BY <1>1 DEF FinalizeReq, TypeOK, RequestRecord
  <2>. QED BY <1>3, <2>1 DEF AtRest
<1>6. Calls(stack') = {}
  BY <1>1, IdleCalls DEF Calls
<1>7. link.dead => base.first = None
  BY <1>1, RestFacts DEF Up
<1>. QED BY <1>1, <1>2, <1>4, <1>5, <1>6, <1>7, RestFacts DEF Gone

-----------------------------------------------------------------------------
(***************************************************************************)
(* Calls in progress.                                                      *)
(***************************************************************************)

\* The running call is replaced.
LEMMA TopCalls ==
  ASSUME TypeOK, Tables, ~Idle, NEW fs \in Frames, Become(fs)
  PROVE  LET U == Calls(Tail(stack))
         IN  /\ Going(fs, U)
             /\ Calls(stack') = Calls(fs) \cup U
             /\ U \subseteq Calls(stack) /\ Calls(stack) \subseteq U \cup {Top}
             /\ Top \in Calls(stack) /\ Top \in Frame
             /\ \A h \in U : /\ ~Crosses(Top, h) /\ h.op \notin Steady
                             /\ h.op # "callback"
<1>. DEFINE U == Calls(Tail(stack))
<1>1. Going(fs, U)
  BY DEF Going
<1>. HIDE DEF U
<1>2. ~Enter(fs)
  BY ReplacedCall
<1>3. /\ Calls(stack') = Calls(fs) \cup U
      /\ U \subseteq Calls(stack) /\ Calls(stack) \subseteq U \cup {Top}
      /\ Top \in Calls(stack) /\ \A h \in U : ~Crosses(Top, h)
  BY <1>1, <1>2, GoingCalls DEF Tables
<1>4. Top \in Frame
  BY TopType
<1>5. \A h \in U : h.op \notin Steady
  BY <1>3 DEF Crosses
<1>6. \A h \in U : h.op # "callback"
  BY <1>3 DEF Tables, Fitting, FrameFits
<1>. QED BY <1>1, <1>3, <1>4, <1>5, <1>6 DEF U

\* What every step has to show.
LEMMA AnyStep ==
  ASSUME TypeOK, Tables, NEW fs \in Frames, NEW U, Going(fs, U),
         \A i, j \in DOMAIN fs : i < j => ~Crosses(fs[i], fs[j]),
         \A f \in Calls(fs), h \in U : ~Crosses(f, h),
         NEW R \in SUBSET Requests,
         \A x \in Requests \ R : LeftAt(x),
         \A r \in R : Placed(req', base', net', Calls(stack'), r),
         Lined(req', base', Waiting(req', Calls(stack'))),
         Cursors(req', base', net', Calls(stack')),
         Promptly(req', net', link', Calls(stack')),
         Fitting', Linked(base, link)'
  PROVE  Tables'
<1>1. Nested'
  BY NestedGoing DEF Tables
<1>2. \A x \in Requests : Placed(req', base', net', Calls(stack'), x)
  BY PlacedKept DEF Tables
<1>. QED BY <1>1, <1>2 DEF Tables

\* Outside the scan, the requests of R move.
LEMMA MoveStep ==
  ASSUME TypeOK, Tables, Resting, NEW fs \in Frames, NEW U, Going(fs, U),
         StartStays(fs), Simply(fs), \A f \in Calls(fs), h \in U : ~Crosses(f, h),
         NEW R \in SUBSET Requests,
         \A x \in Requests \ R : /\ LeftAt(x)
                                 /\ req'[x].serial2 = req[x].serial2
                                 /\ req'[x].scheduled = req[x].scheduled,
         \A r \in R : /\ Placed(req', base', net', Calls(stack'), r)
                      /\ ~Overdue(req', net', Calls(stack'), r),
         Lined(req', base', Waiting(req', Calls(stack'))),
         UNCHANGED link, Blocking = {} => base'.block = None, Up(base', link')
  PROVE  Tables'
<1>. DEFINE S == Calls(stack)
            T == Calls(stack')
<1>1. ASSUME NEW x \in Requests, Overdue(req', net', T, x)
      PROVE  Overdue(req, net, S, x) /\ req'[x].scheduled = req[x].scheduled
  <2>1. x \notin R
    BY <1>1
  <2>2. /\ RequestAt(req, req', x) /\ WireAt(net, net', x) /\ RolesAt(S, T, x)
        /\ req'[x].serial2 = req[x].serial2
        /\ req'[x].scheduled = req[x].scheduled
    BY <2>1 DEF LeftAt
  <2>. HIDE DEF S, T
  <2>3. x \in Waiting(req', T) => x \in Waiting(req, S)
    BY <2>2, WaitingKept DEF RequestAt
  <2>. QED BY <1>1, <2>2, <2>3, OverdueKept DEF RequestAt
<1>2. ToStart(S) => ToStart(T)
  BY StartKept
<1>. HIDE DEF S, T
<1>3. link.connected => link'.connected
  OBVIOUS
<1>4. Promptly(req', net', link', T)
  BY <1>1, <1>2, <1>3, PromptlyKept DEF S
<1>5. link'.dead => ~link'.connected
  BY DEF Tables, Linked
<1>. QED BY <1>4, <1>5, RestingStep DEF T

\* A request leaves the queue, if it is there.
LEMMA LinedDeactivate ==
  ASSUME IsFiniteSet(Requests), NEW q \in RequestMap, NEW b \in BaseRecord,
         NEW W, Lined(q, b, W), NEW r \in Requests,
         r \in W => q[r].state = "QUEUED",
         NEW V, \A x \in Requests : x \in V <=> x \in W /\ x # r
  PROVE  /\ Lined(DeactivateReq(q, b, r), DeactivateBase(q, b, r), V)
         /\ b.first = None => /\ DeactivateBase(q, b, r).first = None
                              /\ DeactivateBase(q, b, r).last = b.last
<1>. DEFINE u == DeactivateReq(q, b, r)
            c == DeactivateBase(q, b, r)
<1>1. PICK n, s : Row(q, b, W, n, s)
  BY DEF Lined
<1>2. Dequeues(q, b, r) <=> r \in W
  BY <1>1, RowFinds DEF Dequeues
<1>3. /\ Dequeues(q, b, r) => /\ c.first = UnlinkBase(q, b, r, Before(q, b, r)).first
                              /\ c.last = UnlinkBase(q, b, r, Before(q, b, r)).last
      /\ ~Dequeues(q, b, r) => c.first = b.first /\ c.last = b.last
  BY DeactivateTables
<1>4. /\ Dequeues(q, b, r) => u = UnlinkReq(q, r, Before(q, b, r))
      /\ ~Dequeues(q, b, r) => u = q
  BY DEF DeactivateReq
<1>. HIDE DEF u, c
<1>5. CASE r \notin W
  <2>1. Row(u, c, V, n, s)
    BY <1>1, <1>2, <1>3, <1>4, <1>5, RowKept
  <2>. QED BY <1>2, <1>3, <1>5, <2>1 DEF Lined, u, c
<1>6. CASE r \in W
  <2>1. PICK k \in 1 .. n : s[k] = r
    BY <1>1, <1>6 DEF Row
  <2>. DEFINE p == Before(q, b, r)
  <2>2. p = IF k = 1 THEN None ELSE s[k - 1]
    BY <1>1, <2>1, RowBefore
  <2>. HIDE DEF p
  <2>3. /\ \A x \in Requests :
             u[x].next = CASE x = s[k] -> None
                           [] x = p /\ x # s[k] -> q[s[k]].next
                           [] OTHER -> q[x].next
    <3>1. u = UnlinkReq(q, r, p)
      BY <1>2, <1>4, <1>6 DEF p
    <3>. QED BY <2>1, <3>1, UnlinkFields
  <2>4. /\ c.first = IF p = None THEN q[s[k]].next ELSE b.first
        /\ c.last = IF q[s[k]].next = None THEN p ELSE b.last
    <3>1. c.first = UnlinkBase(q, b, r, p).first /\ c.last = UnlinkBase(q, b, r, p).last
      BY <1>2, <1>3, <1>6 DEF p
    <3>. QED BY <2>1, <3>1, UnlinkTables
  <2>5. \A x \in Requests : x \in V <=> x \in W /\ x # s[k]
    BY <2>1
  <2>6. Row(u, c, V, n - 1, Without(n, s, k))
    BY <1>1, <2>2, <2>3, <2>4, <2>5, RowRemove
  <2>7. b.first # None
    <3>1. n \in Nat /\ n # 0 /\ s[1] \in Requests /\ b.first = s[1]
      BY <1>1, <2>1 DEF Row, Chain
    <3>. QED BY <3>1, ConstantsAssumption
  <2>. QED BY <2>6, <2>7 DEF Lined, u, c
<1>. QED BY <1>5, <1>6

\* The running call is about a request, and so are the calls it makes.
LEMMA HandlerStep ==
  ASSUME TypeOK, Tables, ~Idle, Top.op \in Handling,
         NEW r \in Requests, Top.r = r, NEW fs \in Frames, Become(fs),
         \A f \in Calls(fs) : Smooth(f) /\ (f.op \in Handling => f.r = r),
         \A x \in Requests \ {r} :
           /\ Marks(req[x], req'[x]) /\ req'[x].state = req[x].state
           /\ req'[x].tx = req[x].tx /\ req'[x].scheduled = req[x].scheduled
           /\ TablesAt(base, base', x) /\ WireAt(net, net', x),
         Placed(req', base', net', Calls(stack'), r),
         r \notin Waiting(req', Calls(stack')),
         \/ Lined(req', base', Waiting(req', Calls(stack')))
         \/ /\ r \notin Waiting(req, Calls(stack))
            /\ \A x \in Requests : req'[x].next = req[x].next
            /\ base'.first = base.first /\ base'.last = base.last,
         UNCHANGED link, Blocking = {} => base'.block = None, Up(base', link')
  PROVE  Tables'
<1>. DEFINE S == Calls(stack)
            T == Calls(stack')
            U == Calls(Tail(stack))
<1>1. /\ Going(fs, U) /\ T = Calls(fs) \cup U /\ U \subseteq S /\ S \subseteq U \cup {Top}
  BY TopCalls
<1>2. ~Lists(Top) /\ Top.op \notin Steady /\ Top.op # "start"
  BY DEF Handling, Lists, Steady
<1>3. Resting /\ StartStays(fs)
  BY <1>2 DEF Resting, StartStays
<1>4. Simply(fs) /\ \A f \in Calls(fs), h \in U : ~Crosses(f, h)
  BY <1>1, <1>3, SmoothCalls
<1>. HIDE DEF S, T, U
<1>5. ASSUME NEW x \in Requests \ {r}
      PROVE  /\ RolesAt(S, T, x) /\ RequestAt(req, req', x)
             /\ x \in Waiting(req', T) <=> x \in Waiting(req, S)
  <2>1. ~Concerns(Top, x)
    BY <1>2, <1>5 DEF Concerns
  <2>2. \A f \in Calls(fs) : ~Concerns(f, x)
    BY <1>5 DEF Concerns, Smooth, Lists
  <2>3. RolesAt(S, T, x)
    <3>1. \A f \in Calls(fs) \cup {Top} : ~Concerns(f, x)
      BY <2>1, <2>2
    <3>. QED BY <1>1, <3>1, RolesGo
  <2>4. RequestAt(req, req', x)
    BY <1>5 DEF RequestAt, Marks
  <2>. QED BY <1>5, <2>3, <2>4, WaitingKept
<1>6. Lined(req', base', Waiting(req', T))
  <2>1. CASE /\ r \notin Waiting(req, S)
             /\ \A x \in Requests : req'[x].next = req[x].next
             /\ base'.first = base.first /\ base'.last = base.last
    <3>1. \A x \in Requests : x \in Waiting(req', T) <=> x \in Waiting(req, S)
      BY <1>5, <2>1 DEF T
    <3>. QED BY <2>1, <3>1, LinedKept DEF S, T
  <2>. QED BY <2>1 DEF S, T
<1>7. /\ {r} \in SUBSET Requests
      /\ \A x \in Requests \ {r} : /\ LeftAt(x)
                                   /\ req'[x].serial2 = req[x].serial2
                                   /\ req'[x].scheduled = req[x].scheduled
      /\ \A x \in {r} : /\ Placed(req', base', net', Calls(stack'), x)
                        /\ ~Overdue(req', net', Calls(stack'), x)
  BY <1>5 DEF LeftAt, Marks, Overdue, S, T
<1>8. Lined(req', base', Waiting(req', Calls(stack')))
  BY <1>6 DEF T
<1>. QED BY <1>1, <1>3, <1>4, <1>7, <1>8, MoveStep

\* The running call was the only one of its kind, or it was not.
LEMMA RolesLeft ==
  ASSUME NEW S, NEW T, NEW F, NEW f, F \subseteq T, T \subseteq F \cup S,
         S \subseteq T \cup {f}, NEW r
  PROVE  /\ ~DropDue(F, r) => (DropDue(T, r) => DropDue(S, r))
         /\ ~Leaving(F, r) => (Leaving(T, r) => Leaving(S, r))
         /\ ~Unregisters(F, r) => (Unregisters(T, r) => Unregisters(S, r))
         /\ ~Finishing(F, r) => (Finishing(T, r) => Finishing(S, r))
         /\ ~Answered(F, r) => (Answered(T, r) => Answered(S, r))
         /\ ~Stolen(F, r) => (Stolen(T, r) => Stolen(S, r))
         /\ ~Ending(F, r) => (Ending(T, r) => Ending(S, r))
         /\ f.op # "drop" => (DropDue(S, r) => DropDue(T, r))
         /\ f.op # "dropped" => (Leaving(S, r) => Leaving(T, r))
         /\ f.op # "unregister" => (Unregisters(S, r) => Unregisters(T, r))
         /\ f.op # "finish" => (Finishing(S, r) => Finishing(T, r))
         /\ f.op # "done" => (Answered(S, r) => Answered(T, r))
         /\ ~Lists(f) => /\ Stolen(S, r) => Stolen(T, r)
                         /\ Ending(S, r) => Ending(T, r)
<1>1. /\ ~DropDue(F, r) => (DropDue(T, r) => DropDue(S, r))
      /\ f.op # "drop" => (DropDue(S, r) => DropDue(T, r))
  BY DEF DropDue
<1>2. /\ ~Leaving(F, r) => (Leaving(T, r) => Leaving(S, r))
      /\ f.op # "dropped" => (Leaving(S, r) => Leaving(T, r))
  BY DEF Leaving
<1>3. /\ ~Unregisters(F, r) => (Unregisters(T, r) => Unregisters(S, r))
      /\ f.op # "unregister" => (Unregisters(S, r) => Unregisters(T, r))
  BY DEF Unregisters
<1>4. /\ ~Finishing(F, r) => (Finishing(T, r) => Finishing(S, r))
      /\ f.op # "finish" => (Finishing(S, r) => Finishing(T, r))
  BY DEF Finishing
<1>5. /\ ~Answered(F, r) => (Answered(T, r) => Answered(S, r))
      /\ f.op # "done" => (Answered(S, r) => Answered(T, r))
  BY DEF Answered
<1>6. /\ ~Stolen(F, r) => (Stolen(T, r) => Stolen(S, r))
      /\ ~Lists(f) => (Stolen(S, r) => Stolen(T, r))
  BY DEF Stolen, Lists
<1>7. /\ ~Ending(F, r) => (Ending(T, r) => Ending(S, r))
      /\ ~Lists(f) => (Ending(S, r) => Ending(T, r))
  BY DEF Ending, Lists
<1>. QED BY <1>1, <1>2, <1>3, <1>4, <1>5, <1>6, <1>7

\* A call that lists no requests ends, and no call follows.
LEMMA RolesEnd ==
  ASSUME NEW S, NEW T, NEW f, T \subseteq S, S \subseteq T \cup {f}, ~Lists(f), NEW r
  PROVE  /\ DropDue(T, r) => DropDue(S, r)
         /\ Leaving(T, r) => Leaving(S, r)
         /\ Unregisters(T, r) => Unregisters(S, r)
         /\ Finishing(T, r) => Finishing(S, r)
         /\ Answered(T, r) => Answered(S, r)
         /\ Stolen(T, r) <=> Stolen(S, r)
         /\ Ending(T, r) <=> Ending(S, r)
         /\ f.op # "drop" => (DropDue(S, r) => DropDue(T, r))
         /\ f.op # "dropped" => (Leaving(S, r) => Leaving(T, r))
         /\ f.op # "unregister" => (Unregisters(S, r) => Unregisters(T, r))
         /\ f.op # "finish" => (Finishing(S, r) => Finishing(T, r))
         /\ f.op # "done" => (Answered(S, r) => Answered(T, r))
<1>1. /\ DropDue(T, r) => DropDue(S, r)
      /\ f.op # "drop" => (DropDue(S, r) => DropDue(T, r))
  BY DEF DropDue
<1>2. /\ Leaving(T, r) => Leaving(S, r)
      /\ f.op # "dropped" => (Leaving(S, r) => Leaving(T, r))
  BY DEF Leaving
<1>3. /\ Unregisters(T, r) => Unregisters(S, r)
      /\ f.op # "unregister" => (Unregisters(S, r) => Unregisters(T, r))
  BY DEF Unregisters
<1>4. /\ Finishing(T, r) => Finishing(S, r)
      /\ f.op # "finish" => (Finishing(S, r) => Finishing(T, r))
  BY DEF Finishing
<1>5. /\ Answered(T, r) => Answered(S, r)
      /\ f.op # "done" => (Answered(S, r) => Answered(T, r))
  BY DEF Answered
<1>6. /\ Stolen(T, r) <=> Stolen(S, r)
      /\ Ending(T, r) <=> Ending(S, r)
  BY DEF Stolen, Ending, Lists
<1>. QED BY <1>1, <1>2, <1>3, <1>4, <1>5, <1>6

\* Up and the blocker, when the tables only get smaller.
LEMMA SmallerUp ==
  ASSUME TypeOK, Tables, Resting, base'.active \subseteq base.active,
         base'.pending \subseteq base.pending, base'.block \in {base.block, None},
         base'.first = base.first /\ base'.last = base.last, UNCHANGED link
  PROVE  (Blocking = {} => base'.block = None) /\ Up(base', link')
<1>1. Up(base, link)
  BY RestingCalls
<1>. QED BY <1>1 DEF Up, Tables, Linked

\* The request completes.
LEMMA TablesDone ==
  ASSUME TypeOK, Tables, MaxDepth = 0, Done
  PROVE  Tables'
<1>. DEFINE r == Top.r
            S == Calls(stack)
            T == Calls(stack')
            U == Calls(Tail(stack))
<1>1. /\ ~Idle /\ Top.op = "done" /\ req' = CompleteReq(req, r)
      /\ Become(CompleteCalls(req, r)) /\ UNCHANGED <<base, net, link>>
  BY RunningTop DEF Done
<1>2. /\ r \in Requests /\ req \in RequestMap
      /\ Top.op \in Handling /\ ~Lists(Top)
  BY <1>1, TopType DEF TypeOK, RequestMap, RequestOps, Handling, Lists
<1>3. Become(<<>>) /\ <<>> \in Frames /\ Calls(<<>>) = {}
  BY <1>1, <1>2, FailsAlone, CallsOfNone
<1>4. T = U /\ U \subseteq S /\ S \subseteq U \cup {Top} /\ Top \in S
  BY <1>1, <1>3, TopCalls
<1>. HIDE DEF r, S, T, U
<1>5. /\ \A x \in Requests \ {r} : req'[x] = req[x]
      /\ req'[r].state = req[r].state /\ req'[r].registered = req[r].registered
      /\ req'[r].dropped = req[r].dropped /\ req'[r].freed = req[r].freed
      /\ req'[r].held = req[r].held /\ req'[r].sends = req[r].sends
      /\ req'[r].retries = req[r].retries /\ req'[r].tx = req[r].tx
      /\ req'[r].next = req[r].next
  BY <1>1, <1>2, CompleteReqFields, CompleteFields
<1>6. Placed(req, base, net, S, r)
  BY <1>2 DEF Tables, S
<1>7. req[r].state = "DONE"
  <2>1. Answered(S, r)
    BY <1>1, <1>4 DEF Answered, r
  <2>. QED BY <1>6, <2>1 DEF Placed, Claimed
<1>8. /\ DropDue(T, r) <=> DropDue(S, r)
      /\ Leaving(T, r) <=> Leaving(S, r)
      /\ Unregisters(T, r) <=> Unregisters(S, r)
      /\ Finishing(T, r) <=> Finishing(S, r)
      /\ Answered(T, r) => Answered(S, r)
      /\ Stolen(T, r) <=> Stolen(S, r)
      /\ Ending(T, r) <=> Ending(S, r)
  <2>1. T \subseteq S /\ S \subseteq T \cup {Top}
    BY <1>4
  <2>2. Top.op # "drop" /\ Top.op # "dropped" /\ Top.op # "unregister" /\ Top.op # "finish"
    BY <1>1
  <2>. QED BY <1>2, <2>1, <2>2, RolesEnd
<1>9. r \notin Waiting(req, S) /\ r \notin Waiting(req', T)
  BY <1>5, <1>7 DEF Waiting
<1>10. Placed(req', base', net', T, r)
  <2>1. Tabled(req', base', T, r)
    BY <1>1, <1>5, <1>6, <1>8 DEF Placed, Tabled, Out
  <2>2. Claimed(req', T, r)
    BY <1>5, <1>6, <1>8 DEF Placed, Claimed
  <2>3. Detached(req', base', T, r)
    BY <1>1, <1>5, <1>6, <1>8, <1>9 DEF Placed, Detached, Off
  <2>4. Counted(req', T, r)
    <3>1. "DONE" \in Terminal
      BY DEF Terminal, States, Live
    <3>. QED BY <1>5, <1>6, <1>7, <1>9, <3>1 DEF Placed, Counted
  <2>5. Wired(req', net', T, r)
    BY <1>1, <1>5, <1>6, <1>8, <1>9 DEF Placed, Wired
  <2>. QED BY <2>1, <2>2, <2>3, <2>4, <2>5 DEF Placed
<1>11. \A x \in Requests \ {r} :
         /\ Marks(req[x], req'[x]) /\ req'[x].state = req[x].state
         /\ req'[x].tx = req[x].tx /\ req'[x].scheduled = req[x].scheduled
         /\ TablesAt(base, base', x) /\ WireAt(net, net', x)
  BY <1>1, <1>5 DEF Marks, TablesAt, WireAt
<1>12. \A x \in Requests : req'[x].next = req[x].next
  BY <1>5
<1>13. (Blocking = {} => base'.block = None) /\ Up(base', link')
  <2>1. Resting
    BY <1>1 DEF Resting, Steady
  <2>. QED BY <1>1, <2>1, SmallerUp
<1>. QED
  BY <1>1, <1>2, <1>3, <1>9, <1>10, <1>11, <1>12, <1>13, HandlerStep DEF r, S, T

-----------------------------------------------------------------------------
(***************************************************************************)
(* Requests are dropped.                                                   *)
(***************************************************************************)

\* The call that drops a request makes it leave the tables first.
LEMMA TablesDrop ==
  ASSUME TypeOK, Tables, IsFiniteSet(Requests), Drop
  PROVE  Tables'
<1>. DEFINE r == Top.r
            q == CancelReq(req, r)
            S == Calls(stack)
            T == Calls(stack')
            U == Calls(Tail(stack))
            s == Call("start", None)
            d == Call("dropped", r)
            F == {s, d}
            fs == <<s, d>>
<1>1. /\ ~Idle /\ Top.op = "drop" /\ req' = DeactivateReq(q, base, r)
      /\ base' = DeactivateBase(q, base, r) /\ net' = CancelNet(req, r)
      /\ Become(fs) /\ UNCHANGED link
  BY RunningTop DEF Drop
<1>2. /\ r \in Requests /\ req \in RequestMap /\ q \in RequestMap
      /\ base \in BaseRecord
      /\ Top.op \in Handling /\ ~Lists(Top)
  BY <1>1, TopType, CancelReqType DEF TypeOK, RequestMap, RequestOps, Handling, Lists
<1>3. /\ s \in Frame /\ d \in Frame /\ s.op = "start" /\ d.op = "dropped" /\ d.r = r
      /\ s = Call("start", None)
  BY <1>2, PlainFrames, RequestCallType DEF Ops, ObservedOps, Call
<1>4. fs \in Frames /\ Calls(fs) = F
  BY <1>3, CallsOfTwo
<1>5. T = F \cup U /\ U \subseteq S /\ S \subseteq U \cup {Top} /\ Top \in S
  BY <1>1, <1>4, TopCalls
<1>6. \A f \in Calls(fs) : Smooth(f) /\ (f.op \in Handling => f.r = r)
  BY <1>3, <1>4 DEF Smooth, Simple, Steady, Handling
<1>. HIDE DEF r, q, S, T, U, fs, s, d
<1>7. Placed(req, base, net, S, r) /\ DropDue(S, r)
  BY <1>1, <1>2, <1>5 DEF Tables, S, DropDue, r
<1>8. /\ ~DropDue(F, r) /\ Leaving(F, r) /\ ~Unregisters(F, r) /\ ~Finishing(F, r)
      /\ ~Answered(F, r) /\ ~Stolen(F, r) /\ ~Ending(F, r)
  BY <1>3 DEF DropDue, Leaving, Unregisters, Finishing, Answered, Stolen, Ending
<1>9. /\ DropDue(T, r) => DropDue(S, r)
      /\ Leaving(T, r)
      /\ Unregisters(T, r) <=> Unregisters(S, r)
      /\ Finishing(T, r) <=> Finishing(S, r)
      /\ Answered(T, r) => Answered(S, r)
      /\ Stolen(T, r) <=> Stolen(S, r)
      /\ Ending(T, r) <=> Ending(S, r)
  <2>1. Leaving(T, r)
    BY <1>5, <1>8 DEF Leaving
  <2>. HIDE DEF F
  <2>2. Top.op # "unregister" /\ Top.op # "finish"
    BY <1>1
  <2>3. F \subseteq T /\ T \subseteq F \cup S /\ S \subseteq T \cup {Top}
    BY <1>5
  <2>. QED BY <1>2, <1>8, <2>1, <2>2, <2>3, RolesLeft
<1>. HIDE DEF F
<1>10. ASSUME NEW x \in Requests
       PROVE  /\ Marks(req[x], req'[x]) /\ req'[x].state = req[x].state
              /\ x # r => /\ req'[x].tx = req[x].tx
                          /\ req'[x].scheduled = req[x].scheduled
  <2>1. /\ Marks(req[x], q[x]) /\ q[x].state = req[x].state
        /\ x # r => q[x].tx = req[x].tx /\ q[x].scheduled = req[x].scheduled
    <3>1. CASE x = r
      BY <1>2, <3>1, CancelFields DEF q
    <3>2. CASE x # r
      BY <1>2, <3>2, CancelFields DEF q, Marks
    <3>. QED BY <3>1, <3>2
  <2>. QED BY <1>1, <1>2, <2>1, DeactivateFields DEF Marks
<1>11. /\ base'.active = base.active \ {r} /\ base'.pending = base.pending \ {r}
       /\ base'.block = IF base.block = r THEN None ELSE base.block
  <2>1. /\ DeactivateBase(q, base, r).active = base.active \ {r}
        /\ DeactivateBase(q, base, r).pending = base.pending \ {r}
        /\ DeactivateBase(q, base, r).block =
             IF base.block = r THEN None ELSE base.block
    BY <1>2, DeactivateTables
  <2>. QED BY <1>1, <2>1
<1>12. /\ net'.answers = net.answers
       /\ net'.outstanding = net.outstanding \ {<<r, req[r].tx>>}
  BY <1>1, <1>2, CancelNetFields
<1>13. /\ ~Stolen(T, r) /\ ~Ending(T, r) /\ req[r].registered
  BY <1>7, <1>9 DEF Placed, Claimed, Detached
<1>14. r \notin Waiting(req', T) /\ Off(req', base', T, r)
  BY <1>9, <1>11, <1>13 DEF Waiting, Out, Off
<1>15. Placed(req', base', net', T, r)
  <2>0. Marks(req[r], req'[r]) /\ req'[r].state = req[r].state
    BY <1>2, <1>10
  <2>1. Tabled(req', base', T, r)
    <3>1. base'.block # r
      BY <1>2, <1>11, ConstantsAssumption
    <3>. QED BY <1>9, <1>11, <3>1 DEF Tabled, Out
  <2>2. Claimed(req', T, r)
    BY <1>7, <1>9, <1>13, <2>0 DEF Placed, Claimed
  <2>3. Detached(req', base', T, r)
    BY <1>7, <1>9, <1>13, <1>14, <2>0 DEF Placed, Detached, Marks
  <2>4. Counted(req', T, r)
    BY <1>7, <1>14, <2>0 DEF Placed, Counted, Marks
  <2>5. Wired(req', net', T, r)
    <3>1. \A t \in net'.outstanding : t[1] # r
      <4>1. ASSUME NEW t \in net.outstanding, t[1] = r
            PROVE  t = <<r, req[r].tx>>
        <5>1. t[2] = req[r].tx
          BY <1>7, <4>1 DEF Placed, Wired
        <5>. QED BY <4>1, <5>1 DEF TypeOK, NetRecord, Transmissions
      <4>. QED BY <1>12, <4>1
    <3>. QED BY <1>7, <1>12, <2>0, <3>1 DEF Placed, Wired, Marks
  <2>. QED BY <2>1, <2>2, <2>3, <2>4, <2>5 DEF Placed
<1>16. \A x \in Requests \ {r} :
         /\ Marks(req[x], req'[x]) /\ req'[x].state = req[x].state
         /\ req'[x].tx = req[x].tx /\ req'[x].scheduled = req[x].scheduled
         /\ TablesAt(base, base', x) /\ WireAt(net, net', x)
  <2>1. \A x \in Requests \ {r} : x # None
    BY ConstantsAssumption
  <2>. QED BY <1>10, <1>11, <1>12, <2>1 DEF TablesAt, WireAt
<1>17. /\ Lined(req', base', Waiting(req', T))
       /\ base.first = None => base'.first = None /\ base'.last = base.last
  <2>1. ASSUME NEW x \in Requests
        PROVE  x \in Waiting(req', T) <=> x \in Waiting(req, S) /\ x # r
    <3>1. CASE x = r
      BY <1>14, <3>1
    <3>2. CASE x # r
      <4>1. ~Concerns(Top, x) /\ \A f \in F : ~Concerns(f, x)
        BY <1>1, <1>2, <1>4, <1>6, <3>2 DEF Concerns, Smooth, Lists, r
      <4>2. \A f \in F \cup {Top} : ~Concerns(f, x)
        BY <4>1
      <4>3. RolesAt(S, T, x)
        BY <1>5, <4>2, RolesGo
      <4>. QED BY <1>10, <3>2, <4>3, WaitingKept
    <3>. QED BY <3>1, <3>2
  <2>2. Lined(q, base, Waiting(req, S))
    <3>1. PICK n, w : Row(req, base, Waiting(req, S), n, w)
      BY DEF Tables, Lined, S
    <3>. DEFINE W == Waiting(req, S)
    <3>2. \A x \in Requests : q[x].next = req[x].next
      BY <1>2, CancelFields DEF q
    <3>. HIDE DEF W
    <3>3. Row(req, base, W, n, w)
      BY <3>1 DEF W
    <3>4. Row(q, base, W, n, w)
      BY <3>2, <3>3, RowKept
    <3>. QED BY <3>4 DEF Lined, W
  <2>3. r \in Waiting(req, S) => q[r].state = "QUEUED"
    BY <1>2, CancelFields DEF Waiting, q
  <2>. DEFINE V == Waiting(req', T)
              W == Waiting(req, S)
  <2>. HIDE DEF V, W
  <2>4. /\ \A x \in Requests : x \in V <=> x \in W /\ x # r
        /\ Lined(q, base, W) /\ (r \in W => q[r].state = "QUEUED")
    BY <2>1, <2>2, <2>3 DEF V, W
  <2>. QED BY <1>1, <1>2, <2>4, LinedDeactivate DEF V
<1>18. (Blocking = {} => base'.block = None) /\ Up(base', link')
  <2>1. Up(base, link)
    <3>1. Resting
      BY <1>1 DEF Resting, Steady
    <3>. QED BY <3>1, RestingCalls
  <2>2. Up(base', link')
    BY <1>1, <1>11, <1>17, <2>1 DEF Up
  <2>. QED BY <1>11, <2>2 DEF Tables, Linked
<1>19. Top.r = r
  BY DEF r
<1>. QED
  BY <1>1, <1>2, <1>4, <1>6, <1>14, <1>15, <1>16, <1>17, <1>18, <1>19, HandlerStep
     DEF S, T

\* The running call, which is about a request, ends.
LEMMA LastCall ==
  ASSUME TypeOK, Tables, ~Idle, Top.op \in Handling, Become(<<>>)
  PROVE  /\ Calls(stack') \subseteq Calls(stack)
         /\ Calls(stack) \subseteq Calls(stack') \cup {Top}
         /\ Top \in Calls(stack) /\ ~Lists(Top) /\ Resting
         /\ \A h \in Calls(stack') : ~Crosses(Top, h)
         /\ <<>> \in Frames /\ Calls(<<>>) = {}
<1>1. <<>> \in Frames /\ Calls(<<>>) = {}
  BY CallsOfNone
<1>2. ~Lists(Top) /\ Resting
  BY DEF Handling, Lists, Resting, Steady
<1>. QED BY <1>1, <1>2, TopCalls

\* What a step that ends such a call has to show.
LEMMA LastStep ==
  ASSUME TypeOK, Tables, ~Idle, Top.op \in Handling, Become(<<>>),
         NEW r \in Requests, Top.r = r,
         \A x \in Requests \ {r} : req'[x] = req[x],
         req'[r].next = req[r].next,
         Placed(req', base', net', Calls(stack'), r),
         r \notin Waiting(req, Calls(stack)),
         r \notin Waiting(req', Calls(stack')),
         SameTables(base, base'), UNCHANGED <<net, link>>
  PROVE  Tables'
<1>1. \A x \in Requests \ {r} :
        /\ Marks(req[x], req'[x]) /\ req'[x].state = req[x].state
        /\ req'[x].tx = req[x].tx /\ req'[x].scheduled = req[x].scheduled
        /\ TablesAt(base, base', x) /\ WireAt(net, net', x)
  BY DEF Marks, TablesAt, WireAt, SameTables
<1>2. \A x \in Requests : req'[x].next = req[x].next
  OBVIOUS
<1>3. (Blocking = {} => base'.block = None) /\ Up(base', link')
  BY LastCall, SmallerUp DEF SameTables
<1>4. base'.first = base.first /\ base'.last = base.last
  BY DEF SameTables
<1>. QED BY <1>1, <1>2, <1>3, <1>4, LastCall, HandlerStep

\* A dropped request ends, if it has not.
LEMMA TablesDropped ==
  ASSUME TypeOK, Tables, Dropped
  PROVE  Tables'
<1>. DEFINE r == Top.r
            S == Calls(stack)
            T == Calls(stack')
<1>1. /\ ~Idle /\ Top.op = "dropped" /\ Become(<<>>) /\ UNCHANGED <<net, link>>
      /\ \E t : base' = [base EXCEPT !.timer = t]
      /\ req' = [req EXCEPT ![r].state = IF @ \in Live THEN "CANCELLED" ELSE @]
  BY RunningTop, Zenon DEF Dropped
<1>2. /\ r \in Requests /\ req \in [Requests -> RequestRecord]
      /\ Top.op \in Handling
  BY <1>1, TopType DEF TypeOK, RequestOps, Handling
<1>3. T \subseteq S /\ S \subseteq T \cup {Top} /\ Top \in S /\ ~Lists(Top)
  BY <1>1, <1>2, LastCall
<1>4. SameTables(base, base')
  BY <1>1 DEF SameTables, TypeOK, BaseRecord
<1>. HIDE DEF r, S, T
<1>5. /\ \A x \in Requests \ {r} : req'[x] = req[x]
      /\ Marks(req[r], req'[r]) /\ req'[r].next = req[r].next
      /\ req'[r].state \in Terminal
      /\ req[r].state = "DONE" => req'[r].state = "DONE"
  <2>1. req[r] \in RequestRecord
    BY <1>2
  <2>2. /\ \A x \in Requests \ {r} : req'[x] = req[x]
        /\ req'[r] = [req[r] EXCEPT
             !.state = IF req[r].state \in Live THEN "CANCELLED" ELSE req[r].state]
    BY <1>1, <1>2
  <2>. QED BY <2>1, <2>2 DEF Marks, RequestRecord, Terminal, States, Live
<1>6. Placed(req, base, net, S, r) /\ Leaving(S, r)
  BY <1>1, <1>2, <1>3 DEF Tables, Leaving, S, r
<1>7. /\ DropDue(T, r) <=> DropDue(S, r)
      /\ Leaving(T, r) => Leaving(S, r)
      /\ Unregisters(T, r) <=> Unregisters(S, r)
      /\ Finishing(T, r) <=> Finishing(S, r)
      /\ Answered(T, r) => Answered(S, r)
      /\ Stolen(T, r) <=> Stolen(S, r)
      /\ Ending(T, r) <=> Ending(S, r)
  <2>1. Top.op # "drop" /\ Top.op # "unregister" /\ Top.op # "finish"
    BY <1>1
  <2>. QED BY <1>3, <2>1, RolesEnd
<1>8. r \notin base.active \cup base.pending /\ ~Stolen(S, r) /\ ~Ending(S, r)
  BY <1>6 DEF Placed, Tabled, Claimed, Out
<1>9. /\ r \notin base'.active \cup base'.pending /\ base'.block = base.block
      /\ ~Stolen(T, r) /\ ~Ending(T, r)
  BY <1>4, <1>7, <1>8 DEF SameTables
<1>10. /\ req'[r].state \notin Underway /\ req'[r].state # "NEW"
       /\ req'[r].state # "QUEUED" /\ req'[r].state # "PENDING"
  BY <1>5 DEF Underway, Terminal, Live
<1>11. r \notin Waiting(req', T) /\ r \notin Waiting(req, S)
  BY <1>6, <1>10 DEF Waiting, Out
<1>12. Off(req', base', T, r)
  BY <1>9, <1>11 DEF Off
<1>13. Placed(req', base', net', T, r)
  <2>1. Tabled(req', base', T, r)
    BY <1>6, <1>7, <1>8, <1>9, <1>10 DEF Placed, Tabled
  <2>2. Claimed(req', T, r)
    BY <1>5, <1>6, <1>7, <1>9 DEF Placed, Claimed
  <2>3. Detached(req', base', T, r)
    BY <1>5, <1>6, <1>7, <1>12 DEF Placed, Detached, Marks
  <2>4. Counted(req', T, r)
    BY <1>5, <1>6, <1>10, <1>11 DEF Placed, Counted, Marks
  <2>5. Wired(req', net', T, r)
    BY <1>1, <1>5, <1>6 DEF Placed, Wired, Marks
  <2>. QED BY <2>1, <2>2, <2>3, <2>4, <2>5 DEF Placed
<1>. QED BY <1>1, <1>2, <1>4, <1>5, <1>11, <1>13, LastStep DEF r, S, T

\* A request is detached from its object when nothing is left of it there.
LEMMA TablesUnregister ==
  ASSUME TypeOK, Tables, Unregister
  PROVE  Tables'
<1>. DEFINE r == Top.r
            S == Calls(stack)
            T == Calls(stack')
<1>1. /\ ~Idle /\ Top.op = "unregister" /\ Become(<<>>)
      /\ UNCHANGED <<base, net, link>>
      /\ req' = IF req[r].registered
                THEN [req EXCEPT ![r] = [@ EXCEPT !.registered = FALSE,
                                                  !.serial2 = 0]]
                ELSE req
  BY RunningTop DEF Unregister
<1>2. /\ r \in Requests /\ req \in [Requests -> RequestRecord]
      /\ Top.op \in Handling
  BY <1>1, TopType DEF TypeOK, RequestOps, Handling
<1>3. T \subseteq S /\ S \subseteq T \cup {Top} /\ Top \in S /\ ~Lists(Top)
      /\ \A h \in T : ~Crosses(Top, h)
  BY <1>1, <1>2, LastCall
<1>4. SameTables(base, base')
  BY <1>1 DEF SameTables
<1>5. ~DropDue(T, r) /\ ~Leaving(T, r)
  BY <1>1, <1>3 DEF Crosses, DropDue, Leaving
<1>. HIDE DEF r, S, T
<1>6. /\ \A x \in Requests \ {r} : req'[x] = req[x]
      /\ req'[r].next = req[r].next /\ req'[r].state = req[r].state
      /\ req'[r].dropped = req[r].dropped /\ req'[r].freed = req[r].freed
      /\ req'[r].held = req[r].held /\ req'[r].sends = req[r].sends
      /\ req'[r].retries = req[r].retries /\ req'[r].calls = req[r].calls
      /\ req'[r].tx = req[r].tx /\ ~req'[r].registered
  BY <1>1, <1>2 DEF RequestRecord
<1>7. Placed(req, base, net, S, r) /\ Unregisters(S, r)
  BY <1>1, <1>2, <1>3 DEF Tables, Unregisters, S, r
<1>8. /\ DropDue(T, r) <=> DropDue(S, r)
      /\ Leaving(T, r) <=> Leaving(S, r)
      /\ Finishing(T, r) <=> Finishing(S, r)
      /\ Answered(T, r) <=> Answered(S, r)
      /\ Stolen(T, r) <=> Stolen(S, r)
      /\ Ending(T, r) <=> Ending(S, r)
  <2>1. /\ Top.op # "drop" /\ Top.op # "dropped" /\ Top.op # "finish"
        /\ Top.op # "done"
    BY <1>1
  <2>. QED BY <1>3, <2>1, RolesEnd
<1>9. Off(req, base, S, r)
  BY <1>5, <1>7, <1>8 DEF Placed, Detached
<1>10. r \notin Waiting(req, S) /\ r \notin Waiting(req', T)
  BY <1>6, <1>8, <1>9 DEF Off, Waiting, Out
<1>11. Off(req', base', T, r)
  BY <1>1, <1>8, <1>9, <1>10 DEF Off
<1>12. Placed(req', base', net', T, r)
  <2>1. Tabled(req', base', T, r)
    BY <1>1, <1>6, <1>7, <1>8 DEF Placed, Tabled, Out
  <2>2. Claimed(req', T, r)
    BY <1>6, <1>7, <1>8 DEF Placed, Claimed
  <2>3. Detached(req', base', T, r)
    BY <1>5, <1>6, <1>7, <1>8, <1>11 DEF Placed, Detached
  <2>4. Counted(req', T, r)
    BY <1>6, <1>7, <1>10 DEF Placed, Counted
  <2>5. Wired(req', net', T, r)
    BY <1>1, <1>6, <1>7, <1>8, <1>10 DEF Placed, Wired
  <2>. QED BY <2>1, <2>2, <2>3, <2>4, <2>5 DEF Placed
<1>. QED BY <1>1, <1>2, <1>4, <1>6, <1>10, <1>12, LastStep DEF r, S, T

\* A request is freed when nothing is left of it.
LEMMA TablesFinish ==
  ASSUME TypeOK, Tables, SilenceInv, MaxDepth = 0, Finish
  PROVE  Tables'
<1>. DEFINE r == Top.r
            S == Calls(stack)
            T == Calls(stack')
            completes == req[r].complete /\ req[r].submitted
            q == IF completes THEN CompleteReq(req, r) ELSE req
<1>1. /\ ~Idle /\ Top.op = "finish" /\ UNCHANGED <<base, net, link>>
      /\ req' = [q EXCEPT ![r].freed = TRUE]
      /\ Become(IF completes THEN Callback(r) ELSE <<>>)
  BY RunningTop DEF Finish
<1>2. /\ r \in Requests /\ req \in RequestMap /\ Top.op \in Handling
  BY <1>1, TopType DEF TypeOK, RequestMap, RequestOps, Handling
<1>3. Become(<<>>)
  <2>1. Callback(r) = <<>>
    BY NoHandler
  <2>. QED BY <1>1, <2>1
<1>4. T \subseteq S /\ S \subseteq T \cup {Top} /\ Top \in S /\ ~Lists(Top)
      /\ \A h \in T : ~Crosses(Top, h)
  BY <1>1, <1>2, <1>3, LastCall
<1>5. SameTables(base, base')
  BY <1>1 DEF SameTables
<1>6. ~DropDue(T, r) /\ ~Leaving(T, r)
  BY <1>1, <1>4 DEF Crosses, DropDue, Leaving
<1>7. Placed(req, base, net, S, r) /\ Finishing(S, r)
  BY <1>1, <1>2, <1>4 DEF Tables, Finishing, S, r
<1>. HIDE DEF r, S, T
<1>8. /\ DropDue(T, r) <=> DropDue(S, r)
      /\ Leaving(T, r) <=> Leaving(S, r)
      /\ Unregisters(T, r) <=> Unregisters(S, r)
      /\ Answered(T, r) <=> Answered(S, r)
      /\ Stolen(T, r) <=> Stolen(S, r)
      /\ Ending(T, r) <=> Ending(S, r)
  <2>1. /\ Top.op # "drop" /\ Top.op # "dropped" /\ Top.op # "unregister"
        /\ Top.op # "done"
    BY <1>1
  <2>. QED BY <1>4, <2>1, RolesEnd
<1>9. Off(req, base, S, r) /\ ~req[r].held
  BY <1>7 DEF Placed, Detached
<1>10. req[r].state \notin Underway
  BY <1>6, <1>7, <1>8, <1>9 DEF Placed, Tabled, Off, Out
<1>11. /\ \A x \in Requests : x # r => q[x] = req[x]
       /\ q[r].next = req[r].next /\ q[r].state = req[r].state
       /\ q[r].dropped = req[r].dropped
       /\ q[r].held = req[r].held /\ q[r].sends = req[r].sends
       /\ q[r].retries = req[r].retries
       /\ q[r].tx = req[r].tx /\ q[r].registered = req[r].registered
       /\ ~completes => q[r].calls = req[r].calls
       /\ q \in RequestMap
  <2>1. CASE completes
    BY <1>2, <2>1, CompleteReqFields, CompleteFields, CompleteReqType
  <2>2. CASE ~completes
    BY <1>2, <2>2
  <2>. QED BY <2>1, <2>2
<1>. HIDE DEF q
<1>12. /\ \A x \in Requests \ {r} : req'[x] = req[x]
       /\ req'[r].next = req[r].next /\ req'[r].state = req[r].state
       /\ req'[r].dropped = req[r].dropped
       /\ req'[r].held = req[r].held /\ req'[r].sends = req[r].sends
       /\ req'[r].retries = req[r].retries
       /\ req'[r].tx = req[r].tx /\ req'[r].registered = req[r].registered
       /\ ~completes => req'[r].calls = req[r].calls
  <2>1. /\ \A x \in Requests \ {r} : req'[x] = q[x]
        /\ req'[r] = [q[r] EXCEPT !.freed = TRUE]
    BY <1>1, <1>2, <1>11 DEF RequestMap
  <2>2. q[r] \in RequestRecord
    BY <1>2, <1>11 DEF RequestMap
  <2>. QED BY <1>11, <2>1, <2>2 DEF RequestRecord
<1>13. completes => req[r].state \in Terminal
  <2>1. Fresh(req, r)
    BY <1>2 DEF SilenceInv, Accounts, Account
  <2>2. req[r].state \in States
    BY <1>2 DEF RequestMap, RequestRecord
  <2>. QED BY <1>10, <2>1, <2>2 DEF Fresh, Terminal, Live, Underway
<1>14. r \notin Waiting(req, S) /\ r \notin Waiting(req', T)
  BY <1>8, <1>9, <1>12 DEF Off, Waiting, Out
<1>15. Off(req', base', T, r)
  BY <1>1, <1>8, <1>9, <1>14 DEF Off
<1>. HIDE DEF completes
<1>16. Placed(req', base', net', T, r)
  <2>1. Tabled(req', base', T, r)
    BY <1>1, <1>7, <1>8, <1>12 DEF Placed, Tabled, Out
  <2>2. Claimed(req', T, r)
    BY <1>7, <1>8, <1>12 DEF Placed, Claimed
  <2>3. Detached(req', base', T, r)
    BY <1>6, <1>7, <1>8, <1>9, <1>12, <1>15 DEF Placed, Detached
  <2>4. Counted(req', T, r)
    BY <1>7, <1>12, <1>13, <1>14 DEF Placed, Counted
  <2>5. Wired(req', net', T, r)
    BY <1>1, <1>7, <1>8, <1>12, <1>14 DEF Placed, Wired
  <2>. QED BY <2>1, <2>2, <2>3, <2>4, <2>5 DEF Placed
<1>. QED BY <1>1, <1>2, <1>3, <1>5, <1>12, <1>14, <1>16, LastStep DEF r, S, T

-----------------------------------------------------------------------------
(***************************************************************************)
(* Lists of requests are failed.                                           *)
(***************************************************************************)

\* While requests are failed no other call lists any.
LEMMA FailRoles ==
  ASSUME NEW U, \A h \in U : ~Lists(h), NEW F, NEW c, NEW op \in {"expire", "fail"},
         c.op = op, \A f \in F : ~Lists(f), NEW x
  PROVE  /\ Stolen(F \cup {c} \cup U, x) <=> op = "expire" /\ x \in c.todo
         /\ Ending(F \cup {c} \cup U, x) <=>
              \/ op = "expire" /\ x \in c.refs \ c.todo
              \/ op = "fail" /\ x \in c.todo
<1>1. \A f \in F \cup U : f.op # "expire" /\ f.op # "fail"
  BY DEF Lists
<1>. QED BY <1>1 DEF Stolen, Ending

\* Sequences of calls are the same when their elements are.
LEMMA SameCalls ==
  ASSUME NEW s \in Seq(Frame), NEW t \in Seq(Frame), NEW n \in Nat,
         Len(s) = n, Len(t) = n, \A i \in 1 .. n : s[i] = t[i]
  PROVE  s = t
OBVIOUS

\* The next request fails.
LEMMA TablesFailOne ==
  ASSUME TypeOK, Tables, SilenceInv, MaxDepth = 0, ~Idle, Top.op = "fail",
         NEW r \in Top.todo, req' = FailReq(req, r),
         Become(FailCalls(req, r) \o <<ListCall("fail", Top.todo \ {r})>>),
         UNCHANGED <<base, net, link>>
  PROVE  Tables'
<1>. DEFINE S == Calls(stack)
            T == Calls(stack')
            U == Calls(Tail(stack))
            d == Call("drop", r)
            c == ListCall("fail", Top.todo \ {r})
            F == {d, c}
            fs == <<d, c>>
<1>1. r \in Requests /\ req \in RequestMap /\ Top.todo \in SUBSET Requests
  BY TopType DEF TypeOK, RequestMap
<1>2. /\ d \in Frame /\ d.op = "drop" /\ d.r = r
      /\ c \in Frame /\ c.op = "fail" /\ c.todo = Top.todo \ {r}
      /\ c.refs = Top.todo \ {r}
  BY <1>1, RequestCallType, ListCallType DEF Call, ListCall, Ops, ObservedOps
<1>. HIDE DEF d, c
<1>3. Become(fs)
  <2>1. FailCalls(req, r) = <<d>>
    BY <1>1, FailsAlone DEF d
  <2>2. <<d>> \o <<c>> = <<d, c>>
    <3>1. /\ <<d>> \in Seq(Frame) /\ <<c>> \in Seq(Frame)
          /\ <<d, c>> \in Seq(Frame) /\ <<d>> \o <<c>> \in Seq(Frame)
          /\ Len(<<d>>) = 1 /\ Len(<<c>>) = 1 /\ Len(<<d, c>>) = 2
      BY <1>2
    <3>2. /\ Len(<<d>> \o <<c>>) = 2
          /\ (<<d>> \o <<c>>)[1] = d /\ (<<d>> \o <<c>>)[2] = c
      BY <3>1
    <3>3. <<d, c>>[1] = d /\ <<d, c>>[2] = c
      OBVIOUS
    <3>4. \A i \in 1 .. 2 : i = 1 \/ i = 2
      OBVIOUS
    <3>5. \A i \in 1 .. 2 : (<<d>> \o <<c>>)[i] = <<d, c>>[i]
      BY <3>2, <3>3, <3>4
    <3>. QED BY <3>1, <3>2, <3>5, SameCalls
  <2>3. Become(<<d>> \o <<c>>)
    BY <2>1 DEF c
  <2>. QED BY <2>2, <2>3, Zenon
<1>4. fs \in Frames /\ Calls(fs) = F
  BY <1>2, CallsOfTwo
<1>5. /\ Going(fs, U) /\ T = F \cup U /\ U \subseteq S /\ S \subseteq U \cup {Top}
      /\ Top \in S /\ \A h \in U : ~Crosses(Top, h) /\ h.op \notin Steady
  BY <1>3, <1>4, TopCalls
<1>6. Top.refs = Top.todo
  BY TopKnows DEF ListOK
<1>7. \A h \in U : ~Lists(h)
  BY <1>5 DEF Crosses, Lists
<1>8. ~Lists(d)
  BY <1>2 DEF Lists
<1>9. Simply(fs)
  <2>1. Simple(d) /\ Simple(c) /\ ~Crosses(d, c)
    BY <1>2 DEF Simple, Steady, Crosses, Lists
  <2>2. \A i, j \in DOMAIN fs : i < j => fs[i] = d /\ fs[j] = c
    OBVIOUS
  <2>. QED BY <1>4, <2>1, <2>2 DEF Simply
<1>10. \A f \in Calls(fs), h \in U : ~Crosses(f, h)
  BY <1>2, <1>4, <1>5, <1>7 DEF Crosses
<1>. HIDE DEF fs, U, S, T
<1>11. ASSUME NEW x \in Requests
       PROVE  /\ ~Stolen(S, x) /\ ~Stolen(T, x)
              /\ Ending(S, x) <=> x \in Top.todo
              /\ Ending(T, x) <=> x \in Top.todo \ {r}
  <2>1. S = {} \cup {Top} \cup U /\ T = {d} \cup {c} \cup U
    BY <1>5
  <2>2. \A f \in {} : ~Lists(f)
    OBVIOUS
  <2>3. /\ Stolen({} \cup {Top} \cup U, x) <=> "fail" = "expire" /\ x \in Top.todo
        /\ Ending({} \cup {Top} \cup U, x) <=>
              \/ "fail" = "expire" /\ x \in Top.refs \ Top.todo
              \/ "fail" = "fail" /\ x \in Top.todo
    BY <1>7, <2>2, FailRoles
  <2>4. \A f \in {d} : ~Lists(f)
    BY <1>8
  <2>5. /\ Stolen({d} \cup {c} \cup U, x) <=> "fail" = "expire" /\ x \in c.todo
        /\ Ending({d} \cup {c} \cup U, x) <=>
              \/ "fail" = "expire" /\ x \in c.refs \ c.todo
              \/ "fail" = "fail" /\ x \in c.todo
    BY <1>2, <1>7, <2>4, FailRoles
  <2>. QED BY <1>2, <2>1, <2>3, <2>5
<1>12. ASSUME NEW x \in Requests
       PROVE  /\ x # r => ~DropDue(F, x)
              /\ ~Leaving(F, x) /\ ~Unregisters(F, x)
              /\ ~Finishing(F, x) /\ ~Answered(F, x)
  BY <1>2 DEF DropDue, Leaving, Unregisters, Finishing, Answered
<1>13. DropDue(T, r)
  BY <1>2, <1>5 DEF DropDue
<1>. HIDE DEF F
<1>14. ASSUME NEW x \in Requests
       PROVE  /\ x # r => (DropDue(T, x) <=> DropDue(S, x))
              /\ Leaving(T, x) <=> Leaving(S, x)
              /\ Unregisters(T, x) <=> Unregisters(S, x)
              /\ Finishing(T, x) <=> Finishing(S, x)
              /\ Answered(T, x) <=> Answered(S, x)
  <2>1. F \subseteq T /\ T \subseteq F \cup S /\ S \subseteq T \cup {Top}
    BY <1>5
  <2>. QED BY <1>12, <2>1, RolesLeft
<1>15. /\ \A x \in Requests : x # r => req'[x] = req[x]
       /\ req'[r].dropped = req[r].dropped /\ req'[r].freed = req[r].freed
       /\ req'[r].held = req[r].held /\ req'[r].registered = req[r].registered
       /\ req'[r].state = "FAILED" /\ req'[r].next = req[r].next
       /\ req'[r].sends = req[r].sends /\ req'[r].retries = req[r].retries
       /\ req'[r].tx = req[r].tx
  BY <1>1, FailReqFields, FailFields
<1>16. ASSUME NEW x \in Requests \ {r}
       PROVE  LeftAt(x) /\ req'[x] = req[x]
  <2>1. RolesAt(S, T, x)
    BY <1>11, <1>14 DEF RolesAt
  <2>. QED BY <1>15, <2>1 DEF LeftAt, RequestAt, TablesAt, WireAt, S, T
<1>17. Placed(req, base, net, S, r) /\ Ending(S, r)
  BY <1>1, <1>11 DEF Tables, S
<1>18. /\ ~DropDue(S, r) /\ ~Leaving(S, r) /\ ~Answered(S, r)
       /\ req[r].state \in Underway
       /\ r \notin base.active \cup base.pending
  BY <1>17 DEF Placed, Claimed, Tabled, Out, Underway
<1>19. /\ req[r].registered /\ ~req[r].dropped /\ ~req[r].freed
       /\ ~Unregisters(S, r) /\ ~Finishing(S, r)
  BY <1>17, <1>18 DEF Placed, Detached, Off
<1>20. r \notin Waiting(req', T) /\ r \notin Waiting(req, S)
  BY <1>15, <1>17 DEF Waiting, Out
<1>21. Placed(req', base', net', T, r)
  <2>1. Tabled(req', base', T, r)
    BY <1>13, <1>15, <1>18 DEF Tabled, Underway
  <2>2. Claimed(req', T, r)
    BY <1>1, <1>11, <1>14, <1>18 DEF Claimed
  <2>3. Detached(req', base', T, r)
    BY <1>1, <1>13, <1>14, <1>15, <1>19 DEF Detached
  <2>4. Counted(req', T, r)
    <3>1. "FAILED" \in Terminal
      BY DEF Terminal, States, Live
    <3>. QED BY <1>15, <1>17, <1>20, <3>1 DEF Placed, Counted
  <2>5. Wired(req', net', T, r)
    BY <1>1, <1>13, <1>14, <1>15, <1>17, <1>18, <1>20 DEF Placed, Wired
  <2>. QED BY <2>1, <2>2, <2>3, <2>4, <2>5 DEF Placed
<1>22. Lined(req', base', Waiting(req', T))
  <2>1. ASSUME NEW x \in Requests
        PROVE  x \in Waiting(req', T) <=> x \in Waiting(req, S)
    <3>1. CASE x = r
      BY <1>20, <3>1
    <3>2. CASE x # r
      BY <1>16, <3>2, WaitingKept DEF LeftAt, S, T
    <3>. QED BY <3>1, <3>2
  <2>2. \A x \in Requests : req'[x].next = req[x].next
    BY <1>15
  <2>. QED BY <2>1, <2>2, LinedKept DEF S, T
<1>23. /\ {r} \in SUBSET Requests
       /\ \A x \in Requests \ {r} : /\ LeftAt(x)
                                    /\ req'[x].serial2 = req[x].serial2
                                    /\ req'[x].scheduled = req[x].scheduled
       /\ \A x \in {r} : /\ Placed(req', base', net', Calls(stack'), x)
                         /\ ~Overdue(req', net', Calls(stack'), x)
  BY <1>1, <1>16, <1>20, <1>21 DEF Overdue, T
<1>24. Resting /\ StartStays(fs)
  BY DEF Resting, StartStays, Steady
<1>25. Lined(req', base', Waiting(req', Calls(stack')))
  BY <1>22 DEF T
<1>26. (Blocking = {} => base'.block = None) /\ Up(base', link')
  BY <1>24, SmallerUp
<1>. QED BY <1>4, <1>5, <1>9, <1>10, <1>23, <1>24, <1>25, <1>26, MoveStep

\* All of them have failed.
LEMMA TablesFailNext ==
  ASSUME TypeOK, Tables, SilenceInv, MaxDepth = 0, FailNext
  PROVE  Tables'
<1>1. ~Idle /\ Top.op = "fail" /\ UNCHANGED <<base, net, link>>
  BY RunningTop DEF FailNext
<1>2. CASE Top.todo = {} /\ Become(<<>>) /\ UNCHANGED req
  <2>. DEFINE U == Calls(Tail(stack))
              S == Calls(stack)
              T == Calls(stack')
  <2>1. <<>> \in Frames /\ Calls(<<>>) = {} /\ Simply(<<>>)
    BY CallsOfNone DEF Simply
  <2>2. /\ Going(<<>>, U) /\ T = U /\ U \subseteq S /\ S \subseteq U \cup {Top}
    BY <1>1, <1>2, <2>1, TopCalls
  <2>3. Top.refs = {}
    BY <1>1, <1>2, TopKnows DEF ListOK
  <2>. HIDE DEF U, S, T
  <2>4. ASSUME NEW x \in Requests
        PROVE  LeftAt(x) /\ (x \in Waiting(req', T) <=> x \in Waiting(req, S))
    <3>1. ~Concerns(Top, x)
      BY <1>1, <1>2, <2>3 DEF Concerns, Handling
    <3>2. T = {} \cup U /\ \A f \in {} \cup {Top} : ~Concerns(f, x)
      BY <2>2, <3>1
    <3>3. RolesAt(S, T, x)
      BY <2>2, <3>2, RolesGo
    <3>. QED BY <1>1, <1>2, <3>3, WaitingKept
         DEF LeftAt, RequestAt, TablesAt, WireAt, S, T
  <2>5. Lined(req', base', Waiting(req', Calls(stack')))
    BY <1>1, <1>2, <2>4, LinedKept DEF S, T
  <2>6. /\ {} \in SUBSET Requests
        /\ \A x \in Requests \ {} : /\ LeftAt(x)
                                    /\ req'[x].serial2 = req[x].serial2
                                    /\ req'[x].scheduled = req[x].scheduled
        /\ \A x \in {} : /\ Placed(req', base', net', Calls(stack'), x)
                         /\ ~Overdue(req', net', Calls(stack'), x)
    BY <1>2, <2>4
  <2>7. Resting /\ StartStays(<<>>)
    BY <1>1 DEF Resting, StartStays, Steady
  <2>8. (Blocking = {} => base'.block = None) /\ Up(base', link')
    BY <1>1, <2>7, SmallerUp
  <2>. QED BY <1>1, <2>1, <2>2, <2>5, <2>6, <2>7, <2>8, MoveStep
<1>. QED BY <1>1, <1>2, TablesFailOne DEF FailNext

-----------------------------------------------------------------------------
(***************************************************************************)
(* Requests are cancelled one by one, or freed.                            *)
(***************************************************************************)

\* One more call, made after the others.
LEMMA SimplyMore ==
  ASSUME NEW fs \in Frames, Simply(fs), NEW c \in Frame, Simple(c),
         \A f \in Calls(fs) : ~Crosses(f, c)
  PROVE  Simply(fs \o <<c>>)
<1>1. fs \in Seq(Frame) /\ <<c>> \in Seq(Frame) /\ Len(<<c>>) = 1 /\ Len(fs) \in Nat
  BY DEF Frames
<1>. DEFINE n == Len(fs)
            t == fs \o <<c>>
<1>2. /\ DOMAIN t = 1 .. n + 1 /\ t[n + 1] = c
      /\ \A i \in 1 .. n : t[i] = fs[i]
  BY <1>1
<1>3. DOMAIN fs = 1 .. n /\ \A i \in 1 .. n : fs[i] \in Calls(fs)
  BY <1>1 DEF Calls
<1>4. n \in Nat
  BY <1>1
<1>. HIDE DEF t, n
<1>5. ASSUME NEW i \in DOMAIN t, NEW j \in DOMAIN t, i < j
      PROVE  ~Crosses(t[i], t[j])
  <2>1. i \in 1 .. n /\ (j \in 1 .. n \/ j = n + 1)
    BY <1>2, <1>4, <1>5
  <2>2. t[i] = fs[i] /\ fs[i] \in Calls(fs)
    BY <1>2, <1>3, <2>1
  <2>3. CASE j \in 1 .. n
    BY <1>2, <1>3, <1>5, <2>1, <2>3 DEF Simply
  <2>4. CASE j = n + 1
    BY <1>2, <2>2, <2>4
  <2>. QED BY <2>1, <2>3, <2>4
<1>6. \A f \in Calls(t) : Simple(f)
  BY <1>2, <1>3, <1>4 DEF Calls, Simply
<1>. QED BY <1>5, <1>6 DEF Simply, t

\* A request is cancelled outside the scan, where it is at rest.
LEMMA TablesCancels ==
  ASSUME TypeOK, Tables, Resting, NEW r \in Requests, Cancels(r),
         NEW c \in Frame, c.op \in {"cancel", "finish"}, c.op = "finish" => c.r = r,
         NEW fs \in Frames, fs = ObjectCancelCalls(req, r) \o <<c>>,
         NEW U, Going(fs, U), StartStays(fs), c.op = "cancel" => U = {},
         NEW W, Calls(stack) \subseteq U \cup W,
         \A h \in W, x \in Requests : ~Concerns(h, x),
         \A h \in U : ~Concerns(h, r),
         Finishing({c}, r) => ~req[r].held /\ r \notin base.active,
         ~Overdue(req, net, Calls(stack), r), UNCHANGED link
  PROVE  Tables'
<1>. DEFINE S == Calls(stack)
            T == Calls(stack')
            gs == ObjectCancelCalls(req, r)
            V == {c} \cup U
<1>0. req \in RequestMap
  BY DEF TypeOK, RequestMap
<1>1. /\ gs \in Frames /\ Simply(gs)
      /\ \A f \in Calls(gs) : f.op \in {"drop", "unregister"} /\ f.r = r
  BY <1>0, CancelCalls
<1>. HIDE DEF gs
<1>2. Simple(c) /\ ~Lists(c)
  BY DEF Simple, Steady, Lists
<1>3. Simply(fs)
  <2>1. \A f \in Calls(gs) : ~Crosses(f, c)
    BY <1>1, <1>2 DEF Crosses, Simple
  <2>2. Simply(gs \o <<c>>)
    BY <1>1, <1>2, <2>1, SimplyMore
  <2>. QED BY <2>2 DEF gs
<1>4. Calls(fs) = Calls(gs) \cup {c}
  <2>1. <<c>> \in Frames /\ Calls(<<c>>) = {c}
    BY CallsOfOne
  <2>2. Calls(gs \o <<c>>) = Calls(gs) \cup Calls(<<c>>)
    BY <1>1, <2>1, CallsOfBoth
  <2>. QED BY <2>1, <2>2 DEF gs
<1>5. T = Calls(fs) \cup U /\ U \subseteq S
  BY GoingCalls
<1>6. \A h \in U : Simple(h)
  BY <1>5, RestingCalls
<1>7. \A f \in Calls(fs), h \in U : ~Crosses(f, h)
  <2>1. ASSUME NEW h \in U
        PROVE  /\ h.op \notin Steady
               /\ h.op \in {"drop", "dropped"} => h.r # r
    BY <1>6, <2>1 DEF Simple, Concerns, Handling
  <2>2. ASSUME NEW f \in Calls(fs)
        PROVE  /\ f.op \in {"drop", "unregister", "finish", "cancel"} /\ ~Lists(f)
               /\ f.op = "cancel" => U = {}
               /\ f.op \in {"unregister", "finish"} => f.r = r
    <3>1. CASE f \in Calls(gs)
      BY <1>1, <3>1 DEF Lists
    <3>2. CASE f = c
      BY <1>2, <3>2
    <3>. QED BY <1>4, <3>1, <3>2
  <2>. QED BY <2>1, <2>2 DEF Crosses
<1>8. ASSUME NEW x \in Requests \ {r}
      PROVE  \A f \in Calls(fs) : ~Concerns(f, x)
  <2>1. ~Concerns(c, x)
    BY <1>2, <1>8 DEF Concerns, Handling
  <2>2. \A f \in Calls(gs) : ~Concerns(f, x)
    BY <1>1, <1>8 DEF Concerns, Lists
  <2>. QED BY <1>4, <2>1, <2>2
<1>9. NoRoles(S, r) /\ AtRest(req, base, net, r)
  <2>1. \A h \in S : ~Concerns(h, r)
    OBVIOUS
  <2>2. NoRoles(S, r)
    BY <2>1, NoConcern
  <2>. QED BY <2>2, AtRestPlaced DEF Tables
<1>. HIDE DEF S, T
<1>10. ASSUME NEW x \in Requests \ {r}
       PROVE  LeftAt(x) /\ req'[x] = req[x]
  <2>1. \A f \in Calls(fs) \cup W : ~Concerns(f, x)
    BY <1>8
  <2>2. RolesAt(S, T, x)
    BY <1>5, <2>1, RolesGo DEF S
  <2>. QED BY <2>2, CancelledOthers DEF LeftAt, S, T
<1>11. Placed(req', base', net', T, r)
  <2>1. T = Calls(ObjectCancelCalls(req, r)) \cup V
    BY <1>4, <1>5 DEF gs
  <2>2. \A f \in V : ~Concerns(f, r) \/ f.op = "finish"
    BY <1>2 DEF Concerns, Handling
  <2>3. Finishing(V, r) => ~req[r].held /\ r \notin base.active
    <3>1. Finishing(V, r) => Finishing({c}, r)
      BY DEF Finishing, Concerns, Handling
    <3>. QED BY <3>1
  <2>. HIDE DEF V
  <2>. QED BY <1>9, <2>1, <2>2, <2>3, CancelledPlaced
<1>12. r \in Waiting(req', T) <=> r \in Waiting(req, S)
  <2>1. ~Out(T, r)
    <3>1. \A f \in T : /\ f.op = "dropped" => f.r # r
                       /\ Lists(f) => r \notin f.refs \cup f.todo
      <4>1. \A h \in U : /\ h.op = "dropped" => h.r # r
                         /\ Lists(h) => r \notin h.refs \cup h.todo
        BY DEF Concerns, Handling
      <4>. QED BY <1>1, <1>2, <1>4, <1>5, <4>1 DEF Lists
    <3>. QED BY <3>1 DEF Out, Leaving, Ending, Lists
  <2>2. ~Out(S, r)
    BY <1>9 DEF NoRoles, Out
  <2>. QED BY <2>1, <2>2 DEF Waiting, Cancels
<1>13. \A x \in Requests : x \in Waiting(req', T) <=> x \in Waiting(req, S)
  BY <1>10, <1>12, WaitingKept DEF LeftAt, S, T
<1>14. Lined(req', base', Waiting(req', Calls(stack')))
  <2>1. \A x \in Requests : req'[x].next = req[x].next
    BY <1>10 DEF Cancels
  <2>. QED BY <1>13, <2>1, LinedKept DEF Cancels, S, T
<1>15. ~Overdue(req', net', T, r)
  <2>1. WireAt(net, net', r)
    BY CancelNetFields DEF Cancels, WireAt
  <2>2. /\ req'[r].serial2 = req[r].serial2
        /\ req'[r].registered = req[r].registered
    BY DEF Cancels
  <2>. QED BY <1>12, <2>1, <2>2, OverdueKept DEF S
<1>16. /\ {r} \in SUBSET Requests
       /\ \A x \in Requests \ {r} : /\ LeftAt(x)
                                    /\ req'[x].serial2 = req[x].serial2
                                    /\ req'[x].scheduled = req[x].scheduled
       /\ \A x \in {r} : /\ Placed(req', base', net', Calls(stack'), x)
                         /\ ~Overdue(req', net', Calls(stack'), x)
  BY <1>10, <1>11, <1>15 DEF T
<1>17. (Blocking = {} => base'.block = None) /\ Up(base', link')
  BY SmallerUp DEF Cancels
<1>. QED BY <1>3, <1>7, <1>14, <1>16, <1>17, MoveStep

\* The requests of a group are cancelled one by one.
LEMMA TablesCancelNext ==
  ASSUME TypeOK, Tables, CancelNext
  PROVE  Tables'
<1>. DEFINE S == Calls(stack)
            U == Calls(Tail(stack))
<1>1. ~Idle /\ Top.op = "cancel" /\ UNCHANGED <<base, link>>
  BY RunningTop DEF CancelNext
<1>2. Aside(Top) /\ Resting
  BY <1>1 DEF Aside, Handling, Resting, Steady
<1>3. CASE Top.todo = {} /\ Become(<<>>) /\ UNCHANGED <<req, net>>
  <2>1. Settled(req, req') /\ SameTables(base, base')
    BY <1>1, <1>3, SettledSame DEF SameTables
  <2>. QED BY <1>1, <1>2, <1>3, <2>1, SettledReturn DEF Steady
<1>4. ASSUME NEW r \in Top.todo,
             req' = Withdraw(ObjectCancelReq(req, r), r),
             net' = CancelNet(req, r),
             Become(ObjectCancelCalls(req, r) \o <<[Top EXCEPT !.todo = @ \ {r}]>>)
      PROVE  Tables'
  <2>. DEFINE c == [Top EXCEPT !.todo = @ \ {r}]
              gs == ObjectCancelCalls(req, r)
              fs == gs \o <<c>>
  <2>1. r \in Requests /\ req \in RequestMap
    BY <1>1, TopType DEF TypeOK, RequestMap
  <2>2. c \in Frame /\ c.op = "cancel"
    <3>1. c \in Frame
      BY <1>1, TodoType
    <3>2. Top \in Frame
      BY <1>1, TopType
    <3>. QED BY <1>1, <3>1, <3>2 DEF Frame
  <2>. HIDE DEF c
  <2>3. fs \in Frames
    <3>1. gs \in Frames
      BY <2>1, CancelCalls
    <3>. QED BY <2>2, <3>1, FramesType
  <2>4. Become(fs) /\ fs = ObjectCancelCalls(req, r) \o <<c>>
    BY <1>4 DEF c
  <2>. HIDE DEF fs, gs
  <2>5. /\ Going(fs, U) /\ S \subseteq U \cup {Top}
        /\ \A h \in U : ~Crosses(Top, h)
    BY <1>1, <2>3, <2>4, TopCalls
  <2>6. U = {}
    BY <1>1, <2>5 DEF Crosses
  <2>7. Cancels(r)
    BY <1>1, <1>4, <2>1, CancelsRequest
  <2>8. \A h \in {Top}, x \in Requests : ~Concerns(h, x)
    BY <1>2, AsideConcerns
  <2>9. ~Overdue(req, net, S, r)
    <3>1. \A f \in S : f.op # "start" /\ ~Scans(f)
      BY <1>1, <2>5, <2>6 DEF Scans
    <3>. QED BY <2>1, <3>1 DEF Tables, Promptly, ToStart
  <2>10. ~Finishing({c}, r) /\ StartStays(fs)
    BY <1>1, <2>2 DEF Finishing, StartStays
  <2>11. S \subseteq {} \cup {Top} /\ c.op \in {"cancel", "finish"} /\ UNCHANGED link
    BY <1>1, <1>4, <2>2, <2>5, <2>6
  <2>12. Going(fs, {}) /\ \A h \in {} : ~Concerns(h, r)
    BY <2>5, <2>6
  <2>13. c.op = "finish" => c.r = r
    BY <2>2
  <2>. DEFINE W == {Top}
              H == {}
  <2>14. /\ Calls(stack) \subseteq H \cup W
         /\ \A h \in W, x \in Requests : ~Concerns(h, x)
         /\ Going(fs, H) /\ \A h \in H : ~Concerns(h, r)
         /\ c.op = "cancel" => H = {}
         /\ ~Overdue(req, net, Calls(stack), r)
         /\ Finishing({c}, r) => ~req[r].held /\ r \notin base.active
         /\ StartStays(fs) /\ Resting /\ UNCHANGED link
    BY <1>2, <2>8, <2>9, <2>10, <2>11, <2>12
  <2>. HIDE DEF W, H
  <2>. QED BY <2>1, <2>2, <2>3, <2>4, <2>7, <2>11, <2>13, <2>14, TablesCancels
<1>. QED BY <1>3, <1>4 DEF CancelNext

\* Nothing is left of a request that is freed.
LEMMA TablesFree ==
  ASSUME TypeOK, Tables, SilenceInv, NEW r \in Requests, Free(r)
  PROVE  Tables'
<1>. DEFINE S == Calls(stack)
            c == Call("finish", r)
            gs == ObjectCancelCalls(req, r)
            fs == gs \o <<c>>
<1>1. /\ r \in Garbage /\ ~Referenced(r) /\ req' = ObjectCancelReq(req, r)
      /\ net' = CancelNet(req, r) /\ Enter(fs) /\ UNCHANGED <<base, link>>
  BY DEF Free, Garbage
<1>2. c \in Frame /\ c.op = "finish" /\ c.r = r
  BY RequestCallType DEF Ops, ObservedOps, Call
<1>. HIDE DEF c
<1>3. fs \in Frames
  <2>1. req \in RequestMap
    BY DEF TypeOK, RequestMap
  <2>2. gs \in Frames
    BY <2>1, CancelCalls
  <2>. QED BY <1>2, <2>2, FramesType
<1>4. fs = ObjectCancelCalls(req, r) \o <<c>>
  OBVIOUS
<1>. HIDE DEF fs, gs
<1>5. Going(fs, S) /\ StartStays(fs) /\ S \subseteq S \cup {}
  BY <1>1 DEF Going, StartStays
<1>6. \A f \in S : f.op \notin Steady
  BY <1>1 DEF Tables, Fitting, Clean
<1>7. Resting
  <2>1. ~Idle => Top \in Calls(stack)
    <3>1. stack \in Seq(Frame)
      BY DEF TypeOK
    <3>. QED BY <3>1 DEF Idle, Top, Calls
  <2>. QED BY <1>6, <2>1 DEF Resting
<1>8. \A h \in S : ~Concerns(h, r)
  <2>1. r # None
    BY ConstantsAssumption
  <2>2. ASSUME NEW h \in S
        PROVE  /\ r \notin h.refs /\ ListOK(h)
               /\ h.op \notin {"scan", "sent", "refused"} => h.r # r
    <3>1. PICK i \in DOMAIN stack : stack[i] = h
      BY <2>2 DEF Calls
    <3>2. r \notin FrameRefs(h)
      BY <1>1, <3>1 DEF Referenced
    <3>. QED BY <2>1, <2>2, <3>2 DEF FrameRefs, SilenceInv, References
  <2>. QED BY <2>2 DEF Concerns, Handling, ListOK, Lists
<1>9. Cancels(r)
  BY <1>1, CancelsRequest
<1>10. ~req[r].held /\ r \notin base.active
  BY <1>1 DEF Referenced
<1>11. ~Overdue(req, net, S, r)
  <2>1. NoRoles(S, r)
    BY <1>8, NoConcern
  <2>2. AtRest(req, base, net, r)
    BY <2>1, AtRestPlaced DEF Tables
  <2>3. r \notin Waiting(req, S)
    BY <1>10, <2>2 DEF AtRest, Underway, Waiting
  <2>. QED BY <2>3 DEF Overdue
<1>. DEFINE W == {}
<1>12. /\ \A h \in W, x \in Requests : ~Concerns(h, x)
       /\ Calls(stack) \subseteq S \cup W /\ ~Overdue(req, net, Calls(stack), r)
       /\ c.op \in {"cancel", "finish"} /\ (c.op = "cancel" => S = {})
  BY <1>2, <1>11
<1>. HIDE DEF W, S
<1>. QED BY <1>1, <1>2, <1>3, <1>4, <1>5, <1>7, <1>8, <1>9, <1>10, <1>12, TablesCancels

-----------------------------------------------------------------------------
(***************************************************************************)
(* Requests expire one by one.                                             *)
(***************************************************************************)

\* What keeps a request besides its user.
KeptBesides(b, n, S, x) ==
  \/ x \in b.active \cup b.pending
  \/ b.block = x
  \/ \E t \in n.outstanding : t[1] = x
  \/ \E f \in S : x \in FrameRefs(f)

\* A step that keeps what was kept frees nothing.
LEMMA CleanKept ==
  ASSUME Clean,
         \A x \in Requests :
           /\ req'[x].freed = req[x].freed /\ req'[x].held = req[x].held
           /\ KeptBesides(base, net, Calls(stack), x)
                => KeptBesides(base', net', Calls(stack'), x)
  PROVE  Clean'
<1>1. ASSUME NEW x \in Requests
      PROVE  req'[x].freed \/ Referenced(x)'
  <2>1. req[x].freed \/ Referenced(x)
    BY DEF Clean, Garbage
  <2>2. Referenced(x) => req[x].held \/ KeptBesides(base, net, Calls(stack), x)
    BY DEF Referenced, KeptBesides, Calls
  <2>3. req'[x].held \/ KeptBesides(base', net', Calls(stack'), x) => Referenced(x)'
    BY DEF Referenced, KeptBesides, Calls
  <2>. QED BY <2>1, <2>2, <2>3
<1>. QED BY <1>1 DEF Clean, Garbage

\* What a step that handles the expired requests has to show.
LEMMA ExpireStep ==
  ASSUME TypeOK, Tables, ~Idle, Top.op = "expire",
         NEW c \in Frame, Lists(c), Become(<<c>>), UNCHANGED link,
         NEW R \in SUBSET Requests,
         \A x \in Requests \ R : /\ LeftAt(x)
                                 /\ req'[x].serial2 = req[x].serial2
                                 /\ req'[x].scheduled = req[x].scheduled,
         \A r \in R : /\ Placed(req', base', net', Calls(stack'), r)
                      /\ ~Overdue(req', net', Calls(stack'), r),
         Lined(req', base', Waiting(req', Calls(stack'))),
         base'.active \subseteq base.active, base'.pending \subseteq base.pending,
         base'.block \in {base.block, None},
         base.first = None => base'.first = None /\ base'.last = base.last,
         c.op = "expire" => Clean'
  PROVE  Tables'
<1>. DEFINE S == Calls(stack)
            T == Calls(stack')
            U == Calls(Tail(stack))
            fs == <<c>>
<1>1. fs \in Frames /\ Calls(fs) = {c}
  BY CallsOfOne
<1>2. /\ Going(fs, U) /\ T = {c} \cup U /\ U \subseteq S /\ S \subseteq U \cup {Top}
      /\ Top \in S /\ \A h \in U : /\ ~Crosses(Top, h) /\ h.op \notin Steady
                                   /\ h.op # "callback"
  BY <1>1, TopCalls
<1>3. \A h \in U : ~Lists(h) /\ ~Scans(h)
  BY <1>2 DEF Crosses, Lists, Scans, Steady
<1>4. ~Scans(c) /\ c.op # "die" /\ c.op # "cancel" /\ c.op # "callback"
      /\ c.op # "start" /\ c.op # "unregister" /\ c.op # "finish" /\ c.op # "sent"
      /\ (c.op \in Steady => c.op = "expire")
  BY DEF Lists, Scans, Steady
<1>5. \A i, j \in DOMAIN fs : i < j => ~Crosses(fs[i], fs[j])
  OBVIOUS
<1>6. \A f \in Calls(fs), h \in U : ~Crosses(f, h)
  BY <1>1, <1>2, <1>3, <1>4 DEF Crosses
<1>. HIDE DEF fs, U, S, T
<1>7. Cursors(req', base', net', T)
  BY <1>2, <1>3, <1>4 DEF Cursors
<1>8. Promptly(req', net', link', T)
  <2>1. ASSUME NEW x \in Requests, Overdue(req', net', T, x)
        PROVE  Prompt /\ req'[x].scheduled = 0 /\ link'.connected /\ ToStart(T)
    <3>1. x \notin R
      BY <2>1 DEF T
    <3>2. /\ RequestAt(req, req', x) /\ WireAt(net, net', x) /\ RolesAt(S, T, x)
          /\ req'[x].serial2 = req[x].serial2
          /\ req'[x].scheduled = req[x].scheduled
      BY <3>1 DEF LeftAt, S, T
    <3>3. x \in Waiting(req', T) => x \in Waiting(req, S)
      BY <3>2, WaitingKept DEF RequestAt
    <3>4. Overdue(req, net, S, x)
      BY <2>1, <3>2, <3>3, OverdueKept DEF RequestAt
    <3>5. /\ Prompt /\ req[x].scheduled = 0 /\ link.connected
          /\ ToStart(S) \/ \E f \in S : Scans(f)
      BY <3>4 DEF Tables, Promptly, S
    <3>6. \A f \in S : ~Scans(f)
      BY <1>2, <1>3 DEF Scans
    <3>7. ToStart(S) => ToStart(T)
      BY <1>2 DEF ToStart
    <3>. QED BY <3>2, <3>5, <3>6, <3>7
  <2>. QED BY <2>1 DEF Promptly
<1>9. Fitting'
  <2>1. \A f \in T : FrameFits(base', link', f)
    <3>1. FrameFits(base', link', c)
      BY <1>4 DEF FrameFits
    <3>2. ASSUME NEW h \in U
          PROVE  FrameFits(base', link', h)
      <4>1. FrameFits(base, link, h)
        BY <1>2 DEF Tables, Fitting, S
      <4>. QED BY <1>2, <1>3, <3>2, <4>1 DEF FrameFits, Scans
    <3>. QED BY <1>2, <3>1, <3>2
  <2>2. (\E f \in T : f.op \in Steady) => Clean'
    BY <1>2, <1>4
  <2>. QED BY <2>1, <2>2 DEF Fitting, T
<1>10. Linked(base, link)'
  <2>1. \A f \in S : f.op # "die"
    BY <1>2 DEF Steady
  <2>2. /\ link.dead => ~link.connected
        /\ Blocking = {} => base.block = None
        /\ base.pending # {} => link.connected
        /\ link.dead => /\ base.active = {} /\ base.pending = {}
                        /\ base.first = None /\ base.last = None
    BY <2>1 DEF Tables, Linked, S
  <2>. QED BY <2>2 DEF Linked
<1>11. /\ \A x \in Requests \ R : LeftAt(x)
       /\ \A r \in R : Placed(req', base', net', Calls(stack'), r)
  OBVIOUS
<1>. QED BY <1>1, <1>2, <1>5, <1>6, <1>7, <1>8, <1>9, <1>10, <1>11, AnyStep DEF T

\* An expired request leaves the tables, or all have left.
LEMMA TablesExpire ==
  ASSUME TypeOK, Tables, SilenceInv, IsFiniteSet(Requests), Expire
  PROVE  Tables'
<1>. DEFINE S == Calls(stack)
            T == Calls(stack')
            U == Calls(Tail(stack))
<1>1. ~Idle /\ Top.op = "expire" /\ Clean /\ UNCHANGED <<net, link>>
  BY RunningTop DEF Expire
<1>2. /\ Top \in Frame /\ Top.todo \in SUBSET Requests /\ Top.refs \in SUBSET Requests
      /\ Top.todo \subseteq Top.refs /\ req \in RequestMap /\ base \in BaseRecord
  BY <1>1, TopType, TopKnows DEF ListOK, Lists, TypeOK, RequestMap
<1>3. ASSUME NEW c \in Frame, Become(<<c>>)
      PROVE  /\ T = {c} \cup U /\ S = {Top} \cup U
             /\ \A h \in U : ~Lists(h)
  <2>1. <<c>> \in Frames /\ Calls(<<c>>) = {c}
    BY CallsOfOne
  <2>. QED BY <1>1, <1>3, <2>1, TopCalls DEF Crosses, Lists
<1>. HIDE DEF S, T, U
<1>4. ASSUME NEW r \in Top.todo,
             req' = DeactivateReq(req, base, r),
             base' = DeactivateBase(req, base, r),
             Become(<<[Top EXCEPT !.todo = @ \ {r}]>>)
      PROVE  Tables'
  <2>. DEFINE c == [Top EXCEPT !.todo = @ \ {r}]
  <2>1. c \in Frame /\ c.op = "expire" /\ c.todo = Top.todo \ {r} /\ c.refs = Top.refs
        /\ c.r = Top.r
    <3>1. c \in Frame
      BY <1>1, TodoType
    <3>. QED BY <1>1, <1>2, <3>1 DEF Frame
  <2>2. Become(<<c>>)
    BY <1>4
  <2>. HIDE DEF c
  <2>3. T = {c} \cup U /\ S = {Top} \cup U /\ \A h \in U : ~Lists(h)
    BY <1>3, <2>1, <2>2
  <2>4. r \in Requests
    BY <1>2
  <2>5. ASSUME NEW x \in Requests
        PROVE  /\ Stolen(S, x) <=> x \in Top.todo
               /\ Stolen(T, x) <=> x \in Top.todo \ {r}
               /\ Ending(S, x) <=> x \in Top.refs \ Top.todo
               /\ Ending(T, x) <=> x \in Top.refs \ (Top.todo \ {r})
    <3>1. S = {} \cup {Top} \cup U /\ T = {} \cup {c} \cup U
      BY <2>3
    <3>2. \A f \in {} : ~Lists(f)
      OBVIOUS
    <3>3. /\ Stolen({} \cup {Top} \cup U, x) <=> "expire" = "expire" /\ x \in Top.todo
          /\ Ending({} \cup {Top} \cup U, x) <=>
                \/ "expire" = "expire" /\ x \in Top.refs \ Top.todo
                \/ "expire" = "fail" /\ x \in Top.todo
      BY <1>1, <2>3, <3>2, FailRoles
    <3>4. /\ Stolen({} \cup {c} \cup U, x) <=> "expire" = "expire" /\ x \in c.todo
          /\ Ending({} \cup {c} \cup U, x) <=>
                \/ "expire" = "expire" /\ x \in c.refs \ c.todo
                \/ "expire" = "fail" /\ x \in c.todo
      BY <2>1, <2>3, <3>2, FailRoles
    <3>. QED BY <2>1, <3>1, <3>3, <3>4
  <2>6. ASSUME NEW x \in Requests
        PROVE  /\ DropDue(T, x) <=> DropDue(S, x)
               /\ Leaving(T, x) <=> Leaving(S, x)
               /\ Unregisters(T, x) <=> Unregisters(S, x)
               /\ Finishing(T, x) <=> Finishing(S, x)
               /\ Answered(T, x) <=> Answered(S, x)
    BY <1>1, <2>1, <2>3 DEF DropDue, Leaving, Unregisters, Finishing, Answered
  <2>7. ASSUME NEW x \in Requests
        PROVE  /\ Marks(req[x], req'[x]) /\ req'[x].state = req[x].state
               /\ req'[x].tx = req[x].tx /\ req'[x].scheduled = req[x].scheduled
    BY <1>2, <1>4, <2>4, DeactivateFields
  <2>8. /\ base'.active = base.active \ {r} /\ base'.pending = base.pending \ {r}
        /\ base'.block = IF base.block = r THEN None ELSE base.block
    BY <1>2, <1>4, <2>4, DeactivateTables
  <2>9. ASSUME NEW x \in Requests \ {r}
        PROVE  LeftAt(x)
    <3>1. RolesAt(S, T, x)
      BY <2>5, <2>6 DEF RolesAt
    <3>2. RequestAt(req, req', x)
      BY <2>7 DEF RequestAt, Marks
    <3>3. TablesAt(base, base', x) /\ WireAt(net, net', x)
      <4>1. x # None
        BY ConstantsAssumption
      <4>. QED BY <1>1, <2>8, <4>1 DEF TablesAt, WireAt
    <3>. QED BY <3>1, <3>2, <3>3 DEF LeftAt, S, T
  <2>10. Placed(req, base, net, S, r) /\ Stolen(S, r)
    BY <2>4, <2>5 DEF Tables, S
  <2>11. /\ req[r].state \in Underway /\ ~DropDue(S, r) /\ ~Leaving(S, r)
         /\ ~Answered(S, r) /\ req[r].registered /\ ~req[r].dropped
         /\ ~req[r].freed /\ ~Unregisters(S, r) /\ ~Finishing(S, r)
    BY <2>10 DEF Placed, Claimed, Detached, Off, Underway
  <2>12. ~Stolen(T, r) /\ Ending(T, r)
    BY <1>2, <2>4, <2>5
  <2>13. r \notin Waiting(req', T)
    BY <2>12 DEF Waiting, Out
  <2>14. Marks(req[r], req'[r]) /\ req'[r].state = req[r].state
         /\ req'[r].tx = req[r].tx
    BY <2>4, <2>7
  <2>15. Placed(req', base', net', T, r)
    <3>1. Tabled(req', base', T, r)
      <4>1. r # None
        BY <2>4, ConstantsAssumption
      <4>. QED BY <2>8, <2>12, <4>1 DEF Tabled, Out
    <3>2. Claimed(req', T, r)
      BY <2>4, <2>6, <2>11, <2>12, <2>14 DEF Claimed
    <3>3. Detached(req', base', T, r)
      BY <2>4, <2>6, <2>11, <2>14 DEF Detached, Marks
    <3>4. Counted(req', T, r)
      BY <2>10, <2>13, <2>14 DEF Placed, Counted, Marks
    <3>5. Wired(req', net', T, r)
      BY <1>1, <2>4, <2>6, <2>10, <2>11, <2>12, <2>13, <2>14 DEF Placed, Wired, Marks
    <3>. QED BY <3>1, <3>2, <3>3, <3>4, <3>5 DEF Placed
  <2>16. /\ Lined(req', base', Waiting(req', T))
         /\ base.first = None => base'.first = None /\ base'.last = base.last
    <3>. DEFINE V == Waiting(req', T)
                W == Waiting(req, S)
    <3>1. ASSUME NEW x \in Requests
          PROVE  x \in V <=> x \in W /\ x # r
      <4>1. CASE x = r
        BY <2>13, <4>1
      <4>2. CASE x # r
        BY <2>9, <4>2, WaitingKept DEF LeftAt, RequestAt, S, T
      <4>. QED BY <4>1, <4>2
    <3>2. Lined(req, base, W) /\ (r \in W => req[r].state = "QUEUED")
      BY DEF Tables, S, Waiting
    <3>. HIDE DEF V, W
    <3>3. /\ Lined(DeactivateReq(req, base, r), DeactivateBase(req, base, r), V)
          /\ base.first = None =>
               /\ DeactivateBase(req, base, r).first = None
               /\ DeactivateBase(req, base, r).last = base.last
      BY <1>2, <2>4, <3>1, <3>2, LinedDeactivate
    <3>. QED BY <1>4, <3>3 DEF V
  <2>17. Clean'
    <3>1. ASSUME NEW x \in Requests, KeptBesides(base, net, S, x)
          PROVE  KeptBesides(base', net', T, x)
      <4>1. FrameRefs(c) = FrameRefs(Top)
        BY <1>1, <2>1 DEF FrameRefs
      <4>2. r \in FrameRefs(c)
        BY <1>2, <2>1 DEF FrameRefs
      <4>3. \A f \in S : \E g \in T : FrameRefs(g) = FrameRefs(f)
        BY <2>3, <4>1
      <4>4. CASE x = r
        BY <2>3, <4>2, <4>4 DEF KeptBesides
      <4>5. CASE x # r
        <5>1. x # None
          BY ConstantsAssumption
        <5>. QED BY <1>1, <2>8, <3>1, <4>3, <4>5, <5>1 DEF KeptBesides
      <4>. QED BY <4>4, <4>5
    <3>. QED BY <1>1, <2>7, <3>1, CleanKept DEF Marks, S, T
  <2>18. /\ {r} \in SUBSET Requests
         /\ \A x \in Requests \ {r} : /\ LeftAt(x)
                                      /\ req'[x].serial2 = req[x].serial2
                                      /\ req'[x].scheduled = req[x].scheduled
         /\ \A x \in {r} : /\ Placed(req', base', net', Calls(stack'), x)
                           /\ ~Overdue(req', net', Calls(stack'), x)
    BY <2>4, <2>7, <2>9, <2>13, <2>15 DEF Overdue, Marks, T
  <2>19. Lists(c) /\ Lined(req', base', Waiting(req', Calls(stack')))
    BY <2>1, <2>16 DEF Lists, T
  <2>20. /\ base'.active \subseteq base.active /\ base'.pending \subseteq base.pending
         /\ base'.block \in {base.block, None}
    BY <2>8
  <2>. QED BY <1>1, <2>1, <2>2, <2>16, <2>17, <2>18, <2>19, <2>20, ExpireStep
<1>5. CASE Top.todo = {} /\ Become(<<ListCall("fail", Top.refs)>>)
           /\ UNCHANGED <<req, base>>
  <2>. DEFINE c == ListCall("fail", Top.refs)
  <2>1. c \in Frame /\ c.op = "fail" /\ c.todo = Top.refs /\ c.refs = Top.refs
    BY <1>2, ListCallType DEF ListCall, Call
  <2>2. Become(<<c>>)
    BY <1>5
  <2>. HIDE DEF c
  <2>3. T = {c} \cup U /\ S = {Top} \cup U /\ \A h \in U : ~Lists(h)
    BY <1>3, <2>1, <2>2
  <2>4. ASSUME NEW x \in Requests
        PROVE  LeftAt(x) /\ (x \in Waiting(req', T) <=> x \in Waiting(req, S))
    <3>1. /\ DropDue(T, x) <=> DropDue(S, x)
          /\ Leaving(T, x) <=> Leaving(S, x)
          /\ Unregisters(T, x) <=> Unregisters(S, x)
          /\ Finishing(T, x) <=> Finishing(S, x)
          /\ Answered(T, x) <=> Answered(S, x)
      BY <1>1, <2>1, <2>3 DEF DropDue, Leaving, Unregisters, Finishing, Answered
    <3>2. Stolen(T, x) <=> Stolen(S, x)
      BY <1>1, <1>5, <2>1, <2>3 DEF Stolen, Lists
    <3>3. Ending(T, x) <=> Ending(S, x)
      BY <1>1, <1>5, <2>1, <2>3 DEF Ending, Lists
    <3>4. RolesAt(S, T, x)
      BY <3>1, <3>2, <3>3 DEF RolesAt
    <3>. QED BY <1>1, <1>5, <3>4, WaitingKept
         DEF LeftAt, RequestAt, TablesAt, WireAt, S, T
  <2>5. Lined(req', base', Waiting(req', Calls(stack')))
    BY <1>5, <2>4, LinedKept DEF S, T
  <2>6. /\ {} \in SUBSET Requests
        /\ \A x \in Requests \ {} : /\ LeftAt(x)
                                    /\ req'[x].serial2 = req[x].serial2
                                    /\ req'[x].scheduled = req[x].scheduled
        /\ \A x \in {} : /\ Placed(req', base', net', Calls(stack'), x)
                         /\ ~Overdue(req', net', Calls(stack'), x)
    BY <1>5, <2>4
  <2>7. Lists(c) /\ c.op # "expire"
    BY <2>1 DEF Lists
  <2>8. /\ base'.active \subseteq base.active /\ base'.pending \subseteq base.pending
        /\ base'.block \in {base.block, None}
        /\ base.first = None => base'.first = None /\ base'.last = base.last
    BY <1>5
  <2>. QED BY <1>1, <2>1, <2>2, <2>5, <2>6, <2>7, <2>8, ExpireStep
<1>. QED BY <1>1, <1>4, <1>5 DEF Expire

-----------------------------------------------------------------------------
(***************************************************************************)
(* The scan of the queue.                                                  *)
(***************************************************************************)
Scanners == {"start", "scan", "sent"}

\* A scan goes on: no other call changes, and no request is being failed
\* or expires.
LEMMA ScanCalls ==
  ASSUME TypeOK, Tables, ~Idle, Top.op \in Scanners,
         NEW fs \in Frames, \A f \in Calls(fs) : Scans(f), Become(fs)
  PROVE  LET U == Calls(Tail(stack))
         IN  /\ Going(fs, U) /\ Calls(stack') = Calls(fs) \cup U
             /\ Calls(stack) = {Top} \cup U
             /\ \A x \in Requests : RolesAt(Calls(stack), Calls(stack'), x)
             /\ \A h \in U : /\ ~Scans(h) /\ h.op \notin Steady
                             /\ h.op # "callback"
             /\ \A f \in Calls(fs), h \in U : ~Crosses(f, h)
             /\ \A x \in Requests : ~Stolen(Calls(stack), x)
             /\ \A f \in Calls(stack) : f.op # "die"
             /\ ToStart(Calls(stack')) => ToStart(Calls(stack))
             /\ Top.op # "start" => (ToStart(Calls(stack))
                                       => ToStart(Calls(stack')))
<1>. DEFINE U == Calls(Tail(stack))
            S == Calls(stack)
            T == Calls(stack')
<1>1. /\ Going(fs, U) /\ T = Calls(fs) \cup U /\ U \subseteq S
      /\ S \subseteq U \cup {Top} /\ Top \in S
      /\ \A h \in U : h.op \notin Steady /\ h.op # "callback"
  BY TopCalls
<1>. HIDE DEF U, S, T
<1>2. \A h \in U : ~Scans(h)
  BY <1>1 DEF Scans, Steady
<1>3. \A f \in Calls(fs) \cup {Top} : Aside(f)
  BY DEF Scanners, Scans, Aside, Handling
<1>4. \A x \in Requests : RolesAt(S, T, x)
  BY <1>1, <1>3, AsideConcerns, RolesGo
<1>5. \A f \in Calls(fs), h \in U : ~Crosses(f, h)
  BY <1>1 DEF Scans, Crosses, Lists
<1>6. \A f \in S : f.op # "expire" /\ f.op # "die"
  BY <1>1 DEF Scanners, Steady
<1>7. \A x \in Requests : ~Stolen(S, x)
  BY <1>6 DEF Stolen
<1>8. ToStart(T) => ToStart(S)
  BY <1>1 DEF ToStart, Scans
<1>9. Top.op # "start" => (ToStart(S) => ToStart(T))
  BY <1>1 DEF ToStart
<1>. QED BY <1>1, <1>2, <1>4, <1>5, <1>6, <1>7, <1>8, <1>9 DEF U, S, T

\* What a step of the scan has to show.
LEMMA ScanStep ==
  ASSUME TypeOK, Tables, Clean, ~Idle, Top.op \in Scanners,
         NEW c \in Frame, Scans(c), Become(<<c>>),
         FrameRefs(Top) \subseteq FrameRefs(c),
         link.connected, UNCHANGED link,
         NEW R \in SUBSET Requests,
         \A x \in Requests \ R :
           RequestAt(req, req', x) /\ TablesAt(base, base', x) /\ WireAt(net, net', x),
         \A r \in R : Placed(req', base', net', Calls(stack'), r),
         \A x \in Requests : Overdue(req', net', Calls(stack'), x) =>
           /\ Overdue(req, net, Calls(stack), x)
           /\ req'[x].scheduled = req[x].scheduled,
         ScanAt(req', base', net', Calls(stack'), c),
         \A x \in Requests : req'[x].freed = req[x].freed /\ req'[x].held = req[x].held,
         base.active \subseteq base'.active, base.pending \subseteq base'.pending,
         net.outstanding \subseteq net'.outstanding,
         base.block \in {None, base'.block},
         c.op = "sent" => c.r \in base'.active,
         Blocking = {} => base'.block = None
  PROVE  Tables'
<1>. DEFINE S == Calls(stack)
            T == Calls(stack')
            U == Calls(Tail(stack))
            fs == <<c>>
<1>1. fs \in Frames /\ Calls(fs) = {c}
  BY CallsOfOne
<1>2. /\ Going(fs, U) /\ T = {c} \cup U /\ S = {Top} \cup U
      /\ \A x \in Requests : RolesAt(S, T, x)
      /\ \A h \in U : ~Scans(h) /\ h.op \notin Steady /\ h.op # "callback"
      /\ \A f \in Calls(fs), h \in U : ~Crosses(f, h)
      /\ \A f \in S : f.op # "die"
  BY <1>1, ScanCalls
<1>3. \A i, j \in DOMAIN fs : i < j => ~Crosses(fs[i], fs[j])
  OBVIOUS
<1>. HIDE DEF fs, U, S, T
<1>4. \A x \in Requests \ R : LeftAt(x)
  BY <1>2 DEF LeftAt, S, T
<1>5. Cursors(req', base', net', T)
  BY <1>2 DEF Cursors, T
<1>6. Lined(req', base', Waiting(req', T))
  BY DEF ScanAt, Lined, T
<1>7. Promptly(req', net', link', T)
  <2>1. \E f \in T : Scans(f)
    BY <1>2
  <2>. QED BY <2>1 DEF Promptly, Tables, T
<1>8. Clean'
  <2>1. ASSUME NEW x \in Requests, KeptBesides(base, net, S, x)
        PROVE  KeptBesides(base', net', T, x)
    <3>1. CASE x \in base.active \cup base.pending
      BY <3>1 DEF KeptBesides
    <3>2. CASE base.block = x
      BY <3>2, ConstantsAssumption DEF KeptBesides
    <3>3. CASE \E t \in net.outstanding : t[1] = x
      BY <3>3 DEF KeptBesides
    <3>4. CASE \E f \in S : x \in FrameRefs(f)
      <4>1. \E f \in T : x \in FrameRefs(f)
        BY <1>2, <3>4
      <4>. QED BY <4>1 DEF KeptBesides
    <3>. QED BY <2>1, <3>1, <3>2, <3>3, <3>4 DEF KeptBesides
  <2>. QED BY <2>1, CleanKept DEF S, T
<1>9. Fitting'
  <2>1. FrameFits(base', link', c)
    BY DEF FrameFits, Scans
  <2>2. ASSUME NEW h \in U
        PROVE  FrameFits(base', link', h)
    <3>1. FrameFits(base, link, h)
      BY <1>2, <2>2 DEF Tables, Fitting, S
    <3>. QED BY <1>2, <2>2, <3>1 DEF FrameFits, Scans
  <2>3. \A f \in T : FrameFits(base', link', f)
    BY <1>2, <2>1, <2>2
  <2>. QED BY <1>8, <2>3 DEF Fitting, T
<1>10. Linked(base, link)'
  <2>1. ~link.dead
    BY DEF Tables, Linked
  <2>. QED BY <2>1 DEF Linked
<1>11. /\ \A x \in Requests \ R : LeftAt(x)
       /\ \A r \in R : Placed(req', base', net', Calls(stack'), r)
  BY <1>4
<1>. QED BY <1>1, <1>2, <1>3, <1>5, <1>6, <1>7, <1>9, <1>10, <1>11, AnyStep DEF T

\* A step of the scan that leaves all requests where they are.
LEMMA ScanSame ==
  ASSUME TypeOK, Tables, Clean, ~Idle, Top.op \in Scanners,
         NEW c \in Frame, c.op = "scan", Become(<<c>>),
         FrameRefs(Top) \subseteq FrameRefs(c), link.connected,
         UNCHANGED <<req, base, net, link>>,
         NEW l, NEW s, NEW k, Row(req, base, Waiting(req, Calls(stack)), l, s),
         At(req, net, Calls(stack'), c, s, l, k)
  PROVE  Tables'
<1>. DEFINE S == Calls(stack)
            T == Calls(stack')
<1>1. <<c>> \in Frames /\ Calls(<<c>>) = {c} /\ Scans(c)
  BY CallsOfOne DEF Scans
<1>2. \A x \in Requests : RolesAt(S, T, x)
  BY <1>1, ScanCalls
<1>. HIDE DEF S, T
<1>3. \A x \in Requests : x \in Waiting(req, T) <=> x \in Waiting(req, S)
  BY <1>2, WaitingKept
<1>4. Row(req', base', Waiting(req', T), l, s)
  <2>1. Waiting(req, T) = Waiting(req, S)
    BY <1>3 DEF Waiting
  <2>. QED BY <2>1 DEF S
<1>5. \A x \in Requests : Overdue(req', net', T, x) => Overdue(req, net, S, x)
  BY <1>3 DEF Overdue
<1>6. ScanAt(req', base', net', T, c)
  BY <1>4 DEF ScanAt, T
<1>7. \A x \in Requests \ {} :
        RequestAt(req, req', x) /\ TablesAt(base, base', x) /\ WireAt(net, net', x)
  BY DEF RequestAt, TablesAt, WireAt
<1>8. {} \in SUBSET Requests /\ \A r \in {} : Placed(req', base', net', T, r)
  OBVIOUS
<1>9. Blocking = {} => base'.block = None
  BY DEF Tables, Linked
<1>. QED BY <1>1, <1>5, <1>6, <1>7, <1>8, <1>9, ScanStep DEF S, T

\* The scan starts, unless the service is not connected.
LEMMA TablesScanStart ==
  ASSUME TypeOK, Tables, ScanStart
  PROVE  Tables'
<1>. DEFINE S == Calls(stack)
            T == Calls(stack')
            U == Calls(Tail(stack))
<1>1. ~Idle /\ Top.op = "start" /\ Clean /\ UNCHANGED <<req, base, net, link>>
  BY RunningTop DEF ScanStart
<1>2. Top.op \in Scanners
  BY <1>1 DEF Scanners
<1>3. Top \in Calls(stack) /\ Top = Call("start", None)
  <2>1. Top \in Calls(stack)
    <3>1. stack \in Seq(Frame) /\ stack # <<>>
      BY <1>1 DEF TypeOK, Idle
    <3>2. 1 \in DOMAIN stack /\ stack[1] = Top
      BY <3>1 DEF Top
    <3>. QED BY <3>2 DEF Calls
  <2>2. FrameFits(base, link, Top)
    BY <2>1 DEF Tables, Fitting
  <2>. QED BY <1>1, <2>1, <2>2 DEF FrameFits
<1>4. CASE link.connected
  <2>. DEFINE c == Call("scan", base.first)
  <2>1. Become(<<c>>)
    BY <1>4 DEF ScanStart
  <2>2. c \in Frame
    <3>1. base.first \in MaybeRequest /\ "scan" \in (Ops \ RequestOps) \ ObservedOps
      BY DEF TypeOK, BaseRecord, Ops, RequestOps, ObservedOps
    <3>. QED BY <3>1, CallType
  <2>3. FrameRefs(Top) = {}
    BY <1>3 DEF FrameRefs, Call
  <2>4. c.op = "scan" /\ c.r = base.first /\ c.prev = None
    BY DEF Call
  <2>5. PICK l, s : Row(req, base, Waiting(req, S), l, s)
    BY DEF Tables, Lined
  <2>. HIDE DEF c
  <2>6. At(req, net, T, c, s, l, 1)
    <3>1. l \in Nat /\ base.first = IF l = 0 THEN None ELSE s[1]
      BY <2>5 DEF Row, Chain
    <3>2. 1 \in 1 .. l + 1 /\ Ahead(c) = IF 1 <= l THEN s[1] ELSE None
      BY <2>4, <3>1 DEF Ahead
    <3>3. \A j \in 1 .. l : j >= 1
      BY <3>1
    <3>. QED BY <2>4, <3>2, <3>3 DEF At
  <2>. QED BY <1>1, <1>2, <1>4, <2>1, <2>2, <2>3, <2>4, <2>5, <2>6, ScanSame
       DEF Scanners
<1>5. CASE ~link.connected
  <2>1. Become(<<>>)
    BY <1>5 DEF ScanStart
  <2>2. <<>> \in Frames /\ Calls(<<>>) = {} /\ Simply(<<>>)
    BY CallsOfNone DEF Simply
  <2>3. /\ Going(<<>>, U) /\ T = U /\ \A x \in Requests : RolesAt(S, T, x)
    BY <1>1, <2>1, <2>2, ScanCalls DEF Scanners
  <2>4. Resting
    BY <1>1 DEF Resting, Steady
  <2>. HIDE DEF S, T, U
  <2>5. \A x \in Requests : LeftAt(x)
    <3>1. \A x \in Requests : RequestAt(req, req', x) /\ TablesAt(base, base', x)
                              /\ WireAt(net, net', x)
      BY <1>1 DEF RequestAt, TablesAt, WireAt
    <3>. QED BY <2>3, <3>1 DEF LeftAt, S, T
  <2>6. \A x \in Requests : x \in Waiting(req', T) <=> x \in Waiting(req, S)
    BY <1>1, <2>3, WaitingKept
  <2>7. Lined(req', base', Waiting(req', T))
    BY <1>1, <2>6, LinedKept DEF S, T
  <2>8. Promptly(req', net', link', T)
    <3>1. \A x \in Requests : Overdue(req', net', T, x) => Overdue(req, net, S, x)
      BY <1>1, <2>6 DEF Overdue
    <3>2. \A x \in Requests : ~Overdue(req, net, S, x)
      BY <1>5 DEF Tables, Promptly, S
    <3>. QED BY <3>1, <3>2 DEF Promptly
  <2>9. Up(base', link')
    BY <1>1, <2>4, RestingCalls
  <2>10. (Blocking = {} => base'.block = None) /\ (link'.dead => ~link'.connected)
    BY <1>1 DEF Tables, Linked
  <2>11. {} \in SUBSET Requests /\ (\A x \in Requests \ {} : LeftAt(x))
         /\ \A r \in {} : Placed(req', base', net', Calls(stack'), r)
    BY <2>5
  <2>12. \A f \in Calls(<<>>), h \in U : ~Crosses(f, h)
    BY <2>2
  <2>. QED BY <2>2, <2>3, <2>4, <2>7, <2>8, <2>9, <2>10, <2>11, <2>12,
              RestingStep DEF T
<1>. QED BY <1>4, <1>5

\* The scan in progress stands in the queue.
LEMMA ScanStands ==
  ASSUME TypeOK, Tables, ~Idle, Scans(Top)
  PROVE  /\ Top \in Calls(stack) /\ Top.op \in Scanners /\ link.connected
         /\ \E l, s, k : /\ Row(req, base, Waiting(req, Calls(stack)), l, s)
                         /\ At(req, net, Calls(stack), Top, s, l, k)
<1>1. Top \in Calls(stack)
  <2>1. stack \in Seq(Frame) /\ stack # <<>>
    BY DEF TypeOK, Idle
  <2>2. 1 \in DOMAIN stack /\ stack[1] = Top
    BY <2>1 DEF Top
  <2>. QED BY <2>2 DEF Calls
<1>2. FrameFits(base, link, Top)
  BY <1>1 DEF Tables, Fitting
<1>3. ScanAt(req, base, net, Calls(stack), Top)
  BY <1>1 DEF Tables, Cursors
<1>. QED BY <1>1, <1>2, <1>3 DEF FrameFits, Scans, Scanners, ScanAt

\* Nothing holds back an overdue request: the scan does not pass it.
LEMMA OverdueGoes ==
  ASSUME TypeOK, Tables, NEW r \in Requests, Overdue(req, net, Calls(stack), r)
  PROVE  Prompt /\ CanSubmitRequest(req, base, r) /\ Due(r)
<1>1. Prompt /\ req[r].scheduled = 0
  BY DEF Tables, Promptly
<1>2. base.block = None
  BY <1>1 DEF Tables, Linked, Prompt
<1>3. /\ req[r].group \in {None} /\ base.owner \in {None}
      /\ base.waiting \in Seq({})
  BY <1>1 DEF TypeOK, RequestRecord, BaseRecord, MaybeGroup, Prompt
<1>4. base.waiting = <<>>
  BY <1>3
<1>. QED BY <1>1, <1>2, <1>3, <1>4 DEF CanSubmitRequest, OwnerAllows, Due

\* The scan passes over a request that may not be sent.
LEMMA TablesScanSkip ==
  ASSUME TypeOK, Tables, ScanSkip
  PROVE  Tables'
<1>. DEFINE S == Calls(stack)
            T == Calls(stack')
<1>1. PICK r \in Requests :
        /\ Scanning(r) /\ ~(CanSubmitRequest(req, base, r) /\ Due(r))
        /\ Become(<<[Top EXCEPT !.r = req[r].next, !.prev = r]>>)
  BY DEF ScanSkip
<1>2. /\ Running("scan") /\ ~Idle /\ Top.op = "scan" /\ Clean /\ r = Top.r
      /\ UNCHANGED <<req, base, net, link>>
  BY <1>1, RunningTop DEF Scanning, ScanSkip
<1>3. Scans(Top) /\ Top \in Frame
  BY <1>2, TopType DEF Scans
<1>. DEFINE c == [Top EXCEPT !.r = req[r].next, !.prev = r]
<1>4. /\ c \in Frame /\ c.op = "scan" /\ c.r = req[r].next /\ c.prev = r
      /\ FrameRefs(Top) \subseteq FrameRefs(c)
  <2>1. r \in MaybeRequest /\ req[r].next \in MaybeRequest
    BY DEF TypeOK, RequestRecord, MaybeRequest
  <2>2. c \in Frame
    BY <1>2, <2>1, ScanFrameType
  <2>. QED BY <1>2, <1>3, <2>2 DEF Frame, FrameRefs
<1>5. Become(<<c>>)
  BY <1>1
<1>6. PICK l, s, k : /\ Row(req, base, Waiting(req, S), l, s)
                     /\ At(req, net, S, Top, s, l, k)
  BY <1>2, <1>3, ScanStands
<1>7. Top.op \in Scanners /\ link.connected
  BY <1>2, <1>3, ScanStands
<1>. HIDE DEF c
<1>8. /\ ToStart(S) => ToStart(T)
      /\ \A x \in Requests : x \in Waiting(req, T) <=> x \in Waiting(req, S)
  <2>1. <<c>> \in Frames /\ Calls(<<c>>) = {c} /\ Scans(c)
    BY <1>4, CallsOfOne DEF Scans
  <2>2. (ToStart(S) => ToStart(T)) /\ \A x \in Requests : RolesAt(S, T, x)
    BY <1>2, <1>5, <1>7, <2>1, ScanCalls
  <2>. HIDE DEF S, T
  <2>. QED BY <2>2, WaitingKept
<1>. HIDE DEF S, T
<1>9. At(req, net, T, c, s, l, k + 1)
  <2>1. /\ l \in Nat /\ s \in [1 .. l -> Requests]
        /\ \A i \in 1 .. l : req[s[i]].next = IF i < l THEN s[i + 1] ELSE None
    BY <1>6 DEF Row, Chain
  <2>2. r # None
    BY ConstantsAssumption
  <2>3. k \in 1 .. l /\ s[k] = r
    <3>1. k \in 1 .. l + 1 /\ Ahead(Top) = IF k <= l THEN s[k] ELSE None
      BY <1>2, <1>6, <2>2 DEF At
    <3>. QED BY <1>2, <2>1, <2>2, <3>1 DEF Ahead
  <2>4. /\ k + 1 \in 1 .. l + 1 /\ k + 1 # 1 /\ k + 1 - 1 = k
        /\ c.prev = s[k]
    BY <1>4, <2>1, <2>3
  <2>5. Ahead(c) = IF k + 1 <= l THEN s[k + 1] ELSE None
    BY <1>4, <2>1, <2>3 DEF Ahead
  <2>6. ASSUME NEW j \in 1 .. l, Overdue(req, net, T, s[j]), ~ToStart(T)
        PROVE  j >= k + 1
    <3>1. s[j] \in Requests
      BY <2>1
    <3>2. Overdue(req, net, S, s[j])
      BY <1>8, <2>6, <3>1 DEF Overdue
    <3>3. j >= k
      BY <1>6, <1>8, <2>6, <3>2 DEF At
    <3>4. j # k
      <4>1. ASSUME j = k PROVE FALSE
        <5>1. Overdue(req, net, S, r)
          BY <2>3, <3>2, <4>1
        <5>2. CanSubmitRequest(req, base, r) /\ Due(r)
          BY <5>1, OverdueGoes DEF S
        <5>. QED BY <1>1, <5>2
      <4>. QED BY <4>1
    <3>. QED BY <2>3, <3>3, <3>4
  <2>7. c.prev = IF k + 1 = 1 THEN None ELSE s[(k + 1) - 1]
    BY <2>1, <2>3, <2>4
  <2>. QED BY <2>4, <2>5, <2>6, <2>7 DEF At
<1>. QED BY <1>2, <1>4, <1>5, <1>6, <1>7, <1>9, ScanSame DEF S, T

\* At the end of the queue nothing is left that should have been sent.
LEMMA TablesScanEnd ==
  ASSUME TypeOK, Tables, ScanEnd
  PROVE  Tables'
<1>. DEFINE S == Calls(stack)
            T == Calls(stack')
            U == Calls(Tail(stack))
<1>1. /\ ~Idle /\ Top.op = "scan" /\ Clean /\ Top.r = None /\ Become(<<>>)
      /\ UNCHANGED <<req, base, net, link>>
  BY RunningTop DEF ScanEnd
<1>2. <<>> \in Frames /\ Calls(<<>>) = {}
  BY CallsOfNone
<1>3. Scans(Top)
  BY <1>1 DEF Scans
<1>4. Top \in S /\ Top.op \in Scanners /\ link.connected
  BY <1>1, <1>3, ScanStands
<1>5. PICK l, s, k : /\ Row(req, base, Waiting(req, S), l, s)
                     /\ At(req, net, S, Top, s, l, k)
  BY <1>1, <1>3, ScanStands
<1>6. /\ Going(<<>>, U) /\ T = U /\ S = {Top} \cup U
      /\ \A x \in Requests : RolesAt(S, T, x)
      /\ \A h \in U : /\ ~Scans(h) /\ h.op \notin Steady /\ h.op # "callback"
      /\ \A f \in S : f.op # "die"
      /\ ToStart(S) => ToStart(T)
  BY <1>1, <1>2, <1>4, ScanCalls
<1>. HIDE DEF S, T, U
<1>7. \A x \in Requests : LeftAt(x) /\ (x \in Waiting(req', T) <=> x \in Waiting(req, S))
  <2>1. \A x \in Requests : RequestAt(req, req', x) /\ TablesAt(base, base', x)
                            /\ WireAt(net, net', x)
    BY <1>1 DEF RequestAt, TablesAt, WireAt
  <2>. QED BY <1>1, <1>6, <2>1, WaitingKept DEF LeftAt, S, T
<1>8. Lined(req', base', Waiting(req', T))
  BY <1>1, <1>7, LinedKept DEF S, T
<1>9. Cursors(req', base', net', T)
  BY <1>6 DEF Cursors
<1>10. Promptly(req', net', link', T)
  <2>1. ASSUME NEW x \in Requests, Overdue(req', net', T, x)
        PROVE  /\ Prompt /\ req'[x].scheduled = 0 /\ link'.connected /\ ToStart(T)
    <3>1. Overdue(req, net, S, x)
      BY <1>1, <1>7, <2>1 DEF Overdue
    <3>2. Prompt /\ req[x].scheduled = 0
      BY <3>1 DEF Tables, Promptly, S
    <3>3. /\ l \in Nat /\ s \in [1 .. l -> Requests] /\ \E j \in 1 .. l : s[j] = x
      BY <1>5, <3>1 DEF Row, Overdue
    <3>4. PICK j \in 1 .. l : s[j] = x
      BY <3>3
    <3>5. k = l + 1
      <4>1. k \in 1 .. l + 1 /\ Ahead(Top) = IF k <= l THEN s[k] ELSE None
        BY <1>5, <3>2 DEF At, Prompt
      <4>2. ASSUME k <= l PROVE FALSE
        <5>1. k \in 1 .. l
          BY <3>3, <4>1, <4>2
        <5>2. s[k] \in Requests /\ s[k] = None
          BY <1>1, <3>3, <4>1, <5>1 DEF Ahead
        <5>. QED BY <5>2, ConstantsAssumption
      <4>. QED BY <3>3, <4>1, <4>2
    <3>6. ToStart(S)
      <4>1. ~(j >= k)
        BY <3>3, <3>4, <3>5
      <4>. QED BY <1>5, <3>1, <3>4, <4>1 DEF At
    <3>. QED BY <1>1, <1>4, <1>6, <3>2, <3>6
  <2>. QED BY <2>1 DEF Promptly
<1>11. Fitting'
  <2>1. \A f \in T : FrameFits(base', link', f)
    <3>1. \A f \in S : FrameFits(base, link, f)
      BY DEF Tables, Fitting, S
    <3>. QED BY <1>1, <1>6, <3>1
  <2>. QED BY <1>6, <2>1 DEF Fitting, T
<1>12. Linked(base, link)'
  BY <1>1, <1>6 DEF Tables, Linked, S
<1>13. /\ {} \in SUBSET Requests /\ \A x \in Requests \ {} : LeftAt(x)
       /\ \A r \in {} : Placed(req', base', net', Calls(stack'), r)
  BY <1>7
<1>14. /\ \A i, j \in DOMAIN <<>> : i < j => ~Crosses(<<>>[i], <<>>[j])
       /\ \A f \in Calls(<<>>), h \in U : ~Crosses(f, h)
  BY <1>2
<1>. QED BY <1>2, <1>6, <1>8, <1>9, <1>10, <1>11, <1>12, <1>13, <1>14, AnyStep DEF T

\* After a request was sent the scan goes on, or a blocking request ends it.
LEMMA TablesScanSent ==
  ASSUME TypeOK, Tables, ScanSent
  PROVE  Tables'
<1>. DEFINE S == Calls(stack)
            T == Calls(stack')
            r == Top.r
<1>1. ~Idle /\ Top.op = "sent" /\ Clean /\ UNCHANGED <<req, net, link>>
  BY RunningTop DEF ScanSent
<1>2. Scans(Top) /\ Top \in Frame
  BY <1>1, TopType DEF Scans
<1>3. Top \in S /\ Top.op \in Scanners /\ link.connected
  BY <1>1, <1>2, ScanStands
<1>4. r \in base.active /\ r \in Requests /\ r # None
  <2>1. FrameFits(base, link, Top)
    BY <1>3 DEF Tables, Fitting
  <2>2. base.active \in SUBSET Requests
    BY DEF TypeOK, BaseRecord
  <2>. QED BY <1>1, <2>1, <2>2, ConstantsAssumption DEF FrameFits
<1>5. PICK l, s, k : /\ Row(req, base, Waiting(req, S), l, s)
                     /\ At(req, net, S, Top, s, l, k)
  BY <1>1, <1>2, ScanStands
<1>6. PICK c \in Frame : /\ c.op = "scan" /\ c.prev = Top.prev /\ c.refs = Top.refs
                         /\ c.r = Top.next \/ (c.r = None /\ Blocking # {})
                         /\ Become(<<c>>)
  <2>1. Top.next \in MaybeRequest /\ None \in MaybeRequest
    BY <1>2 DEF Frame, MaybeRequest
  <2>2. ASSUME NEW x \in MaybeRequest
        PROVE  LET c == [Top EXCEPT !.op = "scan", !.r = x]
               IN  /\ c \in Frame /\ c.op = "scan" /\ c.prev = Top.prev
                   /\ c.refs = Top.refs /\ c.r = x
    BY <1>2, <2>2 DEF Frame, Ops, RequestOps, ObservedOps
  <2>3. CASE r \in Blocking
    <3>1. Become(<<[Top EXCEPT !.op = "scan", !.r = None]>>)
      BY <2>3 DEF ScanSent
    <3>. QED BY <2>1, <2>2, <2>3, <3>1
  <2>4. CASE r \notin Blocking
    <3>1. Become(<<[Top EXCEPT !.op = "scan", !.r = Top.next]>>)
      BY <2>4 DEF ScanSent
    <3>. QED BY <2>1, <2>2, <3>1
  <2>. QED BY <2>3, <2>4
<1>7. /\ base'.active = base.active /\ base'.pending = base.pending
      /\ base'.first = base.first /\ base'.last = base.last
      /\ base'.block \in {base.block, r} /\ base.block \in {None, base'.block}
      /\ Blocking = {} => base'.block = base.block
  BY DEF ScanSent, TypeOK, BaseRecord
<1>8. FrameRefs(Top) \subseteq FrameRefs(c)
  BY <1>1, <1>6 DEF FrameRefs
<1>9. /\ ToStart(S) => ToStart(T)
      /\ \A x \in Requests : RolesAt(S, T, x)
  <2>1. <<c>> \in Frames /\ Calls(<<c>>) = {c} /\ Scans(c)
    BY <1>6, CallsOfOne DEF Scans
  <2>. QED BY <1>1, <1>3, <1>6, <2>1, ScanCalls
<1>. HIDE DEF S, T
<1>10. \A x \in Requests : x \in Waiting(req, T) <=> x \in Waiting(req, S)
  BY <1>9, WaitingKept
<1>11. Waiting(req, T) = Waiting(req, S)
  BY <1>10 DEF Waiting
<1>12. ScanAt(req', base', net', T, c)
  <2>1. Row(req', base', Waiting(req', T), l, s)
    <3>1. \A x \in Requests : req'[x].next = req[x].next
      BY <1>1
    <3>. HIDE DEF r
    <3>. QED BY <1>1, <1>5, <1>7, <1>11, <3>1, RowKept
  <2>2. At(req', net', T, c, s, l, k)
    <3>1. \A j \in 1 .. l : Overdue(req', net', T, s[j]) => Overdue(req, net, S, s[j])
      BY <1>1, <1>11 DEF Overdue
    <3>2. Ahead(c) = Ahead(Top) \/ (c.r = None /\ Blocking # {})
      BY <1>1, <1>6 DEF Ahead
    <3>. QED BY <1>1, <1>5, <1>6, <1>9, <3>1, <3>2 DEF At
  <2>. QED BY <2>1, <2>2 DEF ScanAt
<1>13. \A x \in Requests \ {r} :
         RequestAt(req, req', x) /\ TablesAt(base, base', x) /\ WireAt(net, net', x)
  BY <1>1, <1>7 DEF RequestAt, TablesAt, WireAt
<1>14. Placed(req', base', net', T, r)
  <2>. HIDE DEF r
  <2>1. Placed(req, base, net, S, r)
    BY <1>4 DEF Tables, S
  <2>2. RolesAt(S, T, r)
    BY <1>4, <1>9
  <2>3. Off(req, base', T, r) <=> Off(req, base, S, r)
    BY <1>7, <1>11, <2>2 DEF Off, RolesAt
  <2>4. Tabled(req, base', T, r)
    BY <1>4, <1>7, <2>1, <2>2 DEF Placed, Tabled, RolesAt, Out
  <2>5. Claimed(req, T, r) /\ Detached(req, base', T, r)
    BY <2>1, <2>2, <2>3 DEF Placed, Claimed, Detached, RolesAt
  <2>6. Counted(req, T, r) /\ Wired(req, net, T, r)
    BY <1>11, <2>1, <2>2 DEF Placed, Counted, Wired, RolesAt
  <2>. QED BY <1>1, <2>4, <2>5, <2>6 DEF Placed
<1>15. \A x \in Requests : Overdue(req', net', T, x) =>
         Overdue(req, net, S, x) /\ req'[x].scheduled = req[x].scheduled
  BY <1>1, <1>11 DEF Overdue
<1>16. Blocking = {} => base'.block = None
  BY <1>7 DEF Tables, Linked
<1>17. /\ {r} \in SUBSET Requests
       /\ \A x \in {r} : Placed(req', base', net', T, x)
  BY <1>4, <1>14
<1>18. /\ Scans(c) /\ Become(<<c>>) /\ c.op # "sent" /\ UNCHANGED link
       /\ base.active \subseteq base'.active /\ base.pending \subseteq base'.pending
       /\ net.outstanding \subseteq net'.outstanding
       /\ \A x \in Requests : req'[x].freed = req[x].freed /\ req'[x].held = req[x].held
  BY <1>1, <1>6, <1>7 DEF Scans
<1>. HIDE DEF r
<1>. QED BY <1>1, <1>3, <1>7, <1>8, <1>12, <1>13, <1>15, <1>16, <1>17, <1>18,
            ScanStep DEF S, T

\* The request and the tables that submit_transaction leaves.
SentReq(q, r, p) ==
  LET q1 == NewSerialReq(UnlinkReq(q, r, p), r)
  IN  [q1 EXCEPT ![r] = [@ EXCEPT !.scheduled = 0, !.state = "PENDING",
                                  !.tx = q1[r].sends]]
SentBase(q, u, b, r, p) ==
  LET b1 == NewSerialBase(q, UnlinkBase(q, b, r, p), r)
  IN  MoveOwnerQueue(u, [b1 EXCEPT !.pending = @ \cup {r}])

\* submit_transaction: what changes in the request that is sent.
LEMMA SendFields ==
  ASSUME NEW q \in RequestMap, NEW r \in Requests, NEW p \in MaybeRequest,
         NEW u, u = SentReq(q, r, p)
  PROVE  /\ \A x \in Requests :
              u[x].next = CASE x = r -> None
                            [] x = p /\ x # r -> q[r].next
                            [] OTHER -> q[x].next
         /\ \A x \in Requests : x # r => /\ Marks(q[x], u[x])
                                         /\ u[x].state = q[x].state
                                         /\ u[x].tx = q[x].tx
                                         /\ u[x].scheduled = q[x].scheduled
         /\ u[r].state = "PENDING" /\ u[r].sends = q[r].sends + 1
         /\ u[r].tx = q[r].sends + 1 /\ u[r].retries = q[r].retries
         /\ u[r].calls = q[r].calls /\ u[r].registered = q[r].registered
         /\ u[r].dropped = q[r].dropped /\ u[r].freed = q[r].freed
         /\ u[r].held = q[r].held
<1>. DEFINE v == UnlinkReq(q, r, p)
            q1 == NewSerialReq(v, r)
            m == [v[r] EXCEPT !.sends = @ + 1,
                              !.serial2 = IF @ # 0 THEN v[r].sends + 1
                                          ELSE IF v[r].registered THEN 1 ELSE 0]
            d == [q1[r] EXCEPT !.scheduled = 0, !.state = "PENDING",
                               !.tx = q1[r].sends]
<1>2. /\ DOMAIN v = Requests
      /\ \A x \in Requests : /\ Marks(q[x], v[x]) /\ v[x].state = q[x].state
                             /\ v[x].tx = q[x].tx /\ v[x].scheduled = q[x].scheduled
                             /\ v[x].next = CASE x = r -> None
                                              [] x = p /\ x # r -> q[r].next
                                              [] OTHER -> q[x].next
  <2>1. DOMAIN v = Requests
    BY DEF UnlinkReq
  <2>. HIDE DEF v
  <2>2. v = UnlinkReq(q, r, p)
    BY DEF v
  <2>. QED BY <2>1, <2>2, UnlinkFields
<1>4. DOMAIN v[r] = DOMAIN q[r] /\ q[r] \in RequestRecord
  <2>1. v[r] = [q[r] EXCEPT !.next = CASE r = r -> None
                                      [] r = p /\ r # r -> q[r].next
                                      [] OTHER -> @]
    BY DEF UnlinkReq
  <2>. QED BY <2>1 DEF RequestMap
<1>. HIDE DEF v
<1>5. /\ DOMAIN q1 = Requests /\ q1[r] = m /\ \A x \in Requests : x # r => q1[x] = v[x]
  BY <1>2 DEF NewSerialReq
<1>6. /\ DOMAIN m = DOMAIN v[r] /\ m.sends = v[r].sends + 1 /\ m.next = v[r].next
      /\ m.retries = v[r].retries /\ m.calls = v[r].calls
      /\ m.registered = v[r].registered /\ m.dropped = v[r].dropped
      /\ m.freed = v[r].freed /\ m.held = v[r].held
  BY <1>4 DEF RequestRecord
<1>. HIDE DEF m, q1
<1>7. /\ d.state = "PENDING" /\ d.tx = m.sends /\ d.sends = m.sends
      /\ d.next = m.next /\ d.retries = m.retries /\ d.calls = m.calls
      /\ d.registered = m.registered /\ d.dropped = m.dropped
      /\ d.freed = m.freed /\ d.held = m.held
  BY <1>4, <1>5, <1>6 DEF RequestRecord
<1>8. u[r] = d /\ \A x \in Requests : x # r => u[x] = q1[x]
  BY <1>5 DEF q1, v, SentReq
<1>. HIDE DEF d
<1>9. v[r].sends = q[r].sends /\ v[r].retries = q[r].retries /\ v[r].calls = q[r].calls
      /\ v[r].registered = q[r].registered /\ v[r].dropped = q[r].dropped
      /\ v[r].freed = q[r].freed /\ v[r].held = q[r].held /\ v[r].next = None
  BY <1>2 DEF Marks
<1>10. ASSUME NEW x \in Requests
       PROVE  /\ u[x].next = CASE x = r -> None
                               [] x = p /\ x # r -> q[r].next
                               [] OTHER -> q[x].next
              /\ x # r => /\ Marks(q[x], u[x])
                          /\ u[x].state = q[x].state
                          /\ u[x].tx = q[x].tx
                          /\ u[x].scheduled = q[x].scheduled
  <2>1. CASE x = r
    BY <1>6, <1>7, <1>8, <1>9, <2>1
  <2>2. CASE x # r
    <3>1. u[x] = v[x]
      BY <1>5, <1>8, <2>2
    <3>. QED BY <1>2, <2>2, <3>1
  <2>. QED BY <2>1, <2>2
<1>. QED BY <1>6, <1>7, <1>8, <1>9, <1>10

\* submit_transaction, on the tables.
LEMMA SendTables ==
  ASSUME NEW q \in RequestMap, NEW u, NEW b \in BaseRecord, NEW r \in Requests,
         NEW p \in MaybeRequest
  PROVE  /\ SentBase(q, u, b, r, p).active \in {b.active, b.active \cup {r}}
         /\ SentBase(q, u, b, r, p).pending = b.pending \cup {r}
         /\ SentBase(q, u, b, r, p).block = b.block
         /\ SentBase(q, u, b, r, p).first =
              UnlinkBase(q, b, r, p).first
         /\ SentBase(q, u, b, r, p).last = UnlinkBase(q, b, r, p).last
<1>. DEFINE b0 == UnlinkBase(q, b, r, p)
            b1 == NewSerialBase(q, b0, r)
            b2 == [b1 EXCEPT !.pending = @ \cup {r}]
            c == SentBase(q, u, b, r, p)
<1>1. /\ b0.active = b.active /\ b0.pending = b.pending /\ b0.block = b.block
      /\ DOMAIN b0 = DOMAIN b
  BY UnlinkTables DEF UnlinkBase
<1>. HIDE DEF b0
<1>2. /\ b1.active \in {b0.active, b0.active \cup {r}}
      /\ b1.pending \in {b0.pending, b0.pending \ {r}}
      /\ b1.block = b0.block /\ b1.first = b0.first /\ b1.last = b0.last
      /\ DOMAIN b1 = DOMAIN b0
  BY <1>1 DEF NewSerialBase, BaseRecord
<1>. HIDE DEF b1
<1>3. /\ b2.active = b1.active /\ b2.pending = b.pending \cup {r}
      /\ b2.block = b1.block /\ b2.first = b1.first /\ b2.last = b1.last
      /\ DOMAIN b2 = DOMAIN b1
  BY <1>1, <1>2 DEF BaseRecord
<1>4. c = MoveOwnerQueue(u, b2)
  BY DEF b2, b1, b0, SentBase
<1>. HIDE DEF b2, c
<1>5. SameTables(b2, c)
  BY <1>1, <1>2, <1>3, <1>4 DEF MoveOwnerQueue, SameTables, BaseRecord
<1>. QED BY <1>1, <1>2, <1>3, <1>5 DEF SameTables, c, b0

\* submit_transaction unlinks the request from the queue.
LEMMA SendHead ==
  ASSUME NEW q \in RequestMap, NEW u, NEW b \in BaseRecord, NEW r \in Requests,
         NEW p \in MaybeRequest
  PROVE  SentBase(q, u, b, r, p).first = IF p = None THEN q[r].next ELSE b.first
BY SendTables, UnlinkTables

\* And the tail of the queue.
LEMMA SendTail ==
  ASSUME NEW q \in RequestMap, NEW u, NEW b \in BaseRecord, NEW r \in Requests,
         NEW p \in MaybeRequest
  PROVE  SentBase(q, u, b, r, p).last = IF q[r].next = None THEN p ELSE b.last
<1>1. SentBase(q, u, b, r, p).last = UnlinkBase(q, b, r, p).last
  BY SendTables
<1>. QED BY <1>1, UnlinkTables

\* Sending a waiting request: what becomes of it.
LEMMA SentPlaced ==
  ASSUME NEW q \in RequestMap, NEW u, NEW b, NEW c, NEW n, NEW m, NEW S, NEW T,
         NEW r \in Requests, Placed(q, b, n, S, r), RolesAt(S, T, r),
         r \in Waiting(q, S), ~Stolen(S, r),
         u[r].state = "PENDING", u[r].sends = q[r].sends + 1,
         u[r].tx = q[r].sends + 1, u[r].retries = q[r].retries,
         u[r].calls = q[r].calls, u[r].registered = q[r].registered,
         u[r].dropped = q[r].dropped, u[r].freed = q[r].freed,
         u[r].held = q[r].held,
         c.active \in {b.active, b.active \cup {r}}, c.pending = b.pending \cup {r},
         \A t \in m.outstanding : t[1] = r =>
           t \in n.outstanding \/ t[2] = q[r].sends + 1
  PROVE  /\ Placed(u, c, m, T, r)
         /\ r \in b.active /\ r \notin Waiting(u, T)
<1>1. /\ q[r].sends \in Nat /\ q[r].retries \in Nat
  BY DEF RequestMap, RequestRecord
<1>2. q[r].state = "QUEUED" /\ ~Out(S, r) /\ ~Ending(S, r) /\ ~Leaving(S, r)
  BY DEF Waiting, Out
<1>3. r \in b.active
  BY <1>2 DEF Placed, Tabled, Underway
<1>4. /\ ~Stolen(T, r) /\ ~Out(T, r) /\ ~Ending(T, r) /\ ~Leaving(T, r)
      /\ DropDue(T, r) <=> DropDue(S, r)
      /\ Unregisters(T, r) <=> Unregisters(S, r)
      /\ Finishing(T, r) <=> Finishing(S, r)
      /\ Answered(T, r) <=> Answered(S, r)
  BY <1>2 DEF RolesAt, Out
<1>5. ~Off(q, b, S, r) /\ ~Off(u, c, T, r)
  BY <1>3 DEF Off
<1>6. r \notin Waiting(u, T)
  BY DEF Waiting
<1>7. Tabled(u, c, T, r)
  BY <1>3, <1>4 DEF Tabled, Underway
<1>8. Claimed(u, T, r)
  BY <1>2, <1>4 DEF Placed, Claimed
<1>9. Detached(u, c, T, r)
  BY <1>4, <1>5 DEF Placed, Detached
<1>10. Counted(u, T, r)
  <2>1. q[r].sends = q[r].retries /\ q[r].calls = 0
    BY <1>2 DEF Placed, Counted, Terminal, Live
  <2>. QED BY <1>1, <1>6, <2>1 DEF Counted
<1>11. Wired(u, m, T, r)
  <2>1. \A t \in n.outstanding : t[1] # r
    BY DEF Placed, Wired
  <2>2. u[r].sends # 0
    BY <1>1
  <2>. QED BY <1>4, <1>6, <2>1, <2>2 DEF Wired
<1>. QED BY <1>3, <1>6, <1>7, <1>8, <1>9, <1>10, <1>11 DEF Placed

\* The scan sends the request it stands before.
LEMMA TablesScanSend ==
  ASSUME TypeOK, Tables, MaxDepth = 0, ScanSend
  PROVE  Tables'
<1>. DEFINE S == Calls(stack)
            T == Calls(stack')
<1>1. PICK r \in Requests :
        /\ Scanning(r)
        /\ LET q1 == NewSerialReq(UnlinkReq(req, r, Top.prev), r)
               q2 == [q1 EXCEPT ![r] = [@ EXCEPT !.scheduled = 0,
                                                 !.state = "PENDING",
                                                 !.tx = q1[r].sends]]
               b1 == NewSerialBase(req, UnlinkBase(req, base, r, Top.prev), r)
               b2 == [b1 EXCEPT !.pending = @ \cup {r}]
           IN  /\ req' = q2
               /\ base' = MoveOwnerQueue(q2, b2)
               /\ net' = [outstanding |-> net.outstanding \cup {<<r, q2[r].tx>>},
                          answers |-> net.answers \cup {<<r, q2[r].serial2>>}]
               /\ Become((IF MovesOwner(q2, b2) THEN Callback(None) ELSE <<>>)
                         \o <<[Top EXCEPT !.op = "sent", !.next = req[r].next,
                                          !.some = TRUE]>>)
  BY DEF ScanSend
<1>0. TypeOK'
  BY ScanSendType
<1>2. /\ ~Idle /\ Top.op = "scan" /\ Clean /\ r = Top.r /\ UNCHANGED link
  BY <1>1, RunningTop DEF Scanning, ScanSend
<1>3. Scans(Top) /\ Top \in Frame
  BY <1>2, TopType DEF Scans
<1>4. Top.op \in Scanners /\ link.connected /\ Top \in S
  BY <1>2, <1>3, ScanStands
<1>5. PICK l, s, k : /\ Row(req, base, Waiting(req, S), l, s)
                     /\ At(req, net, S, Top, s, l, k)
  BY <1>2, <1>3, ScanStands
<1>6. r # None /\ req \in RequestMap /\ base \in BaseRecord
  BY ConstantsAssumption DEF TypeOK, RequestMap
<1>. DEFINE c == [Top EXCEPT !.op = "sent", !.next = req[r].next, !.some = TRUE]
<1>7. /\ c \in Frame /\ c.op = "sent" /\ c.next = req[r].next /\ c.prev = Top.prev
      /\ c.r = r /\ c.refs = Top.refs
  <2>1. req[r].next \in MaybeRequest
    BY <1>6 DEF RequestMap, RequestRecord
  <2>. QED BY <1>2, <1>3, <1>6, <2>1 DEF Frame, Ops, ObservedOps
<1>8. Become(<<c>>)
  <2>1. Callback(None) = <<>> /\ <<c>> \in Frames
    BY <1>7, NoHandler, CallsOfOne
  <2>. QED BY <1>1, <2>1, NoneFirst
<1>. HIDE DEF c
<1>9. /\ ToStart(S) => ToStart(T)
      /\ \A x \in Requests : RolesAt(S, T, x) /\ ~Stolen(S, x)
  <2>1. <<c>> \in Frames /\ Calls(<<c>>) = {c} /\ Scans(c)
    BY <1>7, CallsOfOne DEF Scans
  <2>. QED BY <1>2, <1>4, <1>8, <2>1, ScanCalls
<1>. HIDE DEF S, T
<1>10. /\ \A x \in Requests :
            req'[x].next = CASE x = r -> None
                             [] x = Top.prev /\ x # r -> req[r].next
                             [] OTHER -> req[x].next
       /\ \A x \in Requests : x # r => /\ Marks(req[x], req'[x])
                                       /\ req'[x].state = req[x].state
                                       /\ req'[x].tx = req[x].tx
                                       /\ req'[x].scheduled = req[x].scheduled
       /\ req'[r].state = "PENDING" /\ req'[r].sends = req[r].sends + 1
       /\ req'[r].tx = req[r].sends + 1 /\ req'[r].retries = req[r].retries
       /\ req'[r].calls = req[r].calls /\ req'[r].registered = req[r].registered
       /\ req'[r].dropped = req[r].dropped /\ req'[r].freed = req[r].freed
       /\ req'[r].held = req[r].held
  <2>. DEFINE p == Top.prev
              u == req'
  <2>1. u = SentReq(req, r, p) /\ p \in MaybeRequest
    BY <1>1, <1>3 DEF SentReq, Frame
  <2>. HIDE DEF u, p
  <2>2. /\ \A x \in Requests :
             u[x].next = CASE x = r -> None
                           [] x = p /\ x # r -> req[r].next
                           [] OTHER -> req[x].next
        /\ \A x \in Requests : x # r => /\ Marks(req[x], u[x])
                                        /\ u[x].state = req[x].state
                                        /\ u[x].tx = req[x].tx
                                        /\ u[x].scheduled = req[x].scheduled
        /\ u[r].state = "PENDING" /\ u[r].sends = req[r].sends + 1
        /\ u[r].tx = req[r].sends + 1 /\ u[r].retries = req[r].retries
        /\ u[r].calls = req[r].calls /\ u[r].registered = req[r].registered
        /\ u[r].dropped = req[r].dropped /\ u[r].freed = req[r].freed
        /\ u[r].held = req[r].held
    BY <1>6, <2>1, SendFields
  <2>. QED BY <2>2 DEF u, p
<1>11. /\ base'.active \in {base.active, base.active \cup {r}}
       /\ base'.pending = base.pending \cup {r} /\ base'.block = base.block
       /\ base'.first = IF Top.prev = None THEN req[r].next ELSE base.first
       /\ base'.last = IF req[r].next = None THEN Top.prev ELSE base.last
  <2>. DEFINE p == Top.prev
              d == base'
              u == req'
  <2>1. d = SentBase(req, u, base, r, p) /\ p \in MaybeRequest /\ d \in BaseRecord
    BY <1>1, <1>3, <1>0 DEF SentBase, Frame, TypeOK
  <2>. HIDE DEF u, p, d
  <2>2. /\ d.active \in {base.active, base.active \cup {r}}
        /\ d.pending = base.pending \cup {r} /\ d.block = base.block
        /\ d.first = IF p = None THEN req[r].next ELSE base.first
        /\ d.last = IF req[r].next = None THEN p ELSE base.last
    <3>1. d.active \in {base.active, base.active \cup {r}}
      BY <1>6, <2>1, SendTables
    <3>4. d.pending = base.pending \cup {r}
      BY <1>6, <2>1, SendTables
    <3>5. d.block = base.block
      BY <1>6, <2>1, SendTables
    <3>2. d.first = IF p = None THEN req[r].next ELSE base.first
      BY <1>6, <2>1, SendHead
    <3>3. d.last = IF req[r].next = None THEN p ELSE base.last
      BY <1>6, <2>1, SendTail
    <3>. QED BY <3>1, <3>2, <3>3, <3>4, <3>5
  <2>. QED BY <2>2 DEF d, p
<1>12. /\ net'.outstanding = net.outstanding \cup {<<r, req'[r].tx>>}
       /\ net'.answers = net.answers \cup {<<r, req'[r].serial2>>}
  BY <1>1
<1>13. /\ l \in Nat /\ s \in [1 .. l -> Requests] /\ k \in 1 .. l /\ s[k] = r
       /\ r \in Waiting(req, S) /\ k \in 1 .. (l - 1) + 1 /\ l - 1 \in Nat
       /\ \A i \in 1 .. l : req[s[i]].next = IF i < l THEN s[i + 1] ELSE None
       /\ Top.prev = IF k = 1 THEN None ELSE s[k - 1]
  <2>1. /\ l \in Nat /\ s \in [1 .. l -> Requests]
        /\ \A i \in 1 .. l : req[s[i]].next = IF i < l THEN s[i + 1] ELSE None
        /\ \A x \in Requests : (\E i \in 1 .. l : s[i] = x) <=> x \in Waiting(req, S)
    BY <1>5 DEF Row, Chain
  <2>2. k \in 1 .. l + 1 /\ Ahead(Top) = IF k <= l THEN s[k] ELSE None
    BY <1>2, <1>5, <1>6 DEF At
  <2>3. k \in 1 .. l /\ s[k] = r
    BY <1>2, <1>6, <2>1, <2>2 DEF Ahead
  <2>4. Top.prev = IF k = 1 THEN None ELSE s[k - 1]
    BY <1>5 DEF At
  <2>5. r \in Waiting(req, S)
    BY <2>1, <2>3
  <2>6. k \in 1 .. (l - 1) + 1 /\ l - 1 \in Nat
    BY <2>1, <2>3
  <2>. QED BY <2>1, <2>3, <2>4, <2>5, <2>6
<1>14. Placed(req', base', net', T, r) /\ r \in base.active /\ r \notin Waiting(req', T)
  <2>1. \A t \in net'.outstanding : t[1] = r =>
          t \in net.outstanding \/ t[2] = req[r].sends + 1
    BY <1>10, <1>12
  <2>2. Placed(req, base, net, S, r)
    BY DEF Tables, S
  <2>. DEFINE u == req'
              d == base'
              m == net'
  <2>3. /\ u[r].state = "PENDING" /\ u[r].sends = req[r].sends + 1
        /\ u[r].tx = req[r].sends + 1 /\ u[r].retries = req[r].retries
        /\ u[r].calls = req[r].calls /\ u[r].registered = req[r].registered
        /\ u[r].dropped = req[r].dropped /\ u[r].freed = req[r].freed
        /\ u[r].held = req[r].held
    BY <1>10
  <2>4. /\ d.active \in {base.active, base.active \cup {r}}
        /\ d.pending = base.pending \cup {r}
        /\ \A t \in m.outstanding : t[1] = r =>
             t \in net.outstanding \/ t[2] = req[r].sends + 1
    BY <1>11, <2>1
  <2>5. RolesAt(S, T, r) /\ ~Stolen(S, r)
    BY <1>9
  <2>. HIDE DEF u, d, m
  <2>6. Placed(u, d, m, T, r) /\ r \in base.active /\ r \notin Waiting(u, T)
    BY <1>6, <1>13, <2>2, <2>3, <2>4, <2>5, SentPlaced
  <2>. QED BY <2>6 DEF u, d, m
<1>15. ASSUME NEW x \in Requests, x # r
       PROVE  /\ RequestAt(req, req', x) /\ TablesAt(base, base', x)
              /\ WireAt(net, net', x)
              /\ x \in Waiting(req', T) <=> x \in Waiting(req, S)
              /\ Overdue(req', net', T, x) => Overdue(req, net, S, x)
  <2>1. RequestAt(req, req', x)
    BY <1>10, <1>15 DEF RequestAt, Marks
  <2>2. TablesAt(base, base', x)
    BY <1>11, <1>15 DEF TablesAt
  <2>3. WireAt(net, net', x)
    BY <1>12, <1>15 DEF WireAt
  <2>4. x \in Waiting(req', T) <=> x \in Waiting(req, S)
    BY <1>9, <2>1, WaitingKept DEF RequestAt
  <2>5. req'[x].serial2 = req[x].serial2 /\ req'[x].registered = req[x].registered
    BY <1>10, <1>15 DEF Marks
  <2>. QED BY <2>1, <2>2, <2>3, <2>4, <2>5, OverdueKept
<1>16. \A x \in Requests : Overdue(req', net', T, x) =>
         Overdue(req, net, S, x) /\ req'[x].scheduled = req[x].scheduled
  BY <1>10, <1>14, <1>15 DEF Overdue
<1>17. ScanAt(req', base', net', T, c)
  <2>. DEFINE t == Without(l, s, k)
              V == Waiting(req', T)
  <2>1. \A x \in Requests : x \in V <=> x \in Waiting(req, S) /\ x # s[k]
    BY <1>13, <1>14, <1>15
  <2>. HIDE DEF V
  <2>2. Row(req', base', V, l - 1, t)
    <3>. DEFINE p == Top.prev
                u == req'
                d == base'
    <3>1. /\ p = IF k = 1 THEN None ELSE s[k - 1]
          /\ \A x \in Requests :
               u[x].next = CASE x = s[k] -> None
                             [] x = p /\ x # s[k] -> req[s[k]].next
                             [] OTHER -> req[x].next
          /\ d.first = IF p = None THEN req[s[k]].next ELSE base.first
          /\ d.last = IF req[s[k]].next = None THEN p ELSE base.last
      BY <1>10, <1>11, <1>13
    <3>. HIDE DEF p, u, d, t
    <3>2. Row(u, d, V, l - 1, Without(l, s, k))
      BY <1>5, <1>13, <2>1, <3>1, RowRemove
    <3>. QED BY <3>2 DEF u, d, t
  <2>3. \A i \in 1 .. l - 1 : t[i] = IF i < k THEN s[i] ELSE s[i + 1]
    BY DEF Without
  <2>. HIDE DEF t
  <2>4. c.prev = IF k = 1 THEN None ELSE t[k - 1]
    <3>1. k # 1 => k - 1 \in 1 .. l - 1 /\ k - 1 < k
      BY <1>13
    <3>. QED BY <1>7, <1>13, <2>3, <3>1
  <2>5. Ahead(c) = IF k <= l - 1 THEN t[k] ELSE None
    <3>1. k <= l - 1 => k \in 1 .. l - 1 /\ ~(k < k) /\ k < l
      BY <1>13
    <3>2. ~(k <= l - 1) => ~(k < l)
      BY <1>13
    <3>3. Ahead(c) = IF k < l THEN s[k + 1] ELSE None
      BY <1>7, <1>13 DEF Ahead
    <3>. QED BY <2>3, <3>1, <3>2, <3>3
  <2>6. ASSUME NEW j \in 1 .. l - 1, Overdue(req', net', T, t[j]), ~ToStart(T)
        PROVE  j >= k
    <3>1. SUFFICES ASSUME j < k PROVE FALSE
      BY <1>13
    <3>2. t[j] = s[j] /\ j \in 1 .. l /\ s[j] \in Requests
      BY <1>13, <2>3, <3>1
    <3>3. Overdue(req, net, S, s[j])
      BY <1>16, <2>6, <3>2
    <3>4. j >= k
      BY <1>5, <1>9, <2>6, <3>2, <3>3 DEF At
    <3>. QED BY <1>13, <3>1, <3>4
  <2>7. At(req', net', T, c, t, l - 1, k)
    BY <1>13, <2>4, <2>5, <2>6 DEF At
  <2>. QED BY <2>2, <2>7 DEF ScanAt, V
<1>18. /\ Scans(c) /\ FrameRefs(Top) \subseteq FrameRefs(c)
       /\ c.op = "sent" => c.r \in base'.active
       /\ base.active \subseteq base'.active /\ base.pending \subseteq base'.pending
       /\ net.outstanding \subseteq net'.outstanding
       /\ base.block \in {None, base'.block}
  BY <1>2, <1>7, <1>11, <1>12, <1>14 DEF Scans, FrameRefs
<1>19. \A x \in Requests : req'[x].freed = req[x].freed /\ req'[x].held = req[x].held
  BY <1>10 DEF Marks
<1>20. Blocking = {} => base'.block = None
  BY <1>11 DEF Tables, Linked
<1>21. /\ {r} \in SUBSET Requests
       /\ \A x \in Requests \ {r} :
            RequestAt(req, req', x) /\ TablesAt(base, base', x) /\ WireAt(net, net', x)
       /\ \A x \in {r} : Placed(req', base', net', T, x)
  BY <1>14, <1>15
<1>. QED BY <1>2, <1>4, <1>7, <1>8, <1>16, <1>17, <1>18, <1>19, <1>20, <1>21,
            ScanStep DEF S, T

-----------------------------------------------------------------------------
(***************************************************************************)
(* The object is alive until its last reference goes.                      *)
(***************************************************************************)

\* The procedures of radio_base.c do not end it.
LEMMA AliveBase ==
  ASSUME NEW b \in BaseRecord, NEW q, NEW r, NEW p, NEW u
  PROVE  /\ QueueBase(b, r).alive = b.alive
         /\ UnlinkBase(q, b, r, p).alive = b.alive
         /\ DeactivateBase(q, b, r).alive = b.alive
         /\ NewSerialBase(q, b, r).alive = b.alive
         /\ MoveOwnerQueue(q, b).alive = b.alive
<1>1. UnlinkBase(q, b, r, p).alive = b.alive
  BY DEF UnlinkBase, BaseRecord
<1>2. DeactivateBase(q, b, r).alive = b.alive
  <2>1. ASSUME NEW c \in {b, UnlinkBase(q, b, r, Before(q, b, r))}
        PROVE  /\ c.alive = b.alive /\ DOMAIN c = DOMAIN b
    BY <2>1 DEF UnlinkBase, BaseRecord
  <2>2. ASSUME NEW c, DOMAIN c = DOMAIN b
        PROVE  [c EXCEPT !.pending = @ \ {r}, !.active = @ \ {r},
                         !.block = IF @ = r THEN None ELSE @].alive = c.alive
    BY <2>2 DEF BaseRecord
  <2>. QED BY <2>1, <2>2 DEF DeactivateBase
<1>. QED BY <1>1, <1>2 DEF QueueBase, NewSerialBase, MoveOwnerQueue, BaseRecord

\* The step does not end it.
AliveStays == base'.alive = base.alive

\* Events leave the object alive.
LEMMA AliveEvent ==
  ASSUME TypeOK, Event
  PROVE  AliveStays
<1>1. req \in RequestMap /\ base \in BaseRecord
  BY DEF TypeOK, RequestMap
<1>2. CASE RespondRetry
  <2>1. PICK r : base' = [QueueBase(base, r) EXCEPT !.pending = @ \ {r}]
    BY <1>2, Zenon DEF RespondRetry
  <2>2. QueueBase(base, r).alive = base.alive /\ DOMAIN QueueBase(base, r) = DOMAIN base
    BY <1>1, AliveBase DEF QueueBase
  <2>. QED BY <1>1, <2>1, <2>2 DEF AliveStays, BaseRecord
<1>3. CASE RespondDone
  <2>1. PICK m \in net.answers :
          LET r == m[1]
              q == [CancelReq(req, r) EXCEPT ![r].state = "DONE"]
          IN  base' = MoveOwnerQueue(q, DeactivateBase(q, base, r))
    BY <1>3, Zenon DEF RespondDone
  <2>. DEFINE r == m[1]
              q == [CancelReq(req, r) EXCEPT ![r].state = "DONE"]
              b == DeactivateBase(q, base, r)
  <2>. HIDE DEF q
  <2>2. b.alive = base.alive
    BY <1>1, AliveBase
  <2>3. base' = MoveOwnerQueue(q, b)
    BY <2>1 DEF q
  <2>4. DOMAIN b = DOMAIN base
    BY <1>1 DEF DeactivateBase, UnlinkBase, BaseRecord
  <2>. HIDE DEF b
  <2>. QED BY <1>1, <2>2, <2>3, <2>4 DEF MoveOwnerQueue, AliveStays, BaseRecord
<1>4. CASE Timeout \/ Death \/ ConfigDeath
  BY <1>1, <1>4 DEF Timeout, Death, ConfigDeath, HandleDeathBase, AliveStays, BaseRecord
<1>5. CASE RespondUnknown \/ Sent \/ Tick \/ Connected
  BY <1>5 DEF RespondUnknown, Sent, Tick, Connected, AliveStays
<1>. QED BY <1>2, <1>3, <1>4, <1>5 DEF Event

\* So do users, but for the end of the object itself.
LEMMA AliveUser ==
  ASSUME TypeOK, User, ~Finalize
  PROVE  AliveStays
<1>1. req \in RequestMap /\ base \in BaseRecord
  BY DEF TypeOK, RequestMap
<1>2. ASSUME NEW r \in Requests, Submit(r) \/ Retry(r)
      PROVE  AliveStays
  <2>1. \/ base' = [QueueBase(base, r) EXCEPT !.active = @ \cup {r}]
        \/ base' = [QueueBase(base, r) EXCEPT !.pending = @ \ {r}]
    BY <1>2 DEF Submit, Retry
  <2>2. QueueBase(base, r).alive = base.alive /\ DOMAIN QueueBase(base, r) = DOMAIN base
    BY <1>1, AliveBase DEF QueueBase
  <2>. QED BY <1>1, <2>1, <2>2 DEF AliveStays, BaseRecord
<1>3. ASSUME NEW r \in Requests, Cancel(r) \/ Release(r)
      PROVE  AliveStays
  BY <1>3 DEF Cancel, Release, AliveStays
<1>4. ASSUME NEW r \in Requests, NEW ms \in Timeouts, SetTimeout(r, ms)
      PROVE  AliveStays
  <2>1. UNCHANGED base \/ \E t : base' = [base EXCEPT !.timer = t]
    BY <1>4 DEF SetTimeout
  <2>. QED BY <1>1, <2>1 DEF AliveStays, BaseRecord
<1>5. ASSUME NEW ms \in Timeouts, SetDefaultTimeout(ms)
      PROVE  AliveStays
  <2>1. \/ base' = [base EXCEPT !.timeout = ms]
        \/ \E t : base' = [[base EXCEPT !.timeout = ms] EXCEPT !.timer = t]
    BY <1>5 DEF SetDefaultTimeout
  <2>. QED BY <1>1, <2>1 DEF AliveStays, BaseRecord
<1>6. ASSUME NEW g \in Groups,
             Block(g) \/ Unblock(g) \/ FreeGroup(g) \/ CancelGroup(g)
      PROVE  AliveStays
  <2>1. UnblockBase(g).alive = base.alive /\ DOMAIN UnblockBase(g) = DOMAIN base
    BY <1>1 DEF UnblockBase, BaseRecord
  <2>2. \/ UNCHANGED base \/ base' = UnblockBase(g)
        \/ base' = [base EXCEPT !.owner = g]
        \/ base' = [base EXCEPT !.waiting = Append(@, g)]
        \/ base' = [UnblockBase(g) EXCEPT !.groups = @ \ {g}]
    BY <1>6 DEF Block, Unblock, FreeGroup, CancelGroup
  <2>. QED BY <1>1, <2>1, <2>2 DEF AliveStays, BaseRecord
<1>. QED BY <1>2, <1>3, <1>4, <1>5, <1>6 DEF User

\* So do the calls in progress.
LEMMA AliveContinue ==
  ASSUME Orderly, TypeOK, Continue
  PROVE  AliveStays
<1>1. req \in RequestMap /\ base \in BaseRecord
  BY DEF TypeOK, RequestMap
<1>2. CASE ScanSend
  <2>1. PICK r, u : base' = SentBase(req, u, base, r, Top.prev)
    BY <1>2, Zenon DEF ScanSend, SentBase
  <2>. DEFINE b0 == UnlinkBase(req, base, r, Top.prev)
              b1 == NewSerialBase(req, b0, r)
  <2>2. b0.alive = base.alive /\ DOMAIN b0 = DOMAIN base
    BY <1>1, AliveBase DEF UnlinkBase
  <2>3. base' = MoveOwnerQueue(u, [b1 EXCEPT !.pending = @ \cup {r}])
    BY <2>1 DEF SentBase
  <2>. HIDE DEF b0
  <2>4. b1.alive = base.alive /\ DOMAIN b1 = DOMAIN base
    BY <1>1, <2>2 DEF NewSerialBase, BaseRecord
  <2>. HIDE DEF b1
  <2>. QED BY <1>1, <2>3, <2>4 DEF MoveOwnerQueue, AliveStays, BaseRecord
<1>3. CASE ScanFail
  <2>1. PICK r : base' = NewSerialBase(req, UnlinkBase(req, base, r, Top.prev), r)
    BY <1>3, Zenon DEF ScanFail
  <2>. DEFINE b0 == UnlinkBase(req, base, r, Top.prev)
  <2>2. b0.alive = base.alive /\ DOMAIN b0 = DOMAIN base
    BY <1>1, AliveBase DEF UnlinkBase
  <2>. HIDE DEF b0
  <2>. QED BY <1>1, <2>1, <2>2 DEF b0, NewSerialBase, AliveStays, BaseRecord
<1>4. CASE Drop \/ Expire
  <2>1. UNCHANGED base \/ \E q, r : base' = DeactivateBase(q, base, r)
    BY <1>4, Zenon DEF Drop, Expire
  <2>. QED BY <1>1, <2>1, AliveBase DEF AliveStays
<1>5. CASE Submitted \/ Dropped \/ Reset
  <2>1. UNCHANGED base \/ \E t : base' = [base EXCEPT !.timer = t]
    BY <1>5, Zenon DEF Submitted, Dropped, Reset
  <2>. QED BY <1>1, <2>1 DEF AliveStays, BaseRecord
<1>6. CASE ScanSent \/ HandleDeath
  BY <1>1, <1>6 DEF ScanSent, HandleDeath, HandleDeathBase, AliveStays, BaseRecord
<1>7. CASE ScanStart \/ ScanSkip \/ ScanEnd \/ Return
  BY <1>7 DEF ScanStart, ScanSkip, ScanEnd, Return, AliveStays
<1>8. CASE Done \/ Unregister \/ Finish \/ FailNext \/ CancelNext \/ Unlink
  BY <1>8 DEF Done, Unregister, Finish, FailNext, CancelNext, Unlink, AliveStays
<1>9. ASSUME NEW r \in Requests, Free(r)
      PROVE  AliveStays
  BY <1>9 DEF Free, AliveStays
<1>. QED BY <1>2, <1>3, <1>4, <1>5, <1>6, <1>7, <1>8, <1>9, OrderlyObservers
     DEF Continue

-----------------------------------------------------------------------------
(***************************************************************************)
(* After the end of the object.                                            *)
(***************************************************************************)
GoneOps == {"unregister", "finish"}

\* What a step after the end has to show.
LEMMA GoneStep ==
  ASSUME TypeOK, Gone, UNCHANGED <<base, link>>,
         net'.outstanding \subseteq net.outstanding,
         \A r \in Requests : /\ req'[r].registered => req[r].registered
                             /\ req'[r].sends = req[r].sends
                             /\ req'[r].retries = req[r].retries,
         \A f \in Calls(stack') : f.op \in GoneOps
  PROVE  Gone'
<1>1. \A r \in Requests : /\ ~req'[r].registered
                          /\ req'[r].sends <= req'[r].retries + 1
  BY DEF Gone
<1>. QED BY <1>1 DEF Gone, GoneOps

\* Calls are made, or the running call ends.
LEMMA GoneCalls ==
  ASSUME TypeOK, Gone, NEW fs \in Frames, \A f \in Calls(fs) : f.op \in GoneOps,
         Enter(fs) \/ (~Idle /\ Become(fs))
  PROVE  \A f \in Calls(stack') : f.op \in GoneOps
<1>1. \E U : Going(fs, U)
  BY DEF Going
<1>2. PICK U : Going(fs, U)
  BY <1>1
<1>3. Calls(stack') = Calls(fs) \cup U /\ U \subseteq Calls(stack)
  BY <1>2, GoingCalls
<1>. QED BY <1>3 DEF Gone, GoneOps

\* radio_request_object_cancel on a request that is not registered.
LEMMA GoneCancel ==
  ASSUME TypeOK, Gone, NEW r \in Requests
  PROVE  /\ ObjectCancelCalls(req, r) = <<Call("unregister", r)>>
         /\ \A x \in Requests :
              /\ ObjectCancelReq(req, r)[x].registered = req[x].registered
              /\ ObjectCancelReq(req, r)[x].sends = req[x].sends
              /\ ObjectCancelReq(req, r)[x].retries = req[x].retries
              /\ Withdraw(ObjectCancelReq(req, r), r)[x].registered = req[x].registered
              /\ Withdraw(ObjectCancelReq(req, r), r)[x].sends = req[x].sends
              /\ Withdraw(ObjectCancelReq(req, r), r)[x].retries = req[x].retries
<1>1. ~req[r].registered
  BY DEF Gone
<1>2. ObjectCancelCalls(req, r) = <<Call("unregister", r)>>
  <2>1. Call("unregister", r) \in Frame
    BY RequestCallType DEF Ops, ObservedOps
  <2>2. <<Call("unregister", r)>> \in Frames
    BY <2>1, CallsOfOne
  <2>. QED BY <1>1, <2>2, NoneFirst DEF ObjectCancelCalls
<1>. DEFINE c == CancelReq(req, r)[r]
            d == [c EXCEPT !.dropped = TRUE,
                           !.group = IF req[r].dropped THEN req[r].group ELSE None]
            e == [d EXCEPT !.complete = FALSE]
<1>3. req \in RequestMap
  BY DEF TypeOK, RequestMap
<1>4. Marks(req[r], c) /\ DOMAIN c = DOMAIN req[r]
  <2>1. DOMAIN c = DOMAIN req[r]
    BY <1>3 DEF CancelReq, RequestMap
  <2>. HIDE DEF c
  <2>. QED BY <1>3, <2>1, CancelFields DEF c
<1>5. \A x \in Requests : /\ x # r => ObjectCancelReq(req, r)[x] = req[x]
                          /\ x # r => Withdraw(ObjectCancelReq(req, r), r)[x] = req[x]
  BY <1>3 DEF ObjectCancelReq, Withdraw, CancelReq, RequestMap
<1>6. /\ ObjectCancelReq(req, r)[r] = d
      /\ Withdraw(ObjectCancelReq(req, r), r)[r] = e
  <2>1. DOMAIN CancelReq(req, r) = Requests
    BY <1>3 DEF CancelReq, RequestMap
  <2>. QED BY <2>1 DEF ObjectCancelReq, Withdraw
<1>. HIDE DEF c
<1>7. /\ d.registered = c.registered /\ d.sends = c.sends /\ d.retries = c.retries
      /\ e.registered = c.registered /\ e.sends = c.sends /\ e.retries = c.retries
  BY <1>3, <1>4 DEF RequestMap, RequestRecord
<1>. HIDE DEF d, e
<1>. QED BY <1>2, <1>4, <1>5, <1>6, <1>7 DEF Marks

\* What may happen after the end.
LEMMA GoneNext ==
  ASSUME TypeOK, Gone, ~base.alive, Next
  PROVE  \/ Tick \/ Unregister \/ Finish
         \/ \E r \in Requests : \/ Cancel(r) \/ Release(r) \/ Free(r)
                               \/ \E ms \in Timeouts : SetTimeout(r, ms)
<1>1. ~Idle => Top.op \in GoneOps
  <2>1. SUFFICES ASSUME ~Idle PROVE Top.op \in GoneOps
    OBVIOUS
  <2>2. stack \in Seq(Frame) /\ stack # <<>>
    BY <2>1 DEF TypeOK, Idle
  <2>3. 1 \in DOMAIN stack /\ stack[1] = Top
    BY <2>2 DEF Top
  <2>4. Top \in Calls(stack)
    BY <2>3 DEF Calls
  <2>. QED BY <2>4 DEF Gone, GoneOps
<1>2. Event => Tick
  BY DEF Event, RespondUnknown, RespondRetry, RespondDone, Sent, Timeout, Death,
         ConfigDeath, Connected
<1>3. User => \E r \in Requests : \/ Cancel(r) \/ Release(r)
                                 \/ \E ms \in Timeouts : SetTimeout(r, ms)
  BY DEF Gone, User, Submit, Retry, SetDefaultTimeout, Block, Unblock,
         FreeGroup, CancelGroup, Finalize
<1>4. Continue => Unregister \/ Finish \/ \E r \in Requests : Free(r)
  <2>1. ASSUME NEW op, op \notin GoneOps PROVE ~Running(op)
    BY <1>1, <2>1, RunningTop
  <2>2. /\ ~Running("start") /\ ~Running("scan") /\ ~Running("sent")
        /\ ~Running("submitted") /\ ~Running("done") /\ ~Running("drop")
        /\ ~Running("dropped") /\ ~Running("expire") /\ ~Running("fail")
        /\ ~Running("die") /\ ~Running("cancel") /\ ~Running("unlink")
        /\ ~Running("callback") /\ ~Running("send") /\ ~Running("refused")
    BY <2>1 DEF GoneOps
  <2>3. /\ ~ScanStart /\ ~ScanSkip /\ ~ScanSend /\ ~ScanFail /\ ~ScanSent
        /\ ~ScanEnd /\ ~Submitted /\ ~Done /\ ~Drop /\ ~Dropped /\ ~Expire
        /\ ~FailNext /\ ~HandleDeath /\ ~CancelNext /\ ~Unlink /\ ~Return
        /\ ~ScanTell /\ ~Accept /\ ~Refuse /\ ~Refused
    BY <2>2, Zenon
       DEF ScanTell, Accept, Refuse, Refused,
           ScanStart, ScanSkip, ScanSend, ScanFail, Scanning, ScanSent, ScanEnd,
           Submitted, Done, Drop, Dropped, Expire, FailNext, HandleDeath,
           CancelNext, Unlink, Return
  <2>4. ~Reset
    BY <1>1 DEF Reset, GoneOps
  <2>. QED BY <2>3, <2>4 DEF Continue
<1>. QED BY <1>2, <1>3, <1>4 DEF Next

\* Nothing is left to do then but to let requests go.
LEMMA GoneKept ==
  ASSUME TypeOK, Gone, ~base.alive, MaxDepth = 0, Next
  PROVE  Gone'
<1>1. req \in RequestMap /\ base.groups = {} /\ \A r \in Requests : ~req[r].registered
  BY DEF TypeOK, RequestMap, Gone
<1>2. ~Idle => Top.op \in GoneOps /\ Top \in Frame
  <2>1. SUFFICES ASSUME ~Idle PROVE Top.op \in GoneOps /\ Top \in Frame
    OBVIOUS
  <2>2. stack \in Seq(Frame) /\ stack # <<>>
    BY <2>1 DEF TypeOK, Idle
  <2>3. 1 \in DOMAIN stack /\ stack[1] = Top
    BY <2>2 DEF Top
  <2>4. Top \in Calls(stack)
    BY <2>3 DEF Calls
  <2>. QED BY <2>1, <2>4, TopType DEF Gone, GoneOps
<1>3. \A f \in Calls(stack) : f.op \in GoneOps
  BY DEF Gone, GoneOps
<1>4. CASE Tick
  BY <1>3, <1>4, GoneStep DEF Tick
<1>5. ASSUME NEW r \in Requests, Cancel(r)
      PROVE  Gone'
  <2>1. /\ UNCHANGED <<base, link>> /\ req' = Withdraw(ObjectCancelReq(req, r), r)
        /\ net' = CancelNet(req, r) /\ Enter(<<Call("unregister", r)>>)
    BY <1>5, GoneCancel DEF Cancel
  <2>2. net'.outstanding \subseteq net.outstanding
    BY <2>1 DEF CancelNet, TypeOK, NetRecord
  <2>3. Call("unregister", r) \in Frame
    BY RequestCallType DEF Ops, ObservedOps
  <2>4. <<Call("unregister", r)>> \in Frames
        /\ Calls(<<Call("unregister", r)>>) = {Call("unregister", r)}
    BY <2>3, CallsOfOne
  <2>5. Call("unregister", r).op \in GoneOps
    BY DEF Call, GoneOps
  <2>6. \A f \in Calls(stack') : f.op \in GoneOps
    BY <2>1, <2>4, <2>5, GoneCalls
  <2>. QED BY <2>1, <2>2, <2>6, GoneCancel, GoneStep
<1>6. ASSUME NEW r \in Requests, Release(r)
      PROVE  Gone'
  <2>1. \A x \in Requests : /\ req'[x].registered = req[x].registered
                            /\ req'[x].sends = req[x].sends
                            /\ req'[x].retries = req[x].retries
    BY <1>1, <1>6 DEF Release, RequestMap, RequestRecord
  <2>. QED BY <1>3, <1>6, <2>1, GoneStep DEF Release
<1>7. ASSUME NEW r \in Requests, NEW ms \in Timeouts, SetTimeout(r, ms)
      PROVE  Gone'
  <2>1. UNCHANGED <<base, net, link, stack>>
    BY <1>1, <1>7 DEF SetTimeout
  <2>2. \E d : req' = [req EXCEPT ![r] = [req[r] EXCEPT !.timeout = ms,
                                                        !.deadline = d]]
    BY <1>7, Zenon DEF SetTimeout
  <2>3. PICK d : req' = [req EXCEPT ![r] = [req[r] EXCEPT !.timeout = ms,
                                                         !.deadline = d]]
    BY <2>2
  <2>4. \A x \in Requests : /\ req'[x].registered = req[x].registered
                            /\ req'[x].sends = req[x].sends
                            /\ req'[x].retries = req[x].retries
    BY <1>1, <2>3 DEF RequestMap, RequestRecord
  <2>. QED BY <1>3, <2>1, <2>4, GoneStep
<1>8. ASSUME NEW r \in Requests, Free(r)
      PROVE  Gone'
  <2>. DEFINE f == Call("unregister", r)
              h == Call("finish", r)
  <2>1. /\ UNCHANGED <<base, link>> /\ req' = ObjectCancelReq(req, r)
        /\ net' = CancelNet(req, r) /\ Enter(<<f>> \o <<h>>)
    BY <1>8, GoneCancel DEF Free
  <2>2. net'.outstanding \subseteq net.outstanding
    BY <2>1 DEF CancelNet, TypeOK, NetRecord
  <2>3. f \in Frame /\ h \in Frame /\ f.op \in GoneOps /\ h.op \in GoneOps
    <3>1. f \in Frame /\ h \in Frame
      BY RequestCallType DEF Ops, ObservedOps
    <3>. QED BY <3>1 DEF Call, GoneOps
  <2>. HIDE DEF f, h
  <2>4. <<f>> \in Frames /\ <<h>> \in Frames /\ Calls(<<f>>) = {f} /\ Calls(<<h>>) = {h}
    BY <2>3, CallsOfOne
  <2>5. <<f>> \o <<h>> \in Frames /\ Calls(<<f>> \o <<h>>) = {f, h}
    <3>. DEFINE a == <<f>>
                b == <<h>>
    <3>1. a \in Frames /\ b \in Frames /\ Calls(a) = {f} /\ Calls(b) = {h}
      BY <2>4
    <3>. HIDE DEF a, b
    <3>2. a \o b \in Frames /\ Calls(a \o b) = {f, h}
      BY <3>1, CallsOfBoth
    <3>. QED BY <3>2 DEF a, b
  <2>6. \A g \in Calls(stack') : g.op \in GoneOps
    BY <2>1, <2>3, <2>5, GoneCalls
  <2>. QED BY <2>1, <2>2, <2>6, GoneCancel, GoneStep
<1>10. CASE Unregister
  <2>1. ~Idle /\ Become(<<>>) /\ UNCHANGED <<base, net, link>> /\ req' = req
    <3>1. ~Idle
      BY <1>10, RunningTop DEF Unregister
    <3>2. Top.op \in RequestOps
      BY <1>10, RunningTop DEF Unregister, RequestOps
    <3>3. Top.r \in Requests
      BY <1>2, <3>1, <3>2 DEF Frame, MaybeRequest
    <3>. QED BY <1>1, <1>10, <3>1, <3>3 DEF Unregister
  <2>2. \A f \in Calls(stack') : f.op \in GoneOps
    BY <2>1, CallsOfNone, GoneCalls
  <2>. QED BY <2>1, <2>2, GoneStep
<1>11. CASE Finish
  <2>1. ~Idle /\ Top.op = "finish"
    BY <1>11, RunningTop DEF Finish
  <2>. DEFINE r == Top.r
  <2>2. r \in Requests
    BY <1>2, <2>1 DEF Frame, MaybeRequest, RequestOps
  <2>3. Become(<<>>)
    <3>1. Callback(r) = <<>>
      BY NoHandler
    <3>. QED BY <1>11, <3>1 DEF Finish
  <2>4. \A f \in Calls(stack') : f.op \in GoneOps
    BY <2>1, <2>3, CallsOfNone, GoneCalls
  <2>5. PICK q \in {req, CompleteReq(req, r)} : req' = [q EXCEPT ![r].freed = TRUE]
    BY <1>11 DEF Finish
  <2>. HIDE DEF r
  <2>6. q \in RequestMap
    BY <1>1, <2>2, <2>5, CompleteReqType
  <2>7. \A x \in Requests : /\ q[x].registered = req[x].registered
                            /\ q[x].sends = req[x].sends
                            /\ q[x].retries = req[x].retries
    <3>. DEFINE u == CompleteReq(req, r)
    <3>1. /\ u[r].sends = req[r].sends /\ u[r].retries = req[r].retries
          /\ u[r].registered = req[r].registered
          /\ \A x \in Requests : x # r => u[x] = req[x]
      BY <1>1, <2>2, CompleteFields, CompleteReqFields
    <3>. HIDE DEF u
    <3>2. q = req \/ q = u
      BY <2>5 DEF u
    <3>. QED BY <3>1, <3>2
  <2>8. \A x \in Requests : /\ req'[x].registered = q[x].registered
                            /\ req'[x].sends = q[x].sends
                            /\ req'[x].retries = q[x].retries
    BY <2>2, <2>5, <2>6 DEF RequestMap, RequestRecord
  <2>. QED BY <1>11, <2>4, <2>7, <2>8, GoneStep DEF Finish
<1>. QED BY <1>4, <1>5, <1>6, <1>7, <1>8, <1>10, <1>11, GoneNext

-----------------------------------------------------------------------------
(***************************************************************************)
(* The invariant.                                                          *)
(***************************************************************************)

\* At first no request is anywhere.
LEMMA TablesInit ==
  ASSUME Init
  PROVE  TablesInv
<1>1. /\ base.alive /\ stack = <<>> /\ base.active = {} /\ base.pending = {}
      /\ base.first = None /\ base.last = None /\ base.block = None
      /\ net.outstanding = {} /\ net.answers = {} /\ ~link.dead
  BY DEF Init
<1>2. Calls(stack) = {}
  BY <1>1 DEF Calls
<1>3. ASSUME NEW x \in Requests
      PROVE  /\ AtRest(req, base, net, x) /\ req[x].next = None
             /\ req[x].state = "NEW"
  <2>1. /\ req[x].state = "NEW" /\ ~req[x].dropped /\ ~req[x].freed
        /\ req[x].sends = 0 /\ req[x].retries = 0 /\ req[x].calls = 0
        /\ req[x].next = None
    BY DEF Init
  <2>2. x # None
    BY ConstantsAssumption
  <2>. QED BY <1>1, <2>1, <2>2 DEF AtRest, Underway
<1>4. \A x \in Requests : NoRoles(Calls(stack), x)
  BY <1>2, NoConcern
<1>5. \A x \in Requests : Placed(req, base, net, Calls(stack), x)
  BY <1>3, <1>4, AtRestPlaced
<1>6. Waiting(req, Calls(stack)) = {}
  BY <1>3 DEF Waiting
<1>7. Lined(req, base, {})
  <2>. DEFINE s == [i \in 1 .. 0 |-> None]
  <2>1. s \in [1 .. 0 -> Requests]
    OBVIOUS
  <2>2. Chain(req, base, 0, s)
    BY <1>1 DEF Chain
  <2>. HIDE DEF s
  <2>3. Row(req, base, {}, 0, s)
    BY <1>3, <2>1, <2>2 DEF Row
  <2>. QED BY <2>3 DEF Lined
<1>8. Cursors(req, base, net, Calls(stack))
  BY <1>2 DEF Cursors
<1>9. Promptly(req, net, link, Calls(stack))
  BY <1>1 DEF Promptly, Overdue
<1>10. Nested /\ Fitting /\ Linked(base, link)
  BY <1>1, <1>2 DEF Nested, Fitting, Linked
<1>. QED BY <1>1, <1>5, <1>6, <1>7, <1>8, <1>9, <1>10 DEF TablesInv, Tables

\* What happens outside keeps the tables right.
LEMMA TablesEvent ==
  ASSUME Orderly, TypeOK, SilenceInv, Tables, Event
  PROVE  Tables'
<1>1. MaxDepth = 0 /\ IsFiniteSet(Requests)
  BY DEF Orderly
<1>2. CASE Tick \/ RespondUnknown
  BY <1>2, TablesSettings
<1>. QED BY <1>1, <1>2, TablesRespondRetry, TablesRespondDone, TablesSent,
            TablesTimeout, TablesDeath, TablesConfigDeath, TablesConnected DEF Event

\* The calls of users keep the tables right.
LEMMA TablesUser ==
  ASSUME Orderly, TypeOK, SilenceInv, Tables, User, ~Finalize
  PROVE  Tables'
<1>1. MaxDepth = 0 /\ ("retry" \notin UserCalls \/ Prompt)
  BY DEF Orderly
<1>2. ASSUME NEW r \in Requests, Submit(r) \/ Retry(r) \/ Cancel(r) \/ Release(r)
      PROVE  Tables'
  BY <1>1, <1>2, TablesSubmit, TablesRetry, TablesCancel, TablesSettings
<1>3. ASSUME NEW r \in Requests, NEW ms \in Timeouts, SetTimeout(r, ms)
      PROVE  Tables'
  BY <1>3, TablesSettings
<1>4. ASSUME NEW ms \in Timeouts, SetDefaultTimeout(ms)
      PROVE  Tables'
  BY <1>4, TablesSettings
<1>5. ASSUME NEW g \in Groups, Block(g) \/ Unblock(g) \/ FreeGroup(g)
      PROVE  Tables'
  BY <1>1, <1>5, TablesGroups
<1>6. ASSUME NEW g \in Groups, CancelGroup(g)
      PROVE  Tables'
  BY <1>6, TablesCancelGroup
<1>. QED BY <1>2, <1>3, <1>4, <1>5, <1>6 DEF User

\* The calls in progress keep the tables right.
LEMMA TablesContinue ==
  ASSUME Orderly, TypeOK, SilenceInv, Tables, Continue
  PROVE  Tables'
<1>1. MaxDepth = 0 /\ IsFiniteSet(Requests)
  BY DEF Orderly
<1>2. ~ScanFail
  BY DEF ScanFail, Orderly
<1>3. ~Return
  <2>1. SUFFICES ASSUME Return PROVE FALSE
    OBVIOUS
  <2>2. ~Idle /\ Top.op = "callback" /\ UserTurn
    BY <2>1, RunningTop DEF Return, UserTurn
  <2>. QED BY <2>2, UsersIdle
<1>4. CASE ScanStart \/ ScanSkip \/ ScanSend \/ ScanSent \/ ScanEnd
  BY <1>1, <1>4, TablesScanStart, TablesScanSkip, TablesScanSend, TablesScanSent,
     TablesScanEnd
<1>5. CASE Submitted \/ Reset \/ Done \/ Drop \/ Dropped \/ Unregister \/ Finish
  BY <1>1, <1>5, TablesSubmitted, TablesReset, TablesDone, TablesDrop, TablesDropped,
     TablesUnregister, TablesFinish
<1>6. CASE Expire \/ FailNext \/ HandleDeath \/ CancelNext \/ Unlink
  BY <1>1, <1>6, TablesExpire, TablesFailNext, TablesHandleDeath, TablesCancelNext,
     TablesUnlink
<1>7. ASSUME NEW r \in Requests, Free(r)
      PROVE  Tables'
  BY <1>7, TablesFree
<1>. QED BY <1>2, <1>3, <1>4, <1>5, <1>6, <1>7, OrderlyObservers DEF Continue

\* Every step keeps the tables, or takes the object away.
LEMMA TablesNext ==
  ASSUME Orderly, TypeOK, SilenceInv, TablesInv, Next
  PROVE  TablesInv'
<1>1. CASE ~base.alive
  <2>1. Gone' /\ ~Finalize
    BY <1>1, GoneKept DEF TablesInv, Orderly, Finalize
  <2>2. ~base'.alive
    BY <1>1, <2>1, AliveEvent, AliveUser, AliveContinue DEF AliveStays, Next
  <2>. QED BY <2>1, <2>2 DEF TablesInv
<1>2. CASE base.alive /\ Finalize
  <2>1. Gone'
    BY <1>2, TablesFinalize DEF TablesInv
  <2>2. ~base'.alive
    BY <1>2 DEF Finalize, FinalizeBase, TypeOK, BaseRecord
  <2>. QED BY <2>1, <2>2 DEF TablesInv
<1>3. CASE base.alive /\ ~Finalize
  <2>1. Tables'
    BY <1>3, TablesEvent, TablesUser, TablesContinue DEF TablesInv, Next
  <2>2. base'.alive
    BY <1>3, AliveEvent, AliveUser, AliveContinue DEF AliveStays, Next
  <2>. QED BY <2>1, <2>2 DEF TablesInv
<1>. QED BY <1>1, <1>2, <1>3

\* If sending does not fail, no handler calls the library and a user who
\* retries requests leaves nothing in their way, the tables, the queue, the
\* transactions and the calls in progress always fit together.
THEOREM TablesInvariant ==
  ASSUME Orderly
  PROVE  Spec => []TablesInv
<1>1. TypeOK /\ SilenceInv /\ TablesInv /\ [Next]_vars => TablesInv'
  <2>1. TablesInv /\ UNCHANGED vars => TablesInv'
    <3>1. SUFFICES ASSUME TablesInv, UNCHANGED vars PROVE TablesInv'
      OBVIOUS
    <3>2. /\ req' = req /\ base' = base /\ net' = net /\ link' = link
          /\ stack' = stack /\ ret' = ret /\ now' = now
      BY <3>1 DEF vars
    <3>3. Calls(stack') = Calls(stack)
      BY <3>2
    <3>4. Clean' = Clean
      BY <3>2 DEF Clean, Garbage, Referenced
    <3>. QED BY <3>1, <3>2, <3>3, <3>4
             DEF TablesInv, Tables, Gone, Nested, Fitting, Linked
  <2>. QED BY <2>1, TablesNext
<1>2. Init => TablesInv
  BY TablesInit
<1>3. Spec => []SilenceInv
  BY OrderlyObservers, SilenceInvariant
<1>. QED BY <1>1, <1>2, <1>3, TypeCorrect, PTL DEF Spec

-----------------------------------------------------------------------------
(***************************************************************************)
(* What the invariant means between events.                                *)
(***************************************************************************)

\* The tail is the only request of the queue that points to no other.
LEMMA TailChosen ==
  ASSUME IsFiniteSet(Requests), Lined(req, base, Queued(req))
  PROVE  /\ Queue = Queued(req)
         /\ base.last = IF Queue = {} THEN None
                        ELSE CHOOSE r \in Queue : req[r].next = None
<1>1. PICK n, s : Row(req, base, Queued(req), n, s)
  BY DEF Lined
<1>2. Queue = Queued(req)
  <2>1. \A r \in Requests : InQueue(req, base, r) <=> r \in Queued(req)
    BY <1>1, RowFinds
  <2>. QED BY <2>1 DEF Queue, Queued
<1>3. /\ n \in Nat /\ s \in [1 .. n -> Requests]
      /\ \A x \in Requests : (\E i \in 1 .. n : s[i] = x) <=> x \in Queue
      /\ base.last = IF n = 0 THEN None ELSE s[n]
      /\ \A i \in 1 .. n : req[s[i]].next = IF i < n THEN s[i + 1] ELSE None
  BY <1>1, <1>2 DEF Row, Chain
<1>4. Queue \subseteq Requests
  BY DEF Queue
<1>5. CASE n = 0
  <2>1. Queue = {}
    BY <1>3, <1>4, <1>5
  <2>. QED BY <1>2, <1>3, <1>5, <2>1
<1>6. CASE n # 0
  <2>1. n \in 1 .. n /\ s[n] \in Requests
    BY <1>3, <1>6
  <2>2. s[n] \in Queue /\ req[s[n]].next = None
    BY <1>3, <2>1
  <2>3. ASSUME NEW r \in Queue, req[r].next = None
        PROVE  r = s[n]
    <3>1. PICK i \in 1 .. n : s[i] = r
      BY <1>3, <1>4
    <3>2. ~(i < n)
      <4>1. SUFFICES ASSUME i < n PROVE FALSE
        OBVIOUS
      <4>2. i + 1 \in 1 .. n
        BY <1>3, <4>1
      <4>3. s[i + 1] \in Requests /\ s[i + 1] # None
        BY <1>3, <4>2, ConstantsAssumption
      <4>4. req[s[i]].next = s[i + 1]
        BY <1>3, <4>1
      <4>. QED BY <2>3, <3>1, <4>3, <4>4
    <3>. QED BY <1>3, <3>1, <3>2
  <2>4. (CHOOSE r \in Queue : req[r].next = None) = s[n]
    BY <2>2, <2>3
  <2>. QED BY <1>2, <1>3, <1>6, <2>2, <2>4
<1>. QED BY <1>5, <1>6

\* Between events the tables, the queue and the states agree, for any number
\* of requests: whatever is submitted, retried, sent, cancelled, answered,
\* expired or failed is found where its state says.
THEOREM TablesAgreement ==
  ASSUME Orderly
  PROVE  Spec => []TablesAgree
<1>1. TypeOK /\ TablesInv => TablesAgree
  <2>. SUFFICES ASSUME TypeOK, TablesInv, Idle, base.alive
                PROVE  /\ base.active = {r \in Requests :
                                           req[r].state \in {"QUEUED", "PENDING"}}
                       /\ base.pending = {r \in Requests : req[r].state = "PENDING"}
                       /\ Queue = {r \in Requests : req[r].state = "QUEUED"}
                       /\ base.last = IF Queue = {} THEN None
                                      ELSE CHOOSE r \in Queue : req[r].next = None
    BY DEF TablesAgree, EventTurn
  <2>1. /\ \A x \in Requests : AtRest(req, base, net, x)
        /\ Lined(req, base, Queued(req))
    BY RestFacts DEF TablesInv
  <2>2. \A x \in Requests : /\ x \in base.pending <=> req[x].state = "PENDING"
                            /\ x \in base.active <=> req[x].state \in Underway
    BY <2>1 DEF AtRest
  <2>3. base.active \subseteq Requests /\ base.pending \subseteq Requests
    BY DEF TypeOK, BaseRecord
  <2>. QED BY <2>1, <2>2, <2>3, TailChosen DEF Orderly, Queued, Underway
<1>. QED BY <1>1, TypeCorrect, TablesInvariant, PTL

\* Every transaction in flight belongs to the request that would cancel it,
\* also while that request is being failed, stolen or dropped.
THEOREM TransactionsOwned ==
  ASSUME Orderly
  PROVE  Spec => []NoOrphanTransaction
<1>1. TypeOK /\ TablesInv => NoOrphanTransaction
  <2>. SUFFICES ASSUME TypeOK, TablesInv, NEW t \in net.outstanding
                PROVE  req[t[1]].tx = t[2]
    BY DEF NoOrphanTransaction
  <2>1. t[1] \in Requests
    BY DEF TypeOK, NetRecord, Transmissions
  <2>2. base.alive
    BY DEF TablesInv, Gone
  <2>. QED BY <2>1, <2>2 DEF TablesInv, Tables, Placed, Wired
<1>. QED BY <1>1, TypeCorrect, TablesInvariant, PTL

\* A request is sent once and once more for each retry, whoever asks for it.
THEOREM SentOncePerRetry ==
  ASSUME Orderly
  PROVE  Spec => []SendsMatchRetries
<1>1. TablesInv => SendsMatchRetries
  BY DEF TablesInv, Tables, Placed, Counted, Gone, SendsMatchRetries
<1>. QED BY <1>1, TablesInvariant, PTL

\* Once the service is dead and the users were told, no request waits in the
\* tables or in the queue.
THEOREM NothingKeptByDead ==
  ASSUME Orderly
  PROVE  Spec => []DeadKeepsNothing
<1>1. TypeOK /\ TablesInv => DeadKeepsNothing
  <2>. SUFFICES ASSUME TypeOK, TablesInv, Idle, link.dead
                PROVE  base.active = {} /\ base.pending = {} /\ base.first = None
    BY DEF DeadKeepsNothing, EventTurn
  <2>. QED BY RestFacts DEF TablesInv, Gone, Up
<1>. QED BY <1>1, TypeCorrect, TablesInvariant, PTL

\* Once the object is finalized nothing but its users keeps a request, when
\* none was blocking the others.
THEOREM FinalizedFrees ==
  ASSUME Orderly, Blocking = {}
  PROVE  Spec => []FinalizeFrees
<1>1. TypeOK /\ TablesInv => FinalizeFrees
  <2>. SUFFICES ASSUME TypeOK, TablesInv, Idle, Clean, ~base.alive,
                       NEW r \in Requests
                PROVE  req[r].held \/ req[r].freed
    BY DEF FinalizeFrees, EventTurn
  <2>1. /\ base.active = {} /\ base.pending = {} /\ base.block = None
        /\ net.outstanding = {}
    BY DEF TablesInv, Gone
  <2>2. r # None
    BY ConstantsAssumption
  <2>3. DOMAIN stack = {}
    BY DEF Idle
  <2>4. Referenced(r) => req[r].held
    BY <2>1, <2>2, <2>3 DEF Referenced
  <2>. QED BY <2>4 DEF Clean, Garbage
<1>. QED BY <1>1, TypeCorrect, TablesInvariant, PTL

\* The request that blocks all others is active between events: it still has
\* a deadline, an answer to come or a transmission ahead.
THEOREM BlockerStaysActive ==
  ASSUME Orderly
  PROVE  Spec => []BlockerActive
<1>1. TypeOK /\ TablesInv => BlockerActive
  <2>. SUFFICES ASSUME TypeOK, TablesInv, Idle, base.alive, base.block # None
                PROVE  /\ base.block \in base.active
                       /\ req[base.block].state \in {"QUEUED", "PENDING"}
    BY DEF BlockerActive, EventTurn
  <2>1. base.block \in Requests
    BY DEF TypeOK, BaseRecord, MaybeRequest
  <2>2. AtRest(req, base, net, base.block)
    BY <2>1, RestFacts DEF TablesInv
  <2>. QED BY <2>2 DEF AtRest, Underway
<1>. QED BY <1>1, TypeCorrect, TablesInvariant, PTL

-----------------------------------------------------------------------------
(***************************************************************************)
(* The lifecycle: which steps change it, and how.                          *)
(***************************************************************************)

\* Where a request is in its lifecycle stays what it was.
LifeAt(c, d) ==
  /\ d.state = c.state /\ d.sends = c.sends
  /\ d.retries = c.retries /\ d.calls = c.calls
LifeKept(q, u) == \A x \in Requests : LifeAt(q[x], u[x])

\* radio_request_object_cancel leaves it to the calls it makes, and so does
\* radio_request_cancel.
LEMMA LifeCancel ==
  ASSUME NEW q \in RequestMap, NEW r \in Requests
  PROVE  /\ LifeKept(q, ObjectCancelReq(q, r))
         /\ LifeKept(q, Withdraw(ObjectCancelReq(q, r), r))
<1>. DEFINE c == CancelReq(q, r)[r]
            d == [c EXCEPT !.dropped = TRUE,
                           !.group = IF q[r].dropped THEN q[r].group ELSE None]
            e == [d EXCEPT !.complete = FALSE]
<1>1. LifeAt(q[r], c) /\ DOMAIN c = DOMAIN q[r]
  <2>1. DOMAIN c = DOMAIN q[r]
    BY DEF CancelReq, RequestMap
  <2>. QED BY <2>1, CancelFields DEF Marks, LifeAt
<1>2. \A x \in Requests : /\ x # r => ObjectCancelReq(q, r)[x] = q[x]
                          /\ x # r => Withdraw(ObjectCancelReq(q, r), r)[x] = q[x]
  BY DEF ObjectCancelReq, Withdraw, CancelReq, RequestMap
<1>3. /\ ObjectCancelReq(q, r)[r] = d
      /\ Withdraw(ObjectCancelReq(q, r), r)[r] = e
  <2>1. DOMAIN CancelReq(q, r) = Requests
    BY DEF CancelReq, RequestMap
  <2>. QED BY <2>1 DEF ObjectCancelReq, Withdraw
<1>. HIDE DEF c
<1>4. LifeAt(c, d) /\ LifeAt(c, e)
  BY <1>1 DEF LifeAt, RequestMap, RequestRecord
<1>5. \A x \in Requests : LifeAt(q[x], q[x])
  BY DEF LifeAt
<1>. HIDE DEF d, e
<1>6. LifeAt(q[r], d) /\ LifeAt(q[r], e)
  BY <1>1, <1>4 DEF LifeAt
<1>. QED BY <1>2, <1>3, <1>5, <1>6 DEF LifeKept

\* Steps that leave all requests as they are.
LEMMA LifeSame ==
  ASSUME \/ RespondUnknown \/ Timeout \/ Tick \/ ConfigDeath \/ Connected
         \/ ScanStart \/ ScanSkip \/ ScanSent \/ ScanEnd \/ Reset \/ Return
         \/ \E g \in Groups : Block(g) \/ Unblock(g) \/ FreeGroup(g)
  PROVE  LifeKept(req, req')
<1>1. UNCHANGED req
  BY DEF RespondUnknown, Timeout, Tick, ConfigDeath, Connected, ScanStart,
         ScanSkip, ScanSent, ScanEnd, Reset, Return, Block, Unblock, FreeGroup
<1>. QED BY <1>1 DEF LifeKept, LifeAt

\* Settings, membership of groups, and calls that end.
LEMMA LifeSettings ==
  ASSUME TypeOK,
         \/ \E r \in Requests : Release(r) \/ \E ms \in Timeouts : SetTimeout(r, ms)
         \/ \E ms \in Timeouts : SetDefaultTimeout(ms)
         \/ Unregister \/ Submitted \/ Unlink \/ Finalize
         \/ \E g \in Groups : CancelGroup(g)
  PROVE  LifeKept(req, req')
<1>1. ASSUME NEW r \in Requests, Release(r)
      PROVE  LifeKept(req, req')
  BY <1>1 DEF Release, LifeKept, LifeAt, TypeOK, RequestRecord
<1>2. ASSUME NEW r \in Requests, NEW ms \in Timeouts, SetTimeout(r, ms)
      PROVE  LifeKept(req, req')
  BY <1>2 DEF SetTimeout, LifeKept, LifeAt, TypeOK, RequestRecord
<1>3. ASSUME NEW ms \in Timeouts, SetDefaultTimeout(ms)
      PROVE  LifeKept(req, req')
  BY <1>3 DEF SetDefaultTimeout, LifeKept, LifeAt, TypeOK, RequestRecord
<1>4. CASE Unregister
  BY <1>4 DEF Unregister, LifeKept, LifeAt, TypeOK, RequestRecord
<1>5. CASE Submitted
  BY <1>5 DEF Submitted, LifeKept, LifeAt, TypeOK, RequestRecord
<1>6. ASSUME NEW S
      PROVE  LifeKept(req, Ungroup(S))
  BY DEF Ungroup, LifeKept, LifeAt, TypeOK, RequestRecord
<1>7. CASE Unlink
  BY <1>6, <1>7 DEF Unlink
<1>8. ASSUME NEW g \in Groups, CancelGroup(g)
      PROVE  LifeKept(req, req')
  BY <1>6, <1>8 DEF CancelGroup
<1>9. CASE Finalize
  BY <1>9 DEF Finalize, FinalizeReq, LifeKept, LifeAt, TypeOK, RequestRecord
<1>. QED BY <1>1, <1>2, <1>3, <1>4, <1>5, <1>7, <1>8, <1>9

\* Cancellations, and requests that leave the tables.
LEMMA LifeLeaves ==
  ASSUME TypeOK,
         \/ \E r \in Requests : Cancel(r) \/ Free(r)
         \/ CancelNext \/ Drop \/ Expire
  PROVE  LifeKept(req, req')
<1>0. req \in RequestMap
  BY DEF TypeOK, RequestMap
<1>1. ASSUME NEW r \in Requests, Cancel(r) \/ Free(r)
      PROVE  LifeKept(req, req')
  BY <1>0, <1>1, LifeCancel DEF Cancel, Free
<1>2. LifeKept(req, req)
  BY DEF LifeKept, LifeAt
<1>3. ASSUME NEW q \in RequestMap, NEW r \in Requests
      PROVE  LifeKept(q, DeactivateReq(q, base, r)) /\ LifeKept(q, CancelReq(q, r))
  <2>1. LifeKept(q, DeactivateReq(q, base, r))
    BY DeactivateFields DEF Marks, LifeKept, LifeAt
  <2>2. LifeKept(q, CancelReq(q, r))
    BY CancelFields DEF Marks, LifeKept, LifeAt
  <2>. QED BY <2>1, <2>2
<1>4. CASE CancelNext
  <2>1. UNCHANGED req \/ \E r \in Requests :
          req' = Withdraw(ObjectCancelReq(req, r), r)
    BY <1>4, RunningTop, TopType DEF CancelNext
  <2>. QED BY <1>0, <1>2, <2>1, LifeCancel
<1>5. CASE Expire
  <2>1. UNCHANGED req \/ \E r \in Requests : req' = DeactivateReq(req, base, r)
    BY <1>5, RunningTop, TopType DEF Expire
  <2>. QED BY <1>0, <1>2, <1>3, <2>1
<1>6. CASE Drop
  <2>1. ~Idle /\ Top.r \in Requests
    BY <1>6, RunningTop, TopType DEF Drop, RequestOps
  <2>2. PICK q \in RequestMap : q = CancelReq(req, Top.r)
    BY <1>0, <2>1, CancelReqType
  <2>3. LifeKept(req, q) /\ LifeKept(q, req')
    BY <1>0, <1>3, <1>6, <2>1, <2>2 DEF Drop
  <2>. QED BY <2>3 DEF LifeKept, LifeAt
<1>. QED BY <1>1, <1>4, <1>5, <1>6

-----------------------------------------------------------------------------
(***************************************************************************)
(* The moves of one request through its lifecycle.                         *)
(***************************************************************************)
Passes(c, d, from, to) ==
  /\ c.state \in from /\ d.state = to
  /\ d.retries = c.retries /\ d.sends = c.sends /\ d.calls = c.calls
Transmits(c, d) ==
  /\ c.state = "QUEUED" /\ d.state = "PENDING"
  /\ c.sends = c.retries /\ d.sends = c.sends + 1
  /\ d.retries = c.retries /\ d.calls = c.calls
Retries(c, d) ==
  /\ c.state = "PENDING" /\ d.state = "QUEUED"
  /\ d.retries = c.retries + 1
  /\ d.sends = c.sends /\ d.calls = c.calls
Completes(c, d) ==
  /\ c.state = "DONE" /\ d.state = "DONE"
  /\ c.calls = 0 /\ d.calls = 1
  /\ d.retries = c.retries /\ d.sends = c.sends
Fails(c, d) ==
  /\ c.state \in Underway /\ d.state = "FAILED"
  /\ c.calls = 0 /\ d.calls \in {0, 1}
  /\ d.retries = c.retries /\ d.sends = c.sends

LifeMoves(c, d) ==
  \/ LifeAt(c, d)
  \/ Passes(c, d, {"NEW"}, "QUEUED")
  \/ Transmits(c, d) \/ Retries(c, d)
  \/ Passes(c, d, {"PENDING"}, "DONE")
  \/ Completes(c, d) \/ Fails(c, d)
  \/ Passes(c, d, {"NEW", "QUEUED", "PENDING"}, "CANCELLED")

\* One request moves, or the service dies and takes the requests S along.
LifeOne(q, u, r) ==
  /\ \A x \in Requests : x # r => LifeAt(q[x], u[x])
  /\ LifeMoves(q[r], u[r])
LifeDies(q, u, S) ==
  \A x \in Requests :
    /\ x \in S => Passes(q[x], u[x], Underway, "QUEUED")
    /\ x \notin S => LifeAt(q[x], u[x])
LifeStep ==
  \/ LifeKept(req, req')
  \/ \E r \in Requests : LifeOne(req, req', r)
  \/ \E S \in SUBSET Requests : LifeDies(req, req', S)

\* Requests with the same marks differ in their state at most.
LEMMA LifeMarks ==
  ASSUME NEW c, NEW d, Marks(c, d), d.state = c.state
  PROVE  LifeAt(c, d)
BY DEF Marks, LifeAt

\* A request is submitted.
LEMMA LifeSubmit ==
  ASSUME TypeOK, NEW r \in Requests, Submit(r)
  PROVE  LifeStep
<1>. DEFINE p == QueueReq(req, base, r)
<1>1. /\ req[r].state = "NEW"
      /\ \E d : req' = [p EXCEPT ![r] = [@ EXCEPT !.complete = FALSE, !.deadline = d]]
  BY Zenon DEF Submit
<1>2. req \in RequestMap /\ base \in BaseRecord
  BY DEF TypeOK, RequestMap
<1>3. p \in RequestMap
  BY <1>2, QueueReqType
<1>4. ASSUME NEW x \in Requests
      PROVE  /\ Marks(req[x], p[x])
             /\ p[x].state = IF x = r THEN "QUEUED" ELSE req[x].state
  BY <1>2, QueueFields
<1>. HIDE DEF p
<1>5. PICK d : req' = [p EXCEPT ![r] = [p[r] EXCEPT !.complete = FALSE,
                                                   !.deadline = d]]
  BY <1>1
<1>6. \A x \in Requests : x # r => req'[x] = p[x]
  BY <1>3, <1>5 DEF RequestMap
<1>7. LifeAt(p[r], req'[r])
  <2>1. /\ req'[r] = [p[r] EXCEPT !.complete = FALSE, !.deadline = d]
        /\ p[r] \in RequestRecord
    BY <1>3, <1>5 DEF RequestMap
  <2>. QED BY <2>1 DEF LifeAt, RequestRecord
<1>8. Passes(req[r], req'[r], {"NEW"}, "QUEUED")
  BY <1>1, <1>4, <1>7 DEF Passes, Marks, LifeAt
<1>9. \A x \in Requests : x # r => LifeAt(req[x], req'[x])
  BY <1>4, <1>6 DEF Marks, LifeAt
<1>10. LifeOne(req, req', r)
  BY <1>8, <1>9 DEF LifeOne, LifeMoves
<1>. QED BY <1>10 DEF LifeStep

\* A user retries a request.
LEMMA LifeRetry ==
  ASSUME TypeOK, NEW r \in Requests, Retry(r)
  PROVE  LifeStep
<1>. DEFINE p == QueueReq(CancelReq(req, r), base, r)
<1>1. req[r].state = "PENDING" /\ req' = [p EXCEPT ![r].retries = @ + 1]
  BY Zenon DEF Retry
<1>2. p \in RequestMap
  BY RequeueFields
<1>3. \A x \in Requests :
        /\ Marks(req[x], p[x])
        /\ p[x].state = IF x = r THEN "QUEUED" ELSE req[x].state
  BY RequeueFields
<1>. HIDE DEF p
<1>4. /\ \A x \in Requests : x # r => req'[x] = p[x]
      /\ req'[r] = [p[r] EXCEPT !.retries = p[r].retries + 1]
      /\ p[r] \in RequestRecord
  BY <1>1, <1>2 DEF RequestMap
<1>5. /\ req'[r].state = "QUEUED" /\ req'[r].retries = req[r].retries + 1
      /\ req'[r].sends = req[r].sends /\ req'[r].calls = req[r].calls
  BY <1>3, <1>4 DEF RequestRecord, Marks
<1>6. \A x \in Requests : x # r => LifeAt(req[x], req'[x])
  BY <1>3, <1>4 DEF Marks, LifeAt
<1>7. LifeOne(req, req', r)
  BY <1>1, <1>5, <1>6 DEF LifeOne, LifeMoves, Retries
<1>. QED BY <1>7 DEF LifeStep

\* The retry function asks for another attempt.
LEMMA LifeRespondRetry ==
  ASSUME TypeOK, Tables, RespondRetry
  PROVE  LifeStep
<1>1. PICK m \in net.answers :
        LET r == m[1]
            q == CancelReq(req, r)
        IN  /\ Found(m)
            /\ req' = [QueueReq(q, base, r) EXCEPT
                         ![r] = [@ EXCEPT !.retries = q[r].retries + 1,
                                          !.scheduled = now + RetryDelay]]
  BY Zenon DEF RespondRetry
<1>. DEFINE r == m[1]
            q == CancelReq(req, r)
            p == QueueReq(q, base, r)
            k == q[r].retries + 1
            d == now + RetryDelay
<1>2. Idle
  BY DEF RespondRetry, EventTurn
<1>3. r \in Requests /\ req[r].state = "PENDING"
  BY <1>1, <1>2, FoundPending
<1>4. req' = [p EXCEPT ![r] = [p[r] EXCEPT !.retries = k, !.scheduled = d]]
  BY <1>1
<1>5. k = req[r].retries + 1
  <2>1. req \in RequestMap
    BY DEF TypeOK, RequestMap
  <2>. QED BY <1>3, <2>1, CancelFields DEF Marks
<1>. HIDE DEF r
<1>6. p \in RequestMap
  BY <1>3, RequeueFields
<1>7. \A x \in Requests :
        /\ Marks(req[x], p[x])
        /\ p[x].state = IF x = r THEN "QUEUED" ELSE req[x].state
  BY <1>3, RequeueFields
<1>. HIDE DEF p, q, k, d
<1>8. /\ \A x \in Requests : x # r => req'[x] = p[x]
      /\ req'[r] = [p[r] EXCEPT !.retries = k, !.scheduled = d]
      /\ p[r] \in RequestRecord
  BY <1>3, <1>4, <1>6 DEF RequestMap
<1>9. /\ req'[r].state = "QUEUED" /\ req'[r].retries = req[r].retries + 1
      /\ req'[r].sends = req[r].sends /\ req'[r].calls = req[r].calls
  <2>1. /\ req'[r].state = p[r].state /\ req'[r].retries = k
        /\ req'[r].sends = p[r].sends /\ req'[r].calls = p[r].calls
    BY <1>8 DEF RequestRecord
  <2>. QED BY <1>3, <1>5, <1>7, <2>1 DEF Marks
<1>10. \A x \in Requests : x # r => LifeAt(req[x], req'[x])
  BY <1>7, <1>8 DEF Marks, LifeAt
<1>11. LifeOne(req, req', r)
  BY <1>3, <1>9, <1>10 DEF LifeOne, LifeMoves, Retries
<1>. QED BY <1>3, <1>11 DEF LifeStep

\* An answer comes.
LEMMA LifeRespondDone ==
  ASSUME TypeOK, Tables, RespondDone
  PROVE  LifeStep
<1>1. PICK m \in net.answers :
        Found(m) /\ req' = [CancelReq(req, m[1]) EXCEPT ![m[1]].state = "DONE"]
  BY Zenon DEF RespondDone
<1>. DEFINE r == m[1]
            p == CancelReq(req, r)
<1>2. Idle /\ req \in RequestMap
  BY DEF RespondDone, EventTurn, TypeOK, RequestMap
<1>3. r \in Requests /\ req[r].state = "PENDING"
  BY <1>1, <1>2, FoundPending
<1>4. req' = [p EXCEPT ![r].state = "DONE"]
  BY <1>1
<1>. HIDE DEF r
<1>5. /\ p \in RequestMap
      /\ \A x \in Requests : x # r => p[x] = req[x]
      /\ Marks(req[r], p[r])
  BY <1>2, <1>3, CancelFields, CancelReqType
<1>. HIDE DEF p
<1>6. /\ \A x \in Requests : x # r => req'[x] = req[x]
      /\ req'[r].state = "DONE" /\ Marks(p[r], req'[r])
  BY <1>3, <1>4, <1>5 DEF Marks, RequestMap, RequestRecord
<1>7. Passes(req[r], req'[r], {"PENDING"}, "DONE")
  BY <1>3, <1>5, <1>6 DEF Passes, Marks
<1>8. LifeOne(req, req', r)
  BY <1>6, <1>7 DEF LifeOne, LifeMoves, LifeAt
<1>. QED BY <1>3, <1>8 DEF LifeStep

\* A request fails: its callback runs, unless it is withheld or gone.
LEMMA LifeFails ==
  ASSUME NEW q \in RequestMap, NEW r \in Requests, q[r].state \in Underway,
         q[r].calls = 0
  PROVE  Fails(q[r], FailReq(q, r)[r])
<1>1. /\ FailReq(q, r)[r].state = "FAILED"
      /\ FailReq(q, r)[r].calls = IF q[r].complete THEN q[r].calls + 1
                                  ELSE q[r].calls
  BY FailReqFields
<1>2. /\ FailReq(q, r)[r].sends = q[r].sends
      /\ FailReq(q, r)[r].retries = q[r].retries
  BY FailFields
<1>. QED BY <1>1, <1>2 DEF Fails

\* A transaction ends, or turns out to have failed.
LEMMA LifeSent ==
  ASSUME TypeOK, Tables, Sent
  PROVE  LifeStep
<1>1. PICK t \in net.outstanding :
        LET q == [req EXCEPT ![t[1]].tx = 0]
        IN  req' = q \/ req' = FailReq(q, t[1])
  BY Zenon DEF Sent
<1>. DEFINE r == t[1]
            q == [req EXCEPT ![r].tx = 0]
<1>2. Idle /\ req \in RequestMap /\ r \in Requests
  BY DEF Sent, EventTurn, TypeOK, RequestMap, NetRecord, Transmissions
<1>3. /\ q \in RequestMap /\ \A x \in Requests : x # r => q[x] = req[x]
      /\ LifeAt(req[r], q[r])
  <2>1. q \in RequestMap
    BY <1>2, FieldType
  <2>. QED BY <1>2, <2>1 DEF RequestMap, RequestRecord, LifeAt
<1>4. req[r].state = "PENDING" /\ req[r].calls = 0
  <2>1. AtRest(req, base, net, r)
    BY <1>2, RestFacts
  <2>2. req[r].state = "PENDING"
    BY <2>1 DEF AtRest
  <2>. QED BY <2>1, <2>2 DEF AtRest, Terminal, Live
<1>5. req' = q \/ req' = FailReq(q, r)
  BY <1>1
<1>. HIDE DEF q, r
<1>6. Fails(q[r], FailReq(q, r)[r])
  BY <1>2, <1>3, <1>4, LifeFails DEF LifeAt, Underway
<1>7. \A x \in Requests : x # r => FailReq(q, r)[x] = q[x]
  BY <1>2, <1>3, FailReqFields
<1>8. Fails(req[r], FailReq(q, r)[r])
  BY <1>3, <1>6 DEF Fails, LifeAt
<1>9. LifeOne(req, req', r)
  BY <1>3, <1>5, <1>7, <1>8 DEF LifeOne, LifeMoves, LifeAt
<1>. QED BY <1>2, <1>9 DEF LifeStep

\* The scan looks at requests that wait to be sent.
LEMMA ScanWaits ==
  ASSUME TypeOK, Tables, NEW r \in Requests, Scanning(r)
  PROVE  /\ r \in Waiting(req, Calls(stack))
         /\ req[r].state = "QUEUED" /\ req[r].sends = req[r].retries
<1>1. ~Idle /\ Top.op = "scan" /\ r = Top.r /\ r # None
  BY RunningTop DEF Scanning
<1>2. PICK l, s, k : /\ Row(req, base, Waiting(req, Calls(stack)), l, s)
                     /\ At(req, net, Calls(stack), Top, s, l, k)
  BY <1>1, ScanStands DEF Scans
<1>3. k \in 1 .. l + 1 /\ r = (IF k <= l THEN s[k] ELSE None)
  BY <1>1, <1>2 DEF At, Ahead
<1>4. /\ l \in Nat
      /\ (\E i \in 1 .. l : s[i] = r) <=> r \in Waiting(req, Calls(stack))
  BY <1>2 DEF Row
<1>5. k \in 1 .. l /\ s[k] = r
  BY <1>1, <1>3, <1>4
<1>6. r \in Waiting(req, Calls(stack))
  BY <1>4, <1>5
<1>. QED BY <1>6 DEF Tables, Placed, Counted, Waiting

\* A request is sent.
LEMMA LifeScanSend ==
  ASSUME TypeOK, Tables, ScanSend
  PROVE  LifeStep
<1>1. PICK r \in Requests : Scanning(r) /\ req' = SentReq(req, r, Top.prev)
  BY DEF ScanSend, SentReq
<1>2. ~Idle /\ Top.prev \in MaybeRequest /\ req \in RequestMap
  BY <1>1, RunningTop, TopType DEF Scanning, TypeOK, RequestMap
<1>. DEFINE u == req'
            p == Top.prev
<1>3. u = SentReq(req, r, p) /\ p \in MaybeRequest
  BY <1>1, <1>2
<1>. HIDE DEF u, p
<1>4. /\ \A x \in Requests : x # r => /\ Marks(req[x], u[x])
                                      /\ u[x].state = req[x].state
      /\ u[r].state = "PENDING" /\ u[r].sends = req[r].sends + 1
      /\ u[r].retries = req[r].retries /\ u[r].calls = req[r].calls
  BY <1>2, <1>3, SendFields
<1>5. Transmits(req[r], u[r])
  BY <1>1, <1>4, ScanWaits DEF Transmits
<1>6. LifeOne(req, u, r)
  BY <1>4, <1>5, LifeMarks DEF LifeOne, LifeMoves
<1>. QED BY <1>6 DEF LifeStep, u

\* A dropped request ends, if it has not.
LEMMA LifeDropped ==
  ASSUME TypeOK, Dropped
  PROVE  LifeStep
<1>. DEFINE r == Top.r
<1>1. /\ ~Idle
      /\ req' = [req EXCEPT ![r].state = IF @ \in Live THEN "CANCELLED" ELSE @]
  BY RunningTop, Zenon DEF Dropped
<1>2. r \in Requests /\ req \in RequestMap
  BY <1>1, RunningTop, TopType DEF Dropped, TypeOK, RequestMap, RequestOps
<1>. HIDE DEF r
<1>3. /\ \A x \in Requests : x # r => req'[x] = req[x]
      /\ req[r] \in RequestRecord
      /\ req'[r] = [req[r] EXCEPT
           !.state = IF req[r].state \in Live THEN "CANCELLED" ELSE req[r].state]
  BY <1>1, <1>2 DEF RequestMap
<1>4. CASE req[r].state \in Live
  <2>1. Passes(req[r], req'[r], {"NEW", "QUEUED", "PENDING"}, "CANCELLED")
    BY <1>3, <1>4 DEF Passes, Live, RequestRecord
  <2>. QED BY <1>2, <1>3, <2>1 DEF LifeStep, LifeOne, LifeMoves, LifeAt
<1>5. CASE req[r].state \notin Live
  <2>1. LifeAt(req[r], req'[r])
    BY <1>3, <1>5 DEF LifeAt, RequestRecord
  <2>. QED BY <1>2, <1>3, <2>1 DEF LifeStep, LifeOne, LifeMoves, LifeAt
<1>. QED BY <1>4, <1>5

\* The next request of a list fails.
LEMMA LifeFailNext ==
  ASSUME TypeOK, Tables, FailNext
  PROVE  LifeStep
<1>1. /\ ~Idle /\ Top.op = "fail" /\ Top.todo \in SUBSET Requests
      /\ req \in RequestMap
  BY RunningTop, TopType DEF FailNext, TypeOK, RequestMap
<1>2. UNCHANGED req \/ \E r \in Top.todo : req' = FailReq(req, r)
  BY DEF FailNext
<1>3. ASSUME NEW r \in Top.todo, req' = FailReq(req, r)
      PROVE  LifeStep
  <2>1. r \in Requests /\ Ending(Calls(stack), r)
    <3>1. stack \in Seq(Frame) /\ stack # <<>>
      BY <1>1 DEF TypeOK, Idle
    <3>2. 1 \in DOMAIN stack /\ stack[1] = Top
      BY <3>1 DEF Top
    <3>. QED BY <1>1, <3>2 DEF Ending, Calls
  <2>2. req[r].state \in Underway /\ req[r].calls = 0
    <3>1. Placed(req, base, net, Calls(stack), r)
      BY <2>1 DEF Tables
    <3>2. req[r].state \in Underway
      BY <2>1, <3>1 DEF Placed, Claimed
    <3>. QED BY <3>1, <3>2 DEF Placed, Counted, Underway, Terminal, Live
  <2>3. /\ \A x \in Requests : x # r => req'[x] = req[x]
        /\ Fails(req[r], req'[r])
    BY <1>1, <1>3, <2>1, <2>2, FailReqFields, LifeFails
  <2>. QED BY <2>1, <2>3 DEF LifeStep, LifeOne, LifeMoves, LifeAt
<1>4. CASE UNCHANGED req
  BY <1>4 DEF LifeStep, LifeKept, LifeAt
<1>. QED BY <1>2, <1>3, <1>4

\* The callback of a request that was answered runs.
LEMMA LifeCompletes ==
  ASSUME NEW q \in RequestMap, NEW r \in Requests, q[r].complete => q[r].calls = 0,
         q[r].complete => q[r].state = "DONE"
  PROVE  LifeOne(q, CompleteReq(q, r), r)
<1>. DEFINE u == CompleteReq(q, r)
<1>1. /\ \A x \in Requests : x # r => u[x] = q[x]
      /\ u[r].calls = IF q[r].complete THEN q[r].calls + 1 ELSE q[r].calls
      /\ u[r].state = q[r].state
  BY CompleteReqFields
<1>2. u[r].sends = q[r].sends /\ u[r].retries = q[r].retries
  BY CompleteFields
<1>. HIDE DEF u
<1>3. CASE q[r].complete
  <2>1. Completes(q[r], u[r])
    BY <1>1, <1>2, <1>3 DEF Completes
  <2>. QED BY <1>1, <2>1 DEF LifeOne, LifeMoves, LifeAt, u
<1>4. CASE ~q[r].complete
  <2>1. LifeAt(q[r], u[r])
    BY <1>1, <1>2, <1>4 DEF LifeAt
  <2>. QED BY <1>1, <2>1 DEF LifeOne, LifeMoves, LifeAt, u
<1>. QED BY <1>3, <1>4

\* An answer is reported.
LEMMA LifeDone ==
  ASSUME TypeOK, CompletionInv, Tables, Done
  PROVE  LifeStep
<1>. DEFINE r == Top.r
<1>1. /\ ~Idle /\ Top.op = "done" /\ r \in Requests /\ req \in RequestMap
      /\ req' = CompleteReq(req, r)
  BY RunningTop, TopType DEF Done, RequestOps, TypeOK, RequestMap
<1>2. Answered(Calls(stack), r)
  <2>1. stack \in Seq(Frame) /\ stack # <<>>
    BY <1>1 DEF TypeOK, Idle
  <2>2. 1 \in DOMAIN stack /\ stack[1] = Top
    BY <2>1 DEF Top
  <2>. QED BY <1>1, <2>2 DEF Answered, Calls
<1>. HIDE DEF r
<1>3. req[r].state = "DONE"
  BY <1>1, <1>2 DEF Tables, Placed, Claimed
<1>4. req[r].complete => req[r].calls = 0
  BY <1>1 DEF CompletionInv, CallbackUnused
<1>. QED BY <1>1, <1>3, <1>4, LifeCompletes DEF LifeStep

\* What is freed before its answer was reported is told of it.
LEMMA LifeFinish ==
  ASSUME TypeOK, CompletionInv, SilenceInv, Tables, Finish
  PROVE  LifeStep
<1>. DEFINE r == Top.r
            completes == req[r].complete /\ req[r].submitted
            q == IF completes THEN CompleteReq(req, r) ELSE req
            S == Calls(stack)
<1>1. /\ ~Idle /\ Top.op = "finish" /\ r \in Requests /\ req \in RequestMap
      /\ req' = [q EXCEPT ![r].freed = TRUE]
  BY RunningTop, TopType DEF Finish, RequestOps, TypeOK, RequestMap
<1>2. Finishing(S, r) /\ \A f \in Calls(Tail(stack)) : ~Crosses(Top, f)
  <2>1. stack \in Seq(Frame) /\ stack # <<>>
    BY <1>1 DEF TypeOK, Idle
  <2>2. 1 \in DOMAIN stack /\ stack[1] = Top
    BY <2>1 DEF Top
  <2>3. \A i \in DOMAIN Tail(stack) : i + 1 \in DOMAIN stack
                               /\ Tail(stack)[i] = stack[i + 1] /\ 1 < i + 1
    BY <2>1
  <2>4. \A i \in DOMAIN Tail(stack) : ~Crosses(Top, Tail(stack)[i])
    BY <2>2, <2>3 DEF Tables, Nested
  <2>. QED BY <1>1, <2>2, <2>4 DEF Finishing, Calls
<1>3. ASSUME NEW f \in S, f.op \in {"drop", "dropped"}, f.r = r
      PROVE  FALSE
  <2>1. f = Top \/ f \in Calls(Tail(stack))
    <3>1. stack \in Seq(Frame) /\ stack # <<>>
      BY <1>1 DEF TypeOK, Idle
    <3>2. \A i \in DOMAIN stack : i = 1 \/ (i - 1 \in DOMAIN Tail(stack)
                                         /\ Tail(stack)[i - 1] = stack[i])
      BY <3>1
    <3>3. Top = stack[1]
      BY <3>1 DEF Top
    <3>. QED BY <3>2, <3>3 DEF Calls
  <2>. QED BY <1>1, <1>2, <1>3, <2>1 DEF Crosses
<1>4. ~DropDue(S, r) /\ ~Leaving(S, r)
  BY <1>3 DEF DropDue, Leaving
<1>. HIDE DEF r, S
<1>5. Placed(req, base, net, S, r) /\ Account(req, S, r)
  BY <1>1 DEF Tables, SilenceInv, Accounts, S
<1>6. Off(req, base, S, r)
  BY <1>2, <1>5 DEF Placed, Detached
<1>7. req[r].state \notin Underway
  BY <1>4, <1>5, <1>6 DEF Placed, Tabled, Off, Out
<1>8. completes => req[r].state = "DONE"
  <2>1. SUFFICES ASSUME completes PROVE req[r].state = "DONE"
    OBVIOUS
  <2>2. req[r].state \in Terminal
    <3>1. req[r].state \in States
      BY <1>1 DEF RequestMap, RequestRecord
    <3>. QED BY <1>5, <1>7, <2>1, <3>1 DEF Account, Fresh, Terminal, Live, Underway
  <2>3. Answered(S, r)
    BY <1>5, <2>1, <2>2 DEF Account, EndedHeard
  <2>. QED BY <1>5, <2>3 DEF Placed, Claimed
<1>9. req[r].complete => req[r].calls = 0
  BY <1>1 DEF CompletionInv, CallbackUnused
<1>10. q \in RequestMap /\ LifeOne(req, q, r)
  <2>1. CASE completes
    <3>1. CompleteReq(req, r) \in RequestMap
      BY <1>1, CompleteReqType
    <3>. QED BY <1>1, <1>8, <1>9, <2>1, <3>1, LifeCompletes
  <2>2. CASE ~completes
    BY <1>1, <2>2 DEF LifeOne, LifeMoves, LifeAt
  <2>. QED BY <2>1, <2>2
<1>. HIDE DEF q
<1>11. LifeKept(q, req')
  BY <1>1, <1>10 DEF LifeKept, LifeAt, RequestMap, RequestRecord
<1>12. LifeOne(req, req', r)
  BY <1>1, <1>10, <1>11 DEF LifeOne, LifeKept, LifeMoves, LifeAt, Passes, Transmits,
     Retries, Completes, Fails
<1>. QED BY <1>1, <1>12 DEF LifeStep

\* The service dies: what was active is queued, to be failed.
LEMMA LifeDeath ==
  ASSUME TypeOK, Tables, req' = HandleDeathReq,
         \A x \in Requests : NoRoles(Calls(stack), x)
  PROVE  LifeStep
<1>1. \A x \in Requests : AtRest(req, base, net, x)
  BY AtRestPlaced DEF Tables
<1>2. req \in RequestMap /\ base.active \in SUBSET Requests
  BY DEF TypeOK, RequestMap, BaseRecord
<1>3. ASSUME NEW x \in Requests
      PROVE  /\ x \in base.active => Passes(req[x], req'[x], Underway, "QUEUED")
             /\ x \notin base.active => LifeAt(req[x], req'[x])
  <2>1. CASE x \in base.active
    <3>1. req[x].state \in Underway
      BY <1>1, <2>1 DEF AtRest
    <3>2. req'[x] = [req[x] EXCEPT !.state = "QUEUED", !.next = None]
      BY <2>1 DEF HandleDeathReq
    <3>. QED BY <1>2, <2>1, <3>1, <3>2 DEF Passes, RequestMap, RequestRecord
  <2>2. CASE x \notin base.active
    BY <2>2 DEF HandleDeathReq, LifeAt
  <2>. QED BY <2>1, <2>2
<1>. QED BY <1>2, <1>3 DEF LifeStep, LifeDies

\* Nothing is in progress when a service dies, or when it is found dead.
LEMMA LifeDeaths ==
  ASSUME TypeOK, Tables, Death \/ HandleDeath
  PROVE  LifeStep
<1>1. req' = HandleDeathReq
  BY DEF Death, HandleDeath
<1>2. CASE Death
  <2>1. Calls(stack) = {}
    BY <1>2, IdleCalls DEF Death, EventTurn
  <2>. QED BY <1>1, <2>1, NoConcern, LifeDeath
<1>3. CASE HandleDeath
  <2>1. ~Idle /\ Top.op = "die"
    BY <1>3, RunningTop DEF HandleDeath
  <2>2. stack \in Seq(Frame) /\ stack # <<>>
    BY <2>1 DEF TypeOK, Idle
  <2>3. 1 \in DOMAIN stack /\ stack[1] = Top
    BY <2>2 DEF Top
  <2>4. \A f \in Calls(stack) : f = Top
    <3>1. \A i \in DOMAIN stack : i = 1 \/ 1 < i
      BY <2>2
    <3>2. \A i \in DOMAIN stack : ~(1 < i)
      BY <2>1, <2>3 DEF Tables, Nested, Crosses
    <3>. QED BY <2>3, <3>1, <3>2 DEF Calls
  <2>5. \A x \in Requests : ~Concerns(Top, x)
    BY <2>1 DEF Concerns, Handling, Lists
  <2>6. \A x \in Requests : \A f \in Calls(stack) : ~Concerns(f, x)
    BY <2>4, <2>5
  <2>. QED BY <1>1, <2>6, NoConcern, LifeDeath
<1>. QED BY <1>2, <1>3

\* While the object lives, every step is one of the lifecycle.
LEMMA LifeNext ==
  ASSUME Orderly, TypeOK, CompletionInv, SilenceInv, Tables, Next
  PROVE  LifeStep
<1>1. LifeKept(req, req') => LifeStep
  BY DEF LifeStep
<1>2. ~ScanFail
  BY DEF ScanFail, Orderly
<1>3. CASE Event
  BY <1>1, <1>3, LifeSame, LifeRespondRetry, LifeRespondDone, LifeSent, LifeDeaths
     DEF Event
<1>4. CASE User
  BY <1>1, <1>4, LifeSame, LifeSettings, LifeLeaves, LifeSubmit, LifeRetry DEF User
<1>5. CASE Continue
  BY <1>1, <1>2, <1>5, LifeSame, LifeSettings, LifeLeaves, LifeScanSend, LifeDropped,
     LifeFailNext, LifeDone, LifeFinish, LifeDeaths, OrderlyObservers DEF Continue
<1>. QED BY <1>3, <1>4, <1>5 DEF Next

\* Afterwards no request changes its state any more.
LEMMA GoneStates ==
  ASSUME TypeOK, Gone, ~base.alive, Next, NEW x \in Requests
  PROVE  req'[x].state = req[x].state
<1>1. LifeKept(req, req') => req'[x].state = req[x].state
  BY DEF LifeKept, LifeAt
<1>2. CASE Tick
  BY <1>1, <1>2, LifeSame
<1>3. ASSUME NEW r \in Requests, NEW ms \in Timeouts,
             Cancel(r) \/ Release(r) \/ SetTimeout(r, ms) \/ Free(r)
      PROVE  req'[x].state = req[x].state
  BY <1>1, <1>3, LifeSettings, LifeLeaves
<1>4. ASSUME NEW r \in Requests, Cancel(r) \/ Release(r) \/ Free(r)
      PROVE  req'[x].state = req[x].state
  BY <1>1, <1>4, LifeSettings, LifeLeaves
<1>5. CASE Finish
  <2>. DEFINE r == Top.r
  <2>1. ~Idle /\ r \in Requests /\ req \in RequestMap
    BY <1>5, RunningTop, TopType DEF Finish, RequestOps, TypeOK, RequestMap
  <2>2. PICK q \in {req, CompleteReq(req, r)} : req' = [q EXCEPT ![r].freed = TRUE]
    BY <1>5 DEF Finish
  <2>. HIDE DEF r
  <2>3. q \in RequestMap
    BY <2>1, <2>2, CompleteReqType
  <2>4. q[x].state = req[x].state
    <3>. DEFINE u == CompleteReq(req, r)
    <3>1. u[r].state = req[r].state /\ \A y \in Requests : y # r => u[y] = req[y]
      BY <2>1, CompleteReqFields
    <3>2. q = req \/ q = u
      BY <2>2
    <3>. HIDE DEF u
    <3>. QED BY <3>1, <3>2
  <2>5. req'[x].state = q[x].state
    BY <2>2, <2>3 DEF RequestMap, RequestRecord
  <2>. QED BY <2>4, <2>5
<1>6. CASE Unregister
  BY <1>1, <1>6, LifeSettings
<1>. QED BY <1>2, <1>3, <1>4, <1>5, <1>6, GoneNext

\* A request that has ended keeps its state for good, whatever calls are
\* still in progress about it, and also once the object is gone.
THEOREM EndsForGood ==
  ASSUME Orderly
  PROVE  Spec => EndedForGood
<1>. DEFINE P == \A r \in Requests :
                   req[r].state \in Terminal => req'[r].state = req[r].state
<1>1. TypeOK /\ CompletionInv /\ SilenceInv /\ TablesInv /\ [Next]_vars => [P]_vars
  <2>1. ASSUME TypeOK, CompletionInv, SilenceInv, TablesInv, Next
        PROVE  P
    <3>1. CASE base.alive
      <4>1. LifeStep
        BY <2>1, <3>1, LifeNext DEF TablesInv
      <4>2. \A r \in Requests : req[r].state \in Terminal =>
              req[r].state \notin {"NEW", "QUEUED", "PENDING"}
        BY DEF Terminal, Live
      <4>. QED BY <4>1, <4>2 DEF LifeStep, LifeKept, LifeOne, LifeDies, LifeMoves,
             LifeAt, Passes, Transmits, Retries, Completes, Fails, Underway
    <3>2. CASE ~base.alive
      BY <2>1, <3>2, GoneStates DEF TablesInv
    <3>. QED BY <3>1, <3>2
  <2>. QED BY <2>1
<1>2. Spec => []SilenceInv
  BY OrderlyObservers, SilenceInvariant
<1>. QED BY <1>1, <1>2, TypeCorrect, CompletionInvariant, TablesInvariant,
            PTL DEF Spec, EndedForGood

-----------------------------------------------------------------------------
(***************************************************************************)
(* The refinement.                                                         *)
(***************************************************************************)

\* The steps of the lifecycle, on the values of the refinement mapping.
LEMMA LifeRefines ==
  ASSUME LifeStep
  PROVE  [LC!Next]_(LC!vars)
<1>. DEFINE f == [r \in Requests |-> req[r].state]
            g == [r \in Requests |-> req[r].sends]
            h == [r \in Requests |-> req[r].retries]
            k == [r \in Requests |-> req[r].calls]
<1>1. ASSUME LifeKept(req, req')
      PROVE  f' = f /\ g' = g /\ h' = h /\ k' = k
  BY <1>1 DEF LifeKept, LifeAt
<1>2. ASSUME NEW r \in Requests, LifeOne(req, req', r)
      PROVE  /\ f' = [f EXCEPT ![r] = req'[r].state]
             /\ g' = [g EXCEPT ![r] = req'[r].sends]
             /\ h' = [h EXCEPT ![r] = req'[r].retries]
             /\ k' = [k EXCEPT ![r] = req'[r].calls]
  BY <1>2 DEF LifeOne, LifeAt
<1>3. ASSUME NEW r \in Requests, LifeOne(req, req', r), ~LifeAt(req[r], req'[r])
      PROVE  LC!Next
  <2>1. /\ f' = [f EXCEPT ![r] = req'[r].state]
        /\ g' = [g EXCEPT ![r] = req'[r].sends]
        /\ h' = [h EXCEPT ![r] = req'[r].retries]
        /\ k' = [k EXCEPT ![r] = req'[r].calls]
    BY <1>2, <1>3
  <2>2. /\ f[r] = req[r].state /\ g[r] = req[r].sends
        /\ h[r] = req[r].retries /\ k[r] = req[r].calls
    OBVIOUS
  <2>3. /\ req'[r].sends = req[r].sends => g' = g
        /\ req'[r].retries = req[r].retries => h' = h
        /\ req'[r].calls = req[r].calls => k' = k
        /\ req'[r].state = req[r].state => f' = f
    <3>1. req'[r].sends = req[r].sends => g' = g
      BY <2>1, <2>2
    <3>2. req'[r].retries = req[r].retries => h' = h
      BY <2>1, <2>2
    <3>3. req'[r].calls = req[r].calls => k' = k
      BY <2>1, <2>2
    <3>4. req'[r].state = req[r].state => f' = f
      BY <2>1, <2>2
    <3>. QED BY <3>1, <3>2, <3>3, <3>4
  <2>4. CASE Passes(req[r], req'[r], {"NEW"}, "QUEUED")
    <3>1. LC!Submit(r)
      BY <2>1, <2>2, <2>3, <2>4 DEF Passes, LC!Submit, LC!Move
    <3>. QED BY <3>1 DEF LC!Next
  <2>5. CASE Transmits(req[r], req'[r])
    <3>1. LC!Transmit(r)
      BY <2>1, <2>2, <2>3, <2>5 DEF Transmits, LC!Transmit, LC!Move
    <3>. QED BY <3>1 DEF LC!Next
  <2>6. CASE Retries(req[r], req'[r])
    <3>1. LC!Retry(r)
      BY <2>1, <2>2, <2>3, <2>6 DEF Retries, LC!Retry, LC!Move
    <3>. QED BY <3>1 DEF LC!Next
  <2>7. CASE Passes(req[r], req'[r], {"PENDING"}, "DONE")
    <3>1. LC!Answer(r)
      BY <2>1, <2>2, <2>3, <2>7 DEF Passes, LC!Answer, LC!Move
    <3>. QED BY <3>1 DEF LC!Next
  <2>8. CASE Completes(req[r], req'[r])
    <3>1. LC!Complete(r)
      BY <2>1, <2>2, <2>3, <2>8 DEF Completes, LC!Complete
    <3>. QED BY <3>1 DEF LC!Next
  <2>9. CASE Fails(req[r], req'[r])
    <3>1. LC!Fail(r)
      BY <2>1, <2>2, <2>3, <2>9 DEF Fails, LC!Fail, LC!Move, Underway
    <3>. QED BY <3>1 DEF LC!Next
  <2>10. CASE Passes(req[r], req'[r], {"NEW", "QUEUED", "PENDING"}, "CANCELLED")
    <3>1. LC!Cancel(r)
      BY <2>1, <2>2, <2>3, <2>10 DEF Passes, LC!Cancel, LC!Move
    <3>. QED BY <3>1 DEF LC!Next
  <2>. QED BY <1>3, <2>4, <2>5, <2>6, <2>7, <2>8, <2>9, <2>10 DEF LifeOne, LifeMoves
<1>4. ASSUME NEW S \in SUBSET Requests, LifeDies(req, req', S)
      PROVE  LC!Next
  <2>1. f' = [r \in Requests |-> IF r \in S THEN "QUEUED" ELSE f[r]]
    BY <1>4 DEF LifeDies, LifeAt, Passes
  <2>2. g' = g /\ h' = h /\ k' = k
    BY <1>4 DEF LifeDies, LifeAt, Passes
  <2>3. \A r \in S : f[r] \in {"QUEUED", "PENDING"}
    BY <1>4 DEF LifeDies, Passes, Underway
  <2>4. LC!Die(S)
    BY <2>1, <2>2, <2>3 DEF LC!Die
  <2>. QED BY <2>4 DEF LC!Next
<1>5. ASSUME NEW r \in Requests, LifeOne(req, req', r), LifeAt(req[r], req'[r])
      PROVE  LifeKept(req, req')
  BY <1>5 DEF LifeOne, LifeKept
<1>. QED BY <1>1, <1>3, <1>4, <1>5 DEF LifeStep, LC!vars

\* Until the object is finalized, each request goes through the lifecycle of
\* RequestLifecycle: one transmission for the submission and for each retry,
\* one end, and one callback after it.
THEOREM FollowsLifecycle ==
  ASSUME Orderly, "finalize" \notin Faults
  PROVE  Spec => Lifecycle
<1>. DEFINE Alive == base.alive
<1>1. Init => Alive /\ LC!Init
  BY DEF Init, LC!Init
<1>2. TypeOK /\ TablesInv /\ Alive /\ [Next]_vars => Alive'
  <2>1. ~Finalize
    BY DEF Finalize
  <2>2. ASSUME TypeOK, TablesInv, base.alive, Next
        PROVE  base'.alive
    BY <2>1, <2>2, AliveEvent, AliveUser, AliveContinue
       DEF AliveStays, Next
  <2>. QED BY <2>2 DEF vars
<1>3. TypeOK /\ CompletionInv /\ SilenceInv /\ TablesInv /\ Alive /\ [Next]_vars
        => [LC!Next]_(LC!vars)
  <2>1. ASSUME TypeOK, CompletionInv, SilenceInv, TablesInv, base.alive, Next
        PROVE  [LC!Next]_(LC!vars)
    BY <2>1, LifeNext, LifeRefines DEF TablesInv
  <2>2. UNCHANGED vars => UNCHANGED LC!vars
    BY DEF vars, LC!vars
  <2>. QED BY <2>1, <2>2
<1>4. Spec => []SilenceInv
  BY OrderlyObservers, SilenceInvariant
<1>. HIDE DEF Alive
<1>. QED BY <1>1, <1>2, <1>3, <1>4, TypeCorrect, CompletionInvariant,
            TablesInvariant, PTL DEF Spec, Lifecycle, LC!Spec
=============================================================================
