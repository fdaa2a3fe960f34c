---------------------------- MODULE CallStackProofs ----------------------------
(***************************************************************************)
(* What calls do to the set of the calls in progress, for frames of any    *)
(* type F.                                                                 *)
(***************************************************************************)
EXTENDS CallStack, TLAPS

\* The calls in progress, whatever their order.
Calls(s) == {s[i] : i \in DOMAIN s}

\* Calls made one after the other.
LEMMA StackConcat ==
  ASSUME NEW F, NEW fs \in Seq(F), NEW gs \in Seq(F)
  PROVE  fs \o gs \in Seq(F) /\ Calls(fs \o gs) = Calls(fs) \cup Calls(gs)
<1>1. /\ fs \o gs \in Seq(F) /\ Len(fs) \in Nat /\ Len(gs) \in Nat
      /\ Len(fs \o gs) = Len(fs) + Len(gs)
  OBVIOUS
<1>2. Calls(fs \o gs) \subseteq Calls(fs) \cup Calls(gs)
  <2>1. ASSUME NEW i \in DOMAIN (fs \o gs)
        PROVE  (fs \o gs)[i] \in Calls(fs) \cup Calls(gs)
    <3>1. CASE i <= Len(fs)
      BY <1>1, <3>1 DEF Calls
    <3>2. CASE i > Len(fs)
      <4>1. (fs \o gs)[i] = gs[i - Len(fs)] /\ i - Len(fs) \in DOMAIN gs
        BY <1>1, <3>2
      <4>. QED BY <4>1 DEF Calls
    <3>. QED BY <1>1, <3>1, <3>2
  <2>. QED BY <2>1 DEF Calls
<1>3. Calls(fs) \subseteq Calls(fs \o gs)
  <2>1. ASSUME NEW i \in DOMAIN fs
        PROVE  i \in DOMAIN (fs \o gs) /\ (fs \o gs)[i] = fs[i]
    BY <1>1
  <2>. QED BY <2>1 DEF Calls
<1>4. Calls(gs) \subseteq Calls(fs \o gs)
  <2>1. ASSUME NEW i \in DOMAIN gs
        PROVE  /\ i + Len(fs) \in DOMAIN (fs \o gs)
               /\ (fs \o gs)[i + Len(fs)] = gs[i]
    BY <1>1
  <2>. QED BY <2>1 DEF Calls
<1>. QED BY <1>1, <1>2, <1>3, <1>4

\* One call, and none.
LEMMA StackOne ==
  ASSUME NEW F, NEW f \in F
  PROVE  /\ <<f>> \in Seq(F) /\ Calls(<<f>>) = {f}
         /\ <<>> \in Seq(F) /\ Calls(<<>>) = {}
BY DEF Calls

\* Calls put on the stack join those that were there.
LEMMA StackEnter ==
  ASSUME NEW F, stack \in Seq(F), NEW fs \in Seq(F), Enter(fs)
  PROVE  stack' \in Seq(F) /\ Calls(stack') = Calls(fs) \cup Calls(stack)
BY StackConcat DEF Enter

\* The same when the running call gives way to others.
LEMMA StackBecome ==
  ASSUME NEW F, stack \in Seq(F), ~Idle, NEW fs \in Seq(F), Become(fs)
  PROVE  /\ stack' \in Seq(F)
         /\ Calls(stack') \subseteq Calls(fs) \cup Calls(stack)
         /\ Calls(fs) \subseteq Calls(stack')
         /\ Calls(stack) \subseteq Calls(stack') \cup {Top}
         /\ Top \in Calls(stack) /\ Top \in F
<1>1. /\ stack # <<>> /\ Tail(stack) \in Seq(F)
      /\ Len(stack) \in Nat \ {0} /\ Len(Tail(stack)) = Len(stack) - 1
      /\ Top = stack[1] /\ Top \in F /\ 1 \in DOMAIN stack
  BY DEF Idle, Top
<1>2. /\ stack' \in Seq(F)
      /\ Calls(stack') = Calls(fs) \cup Calls(Tail(stack))
  BY <1>1, StackConcat DEF Become
<1>3. Calls(Tail(stack)) \subseteq Calls(stack)
  <2>1. ASSUME NEW i \in DOMAIN Tail(stack)
        PROVE  i + 1 \in DOMAIN stack /\ Tail(stack)[i] = stack[i + 1]
    BY <1>1
  <2>. QED BY <2>1 DEF Calls
<1>4. Calls(stack) \subseteq Calls(Tail(stack)) \cup {Top}
  <2>1. ASSUME NEW i \in DOMAIN stack, i # 1
        PROVE  i - 1 \in DOMAIN Tail(stack) /\ Tail(stack)[i - 1] = stack[i]
    BY <1>1, <2>1
  <2>2. Calls(stack) = {stack[i] : i \in DOMAIN stack}
    BY DEF Calls
  <2>3. \A i \in DOMAIN stack : stack[i] \in Calls(Tail(stack)) \cup {Top}
    BY <1>1, <2>1 DEF Calls
  <2>. QED BY <2>2, <2>3
<1>5. Top \in Calls(stack)
  BY <1>1 DEF Calls
<1>. QED BY <1>1, <1>2, <1>3, <1>4, <1>5
=============================================================================
