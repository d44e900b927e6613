------------------------------ MODULE Induction ------------------------------
(***************************************************************************)
(* Induction over the natural numbers and the existence of a function      *)
(* defined by recursion on them, stated about sets and functions, so that  *)
(* a proof can cite them where the code has a loop.                        *)
(***************************************************************************)
EXTENDS Naturals, WellFoundedInduction, TLAPS

(* A set of numbers with 0, and with the successor of each of its members,   *)
(* has them all: its smallest missing number would follow a member.          *)
LEMMA SetInduction ==
  ASSUME NEW T \in SUBSET Nat, 0 \in T, \A n \in T : n + 1 \in T
  PROVE  T = Nat
<1> DEFINE R == OpToRel(<, Nat)
           U == Nat \ T
<1>1. SUFFICES ASSUME U # {} PROVE FALSE
  OBVIOUS
<1>2. IsWellFoundedOn(R, Nat)
  BY NatLessThanWellFounded
<1>3. R = {ss \in Nat \X Nat : ss[1] < ss[2]}
  BY DEF OpToRel
<1> HIDE DEF R
<1>4. PICK x \in U : \A y \in U : ~ (<<y, x>> \in R)
  <2> HIDE DEF U
  <2> QED
    BY <1>1, <1>2, WFMin DEF U
<1>5. x \in Nat /\ x # 0 /\ x \notin T
  OBVIOUS
<1>6. x - 1 \in Nat /\ x - 1 < x /\ (x - 1) + 1 = x
  BY <1>5
<1>7. <<x - 1, x>> \in R
  BY <1>3, <1>5, <1>6
<1>8. x - 1 \notin U
  BY <1>4, <1>7
<1>9. x - 1 \in T
  BY <1>6, <1>8
<1> QED
  BY <1>5, <1>6, <1>9

(* A loop of n rounds, each of which takes what it has made so far to what   *)
(* it makes next, makes something in every round.                            *)
Loop(X, start, step, n, f) ==
    /\ f \in [0 .. n -> X]
    /\ f[0] = start
    /\ \A k \in 1 .. n : f[k] = step[<<k, f[k - 1]>>]

LEMMA LoopExists ==
  ASSUME NEW X, NEW start \in X, NEW n \in Nat, NEW step \in [(1 .. n) \X X -> X]
  PROVE  \E f : Loop(X, start, step, n, f)
<1> DEFINE T == {k \in Nat : k <= n => \E f : Loop(X, start, step, k, f)}
<1>1. 0 \in T
  <2> DEFINE f == [k \in 0 .. 0 |-> start]
  <2>1. Loop(X, start, step, 0, f)
    BY DEF Loop
  <2> QED
    BY <2>1
<1>2. ASSUME NEW m \in T, m + 1 <= n PROVE \E f : Loop(X, start, step, m + 1, f)
  <2>1. PICK f : Loop(X, start, step, m, f)
    BY <1>2
  <2>2. f[m] \in X /\ <<m + 1, f[m]>> \in (1 .. n) \X X
    BY <1>2, <2>1 DEF Loop
  <2> DEFINE next == step[<<m + 1, f[m]>>]
             g == [k \in 0 .. m + 1 |-> IF k <= m THEN f[k] ELSE next]
  <2>3. next \in X
    BY <2>2
  <2> HIDE DEF next
  <2>4. g \in [0 .. m + 1 -> X] /\ g[0] = start
    BY <2>1, <2>3 DEF Loop
  <2>5. ASSUME NEW k \in 1 .. m + 1 PROVE g[k] = step[<<k, g[k - 1]>>]
    <3>1. k - 1 \in 0 .. m /\ g[k - 1] = f[k - 1]
      OBVIOUS
    <3>2. CASE k = m + 1
      <4>1. k - 1 = m /\ ~(k <= m)
        BY <3>2
      <4>2. g[k] = next /\ g[k - 1] = f[m]
        BY <3>1, <4>1
      <4> QED
        BY <3>2, <4>1, <4>2 DEF next
    <3>3. CASE k # m + 1
      BY <2>1, <3>1, <3>3 DEF Loop
    <3> QED
      BY <3>2, <3>3
  <2> HIDE DEF g
  <2>6. Loop(X, start, step, m + 1, g)
    BY <2>4, <2>5 DEF Loop
  <2> QED
    BY <2>6
<1>3. \A m \in T : m + 1 \in T
  BY <1>2
<1>4. T = Nat
  <2> HIDE DEF T
  <2> QED
    BY <1>1, <1>3, SetInduction DEF T
<1> QED
  BY <1>4
=============================================================================
