---------------------------- MODULE CheckerProofs ----------------------------
(***************************************************************************)
(* Theorems about Checker, for every set of machines of the language:      *)
(* any number of states and edges, any cycles, repeated and dangling names.*)
(***************************************************************************)
EXTENDS Checker, Induction, FiniteSetTheorems

-----------------------------------------------------------------------------
(* Of any indexes of a list that have something in common one is the last. *)
LEMMA LastIndex ==
  ASSUME NEW n \in Nat, NEW D \in SUBSET (1 .. n), D # {}
  PROVE  \E i \in D : \A j \in D : j <= i
<1> DEFINE T == {k \in Nat : \A E \in SUBSET (1 .. k) :
                                E # {} => \E i \in E : \A j \in E : j <= i}
<1>1. 0 \in T
  <2>1. 1 .. 0 = {}
    OBVIOUS
  <2>2. \A E \in SUBSET (1 .. 0) : ~(E # {})
    BY <2>1
  <2> QED
    BY <2>2
<1>2. ASSUME NEW k \in T PROVE k + 1 \in T
  <2> SUFFICES ASSUME NEW E \in SUBSET (1 .. k + 1), E # {}
               PROVE  \E i \in E : \A j \in E : j <= i
    OBVIOUS
  <2>1. CASE k + 1 \in E
    BY <2>1
  <2>2. CASE k + 1 \notin E
    <3>1. E \in SUBSET (1 .. k)
      BY <2>2
    <3> QED
      BY <3>1
  <2> QED
    BY <2>1, <2>2
<1>3. T = Nat
  <2> HIDE DEF T
  <2> QED
    BY <1>1, <1>2, SetInduction DEF T
<1> QED
  BY <1>3

(* What a sequence is. *)
LEMMA SequenceFacts ==
  ASSUME NEW X, NEW s \in Seq(X)
  PROVE  Len(s) \in Nat /\ DOMAIN s = 1 .. Len(s) /\ \A i \in DOMAIN s : s[i] \in X
OBVIOUS

(* A name of the machine is the name of a state, the last one that bears it. *)
LEMMA StateOfType ==
  ASSUME NEW m \in Machine, NEW n \in Names(m)
  PROVE  \E i \in DOMAIN m.states :
            /\ StateOf(m, n) = m.states[i] /\ m.states[i].name = n
            /\ m.states[i] \in [name : Strings, terminal : BOOLEAN, on : Seq(Transition)]
<1> DEFINE D == {i \in DOMAIN m.states : m.states[i].name = n}
<1>1. m.states \in StateList
  BY DEF Machine
<1>2. /\ Len(m.states) \in Nat /\ DOMAIN m.states = 1 .. Len(m.states)
      /\ \A i \in DOMAIN m.states :
            m.states[i] \in [name : Strings, terminal : BOOLEAN, on : Seq(Transition)]
  BY <1>1, SequenceFacts, Zenon DEF StateList
<1>3. D # {} /\ D \in SUBSET (1 .. Len(m.states))
  BY <1>2 DEF Names
<1>4. \E i \in D : \A j \in D : j <= i
  <2> HIDE DEF D
  <2> QED
    BY <1>2, <1>3, LastIndex
<1>5. \E i \in DOMAIN m.states :
         m.states[i].name = n /\ \A j \in DOMAIN m.states : m.states[j].name = n => j <= i
  BY <1>4
<1> DEFINE l == CHOOSE i \in DOMAIN m.states :
                   m.states[i].name = n /\ \A j \in DOMAIN m.states : m.states[j].name = n => j <= i
<1>6. l \in DOMAIN m.states /\ m.states[l].name = n
  BY <1>5
<1>7. StateOf(m, n) = m.states[l]
  BY Zenon DEF StateOf
<1> HIDE DEF l
<1> QED
  BY <1>2, <1>6, <1>7

(* The members of a sequence. *)
Elements(s) == {s[i] : i \in DOMAIN s}

(* Appending a member to a sequence adds it to the members. *)
LEMMA AppendElements ==
  ASSUME NEW X, NEW s \in Seq(X), NEW x \in X
  PROVE  Append(s, x) \in Seq(X) /\ Elements(Append(s, x)) = Elements(s) \cup {x}
<1>1. /\ Append(s, x) \in Seq(X) /\ DOMAIN Append(s, x) = 1 .. Len(s) + 1 /\ DOMAIN s = 1 .. Len(s)
      /\ Append(s, x)[Len(s) + 1] = x /\ \A i \in DOMAIN s : Append(s, x)[i] = s[i]
  OBVIOUS
<1>2. Len(s) \in Nat
  OBVIOUS
<1>3. DOMAIN Append(s, x) = DOMAIN s \cup {Len(s) + 1}
  BY <1>1, <1>2
<1> DEFINE longer == Append(s, x)
           end == Len(s) + 1
<1>4. /\ DOMAIN longer = DOMAIN s \cup {end} /\ longer[end] = x
      /\ \A i \in DOMAIN s : longer[i] = s[i]
  BY <1>1, <1>3
<1> HIDE DEF longer, end
<1>5. Elements(longer) = Elements(s) \cup {x}
  BY <1>4 DEF Elements
<1> QED
  BY <1>1, <1>5 DEF longer

(* The loop over the edges of a state puts on the stack exactly the states   *)
(* they lead to.                                                             *)
LEMMA TargetsAreSuccessors ==
  ASSUME NEW m \in Machine, NEW n \in Names(m)
  PROVE  Targets(m, n) \in Seq(Names(m)) /\ Elements(Targets(m, n)) = Successors(m, n)
<1> DEFINE on == StateOf(m, n).on
           X == Seq(Names(m))
           Put(i, was) == IF on[i].to \in Names(m) THEN Append(was, on[i].to) ELSE was
           step == [kx \in (1 .. Len(on)) \X X |-> Put(kx[1], kx[2])]
           put == CHOOSE f : f = [i \in 0 .. Len(on) |->
                                    IF i = 0 THEN <<>>
                                    ELSE IF on[i].to \in Names(m) THEN Append(f[i - 1], on[i].to)
                                    ELSE f[i - 1]]
<1>1. on \in Seq(Transition)
  BY StateOfType
<1>2. Len(on) \in Nat /\ DOMAIN on = 1 .. Len(on)
  BY <1>1
<1>3. \A i \in 1 .. Len(on), was \in X : Put(i, was) \in X
  OBVIOUS
<1>4. step \in [(1 .. Len(on)) \X X -> X] /\ <<>> \in X
  BY <1>3
<1> HIDE DEF X
<1>5. PICK f : Loop(X, <<>>, step, Len(on), f)
  <2> HIDE DEF step, on
  <2> QED
    BY <1>2, <1>4, LoopExists
<1>6. f = [i \in 0 .. Len(on) |->
             IF i = 0 THEN <<>>
             ELSE IF on[i].to \in Names(m) THEN Append(f[i - 1], on[i].to)
             ELSE f[i - 1]]
  <2>1. f \in [0 .. Len(on) -> X] /\ f[0] = <<>>
    BY <1>5 DEF Loop
  <2>2. ASSUME NEW i \in 1 .. Len(on) PROVE f[i] = Put(i, f[i - 1])
    <3>1. <<i, f[i - 1]>> \in (1 .. Len(on)) \X X
      BY <1>2, <2>1
    <3>2. f[i] = step[<<i, f[i - 1]>>]
      BY <1>5 DEF Loop
    <3> QED
      BY <3>1, <3>2
  <2> HIDE DEF on
  <2>3. f = [i \in 0 .. Len(on) |-> f[i]]
    BY <2>1
  <2>4. ASSUME NEW i \in 0 .. Len(on)
        PROVE  f[i] = IF i = 0 THEN <<>>
                      ELSE IF on[i].to \in Names(m) THEN Append(f[i - 1], on[i].to)
                      ELSE f[i - 1]
    <3>1. CASE i = 0
      BY <2>1, <3>1
    <3>2. CASE i # 0
      <4>1. i \in 1 .. Len(on)
        BY <1>2, <3>2
      <4> QED
        BY <2>2, <3>2, <4>1
    <3> QED
      BY <3>1, <3>2
  <2> QED
    BY <2>3, <2>4, Zenon
<1>7. put = [i \in 0 .. Len(on) |->
             IF i = 0 THEN <<>>
             ELSE IF on[i].to \in Names(m) THEN Append(put[i - 1], on[i].to)
             ELSE put[i - 1]]
  <2> HIDE DEF on
  <2> QED
    BY <1>6
<1>8. Targets(m, n) = put[Len(on)]
  BY DEF Targets
<1> HIDE DEF put
<1> DEFINE Led(i) == {on[j].to : j \in 1 .. i} \cap Names(m)
           T == {i \in Nat : i <= Len(on) => put[i] \in Seq(Names(m)) /\ Elements(put[i]) = Led(i)}
<1>9. 0 \in T
  <2> HIDE DEF on
  <2>1. put[0] = <<>>
    BY <1>2, <1>7
  <2>2. Elements(<<>>) = {} /\ <<>> \in Seq(Names(m))
    BY DEF Elements
  <2>3. Led(0) = {}
    OBVIOUS
  <2> HIDE DEF Led
  <2> QED
    BY <2>1, <2>2, <2>3
<1>10. ASSUME NEW i \in T PROVE i + 1 \in T
  <2> HIDE DEF on
  <2> SUFFICES ASSUME i + 1 <= Len(on)
               PROVE  put[i + 1] \in Seq(Names(m)) /\ Elements(put[i + 1]) = Led(i + 1)
    OBVIOUS
  <2>1. put[i] \in Seq(Names(m)) /\ Elements(put[i]) = Led(i)
    BY <1>2, <1>10
  <2>2. put[i + 1] = IF on[i + 1].to \in Names(m) THEN Append(put[i], on[i + 1].to) ELSE put[i]
    <3>1. i \in Nat /\ i + 1 \in 0 .. Len(on) /\ i + 1 # 0 /\ (i + 1) - 1 = i
      BY <1>2
    <3> HIDE DEF T
    <3> QED
      BY <1>7, <3>1
  <2>3. Led(i + 1) = Led(i) \cup ({on[i + 1].to} \cap Names(m))
    <3>1. 1 .. i + 1 = (1 .. i) \cup {i + 1}
      OBVIOUS
    <3> QED
      BY <3>1
  <2> HIDE DEF Led
  <2>4. CASE on[i + 1].to \in Names(m)
    <3> DEFINE was == put[i]
               to == on[i + 1].to
    <3>1. /\ was \in Seq(Names(m)) /\ Elements(was) = Led(i) /\ to \in Names(m)
          /\ put[i + 1] = Append(was, to) /\ Led(i + 1) = Led(i) \cup {to}
      BY <2>1, <2>2, <2>3, <2>4
    <3> HIDE DEF was, to
    <3>2. Append(was, to) \in Seq(Names(m)) /\ Elements(Append(was, to)) = Elements(was) \cup {to}
      BY <3>1, AppendElements
    <3> QED
      BY <3>1, <3>2
  <2>5. CASE on[i + 1].to \notin Names(m)
    BY <2>1, <2>2, <2>3, <2>5
  <2> QED
    BY <2>4, <2>5
<1>11. T = Nat
  <2> HIDE DEF T
  <2> QED
    BY <1>9, <1>10, SetInduction DEF T
<1>12. put[Len(on)] \in Seq(Names(m)) /\ Elements(put[Len(on)]) = Led(Len(on))
  <2> HIDE DEF on, Led
  <2> QED
    BY <1>2, <1>11
<1>13. Led(Len(on)) = Successors(m, n)
  BY <1>2 DEF Successors, Edges
<1> QED
  BY <1>8, <1>12, <1>13

-----------------------------------------------------------------------------
(* Reachability.  The reachable states are the smallest closed set that has  *)
(* the initial one.                                                          *)
LEMMA ReachableLeast ==
  ASSUME NEW m
  PROVE  /\ m.initial \in Names(m) => m.initial \in Reachable(m)
         /\ \A n \in Reachable(m) : Successors(m, n) \subseteq Reachable(m)
         /\ \A set \in SUBSET Reachable(m) :
               m.initial \in set /\ Closed(m, set) => set = Reachable(m)
         /\ Reachable(m) \subseteq Names(m)
<1>1. m.initial \in Names(m) => m.initial \in Reachable(m)
  BY DEF Reachable
<1>2. ASSUME NEW n \in Reachable(m), NEW t \in Successors(m, n) PROVE t \in Reachable(m)
  <2>1. t \in Names(m)
    BY DEF Successors
  <2>2. ASSUME NEW set \in SUBSET Names(m), m.initial \in set, Closed(m, set) PROVE t \in set
    <3>1. n \in set
      BY <2>2 DEF Reachable
    <3> QED
      BY <2>2, <3>1 DEF Closed
  <2> QED
    BY <2>1, <2>2 DEF Reachable
<1>3. Reachable(m) \subseteq Names(m)
  BY DEF Reachable
<1>4. ASSUME NEW set \in SUBSET Reachable(m), m.initial \in set, Closed(m, set)
      PROVE  set = Reachable(m)
  <2>1. set \in SUBSET Names(m)
    BY <1>3
  <2>2. Reachable(m) \subseteq set
    BY <1>4, <2>1 DEF Reachable
  <2> QED
    BY <2>2
<1> QED
  BY <1>1, <1>2, <1>3, <1>4

(* Taking the last member off a sequence. *)
LEMMA PopElements ==
  ASSUME NEW X, NEW s \in Seq(X), s # <<>>
  PROVE  /\ Pop(s) \in Seq(X) /\ Top(s) \in X
         /\ Elements(s) = Elements(Pop(s)) \cup {Top(s)}
<1>1. Len(s) \in Nat /\ DOMAIN s = 1 .. Len(s) /\ Len(s) # 0
  OBVIOUS
<1>2. /\ Pop(s) \in Seq(X) /\ DOMAIN Pop(s) = 1 .. Len(s) - 1
      /\ \A i \in 1 .. Len(s) - 1 : Pop(s)[i] = s[i]
  BY <1>1 DEF Pop
<1>3. DOMAIN s = (1 .. Len(s) - 1) \cup {Len(s)}
  BY <1>1
<1> DEFINE shorter == Pop(s)
           kept == 1 .. Len(s) - 1
<1>4. /\ DOMAIN shorter = kept /\ DOMAIN s = kept \cup {Len(s)}
      /\ \A i \in kept : shorter[i] = s[i]
  BY <1>2, <1>3
<1> HIDE DEF shorter, kept
<1>5. Elements(s) = Elements(shorter) \cup {Top(s)}
  BY <1>4 DEF Elements, Top
<1>6. Top(s) \in X
  BY <1>1, SequenceFacts DEF Top
<1> QED
  BY <1>2, <1>5, <1>6 DEF shorter

(* Putting one sequence after another. *)
LEMMA ConcatElements ==
  ASSUME NEW X, NEW s \in Seq(X), NEW t \in Seq(X)
  PROVE  s \o t \in Seq(X) /\ Elements(s \o t) = Elements(s) \cup Elements(t)
<1>1. /\ Len(s) \in Nat /\ DOMAIN s = 1 .. Len(s) /\ Len(t) \in Nat /\ DOMAIN t = 1 .. Len(t)
      /\ s \o t \in Seq(X) /\ DOMAIN (s \o t) = 1 .. Len(s) + Len(t)
  OBVIOUS
<1>2. \A i \in DOMAIN s : (s \o t)[i] = s[i]
  BY <1>1
<1>3. \A i \in DOMAIN t : (s \o t)[Len(s) + i] = t[i]
  BY <1>1
<1>4. \A i \in DOMAIN (s \o t) : i \in DOMAIN s \/ (i - Len(s) \in DOMAIN t /\ i = Len(s) + (i - Len(s)))
  BY <1>1
<1>5. \A i \in DOMAIN t : Len(s) + i \in DOMAIN (s \o t)
  BY <1>1
<1>6. \A i \in DOMAIN s : i \in DOMAIN (s \o t)
  BY <1>1
<1> DEFINE both == s \o t
           after(i) == Len(s) + i
           before(i) == i - Len(s)
<1>7. /\ \A i \in DOMAIN s : i \in DOMAIN both /\ both[i] = s[i]
      /\ \A i \in DOMAIN t : after(i) \in DOMAIN both /\ both[after(i)] = t[i]
      /\ \A i \in DOMAIN both : i \in DOMAIN s \/ (before(i) \in DOMAIN t /\ i = after(before(i)))
  BY <1>2, <1>3, <1>4, <1>5, <1>6
<1> HIDE DEF both, after, before
<1>8. Elements(both) = Elements(s) \cup Elements(t)
  BY <1>7 DEF Elements
<1> QED
  BY <1>1, <1>8 DEF both

-----------------------------------------------------------------------------
(* The walk is inside the reachable states, the initial one is among those   *)
(* visited or waiting, and so is every successor of a visited one: once      *)
(* nothing waits any more the visited states are closed under the edges, so  *)
(* they are all the reachable ones.                                          *)
Walking ==
    LET known == seen \cup Elements(stack)
    IN  /\ seen \subseteq Reachable(machine)
        /\ stack \in Seq(Reachable(machine))
        /\ machine.initial \in known
        /\ \A n \in seen : Successors(machine, n) \subseteq known

Orphans(m) ==
    IF m.initial \in Names(m) THEN Findings("E-ORPHAN", Names(m) \ Reachable(m)) ELSE {}

Halts(m) ==
    IF m.initial \in Names(m)
    THEN Findings("W-HALT",
            IF \E n \in Reachable(m) : StateOf(m, n).terminal THEN {} ELSE {m.initial})
    ELSE {}

CheckerInv ==
    /\ machine \in Machines
    /\ phase \in {"form", "walk", "edges", "done"}
    /\ phase = "form" => seen = {} /\ warnings = {}
    /\ phase = "walk" => /\ machine.initial \in Names(machine)
                         /\ Walking
                         /\ errors = FormErrors(machine)
    /\ phase = "edges" => /\ errors = FormErrors(machine) \cup Orphans(machine)
                          /\ warnings = Halts(machine)
    /\ phase = "done" =>
          /\ errors = FormErrors(machine) \cup Orphans(machine) \cup EdgeErrors(machine)
          /\ warnings = Halts(machine) \cup ShadowWarnings(machine)

(* Initially nothing has been looked at. *)
LEMMA CheckerInit == Init => CheckerInv
BY DEF Init, CheckerInv

(* Every step preserves it. *)
LEMMA CheckerStep == CheckerInv /\ [Next]_vars => CheckerInv'
<1> SUFFICES ASSUME CheckerInv, [Next]_vars PROVE CheckerInv'
  OBVIOUS
<1>1. machine \in Machine
  BY MachinesAssumption DEF MachinesAssumption, CheckerInv
<1>2. CASE UNCHANGED vars
  BY <1>2 DEF vars, CheckerInv, Walking
<1>3. CASE Form
  <2>1. /\ phase = "form" /\ errors' = FormErrors(machine) /\ machine' = machine
        /\ seen' = {} /\ warnings' = {}
    BY <1>3 DEF Form, CheckerInv
  <2>2. CASE machine.initial \in Names(machine)
    <3>1. phase' = "walk" /\ stack' = <<machine.initial>>
      BY <1>3, <2>2 DEF Form
    <3>2. machine.initial \in Reachable(machine)
      BY <2>2, ReachableLeast
    <3>3. stack' \in Seq(Reachable(machine)) /\ machine.initial \in Elements(stack')
      BY <3>1, <3>2 DEF Elements
    <3>4. Walking'
      BY <2>1, <3>3 DEF Walking
    <3> QED
      BY <2>1, <2>2, <3>1, <3>4 DEF CheckerInv
  <2>3. CASE machine.initial \notin Names(machine)
    <3>1. phase' = "edges"
      BY <1>3, <2>3 DEF Form
    <3>2. Orphans(machine) = {} /\ Halts(machine) = {}
      BY <2>3 DEF Orphans, Halts
    <3> QED
      BY <2>1, <3>1, <3>2 DEF CheckerInv
  <2> QED
    BY <2>2, <2>3
<1>4. CASE Skip
  <2>1. /\ phase = "walk" /\ stack # <<>> /\ Top(stack) \in seen /\ stack' = Pop(stack)
        /\ UNCHANGED <<machine, phase, seen, errors, warnings>>
    BY <1>4 DEF Skip
  <2>2. Walking
    BY <2>1 DEF CheckerInv
  <2>3. /\ stack' \in Seq(Reachable(machine))
        /\ Elements(stack) = Elements(stack') \cup {Top(stack)}
    BY <2>1, <2>2, PopElements DEF Walking
  <2>4. Walking'
    BY <2>1, <2>2, <2>3 DEF Walking
  <2> QED
    BY <2>1, <2>4 DEF CheckerInv
<1>5. CASE Visit
  <2> DEFINE n == Top(stack)
             further == Targets(machine, n)
  <2>1. /\ phase = "walk" /\ stack # <<>> /\ seen' = seen \cup {n}
        /\ stack' = Pop(stack) \o further
        /\ UNCHANGED <<machine, phase, errors, warnings>>
    BY <1>5 DEF Visit
  <2>2. Walking
    BY <2>1 DEF CheckerInv
  <2>3. /\ Pop(stack) \in Seq(Reachable(machine)) /\ n \in Reachable(machine)
        /\ Elements(stack) = Elements(Pop(stack)) \cup {n}
    BY <2>1, <2>2, PopElements DEF Walking
  <2>4. n \in Names(machine) /\ Successors(machine, n) \subseteq Reachable(machine)
    BY <2>3, ReachableLeast
  <2>5. further \in Seq(Names(machine)) /\ Elements(further) = Successors(machine, n)
    BY <1>1, <2>4, TargetsAreSuccessors
  <2>6. further \in Seq(Reachable(machine))
    <3> HIDE DEF further
    <3>1. \A i \in DOMAIN further : further[i] \in Reachable(machine)
      BY <2>4, <2>5 DEF Elements
    <3> QED
      BY <2>5, <3>1
  <2>7. /\ stack' \in Seq(Reachable(machine))
        /\ Elements(stack') = Elements(Pop(stack)) \cup Elements(further)
    <3> HIDE DEF further, n
    <3> QED
      BY <2>1, <2>3, <2>6, ConcatElements
  <2> HIDE DEF n, further
  <2>8. Walking'
    BY <2>1, <2>2, <2>3, <2>5, <2>7 DEF Walking
  <2> QED
    BY <2>1, <2>8 DEF CheckerInv
<1>6. CASE Conclude
  <2>1. /\ phase = "walk" /\ stack = <<>> /\ phase' = "edges" /\ machine' = machine
        /\ errors' = errors \cup Findings("E-ORPHAN", Names(machine) \ seen)
        /\ warnings' = Findings("W-HALT",
              IF \E n \in seen : StateOf(machine, n).terminal THEN {} ELSE {machine.initial})
    BY <1>6 DEF Conclude
  <2>2. Walking /\ machine.initial \in Names(machine) /\ errors = FormErrors(machine)
    BY <2>1 DEF CheckerInv
  <2>3. Elements(stack) = {}
    BY <2>1 DEF Elements
  <2>4. seen = Reachable(machine)
    BY <2>2, <2>3, ReachableLeast DEF Walking, Closed
  <2>5. errors' = FormErrors(machine) \cup Orphans(machine) /\ warnings' = Halts(machine)
    BY <2>1, <2>2, <2>4 DEF Orphans, Halts
  <2> QED
    BY <2>1, <2>5 DEF CheckerInv
<1>7. CASE InspectEdges
  BY <1>7 DEF InspectEdges, CheckerInv
<1> QED
  BY <1>2, <1>3, <1>4, <1>5, <1>6, <1>7 DEF Next

-----------------------------------------------------------------------------
(* No other part of the report uses the codes of the walk. *)
LEMMA OtherCodes ==
  ASSUME NEW m
  PROVE  /\ \A x \in FormErrors(m) : x[1] # "E-ORPHAN"
         /\ \A x \in EdgeErrors(m) : x[1] # "E-ORPHAN"
         /\ \A x \in ShadowWarnings(m) : x[1] # "W-HALT"
<1>1. ASSUME NEW code, NEW places, NEW x \in Findings(code, places) PROVE x[1] = code
  BY <1>1 DEF Findings
<1>2. ASSUME NEW x \in FormErrors(m) PROVE x[1] # "E-ORPHAN"
  <2>1. \E code \in {"E-FUEL", "E-DUP", "E-INITIAL", "E-TARGET", "E-TERMINAL"} :
           \E places : x \in Findings(code, places)
    BY Zenon DEF FormErrors
  <2> QED
    BY <1>1, <2>1
<1>3. \A x \in ShadowWarnings(m) : x[1] # "W-HALT"
  BY <1>1 DEF ShadowWarnings
<1>4. \A reads : \A code \in BadReads(m, reads) : code \in {"E-CELL", "E-ORACLE"}
  BY DEF BadReads
<1>5. \A trigger, e : \A code \in BadEffect(m, trigger, e) : code # "E-ORPHAN"
  BY <1>4 DEF BadEffect
<1>6. \A x \in EdgeErrors(m) : x[1] # "E-ORPHAN"
  BY <1>4, <1>5 DEF EdgeErrors
<1> QED
  BY <1>2, <1>3, <1>6

(* The invariant in every state of every run. *)
LEMMA CheckerInvariant == Spec => []CheckerInv
BY CheckerInit, CheckerStep, PTL DEF Spec

(* The walk reports as orphans exactly the unreachable states: on every      *)
(* machine, whatever its cycles, repeated names and dangling edges.          *)
THEOREM OrphansAreExact == Spec => []OrphansExact
<1>1. CheckerInv => OrphansExact
  <2> SUFFICES ASSUME CheckerInv, Walked
               PROVE  {n \in Names(machine) : <<"E-ORPHAN", n>> \in errors}
                        = Names(machine) \ Reachable(machine)
    BY DEF OrphansExact
  <2>1. /\ Orphans(machine) = Findings("E-ORPHAN", Names(machine) \ Reachable(machine))
        /\ \/ errors = FormErrors(machine) \cup Orphans(machine)
           \/ errors = FormErrors(machine) \cup Orphans(machine) \cup EdgeErrors(machine)
    BY DEF Walked, CheckerInv, Orphans
  <2>2. \A n : <<"E-ORPHAN", n>> \notin FormErrors(machine)
           /\ <<"E-ORPHAN", n>> \notin EdgeErrors(machine)
    BY OtherCodes
  <2>3. \A n : <<"E-ORPHAN", n>> \in Orphans(machine) <=> n \in Names(machine) \ Reachable(machine)
    BY <2>1 DEF Findings
  <2> QED
    BY <2>1, <2>2, <2>3
<1> QED
  BY <1>1, CheckerInvariant, PTL

(* The warning W-HALT is given to the machines that cannot reach a terminal  *)
(* state, and to no other.                                                   *)
THEOREM HaltsAreWarned == Spec => []HaltWarned
<1>1. CheckerInv => HaltWarned
  <2> SUFFICES ASSUME CheckerInv, Walked
               PROVE  <<"W-HALT", machine.initial>> \in warnings
                        <=> ~\E n \in Reachable(machine) : StateOf(machine, n).terminal
    BY DEF HaltWarned
  <2> DEFINE halting == \E n \in Reachable(machine) : StateOf(machine, n).terminal
  <2>1. /\ Halts(machine) = Findings("W-HALT", IF halting THEN {} ELSE {machine.initial})
        /\ \/ warnings = Halts(machine)
           \/ warnings = Halts(machine) \cup ShadowWarnings(machine)
    BY DEF Walked, CheckerInv, Halts
  <2>2. <<"W-HALT", machine.initial>> \notin ShadowWarnings(machine)
    BY OtherCodes
  <2> HIDE DEF halting
  <2>3. <<"W-HALT", machine.initial>> \in Halts(machine) <=> ~halting
    BY <2>1 DEF Findings
  <2>4. <<"W-HALT", machine.initial>> \in warnings <=> ~halting
    BY <2>1, <2>2, <2>3
  <2> QED
    BY <2>4 DEF halting
<1> QED
  BY <1>1, CheckerInvariant, PTL

(* No repeated name, so as many names as states, and a name is one state's.  *)
LEMMA NamesDistinct ==
  ASSUME NEW m \in Machine, FormErrors(m) = {}
  PROVE  /\ Cardinality(Names(m)) = Len(m.states)
         /\ \A i \in DOMAIN m.states : StateOf(m, m.states[i].name) = m.states[i]
<1>1. \A i, j \in DOMAIN m.states : m.states[i].name = m.states[j].name => i = j
  <2> SUFFICES ASSUME NEW i \in DOMAIN m.states, NEW j \in DOMAIN m.states,
                      m.states[i].name = m.states[j].name, i # j
               PROVE  FALSE
    OBVIOUS
  <2>1. <<"E-DUP", m.states[i].name>> \in FormErrors(m)
    BY DEF FormErrors, Findings
  <2> QED
    BY <2>1
<1>2. m.states \in StateList
  BY DEF Machine
<1>3. Len(m.states) \in Nat /\ DOMAIN m.states = 1 .. Len(m.states)
  BY <1>2, SequenceFacts DEF StateList
<1> DEFINE name == [i \in 1 .. Len(m.states) |-> m.states[i].name]
<1>4. name \in Bijection(1 .. Len(m.states), Names(m))
  BY <1>1, <1>3 DEF Names, Bijection, Injection, Surjection, IsInjective
<1>5. /\ IsFiniteSet(1 .. Len(m.states))
      /\ Cardinality(1 .. Len(m.states)) = Len(m.states)
  BY <1>3, FS_Interval
<1>6. Cardinality(Names(m)) = Len(m.states)
  <2>1. ExistsBijection(1 .. Len(m.states), Names(m))
    BY <1>4 DEF ExistsBijection
  <2> HIDE DEF name
  <2> QED
    BY <1>5, <2>1, FS_Bijection
<1>7. ASSUME NEW i \in DOMAIN m.states PROVE StateOf(m, m.states[i].name) = m.states[i]
  <2>1. m.states[i].name \in Names(m)
    BY DEF Names
  <2> QED
    BY <1>1, <2>1, StateOfType
<1> QED
  BY <1>6, <1>7

(* A machine reported without errors is one the runtime can run, as far as    *)
(* the names of its cells are made of word characters.                       *)
THEOREM AcceptedMachinesRun == Spec => []AcceptedIsRunnable
<1>1. CheckerInv => AcceptedIsRunnable
  <2> SUFFICES ASSUME CheckerInv, phase = "done", errors = {}
               PROVE  Runnable(machine)
    BY DEF AcceptedIsRunnable
  <2> DEFINE m == machine
  <2>1. FormErrors(m) = {} /\ Orphans(m) = {} /\ EdgeErrors(m) = {}
    BY DEF CheckerInv
  <2>2. m \in Machine
    BY MachinesAssumption DEF MachinesAssumption, CheckerInv
  <2> HIDE DEF m
  <2>3. m.fuel > 0
    <3>1. ~(m.fuel <= 0)
      BY <2>1 DEF FormErrors, Findings
    <3> QED
      BY <2>2, <3>1 DEF Machine
  <2>4. Names(m) \subseteq Reachable(m)
    <3>1. m.initial \in Names(m)
      BY <2>1 DEF FormErrors, Findings
    <3> QED
      BY <2>1, <3>1 DEF Orphans, Findings
  <2>5. ASSUME NEW p \in Placed(m)
        PROVE  /\ p.edge.to \in Names(m)
               /\ ~StateOf(m, p.at).terminal
    <3>1. PICK i \in DOMAIN m.states :
             \E j \in DOMAIN m.states[i].on :
                p = [at |-> m.states[i].name, edge |-> m.states[i].on[j]]
      BY DEF Placed
    <3>2. p.edge.to \in Names(m)
      BY <2>1 DEF FormErrors, Findings
    <3>3. m.states[i].on # <<>>
      BY <3>1
    <3>4. ~m.states[i].terminal
      BY <2>1, <3>3 DEF FormErrors, Findings
    <3>5. StateOf(m, p.at) = m.states[i]
      BY <2>1, <2>2, <3>1, NamesDistinct
    <3> QED
      BY <3>2, <3>4, <3>5
  <2>6. ASSUME NEW reads, BadReads(m, reads) = {}
        PROVE  \A r \in CellReads(reads) : r[2] \in m.cells /\ r[3] # "raw"
    BY <2>6 DEF BadReads
  <2>7. ASSUME NEW p \in Placed(m)
        PROVE  /\ BadReads(m, p.edge.guard.reads) = {}
               /\ \A j \in DOMAIN p.edge.do : BadEffect(m, p.edge.on, p.edge.do[j]) = {}
    <3> DEFINE Bad(q) == BadReads(m, q.edge.guard.reads) \cup
                           UNION {BadEffect(m, q.edge.on, q.edge.do[j]) : j \in DOMAIN q.edge.do}
    <3>1. EdgeErrors(m) = UNION {{<<code, q.at>> : code \in Bad(q)} : q \in Placed(m)}
      BY DEF EdgeErrors
    <3>2. Bad(p) = {}
      <4> HIDE DEF Bad
      <4>1. \A code \in Bad(p) : <<code, p.at>> \in EdgeErrors(m)
        BY <3>1
      <4> QED
        BY <2>1, <4>1
    <3> QED
      BY <3>2
  <2>8. ASSUME NEW trigger, NEW e, BadEffect(m, trigger, e) = {}
        PROVE  /\ e.kind = "Inject" => trigger \in Injecting
               /\ e.kind = "Block" => trigger \in Gating
               /\ e.kind = "Run" => e.name \in m.cells
               /\ e.kind = "SetVar" => BadReads(m, e.reads) = {}
    BY <2>8 DEF BadEffect
  <2>9. Cardinality(Names(m)) = Len(m.states)
    BY <2>1, <2>2, NamesDistinct
  <2>10. ASSUME NEW p \in Placed(m), NEW cell \in Words, NEW field \in Words,
                <<"cells", cell, field>> \in Declared(p.edge)
         PROVE  cell \in m.cells /\ field # "raw"
    <3> DEFINE r == <<"cells", cell, field>>
    <3>1. Len(r) = 3 /\ r[1] = "cells" /\ r[2] = cell /\ r[3] = field
      OBVIOUS
    <3> HIDE DEF r
    <3>2. PICK reads : r \in reads /\ BadReads(m, reads) = {}
      <4>1. CASE r \in p.edge.guard.reads
        BY <2>7, <4>1
      <4>2. ASSUME NEW j \in DOMAIN p.edge.do, p.edge.do[j].kind = "SetVar",
                   r \in p.edge.do[j].reads
            PROVE  BadReads(m, p.edge.do[j].reads) = {}
        BY <2>7, <2>8, <4>2
      <4> QED
        BY <2>10, <4>1, <4>2 DEF Declared, r
    <3>3. r \in CellReads(reads)
      BY <3>1, <3>2 DEF CellReads
    <3> QED
      BY <2>6, <3>1, <3>2, <3>3
  <2>11. ASSUME NEW p \in Placed(m)
         PROVE  Touched(p.edge.guard) \subseteq m.cells \cup Undeclared(p.edge.guard)
    <3>1. \A r \in CellReads(p.edge.guard.reads) : r[2] \in m.cells
      BY <2>6, <2>7
    <3> QED
      BY <3>1 DEF Undeclared, Cells
  <2> QED
    BY <2>3, <2>4, <2>5, <2>7, <2>8, <2>9, <2>10, <2>11 DEF Runnable, m
<1> QED
  BY <1>1, CheckerInvariant, PTL
=============================================================================
