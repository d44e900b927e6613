------------------------- MODULE ConversationProofs -------------------------
(***************************************************************************)
(* Theorems about Conversation, for the machine hedge-verify, a window of  *)
(* any length and whatever is said or lost: a hedge a Stop hook has seen   *)
(* raises one nudge, unless its answer is lost, and the nudges end with    *)
(* the window.                                                             *)
(***************************************************************************)
EXTENDS Conversation, Machines, Integers, TLAPS

-----------------------------------------------------------------------------
(* hedge-verify, evaluated.                                                  *)

Arm   == SetVar("pending", {}, S("1"))
Utter == Inject(S("nudge"))
Clear == ClearVar("pending")

StopEdge ==
    [on |-> "Stop", to |-> "watch", guard |-> TranscriptMatches({"hedged"}), do |-> <<Arm>>]

PromptEdge ==
    [on |-> "UserPromptSubmit", to |-> "watch", guard |-> VarSet("pending"),
     do |-> <<Utter, Clear>>]

(* Its one state, its vars and its budget; it has no cells. *)
LEMMA Watching ==
  ASSUME M = HedgeVerify
  PROVE  /\ Lookup("watch") = [terminal |-> FALSE, on |-> <<StopEdge, PromptEdge>>]
         /\ DOMAIN M.cells = {}
         /\ M.keys = {"pending"} /\ M.fuel = 50 /\ M.initial = "watch"
<1> DEFINE edges == <<StopEdge, PromptEdge>>
<1> HIDE DEF edges
<1>1. M = [initial |-> "watch", fuel |-> 50, keys |-> {"pending"}, cells |-> <<>>,
           states  |-> [s \in {"watch"} |-> [terminal |-> FALSE, on |-> edges]]]
  BY Zenon DEF HedgeVerify, HedgeBuild, edges, StopEdge, PromptEdge, Arm, Utter, Clear
<1>2. /\ M.states = [s \in {"watch"} |-> [terminal |-> FALSE, on |-> edges]]
      /\ M.cells = <<>> /\ M.keys = {"pending"} /\ M.fuel = 50 /\ M.initial = "watch"
  BY <1>1
<1>3. Lookup("watch") = [terminal |-> FALSE, on |-> edges]
  BY <1>2 DEF Lookup
<1>4. DOMAIN M.cells = {}
  BY <1>2
<1> QED
  BY <1>2, <1>3, <1>4 DEF edges

(* The vars of the machine, and a record of it: the fuel left and whether a nudge is pending. *)
Pend(pending) == [k \in {"pending"} |-> pending]

Rec(fuel, pending) ==
    [state |-> "watch", fuel |-> fuel, vars |-> Pend(pending)]

(* An output that injects a text, loudly or not, and does nothing else. *)
Injects(o, injected, halt) ==
    o.inject = injected /\ o.block = {} /\ o.emits = <<>> /\ o.halt = halt

(* Its effects, evaluated. *)
LEMMA EffectsAre ==
  /\ Arm = [kind |-> "SetVar", name |-> "pending", text |-> S("1"), reads |-> {}]
  /\ Utter = [kind |-> "Inject", name |-> "", text |-> S("nudge"), reads |-> {}]
  /\ Clear = [kind |-> "SetVar", name |-> "pending", text |-> S(""), reads |-> {}]
<1>1. ASSUME NEW text
      PROVE  SetVar("pending", {}, text)
               = [kind |-> "SetVar", name |-> "pending", text |-> text, reads |-> {}]
  BY DEF SetVar, Does
<1> QED
  BY <1>1 DEF Arm, Utter, Clear, Inject, ClearVar, Does

(* What its effects do to the vars and the output. *)
LEMMA ArmDoes ==
  ASSUME NEW pending, NEW results, NEW o
  PROVE  /\ Remember(Arm, Pend(pending), results) = Pend("1")
         /\ Perform(Arm, o, Pend(pending), results) = o
<1>1. Resolve(S("1"), Pend(pending), results) = "1"
  BY DEF Resolve, S
<1> QED
  BY <1>1, EffectsAre DEF Remember, Perform, Pend

(* The outputs that only inject. *)
LEMMA InjectsOnly ==
  ASSUME NEW injected
  PROVE  /\ Injects(NoOutput, <<>>, FALSE)
         /\ Injects([NoOutput EXCEPT !.inject = injected], injected, FALSE)
         /\ Injects([NoOutput EXCEPT !.halt = TRUE, !.inject = injected], injected, TRUE)
<1> DEFINE T == [inject : {<<>>, injected}, block : {{}}, emits : {<<>>}, halt : BOOLEAN,
                 lint : {{}}]
<1>1. Injects(NoOutput, <<>>, FALSE) /\ NoOutput \in T
  BY DEF NoOutput, Injects
<1>2. Injects([NoOutput EXCEPT !.inject = injected], injected, FALSE)
  BY <1>1 DEF Injects
<1>3. Injects([NoOutput EXCEPT !.halt = TRUE, !.inject = injected], injected, TRUE)
  BY <1>1 DEF Injects
<1> QED
  BY <1>1, <1>2, <1>3

(* The nudge is injected and no var changes. *)
LEMMA UtterDoes ==
  ASSUME NEW memory, NEW results
  PROVE  /\ Remember(Utter, memory, results) = memory
         /\ Injects(Perform(Utter, NoOutput, memory, results), <<"nudge">>, FALSE)
<1>1. Resolve(S("nudge"), memory, results) = "nudge"
  BY DEF Resolve, S
<1>2. Append(<<>>, "nudge") = <<"nudge">>
  OBVIOUS
<1>3. Perform(Utter, NoOutput, memory, results) = [NoOutput EXCEPT !.inject = Append(@, "nudge")]
  BY <1>1, EffectsAre DEF Perform
<1>4. [NoOutput EXCEPT !.inject = Append(@, "nudge")] = [NoOutput EXCEPT !.inject = <<"nudge">>]
  <2> DEFINE injected == Append(NoOutput.inject, "nudge")
  <2>1. injected = <<"nudge">>
    BY <1>2 DEF NoOutput
  <2>2. [NoOutput EXCEPT !.inject = Append(@, "nudge")] = [NoOutput EXCEPT !.inject = injected]
    OBVIOUS
  <2> HIDE DEF injected
  <2> QED
    BY <2>1, <2>2
<1>5. Injects([NoOutput EXCEPT !.inject = <<"nudge">>], <<"nudge">>, FALSE)
  BY InjectsOnly
<1> QED
  BY <1>3, <1>4, <1>5, EffectsAre DEF Remember

(* What was pending is cleared. *)
LEMMA ClearDoes ==
  ASSUME NEW pending, NEW results
  PROVE  Remember(Clear, Pend(pending), results) = Pend("")
<1>1. Resolve(S(""), Pend(pending), results) = ""
  BY DEF Resolve, S
<1> QED
  BY <1>1, EffectsAre DEF Remember, Pend

(* The effects of a list of one and of two, in order. *)
LEMMA PerformedOne ==
  ASSUME NEW eff, NEW memory, NEW results, NEW answers
  PROVE  Performed(<<eff>>, 1, memory, results, answers) =
           OneEffect(eff, [vars |-> memory, cells |-> results, out |-> NoOutput], answers)
<1> DEFINE start == [vars |-> memory, cells |-> results, out |-> NoOutput]
           Put(e, was) == OneEffect(e, was, answers)
           body(f) == [k \in 0 .. Len(<<eff>>) |-> IF k = 0 THEN start ELSE Put(<<eff>>[k], f[k - 1])]
           after == CHOOSE f : f = body(f)
           g == [k \in 0 .. 1 |-> IF k = 0 THEN start ELSE Put(eff, start)]
<1>1. Performed(<<eff>>, 1, memory, results, answers) = after[1]
  BY Zenon DEF Performed
<1> HIDE DEF start, Put
<1>2. Len(<<eff>>) = 1 /\ <<eff>>[1] = eff
  OBVIOUS
<1>3. g = body(g)
  BY <1>2
<1>4. after = body(after)
  <2> HIDE DEF g, body
  <2> QED
    BY <1>3
<1> HIDE DEF after
<1>5. after[0] = start
  BY <1>2, <1>4
<1>6. after[1] = Put(eff, after[0])
  BY <1>2, <1>4
<1> QED
  BY <1>1, <1>5, <1>6 DEF start, Put

(* Two effects happen one after the other. *)
LEMMA PerformedTwo ==
  ASSUME NEW eff1, NEW eff2, NEW memory, NEW results, NEW answers
  PROVE  Performed(<<eff1, eff2>>, 2, memory, results, answers) =
           OneEffect(eff2, OneEffect(eff1, [vars |-> memory, cells |-> results, out |-> NoOutput],
                                     answers), answers)
<1> DEFINE do == <<eff1, eff2>>
           start == [vars |-> memory, cells |-> results, out |-> NoOutput]
           Put(e, was) == OneEffect(e, was, answers)
           body(f) == [k \in 0 .. Len(do) |-> IF k = 0 THEN start ELSE Put(do[k], f[k - 1])]
           after == CHOOSE f : f = body(f)
           g == [k \in 0 .. 2 |-> IF k = 0 THEN start
                                  ELSE IF k = 1 THEN Put(eff1, start) ELSE Put(eff2, Put(eff1, start))]
<1>1. Performed(do, 2, memory, results, answers) = after[2]
  BY Zenon DEF Performed
<1> HIDE DEF start, Put
<1>2. Len(do) = 2 /\ do[1] = eff1 /\ do[2] = eff2
  OBVIOUS
<1> HIDE DEF do
<1>3. g = body(g)
  <2>1. ASSUME NEW k \in 0 .. 2 PROVE g[k] = IF k = 0 THEN start ELSE Put(do[k], g[k - 1])
    <3>1. k = 0 \/ k = 1 \/ k = 2
      OBVIOUS
    <3> QED
      BY <1>2, <3>1
  <2>2. g = [k \in 0 .. 2 |-> g[k]]
    OBVIOUS
  <2>3. g = [k \in 0 .. 2 |-> IF k = 0 THEN start ELSE Put(do[k], g[k - 1])]
    <3> HIDE DEF g
    <3> QED
      BY <2>1, <2>2
  <2> QED
    BY <1>2, <2>3
<1>4. after = body(after)
  <2> HIDE DEF g, body
  <2> QED
    BY <1>3
<1> HIDE DEF after
<1>5. after[0] = start
  BY <1>2, <1>4
<1>6. after[1] = Put(eff1, after[0]) /\ after[2] = Put(eff2, after[1])
  BY <1>2, <1>4
<1> QED
  BY <1>1, <1>5, <1>6 DEF start, Put, do

-----------------------------------------------------------------------------
(* The two hooks of the machine.                                             *)

(* At a prompt only the second transition is a candidate, and it holds when a *)
(* nudge is pending.                                                         *)
LEMMA PromptHolding ==
  ASSUME M = HedgeVerify, NEW fuel, NEW pending, NEW answers
  PROVE  Holding(Rec(fuel, pending), On("UserPromptSubmit"), answers)
           = IF pending # "" THEN {2} ELSE {}
<1> DEFINE r == Rec(fuel, pending)
           e == On("UserPromptSubmit")
           asked(i) == Asked(answers, Consulted(r.state, e, i))
<1>1. r.state = "watch" /\ r.vars = Pend(pending)
  BY DEF Rec
<1>2. Lookup(r.state).on = <<StopEdge, PromptEdge>>
  BY <1>1, Watching
<1>3. e.on = "UserPromptSubmit" /\ StopEdge.on = "Stop" /\ PromptEdge.on = "UserPromptSubmit"
  BY DEF On, StopEdge, PromptEdge
<1>4. PromptEdge.guard = VarSet("pending")
  BY DEF PromptEdge
<1> HIDE DEF r, e
<1>5. Candidates(r.state, e) = {2}
  <2>1. "Stop" # "UserPromptSubmit"
    OBVIOUS
  <2> QED
    BY <1>2, <1>3, <2>1 DEF Candidates
<1> HIDE DEF asked
<1>6. When(VarSet("pending"), e, r.vars, asked(2)) <=> pending # ""
  <2>1. VarSet("pending").kind = "var" /\ VarSet("pending").name = "pending"
    BY DEF VarSet
  <2>2. Resolve(FromVar("pending"), r.vars, asked(2)) = pending
    BY <1>1 DEF Resolve, FromVar, Pend
  <2> QED
    BY <2>1, <2>2 DEF When
<1>7. Lookup(r.state).on[2].guard = VarSet("pending")
  BY <1>2, <1>4
<1>8. Holding(r, e, answers) =
        {i \in {2} : When(Lookup(r.state).on[i].guard, e, r.vars, asked(i))}
  BY <1>5 DEF Holding, asked
<1>9. Holding(r, e, answers) = IF pending # "" THEN {2} ELSE {}
  BY <1>6, <1>7, <1>8
<1> QED
  BY <1>9 DEF r, e

(* When a turn ends only the first is, and it holds when the tail hedges. *)
LEMMA StopHolding ==
  ASSUME M = HedgeVerify, NEW fuel, NEW pending, NEW answers, NEW text
  PROVE  Holding(Rec(fuel, pending), After(text), answers)
           = IF text = "hedged" THEN {1} ELSE {}
<1> DEFINE r == Rec(fuel, pending)
           e == After(text)
           asked(i) == Asked(answers, Consulted(r.state, e, i))
           guard == TranscriptMatches({"hedged"})
<1>1. r.state = "watch"
  BY DEF Rec
<1>2. Lookup(r.state).on = <<StopEdge, PromptEdge>>
  BY <1>1, Watching
<1>3. /\ e.on = "Stop" /\ e.transcript = text
      /\ StopEdge.on = "Stop" /\ PromptEdge.on = "UserPromptSubmit"
  BY DEF After, On, StopEdge, PromptEdge
<1>4. StopEdge.guard = guard
  BY DEF StopEdge
<1> HIDE DEF r, e
<1>5. Candidates(r.state, e) = {1}
  <2>1. "Stop" # "UserPromptSubmit"
    OBVIOUS
  <2> QED
    BY <1>2, <1>3, <2>1 DEF Candidates
<1> HIDE DEF asked
<1>6. When(guard, e, r.vars, asked(1)) <=> text = "hedged"
  <2>1. guard.kind = "transcript" /\ guard.of = {"hedged"}
    BY DEF TranscriptMatches
  <2>2. "hedged" # ""
    OBVIOUS
  <2> HIDE DEF guard
  <2> QED
    BY <1>3, <2>1, <2>2 DEF When
<1>7. Lookup(r.state).on[1].guard = guard
  BY <1>2, <1>4
<1> HIDE DEF guard
<1>8. Holding(r, e, answers) =
        {i \in {1} : When(Lookup(r.state).on[i].guard, e, r.vars, asked(i))}
  BY <1>5 DEF Holding, asked
<1>9. Holding(r, e, answers) = IF text = "hedged" THEN {1} ELSE {}
  BY <1>6, <1>7, <1>8
<1> QED
  BY <1>9 DEF r, e

(* The one transition that holds is the first that does. *)
LEMMA FirstOfOne == First({1}) = 1 /\ First({2}) = 2
BY DEF First

(* The triggers the machine listens to. *)
Speaking == {"UserPromptSubmit", "Stop"}

(* An event without budget is answered by saying so. *)
LEMMA ExhaustedSays ==
  ASSUME NEW on \in Speaking
  PROVE  Injects(Exhausted(on), <<"budget exhausted">>, TRUE)
<1>1. Exhausted(on) = [NoOutput EXCEPT !.halt = TRUE, !.inject = <<"budget exhausted">>]
  BY DEF Exhausted, Gating, Speaking
<1> QED
  BY <1>1, InjectsOnly

(* Without budget nothing changes. *)
LEMMA OutcomeSpent ==
  ASSUME M = HedgeVerify, NEW fuel, fuel = 0, NEW pending, NEW e, NEW answers, e.on \in Speaking
  PROVE  /\ Outcome(Rec(fuel, pending), e, answers).record = Rec(fuel, pending)
         /\ Injects(Outcome(Rec(fuel, pending), e, answers).out, <<"budget exhausted">>, TRUE)
<1> DEFINE r == Rec(fuel, pending)
           x == Exhausted(e.on)
<1>1. r.fuel = 0 /\ r.state = "watch"
  BY DEF Rec
<1>2. ~Lookup(r.state).terminal
  BY <1>1, Watching
<1>3. Injects(x, <<"budget exhausted">>, TRUE)
  BY ExhaustedSays, Zenon
<1> HIDE DEF r
<1>4. Outcome(r, e, answers) = [record |-> r, out |-> x]
  BY <1>1, <1>2 DEF Outcome
<1> HIDE DEF x
<1>5. Outcome(r, e, answers).record = r /\ Outcome(r, e, answers).out = x
  BY <1>4
<1> QED
  BY <1>3, <1>5, Zenon DEF r

(* An event without a transition changes nothing and says nothing. *)
LEMMA OutcomeIdle ==
  ASSUME M = HedgeVerify, NEW fuel \in Nat \ {0}, NEW pending, NEW e, NEW answers,
         Holding(Rec(fuel, pending), e, answers) = {}
  PROVE  /\ Outcome(Rec(fuel, pending), e, answers).record = Rec(fuel, pending)
         /\ Injects(Outcome(Rec(fuel, pending), e, answers).out, <<>>, FALSE)
<1> DEFINE r == Rec(fuel, pending)
<1>1. r.fuel = fuel /\ r.state = "watch"
  BY DEF Rec
<1>2. ~Lookup(r.state).terminal
  BY <1>1, Watching
<1>3. Holding(r, e, answers) = {}
  OBVIOUS
<1> HIDE DEF r
<1>4. Outcome(r, e, answers) = [record |-> r, out |-> NoOutput]
  BY <1>1, <1>2, <1>3 DEF Outcome
<1>5. Outcome(r, e, answers).record = r /\ Outcome(r, e, answers).out = NoOutput
  BY <1>4
<1> QED
  BY <1>5, InjectsOnly, Zenon DEF r

(* What its effects leave. *)
Work(i, pending, results, answers) ==
    LET do == <<StopEdge, PromptEdge>>[i].do
    IN  Performed(do, Len(do), Pend(pending), results, answers)

(* What a transition comes to. *)
LEMMA OutcomeTaken ==
  ASSUME M = HedgeVerify, NEW fuel \in Nat \ {0}, NEW pending, NEW e, NEW answers,
         NEW i \in {1, 2}, Holding(Rec(fuel, pending), e, answers) = {i}
  PROVE  \E results :
            /\ Outcome(Rec(fuel, pending), e, answers).record =
                  [state |-> "watch", fuel |-> fuel - 1, vars |-> Work(i, pending, results, answers).vars]
            /\ Outcome(Rec(fuel, pending), e, answers).out = Work(i, pending, results, answers).out
<1> DEFINE r == Rec(fuel, pending)
           edge == <<StopEdge, PromptEdge>>[i]
           results == Asked(answers, Consulted(r.state, e, i))
           done == Performed(edge.do, Len(edge.do), r.vars, results, answers)
<1>1. r.fuel = fuel /\ r.state = "watch" /\ r.vars = Pend(pending)
  BY DEF Rec
<1>2. ~Lookup(r.state).terminal /\ Lookup(r.state).on = <<StopEdge, PromptEdge>>
  BY <1>1, Watching
<1>3. edge.to = "watch"
  BY DEF StopEdge, PromptEdge
<1>4. First({i}) = i
  BY FirstOfOne
<1>5. Holding(r, e, answers) = {i}
  OBVIOUS
<1> HIDE DEF r
<1>6. Lookup(r.state).on[First(Holding(r, e, answers))] = edge
  BY <1>2, <1>4, <1>5
<1>7. Effected(r, e, answers, Len(edge.do)) = done
  BY <1>4, <1>5, <1>6 DEF Effected
<1> HIDE DEF edge, done
<1>8. Outcome(r, e, answers) =
        [record |-> [state |-> edge.to, fuel |-> r.fuel - 1, vars |-> done.vars], out |-> done.out]
  <2>1. ~(fuel = 0) /\ Holding(r, e, answers) # {}
    BY <1>5
  <2> QED
    BY <1>1, <1>2, <1>6, <1>7, <2>1 DEF Outcome
<1>9. /\ Outcome(r, e, answers).record =
           [state |-> "watch", fuel |-> fuel - 1, vars |-> done.vars]
      /\ Outcome(r, e, answers).out = done.out
  BY <1>1, <1>3, <1>8
<1>10. done = Work(i, pending, results, answers)
  BY <1>1, Zenon DEF done, Work, edge
<1> HIDE DEF results
<1> QED
  BY <1>9, <1>10, Zenon DEF r

(* The effects of the prompt's transition tell the nudge, and clear it. *)
LEMMA PromptWork ==
  ASSUME NEW pending, NEW results, NEW answers
  PROVE  /\ Work(2, pending, results, answers).vars = Pend("")
         /\ Injects(Work(2, pending, results, answers).out, <<"nudge">>, FALSE)
<1> DEFINE memory == Pend(pending)
           do == <<StopEdge, PromptEdge>>[2].do
           start == [vars |-> memory, cells |-> results, out |-> NoOutput]
           first == OneEffect(Utter, start, answers)
           last  == OneEffect(Clear, first, answers)
<1>1. do = <<Utter, Clear>> /\ Len(do) = 2
  BY DEF PromptEdge
<1> HIDE DEF do
<1>2. Performed(do, Len(do), memory, results, answers) = last
  BY <1>1, PerformedTwo
<1>3. /\ first.vars = Remember(Utter, memory, results)
      /\ first.out = Perform(Utter, NoOutput, memory, results)
  BY DEF OneEffect
<1>4. first.vars = memory /\ Injects(first.out, <<"nudge">>, FALSE)
  BY <1>3, UtterDoes
<1> HIDE DEF first
<1>5. /\ last.vars = Remember(Clear, memory, first.cells)
      /\ last.out = Perform(Clear, first.out, memory, first.cells)
  BY <1>4 DEF OneEffect
<1> HIDE DEF last
<1>6. Remember(Clear, memory, first.cells) = Pend("")
  BY ClearDoes
<1>7. Perform(Clear, first.out, memory, first.cells) = first.out
  BY EffectsAre DEF Perform
<1>8. last.vars = Pend("") /\ last.out = first.out
  BY <1>5, <1>6, <1>7
<1>9. Work(2, pending, results, answers) = last
  BY <1>2, Zenon DEF Work, do
<1> QED
  BY <1>4, <1>8, <1>9

(* Those of the Stop hook's leave a nudge pending, and say nothing. *)
LEMMA StopWork ==
  ASSUME NEW pending, NEW results, NEW answers
  PROVE  /\ Work(1, pending, results, answers).vars = Pend("1")
         /\ Injects(Work(1, pending, results, answers).out, <<>>, FALSE)
<1> DEFINE memory == Pend(pending)
           do == <<StopEdge, PromptEdge>>[1].do
           start == [vars |-> memory, cells |-> results, out |-> NoOutput]
           last  == OneEffect(Arm, start, answers)
<1>1. do = <<Arm>> /\ Len(do) = 1
  BY DEF StopEdge
<1> HIDE DEF do
<1>2. Performed(do, Len(do), memory, results, answers) = last
  BY <1>1, PerformedOne
<1>3. /\ last.vars = Remember(Arm, memory, results)
      /\ last.out = Perform(Arm, NoOutput, memory, results)
  BY DEF OneEffect
<1> HIDE DEF last
<1>4. /\ Remember(Arm, memory, results) = Pend("1")
      /\ Perform(Arm, NoOutput, memory, results) = NoOutput
  BY ArmDoes
<1>5. last.vars = Pend("1") /\ last.out = NoOutput
  BY <1>3, <1>4
<1>6. Work(1, pending, results, answers) = last
  BY <1>2, Zenon DEF Work, do
<1> QED
  BY <1>5, <1>6, InjectsOnly

(* What the two transitions come to. *)
LEMMA PromptTaken ==
  ASSUME M = HedgeVerify, NEW fuel \in Nat \ {0}, NEW pending, NEW e, NEW answers,
         Holding(Rec(fuel, pending), e, answers) = {2}
  PROVE  /\ Outcome(Rec(fuel, pending), e, answers).record = Rec(fuel - 1, "")
         /\ Injects(Outcome(Rec(fuel, pending), e, answers).out, <<"nudge">>, FALSE)
<1> DEFINE step == Outcome(Rec(fuel, pending), e, answers)
<1>1. PICK results :
        /\ step.record =
             [state |-> "watch", fuel |-> fuel - 1, vars |-> Work(2, pending, results, answers).vars]
        /\ step.out = Work(2, pending, results, answers).out
  BY OutcomeTaken
<1> HIDE DEF step
<1>2. /\ Work(2, pending, results, answers).vars = Pend("")
      /\ Injects(Work(2, pending, results, answers).out, <<"nudge">>, FALSE)
  BY PromptWork, Zenon
<1>3. step.record = Rec(fuel - 1, "")
  BY <1>1, <1>2, Zenon DEF Rec
<1>4. Injects(step.out, <<"nudge">>, FALSE)
  BY <1>1, <1>2, Zenon
<1> QED
  BY <1>3, <1>4, Zenon DEF step

(* The Stop hook's transition leaves a nudge pending. *)
LEMMA StopTaken ==
  ASSUME M = HedgeVerify, NEW fuel \in Nat \ {0}, NEW pending, NEW e, NEW answers,
         Holding(Rec(fuel, pending), e, answers) = {1}
  PROVE  /\ Outcome(Rec(fuel, pending), e, answers).record = Rec(fuel - 1, "1")
         /\ Injects(Outcome(Rec(fuel, pending), e, answers).out, <<>>, FALSE)
<1> DEFINE step == Outcome(Rec(fuel, pending), e, answers)
<1>1. PICK results :
        /\ step.record =
             [state |-> "watch", fuel |-> fuel - 1, vars |-> Work(1, pending, results, answers).vars]
        /\ step.out = Work(1, pending, results, answers).out
  BY OutcomeTaken
<1> HIDE DEF step
<1>2. /\ Work(1, pending, results, answers).vars = Pend("1")
      /\ Injects(Work(1, pending, results, answers).out, <<>>, FALSE)
  BY StopWork, Zenon
<1>3. step.record = Rec(fuel - 1, "1")
  BY <1>1, <1>2, Zenon DEF Rec
<1>4. Injects(step.out, <<>>, FALSE)
  BY <1>1, <1>2, Zenon
<1> QED
  BY <1>3, <1>4, Zenon DEF step

(* What a prompt and the end of a turn come to, all told. *)
LEMMA PromptEvent ==
  ASSUME M = HedgeVerify, NEW fuel \in Nat, NEW pending, NEW answers
  PROVE  LET step == Outcome(Rec(fuel, pending), On("UserPromptSubmit"), answers)
         IN  \/ /\ fuel = 0
                /\ step.record = Rec(fuel, pending)
                /\ Injects(step.out, <<"budget exhausted">>, TRUE)
             \/ /\ fuel # 0 /\ ~(pending # "")
                /\ step.record = Rec(fuel, pending)
                /\ Injects(step.out, <<>>, FALSE)
             \/ /\ fuel # 0 /\ pending # ""
                /\ step.record = Rec(fuel - 1, "")
                /\ Injects(step.out, <<"nudge">>, FALSE)
<1> DEFINE e == On("UserPromptSubmit")
           step == Outcome(Rec(fuel, pending), e, answers)
<1>1. Holding(Rec(fuel, pending), e, answers) = IF pending # "" THEN {2} ELSE {}
  BY PromptHolding
<1>2. e.on \in Speaking
  BY DEF On, Speaking
<1> HIDE DEF e
<1>3. CASE fuel = 0
  <2>1. step.record = Rec(fuel, pending) /\ Injects(step.out, <<"budget exhausted">>, TRUE)
    BY <1>2, <1>3, OutcomeSpent, Zenon
  <2> QED
    BY <1>3, <2>1, Zenon DEF e
<1>4. CASE fuel # 0 /\ ~(pending # "")
  <2>1. Holding(Rec(fuel, pending), e, answers) = {} /\ fuel \in Nat \ {0}
    BY <1>1, <1>4, Zenon
  <2>2. step.record = Rec(fuel, pending) /\ Injects(step.out, <<>>, FALSE)
    BY <2>1, OutcomeIdle, Zenon
  <2> QED
    BY <1>4, <2>2, Zenon DEF e
<1>5. CASE fuel # 0 /\ pending # ""
  <2>1. Holding(Rec(fuel, pending), e, answers) = {2} /\ fuel \in Nat \ {0}
    BY <1>1, <1>5, Zenon
  <2>2. step.record = Rec(fuel - 1, "") /\ Injects(step.out, <<"nudge">>, FALSE)
    BY <2>1, PromptTaken, Zenon
  <2> QED
    BY <1>5, <2>2, Zenon DEF e
<1> QED
  BY <1>3, <1>4, <1>5, Zenon

(* What the end of a turn comes to, all told. *)
LEMMA StopEvent ==
  ASSUME M = HedgeVerify, NEW fuel \in Nat, NEW pending, NEW answers, NEW text
  PROVE  LET step == Outcome(Rec(fuel, pending), After(text), answers)
         IN  \/ /\ fuel = 0
                /\ step.record = Rec(fuel, pending)
                /\ Injects(step.out, <<"budget exhausted">>, TRUE)
             \/ /\ fuel # 0 /\ text # "hedged"
                /\ step.record = Rec(fuel, pending)
                /\ Injects(step.out, <<>>, FALSE)
             \/ /\ fuel # 0 /\ text = "hedged"
                /\ step.record = Rec(fuel - 1, "1")
                /\ Injects(step.out, <<>>, FALSE)
<1> DEFINE e == After(text)
           step == Outcome(Rec(fuel, pending), e, answers)
<1>1. Holding(Rec(fuel, pending), e, answers) = IF text = "hedged" THEN {1} ELSE {}
  BY StopHolding
<1>2. e.on \in Speaking
  BY DEF After, On, Speaking
<1> HIDE DEF e
<1>3. CASE fuel = 0
  <2>1. step.record = Rec(fuel, pending) /\ Injects(step.out, <<"budget exhausted">>, TRUE)
    BY <1>2, <1>3, OutcomeSpent, Zenon
  <2> QED
    BY <1>3, <2>1, Zenon DEF e
<1>4. CASE fuel # 0 /\ text # "hedged"
  <2>1. Holding(Rec(fuel, pending), e, answers) = {} /\ fuel \in Nat \ {0}
    BY <1>1, <1>4, Zenon
  <2>2. step.record = Rec(fuel, pending) /\ Injects(step.out, <<>>, FALSE)
    BY <2>1, OutcomeIdle, Zenon
  <2> QED
    BY <1>4, <2>2, Zenon DEF e
<1>5. CASE fuel # 0 /\ text = "hedged"
  <2>1. Holding(Rec(fuel, pending), e, answers) = {1} /\ fuel \in Nat \ {0}
    BY <1>1, <1>5, Zenon
  <2>2. step.record = Rec(fuel - 1, "1") /\ Injects(step.out, <<>>, FALSE)
    BY <2>1, StopTaken, Zenon
  <2> QED
    BY <1>5, <2>2, Zenon DEF e
<1> QED
  BY <1>3, <1>4, <1>5, Zenon

-----------------------------------------------------------------------------
(* The invariants.                                                           *)

(* A nudge is pending. *)
Armed == record.vars["pending"] # ""

(* The record is one of the machine's. *)
RecordOK == record.fuel \in Nat /\ record = Rec(record.fuel, record.vars["pending"])

(* A nudge is owed but not yet told. *)
NudgeOwed == \E o \in owed : Nudge(o.answer)

(* A nudge is pending or owed, and not both, exactly when a Stop hook saw a *)
(* hedge that no nudge has been told about, and none was lost since.       *)
SeenInv ==
    /\ RecordOK
    /\ seen \in BOOLEAN /\ lost \in BOOLEAN
    /\ (Armed \/ NudgeOwed) <=> (seen /\ ~lost)
    /\ NudgeOwed => ~Armed /\ \A o \in owed : Nudge(o.answer)

Entry == [by : {"user", "assistant", "hook"}, text : {"hedged", "plain"}]

(* None of the last n entries hedges. *)
PlainEnd(entries, n) ==
    \A i \in 1 .. Len(entries) : i > Len(entries) - n => entries[i].text = "plain"

(* What has been said between a nudge told and the next at most. *)
Since == IF turn = "assistant" THEN 0 ELSE IF turn = "prompted" THEN 2 ELSE 1

(* Each nudge told since anyone hedged has put a reply and a prompt behind   *)
(* it, and what raised the one that is pending or owed is still in the       *)
(* window.                                                                   *)
NagInv ==
    /\ transcript \in Seq(Entry)
    /\ nags \in Nat
    /\ nags <= Window \div 2 + 1
    /\ nags > 0 => PlainEnd(transcript, 2 * (nags - 1) + Since)
    /\ Armed \/ NudgeOwed => nags <= Window \div 2
    /\ NudgeOwed => turn = "assistant" /\ ~Armed /\ PlainEnd(transcript, 2 * nags)

-----------------------------------------------------------------------------
(* The steps of the machine.                                                 *)

(* What is owed for an output that refuses nothing. *)
LEMMA OwedIs ==
  ASSUME NEW out, NEW injected, NEW halt, NEW e, Injects(out, injected, halt), Owes(e, out)
  PROVE  \E o : owed' = {o} /\ o.answer.context = injected /\ (halt => o.answer.loud)
<1> DEFINE o == [emits |-> out.emits, answer |-> Rendered(out, e.on)]
<1>1. ~Refused(out, e.on)
  BY DEF Injects, Refused
<1>2. Rendered(out, e.on).context = out.inject /\ Rendered(out, e.on).loud = out.halt
  BY <1>1 DEF Rendered
<1>3. out.inject = injected /\ out.halt = halt
  BY Zenon DEF Injects
<1>4. o.answer = Rendered(out, e.on)
  OBVIOUS
<1>5. o.answer.context = injected /\ o.answer.loud = halt
  BY <1>2, <1>3, <1>4, Zenon
<1>6. owed' = {o}
  BY Zenon DEF Owes
<1> QED
  BY <1>5, <1>6, Zenon

(* Which answers nudge. *)
LEMMA NudgeIs ==
  ASSUME NEW answer
  PROVE  /\ answer.context = <<"nudge">> => Nudge(answer)
         /\ answer.context = <<>> => ~Nudge(answer)
         /\ answer.context = <<"budget exhausted">> => ~Nudge(answer)
<1> DEFINE context == answer.context
<1>1. Nudge(answer) <=> \E i \in DOMAIN context : context[i] = "nudge"
  BY Zenon DEF Nudge
<1> HIDE DEF context
<1>2. ASSUME NEW word, context = <<word>> PROVE DOMAIN context = {1} /\ context[1] = word
  BY <1>2
<1>3. context = <<>> => DOMAIN context = {}
  OBVIOUS
<1>4.  "budget exhausted" # "nudge"
  OBVIOUS
<1>5. context = <<"nudge">> => Nudge(answer)
  <2>1. context = <<"nudge">> => DOMAIN context = {1} /\ context[1] = "nudge"
    BY <1>2, Zenon
  <2> QED
    BY <1>1, <2>1
<1>6. context = <<>> => ~Nudge(answer)
  BY <1>1, <1>3
<1>7. context = <<"budget exhausted">> => ~Nudge(answer)
  <2>1. context = <<"budget exhausted">> => DOMAIN context = {1} /\ context[1] = "budget exhausted"
    BY <1>2, Zenon
  <2>2. context = <<"budget exhausted">> => \A i \in DOMAIN context : i = 1
    BY <2>1
  <2> QED
    BY <1>1, <1>4, <2>1, <2>2, Zenon
<1> QED
  BY <1>5, <1>6, <1>7, Zenon DEF context

(* A prompt's hook: out of budget it says so and changes nothing; else it    *)
(* tells the nudge that is pending, and only that.                           *)
LEMMA AtPrompt ==
  ASSUME M = HedgeVerify, RecordOK, Step(On("UserPromptSubmit"))
  PROVE  \E o : /\ owed' = {o}
                /\ \/ record.fuel = 0 /\ record' = record /\ o.answer.loud /\ ~Nudge(o.answer)
                   \/ record.fuel # 0 /\ ~Armed /\ record' = record /\ ~Nudge(o.answer)
                   \/ /\ record.fuel # 0 /\ Armed
                      /\ record' = Rec(record.fuel - 1, "") /\ Nudge(o.answer)
<1> DEFINE fuel == record.fuel
           pending == record.vars["pending"]
           e == On("UserPromptSubmit")
<1>1. fuel \in Nat /\ record = Rec(fuel, pending)
  BY DEF RecordOK
<1>2. PICK answers :
        record' = Outcome(record, e, answers).record /\ Owes(e, Outcome(record, e, answers).out)
  BY Zenon DEF Step
<1> DEFINE step == Outcome(Rec(fuel, pending), e, answers)
<1>3. record' = step.record /\ Owes(e, step.out)
  BY <1>1, <1>2, Zenon
<1>4. \/ /\ fuel = 0
         /\ step.record = Rec(fuel, pending)
         /\ Injects(step.out, <<"budget exhausted">>, TRUE)
      \/ /\ fuel # 0 /\ ~(pending # "")
         /\ step.record = Rec(fuel, pending)
         /\ Injects(step.out, <<>>, FALSE)
      \/ /\ fuel # 0 /\ pending # ""
         /\ step.record = Rec(fuel - 1, "")
         /\ Injects(step.out, <<"nudge">>, FALSE)
  BY <1>1, PromptEvent, Zenon
<1> HIDE DEF step, e
<1>5. ASSUME NEW injected, NEW halt, Injects(step.out, injected, halt)
      PROVE  \E o : owed' = {o} /\ o.answer.context = injected /\ (halt => o.answer.loud)
  BY <1>3, <1>5, OwedIs, Zenon
<1>6. CASE fuel = 0 /\ step.record = record /\ Injects(step.out, <<"budget exhausted">>, TRUE)
  <2>1. PICK o : owed' = {o} /\ o.answer.context = <<"budget exhausted">> /\ o.answer.loud
    BY <1>5, <1>6, Zenon
  <2>2. ~Nudge(o.answer)
    BY <2>1, NudgeIs, Zenon
  <2> QED
    BY <1>3, <1>6, <2>1, <2>2, Zenon
<1>7. CASE fuel # 0 /\ ~Armed /\ step.record = record /\ Injects(step.out, <<>>, FALSE)
  <2>1. PICK o : owed' = {o} /\ o.answer.context = <<>>
    BY <1>5, <1>7, Zenon
  <2>2. ~Nudge(o.answer)
    BY <2>1, NudgeIs, Zenon
  <2> QED
    BY <1>3, <1>7, <2>1, <2>2, Zenon
<1>8. CASE fuel # 0 /\ Armed /\ step.record = Rec(fuel - 1, "") /\ Injects(step.out, <<"nudge">>, FALSE)
  <2>1. PICK o : owed' = {o} /\ o.answer.context = <<"nudge">>
    BY <1>5, <1>8, Zenon
  <2>2. Nudge(o.answer)
    BY <2>1, NudgeIs, Zenon
  <2> QED
    BY <1>3, <1>8, <2>1, <2>2, Zenon
<1> QED
  BY <1>1, <1>4, <1>6, <1>7, <1>8, Zenon DEF Armed

(* A Stop hook nudges nobody yet; while there is budget it leaves a nudge *)
(* pending when the text hedges, and changes nothing otherwise.           *)
LEMMA AtStop ==
  ASSUME M = HedgeVerify, RecordOK, NEW text, Step(After(text))
  PROVE  \E o : /\ owed' = {o} /\ ~Nudge(o.answer)
                /\ \/ record.fuel = 0 /\ record' = record
                   \/ record.fuel # 0 /\ text # "hedged" /\ record' = record
                   \/ record.fuel # 0 /\ text = "hedged" /\ record' = Rec(record.fuel - 1, "1")
<1> DEFINE fuel == record.fuel
           pending == record.vars["pending"]
           e == After(text)
<1>1. fuel \in Nat /\ record = Rec(fuel, pending)
  BY DEF RecordOK
<1>2. PICK answers :
        record' = Outcome(record, e, answers).record /\ Owes(e, Outcome(record, e, answers).out)
  BY Zenon DEF Step
<1> DEFINE step == Outcome(Rec(fuel, pending), e, answers)
<1>3. record' = step.record /\ Owes(e, step.out)
  BY <1>1, <1>2, Zenon
<1>4. \/ /\ fuel = 0
         /\ step.record = Rec(fuel, pending)
         /\ Injects(step.out, <<"budget exhausted">>, TRUE)
      \/ /\ fuel # 0 /\ text # "hedged"
         /\ step.record = Rec(fuel, pending)
         /\ Injects(step.out, <<>>, FALSE)
      \/ /\ fuel # 0 /\ text = "hedged"
         /\ step.record = Rec(fuel - 1, "1")
         /\ Injects(step.out, <<>>, FALSE)
  BY <1>1, StopEvent, Zenon
<1> HIDE DEF step, e
<1>5. ASSUME NEW injected, NEW halt, Injects(step.out, injected, halt)
      PROVE  \E o : owed' = {o} /\ o.answer.context = injected
  BY <1>3, <1>5, OwedIs, Zenon
<1>6. \E o : owed' = {o} /\ (o.answer.context = <<>> \/ o.answer.context = <<"budget exhausted">>)
  BY <1>4, <1>5, Zenon
<1>7. \E o : owed' = {o} /\ ~Nudge(o.answer)
  BY <1>6, NudgeIs, Zenon
<1> QED
  BY <1>1, <1>3, <1>4, <1>7, Zenon

-----------------------------------------------------------------------------
(* A hedge a Stop hook has seen raises one nudge.                            *)

(* The fields of a record. *)
LEMMA RecIs ==
  ASSUME NEW fuel, NEW pending
  PROVE  Rec(fuel, pending).fuel = fuel /\ Rec(fuel, pending).vars["pending"] = pending
BY DEF Rec, Pend

(* What a step makes of the record. *)
LEMMA RecordKept ==
  ASSUME RecordOK
  PROVE  /\ record' = record => RecordOK' /\ (Armed' <=> Armed)
         /\ record.fuel # 0 /\ record' = Rec(record.fuel - 1, "") => RecordOK' /\ ~Armed'
         /\ record.fuel # 0 /\ record' = Rec(record.fuel - 1, "1") => RecordOK' /\ Armed'
<1>1. record' = record => RecordOK' /\ (Armed' <=> Armed)
  BY DEF RecordOK, Armed
<1>2. ASSUME NEW pending, record.fuel # 0, record' = Rec(record.fuel - 1, pending)
      PROVE  RecordOK' /\ record'.vars["pending"] = pending
  <2>1. record'.fuel = record.fuel - 1 /\ record'.vars["pending"] = pending
    BY <1>2, RecIs
  <2>2. record.fuel - 1 \in Nat
    BY <1>2 DEF RecordOK
  <2> QED
    BY <1>2, <2>1, <2>2, Zenon DEF RecordOK
<1>3. "1" # ""
  OBVIOUS
<1> QED
  BY <1>1, <1>2, <1>3, Zenon DEF Armed

(* Initially nothing is seen and nothing pending. *)
LEMMA SeenInit ==
  ASSUME M = HedgeVerify, CInit
  PROVE  SeenInv
<1>1. record = Rec(50, "")
  BY Watching DEF CInit, Init, Fresh, Rec, Pend
<1>2. record.fuel = 50 /\ record.vars["pending"] = ""
  BY <1>1 DEF Rec, Pend
<1>3. RecordOK /\ ~Armed
  <2>1. record = Rec(record.fuel, record.vars["pending"])
    BY <1>1, <1>2, Zenon
  <2>2. record.fuel \in Nat
    BY FuelAssumption DEF CInit, Init, Fresh
  <2>3. ~Armed
    BY <1>2, Zenon DEF Armed
  <2> QED
    BY <2>1, <2>2, <2>3, Zenon DEF RecordOK
<1>4. ~NudgeOwed
  BY Zenon DEF NudgeOwed, CInit, Init
<1>5. seen = FALSE /\ lost = FALSE
  BY DEF CInit
<1> QED
  BY <1>3, <1>4, <1>5 DEF SeenInv

(* The hook of a prompt tells the nudge that is pending, if it has budget. *)
LEMMA SeenAtPrompt ==
  ASSUME M = HedgeVerify, SeenInv, PromptHook
  PROVE  SeenInv'
<1>1. /\ RecordOK /\ seen \in BOOLEAN /\ lost \in BOOLEAN
      /\ (Armed \/ NudgeOwed) <=> (seen /\ ~lost)
  BY DEF SeenInv
<1>2. Step(On("UserPromptSubmit")) /\ seen' = seen /\ lost' = lost
  BY DEF PromptHook
<1>3. ~NudgeOwed
  BY <1>2, Zenon DEF Step, NudgeOwed
<1>4. PICK o : /\ owed' = {o}
               /\ \/ record' = record /\ ~Nudge(o.answer)
                  \/ /\ record.fuel # 0 /\ Armed
                     /\ record' = Rec(record.fuel - 1, "") /\ Nudge(o.answer)
  BY <1>1, <1>2, AtPrompt, Zenon
<1>5. NudgeOwed' <=> Nudge(o.answer)
  BY <1>4, Zenon DEF NudgeOwed
<1>6. \A u \in owed' : Nudge(u.answer) <=> Nudge(o.answer)
  BY <1>4, Zenon
<1>7. CASE record' = record /\ ~Nudge(o.answer)
  <2>1. RecordOK' /\ (Armed' <=> Armed) /\ ~NudgeOwed'
    BY <1>1, <1>5, <1>7, RecordKept, Zenon
  <2> QED
    BY <1>1, <1>2, <1>3, <2>1, Zenon DEF SeenInv
<1>8. CASE record.fuel # 0 /\ Armed /\ record' = Rec(record.fuel - 1, "") /\ Nudge(o.answer)
  <2>1. RecordOK' /\ ~Armed' /\ NudgeOwed'
    BY <1>1, <1>5, <1>8, RecordKept, Zenon
  <2>2. \A u \in owed' : Nudge(u.answer)
    BY <1>6, <1>8, Zenon
  <2> QED
    BY <1>1, <1>2, <1>8, <2>1, <2>2, Zenon DEF SeenInv
<1> QED
  BY <1>4, <1>7, <1>8, Zenon

(* A Stop hook leaves a nudge pending about a hedge it sees, if it has budget. *)
LEMMA SeenAtStop ==
  ASSUME M = HedgeVerify, SeenInv, StopHook
  PROVE  SeenInv'
<1>1. /\ RecordOK /\ seen \in BOOLEAN /\ lost \in BOOLEAN
      /\ (Armed \/ NudgeOwed) <=> (seen /\ ~lost)
  BY DEF SeenInv
<1>2. PICK text : /\ Step(After(text))
                  /\ IF text = "hedged" /\ record.fuel # 0
                     THEN seen' = TRUE /\ lost' = FALSE
                     ELSE UNCHANGED <<seen, lost>>
  BY Zenon DEF StopHook
<1>3. ~NudgeOwed
  BY <1>2, Zenon DEF Step, NudgeOwed
<1>4. PICK o : /\ owed' = {o} /\ ~Nudge(o.answer)
               /\ \/ ~(text = "hedged" /\ record.fuel # 0) /\ record' = record
                  \/ text = "hedged" /\ record.fuel # 0 /\ record' = Rec(record.fuel - 1, "1")
  BY <1>1, <1>2, AtStop, Zenon
<1>5. ~NudgeOwed'
  BY <1>4, Zenon DEF NudgeOwed
<1>6. CASE ~(text = "hedged" /\ record.fuel # 0) /\ record' = record
  <2>1. RecordOK' /\ (Armed' <=> Armed)
    BY <1>1, <1>6, RecordKept, Zenon
  <2>2. seen' = seen /\ lost' = lost
    BY <1>2, <1>6
  <2> QED
    BY <1>1, <1>3, <1>5, <2>1, <2>2, Zenon DEF SeenInv
<1>7. CASE text = "hedged" /\ record.fuel # 0 /\ record' = Rec(record.fuel - 1, "1")
  <2>1. RecordOK' /\ Armed'
    BY <1>1, <1>7, RecordKept, Zenon
  <2>2. seen' = TRUE /\ lost' = FALSE
    BY <1>2, <1>7, Zenon
  <2>3. seen' \in BOOLEAN /\ lost' \in BOOLEAN /\ seen' /\ ~lost'
    BY <2>2
  <2> QED
    BY <1>5, <2>1, <2>3, Zenon DEF SeenInv
<1> QED
  BY <1>4, <1>6, <1>7, Zenon

(* With the answer the nudge it bears is told or lost. *)
LEMMA SeenAtAnswer ==
  ASSUME SeenInv, Told \/ Untold
  PROVE  SeenInv'
<1>1. /\ RecordOK /\ seen \in BOOLEAN /\ lost \in BOOLEAN
      /\ (Armed \/ NudgeOwed) <=> (seen /\ ~lost)
      /\ NudgeOwed => ~Armed /\ \A o \in owed : Nudge(o.answer)
  BY Zenon DEF SeenInv
<1>2. record' = record /\ owed' = {}
  BY DEF Told, Untold, Say, Lose
<1>3. RecordOK' /\ (Armed' <=> Armed)
  BY <1>1, <1>2, RecordKept, Zenon
<1>4. ~NudgeOwed'
  BY <1>2, Zenon DEF NudgeOwed
<1>5. CASE Told
  <2>1. PICK o \in owed : said' = o.answer
    BY <1>5, Zenon DEF Told, Say
  <2>2. CASE Nudge(said')
    <3>1. NudgeOwed
      BY <2>1, <2>2, Zenon DEF NudgeOwed
    <3>2. seen' = FALSE /\ lost' = FALSE
      BY <1>5, <2>2, Zenon DEF Told
    <3>3. seen' \in BOOLEAN /\ lost' \in BOOLEAN /\ ~seen'
      BY <3>2
    <3> QED
      BY <1>1, <1>3, <1>4, <3>1, <3>3, Zenon DEF SeenInv
  <2>3. CASE ~Nudge(said')
    <3>1. ~NudgeOwed
      BY <1>1, <2>1, <2>3, Zenon
    <3>2. seen' = seen /\ lost' = lost
      <4>1. UNCHANGED <<transcript, seen, lost, nags>>
        BY <1>5, <2>3, Zenon DEF Told
      <4> QED
        BY <4>1
    <3> QED
      BY <1>1, <1>3, <1>4, <3>1, <3>2, Zenon DEF SeenInv
  <2> QED
    BY <2>2, <2>3
<1>6. CASE Untold
  <2>1. seen' = seen /\ lost' = (lost \/ NudgeOwed)
    BY <1>6 DEF Untold, NudgeOwed
  <2>2. lost' \in BOOLEAN /\ (lost' <=> lost \/ NudgeOwed)
    <3>1. (lost \/ NudgeOwed) \in BOOLEAN
      OBVIOUS
    <3> QED
      BY <1>1, <2>1, <3>1, Zenon
  <2> QED
    BY <1>1, <1>3, <1>4, <2>1, <2>2, Zenon DEF SeenInv
<1> QED
  BY <1>5, <1>6

(* Every step keeps what is seen and what is pending in step. *)
LEMMA SeenStep ==
  ASSUME M = HedgeVerify, SeenInv, [CNext]_all
  PROVE  SeenInv'
<1>1. ASSUME Prompt \/ Reply \/ HookDies \/ UNCHANGED all
      PROVE  SeenInv'
  <2>1. record' = record /\ owed' = owed /\ seen' = seen /\ lost' = lost
    BY <1>1 DEF Prompt, Reply, HookDies, vars, talk, all
  <2> QED
    BY <2>1, Zenon DEF SeenInv, RecordOK, Armed, NudgeOwed
<1> QED
  BY <1>1, SeenAtPrompt, SeenAtStop, SeenAtAnswer, Zenon DEF CNext

(* A prompt is answered by a nudge, as long as there is budget to nudge from, *)
(* exactly when a hedge was seen that no nudge told has answered and no nudge *)
(* has been lost about (hedgeverify.go's two transitions).                    *)
THEOREM HedgesAreNudged ==
  ASSUME M = HedgeVerify
  PROVE  CSpec => NudgedWhenSeen
<1>1. ASSUME SeenInv, PromptHook
      PROVE  \A o \in owed' : /\ Nudge(o.answer) => seen /\ ~lost
                              /\ seen /\ ~lost => Nudge(o.answer) \/ o.answer.loud
  <2>1. RecordOK /\ ((Armed \/ NudgeOwed) <=> (seen /\ ~lost))
    BY <1>1 DEF SeenInv
  <2>2. Step(On("UserPromptSubmit"))
    BY <1>1 DEF PromptHook
  <2>3. ~NudgeOwed
    BY <2>2, Zenon DEF Step, NudgeOwed
  <2>4. PICK o : /\ owed' = {o}
                 /\ \/ o.answer.loud /\ ~Nudge(o.answer)
                    \/ ~Armed /\ ~Nudge(o.answer)
                    \/ Armed /\ Nudge(o.answer)
    BY <2>1, <2>2, AtPrompt, Zenon
  <2>5. /\ Nudge(o.answer) => seen /\ ~lost
        /\ seen /\ ~lost => Nudge(o.answer) \/ o.answer.loud
    BY <2>1, <2>3, <2>4, Zenon
  <2> QED
    BY <2>4, <2>5, Zenon
<1>2. CInit => SeenInv
  BY SeenInit
<1>3. SeenInv /\ [CNext]_all => SeenInv'
  BY SeenStep
<1>4. SeenInv /\ [CNext]_all =>
        [PromptHook => \A o \in owed' : /\ Nudge(o.answer) => seen /\ ~lost
                                        /\ seen /\ ~lost => Nudge(o.answer) \/ o.answer.loud]_all
  BY <1>1, Zenon
<1> QED
  BY <1>2, <1>3, <1>4, PTL DEF CSpec, NudgedWhenSeen

-----------------------------------------------------------------------------
(* The nudges end with the window.                                           *)

(* The last n elements of a sequence. *)
LEMMA RecentIs ==
  ASSUME NEW T, NEW s \in Seq(T), NEW n \in Nat \ {0}
  PROVE  /\ Recent(s, n) \in Seq(T)
         /\ Len(Recent(s, n)) <= Len(s)
         /\ Len(Recent(s, n)) <= n
         /\ \A i \in 1 .. Len(Recent(s, n)) : Recent(s, n)[i] = s[i + (Len(s) - Len(Recent(s, n)))]
<1>1. CASE Len(s) > n
  <2> DEFINE from == Len(s) - n + 1
  <2>1. from \in Int /\ Len(s) \in Nat /\ from >= 1 /\ Len(s) - from + 1 = n
    BY <1>1
  <2>2. Recent(s, n) = SubSeq(s, from, Len(s))
    BY <1>1 DEF Recent
  <2>3. SubSeq(s, from, Len(s)) \in Seq(T) /\ Len(SubSeq(s, from, Len(s))) = n
    BY <1>1, <2>1
  <2>4. ASSUME NEW i \in 1 .. n
        PROVE  SubSeq(s, from, Len(s))[i] = s[i + (Len(s) - n)]
    <3>1. i + (Len(s) - n) = from + i - 1
      BY <2>1
    <3>2. i \in 1 .. Len(s) - from + 1
      BY <2>1
    <3> HIDE DEF from
    <3>3. SubSeq(s, from, Len(s))[i] = s[from + i - 1]
      BY <2>1, <3>2
    <3> QED
      BY <3>1, <3>3
  <2> QED
    BY <1>1, <2>1, <2>2, <2>3, <2>4
<1>2. CASE ~(Len(s) > n)
  <2>1. Recent(s, n) = SubSeq(s, 1, Len(s))
    BY <1>2 DEF Recent
  <2>2. SubSeq(s, 1, Len(s)) = s
    OBVIOUS
  <2>3. Len(s) <= Len(s) /\ Len(s) <= n
    BY <1>2
  <2>4. \A i \in 1 .. Len(s) : s[i] = s[i + (Len(s) - Len(s))]
    OBVIOUS
  <2> QED
    BY <2>1, <2>2, <2>3, <2>4, Zenon
<1> QED
  BY <1>1, <1>2

(* Another plain entry lengthens the plain end, the oldest dropped or not. *)
LEMMA PlainGrows ==
  ASSUME NEW s \in Seq(Entry), NEW entry \in Entry, NEW n \in Nat, NEW most \in Nat \ {0},
         entry.text = "plain", PlainEnd(s, n)
  PROVE  PlainEnd(Recent(Append(s, entry), most), n + 1)
<1> DEFINE grown == Append(s, entry)
           last  == Recent(grown, most)
           shift == Len(grown) - Len(last)
<1>1. /\ grown \in Seq(Entry) /\ Len(grown) = Len(s) + 1
      /\ grown[Len(s) + 1] = entry
      /\ \A i \in 1 .. Len(s) : grown[i] = s[i]
  OBVIOUS
<1> HIDE DEF grown
<1>2. /\ last \in Seq(Entry) /\ Len(last) <= Len(grown)
      /\ \A i \in 1 .. Len(last) : last[i] = grown[i + shift]
  BY <1>1, RecentIs
<1> HIDE DEF last
<1>3. ASSUME NEW i \in 1 .. Len(last), i > Len(last) - (n + 1)
      PROVE  last[i].text = "plain"
  <2> DEFINE j == i + shift
  <2>1. /\ Len(last) \in Nat /\ Len(grown) \in Nat /\ Len(s) \in Nat
        /\ j \in 1 .. Len(s) + 1 /\ j > Len(s) - n
    BY <1>1, <1>2, <1>3
  <2>2. last[i] = grown[j]
    BY <1>2
  <2> HIDE DEF j
  <2>3. CASE j = Len(s) + 1
    BY <1>1, <2>2, <2>3
  <2>4. CASE j # Len(s) + 1
    <3>1. j \in 1 .. Len(s)
      BY <2>1, <2>4
    <3>2. s[j].text = "plain"
      BY <2>1, <3>1 DEF PlainEnd
    <3> QED
      BY <1>1, <2>2, <3>1, <3>2
  <2> QED
    BY <2>3, <2>4
<1> QED
  BY <1>3 DEF PlainEnd, last, grown

(* A plain end has plain ends. *)
LEMMA PlainShrinks ==
  ASSUME NEW s \in Seq(Entry), NEW m \in Int, NEW n \in Int, m <= n, PlainEnd(s, n)
  PROVE  PlainEnd(s, m)
BY DEF PlainEnd

(* What the host's writing does to the counts. *)
LEMMA WritesGrow ==
  ASSUME transcript \in Seq(Entry),
         NEW by \in {"user", "assistant", "hook"}, NEW text \in {"hedged", "plain"}, Writes(by, text)
  PROVE  /\ transcript' \in Seq(Entry)
         /\ text = "hedged" => nags' = 0
         /\ text = "plain" =>
              nags' = nags /\ \A n \in Nat : PlainEnd(transcript, n) => PlainEnd(transcript', n + 1)
<1> DEFINE entry == [by |-> by, text |-> text]
           most == Window + 2
<1>1. entry \in Entry /\ entry.text = text
  BY DEF Entry
<1>2. most \in Nat \ {0}
  BY WindowAssumption
<1>3. transcript' = Recent(Append(transcript, entry), most)
  BY DEF Writes
<1> HIDE DEF entry, most
<1>4. Append(transcript, entry) \in Seq(Entry)
  BY <1>1
<1>5. transcript' \in Seq(Entry)
  BY <1>2, <1>3, <1>4, RecentIs
<1>6. ASSUME text = "plain", NEW n \in Nat, PlainEnd(transcript, n)
      PROVE  PlainEnd(transcript', n + 1)
  BY <1>1, <1>2, <1>3, <1>6, PlainGrows
<1>7. text = "hedged" => nags' = 0
  BY DEF Writes
<1>8. text = "plain" => nags' = nags
  <2>1. "plain" # "hedged"
    OBVIOUS
  <2> QED
    BY <2>1, Zenon DEF Writes
<1> QED
  BY <1>5, <1>6, <1>7, <1>8

(* A Stop hook sees a hedge only where the plain end is shorter than the window. *)
LEMMA HedgeInWindow ==
  ASSUME transcript \in Seq(Entry), NEW n \in Nat, PlainEnd(transcript, n),
         "hedged" \in TranscriptTail(transcript)
  PROVE  n < Window
<1>1. PICK k \in 0 .. Window : TextOf(Recent(transcript, k)) = "hedged"
  <2>1. "hedged" # ""
    OBVIOUS
  <2> QED
    BY <2>1, Zenon DEF TranscriptTail
<1> DEFINE tail == Recent(transcript, k)
<1>2. k \in Nat \ {0} /\ k <= Window
  <2>1. ASSUME k = 0 PROVE FALSE
    <3>1. Recent(transcript, 0) = <<>>
      <4>1. Len(transcript) \in Nat
        OBVIOUS
      <4>2. CASE Len(transcript) > 0
        <5>1. Recent(transcript, 0) = SubSeq(transcript, Len(transcript) + 1, Len(transcript))
          BY <4>1, <4>2 DEF Recent
        <5>2. SubSeq(transcript, Len(transcript) + 1, Len(transcript)) = <<>>
          BY <4>1
        <5> QED
          BY <5>1, <5>2
      <4>3. CASE ~(Len(transcript) > 0)
        <5>1. Len(transcript) = 0
          BY <4>1, <4>3
        <5>2. Recent(transcript, 0) = SubSeq(transcript, 1, Len(transcript))
          BY <4>3 DEF Recent
        <5>3. SubSeq(transcript, 1, Len(transcript)) = <<>>
          BY <5>1
        <5> QED
          BY <5>2, <5>3
      <4> QED
        BY <4>2, <4>3
    <3>2. TextOf(<<>>) = "plain"
      BY DEF TextOf
    <3>3. "plain" # "hedged"
      OBVIOUS
    <3> QED
      BY <1>1, <2>1, <3>1, <3>2, <3>3, Zenon
  <2> QED
    BY <2>1, WindowAssumption
<1>3. /\ tail \in Seq(Entry) /\ Len(tail) <= Len(transcript) /\ Len(tail) <= k
      /\ \A i \in 1 .. Len(tail) : tail[i] = transcript[i + (Len(transcript) - Len(tail))]
  BY <1>2, RecentIs
<1> HIDE DEF tail
<1>4. PICK i \in DOMAIN tail : tail[i].text = "hedged"
  <2>1. "plain" # "hedged"
    OBVIOUS
  <2>2. TextOf(tail) = "hedged"
    BY <1>1 DEF tail
  <2> QED
    BY <2>1, <2>2, Zenon DEF TextOf
<1> DEFINE j == i + (Len(transcript) - Len(tail))
<1>5. /\ i \in 1 .. Len(tail) /\ Len(tail) \in Nat /\ Len(transcript) \in Nat
      /\ j \in 1 .. Len(transcript) /\ j > Len(transcript) - k
  BY <1>3
<1>6. transcript[j].text = "hedged"
  BY <1>3, <1>4, <1>5
<1> HIDE DEF j
<1>7. ~(j > Len(transcript) - n)
  <2>1. "plain" # "hedged"
    OBVIOUS
  <2> QED
    BY <1>5, <1>6, <2>1, Zenon DEF PlainEnd
<1> QED
  BY <1>2, <1>5, <1>7, WindowAssumption

(* Halves of the window. *)
LEMMA HalfIs ==
  /\ Window \div 2 \in Nat
  /\ \A n \in Nat : 2 * n <= Window => n <= Window \div 2
BY WindowAssumption

(* Initially nobody has been nudged. *)
LEMMA NagInit ==
  ASSUME M = HedgeVerify, CInit
  PROVE  NagInv
<1>1. ~Armed
  <2>1. record = Rec(50, "")
    BY Watching DEF CInit, Init, Fresh, Rec, Pend
  <2>2. record.vars["pending"] = ""
    BY <2>1 DEF Rec, Pend
  <2> QED
    BY <2>2, Zenon DEF Armed
<1>2. transcript = <<>> /\ nags = 0 /\ owed = {}
  BY DEF CInit, Init
<1>3. transcript \in Seq(Entry) /\ nags \in Nat /\ ~(nags > 0)
  BY <1>2
<1>4. ~NudgeOwed
  BY <1>2, Zenon DEF NudgeOwed
<1>5. nags <= Window \div 2 + 1
  BY <1>2, HalfIs
<1> QED
  BY <1>1, <1>3, <1>4, <1>5, Zenon DEF NagInv

(* A step that tells nothing and hedges nothing keeps the invariant: *)
(* where the transcript stays and no nudge is newly pending, ...      *)
LEMMA NagQuiet ==
  ASSUME NagInv, transcript' = transcript, nags' = nags, Since' <= Since,
         Armed' => Armed, ~NudgeOwed'
  PROVE  NagInv'
<1>1. /\ transcript \in Seq(Entry) /\ nags \in Nat /\ nags <= Window \div 2 + 1
      /\ nags > 0 => PlainEnd(transcript, 2 * (nags - 1) + Since)
      /\ Armed => nags <= Window \div 2
  BY DEF NagInv
<1>2. Since \in Int /\ Since' \in Int
  BY DEF Since
<1>3. nags > 0 => PlainEnd(transcript, 2 * (nags - 1) + Since')
  <2>1. SUFFICES ASSUME nags > 0 PROVE PlainEnd(transcript, 2 * (nags - 1) + Since')
    OBVIOUS
  <2> DEFINE m == 2 * (nags - 1) + Since'
             n == 2 * (nags - 1) + Since
  <2>2. m \in Int /\ n \in Int /\ m <= n
    <3>1. \A a, b \in Int, c \in Nat :
            a <= b => /\ 2 * (c - 1) + a \in Int /\ 2 * (c - 1) + b \in Int
                      /\ 2 * (c - 1) + a <= 2 * (c - 1) + b
      OBVIOUS
    <3> QED
      BY <1>1, <1>2, <3>1, Zenon
  <2>3. PlainEnd(transcript, n)
    BY <1>1, <2>1
  <2> HIDE DEF m, n
  <2>4. PlainEnd(transcript, m)
    BY <1>1, <2>2, <2>3, PlainShrinks
  <2> QED
    BY <2>4 DEF m
<1>4. nags' > 0 => PlainEnd(transcript', 2 * (nags' - 1) + Since')
  BY <1>3
<1> QED
  BY <1>1, <1>4, Zenon DEF NagInv

(* ... and where an entry is written that only lengthens what was said. *)
LEMMA NagSays ==
  ASSUME NagInv, NEW by \in {"user", "assistant", "hook"}, NEW text \in {"hedged", "plain"},
         Writes(by, text), Since' = Since + 1, Armed' => Armed, ~NudgeOwed'
  PROVE  NagInv'
<1>1. /\ transcript \in Seq(Entry) /\ nags \in Nat /\ nags <= Window \div 2 + 1
      /\ nags > 0 => PlainEnd(transcript, 2 * (nags - 1) + Since)
      /\ Armed => nags <= Window \div 2
  BY DEF NagInv
<1>2. Since \in Nat
  BY DEF Since
<1>3. /\ transcript' \in Seq(Entry)
      /\ text = "hedged" => nags' = 0
      /\ text = "plain" =>
           nags' = nags /\ \A n \in Nat : PlainEnd(transcript, n) => PlainEnd(transcript', n + 1)
  BY <1>1, WritesGrow, Zenon
<1>4. CASE text = "hedged"
  <2>1. nags' = 0
    BY <1>3, <1>4, Zenon
  <2>2. /\ nags' \in Nat /\ ~(nags' > 0)
        /\ nags' <= Window \div 2 /\ nags' <= Window \div 2 + 1
    BY <2>1, HalfIs
  <2> QED
    BY <1>3, <2>2, Zenon DEF NagInv
<1>5. CASE text = "plain"
  <2>1. nags' = nags
    BY <1>3, <1>5, Zenon
  <2>2. nags' > 0 => PlainEnd(transcript', 2 * (nags' - 1) + Since')
    <3>1. SUFFICES ASSUME nags > 0 PROVE PlainEnd(transcript', 2 * (nags - 1) + Since')
      BY <2>1
    <3> DEFINE n == 2 * (nags - 1) + Since
    <3>2. n \in Nat /\ 2 * (nags - 1) + Since' = n + 1
      BY <1>1, <1>2, <3>1
    <3>3. PlainEnd(transcript, n)
      BY <1>1, <3>1
    <3> HIDE DEF n
    <3>4. PlainEnd(transcript', n + 1)
      BY <1>3, <1>5, <3>2, <3>3, Zenon
    <3> QED
      BY <3>2, <3>4, Zenon
  <2> QED
    BY <1>1, <1>3, <2>1, <2>2, Zenon DEF NagInv
<1> QED
  BY <1>4, <1>5

(* Every step of the conversation keeps the count of nudges. *)
LEMMA NagStep ==
  ASSUME M = HedgeVerify, RecordOK, NagInv, [CNext]_all
  PROVE  NagInv'
<1>1. /\ transcript \in Seq(Entry) /\ nags \in Nat /\ nags <= Window \div 2 + 1
      /\ nags > 0 => PlainEnd(transcript, 2 * (nags - 1) + Since)
      /\ Armed \/ NudgeOwed => nags <= Window \div 2
      /\ NudgeOwed => turn = "assistant" /\ ~Armed /\ PlainEnd(transcript, 2 * nags)
  BY Zenon DEF NagInv
<1>2. record' = record => (Armed' <=> Armed)
  BY DEF Armed
<1>3. owed' = {} => ~NudgeOwed'
  BY Zenon DEF NudgeOwed
<1>4. CASE Prompt
  <2>1. PICK text \in {"hedged", "plain"} : Writes("user", text)
    BY <1>4 DEF Prompt
  <2>2. Since' = Since + 1
    BY <1>4 DEF Prompt, Since
  <2>3. record' = record /\ owed' = {}
    BY <1>4 DEF Prompt, vars
  <2> QED
    BY <1>2, <1>3, <2>1, <2>2, <2>3, NagSays
<1>5. CASE Reply
  <2>1. PICK text \in {"hedged", "plain"} : Writes("assistant", text)
    BY <1>5 DEF Reply
  <2>2. Since' = Since + 1
    BY <1>5 DEF Reply, Since
  <2>3. record' = record /\ owed' = {}
    BY <1>5 DEF Reply, vars
  <2> QED
    BY <1>2, <1>3, <2>1, <2>2, <2>3, NagSays
<1>6. CASE PromptHook
  <2>1. /\ turn = "prompted" /\ turn' = "assistant" /\ transcript' = transcript /\ nags' = nags
        /\ Step(On("UserPromptSubmit"))
    BY <1>6 DEF PromptHook
  <2>2. Since = 2 /\ Since' = 0
    BY <2>1 DEF Since
  <2>3. PICK o : /\ owed' = {o}
                 /\ \/ record' = record /\ ~Nudge(o.answer)
                    \/ Armed /\ record.fuel # 0 /\ record' = Rec(record.fuel - 1, "")
    BY <2>1, AtPrompt, Zenon
  <2>4. CASE record' = record /\ ~Nudge(o.answer)
    <3>1. ~NudgeOwed'
      BY <2>3, <2>4, Zenon DEF NudgeOwed
    <3>2. Since' <= Since
      BY <2>2
    <3> QED
      BY <1>2, <2>1, <2>4, <3>1, <3>2, NagQuiet
  <2>5. CASE Armed /\ record.fuel # 0 /\ record' = Rec(record.fuel - 1, "")
    <3>1. ~Armed' /\ nags <= Window \div 2
      BY <1>1, <2>5, RecordKept, Zenon
    <3>2. PlainEnd(transcript, 2 * nags)
      <4>1. CASE nags = 0
        BY <1>1, <4>1 DEF PlainEnd
      <4>2. CASE nags # 0
        <5>1. nags > 0 /\ 2 * (nags - 1) + Since = 2 * nags
          BY <1>1, <2>2, <4>2
        <5> QED
          BY <1>1, <5>1, Zenon
      <4> QED
        BY <4>1, <4>2
    <3>3. nags > 0 => PlainEnd(transcript, 2 * (nags - 1) + Since')
      <4> DEFINE m == 2 * (nags - 1) + Since'
      <4>1. m \in Int /\ 2 * nags \in Int /\ m <= 2 * nags
        BY <1>1, <2>2
      <4> HIDE DEF m
      <4>2. PlainEnd(transcript, m)
        BY <1>1, <3>2, <4>1, PlainShrinks
      <4> QED
        BY <4>2 DEF m
    <3> QED
      BY <1>1, <2>1, <3>1, <3>2, <3>3, Zenon DEF NagInv
  <2> QED
    BY <2>3, <2>4, <2>5
<1>7. CASE StopHook
  <2>1. PICK text \in TranscriptTail(transcript) : Step(After(text))
    BY <1>7, Zenon DEF StopHook
  <2>2. turn = "stopped" /\ turn' = "user" /\ transcript' = transcript /\ nags' = nags
    BY <1>7 DEF StopHook
  <2>3. Since = 1 /\ Since' = 1
    BY <2>2 DEF Since
  <2>4. PICK o : /\ owed' = {o} /\ ~Nudge(o.answer)
                 /\ record' = record \/ text = "hedged"
    BY <2>1, AtStop, Zenon
  <2>5. ~NudgeOwed'
    BY <2>4, Zenon DEF NudgeOwed
  <2>6. CASE record' = record
    <3>1. Since' <= Since
      BY <2>3
    <3> QED
      BY <1>2, <2>2, <2>5, <2>6, <3>1, NagQuiet
  <2>7. CASE text = "hedged"
    <3>1. nags <= Window \div 2
      <4>1. CASE nags = 0
        BY <4>1, HalfIs
      <4>2. CASE nags # 0
        <5> DEFINE n == 2 * (nags - 1) + Since
        <5>1. nags > 0 /\ n \in Nat
          BY <1>1, <2>3, <4>2
        <5>2. PlainEnd(transcript, n)
          BY <1>1, <5>1
        <5>3. "hedged" \in TranscriptTail(transcript)
          BY <2>1, <2>7
        <5> HIDE DEF n
        <5>4. n < Window
          BY <1>1, <5>1, <5>2, <5>3, HedgeInWindow
        <5>5. 2 * nags <= Window
          BY <1>1, <2>3, <5>4, WindowAssumption DEF n
        <5> QED
          BY <1>1, <5>5, HalfIs
      <4> QED
        BY <4>1, <4>2
    <3>2. nags > 0 => PlainEnd(transcript, 2 * (nags - 1) + Since')
      <4>1. Since' = Since
        BY <2>3
      <4> QED
        BY <1>1, <4>1, Zenon
    <3> QED
      BY <1>1, <2>2, <2>5, <3>1, <3>2, Zenon DEF NagInv
  <2> QED
    BY <2>4, <2>6, <2>7
<1>8. CASE HookDies
  <2>1. /\ turn \in {"prompted", "stopped"} /\ turn' = IF turn = "prompted" THEN "assistant" ELSE "user"
        /\ transcript' = transcript /\ nags' = nags /\ record' = record /\ owed' = owed
    BY <1>8 DEF HookDies, vars
  <2>2. Since' <= Since
    BY <2>1 DEF Since
  <2>3. ~NudgeOwed'
    <3>1. turn # "assistant"
      BY <2>1
    <3> QED
      BY <1>1, <2>1, <3>1, Zenon DEF NudgeOwed
  <2> QED
    BY <1>2, <2>1, <2>2, <2>3, NagQuiet
<1>9. CASE Told
  <2>1. PICK o \in owed : said' = o.answer /\ owed' = {} /\ record' = record
    BY <1>9, Zenon DEF Told, Say
  <2>2. turn' = turn /\ Since' = Since
    BY <1>9 DEF Told, Since
  <2>3. Since \in Int /\ Since' <= Since
    BY <2>2 DEF Since
  <2>4. ~NudgeOwed'
    BY <1>3, <2>1
  <2>5. CASE ~Nudge(said')
    <3>1. transcript' = transcript /\ nags' = nags
      BY <1>9, <2>5, Zenon DEF Told
    <3> QED
      BY <1>2, <2>1, <2>3, <2>4, <3>1, NagQuiet
  <2>6. CASE Nudge(said')
    <3>1. turn = "assistant" /\ ~Armed /\ PlainEnd(transcript, 2 * nags) /\ nags <= Window \div 2
      <4>1. NudgeOwed
        BY <2>1, <2>6, Zenon DEF NudgeOwed
      <4> QED
        BY <1>1, <4>1, Zenon
    <3>2. ~Armed' /\ Since' = 0
      BY <1>2, <2>1, <2>2, <3>1 DEF Since
    <3>3. \/ transcript' = transcript /\ nags' = nags + 1
          \/ Writes("hook", "hedged")
      BY <1>9, <2>6, Zenon DEF Told
    <3>4. CASE transcript' = transcript /\ nags' = nags + 1
      <4>1. nags' \in Nat /\ nags' <= Window \div 2 + 1
        BY <1>1, <3>1, <3>4, HalfIs
      <4>2. 2 * (nags' - 1) + Since' = 2 * nags
        BY <1>1, <3>2, <3>4
      <4> QED
        BY <1>1, <2>4, <3>1, <3>2, <3>4, <4>1, <4>2, Zenon DEF NagInv
    <3>5. CASE Writes("hook", "hedged")
      <4>1. transcript' \in Seq(Entry) /\ nags' = 0
        BY <1>1, <3>5, WritesGrow
      <4>2. nags' \in Nat /\ ~(nags' > 0) /\ nags' <= Window \div 2 + 1
        BY <4>1, HalfIs
      <4> QED
        BY <2>4, <3>2, <4>1, <4>2, Zenon DEF NagInv
    <3> QED
      BY <3>3, <3>4, <3>5
  <2> QED
    BY <2>5, <2>6
<1>10. CASE Untold
  <2>1. record' = record /\ owed' = {} /\ transcript' = transcript /\ nags' = nags /\ turn' = turn
    BY <1>10 DEF Untold, Lose
  <2>2. Since \in Int /\ Since' = Since
    BY <2>1 DEF Since
  <2>3. Since' <= Since
    BY <2>2
  <2> QED
    BY <1>2, <1>3, <2>1, <2>3, NagQuiet
<1>11. CASE UNCHANGED all
  <2>1. record' = record /\ owed' = owed /\ transcript' = transcript /\ nags' = nags /\ turn' = turn
    BY <1>11 DEF all, vars, talk
  <2>2. Since' = Since /\ (NudgeOwed' <=> NudgeOwed) /\ (Armed' <=> Armed)
    BY <2>1 DEF Since, NudgeOwed, Armed
  <2> QED
    BY <1>1, <2>1, <2>2, Zenon DEF NagInv
<1> QED
  BY <1>4, <1>5, <1>6, <1>7, <1>8, <1>9, <1>10, <1>11, Zenon DEF CNext

(* However long the window, and whichever answers, hooks and nudges are     *)
(* lost, the nagging about a hedge ends once it has left the window.        *)
THEOREM NaggingEnds ==
  ASSUME M = HedgeVerify
  PROVE  CSpec => []NagsEnd
<1>1. CInit => SeenInv /\ NagInv
  BY SeenInit, NagInit
<1>2. SeenInv /\ NagInv /\ [CNext]_all => (SeenInv /\ NagInv)'
  <2>1. SeenInv => RecordOK
    BY DEF SeenInv
  <2> QED
    BY <2>1, SeenStep, NagStep
<1>3. NagInv => NagsEnd
  BY DEF NagInv, NagsEnd
<1> QED
  BY <1>1, <1>2, <1>3, PTL DEF CSpec
=============================================================================
