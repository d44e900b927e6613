------------------------------ MODULE Session ------------------------------
(***************************************************************************)
(* What one machine promises one session, and what package sim runs: a     *)
(* hook event is answered in a single step from the record the previous    *)
(* event left, and the answer is told only once the step is recorded.      *)
(***************************************************************************)
EXTENDS Statechart

CONSTANTS
    Events,     \* the hook events the session raises
    Panics,     \* where the machine's closures may panic: "guardpanic", "effectpanic"
    Misdelivers \* whether a message may fail to be delivered

VARIABLES
    record,     \* state, fuel and vars between two events
    owed,       \* {} or the messages and the answer of the recorded step
    inbox,      \* the messages delivered to other agents, in order
    said        \* the last answer given to the hook protocol

vars == <<record, owed, inbox, said>>

Silence == [on |-> "SessionStart", exit |-> 0, context |-> <<>>, loud |-> FALSE]

Init ==
    /\ record = Fresh
    /\ owed = {}
    /\ inbox = <<>>
    /\ said = Silence

-----------------------------------------------------------------------------
(* The transitions of state s that event e can take, and the cells whose     *)
(* answers the guards up to the i-th of them depend on.                      *)
Candidates(s, e) == {i \in DOMAIN Lookup(s).on : Lookup(s).on[i].on = e.on}

Consulted(s, e, i) ==
    UNION {Declared(Lookup(s).on[j].guard) : j \in {k \in Candidates(s, e) : k <= i}}

(* The answers of the cells that state s may ask about event e. *)
Answers(s, e) ==
    [Consulted(s, e, Len(Lookup(s).on)) \cup
     UNION {{t.do[j].name : j \in {k \in DOMAIN t.do : t.do[k].kind = "Run"}}
            : t \in {Lookup(s).on[i] : i \in Candidates(s, e)}} -> Raws]

Asked(answers, asked) ==
    [c \in DOMAIN M.cells |-> IF c \in asked THEN Check(c, answers[c]) ELSE ZeroResult]

Holding(r, e, answers) ==
    {i \in Candidates(r.state, e) :
        When(Lookup(r.state).on[i].guard, e, r.vars,
             Asked(answers, Consulted(r.state, e, i)))}

(* What one effect makes of the vars, the cells and the output.               *)
OneEffect(eff, was, answers) ==
    [vars  |-> Remember(eff, was.vars, was.cells),
     cells |-> IF eff.kind = "Run" /\ ~was.cells[eff.name].ran
               THEN [was.cells EXCEPT ![eff.name] = Check(eff.name, answers[eff.name])]
               ELSE was.cells,
     out   |-> Perform(eff, was.out, was.vars, was.cells)]

(* The vars, cells and output after the first n effects of a transition. *)
Performed(do, n, memory, cells, answers) ==
    LET after[k \in 0 .. Len(do)] ==
            IF k = 0 THEN [vars |-> memory, cells |-> cells, out |-> NoOutput]
            ELSE OneEffect(do[k], after[k - 1], answers)
    IN  after[n]

First(set) == CHOOSE i \in set : \A j \in set : i <= j

(* What n effects of the first transition that holds come to. *)
Effected(r, e, answers, n) ==
    LET i == First(Holding(r, e, answers))
    IN  Performed(Lookup(r.state).on[i].do, n, r.vars,
                  Asked(answers, Consulted(r.state, e, i)), answers)

(* The record and the output a session owes for event e. *)
Outcome(r, e, answers) ==
    LET holding == Holding(r, e, answers)
        taken   == Lookup(r.state).on[First(holding)]
        done    == Effected(r, e, answers, Len(taken.do))
    IN  CASE Lookup(r.state).terminal -> [record |-> r, out |-> NoOutput]
          [] ~Lookup(r.state).terminal /\ r.fuel = 0 ->
                [record |-> r, out |-> Exhausted(e.on)]
          [] ~Lookup(r.state).terminal /\ r.fuel > 0 /\ holding = {} ->
                [record |-> r, out |-> NoOutput]
          [] OTHER ->
                [record |-> [state |-> taken.to, fuel |-> r.fuel - 1, vars |-> done.vars],
                 out |-> done.out]

-----------------------------------------------------------------------------
Owes(e, out) == owed' = {[emits |-> out.emits, answer |-> Rendered(out, e.on)]}

Step(e) ==
    /\ owed = {}
    /\ \E answers \in Answers(record.state, e) :
          LET step == Outcome(record, e, answers)
          IN  /\ record' = step.record
              /\ Owes(e, step.out)
    /\ UNCHANGED <<inbox, said>>

Evaluates(e) ==
    /\ owed = {}
    /\ ~Lookup(record.state).terminal
    /\ record.fuel > 0
    /\ Candidates(record.state, e) # {}

(* A panic in a guard makes the dispatch a no-op. *)
GuardPanic(e) ==
    /\ "guardpanic" \in Panics
    /\ Evaluates(e)
    /\ Owes(e, NoOutput)
    /\ UNCHANGED <<record, inbox, said>>

(* A panic in an effect too, but for the vars: what the effects before it    *)
(* wrote stays written, and nothing else of the transition happens.          *)
EffectPanic(e) ==
    /\ "effectpanic" \in Panics
    /\ Evaluates(e)
    /\ \E answers \in Answers(record.state, e) :
          LET holding == Holding(record, e, answers)
          IN  /\ holding # {}
              /\ \E n \in 1 .. Len(Lookup(record.state).on[First(holding)].do) :
                    record' = [record EXCEPT !.vars = Effected(record, e, answers, n - 1).vars]
    /\ Owes(e, NoOutput)
    /\ UNCHANGED <<inbox, said>>

(* Messages are delivered one by one, and one may fail to be. *)
Deliver ==
    \E o \in owed :
        /\ o.emits # <<>>
        /\ inbox' \in {Append(inbox, Head(o.emits))} \cup
                      (IF Misdelivers THEN {inbox} ELSE {})
        /\ owed' = {[o EXCEPT !.emits = Tail(@)]}
        /\ UNCHANGED <<record, said>>

Say ==
    \E o \in owed :
        /\ o.emits = <<>>
        /\ said' = o.answer
        /\ owed' = {}
        /\ UNCHANGED <<record, inbox>>

(* The hook may die before it has told all it owes; it is not told later. *)
Lose ==
    /\ owed # {}
    /\ owed' = {}
    /\ UNCHANGED <<record, inbox, said>>

Next ==
    \/ \E e \in Events : Step(e) \/ GuardPanic(e) \/ EffectPanic(e)
    \/ Deliver
    \/ Say
    \/ Lose

Spec == Init /\ [][Next]_vars
=============================================================================
