------------------------------- MODULE Checker -------------------------------
(***************************************************************************)
(* The static checker (check.Inspect), applied to one machine of a given   *)
(* set: the well-formedness errors, the depth-first walk over the states   *)
(* reachable from the initial one with what it concludes, and the errors   *)
(* and warnings of the single transitions.  A finding is the pair of its   *)
(* code and the name of the state it is about.                             *)
(*                                                                         *)
(* A machine is [fuel, initial, states, cells], as its author writes it:   *)
(* "states" is a list of [name, terminal, on], where names may repeat and  *)
(* targets may be undefined, and "cells" is the set of registered names.   *)
(***************************************************************************)
EXTENDS Language, Integers

CONSTANT Machines   \* the machines submitted

StateList == Seq([name : Strings, terminal : BOOLEAN, on : Seq(Transition)])
Machine   == [fuel : Int, initial : Strings, states : StateList, cells : SUBSET Strings]

ASSUME MachinesAssumption == Machines \subseteq Machine

VARIABLES
    machine,    \* the one being inspected
    phase,      \* how far Inspect has come
    stack,      \* the states the walk has still to visit
    seen,       \* the states it has visited
    errors,     \* the findings that forbid compilation
    warnings    \* those that do not

vars == <<machine, phase, stack, seen, errors, warnings>>

-----------------------------------------------------------------------------
(* Of states with the same name the last one counts. *)
Names(m)    == {m.states[i].name : i \in DOMAIN m.states}
StateOf(m, n) ==
    m.states[CHOOSE i \in DOMAIN m.states :
                /\ m.states[i].name = n
                /\ \A j \in DOMAIN m.states : m.states[j].name = n => j <= i]
Edges(m, n) == {StateOf(m, n).on[i] : i \in DOMAIN StateOf(m, n).on}

(* Where the edges of a state lead, as far as they lead anywhere. *)
Successors(m, n) == {t.to : t \in Edges(m, n)} \cap Names(m)

(* The transitions of the machine with the name of the state each belongs to. *)
Placed(m) ==
    UNION {{[at |-> m.states[i].name, edge |-> m.states[i].on[j]] : j \in DOMAIN m.states[i].on}
           : i \in DOMAIN m.states}

Findings(code, places) == {<<code, p>> : p \in places}

(* E-FUEL, E-DUP, E-INITIAL, E-TARGET, E-TERMINAL. *)
FormErrors(m) ==
    UNION {
      Findings("E-FUEL", IF m.fuel <= 0 THEN {""} ELSE {}),
      Findings("E-DUP", {m.states[i].name : i \in {k \in DOMAIN m.states :
          \E j \in DOMAIN m.states : j # k /\ m.states[j].name = m.states[k].name}}),
      Findings("E-INITIAL", {m.initial} \ Names(m)),
      Findings("E-TARGET", {p.at : p \in {q \in Placed(m) : q.edge.to \notin Names(m)}}),
      Findings("E-TERMINAL", {m.states[i].name : i \in {k \in DOMAIN m.states :
          m.states[k].terminal /\ m.states[k].on # <<>>}})}

(* W-SHADOW: an earlier transition of the same state on the same trigger has *)
(* no guard.                                                                 *)
ShadowWarnings(m) ==
    Findings("W-SHADOW", {m.states[i].name : i \in {k \in DOMAIN m.states :
        \E j, l \in DOMAIN m.states[k].on :
            /\ j < l
            /\ m.states[k].on[j].on = m.states[k].on[l].on
            /\ m.states[k].on[j].guard = Always}})

(* E-CELL and E-ORACLE for declared reads, of a guard or of a SetVar. *)
BadReads(m, reads) ==
    LET read == CellReads(reads)
    IN  {"E-CELL" : r \in {q \in read : q[2] \notin m.cells}} \cup
        {"E-ORACLE" : r \in {q \in read : q[3] \notin {"term", "wellformed", "safe"}}}

(* Faulty: what a SetVar reads is not looked at. *)
BadEffectLax(m, trigger, e) ==
    CASE e.kind = "Inject" -> IF trigger \in Injecting THEN {} ELSE {"E-INJECT"}
      [] e.kind = "Block"  -> IF trigger \in Gating THEN {} ELSE {"E-BLOCK"}
      [] e.kind = "Run"    -> IF e.name \in m.cells THEN {} ELSE {"E-CELL"}
      [] OTHER -> {}

(* E-INJECT, E-BLOCK, E-CELL and E-ORACLE for an effect. *)
BadEffect(m, trigger, e) ==
    CASE e.kind = "Inject" -> IF trigger \in Injecting THEN {} ELSE {"E-INJECT"}
      [] e.kind = "Block"  -> IF trigger \in Gating THEN {} ELSE {"E-BLOCK"}
      [] e.kind = "Run"    -> IF e.name \in m.cells THEN {} ELSE {"E-CELL"}
      [] e.kind = "SetVar" -> BadReads(m, e.reads)
      [] OTHER -> {}

EdgeErrors(m) ==
    UNION {{<<code, p.at>> :
                code \in BadReads(m, p.edge.guard.reads) \cup
                         UNION {BadEffect(m, p.edge.on, p.edge.do[j]) : j \in DOMAIN p.edge.do}}
           : p \in Placed(m)}

-----------------------------------------------------------------------------
Init ==
    /\ machine \in Machines
    /\ phase = "form"
    /\ stack = <<>>
    /\ seen = {}
    /\ errors = {}
    /\ warnings = {}

(* Without an initial state there is nothing to walk. *)
Form ==
    /\ phase = "form"
    /\ errors' = FormErrors(machine)
    /\ IF machine.initial \in Names(machine)
       THEN phase' = "walk" /\ stack' = <<machine.initial>>
       ELSE phase' = "edges" /\ UNCHANGED stack
    /\ UNCHANGED <<machine, seen, warnings>>

Top(s) == s[Len(s)]
Pop(s) == SubSeq(s, 1, Len(s) - 1)

(* Faulty: the state stays on the stack. *)
SkipKept ==
    /\ phase = "walk"
    /\ stack # <<>>
    /\ Top(stack) \in seen
    /\ UNCHANGED vars

(* A state taken off the stack is skipped if it was visited before. *)
Skip ==
    /\ phase = "walk"
    /\ stack # <<>>
    /\ Top(stack) \in seen
    /\ stack' = Pop(stack)
    /\ UNCHANGED <<machine, phase, seen, errors, warnings>>

(* Faulty: only the last edge of a state is followed. *)
TargetsLast(m, n) ==
    LET on == StateOf(m, n).on
    IN  IF on = <<>> \/ Top(on).to \notin Names(m) THEN <<>> ELSE <<Top(on).to>>

(* Otherwise its successors are put on the stack, in the order of its edges. *)
Targets(m, n) ==
    LET on == StateOf(m, n).on
        put[i \in 0 .. Len(on)] ==
            IF i = 0 THEN <<>>
            ELSE IF on[i].to \in Names(m) THEN Append(put[i - 1], on[i].to)
            ELSE put[i - 1]
    IN  put[Len(on)]

Visit ==
    /\ phase = "walk"
    /\ stack # <<>>
    /\ Top(stack) \notin seen
    /\ seen' = seen \cup {Top(stack)}
    /\ stack' = Pop(stack) \o Targets(machine, Top(stack))
    /\ UNCHANGED <<machine, phase, errors, warnings>>

(* Faulty: any terminal state will do, reachable or not. *)
ConcludeAnywhere ==
    /\ phase = "walk"
    /\ stack = <<>>
    /\ errors' = errors \cup Findings("E-ORPHAN", Names(machine) \ seen)
    /\ warnings' = Findings("W-HALT",
          IF \E n \in Names(machine) : StateOf(machine, n).terminal THEN {} ELSE {machine.initial})
    /\ phase' = "edges"
    /\ UNCHANGED <<machine, stack, seen>>

(* The walk is over: E-ORPHAN for what it has not seen, W-HALT if it has     *)
(* seen no terminal state.                                                   *)
Conclude ==
    /\ phase = "walk"
    /\ stack = <<>>
    /\ errors' = errors \cup Findings("E-ORPHAN", Names(machine) \ seen)
    /\ warnings' = Findings("W-HALT",
          IF \E n \in seen : StateOf(machine, n).terminal THEN {} ELSE {machine.initial})
    /\ phase' = "edges"
    /\ UNCHANGED <<machine, stack, seen>>

InspectEdges ==
    /\ phase = "edges"
    /\ warnings' = warnings \cup ShadowWarnings(machine)
    /\ errors' = errors \cup EdgeErrors(machine)
    /\ phase' = "done"
    /\ UNCHANGED <<machine, stack, seen>>

Next == Form \/ Skip \/ Visit \/ Conclude \/ InspectEdges

Spec == Init /\ [][Next]_vars

(* Inspect is a sequential function: it runs on until it returns. *)
FairSpec == Spec /\ WF_vars(Next)
-----------------------------------------------------------------------------
(* The states an edge path from the initial state leads to: those in every   *)
(* set of states that has the initial one and is closed under the edges.     *)
Closed(m, set) == \A n \in set : Successors(m, n) \subseteq set
Reachable(m) ==
    {n \in Names(m) : \A set \in SUBSET Names(m) :
                         m.initial \in set /\ Closed(m, set) => n \in set}

Walked == phase \in {"edges", "done"} /\ machine.initial \in Names(machine)

(* The walk reports as orphans exactly the states that no path of edges      *)
(* leads to, with cycles, self-loops, repeated names and dangling edges.     *)
OrphansExact ==
    Walked => {n \in Names(machine) : <<"E-ORPHAN", n>> \in errors}
                = Names(machine) \ Reachable(machine)

(* A machine without the W-HALT warning can reach a terminal state, and one  *)
(* with it cannot: only its fuel stops it.                                   *)
HaltWarned ==
    Walked => (<<"W-HALT", machine.initial>> \in warnings
                 <=> ~\E n \in Reachable(machine) : StateOf(machine, n).terminal)

(* What is declared on an edge, of its guard and of the SetVars it does. *)
Declared(edge) ==
    edge.guard.reads \cup
    UNION {edge.do[j].reads : j \in {k \in DOMAIN edge.do : edge.do[k].kind = "SetVar"}}

(* A machine reported without errors is one the runtime can run: it has fuel, *)
(* every name is that of one state, all of them can be reached, its           *)
(* transitions lead to states and out of none that is terminal, and what it   *)
(* injects or blocks its triggers can inject or block.  The cells it runs are *)
(* registered, and so are those it declares to read under a name of word      *)
(* characters, of which it reads no raw output; a cell that a guard looks at  *)
(* is registered, or the dispatcher reports it as undeclared.                 *)
Runnable(m) ==
    /\ m.fuel > 0
    /\ Cardinality(Names(m)) = Len(m.states)
    /\ Names(m) \subseteq Reachable(m)
    /\ \A p \in Placed(m) :
          /\ p.edge.to \in Names(m)
          /\ ~StateOf(m, p.at).terminal
          /\ \A cell, field \in Words :
                <<"cells", cell, field>> \in Declared(p.edge) => cell \in m.cells /\ field # "raw"
          /\ Touched(p.edge.guard) \subseteq m.cells \cup Undeclared(p.edge.guard)
          /\ \A j \in DOMAIN p.edge.do :
                LET e == p.edge.do[j]
                IN  /\ e.kind = "Inject" => p.edge.on \in Injecting
                    /\ e.kind = "Block" => p.edge.on \in Gating
                    /\ e.kind = "Run" => e.name \in m.cells

AcceptedIsRunnable == phase = "done" /\ errors = {} => Runnable(machine)

(* The walk ends on every machine, cyclic or not, and a report is returned. *)
Reports == <>(phase = "done")
=============================================================================
