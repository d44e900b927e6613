-------------------------------- MODULE Hook --------------------------------
(***************************************************************************)
(* The hook command at work on one session: each process of Procs runs     *)
(* RunHook for one event at a time.  It loads the session's record,        *)
(* dispatches the event (Dispatch under SafeDispatch), saves the record,   *)
(* delivers the messages and answers the hook protocol; it may be killed   *)
(* between any two of these steps, and other processes of the same session *)
(* may run in between when Procs has more than one member.                 *)
(***************************************************************************)
EXTENDS StateFile

CONSTANTS
    Events,     \* the hook events the session raises
    Faults      \* what can go wrong: a subset of Fault

Fault == {"crash", "guardpanic", "effectpanic", "disk", "inbox"}

ASSUME FaultsAssumption == Faults \subseteq Fault
ASSUME EventsAssumption == Events \subseteq Event
ASSUME RawsAssumption   == Raws \subseteq Strings /\ "" \in Raws

VARIABLES
    pc,         \* where each process is in RunHook
    event,      \* the event it was started for
    ctx,        \* its context: the record it loaded and works on
    cells,      \* the cell results of this dispatch
    at,         \* the transition being considered
    eff,        \* the effect to be performed next
    out,        \* the output of the dispatch so far
    inbox,      \* the messages delivered to other agents, in order
    said,       \* the last answer given to the hook protocol
    fired,      \* history: transitions fired, counted up to M.fuel
    refusals    \* history: actions refused, counted up to M.fuel + 1

procVars == <<pc, event, ctx, cells, at, eff, out>>
history  == <<fired, refusals>>
vars     == <<procVars, fileVars, inbox, said, history>>

Phase == {"idle", "load", "dispatch", "guard", "effects", "save", "write", "rename",
          "deliver", "answer"}

Message == [target : Strings, message : Strings]

TypeOK ==
    /\ FileTypeOK
    /\ pc \in [Procs -> Phase]
    /\ event \in [Procs -> Event]
    /\ ctx \in [Procs -> Persisted]
    /\ cells \in [Procs -> [DOMAIN M.cells -> CellResult]]
    /\ at \in [Procs -> Nat]
    /\ eff \in [Procs -> Nat]
    /\ out \in [Procs -> Output]
    /\ inbox \in Seq(Message)
    /\ said \in Answer
    /\ fired \in 0 .. M.fuel
    /\ refusals \in 0 .. M.fuel + 1

Nothing == On("SessionStart")
Silence == Rendered(NoOutput, "SessionStart")

Init ==
    /\ FileInit
    /\ pc = [p \in Procs |-> "idle"]
    /\ event = [p \in Procs |-> Nothing]
    /\ ctx = [p \in Procs |-> Fresh]
    /\ cells = [p \in Procs |-> NoCells]
    /\ at = [p \in Procs |-> 0]
    /\ eff = [p \in Procs |-> 0]
    /\ out = [p \in Procs |-> NoOutput]
    /\ inbox = <<>>
    /\ said = Silence
    /\ fired = 0
    /\ refusals = 0

-----------------------------------------------------------------------------
Goto(p, phase) == pc' = [pc EXCEPT ![p] = phase]
Up(n, max)     == IF n < max THEN n + 1 ELSE max

(* The transition under consideration. *)
Edges(p) == Lookup(ctx[p].state).on
Edge(p)  == Edges(p)[at[p]]

(* A process is started for an event: stdin is decoded. *)
Start(p, e) ==
    /\ pc[p] = "idle"
    /\ event' = [event EXCEPT ![p] = e]
    /\ Goto(p, "load")
    /\ UNCHANGED <<ctx, cells, at, eff, out, fileVars, inbox, said, history>>

(* LoadContext. *)
Load(p) ==
    /\ pc[p] = "load"
    /\ ctx' = [ctx EXCEPT ![p] = Loaded(stateFile)]
    /\ Goto(p, "dispatch")
    /\ UNCHANGED <<event, cells, at, eff, out, fileVars, inbox, said, history>>

(* The record cannot be reached: the session starts over. *)
LoadFails(p) ==
    /\ "disk" \in Faults
    /\ pc[p] = "load"
    /\ ctx' = [ctx EXCEPT ![p] = Fresh]
    /\ Goto(p, "dispatch")
    /\ UNCHANGED <<event, cells, at, eff, out, fileVars, inbox, said, history>>

-----------------------------------------------------------------------------
(* Dispatch. *)

(* A terminal state answers nothing. *)
TerminalState(p) ==
    /\ pc[p] = "dispatch"
    /\ Lookup(ctx[p].state).terminal
    /\ Goto(p, "save")
    /\ UNCHANGED <<event, ctx, cells, at, eff, out, fileVars, inbox, said, history>>

(* Out of fuel: never refuse again. *)
BudgetHalt(p) ==
    /\ pc[p] = "dispatch"
    /\ ~Lookup(ctx[p].state).terminal
    /\ ctx[p].fuel = 0
    /\ out' = [out EXCEPT ![p] = Exhausted(event[p].on)]
    /\ Goto(p, "save")
    /\ UNCHANGED <<event, ctx, cells, at, eff, fileVars, inbox, said, history>>

(* Faulty: the budget is never looked at. *)
ConsiderUnfuelled(p) ==
    /\ pc[p] = "dispatch"
    /\ ~Lookup(ctx[p].state).terminal
    /\ at' = [at EXCEPT ![p] = 1]
    /\ Goto(p, "guard")
    /\ UNCHANGED <<event, ctx, cells, eff, out, fileVars, inbox, said, history>>

(* Faulty: the first transition is skipped. *)
ConsiderSecond(p) ==
    /\ pc[p] = "dispatch"
    /\ ~Lookup(ctx[p].state).terminal
    /\ ctx[p].fuel > 0
    /\ at' = [at EXCEPT ![p] = 2]
    /\ Goto(p, "guard")
    /\ UNCHANGED <<event, ctx, cells, eff, out, fileVars, inbox, said, history>>

(* Otherwise the state's transitions are considered in declaration order. *)
Consider(p) ==
    /\ pc[p] = "dispatch"
    /\ ~Lookup(ctx[p].state).terminal
    /\ ctx[p].fuel > 0
    /\ at' = [at EXCEPT ![p] = 1]
    /\ Goto(p, "guard")
    /\ UNCHANGED <<event, ctx, cells, eff, out, fileVars, inbox, said, history>>

(* A transition on another trigger is passed over. *)
PassOver(p) ==
    /\ pc[p] = "guard"
    /\ at[p] \in DOMAIN Edges(p)
    /\ Edge(p).on # event[p].on
    /\ at' = [at EXCEPT ![p] = @ + 1]
    /\ UNCHANGED <<pc, event, ctx, cells, eff, out, fileVars, inbox, said, history>>

(* The guard of the transition on this trigger is up for evaluation. *)
AtGuard(p) ==
    /\ pc[p] = "guard"
    /\ at[p] \in DOMAIN Edges(p)
    /\ Edge(p).on = event[p].on

(* runCell: the cells the guard declares are run first, each once a dispatch. *)
RunCell(p, c, raw) ==
    /\ AtGuard(p)
    /\ c \in Declared(Edge(p).guard)
    /\ ~cells[p][c].ran
    /\ cells' = [cells EXCEPT ![p][c] = Check(c, raw)]
    /\ UNCHANGED <<pc, event, ctx, at, eff, out, fileVars, inbox, said, history>>

CellsRun(p) == \A c \in Declared(Edge(p).guard) : cells[p][c].ran

Linted(p) == [out EXCEPT ![p].lint = @ \cup Undeclared(Edge(p).guard)]

(* The guard holds: the effects of this transition, and of no other, follow. *)
Hold(p) ==
    /\ AtGuard(p)
    /\ CellsRun(p)
    /\ When(Edge(p).guard, event[p], ctx[p].vars, cells[p])
    /\ out' = Linted(p)
    /\ eff' = [eff EXCEPT ![p] = 1]
    /\ Goto(p, "effects")
    /\ UNCHANGED <<event, ctx, cells, at, fileVars, inbox, said, history>>

(* It does not hold: the next transition is considered. *)
Fail(p) ==
    /\ AtGuard(p)
    /\ CellsRun(p)
    /\ ~When(Edge(p).guard, event[p], ctx[p].vars, cells[p])
    /\ out' = Linted(p)
    /\ at' = [at EXCEPT ![p] = @ + 1]
    /\ UNCHANGED <<pc, event, ctx, cells, eff, fileVars, inbox, said, history>>

(* Faulty: the end of the transitions is missed by one. *)
NoMatchPastEnd(p) ==
    /\ pc[p] = "guard"
    /\ at[p] > Len(Edges(p)) + 1
    /\ Goto(p, "save")
    /\ UNCHANGED <<event, ctx, cells, at, eff, out, fileVars, inbox, said, history>>

(* Faulty: an event that fires nothing is charged all the same. *)
NoMatchCharged(p) ==
    /\ pc[p] = "guard"
    /\ at[p] > Len(Edges(p))
    /\ ctx' = [ctx EXCEPT ![p].fuel = @ - 1]
    /\ Goto(p, "save")
    /\ UNCHANGED <<event, cells, at, eff, out, fileVars, inbox, said, history>>

(* No transition matches: the event is a no-op. *)
NoMatch(p) ==
    /\ pc[p] = "guard"
    /\ at[p] > Len(Edges(p))
    /\ Goto(p, "save")
    /\ UNCHANGED <<event, ctx, cells, at, eff, out, fileVars, inbox, said, history>>

AtEffect(p) == pc[p] = "effects" /\ eff[p] \in DOMAIN Edge(p).do

(* Inject, Block, Emit and SetVar, and a Run whose cell has run already. *)
ApplyEffect(p) ==
    /\ AtEffect(p)
    /\ LET e == Edge(p).do[eff[p]]
       IN  /\ e.kind = "Run" => cells[p][e.name].ran
           /\ out' = [out EXCEPT ![p] = Perform(e, out[p], ctx[p].vars, cells[p])]
           /\ ctx' = [ctx EXCEPT ![p].vars = Remember(e, ctx[p].vars, cells[p])]
    /\ eff' = [eff EXCEPT ![p] = @ + 1]
    /\ UNCHANGED <<pc, event, cells, at, fileVars, inbox, said, history>>

(* A Run whose cell has not run yet asks the model. *)
RunEffect(p, raw) ==
    /\ AtEffect(p)
    /\ LET e == Edge(p).do[eff[p]]
       IN  /\ e.kind = "Run"
           /\ ~cells[p][e.name].ran
           /\ cells' = [cells EXCEPT ![p][e.name] = Check(e.name, raw)]
    /\ eff' = [eff EXCEPT ![p] = @ + 1]
    /\ UNCHANGED <<pc, event, ctx, at, out, fileVars, inbox, said, history>>

(* Faulty: a transition back to the same state costs nothing. *)
FireFree(p) ==
    /\ pc[p] = "effects"
    /\ eff[p] > Len(Edge(p).do)
    /\ ctx' = [ctx EXCEPT ![p].fuel = IF Edge(p).to = ctx[p].state THEN @ ELSE @ - 1,
                          ![p].state = Edge(p).to]
    /\ fired' = Up(fired, M.fuel)
    /\ Goto(p, "save")
    /\ UNCHANGED <<event, cells, at, eff, out, fileVars, inbox, said, refusals>>

(* All effects done: one unit of fuel, and on to the target state. *)
Fire(p) ==
    /\ pc[p] = "effects"
    /\ eff[p] > Len(Edge(p).do)
    /\ ctx' = [ctx EXCEPT ![p].fuel = @ - 1, ![p].state = Edge(p).to]
    /\ fired' = Up(fired, M.fuel)
    /\ Goto(p, "save")
    /\ UNCHANGED <<event, cells, at, eff, out, fileVars, inbox, said, refusals>>

(* Faulty: what was already output goes out. *)
PanicKeepsOutput(p) ==
    /\ \/ "guardpanic" \in Faults /\ AtGuard(p) /\ Edge(p).guard # Always
       \/ "effectpanic" \in Faults /\ AtEffect(p)
    /\ Goto(p, "save")
    /\ UNCHANGED <<event, ctx, cells, at, eff, out, fileVars, inbox, said, history>>

(* SafeDispatch: a panic in a guard or in the text of an effect, which are   *)
(* closures of the author's, discards the output; the context keeps what the *)
(* effects before it wrote.                                                  *)
Panic(p) ==
    /\ \/ "guardpanic" \in Faults /\ AtGuard(p) /\ Edge(p).guard # Always
       \/ "effectpanic" \in Faults /\ AtEffect(p)
    /\ out' = [out EXCEPT ![p] = NoOutput]
    /\ Goto(p, "save")
    /\ UNCHANGED <<event, ctx, cells, at, eff, fileVars, inbox, said, history>>

-----------------------------------------------------------------------------
(* SaveContext; its error is ignored by RunHook. *)

Open(p) ==
    /\ pc[p] = "save"
    /\ OpenTmp(p)
    /\ Goto(p, "write")
    /\ UNCHANGED <<event, ctx, cells, at, eff, out, inbox, said, history>>

Write(p) ==
    /\ pc[p] = "write"
    /\ WriteTmp(p, ctx[p])
    /\ Goto(p, "rename")
    /\ UNCHANGED <<event, ctx, cells, at, eff, out, inbox, said, history>>

(* Faulty: the answer does not wait for the save. *)
RenameForgotten(p) ==
    /\ pc[p] = "rename"
    /\ Goto(p, "deliver")
    /\ UNCHANGED <<event, ctx, cells, at, eff, out, fileVars, inbox, said, history>>

Rename(p) ==
    /\ pc[p] = "rename"
    /\ RenameTmp
    /\ Goto(p, "deliver")
    /\ UNCHANGED <<event, ctx, cells, at, eff, out, inbox, said, history>>

SaveFails(p) ==
    /\ "disk" \in Faults
    /\ pc[p] \in {"save", "write", "rename"}
    /\ WriteFails(p)
    /\ Goto(p, "deliver")
    /\ UNCHANGED <<event, ctx, cells, at, eff, out, inbox, said, history>>

-----------------------------------------------------------------------------
(* deliverInbox, Emit and the end of the process. *)

(* Faulty: the first message is delivered and the others are forgotten. *)
DeliverOne(p) ==
    /\ pc[p] = "deliver"
    /\ out[p].emits # <<>>
    /\ inbox' = Append(inbox, Head(out[p].emits))
    /\ out' = [out EXCEPT ![p].emits = <<>>]
    /\ UNCHANGED <<pc, event, ctx, cells, at, eff, fileVars, said, history>>

(* One message after the other, in the order of the effects ... *)
DeliverInbox(p) ==
    /\ pc[p] = "deliver"
    /\ out[p].emits # <<>>
    /\ inbox' = Append(inbox, Head(out[p].emits))
    /\ out' = [out EXCEPT ![p].emits = Tail(@)]
    /\ UNCHANGED <<pc, event, ctx, cells, at, eff, fileVars, said, history>>

(* ... and one that cannot be delivered is left out. *)
DeliverFails(p) ==
    /\ "inbox" \in Faults
    /\ pc[p] = "deliver"
    /\ out[p].emits # <<>>
    /\ out' = [out EXCEPT ![p].emits = Tail(@)]
    /\ UNCHANGED <<pc, event, ctx, cells, at, eff, fileVars, inbox, said, history>>

AllDelivered(p) ==
    /\ pc[p] = "deliver"
    /\ out[p].emits = <<>>
    /\ Goto(p, "answer")
    /\ UNCHANGED <<event, ctx, cells, at, eff, out, fileVars, inbox, said, history>>

(* A process that has ended keeps nothing. *)
Forget(p) ==
    /\ Goto(p, "idle")
    /\ event' = [event EXCEPT ![p] = Nothing]
    /\ ctx' = [ctx EXCEPT ![p] = Fresh]
    /\ cells' = [cells EXCEPT ![p] = NoCells]
    /\ at' = [at EXCEPT ![p] = 0]
    /\ eff' = [eff EXCEPT ![p] = 0]
    /\ out' = [out EXCEPT ![p] = NoOutput]

Reply(p) == Rendered(out[p], event[p].on)

EmitProtocol(p) ==
    /\ pc[p] = "answer"
    /\ said' = Reply(p)
    /\ refusals' = IF Reply(p).exit = 2 THEN Up(refusals, M.fuel + 1) ELSE refusals
    /\ Forget(p)
    /\ UNCHANGED <<fileVars, inbox, fired>>

(* The process is killed, or the machine goes down. *)
Crash(p) ==
    /\ "crash" \in Faults
    /\ pc[p] # "idle"
    /\ Close(p)
    /\ Forget(p)
    /\ UNCHANGED <<inbox, said, history>>

-----------------------------------------------------------------------------
Dispatching(p) ==
    \/ TerminalState(p)
    \/ BudgetHalt(p)
    \/ Consider(p)
    \/ PassOver(p)
    \/ \E c \in DOMAIN M.cells, raw \in Raws : RunCell(p, c, raw)
    \/ Hold(p)
    \/ Fail(p)
    \/ NoMatch(p)
    \/ ApplyEffect(p)
    \/ \E raw \in Raws : RunEffect(p, raw)
    \/ Fire(p)

(* The steps a running process takes of its own accord. *)
Proceed(p) ==
    \/ Load(p)
    \/ Dispatching(p)
    \/ Open(p)
    \/ Write(p)
    \/ Rename(p)
    \/ DeliverInbox(p)
    \/ AllDelivered(p)
    \/ EmitProtocol(p)

Disturbed(p) ==
    \/ LoadFails(p)
    \/ Panic(p)
    \/ SaveFails(p)
    \/ DeliverFails(p)
    \/ Crash(p)

Next ==
    \E p \in Procs :
        \/ \E e \in Events : Start(p, e)
        \/ Proceed(p)
        \/ Disturbed(p)

Spec == Init /\ [][Next]_vars

(* The operating system schedules every process, and a model call returns    *)
(* within its time limit, so a started hook proceeds; nothing obliges the    *)
(* session to raise another event, or a fault to happen.                     *)
Fairness == \A p \in Procs : WF_vars(Proceed(p))

FairSpec == Spec /\ Fairness
-----------------------------------------------------------------------------
(* Safety. *)

(* Fuel is not lost: every record, on disk or in the hands of a process,     *)
(* still holds the budget that no transition has spent.  A killed process,   *)
(* a torn save, a stale or a lost write may give budget back, never take it. *)
Covers(r) == r.fuel + fired >= M.fuel

NeverReleasedEarly ==
    /\ Covers(stateFile.record)
    /\ Covers(tmpFile.record)
    /\ \A p \in Procs : Covers(ctx[p])

(* A machine says that its budget is exhausted, and stops gating, only after *)
(* M.fuel transitions have really fired.                                     *)
HaltOnlyWhenSpent == \A p \in Procs : out[p].halt => fired = M.fuel

(* The budget bounds what the session has to endure: the actions refused so  *)
(* far are paid for by the record on disk, whatever the oracle answers.      *)
BudgetNeverOverdrawn == refusals + Loaded(stateFile).fuel <= M.fuel

(* The strings a machine may pass on: its author's constants and the terms   *)
(* of its cells' languages; never a completion outside the language.         *)
Constants ==
    {""} \cup UNION {{t.do[j].text.name : j \in {k \in DOMAIN t.do : t.do[k].text.from = "const"}}
                     : t \in UNION {{M.states[s].on[i] : i \in DOMAIN M.states[s].on}
                                     : s \in DOMAIN M.states}}
Terms ==
    UNION {{M.cells[c].grammar[raw].term : raw \in {w \in Raws : M.cells[c].grammar[w].ok}}
           : c \in DOMAIN M.cells}
Vetted == Constants \cup Terms \cup {"budget exhausted"}

(* No unvalidated oracle output reaches the memory, the session or another   *)
(* agent, not even by way of a var written in one event and read in another. *)
NoLaundering ==
    /\ \A k \in M.keys : Loaded(stateFile).vars[k] \in Vetted
    /\ \A i \in DOMAIN said.context : said.context[i] \in Vetted
    /\ \A i \in DOMAIN inbox : inbox[i].message \in Vetted

(* A term selects a transition only when it is in the language and safe.     *)
OnlySafeTermsGate ==
    [][\A p \in Procs : Hold(p) /\ Edge(p).guard.kind = "term"
                        => cells[p][Edge(p).guard.name].safe]_vars

(* A guard that judged a cell which never ran says so: no spelling of the     *)
(* cell's name, declared or not, makes a guard false, or under a negation     *)
(* true, without a lint for its author.                                      *)
NeverJudgedUnheard ==
    [][\A p \in Procs : (Hold(p) \/ Fail(p)) =>
          \A c \in Touched(Edge(p).guard) :
             ~CellOf(cells[p], c).ran => c \in out'[p].lint]_vars

(* A reader of the record finds no file or a whole one, at any moment.       *)
AtomicSave == stateFile.kind \in {"absent", "whole"}

-----------------------------------------------------------------------------
(* Liveness, under Fairness. *)

(* A hook that was started comes to its end: it never brings the session to  *)
(* a standstill.                                                             *)
EveryHookEnds == \A p \in Procs : (pc[p] # "idle") ~> (pc[p] = "idle")

(* Totality: from some point on no action is refused any more, so a loop     *)
(* that keeps itself going by refusing to stop comes to an end.              *)
Refuse(p) == EmitProtocol(p) /\ Reply(p).exit = 2
Totality  == <>[][\A p \in Procs : ~Refuse(p)]_vars

-----------------------------------------------------------------------------
(* One process at a time implements what the session is promised: the record *)
(* is the one on disk, and between the rename and the end of the process the *)
(* hook owes its messages and its answer.                                    *)
Telling == {p \in Procs : pc[p] \in {"deliver", "answer"}}

Promise == INSTANCE Session WITH
    Panics      <- {"guardpanic", "effectpanic"} \cap Faults,
    Misdelivers <- "inbox" \in Faults,
    record      <- Loaded(stateFile),
    owed        <- {[emits  |-> IF pc[p] = "deliver" THEN out[p].emits ELSE <<>>,
                     answer |-> Reply(p)] : p \in Telling}

KeepsPromise == Promise!Spec
=============================================================================
