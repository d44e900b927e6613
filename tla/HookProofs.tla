----------------------------- MODULE HookProofs -----------------------------
(***************************************************************************)
(* Theorems about Hook, for every machine the checker accepts, any number  *)
(* of processes, any events and any of the faults: every variable keeps    *)
(* its type, no completion outside the language is passed on, and a guard  *)
(* that judged a cell nobody asked is always reported; no interleaving,    *)
(* crash or torn save makes a machine stop gating before its budget is     *)
(* really spent.  And of hooks that run one at a time on a disk that takes *)
(* every save: none refuses more often than the budget allows, and each    *)
(* keeps the promise of Session, to answer its event in one atomic step.   *)
(* Last, of deny-add-all: what it refuses, and what it lets pass.          *)
(***************************************************************************)
EXTENDS StandingGuard, Induction

-----------------------------------------------------------------------------
(* Types of the operators a step is built from. *)

(* Appending an element keeps the type of a sequence. *)
LEMMA AppendType ==
  ASSUME NEW X, NEW s \in Seq(X), NEW x \in X
  PROVE  Append(s, x) \in Seq(X)
OBVIOUS

(* A sequence of one element has the type of its element. *)
LEMMA SingletonType ==
  ASSUME NEW X, NEW x \in X
  PROVE  <<x>> \in Seq(X) /\ <<>> \in Seq(X)
OBVIOUS

(* Every state name leads to a state, the zero State for an unknown one.     *)
LEMMA LookupType == \A s : Lookup(s) \in State
<1>1. [terminal |-> FALSE, on |-> <<>>] \in State
  BY DEF State
<1> QED
  BY <1>1, MachineAssumption DEF MachineAssumption, Lookup

(* A session starts with a record of the right type. *)
LEMMA FreshType == Fresh \in Persisted
BY StringsAssumption, MachineAssumption, FuelAssumption
DEF StringsAssumption, MachineAssumption, FuelAssumption, Fresh, Persisted, Vars

(* Reading the record file gives a record, whatever the file holds. *)
LEMMA LoadedType ==
  ASSUME NEW file \in Contents
  PROVE  Loaded(file) \in Persisted
BY FreshType DEF Loaded, Contents

(* The four kinds of file contents are contents. *)
LEMMA ContentsType ==
  /\ Absent \in Contents
  /\ Empty \in Contents
  /\ Garbled \in Contents
  /\ \A r \in Persisted : Whole(r) \in Contents
BY FreshType DEF Absent, Empty, Garbled, Whole, Contents

(* Writing a record over contents leaves contents. *)
LEMMA OverwrittenType ==
  ASSUME NEW old \in Contents, NEW r \in Persisted
  PROVE  Overwritten(old, r) \subseteq Contents
BY ContentsType DEF Overwritten

(* No cell has run at first. *)
LEMMA NoCellsType == NoCells \in [DOMAIN M.cells -> CellResult]
BY StringsAssumption DEF StringsAssumption, NoCells, ZeroResult, CellResult

(* The oracle pipeline yields a cell result for every completion. *)
LEMMA CheckType ==
  ASSUME NEW c \in DOMAIN M.cells, NEW raw \in Raws
  PROVE  Check(c, raw) \in CellResult
<1> DEFINE parse == M.cells[c].grammar[raw]
           harmless == parse.term \in M.cells[c].safe
<1>1. parse \in [term : Strings, ok : BOOLEAN]
  BY MachineAssumption DEF MachineAssumption
<1>2. parse.term \in Strings /\ harmless \in BOOLEAN
  BY <1>1
<1> HIDE DEF harmless, parse
<1>3. [ran |-> TRUE, term |-> parse.term, wellFormed |-> TRUE, safe |-> harmless] \in CellResult
  BY <1>2 DEF CellResult
<1>4. [ZeroResult EXCEPT !.ran = TRUE] \in CellResult
  BY StringsAssumption DEF StringsAssumption, ZeroResult, CellResult
<1> QED
  BY <1>3, <1>4 DEF Check, parse, harmless

(* A text resolves to a string. *)
LEMMA ResolveType ==
  ASSUME NEW text \in Text, NEW memory \in Vars,
         NEW results \in [DOMAIN M.cells -> CellResult]
  PROVE  Resolve(text, memory, results) \in Strings
BY StringsAssumption DEF StringsAssumption, Resolve, Text, Vars, CellResult

(* An effect extends the output, and changes no var to anything but a string. *)
LEMMA PerformType ==
  ASSUME NEW e \in Effect, NEW o \in Output, NEW memory \in Vars,
         NEW results \in [DOMAIN M.cells -> CellResult]
  PROVE  Perform(e, o, memory, results) \in Output
<1> DEFINE text == Resolve(e.text, memory, results)
<1>1. text \in Strings
  BY ResolveType DEF Effect
<1> HIDE DEF text
<1>2. [o EXCEPT !.inject = Append(@, text)] \in Output
  <2> DEFINE extended == Append(o.inject, text)
  <2>1. extended \in Seq(Strings)
    BY <1>1, AppendType DEF Output
  <2> HIDE DEF extended
  <2>2. [o EXCEPT !.inject = extended] \in Output
    BY <2>1 DEF Output
  <2> QED
    BY <2>2 DEF extended
<1>3. [o EXCEPT !.block = {text}] \in Output
  BY <1>1 DEF Output
<1>4. [o EXCEPT !.emits = Append(@, [target |-> e.name, message |-> text])] \in Output
  <2> DEFINE message == [target |-> e.name, message |-> text]
             extended == Append(o.emits, message)
  <2>1. message \in [target : Strings, message : Strings]
    BY <1>1 DEF Effect
  <2>2. o.emits \in Seq([target : Strings, message : Strings])
    BY DEF Output
  <2> HIDE DEF message
  <2>3. extended \in Seq([target : Strings, message : Strings])
    BY <2>1, <2>2, AppendType
  <2> HIDE DEF extended
  <2>4. [o EXCEPT !.emits = extended] \in Output
    BY <2>3 DEF Output
  <2> QED
    BY <2>4 DEF extended, message
<1> QED
  BY <1>2, <1>3, <1>4 DEF Perform, text

(* What an effect leaves in the memory is a memory. *)
LEMMA RememberType ==
  ASSUME NEW e \in Effect, NEW memory \in Vars,
         NEW results \in [DOMAIN M.cells -> CellResult]
  PROVE  Remember(e, memory, results) \in Vars
<1>1. Resolve(e.text, memory, results) \in Strings
  BY ResolveType DEF Effect
<1> QED
  BY <1>1 DEF Remember, Vars

(* Outputs of the right type, and the answers they are rendered to. *)
LEMMA OutputType ==
  /\ NoOutput \in Output
  /\ \A t : Exhausted(t) \in Output
<1>1. NoOutput \in Output
  BY DEF NoOutput, Output
<1>2. ASSUME NEW t PROVE Exhausted(t) \in Output
  <2> DEFINE text == IF t \in Gating THEN <<"budget exhausted">> ELSE <<>>
  <2>1. text \in Seq(Strings)
    BY StringsAssumption, SingletonType DEF StringsAssumption
  <2> HIDE DEF text
  <2>2. [NoOutput EXCEPT !.halt = TRUE, !.inject = text] \in Output
    BY <1>1, <2>1 DEF Output
  <2> QED
    BY <2>2 DEF Exhausted, text
<1> QED
  BY <1>1, <1>2

(* An output is rendered to an answer of the protocol. *)
LEMMA RenderedType ==
  ASSUME NEW o \in Output, NEW t \in Trigger
  PROVE  Rendered(o, t) \in Answer
BY DEF Rendered, Answer, Output
-----------------------------------------------------------------------------
(* The type invariant needs to know two things of a dispatch: there is fuel  *)
(* while transitions are considered, and the effects performed are those of  *)
(* a transition of the current state.                                        *)

PhaseOK ==
    \A p \in Procs :
        /\ pc[p] \in {"guard", "effects"} => ctx[p].fuel > 0
        /\ pc[p] = "effects" => at[p] \in DOMAIN Edges(p)

TypeInv == TypeOK /\ PhaseOK

(* The transition whose effects are performed is a transition. *)
LEMMA EdgeType ==
  ASSUME NEW p \in Procs, at[p] \in DOMAIN Edges(p)
  PROVE  Edge(p) \in Transition
<1>1. Edges(p) \in Seq(Transition)
  BY LookupType DEF Edges, State
<1> QED
  BY <1>1 DEF Edge

(* A Run effect names a cell of the machine. *)
LEMMA RunNamesCell ==
  ASSUME NEW p \in Procs, PhaseOK, AtEffect(p), Edge(p).do[eff[p]].kind = "Run"
  PROVE  Edge(p).do[eff[p]].name \in DOMAIN M.cells
<1>1. Lookup(ctx[p].state) = M.states[ctx[p].state] /\ ctx[p].state \in DOMAIN M.states
  BY DEF PhaseOK, AtEffect, Edges, Lookup
<1>2. SoundTransition(Edge(p))
  BY <1>1, SoundAssumption DEF SoundAssumption, PhaseOK, AtEffect, Edge, Edges
<1> QED
  BY <1>2 DEF SoundTransition, AtEffect

(* The part of the type invariant a process takes with it when it ends. *)
ProcTypeOK ==
    /\ pc \in [Procs -> Phase]
    /\ event \in [Procs -> Event]
    /\ ctx \in [Procs -> Persisted]
    /\ cells \in [Procs -> [DOMAIN M.cells -> CellResult]]
    /\ at \in [Procs -> Nat]
    /\ eff \in [Procs -> Nat]
    /\ out \in [Procs -> Output]

(* Initially nothing has happened. *)
LEMMA TypeInit == Init => TypeInv
<1> SUFFICES ASSUME Init PROVE TypeInv
  OBVIOUS
<1> USE DEF Init
<1>1. FileTypeOK
  BY ContentsType DEF FileInit, FileTypeOK
<1>2. Nothing \in Event
  BY StringsAssumption DEF StringsAssumption, Nothing, On, Event, Trigger
<1>3. NoOutput \in Output
  BY OutputType
<1>4. said \in Answer
  BY RenderedType, OutputType DEF Silence, Trigger
<1>5. inbox \in Seq(Message)
  OBVIOUS
<1>6. fired \in 0 .. M.fuel /\ refusals \in 0 .. M.fuel + 1
  BY FuelAssumption DEF FuelAssumption
<1>7. TypeOK
  BY <1>1, <1>2, <1>3, <1>4, <1>5, <1>6, FreshType, NoCellsType DEF TypeOK, Phase
<1>8. PhaseOK
  BY DEF PhaseOK
<1> QED
  BY <1>7, <1>8 DEF TypeInv

(* Every step preserves it. *)
LEMMA TypeStep == TypeInv /\ [Next]_vars => TypeInv'
<1> SUFFICES ASSUME TypeInv, [Next]_vars PROVE TypeInv'
  OBVIOUS
<1> USE DEF TypeInv
<1>1. ASSUME UNCHANGED vars PROVE TypeInv'
  BY <1>1 DEF vars, procVars, fileVars, history, TypeOK, FileTypeOK, PhaseOK, Edges
<1>2. ASSUME NEW p \in Procs, NEW e \in Events, Start(p, e) PROVE TypeInv'
  <2>1. TypeOK'
    BY <1>2, EventsAssumption
    DEF EventsAssumption, Start, Goto, TypeOK, FileTypeOK, fileVars, history, Phase
  <2>2. PhaseOK'
    BY <1>2 DEF Start, Goto, PhaseOK, TypeOK, Edges
  <2> QED
    BY <2>1, <2>2
<1>3. ASSUME NEW p \in Procs, Load(p) PROVE TypeInv'
  <2>1. TypeOK'
    BY <1>3, LoadedType DEF Load, Goto, TypeOK, FileTypeOK, fileVars, history, Phase
  <2>2. PhaseOK'
    BY <1>3 DEF Load, Goto, PhaseOK, TypeOK, Edges, Persisted
  <2> QED
    BY <2>1, <2>2
<1>4. ASSUME NEW p \in Procs, LoadFails(p) PROVE TypeInv'
  <2>1. TypeOK'
    BY <1>4, FreshType DEF LoadFails, Goto, TypeOK, FileTypeOK, fileVars, history, Phase
  <2>2. PhaseOK'
    BY <1>4 DEF LoadFails, Goto, PhaseOK, TypeOK, Edges, Persisted
  <2> QED
    BY <2>1, <2>2
<1>5. ASSUME NEW p \in Procs, TerminalState(p) PROVE TypeInv'
  <2>1. TypeOK'
    BY <1>5 DEF TerminalState, Goto, TypeOK, FileTypeOK, fileVars, history, Phase
  <2>2. PhaseOK'
    BY <1>5 DEF TerminalState, Goto, PhaseOK, TypeOK, Edges, Persisted
  <2> QED
    BY <2>1, <2>2
<1>6. ASSUME NEW p \in Procs, BudgetHalt(p) PROVE TypeInv'
  <2>1. TypeOK'
    BY <1>6, OutputType DEF BudgetHalt, Goto, TypeOK, FileTypeOK, fileVars, history, Phase
  <2>2. PhaseOK'
    BY <1>6 DEF BudgetHalt, Goto, PhaseOK, TypeOK, Edges, Persisted
  <2> QED
    BY <2>1, <2>2
<1>7. ASSUME NEW p \in Procs, Consider(p) PROVE TypeInv'
  <2>1. TypeOK'
    BY <1>7 DEF Consider, Goto, TypeOK, FileTypeOK, fileVars, history, Phase
  <2>2. PhaseOK'
    BY <1>7 DEF Consider, Goto, PhaseOK, TypeOK, Edges, Persisted
  <2> QED
    BY <2>1, <2>2
<1>8. ASSUME NEW p \in Procs, PassOver(p) PROVE TypeInv'
  <2>1. TypeOK'
    BY <1>8 DEF PassOver, Goto, TypeOK, FileTypeOK, fileVars, history, Phase
  <2>2. PhaseOK'
    BY <1>8 DEF PassOver, Goto, PhaseOK, TypeOK, Edges, Persisted
  <2> QED
    BY <2>1, <2>2
<1>9. ASSUME NEW p \in Procs, NoMatch(p) PROVE TypeInv'
  <2>1. TypeOK'
    BY <1>9 DEF NoMatch, Goto, TypeOK, FileTypeOK, fileVars, history, Phase
  <2>2. PhaseOK'
    BY <1>9 DEF NoMatch, Goto, PhaseOK, TypeOK, Edges, Persisted
  <2> QED
    BY <2>1, <2>2
<1>10. ASSUME NEW p \in Procs, NEW c \in DOMAIN M.cells, NEW raw \in Raws, RunCell(p, c, raw)
       PROVE TypeInv'
  <2>1. Check(c, raw) \in CellResult
    BY CheckType
  <2>2. TypeOK'
    BY <1>10, <2>1 DEF RunCell, TypeOK, FileTypeOK, fileVars, history
  <2>3. PhaseOK'
    BY <1>10 DEF RunCell, PhaseOK, TypeOK, Edges
  <2> QED
    BY <2>2, <2>3
<1>11. ASSUME NEW p \in Procs, Hold(p) \/ Fail(p) PROVE TypeInv'
  <2>1. Undeclared(Edge(p).guard) \subseteq Strings
    BY <1>11, EdgeType
    DEF Hold, Fail, AtGuard, Transition, Guard, Undeclared, Touched
  <2>2. Linted(p) \in [Procs -> Output]
    BY <2>1 DEF Linted, TypeOK, Output
  <2> HIDE DEF Linted
  <2>3. CASE Hold(p)
    <3>1. TypeOK'
      BY <2>2, <2>3 DEF Hold, Goto, TypeOK, FileTypeOK, fileVars, history, Phase
    <3>2. PhaseOK'
      BY <2>3 DEF Hold, AtGuard, Goto, PhaseOK, TypeOK, Edges
    <3> QED
      BY <3>1, <3>2
  <2>4. CASE Fail(p)
    <3>1. TypeOK'
      BY <2>2, <2>4 DEF Fail, TypeOK, FileTypeOK, fileVars, history
    <3>2. PhaseOK'
      BY <2>4 DEF Fail, AtGuard, PhaseOK, TypeOK, Edges
    <3> QED
      BY <3>1, <3>2
  <2> QED
    BY <1>11, <2>3, <2>4
<1>12. ASSUME NEW p \in Procs, ApplyEffect(p) PROVE TypeInv'
  <2> DEFINE e == Edge(p).do[eff[p]]
             said2 == Perform(e, out[p], ctx[p].vars, cells[p])
             kept == Remember(e, ctx[p].vars, cells[p])
  <2>1. e \in Effect
    BY <1>12, EdgeType DEF ApplyEffect, AtEffect, PhaseOK, Transition
  <2>2. ctx[p].vars \in Vars /\ cells[p] \in [DOMAIN M.cells -> CellResult] /\ out[p] \in Output
    BY DEF TypeOK, Persisted
  <2> HIDE DEF e
  <2>3. said2 \in Output /\ kept \in Vars
    BY <2>1, <2>2, PerformType, RememberType
  <2>4. /\ pc[p] = "effects"
        /\ out' = [out EXCEPT ![p] = said2]
        /\ ctx' = [ctx EXCEPT ![p].vars = kept]
        /\ eff' = [eff EXCEPT ![p] = @ + 1]
        /\ UNCHANGED <<pc, event, cells, at, fileVars, inbox, said, history>>
    BY <1>12 DEF ApplyEffect, AtEffect, e
  <2> HIDE DEF said2, kept
  <2>5. ctx' \in [Procs -> Persisted]
    BY <2>3, <2>4 DEF TypeOK, Persisted
  <2>6. TypeOK'
    BY <2>3, <2>4, <2>5 DEF TypeOK, FileTypeOK, fileVars, history
  <2>7. PhaseOK'
    BY <2>4 DEF PhaseOK, TypeOK, Edges, Persisted
  <2> QED
    BY <2>6, <2>7
<1>13. ASSUME NEW p \in Procs, NEW raw \in Raws, RunEffect(p, raw) PROVE TypeInv'
  <2> DEFINE c == Edge(p).do[eff[p]].name
  <2>1. cells' = [cells EXCEPT ![p][c] = Check(c, raw)] /\ c \in DOMAIN M.cells
    BY <1>13, RunNamesCell DEF RunEffect
  <2>2. Check(c, raw) \in CellResult
    BY <2>1, CheckType
  <2> HIDE DEF c
  <2>3. cells' \in [Procs -> [DOMAIN M.cells -> CellResult]]
    BY <2>1, <2>2 DEF TypeOK
  <2>4. TypeOK'
    BY <1>13, <2>3 DEF RunEffect, TypeOK, FileTypeOK, fileVars, history
  <2>5. PhaseOK'
    BY <1>13 DEF RunEffect, PhaseOK, TypeOK, Edges
  <2> QED
    BY <2>4, <2>5
<1>14. ASSUME NEW p \in Procs, Fire(p) PROVE TypeInv'
  <2>1. Edge(p).to \in Strings
    BY <1>14, EdgeType DEF Fire, PhaseOK, Transition
  <2>2. ctx[p].fuel - 1 \in Nat
    BY <1>14 DEF Fire, PhaseOK, TypeOK, Persisted
  <2>3. fired' \in 0 .. M.fuel
    BY <1>14, FuelAssumption DEF Fire, Up, TypeOK, FuelAssumption
  <2>4. ctx' \in [Procs -> Persisted]
    BY <1>14, <2>1, <2>2 DEF Fire, TypeOK, Persisted
  <2>5. TypeOK'
    BY <1>14, <2>3, <2>4 DEF Fire, Goto, TypeOK, FileTypeOK, fileVars, Phase
  <2>6. PhaseOK'
    BY <1>14 DEF Fire, Goto, PhaseOK, TypeOK, Edges
  <2> QED
    BY <2>5, <2>6
<1>15. ASSUME NEW p \in Procs, Panic(p) PROVE TypeInv'
  <2>1. TypeOK'
    BY <1>15, OutputType DEF Panic, Goto, TypeOK, FileTypeOK, fileVars, history, Phase
  <2>2. PhaseOK'
    BY <1>15 DEF Panic, Goto, PhaseOK, TypeOK, Edges, Persisted
  <2> QED
    BY <2>1, <2>2
<1>16. ASSUME NEW p \in Procs, Open(p) PROVE TypeInv'
  <2>1. TypeOK'
    BY <1>16, ContentsType DEF Open, OpenTmp, Goto, TypeOK, FileTypeOK, fileVars, history, Phase
  <2>2. PhaseOK'
    BY <1>16 DEF Open, OpenTmp, Goto, PhaseOK, TypeOK, Edges, Persisted
  <2> QED
    BY <2>1, <2>2
<1>17. ASSUME NEW p \in Procs, Write(p) PROVE TypeInv'
  <2>1. ctx[p] \in Persisted
    BY DEF TypeOK
  <2>2. tmpFile' \in Contents /\ stateFile' \in Contents
    BY <1>17, <2>1, OverwrittenType DEF Write, WriteTmp, TypeOK, FileTypeOK
  <2>3. TypeOK'
    BY <1>17, <2>2 DEF Write, WriteTmp, Goto, TypeOK, FileTypeOK, history, Phase
  <2>4. PhaseOK'
    BY <1>17 DEF Write, Goto, PhaseOK, TypeOK, Edges
  <2> QED
    BY <2>3, <2>4
<1>18. ASSUME NEW p \in Procs, Rename(p) PROVE TypeInv'
  <2>1. TypeOK'
    BY <1>18, ContentsType DEF Rename, RenameTmp, Goto, TypeOK, FileTypeOK, fileVars, history, Phase, Moved
  <2>2. PhaseOK'
    BY <1>18 DEF Rename, RenameTmp, Goto, PhaseOK, TypeOK, Edges, Persisted
  <2> QED
    BY <2>1, <2>2
<1>19. ASSUME NEW p \in Procs, SaveFails(p) PROVE TypeInv'
  <2>1. TypeOK'
    BY <1>19, ContentsType DEF SaveFails, WriteFails, Goto, TypeOK, FileTypeOK, fileVars, history, Phase
  <2>2. PhaseOK'
    BY <1>19 DEF SaveFails, WriteFails, Goto, PhaseOK, TypeOK, Edges, Persisted
  <2> QED
    BY <2>1, <2>2
<1>20. ASSUME NEW p \in Procs, out[p].emits # <<>>, pc[p] = "deliver",
              out' = [out EXCEPT ![p].emits = Tail(@)],
              inbox' = inbox \/ inbox' = Append(inbox, Head(out[p].emits)),
              UNCHANGED <<pc, event, ctx, cells, at, eff, fileVars, said, history>>
       PROVE  TypeInv'
  <2>1. out[p].emits \in Seq(Message) /\ out[p] \in Output /\ out \in [Procs -> Output]
    BY DEF TypeOK, Output, Message
  <2>2. Head(out[p].emits) \in Message /\ Tail(out[p].emits) \in Seq(Message)
    BY <1>20, <2>1
  <2>9. inbox \in Seq(Message)
    BY DEF TypeOK
  <2>3. inbox' \in Seq(Message)
    BY <1>20, <2>2, <2>9, AppendType
  <2> DEFINE sent == [out[p] EXCEPT !.emits = Tail(@)]
  <2>4. sent \in Output
    BY <2>1, <2>2 DEF Output, Message
  <2>8. out' = [out EXCEPT ![p] = sent]
    BY <1>20, <2>1
  <2> HIDE DEF sent
  <2>5. out' \in [Procs -> Output]
    BY <2>1, <2>4, <2>8
  <2>6. TypeOK'
    BY <1>20, <2>3, <2>5 DEF TypeOK, FileTypeOK, fileVars, history
  <2>7. PhaseOK'
    BY <1>20 DEF PhaseOK, Edges
  <2> QED
    BY <2>6, <2>7
<1>24. ASSUME NEW p \in Procs, DeliverInbox(p) PROVE TypeInv'
  BY <1>20, <1>24 DEF DeliverInbox
<1>25. ASSUME NEW p \in Procs, DeliverFails(p) PROVE TypeInv'
  BY <1>20, <1>25 DEF DeliverFails
<1>26. ASSUME NEW p \in Procs, AllDelivered(p) PROVE TypeInv'
  <2>1. TypeOK'
    BY <1>26 DEF AllDelivered, Goto, TypeOK, FileTypeOK, fileVars, history, Phase
  <2>2. PhaseOK'
    BY <1>26 DEF AllDelivered, Goto, PhaseOK, TypeOK, Edges
  <2> QED
    BY <2>1, <2>2
<1>21. ASSUME NEW p \in Procs, Forget(p) PROVE PhaseOK' /\ ProcTypeOK'
  <2>1. Nothing \in Event
    BY StringsAssumption DEF StringsAssumption, Nothing, On, Event, Trigger
  <2>2. ProcTypeOK'
    BY <1>21, <2>1, FreshType, NoCellsType, OutputType
    DEF Forget, Goto, TypeOK, ProcTypeOK, Phase
  <2>3. PhaseOK'
    BY <1>21 DEF Forget, Goto, PhaseOK, TypeOK, Edges
  <2> QED
    BY <2>2, <2>3
<1>22. ASSUME NEW p \in Procs, EmitProtocol(p) PROVE TypeInv'
  <2>1. said' \in Answer
    BY <1>22, RenderedType DEF EmitProtocol, Reply, TypeOK, Event
  <2>2. refusals' \in 0 .. M.fuel + 1
    BY <1>22, FuelAssumption DEF EmitProtocol, Up, TypeOK, FuelAssumption
  <2> QED
    BY <1>21, <1>22, <2>1, <2>2
    DEF EmitProtocol, TypeOK, ProcTypeOK, FileTypeOK, fileVars
<1>23. ASSUME NEW p \in Procs, Crash(p) PROVE TypeInv'
  BY <1>21, <1>23 DEF Crash, Close, TypeOK, ProcTypeOK, FileTypeOK, history
<1> QED
  BY <1>1, <1>2, <1>3, <1>4, <1>5, <1>6, <1>7, <1>8, <1>9, <1>10, <1>11, <1>12, <1>13, <1>14, <1>15, <1>16, <1>17, <1>18, <1>19, <1>22, <1>23, <1>24, <1>25, <1>26
  DEF Next, Proceed, Disturbed, Dispatching

(* Type correctness: whatever the interleaving and the faults, every         *)
(* variable of the hook and its file keeps its type; in particular no        *)
(* record with negative fuel and no ill-formed answer ever appears.          *)
THEOREM TypeCorrect == Spec => []TypeOK
<1>1. Init => TypeInv
  BY TypeInit
<1>2. TypeInv /\ [Next]_vars => TypeInv'
  BY TypeStep
<1>3. TypeInv => TypeOK
  BY DEF TypeInv
<1> QED
  BY <1>1, <1>2, <1>3, PTL DEF Spec

-----------------------------------------------------------------------------
(* The words of the oracle, from the guard that asks to the memory that       *)
(* outlives the hook.                                                        *)

(* Outputs, messages and vars whose words are vetted. *)
VettedMessage == [target : Strings, message : Vetted]
VettedOutput  == {o \in Output : o.inject \in Seq(Vetted) /\ o.emits \in Seq(VettedMessage)}
VettedVars    == [M.keys -> Vetted]
VettedCells   == {cs \in [DOMAIN M.cells -> CellResult] : \A c \in DOMAIN M.cells : cs[c].term \in Vetted}

(* A record may be read by a later hook even if it is torn or stale by now,   *)
(* so every copy of the vars has to be vetted, and so have the cells a later  *)
(* effect may quote and the output that is not told yet.                     *)
VettedInv ==
    /\ TypeInv
    /\ stateFile.record.vars \in VettedVars
    /\ tmpFile.record.vars \in VettedVars
    /\ \A p \in Procs : ctx[p].vars \in VettedVars
    /\ \A p \in Procs : cells[p] \in VettedCells
    /\ \A p \in Procs : out[p] \in VettedOutput
    /\ said.context \in Seq(Vetted)
    /\ inbox \in Seq(VettedMessage)

-----------------------------------------------------------------------------
(* The words a step may bring in. *)

LEMMA EmptyVetted == "" \in Vetted /\ "budget exhausted" \in Vetted
BY DEF Vetted, Constants

(* The constant texts of the machine's effects are vetted. *)
LEMMA ConstantsVetted ==
  ASSUME NEW s \in DOMAIN M.states, NEW i \in DOMAIN M.states[s].on,
         NEW j \in DOMAIN M.states[s].on[i].do,
         M.states[s].on[i].do[j].text.from = "const"
  PROVE  M.states[s].on[i].do[j].text.name \in Vetted
<1> DEFINE edges(q) == {M.states[q].on[k] : k \in DOMAIN M.states[q].on}
           texts(t) == {t.do[k].text.name : k \in {l \in DOMAIN t.do : t.do[l].text.from = "const"}}
           all == UNION {edges(q) : q \in DOMAIN M.states}
<1>1. M.states[s].on[i] \in all
  OBVIOUS
<1>2. M.states[s].on[i].do[j].text.name \in texts(M.states[s].on[i])
  OBVIOUS
<1>3. Constants = {""} \cup UNION {texts(t) : t \in all}
  BY DEF Constants
<1> HIDE DEF texts, all
<1>4. M.states[s].on[i].do[j].text.name \in Constants
  BY <1>1, <1>2, <1>3
<1> QED
  BY <1>4 DEF Vetted

(* The term of a checked completion is one of the cell's language, or none. *)
LEMMA CheckVetted ==
  ASSUME NEW c \in DOMAIN M.cells, NEW raw \in Raws
  PROVE  Check(c, raw).term \in Vetted
<1> DEFINE grammar == M.cells[c].grammar
           terms(d) == {M.cells[d].grammar[w].term : w \in {v \in Raws : M.cells[d].grammar[v].ok}}
<1>1. CASE grammar[raw].ok
  <2>1. grammar[raw].term \in terms(c)
    BY <1>1
  <2>2. Terms = UNION {terms(d) : d \in DOMAIN M.cells}
    BY DEF Terms
  <2>3. Check(c, raw).term = grammar[raw].term
    BY <1>1 DEF Check
  <2> HIDE DEF terms
  <2> QED
    BY <2>1, <2>2, <2>3 DEF Vetted
<1>2. CASE ~grammar[raw].ok
  BY <1>2, EmptyVetted DEF Check, ZeroResult
<1> QED
  BY <1>1, <1>2

LEMMA NoCellsVetted == NoCells \in VettedCells
BY NoCellsType, EmptyVetted DEF NoCells, ZeroResult, VettedCells

LEMMA FreshVetted == Fresh.vars \in VettedVars
BY EmptyVetted DEF Fresh, VettedVars

(* A text of the machine resolves to a vetted string. *)
LEMMA ResolveVetted ==
  ASSUME NEW text \in Text, text.from = "const" => text.name \in Vetted,
         NEW memory \in VettedVars, NEW results \in VettedCells
  PROVE  Resolve(text, memory, results) \in Vetted
BY EmptyVetted DEF Resolve, Text, VettedVars, VettedCells

(* An effect quotes a vetted string or none. *)
LEMMA PerformVetted ==
  ASSUME NEW e \in Effect, NEW o \in VettedOutput, NEW memory, NEW results,
         Perform(e, o, memory, results) \in Output,
         Resolve(e.text, memory, results) \in Vetted
  PROVE  Perform(e, o, memory, results) \in VettedOutput
<1> DEFINE text == Resolve(e.text, memory, results)
           message == [target |-> e.name, message |-> text]
           injected == Append(o.inject, text)
           emitted == Append(o.emits, message)
           done == Perform(e, o, memory, results)
<1>1. injected \in Seq(Vetted)
  BY AppendType DEF VettedOutput
<1>2. message \in VettedMessage
  BY DEF VettedMessage, Effect
<1>3. emitted \in Seq(VettedMessage)
  <2> HIDE DEF message
  <2> QED
    BY <1>2, AppendType DEF VettedOutput
<1>4. o \in Output /\ o.inject \in Seq(Vetted) /\ o.emits \in Seq(VettedMessage)
  BY DEF VettedOutput
<1>5. done \in {[o EXCEPT !.inject = injected], [o EXCEPT !.block = {text}],
                [o EXCEPT !.emits = emitted], o}
  BY DEF Perform
<1> HIDE DEF text, injected, emitted, done, message
<1>6. done.inject \in {o.inject, injected} /\ done.emits \in {o.emits, emitted}
  BY <1>4, <1>5 DEF Output
<1>7. done.inject \in Seq(Vetted) /\ done.emits \in Seq(VettedMessage)
  BY <1>1, <1>3, <1>4, <1>6
<1>8. done \in Output
  BY DEF done
<1> QED
  BY <1>7, <1>8 DEF VettedOutput, done

LEMMA OutputVetted ==
  /\ NoOutput \in VettedOutput
  /\ \A t : Exhausted(t) \in VettedOutput
<1>1. NoOutput \in VettedOutput
  <2>1. NoOutput.inject = <<>> /\ NoOutput.emits = <<>>
    BY DEF NoOutput
  <2>2. NoOutput.inject \in Seq(Vetted) /\ NoOutput.emits \in Seq(VettedMessage)
    BY <2>1
  <2> QED
    BY <2>2, OutputType DEF VettedOutput
<1>2. ASSUME NEW t PROVE Exhausted(t) \in VettedOutput
  <2> DEFINE text == IF t \in Gating THEN <<"budget exhausted">> ELSE <<>>
  <2>1. text \in Seq(Vetted)
    BY EmptyVetted, SingletonType
  <2>2. Exhausted(t) = [NoOutput EXCEPT !.halt = TRUE, !.inject = text]
    BY DEF Exhausted
  <2> HIDE DEF text
  <2>3. NoOutput \in Output /\ NoOutput.emits \in Seq(VettedMessage)
    BY <1>1 DEF VettedOutput
  <2>4. Exhausted(t).inject = text /\ Exhausted(t).emits = NoOutput.emits
    BY <2>2, <2>3 DEF Output
  <2> QED
    BY <2>1, <2>3, <2>4, OutputType DEF VettedOutput
<1> QED
  BY <1>1, <1>2

-----------------------------------------------------------------------------
LEMMA VettedInit == Init => VettedInv
<1> SUFFICES ASSUME Init PROVE VettedInv
  OBVIOUS
<1>1. TypeInv
  BY TypeInit
<1>2. stateFile.record = Fresh /\ tmpFile.record = Fresh
  BY DEF Init, FileInit, Absent
<1>3. said.context \in Seq(Vetted)
  BY DEF Init, Silence, Rendered, NoOutput, Refused
<1> QED
  BY <1>1, <1>2, <1>3, FreshVetted, NoCellsVetted, OutputVetted DEF Init, VettedInv

(* A step is judged by its own process, the files and what it told. *)
LEMMA VettedFrame ==
  ASSUME VettedInv, TypeInv', NEW p \in Procs,
         \A q \in Procs \ {p} : ctx'[q] = ctx[q] /\ cells'[q] = cells[q] /\ out'[q] = out[q],
         ctx'[p].vars \in VettedVars, cells'[p] \in VettedCells, out'[p] \in VettedOutput,
         stateFile'.record.vars \in VettedVars, tmpFile'.record.vars \in VettedVars,
         said'.context \in Seq(Vetted), inbox' \in Seq(VettedMessage)
  PROVE  VettedInv'
BY DEF VettedInv

(* Most steps pass on nothing. *)
LEMMA VettedQuiet ==
  ASSUME VettedInv, TypeInv', UNCHANGED <<stateFile, tmpFile, said, inbox>>, NEW p \in Procs,
         \A q \in Procs \ {p} : ctx'[q] = ctx[q] /\ cells'[q] = cells[q] /\ out'[q] = out[q],
         ctx'[p].vars \in VettedVars, cells'[p] \in VettedCells, out'[p] \in VettedOutput
  PROVE  VettedInv'
BY VettedFrame DEF VettedInv

(* The effect about to be performed is an effect of the machine. *)
LEMMA EffectOfMachine ==
  ASSUME TypeInv, NEW p \in Procs, AtEffect(p)
  PROVE  LET e == Edge(p).do[eff[p]]
         IN  e \in Effect /\ (e.text.from = "const" => e.text.name \in Vetted)
<1> DEFINE s == ctx[p].state
           e == Edge(p).do[eff[p]]
<1>1. at[p] \in DOMAIN Edges(p)
  BY DEF AtEffect, TypeInv, PhaseOK
<1>2. e \in Effect
  BY <1>1, EdgeType DEF AtEffect, Transition
<1>3. Edges(p) = M.states[s].on /\ s \in DOMAIN M.states
  BY <1>1 DEF Edges, Lookup
<1>4. e.text.from = "const" => e.text.name \in Vetted
  BY <1>1, <1>3, ConstantsVetted DEF AtEffect, Edge
<1> QED
  BY <1>2, <1>4

LEMMA VettedStep == VettedInv /\ [Next]_vars => VettedInv'
<1> SUFFICES ASSUME VettedInv, [Next]_vars PROVE VettedInv'
  OBVIOUS
<1>1. TypeInv'
  BY TypeStep DEF VettedInv
<1>2. ASSUME NEW p \in Procs
      PROVE  /\ ctx[p].vars \in VettedVars /\ cells[p] \in VettedCells /\ out[p] \in VettedOutput
             /\ stateFile.record.vars \in VettedVars /\ tmpFile.record.vars \in VettedVars
             /\ ctx \in [Procs -> Persisted] /\ out \in [Procs -> Output]
             /\ cells \in [Procs -> [DOMAIN M.cells -> CellResult]]
             /\ stateFile \in Contents /\ tmpFile \in Contents
  BY DEF VettedInv, TypeInv, TypeOK, FileTypeOK
<1>3. ASSUME UNCHANGED vars PROVE VettedInv'
  BY <1>1, <1>3 DEF vars, procVars, fileVars, VettedInv
<1>4. ASSUME NEW p \in Procs, UNCHANGED <<ctx, cells, out, stateFile, tmpFile, said, inbox>>
      PROVE  VettedInv'
  BY <1>1, <1>4 DEF VettedInv
<1>5. ASSUME NEW p \in Procs,
             \/ \E e \in Events : Start(p, e)
             \/ TerminalState(p) \/ Consider(p) \/ PassOver(p) \/ NoMatch(p) \/ AllDelivered(p)
      PROVE  VettedInv'
  BY <1>4, <1>5
  DEF Start, TerminalState, Consider, PassOver, NoMatch, AllDelivered, fileVars
<1>6. ASSUME NEW p \in Procs, Load(p) \/ LoadFails(p) PROVE VettedInv'
  <2>1. Loaded(stateFile).vars \in VettedVars
    BY <1>2, FreshVetted DEF Loaded
  <2>2. /\ ctx' = [ctx EXCEPT ![p] = Loaded(stateFile)] \/ ctx' = [ctx EXCEPT ![p] = Fresh]
        /\ UNCHANGED <<cells, out, stateFile, tmpFile, said, inbox>>
    BY <1>6 DEF Load, LoadFails, fileVars
  <2>3. ctx'[p].vars \in VettedVars
    BY <1>2, <2>1, <2>2, FreshVetted
  <2> QED
    BY <1>1, <1>2, <2>2, <2>3, VettedQuiet
<1>7. ASSUME NEW p \in Procs, BudgetHalt(p) \/ Panic(p) PROVE VettedInv'
  <2>1. out'[p] \in VettedOutput
    BY <1>2, <1>7, OutputVetted DEF BudgetHalt, Panic
  <2>2. /\ \A q \in Procs \ {p} : out'[q] = out[q]
        /\ UNCHANGED <<ctx, cells, stateFile, tmpFile, said, inbox>>
    BY <1>2, <1>7 DEF BudgetHalt, Panic, fileVars
  <2> QED
    BY <1>1, <1>2, <2>1, <2>2, VettedQuiet
<1>8. ASSUME NEW p \in Procs, NEW c \in DOMAIN M.cells, NEW raw \in Raws,
             cells' = [cells EXCEPT ![p][c] = Check(c, raw)],
             UNCHANGED <<ctx, out, stateFile, tmpFile, said, inbox>>
      PROVE  VettedInv'
  <2> DEFINE answer == Check(c, raw)
  <2>1. answer.term \in Vetted /\ answer \in CellResult
    BY CheckVetted, CheckType
  <2> HIDE DEF answer
  <2>2. cells' = [cells EXCEPT ![p][c] = answer]
    BY <1>8 DEF answer
  <2>3. cells'[p] \in VettedCells
    BY <1>2, <2>1, <2>2 DEF VettedCells
  <2>4. \A q \in Procs \ {p} : cells'[q] = cells[q]
    BY <1>2, <2>2
  <2> QED
    BY <1>1, <1>2, <1>8, <2>3, <2>4, VettedQuiet
<1>9. ASSUME NEW p \in Procs, NEW c \in DOMAIN M.cells, NEW raw \in Raws, RunCell(p, c, raw)
      PROVE  VettedInv'
  BY <1>8, <1>9 DEF RunCell, fileVars
<1>10. ASSUME NEW p \in Procs, NEW raw \in Raws, RunEffect(p, raw) PROVE VettedInv'
  <2>1. Edge(p).do[eff[p]].name \in DOMAIN M.cells
    BY <1>10, RunNamesCell DEF RunEffect, VettedInv, TypeInv
  <2> QED
    BY <1>8, <1>10, <2>1 DEF RunEffect, fileVars
<1>11. ASSUME NEW p \in Procs, Hold(p) \/ Fail(p) PROVE VettedInv'
  <2>1. out' = Linted(p) /\ UNCHANGED <<ctx, cells, stateFile, tmpFile, said, inbox>>
    BY <1>11 DEF Hold, Fail, fileVars
  <2>2. out'[p].inject = out[p].inject /\ out'[p].emits = out[p].emits
    BY <1>2, <2>1 DEF Linted, Output
  <2>3. out'[p] \in VettedOutput
    BY <1>1, <1>2, <2>2 DEF VettedOutput, TypeInv, TypeOK
  <2>4. \A q \in Procs \ {p} : out'[q] = out[q]
    BY <1>2, <2>1 DEF Linted
  <2> QED
    BY <1>1, <1>2, <2>1, <2>3, <2>4, VettedQuiet
<1>12. ASSUME NEW p \in Procs, ApplyEffect(p) PROVE VettedInv'
  <2> DEFINE e == Edge(p).do[eff[p]]
             text == Resolve(e.text, ctx[p].vars, cells[p])
             done == Perform(e, out[p], ctx[p].vars, cells[p])
             kept == Remember(e, ctx[p].vars, cells[p])
  <2>1. e \in Effect /\ (e.text.from = "const" => e.text.name \in Vetted)
    BY <1>12, EffectOfMachine DEF ApplyEffect, VettedInv
  <2>2. e.text \in Text
    BY <2>1 DEF Effect
  <2>3. text \in Vetted
    BY <1>2, <2>1, <2>2, ResolveVetted
  <2>4. ctx[p].vars \in Vars
    BY <1>2 DEF Persisted
  <2> HIDE DEF e
  <2>5. done \in VettedOutput
    <3>1. done \in Output
      BY <1>2, <2>1, <2>4, PerformType
    <3> QED
      BY <1>2, <2>1, <2>3, <3>1, PerformVetted
  <2>6. kept \in VettedVars
    <3> HIDE DEF text
    <3>1. kept \in {ctx[p].vars, [ctx[p].vars EXCEPT ![e.name] = text]}
      BY DEF Remember, text
    <3> QED
      BY <1>2, <2>3, <3>1 DEF VettedVars, text
  <2>7. /\ out' = [out EXCEPT ![p] = done]
        /\ ctx' = [ctx EXCEPT ![p].vars = kept]
        /\ UNCHANGED <<cells, stateFile, tmpFile, said, inbox>>
    BY <1>12 DEF ApplyEffect, e, fileVars
  <2> HIDE DEF done, kept
  <2>8. ctx'[p].vars = kept /\ out'[p] = done
    BY <1>2, <2>7 DEF Persisted
  <2>9. \A q \in Procs \ {p} : ctx'[q] = ctx[q] /\ out'[q] = out[q]
    BY <1>2, <2>7
  <2> QED
    BY <1>1, <1>2, <2>5, <2>6, <2>7, <2>8, <2>9, VettedQuiet
<1>13. ASSUME NEW p \in Procs, Fire(p) PROVE VettedInv'
  <2>1. /\ ctx' = [ctx EXCEPT ![p].fuel = @ - 1, ![p].state = Edge(p).to]
        /\ UNCHANGED <<cells, out, stateFile, tmpFile, said, inbox>>
    BY <1>13 DEF Fire, fileVars
  <2>2. ctx'[p].vars = ctx[p].vars /\ \A q \in Procs \ {p} : ctx'[q] = ctx[q]
    BY <1>2, <2>1 DEF Persisted
  <2> QED
    BY <1>1, <1>2, <2>1, <2>2, VettedQuiet
<1>14. ASSUME NEW p \in Procs, Open(p) \/ Write(p) \/ Rename(p) \/ SaveFails(p)
       PROVE  VettedInv'
  <2>1. UNCHANGED <<ctx, cells, out, said, inbox>>
    BY <1>14 DEF Open, Write, Rename, SaveFails
  <2>2. /\ stateFile'.record \in {stateFile.record, tmpFile.record, ctx[p], Fresh}
        /\ tmpFile'.record \in {stateFile.record, tmpFile.record, ctx[p], Fresh}
    BY <1>14
    DEF Open, Write, Rename, SaveFails, OpenTmp, WriteTmp, RenameTmp, WriteFails,
        Overwritten, Whole, Empty, Garbled, Absent, fileVars
  <2>3. stateFile'.record.vars \in VettedVars /\ tmpFile'.record.vars \in VettedVars
    BY <1>2, <2>2, FreshVetted
  <2> QED
    BY <1>1, <2>1, <2>3 DEF VettedInv
<1>15. ASSUME NEW p \in Procs, DeliverInbox(p) \/ DeliverFails(p) PROVE VettedInv'
  <2> DEFINE rest == Tail(out[p].emits)
  <2>1. /\ out[p].emits # <<>>
        /\ out' = [out EXCEPT ![p].emits = rest]
        /\ inbox' = inbox \/ inbox' = Append(inbox, Head(out[p].emits))
        /\ UNCHANGED <<ctx, cells, stateFile, tmpFile, said>>
    BY <1>15 DEF DeliverInbox, DeliverFails, fileVars
  <2>2. out[p].emits \in Seq(VettedMessage) /\ inbox \in Seq(VettedMessage)
    BY <1>2 DEF VettedOutput, VettedInv
  <2>3. Head(out[p].emits) \in VettedMessage /\ rest \in Seq(VettedMessage)
    BY <2>1, <2>2
  <2>4. inbox' \in Seq(VettedMessage)
    BY <2>1, <2>2, <2>3, AppendType
  <2> HIDE DEF rest
  <2>5. out'[p].emits = rest /\ out'[p].inject = out[p].inject
    BY <1>2, <2>1 DEF Output
  <2>6. out'[p] \in VettedOutput
    BY <1>1, <1>2, <2>3, <2>5 DEF VettedOutput, TypeInv, TypeOK
  <2>7. \A q \in Procs \ {p} : out'[q] = out[q]
    BY <1>2, <2>1
  <2>8. said'.context \in Seq(Vetted)
    BY <2>1 DEF VettedInv
  <2> QED
    BY <1>1, <1>2, <2>1, <2>4, <2>6, <2>7, <2>8, VettedFrame
<1>16. ASSUME NEW p \in Procs, Forget(p)
       PROVE  /\ ctx'[p].vars \in VettedVars /\ cells'[p] \in VettedCells
              /\ out'[p] \in VettedOutput
              /\ \A q \in Procs \ {p} : ctx'[q] = ctx[q] /\ cells'[q] = cells[q] /\ out'[q] = out[q]
  BY <1>2, <1>16, FreshVetted, NoCellsVetted, OutputVetted DEF Forget
<1>17. ASSUME NEW p \in Procs, EmitProtocol(p) PROVE VettedInv'
  <2>1. out[p].inject \in Seq(Vetted)
    BY <1>2 DEF VettedOutput
  <2>2. said'.context \in Seq(Vetted)
    BY <1>17, <2>1 DEF EmitProtocol, Reply, Rendered
  <2>3. Forget(p) /\ UNCHANGED <<stateFile, tmpFile, inbox>>
    BY <1>17 DEF EmitProtocol, fileVars
  <2>4. inbox' \in Seq(VettedMessage)
    BY <2>3 DEF VettedInv
  <2> QED
    BY <1>1, <1>2, <1>16, <2>2, <2>3, <2>4, VettedFrame
<1>18. ASSUME NEW p \in Procs, Crash(p) PROVE VettedInv'
  BY <1>1, <1>16, <1>18, VettedQuiet DEF Crash, Close
<1> QED
  BY <1>3, <1>5, <1>6, <1>7, <1>9, <1>10, <1>11, <1>12, <1>13, <1>14, <1>15, <1>17, <1>18
  DEF Next, Proceed, Disturbed, Dispatching

(* No unvalidated completion reaches the memory, the session or another      *)
(* agent, not even by way of a var that one hook writes and another, after a *)
(* crash or from a stale record, reads.                                      *)
THEOREM NothingLaundered == Spec => []NoLaundering
<1>1. VettedInv => NoLaundering
  <2> SUFFICES ASSUME VettedInv PROVE NoLaundering
    OBVIOUS
  <2>1. \A k \in M.keys : Loaded(stateFile).vars[k] \in Vetted
    BY FreshVetted DEF VettedInv, VettedVars, Loaded
  <2>2. \A i \in DOMAIN said.context : said.context[i] \in Vetted
    BY DEF VettedInv
  <2>3. \A i \in DOMAIN inbox : inbox[i].message \in Vetted
    <3>1. inbox \in Seq(VettedMessage)
      BY DEF VettedInv
    <3>2. \A i \in DOMAIN inbox : inbox[i] \in VettedMessage
      BY <3>1
    <3> QED
      BY <3>2 DEF VettedMessage
  <2> QED
    BY <2>1, <2>2, <2>3 DEF NoLaundering
<1> QED
  BY <1>1, VettedInit, VettedStep, PTL DEF Spec

-----------------------------------------------------------------------------
(* A cell a guard declares is registered, for the checker has seen to it; so *)
(* it has run when the guard is evaluated.                                   *)
LEMMA DeclaredRan ==
  ASSUME TypeInv, NEW p \in Procs, AtGuard(p), CellsRun(p),
         NEW c \in Cells(Edge(p).guard.reads)
  PROVE  CellOf(cells[p], c).ran
<1> DEFINE s == ctx[p].state
<1>1. Edges(p) = M.states[s].on /\ s \in DOMAIN M.states
  BY DEF AtGuard, Edges, Lookup
<1>2. SoundTransition(Edge(p))
  BY <1>1, SoundAssumption DEF SoundAssumption, AtGuard, Edge
<1>3. c \in DOMAIN M.cells
  BY <1>2 DEF SoundTransition, Cells
<1>4. cells[p][c].ran
  BY <1>3 DEF CellsRun, Declared
<1>5. c \in DOMAIN cells[p]
  BY <1>3 DEF TypeInv, TypeOK
<1> QED
  BY <1>4, <1>5 DEF CellOf

(* A guard that decides on a cell nobody asked leaves a lint, whatever the    *)
(* spelling of its declaration: what it declares rightly has been asked.     *)
THEOREM UnheardIsReported == Spec => NeverJudgedUnheard
<1>1. ASSUME TypeInv, NEW p \in Procs, Hold(p) \/ Fail(p), NEW c \in Touched(Edge(p).guard),
             ~CellOf(cells[p], c).ran
      PROVE  c \in out'[p].lint
  <2>1. AtGuard(p) /\ CellsRun(p) /\ out' = Linted(p)
    BY <1>1 DEF Hold, Fail
  <2>2. c \notin Cells(Edge(p).guard.reads)
    BY <1>1, <2>1, DeclaredRan
  <2>3. c \in Undeclared(Edge(p).guard)
    BY <1>1, <2>2 DEF Undeclared
  <2>4. out \in [Procs -> Output]
    BY <1>1 DEF TypeInv, TypeOK
  <2> QED
    BY <2>1, <2>3, <2>4 DEF Linted, Output
<1>2. TypeInv /\ [Next]_vars =>
        [\A p \in Procs : (Hold(p) \/ Fail(p)) =>
            \A c \in Touched(Edge(p).guard) : ~CellOf(cells[p], c).ran => c \in out'[p].lint]_vars
  BY <1>1
<1> QED
  BY <1>2, TypeInit, TypeStep, PTL DEF Spec, NeverJudgedUnheard

-----------------------------------------------------------------------------
(* No step takes budget away that no transition has spent. *)

CoverInv == TypeInv /\ NeverReleasedEarly /\ HaltOnlyWhenSpent

(* A fresh record holds the whole budget. *)
LEMMA FreshCovers == TypeOK => Covers(Fresh)
BY FuelAssumption DEF FuelAssumption, TypeOK, Covers, Fresh

(* A record that covers what is unspent still does when more has been spent. *)
LEMMA CoversMonotone ==
  ASSUME NEW r \in Persisted, TypeOK, TypeOK', Covers(r), fired' >= fired
  PROVE  Covers(r)'
BY FuelAssumption DEF FuelAssumption, TypeOK, Covers, Persisted

(* No effect raises the halt. *)
LEMMA PerformHalt ==
  ASSUME NEW e, NEW o \in Output, NEW memory, NEW results
  PROVE  Perform(e, o, memory, results).halt = o.halt
<1> DEFINE text == Resolve(e.text, memory, results)
           message == [target |-> e.name, message |-> text]
           injected == Append(o.inject, text)
           emitted == Append(o.emits, message)
<1> HIDE DEF injected, emitted
<1>1. [o EXCEPT !.inject = injected].halt = o.halt
  BY DEF Output
<1>2. [o EXCEPT !.block = {text}].halt = o.halt
  BY DEF Output
<1>3. [o EXCEPT !.emits = emitted].halt = o.halt
  BY DEF Output
<1> QED
  BY <1>1, <1>2, <1>3 DEF Perform, injected, emitted

(* Initially every record holds the whole budget. *)
LEMMA CoverInit == Init => CoverInv
<1> SUFFICES ASSUME Init PROVE CoverInv
  OBVIOUS
<1>1. TypeInv
  BY TypeInit
<1>2. Covers(Fresh)
  BY <1>1, FreshCovers DEF TypeInv
<1>3. NeverReleasedEarly
  BY <1>2 DEF Init, FileInit, Absent, NeverReleasedEarly
<1>4. HaltOnlyWhenSpent
  BY DEF Init, NoOutput, HaltOnlyWhenSpent
<1> QED
  BY <1>1, <1>3, <1>4 DEF CoverInv

(* Every step leaves the processes it does not belong to, and their outputs, *)
(* alone; so it is enough to look at the record and output of its own, and   *)
(* at the two files.                                                         *)
LEMMA CoverFrame ==
  ASSUME CoverInv, TypeInv', fired' >= fired, NEW p \in Procs,
         \A q \in Procs \ {p} : ctx'[q] = ctx[q] /\ out'[q] = out[q],
         Covers(ctx[p])',
         out'[p].halt => fired' = M.fuel,
         Covers(stateFile.record)', Covers(tmpFile.record)'
  PROVE  CoverInv'
<1>1. ASSUME NEW q \in Procs \ {p} PROVE Covers(ctx[q])'
  <2>1. Covers(ctx[q]) /\ ctx[q] \in Persisted
    BY DEF CoverInv, NeverReleasedEarly, TypeInv, TypeOK
  <2>2. ctx[q].fuel \in Nat /\ fired \in Nat /\ fired' \in Nat /\ M.fuel \in Nat
    BY <2>1, FuelAssumption DEF FuelAssumption, CoverInv, TypeInv, TypeOK, Persisted
  <2>3. ctx'[q].fuel = ctx[q].fuel
    OBVIOUS
  <2> QED
    BY <2>1, <2>2, <2>3 DEF Covers
<1>2. NeverReleasedEarly'
  BY <1>1 DEF NeverReleasedEarly
<1>3. HaltOnlyWhenSpent'
  <2>1. ASSUME NEW q \in Procs \ {p}, out'[q].halt PROVE fired' = M.fuel
    <3>1. fired = M.fuel
      BY <2>1 DEF CoverInv, HaltOnlyWhenSpent
    <3> QED
      BY <3>1, FuelAssumption DEF FuelAssumption, TypeInv, TypeOK
  <2> QED
    BY <2>1 DEF HaltOnlyWhenSpent
<1> QED
  BY <1>2, <1>3 DEF CoverInv

(* The steps of a dispatch that spend nothing and touch no file. *)
LEMMA CoverQuiet ==
  ASSUME CoverInv, TypeInv', UNCHANGED <<stateFile, tmpFile, fired>>, NEW p \in Procs,
         \A q \in Procs \ {p} : ctx'[q] = ctx[q] /\ out'[q] = out[q],
         ctx'[p].fuel = ctx[p].fuel,
         out'[p].halt => out[p].halt \/ ctx[p].fuel = 0
  PROVE  CoverInv'
<1>1. /\ Covers(ctx[p]) /\ ctx[p].fuel \in Nat
      /\ fired \in 0 .. M.fuel /\ M.fuel \in Nat
      /\ Covers(stateFile.record) /\ Covers(tmpFile.record)
      /\ out[p].halt => fired = M.fuel
  BY FuelAssumption
  DEF FuelAssumption, CoverInv, NeverReleasedEarly, HaltOnlyWhenSpent, TypeInv, TypeOK, Persisted
<1>2. Covers(ctx[p])' /\ Covers(stateFile.record)' /\ Covers(tmpFile.record)'
  BY <1>1 DEF Covers
<1>3. ctx[p].fuel = 0 => fired = M.fuel
  BY <1>1 DEF Covers
<1> QED
  BY <1>1, <1>2, <1>3, CoverFrame

(* Every step preserves it. *)
LEMMA CoverStep == CoverInv /\ [Next]_vars => CoverInv'
<1> SUFFICES ASSUME CoverInv, [Next]_vars PROVE CoverInv'
  OBVIOUS
<1>1. TypeInv'
  BY TypeStep DEF CoverInv
<1>2. /\ ctx \in [Procs -> Persisted] /\ out \in [Procs -> Output]
      /\ cells \in [Procs -> [DOMAIN M.cells -> CellResult]]
      /\ fired \in 0 .. M.fuel /\ M.fuel \in Nat /\ M.fuel > 0
      /\ Covers(Fresh) /\ Covers(stateFile.record) /\ Covers(tmpFile.record)
      /\ \A p \in Procs : Covers(ctx[p])
      /\ \A p \in Procs : out[p].halt => fired = M.fuel
  BY FuelAssumption, FreshCovers
  DEF FuelAssumption, CoverInv, NeverReleasedEarly, HaltOnlyWhenSpent, TypeInv, TypeOK
<1>3. ASSUME UNCHANGED vars PROVE CoverInv'
  BY <1>1, <1>3
  DEF vars, procVars, fileVars, history, CoverInv, NeverReleasedEarly, HaltOnlyWhenSpent, Covers
<1>4. ASSUME NEW p \in Procs,
             \/ \E e \in Events : Start(p, e)
             \/ TerminalState(p) \/ Consider(p) \/ PassOver(p) \/ NoMatch(p)
             \/ \E c \in DOMAIN M.cells, raw \in Raws : RunCell(p, c, raw)
             \/ \E raw \in Raws : RunEffect(p, raw)
             \/ AllDelivered(p)
      PROVE  CoverInv'
  <2>1. UNCHANGED <<ctx, out, stateFile, tmpFile, fired>>
    BY <1>4
    DEF Start, TerminalState, Consider, PassOver, NoMatch, RunCell, RunEffect, AllDelivered,
        fileVars, history
  <2> QED
    BY <1>1, <2>1, CoverQuiet
<1>14. ASSUME NEW p \in Procs, DeliverInbox(p) \/ DeliverFails(p) PROVE CoverInv'
  <2>1. /\ out' = [out EXCEPT ![p].emits = Tail(@)]
        /\ UNCHANGED <<ctx, stateFile, tmpFile, fired>>
    BY <1>14 DEF DeliverInbox, DeliverFails, fileVars, history
  <2>2. out'[p].halt = out[p].halt /\ \A q \in Procs \ {p} : out'[q] = out[q]
    BY <1>2, <2>1 DEF Output
  <2> QED
    BY <1>1, <2>1, <2>2, CoverQuiet
<1>5. ASSUME NEW p \in Procs, Hold(p) \/ Fail(p) PROVE CoverInv'
  <2>1. out' = Linted(p) /\ UNCHANGED <<ctx, stateFile, tmpFile, fired>>
    BY <1>5 DEF Hold, Fail, fileVars, history
  <2>2. out'[p].halt = out[p].halt /\ \A q \in Procs \ {p} : out'[q] = out[q]
    BY <1>2, <2>1 DEF Linted, Output
  <2> QED
    BY <1>1, <2>1, <2>2, CoverQuiet
<1>6. ASSUME NEW p \in Procs, BudgetHalt(p) PROVE CoverInv'
  BY <1>1, <1>2, <1>6, CoverQuiet DEF BudgetHalt, fileVars, history
<1>7. ASSUME NEW p \in Procs, Panic(p) PROVE CoverInv'
  <2>1. ~out'[p].halt
    BY <1>2, <1>7 DEF Panic, NoOutput
  <2> QED
    BY <1>1, <1>2, <1>7, <2>1, CoverQuiet DEF Panic, fileVars, history
<1>8. ASSUME NEW p \in Procs, ApplyEffect(p) PROVE CoverInv'
  <2> DEFINE e == Edge(p).do[eff[p]]
             performed == Perform(e, out[p], ctx[p].vars, cells[p])
             kept == Remember(e, ctx[p].vars, cells[p])
  <2>1. /\ out' = [out EXCEPT ![p] = performed]
        /\ ctx' = [ctx EXCEPT ![p].vars = kept]
        /\ UNCHANGED <<stateFile, tmpFile, fired>>
    BY <1>8 DEF ApplyEffect, fileVars, history
  <2>2. performed.halt = out[p].halt
    BY <1>2, PerformHalt
  <2> HIDE DEF performed, kept
  <2>3. /\ \A q \in Procs \ {p} : ctx'[q] = ctx[q] /\ out'[q] = out[q]
        /\ ctx'[p].fuel = ctx[p].fuel
        /\ out'[p].halt = out[p].halt
    BY <1>2, <2>1, <2>2 DEF Persisted
  <2> QED
    BY <1>1, <2>1, <2>3, CoverQuiet
<1>9. ASSUME NEW p \in Procs, Fire(p) PROVE CoverInv'
  <2>1. /\ ctx' = [ctx EXCEPT ![p].fuel = @ - 1, ![p].state = Edge(p).to]
        /\ fired' = Up(fired, M.fuel)
        /\ UNCHANGED <<out, stateFile, tmpFile>>
    BY <1>9 DEF Fire, fileVars
  <2>2. ctx[p].fuel \in Nat /\ ctx[p].fuel > 0
    BY <1>2, <1>9 DEF Fire, CoverInv, TypeInv, PhaseOK, Persisted
  <2>3. ctx'[p].fuel = ctx[p].fuel - 1 /\ \A q \in Procs \ {p} : ctx'[q] = ctx[q]
    BY <1>2, <2>1 DEF Persisted
  <2>4. fired' \in 0 .. M.fuel /\ fired' >= fired /\ (fired' = fired + 1 \/ fired' = M.fuel)
    BY <1>2, <2>1 DEF Up
  <2>5. Covers(ctx[p])'
    BY <1>2, <2>2, <2>3, <2>4 DEF Covers
  <2>6. Covers(stateFile.record)' /\ Covers(tmpFile.record)'
    <3>1. stateFile.record.fuel \in Nat /\ tmpFile.record.fuel \in Nat
      BY DEF CoverInv, TypeInv, TypeOK, FileTypeOK, Contents, Persisted
    <3> QED
      BY <1>2, <2>1, <2>4, <3>1 DEF Covers
  <2>7. out'[p].halt => fired' = M.fuel
    BY <1>2, <2>1, <2>4
  <2> QED
    BY <1>1, <2>1, <2>3, <2>4, <2>5, <2>6, <2>7, CoverFrame
<1>10. ASSUME NEW p \in Procs, NEW r \in Persisted, Covers(r), ctx' = [ctx EXCEPT ![p] = r],
              UNCHANGED <<stateFile, tmpFile, fired>>,
              UNCHANGED out \/ out' = [out EXCEPT ![p] = NoOutput]
       PROVE  CoverInv'
  <2>1. Covers(ctx[p])' /\ Covers(stateFile.record)' /\ Covers(tmpFile.record)'
    BY <1>2, <1>10 DEF Covers
  <2>2. out'[p].halt => fired' = M.fuel
    BY <1>2, <1>10 DEF NoOutput
  <2> QED
    BY <1>1, <1>2, <1>10, <2>1, <2>2, CoverFrame
<1>11. ASSUME NEW p \in Procs, Load(p) \/ LoadFails(p) PROVE CoverInv'
  <2>1. Covers(Loaded(stateFile)) /\ Loaded(stateFile) \in Persisted
    BY <1>2, LoadedType DEF Loaded, CoverInv, TypeInv, TypeOK, FileTypeOK
  <2> QED
    BY <1>2, <1>10, <1>11, <2>1, FreshType DEF Load, LoadFails, fileVars, history
<1>12. ASSUME NEW p \in Procs, EmitProtocol(p) \/ Crash(p) PROVE CoverInv'
  BY <1>2, <1>10, <1>12, FreshType DEF EmitProtocol, Crash, Close, Forget, fileVars, history
<1>13. ASSUME NEW p \in Procs, Open(p) \/ Write(p) \/ Rename(p) \/ SaveFails(p)
       PROVE  CoverInv'
  <2>1. UNCHANGED <<ctx, out, fired>>
    BY <1>13 DEF Open, Write, Rename, SaveFails, history
  <2>2. /\ stateFile'.record \in {stateFile.record, tmpFile.record, ctx[p], Fresh}
        /\ tmpFile'.record \in {stateFile.record, tmpFile.record, ctx[p], Fresh}
    BY <1>13
    DEF Open, Write, Rename, SaveFails, OpenTmp, WriteTmp, RenameTmp, WriteFails,
        Overwritten, Whole, Empty, Garbled, Absent, fileVars
  <2>3. Covers(stateFile.record)' /\ Covers(tmpFile.record)' /\ Covers(ctx[p])'
    BY <1>2, <2>1, <2>2 DEF Covers
  <2> QED
    BY <1>1, <1>2, <2>1, <2>3, CoverFrame
<1> QED
  BY <1>3, <1>4, <1>5, <1>6, <1>7, <1>8, <1>9, <1>11, <1>12, <1>13, <1>14
  DEF Next, Proceed, Disturbed, Dispatching

(* The budget is never lost: with any number of hooks at once, crashes, torn *)
(* saves and disk faults, every record still holds what has not been spent.  *)
THEOREM BudgetNotLost == Spec => []NeverReleasedEarly
<1>1. CoverInv => NeverReleasedEarly
  BY DEF CoverInv
<1> QED
  BY <1>1, CoverInit, CoverStep, PTL DEF Spec

(* A machine that says its budget is exhausted has fired M.fuel transitions. *)
THEOREM HaltsOnlyWhenSpent == Spec => []HaltOnlyWhenSpent
<1>1. CoverInv => HaltOnlyWhenSpent
  BY DEF CoverInv
<1> QED
  BY <1>1, CoverInit, CoverStep, PTL DEF Spec

-----------------------------------------------------------------------------
(* The refusals of hooks that run one at a time: a refusal is paid for on     *)
(* disk before it is told, whatever the oracle answers, wherever a guard or   *)
(* an effect panics and whenever the process is killed.                      *)

(* The session's hooks run one after another ... *)
Solo == \A p, q \in Procs : p = q

(* ... and the disk takes every save. *)
SavesSucceed == "disk" \notin Faults

Balance == Loaded(stateFile).fuel

(* What a process has to hold for its refusal to be paid in time: its fuel   *)
(* never exceeds the record it loaded, a refusal it is about to record has   *)
(* lowered it, a refusal it is about to tell is already on disk, and what it *)
(* is about to rename is what it wrote.                                      *)
Paid(p) ==
    /\ pc[p] \in {"dispatch", "guard", "effects", "save", "write", "rename"}
       => ctx[p].fuel <= Balance
    /\ pc[p] \in {"idle", "load", "dispatch", "guard"} => out[p].block = {}
    /\ pc[p] \in {"save", "write", "rename"} /\ out[p].block # {} => ctx[p].fuel < Balance
    /\ pc[p] \in {"deliver", "answer"} /\ out[p].block # {} => refusals + Balance < M.fuel
    /\ pc[p] = "write" => handle[p] = "tmp" /\ tmpFile = Empty
    /\ pc[p] = "rename" => tmpFile = Whole(ctx[p])

RefusalInv == TypeInv /\ BudgetNeverOverdrawn /\ \A p \in Procs : Paid(p)

(* Initially the whole budget is on disk and nothing was refused. *)
LEMMA RefusalInit == Init => RefusalInv
<1> SUFFICES ASSUME Init PROVE RefusalInv
  OBVIOUS
<1>1. TypeInv
  BY TypeInit
<1>2. refusals = 0 /\ Loaded(stateFile).fuel = M.fuel /\ M.fuel \in Nat
  BY FuelAssumption DEF FuelAssumption, Init, FileInit, Absent, Loaded, Fresh
<1>3. BudgetNeverOverdrawn
  BY <1>2 DEF BudgetNeverOverdrawn
<1>4. \A p \in Procs : Paid(p)
  BY DEF Init, Paid, NoOutput
<1> QED
  BY <1>1, <1>3, <1>4 DEF RefusalInv

(* With one process, a step is judged by that process alone. *)
LEMMA RefusalFrame ==
  ASSUME Solo, TypeInv', BudgetNeverOverdrawn', NEW p \in Procs, Paid(p)'
  PROVE  RefusalInv'
<1>1. \A q \in Procs : q = p
  BY DEF Solo
<1>2. ASSUME NEW q \in Procs PROVE Paid(q)'
  <2>1. q = p
    BY <1>1
  <2> QED
    BY <2>1
<1> QED
  BY <1>2 DEF RefusalInv

(* The numbers involved are numbers. *)
LEMMA RefusalNumbers ==
  ASSUME TypeInv, NEW p \in Procs
  PROVE  /\ M.fuel \in Nat /\ refusals \in Nat
         /\ Loaded(stateFile) \in Persisted /\ Balance \in Nat
         /\ ctx[p] \in Persisted /\ ctx[p].fuel \in Nat
         /\ out[p] \in Output
BY FuelAssumption, LoadedType
DEF FuelAssumption, TypeInv, TypeOK, FileTypeOK, Persisted, Balance

(* A step that leaves the record, the refusals and the budget alone. *)
LEMMA RefusalQuiet ==
  ASSUME Solo, RefusalInv, TypeInv', UNCHANGED <<stateFile, refusals>>,
         NEW p \in Procs, Paid(p)'
  PROVE  RefusalInv'
<1>1. BudgetNeverOverdrawn'
  BY DEF RefusalInv, BudgetNeverOverdrawn
<1> QED
  BY <1>1, RefusalFrame

(* The message of a spent budget is no refusal. *)
LEMMA ExhaustedRefusesNothing ==
  /\ NoOutput.block = {}
  /\ \A t : Exhausted(t).block = {}
<1>1. NoOutput.block = {} /\ NoOutput \in Output
  BY OutputType DEF NoOutput
<1>2. ASSUME NEW t PROVE Exhausted(t).block = {}
  <2> DEFINE text == IF t \in Gating THEN <<"budget exhausted">> ELSE <<>>
  <2>1. Exhausted(t) = [NoOutput EXCEPT !.halt = TRUE, !.inject = text]
    BY DEF Exhausted
  <2> HIDE DEF text
  <2> QED
    BY <1>1, <2>1 DEF Output
<1> QED
  BY <1>1, <1>2

(* Every step preserves the invariant. *)
LEMMA RefusalStep ==
  ASSUME Solo, SavesSucceed
  PROVE  RefusalInv /\ [Next]_vars => RefusalInv'
<1> SUFFICES ASSUME RefusalInv, [Next]_vars PROVE RefusalInv'
  OBVIOUS
<1>1. TypeInv'
  BY TypeStep DEF RefusalInv
<1>2. ASSUME UNCHANGED vars PROVE RefusalInv'
  BY <1>1, <1>2
  DEF vars, procVars, fileVars, history, RefusalInv, BudgetNeverOverdrawn, Paid, Balance
<1>3. ASSUME NEW p \in Procs
      PROVE  /\ Paid(p) /\ BudgetNeverOverdrawn
             /\ pc \in [Procs -> Phase] /\ out \in [Procs -> Output]
             /\ ctx \in [Procs -> Persisted]
             /\ handle \in [Procs -> {"none", "tmp", "state", "gone"}]
  BY DEF RefusalInv, TypeInv, TypeOK, FileTypeOK
<1>4. ASSUME NEW p \in Procs, NEW e \in Events, Start(p, e) PROVE RefusalInv'
  <2>1. Paid(p)'
    BY <1>3, <1>4 DEF Start, Goto, Paid
  <2> QED
    BY <1>1, <1>4, <2>1, RefusalQuiet DEF Start, fileVars, history
<1>5. ASSUME NEW p \in Procs, Load(p) PROVE RefusalInv'
  <2>1. ctx'[p].fuel = Balance' /\ Balance \in Nat
    BY <1>3, <1>5, RefusalNumbers DEF Load, Balance, fileVars, RefusalInv
  <2>2. Paid(p)'
    BY <1>3, <1>5, <2>1 DEF Load, Goto, Paid, Balance, fileVars
  <2> QED
    BY <1>1, <1>5, <2>2, RefusalQuiet DEF Load, fileVars, history
<1>6. ASSUME NEW p \in Procs, TerminalState(p) \/ Consider(p) \/ NoMatch(p) PROVE RefusalInv'
  <2>1. Paid(p)'
    BY <1>3, <1>6
    DEF TerminalState, Consider, NoMatch, Goto, Paid, Balance, fileVars, history
  <2> QED
    BY <1>1, <1>6, <2>1, RefusalQuiet DEF TerminalState, Consider, NoMatch, fileVars, history
<1>7. ASSUME NEW p \in Procs,
             \/ PassOver(p)
             \/ \E c \in DOMAIN M.cells, raw \in Raws : RunCell(p, c, raw)
             \/ \E raw \in Raws : RunEffect(p, raw)
      PROVE RefusalInv'
  <2>1. UNCHANGED <<pc, ctx, out, stateFile, tmpFile, handle, refusals>>
    BY <1>7 DEF PassOver, RunCell, RunEffect, fileVars, history
  <2>2. Paid(p)'
    BY <1>3, <2>1 DEF Paid, Balance
  <2> QED
    BY <1>1, <2>1, <2>2, RefusalQuiet

<1>8. ASSUME NEW p \in Procs, BudgetHalt(p) \/ Panic(p) PROVE RefusalInv'
  <2>1. out'[p].block = {}
    BY <1>3, <1>8, ExhaustedRefusesNothing DEF BudgetHalt, Panic
  <2>2. pc[p] \in {"dispatch", "guard", "effects"} /\ pc'[p] = "save"
        /\ UNCHANGED <<ctx, stateFile, tmpFile, handle, refusals>>
    BY <1>3, <1>8 DEF BudgetHalt, Panic, AtGuard, AtEffect, Goto, fileVars, history
  <2>3. Paid(p)'
    BY <1>3, <2>1, <2>2 DEF Paid, Balance
  <2> QED
    BY <1>1, <2>2, <2>3, RefusalQuiet
<1>9. ASSUME NEW p \in Procs, Hold(p) \/ Fail(p) PROVE RefusalInv'
  <2>1. out' = Linted(p) /\ UNCHANGED <<ctx, stateFile, tmpFile, handle, refusals>>
    BY <1>9 DEF Hold, Fail, fileVars, history
  <2>2. out'[p].block = out[p].block
    BY <1>3, <2>1 DEF Linted, Output
  <2>3. pc[p] = "guard" /\ pc'[p] \in {"guard", "effects"}
    BY <1>3, <1>9 DEF Hold, Fail, AtGuard, Goto
  <2>4. Paid(p)'
    BY <1>3, <2>1, <2>2, <2>3 DEF Paid, Balance
  <2> QED
    BY <1>1, <2>1, <2>4, RefusalQuiet
<1>10. ASSUME NEW p \in Procs, ApplyEffect(p) PROVE RefusalInv'
  <2> DEFINE kept == Remember(Edge(p).do[eff[p]], ctx[p].vars, cells[p])
  <2>1. /\ ctx' = [ctx EXCEPT ![p].vars = kept]
        /\ pc[p] = "effects"
        /\ UNCHANGED <<pc, stateFile, tmpFile, handle, refusals>>
    BY <1>10 DEF ApplyEffect, AtEffect, fileVars, history
  <2> HIDE DEF kept
  <2>2. ctx'[p].fuel = ctx[p].fuel
    BY <1>3, <2>1 DEF Persisted
  <2>3. Paid(p)'
    BY <1>3, <2>1, <2>2 DEF Paid, Balance
  <2> QED
    BY <1>1, <2>1, <2>3, RefusalQuiet
<1>11. ASSUME NEW p \in Procs, Fire(p) PROVE RefusalInv'
  <2>1. /\ ctx' = [ctx EXCEPT ![p].fuel = @ - 1, ![p].state = Edge(p).to]
        /\ pc[p] = "effects" /\ pc'[p] = "save"
        /\ UNCHANGED <<out, stateFile, tmpFile, handle, refusals>>
    BY <1>3, <1>11 DEF Fire, Goto, fileVars
  <2>2. ctx'[p].fuel = ctx[p].fuel - 1
    BY <1>3, <2>1 DEF Persisted
  <2>3. ctx[p].fuel \in Nat /\ Balance \in Nat
    BY RefusalNumbers DEF RefusalInv
  <2>4. ctx'[p].fuel < Balance'
    BY <1>3, <2>1, <2>2, <2>3 DEF Paid, Balance
  <2>5. ctx'[p].fuel <= Balance' /\ Balance' = Balance
    BY <2>1, <2>2, <2>3, <2>4 DEF Balance
  <2>6. Paid(p)'
    BY <2>1, <2>4, <2>5 DEF Paid
  <2> QED
    BY <1>1, <2>1, <2>6, RefusalQuiet
<1>12. ASSUME NEW p \in Procs, Open(p) PROVE RefusalInv'
  <2>1. Paid(p)'
    BY <1>3, <1>12 DEF Open, OpenTmp, Goto, Paid, Balance, history
  <2> QED
    BY <1>1, <1>12, <2>1, RefusalQuiet DEF Open, OpenTmp, history
<1>13. ASSUME NEW p \in Procs, Write(p) PROVE RefusalInv'
  <2>1. pc[p] = "write" /\ handle[p] = "tmp" /\ tmpFile = Empty
    BY <1>3, <1>13 DEF Write, Paid
  <2>2. tmpFile' = Whole(ctx[p]) /\ stateFile' = stateFile
    BY <1>13, <2>1 DEF Write, WriteTmp, Overwritten
  <2>3. Paid(p)'
    BY <1>3, <1>13, <2>1, <2>2 DEF Write, Goto, Paid, Balance, history
  <2> QED
    BY <1>1, <1>13, <2>2, <2>3, RefusalQuiet DEF Write, history
<1>14. ASSUME NEW p \in Procs, Rename(p) PROVE RefusalInv'
  <2>1. pc[p] = "rename" /\ tmpFile = Whole(ctx[p])
    BY <1>3, <1>14 DEF Rename, Paid
  <2>2. stateFile' = Whole(ctx[p])
    BY <1>14, <2>1 DEF Rename, RenameTmp, Whole
  <2>3. Balance' = ctx[p].fuel
    BY <2>2 DEF Balance, Loaded, Whole
  <2>4. pc'[p] = "deliver" /\ UNCHANGED <<ctx, out, refusals>>
    BY <1>3, <1>14 DEF Rename, Goto, history
  <2>5. /\ ctx[p].fuel <= Balance
        /\ out[p].block # {} => ctx[p].fuel < Balance
        /\ refusals + Balance <= M.fuel
    BY <1>3, <2>1 DEF Paid, BudgetNeverOverdrawn, Balance
  <2>6. ctx[p].fuel \in Nat /\ Balance \in Nat /\ refusals \in Nat /\ M.fuel \in Nat
    BY RefusalNumbers DEF RefusalInv
  <2>7. BudgetNeverOverdrawn'
    BY <2>3, <2>4, <2>5, <2>6 DEF BudgetNeverOverdrawn, Balance
  <2>8. out'[p].block # {} => refusals' + Balance' < M.fuel
    BY <2>3, <2>4, <2>5, <2>6
  <2>9. Paid(p)'
    BY <2>4, <2>8 DEF Paid
  <2> QED
    BY <1>1, <2>7, <2>9, RefusalFrame
<1>15. ASSUME NEW p \in Procs, DeliverInbox(p) \/ DeliverFails(p) PROVE RefusalInv'
  <2>1. /\ out' = [out EXCEPT ![p].emits = Tail(@)] /\ pc[p] = "deliver"
        /\ UNCHANGED <<pc, ctx, stateFile, tmpFile, handle, refusals>>
    BY <1>15 DEF DeliverInbox, DeliverFails, fileVars, history
  <2>2. out'[p].block = out[p].block
    BY <1>3, <2>1 DEF Output
  <2>3. Paid(p)'
    BY <1>3, <2>1, <2>2 DEF Paid, Balance
  <2> QED
    BY <1>1, <2>1, <2>3, RefusalQuiet
<1>20. ASSUME NEW p \in Procs, AllDelivered(p) PROVE RefusalInv'
  <2>1. Paid(p)'
    BY <1>3, <1>20 DEF AllDelivered, Goto, Paid, Balance, fileVars, history
  <2> QED
    BY <1>1, <1>20, <2>1, RefusalQuiet DEF AllDelivered, fileVars, history
<1>16. ASSUME NEW p \in Procs, Forget(p) PROVE Paid(p)'
  BY <1>3, <1>16 DEF Forget, Goto, Paid, NoOutput
<1>17. ASSUME NEW p \in Procs, EmitProtocol(p) PROVE RefusalInv'
  <2>1. Balance' = Balance
    BY <1>17 DEF EmitProtocol, Balance, fileVars
  <2>2. Reply(p).exit = 2 => out[p].block # {}
    BY DEF Reply, Rendered, Refused
  <2>3. Reply(p).exit = 2 => refusals + Balance < M.fuel
    BY <1>3, <1>17, <2>2 DEF EmitProtocol, Paid
  <2>4. Balance \in Nat /\ refusals \in Nat /\ M.fuel \in Nat
    BY RefusalNumbers DEF RefusalInv
  <2>5. refusals + Balance <= M.fuel
    BY <1>3 DEF BudgetNeverOverdrawn, Balance
  <2>6. refusals' + Balance' <= M.fuel
    BY <1>17, <2>1, <2>3, <2>4, <2>5 DEF EmitProtocol, Up
  <2>7. BudgetNeverOverdrawn'
    BY <2>6 DEF BudgetNeverOverdrawn, Balance
  <2> QED
    BY <1>1, <1>16, <1>17, <2>7, RefusalFrame DEF EmitProtocol
<1>18. ASSUME NEW p \in Procs, Crash(p) PROVE RefusalInv'
  BY <1>1, <1>16, <1>18, RefusalQuiet DEF Crash, Close, history
<1>19. ASSUME NEW p \in Procs, LoadFails(p) \/ SaveFails(p) PROVE RefusalInv'
  BY <1>19 DEF LoadFails, SaveFails, SavesSucceed
<1> QED
  BY <1>2, <1>4, <1>5, <1>6, <1>7, <1>8, <1>9, <1>10, <1>11, <1>12, <1>13, <1>14, <1>15,
     <1>17, <1>18, <1>19, <1>20
  DEF Next, Proceed, Disturbed, Dispatching

(* A session whose hooks run one after another, and whose saves succeed, is  *)
(* refused at most M.fuel times, and every refusal told is paid for on disk. *)
THEOREM RefusalsPaid ==
  ASSUME Solo, SavesSucceed
  PROVE  Spec => []BudgetNeverOverdrawn
<1>1. RefusalInv => BudgetNeverOverdrawn
  BY DEF RefusalInv
<1>2. RefusalInv /\ [Next]_vars => RefusalInv'
  BY RefusalStep
<1> QED
  BY <1>1, <1>2, RefusalInit, PTL DEF Spec

-----------------------------------------------------------------------------
(* Session and Hook are about the same machine. *)
LEMMA SameMachine ==
  /\ \A s : Promise!Lookup(s) = Lookup(s)
  /\ \A g : Promise!Declared(g) = Declared(g)
  /\ \A c, raw : Promise!Check(c, raw) = Check(c, raw)
  /\ Promise!ZeroResult = ZeroResult /\ Promise!NoOutput = NoOutput /\ Promise!Fresh = Fresh
  /\ \A t : Promise!Exhausted(t) = Exhausted(t)
  /\ \A o, t : Promise!Rendered(o, t) = Rendered(o, t)
  /\ \A g, e, memory, results : Promise!When(g, e, memory, results) = When(g, e, memory, results)
  /\ \A e, memory, results : Promise!Remember(e, memory, results) = Remember(e, memory, results)
  /\ \A e, o, memory, results :
        Promise!Perform(e, o, memory, results) = Perform(e, o, memory, results)
<1>1. \A s : Promise!Lookup(s) = Lookup(s)
  BY DEF Promise!Lookup, Lookup
<1>2. Promise!ZeroResult = ZeroResult /\ Promise!NoOutput = NoOutput /\ Promise!Fresh = Fresh
  BY DEF Promise!ZeroResult, ZeroResult, Promise!NoOutput, NoOutput, Promise!Fresh, Fresh
<1>3. \A c, raw : Promise!Check(c, raw) = Check(c, raw)
  BY <1>2, Zenon DEF Promise!Check, Check
<1>4. \A t : Promise!Exhausted(t) = Exhausted(t)
  BY <1>2, Zenon DEF Promise!Exhausted, Exhausted, Promise!Gating, Gating
<1>5. \A g : Promise!Declared(g) = Declared(g)
  BY Zenon DEF Promise!Declared, Declared, Promise!Cells, Cells, Promise!CellReads, CellReads
<1>6. \A o, t : Promise!Rendered(o, t) = Rendered(o, t)
  BY Zenon DEF Promise!Rendered, Rendered, Promise!Refused, Refused, Promise!Gating, Gating
<1>7. \A t, memory, results : Promise!Resolve(t, memory, results) = Resolve(t, memory, results)
  BY Zenon DEF Promise!Resolve, Resolve
<1>8. \A results, c : Promise!CellOf(results, c) = CellOf(results, c)
  BY <1>2, Zenon DEF Promise!CellOf, CellOf
<1>9. \A g, e, memory, results : Promise!When(g, e, memory, results) = When(g, e, memory, results)
  <2>1. \A g, e : Promise!EventMatches(g, e) = EventMatches(g, e)
    BY Zenon DEF Promise!EventMatches, EventMatches
  <2>2. \A k : Promise!FromVar(k) = FromVar(k)
    BY Zenon DEF Promise!FromVar, FromVar
  <2> SUFFICES ASSUME NEW g, NEW e, NEW memory, NEW results
               PROVE  Promise!When(g, e, memory, results) = When(g, e, memory, results)
    OBVIOUS
  <2> QED
    BY <1>7, <1>8, <2>1, <2>2, Zenon DEF Promise!When, When
<1>10. \A e, memory, results : Promise!Remember(e, memory, results) = Remember(e, memory, results)
  BY <1>7, Zenon DEF Promise!Remember, Remember
<1>11. \A e, o, memory, results :
          Promise!Perform(e, o, memory, results) = Perform(e, o, memory, results)
  BY <1>7, Zenon DEF Promise!Perform, Perform
<1> QED
  BY <1>1, <1>2, <1>3, <1>4, <1>5, <1>6, <1>9, <1>10, <1>11

-----------------------------------------------------------------------------
(* What the effects of a transition come to, one after the other. *)
Results == [DOMAIN M.cells -> CellResult]
Work    == [vars : Vars, cells : Results, out : Output]

(* One effect maps well-typed work to well-typed work. *)
LEMMA OneEffectType ==
  ASSUME NEW e \in Effect, NEW was \in Work, NEW answers,
         e.kind = "Run" => e.name \in DOMAIN M.cells /\ answers[e.name] \in Raws
  PROVE  Promise!OneEffect(e, was, answers) \in Work
<1> DEFINE asked == [was.cells EXCEPT ![e.name] = Check(e.name, answers[e.name])]
           results == IF e.kind = "Run" /\ ~was.cells[e.name].ran THEN asked ELSE was.cells
<1>1. was.vars \in Vars /\ was.cells \in Results /\ was.out \in Output
  BY DEF Work
<1>2. results \in Results
  <2>1. e.kind = "Run" => Check(e.name, answers[e.name]) \in CellResult
    BY CheckType
  <2>2. e.kind = "Run" => asked \in Results
    BY <1>1, <2>1 DEF Results
  <2> QED
    BY <1>1, <2>2
<1>3. Remember(e, was.vars, was.cells) \in Vars
  BY <1>1, RememberType DEF Results
<1>4. Perform(e, was.out, was.vars, was.cells) \in Output
  BY <1>1, PerformType DEF Results
<1>5. Promise!OneEffect(e, was, answers) =
        [vars  |-> Remember(e, was.vars, was.cells), cells |-> results,
         out   |-> Perform(e, was.out, was.vars, was.cells)]
  BY SameMachine, Zenon DEF Promise!OneEffect
<1> HIDE DEF results
<1> QED
  BY <1>2, <1>3, <1>4, <1>5 DEF Work

(* After n effects is after n - 1 effects and one more. *)
LEMMA PerformedSteps ==
  ASSUME NEW do \in Seq(Effect), NEW memory \in Vars, NEW results \in Results, NEW answers,
         \A j \in DOMAIN do : do[j].kind = "Run" =>
            do[j].name \in DOMAIN M.cells /\ answers[do[j].name] \in Raws
  PROVE  /\ Promise!Performed(do, 0, memory, results, answers) =
               [vars |-> memory, cells |-> results, out |-> NoOutput]
         /\ \A n \in 1 .. Len(do) :
               Promise!Performed(do, n, memory, results, answers) =
                  Promise!OneEffect(do[n], Promise!Performed(do, n - 1, memory, results, answers),
                                    answers)
<1> DEFINE last == Len(do)
           start == [vars |-> memory, cells |-> results, out |-> NoOutput]
           Put(i, was) == Promise!OneEffect(do[i], was, answers)
           step == [kx \in (1 .. last) \X Work |-> Put(kx[1], kx[2])]
           after == CHOOSE f : f = [k \in 0 .. last |->
                                      IF k = 0 THEN start ELSE Put(k, f[k - 1])]
<1>1. last \in Nat /\ DOMAIN do = 1 .. last
  OBVIOUS
<1>2. start \in Work
  BY OutputType DEF Work
<1>3. \A i \in 1 .. last, was \in Work : Put(i, was) \in Work
  <2> SUFFICES ASSUME NEW i \in 1 .. last, NEW was \in Work PROVE Put(i, was) \in Work
    OBVIOUS
  <2>1. do[i] \in Effect /\ i \in DOMAIN do
    BY <1>1
  <2> QED
    BY <2>1, OneEffectType
<1> HIDE DEF start, Put, last
<1>4. step \in [(1 .. last) \X Work -> Work]
  BY <1>3
<1>5. PICK f : Loop(Work, start, step, last, f)
  <2> HIDE DEF step
  <2> QED
    BY <1>1, <1>2, <1>4, LoopExists
<1>6. f = [k \in 0 .. last |-> IF k = 0 THEN start ELSE Put(k, f[k - 1])]
  <2>1. f \in [0 .. last -> Work] /\ f[0] = start
    BY <1>5 DEF Loop
  <2>2. ASSUME NEW k \in 1 .. last PROVE f[k] = Put(k, f[k - 1])
    <3>1. <<k, f[k - 1]>> \in (1 .. last) \X Work
      BY <1>1, <2>1
    <3>2. f[k] = step[<<k, f[k - 1]>>]
      BY <1>5 DEF Loop
    <3> QED
      BY <3>1, <3>2
  <2>3. f = [k \in 0 .. last |-> f[k]]
    BY <2>1
  <2>4. ASSUME NEW k \in 0 .. last
        PROVE  f[k] = IF k = 0 THEN start ELSE Put(k, f[k - 1])
    BY <1>1, <2>1, <2>2
  <2> QED
    BY <2>1, <2>3, <2>4, Zenon
<1>7. after = [k \in 0 .. last |-> IF k = 0 THEN start ELSE Put(k, after[k - 1])]
  BY <1>6
<1>8. \A n : Promise!Performed(do, n, memory, results, answers) = after[n]
  BY SameMachine, Zenon DEF Promise!Performed, start, Put, last
<1> HIDE DEF after
<1>9. after[0] = start
  BY <1>1, <1>7
<1>10. \A n \in 1 .. last : after[n] = Put(n, after[n - 1])
  BY <1>1, <1>7
<1> QED
  BY <1>8, <1>9, <1>10 DEF start, Put, last

-----------------------------------------------------------------------------
(* The answers a session may give to an event: one for every cell that may   *)
(* be asked.                                                                 *)
EdgesOf(r) == Lookup(r.state).on

(* The transitions of a state, which the checker has found sound. *)
LEMMA StateFacts ==
  ASSUME NEW r
  PROVE  /\ Len(EdgesOf(r)) \in Nat /\ DOMAIN EdgesOf(r) = 1 .. Len(EdgesOf(r))
         /\ \A i \in DOMAIN EdgesOf(r) :
               /\ EdgesOf(r)[i] \in Transition
               /\ EdgesOf(r)[i].do \in Seq(Effect)
               /\ SoundTransition(EdgesOf(r)[i])
<1>1. EdgesOf(r) \in Seq(Transition)
  BY LookupType DEF EdgesOf, State
<1>2. ASSUME NEW i \in DOMAIN EdgesOf(r)
      PROVE  EdgesOf(r)[i] \in Transition /\ EdgesOf(r)[i].do \in Seq(Effect)
  <2>1. EdgesOf(r)[i] \in Transition
    BY <1>1
  <2> QED
    BY <2>1 DEF Transition
<1>3. ASSUME NEW i \in DOMAIN EdgesOf(r) PROVE SoundTransition(EdgesOf(r)[i])
  <2>1. r.state \in DOMAIN M.states /\ EdgesOf(r) = M.states[r.state].on
    BY DEF EdgesOf, Lookup
  <2> QED
    BY <2>1, SoundAssumption DEF SoundAssumption
<1> QED
  BY <1>1, <1>2, <1>3

(* The cells consulted up to a transition, one transition after the other. *)
LEMMA ConsultedFacts ==
  ASSUME NEW r, NEW e
  PROVE  /\ \A i : Promise!Consulted(r.state, e, i) \subseteq DOMAIN M.cells
         /\ \A i \in Int : Promise!Consulted(r.state, e, i)
                              \subseteq Promise!Consulted(r.state, e, Len(EdgesOf(r)))
         /\ Promise!Consulted(r.state, e, 0) = {}
         /\ \A i \in Nat : Promise!Consulted(r.state, e, i + 1) =
               Promise!Consulted(r.state, e, i) \cup
               (IF i + 1 \in Promise!Candidates(r.state, e)
                THEN Declared(EdgesOf(r)[i + 1].guard) ELSE {})
<1> DEFINE declared(i) == {Declared(EdgesOf(r)[j].guard) :
                             j \in {k \in Promise!Candidates(r.state, e) : k <= i}}
<1>1. \A i : Promise!Consulted(r.state, e, i) = UNION declared(i)
  BY SameMachine, Zenon DEF Promise!Consulted, EdgesOf
<1>2. Promise!Candidates(r.state, e) = {i \in DOMAIN EdgesOf(r) : EdgesOf(r)[i].on = e.on}
  BY SameMachine, Zenon DEF Promise!Candidates, EdgesOf
<1>3. \A g : Declared(g) \subseteq DOMAIN M.cells
  BY DEF Declared
<1>4. Promise!Candidates(r.state, e) \subseteq 1 .. Len(EdgesOf(r)) /\ Len(EdgesOf(r)) \in Nat
  BY <1>2, StateFacts
<1> DEFINE C == Promise!Candidates(r.state, e)
           D(j) == Declared(EdgesOf(r)[j].guard)
<1>5. \A i, c : c \in Promise!Consulted(r.state, e, i) <=> \E j \in C : j <= i /\ c \in D(j)
  <2> SUFFICES ASSUME NEW i, NEW c
               PROVE  c \in UNION declared(i) <=> \E j \in C : j <= i /\ c \in D(j)
    BY <1>1
  <2>1. declared(i) = {D(j) : j \in {k \in C : k <= i}}
    OBVIOUS
  <2> HIDE DEF declared, D, C
  <2> QED
    BY <2>1
<1> HIDE DEF C, D, declared
<1>6. \A i : Promise!Consulted(r.state, e, i) \subseteq DOMAIN M.cells
  BY <1>3, <1>5 DEF D
<1>7. \A i \in Int : Promise!Consulted(r.state, e, i)
                        \subseteq Promise!Consulted(r.state, e, Len(EdgesOf(r)))
  BY <1>4, <1>5 DEF C
<1>8. Promise!Consulted(r.state, e, 0) = {}
  BY <1>4, <1>5 DEF C
<1>9. ASSUME NEW i \in Nat
      PROVE  Promise!Consulted(r.state, e, i + 1) =
               Promise!Consulted(r.state, e, i) \cup (IF i + 1 \in C THEN D(i + 1) ELSE {})
  <2>1. \A j \in C : j <= i + 1 <=> j <= i \/ j = i + 1
    BY <1>4 DEF C
  <2>2. \A c : c \in Promise!Consulted(r.state, e, i + 1) <=>
               c \in Promise!Consulted(r.state, e, i) \/ (i + 1 \in C /\ c \in D(i + 1))
    BY <1>5, <2>1
  <2> QED
    BY <2>2
<1> QED
  BY <1>6, <1>7, <1>8, <1>9 DEF C, D

(* The i-th guard adds the cells it declares, if it is about the event. *)
LEMMA ConsultedNext ==
  ASSUME NEW r, NEW e, NEW i \in Nat \ {0}
  PROVE  Promise!Consulted(r.state, e, i) =
           Promise!Consulted(r.state, e, i - 1) \cup
           (IF i \in Promise!Candidates(r.state, e) THEN Declared(EdgesOf(r)[i].guard) ELSE {})
<1>1. PICK k \in Nat : k = i - 1
  OBVIOUS
<1>2. k + 1 = i
  BY <1>1
<1>3. Promise!Consulted(r.state, e, k + 1) =
        Promise!Consulted(r.state, e, k) \cup
        (IF k + 1 \in Promise!Candidates(r.state, e)
         THEN Declared(EdgesOf(r)[k + 1].guard) ELSE {})
  BY ConsultedFacts, Zenon
<1> QED
  BY <1>1, <1>2, <1>3

(* The cells that the transitions of a state ask for in their effects. *)
MayAsk(r, e, D) == Promise!Answers(r.state, e) = [D -> Raws]

(* An assignment of answers covers every cell a dispatch may run. *)
LEMMA AnswersFacts ==
  ASSUME NEW r, NEW e
  PROVE  \E D : /\ MayAsk(r, e, D)
                /\ \A i \in Int : Promise!Consulted(r.state, e, i) \subseteq D
                /\ \A i \in Promise!Candidates(r.state, e) : \A j \in DOMAIN EdgesOf(r)[i].do :
                      EdgesOf(r)[i].do[j].kind = "Run" => EdgesOf(r)[i].do[j].name \in D
<1> DEFINE runs(t) == {t.do[j].name : j \in {k \in DOMAIN t.do : t.do[k].kind = "Run"}}
           taken == {EdgesOf(r)[i] : i \in Promise!Candidates(r.state, e)}
           all == Promise!Consulted(r.state, e, Len(EdgesOf(r)))
           D == all \cup UNION {runs(t) : t \in taken}
<1>1. Promise!Answers(r.state, e) = [D -> Raws]
  BY SameMachine, Zenon DEF Promise!Answers, EdgesOf
<1>2. \A i \in Int : Promise!Consulted(r.state, e, i) \subseteq D
  BY ConsultedFacts
<1>3. ASSUME NEW i \in Promise!Candidates(r.state, e), NEW j \in DOMAIN EdgesOf(r)[i].do,
             EdgesOf(r)[i].do[j].kind = "Run"
      PROVE  EdgesOf(r)[i].do[j].name \in D
  <2>1. EdgesOf(r)[i].do[j].name \in runs(EdgesOf(r)[i]) /\ EdgesOf(r)[i] \in taken
    BY <1>3
  <2> HIDE DEF runs, taken, all
  <2> QED
    BY <2>1
<1> HIDE DEF D
<1> QED
  BY <1>1, <1>2, <1>3 DEF MayAsk

-----------------------------------------------------------------------------
(* How far a dispatch has come, from the record r it loaded for event e.     *)
(* The session's answers are those the cells have already given, and any     *)
(* whatever of the cells not asked yet.                                      *)
Ran(results) == {c \in DOMAIN M.cells : results[c].ran}

Possible(r, e, results) ==
    {answers \in Promise!Answers(r.state, e) :
        Ran(results) \subseteq DOMAIN answers /\ results = Promise!Asked(answers, Ran(results))}

Awake(r) == ~Lookup(r.state).terminal /\ r.fuel > 0

(* No transition before the i-th holds, and the cells asked are those of the *)
(* guards before it, and perhaps some of its own.                            *)
Guarded(r, e, results, i) ==
    /\ Promise!Consulted(r.state, e, i - 1) \subseteq Ran(results)
    /\ Ran(results) \subseteq Promise!Consulted(r.state, e, i)
    /\ Possible(r, e, results) # {}
    /\ \A answers \in Possible(r, e, results) :
          \A j \in Promise!Holding(r, e, answers) : i <= j

Least(i, holding) == i \in holding /\ \A j \in holding : i <= j

(* The i-th is the first that holds, and n of its effects are performed.     *)
Effecting(r, e, results, i, n, memory, o) ==
    /\ Possible(r, e, results) # {}
    /\ \A answers \in Possible(r, e, results) :
          /\ Least(i, Promise!Holding(r, e, answers))
          /\ Promise!Effected(r, e, answers, n) =
                [vars |-> memory, cells |-> results, out |-> o]

(* What an answered cell contributes. *)
LEMMA AskedType ==
  ASSUME NEW answers, NEW asked, \A c \in asked \cap DOMAIN M.cells : answers[c] \in Raws
  PROVE  Promise!Asked(answers, asked) \in Results
<1>1. Promise!Asked(answers, asked) =
        [c \in DOMAIN M.cells |-> IF c \in asked THEN Check(c, answers[c]) ELSE ZeroResult]
  BY SameMachine, Zenon DEF Promise!Asked
<1>2. ZeroResult \in CellResult
  BY StringsAssumption DEF StringsAssumption, ZeroResult, CellResult
<1>3. \A c \in DOMAIN M.cells :
         (IF c \in asked THEN Check(c, answers[c]) ELSE ZeroResult) \in CellResult
  BY <1>2, CheckType
<1> QED
  BY <1>1, <1>3 DEF Results

(* A cell that was checked has run. *)
LEMMA CheckRan == \A c, raw : Check(c, raw).ran
BY DEF Check, ZeroResult

(* Results that agree cell by cell with what the answers make of the cells run ... *)
LEMMA AskedIs ==
  ASSUME NEW answers, NEW results \in Results,
         \A c \in DOMAIN M.cells :
            results[c] = IF c \in Ran(results) THEN Check(c, answers[c]) ELSE ZeroResult
  PROVE  results = Promise!Asked(answers, Ran(results))
<1>1. Promise!Asked(answers, Ran(results)) =
        [c \in DOMAIN M.cells |->
            IF c \in Ran(results) THEN Check(c, answers[c]) ELSE ZeroResult]
  BY SameMachine, Zenon DEF Promise!Asked
<1>2. results = [c \in DOMAIN M.cells |-> results[c]]
  BY DEF Results
<1> QED
  BY <1>1, <1>2

(* ... and the converse: what an answer still possible says of each cell. *)
LEMMA PossibleFacts ==
  ASSUME NEW r, NEW e, NEW results, NEW answers \in Possible(r, e, results)
  PROVE  \A c \in DOMAIN M.cells :
            results[c] = IF c \in Ran(results) THEN Check(c, answers[c]) ELSE ZeroResult
<1>1. results = Promise!Asked(answers, Ran(results))
  BY DEF Possible
<1>2. results = [c \in DOMAIN M.cells |->
                   IF c \in Ran(results) THEN Check(c, answers[c]) ELSE ZeroResult]
  BY <1>1, SameMachine, Zenon DEF Promise!Asked
<1> DEFINE Of(c) == IF c \in Ran(results) THEN Check(c, answers[c]) ELSE ZeroResult
<1>3. results = [c \in DOMAIN M.cells |-> Of(c)]
  BY <1>2
<1> HIDE DEF Of
<1>4. \A c \in DOMAIN M.cells : results[c] = Of(c)
  BY <1>3
<1> QED
  BY <1>4 DEF Of

(* Asking another cell narrows the answers down. *)
Asks(results, c, raw, next) ==
    /\ next \in Results
    /\ next[c] = Check(c, raw)
    /\ \A d \in DOMAIN M.cells \ {c} : next[d] = results[d]

(* runCell fills in one result and leaves the others. *)
LEMMA AskedOne ==
  ASSUME NEW results \in Results, NEW c \in DOMAIN M.cells, NEW raw \in Raws
  PROVE  Asks(results, c, raw, [results EXCEPT ![c] = Check(c, raw)])
BY CheckType DEF Results, Asks

(* Running a cell leaves the answers that agree with what it said, and some do. *)
LEMMA RunNarrows ==
  ASSUME NEW r, NEW e, NEW results \in Results, NEW raw \in Raws,
         NEW D, MayAsk(r, e, D),
         NEW c \in D \cap DOMAIN M.cells, ~results[c].ran, Possible(r, e, results) # {},
         NEW next, Asks(results, c, raw, next)
  PROVE  /\ Ran(next) = Ran(results) \cup {c}
         /\ Possible(r, e, next) # {}
         /\ Possible(r, e, next) \subseteq Possible(r, e, results)
         /\ \A answers \in Possible(r, e, next) : Check(c, answers[c]) = Check(c, raw)
<1>1. next \in Results
  BY DEF Asks
<1>2. /\ DOMAIN next = DOMAIN M.cells /\ DOMAIN results = DOMAIN M.cells
      /\ next[c] = Check(c, raw) /\ \A d \in DOMAIN M.cells \ {c} : next[d] = results[d]
  BY DEF Results, Asks
<1>3. Ran(next) = Ran(results) \cup {c}
  BY <1>2, CheckRan DEF Ran
<1>4. ASSUME NEW answers \in Possible(r, e, results)
      PROVE  [answers EXCEPT ![c] = raw] \in Possible(r, e, next)
  <2> DEFINE new == [answers EXCEPT ![c] = raw]
  <2>1. answers \in [D -> Raws] /\ Ran(results) \subseteq D /\ results = Promise!Asked(answers, Ran(results))
    BY DEF Possible, MayAsk
  <2>2. new \in [D -> Raws] /\ new[c] = raw /\ \A d \in D \ {c} : new[d] = answers[d]
    BY <2>1
  <2>3. \A d \in DOMAIN M.cells :
           results[d] = IF d \in Ran(results) THEN Check(d, answers[d]) ELSE ZeroResult
    BY PossibleFacts
  <2>4. \A d \in Ran(results) : d # c => new[d] = answers[d]
    BY <2>1, <2>2
  <2> HIDE DEF new
  <2>6. next = Promise!Asked(new, Ran(next))
    <3>1. ASSUME NEW d \in DOMAIN M.cells
          PROVE  next[d] = IF d \in Ran(next) THEN Check(d, new[d]) ELSE ZeroResult
      <4>1. CASE d = c
        BY <1>2, <1>3, <2>2, <4>1
      <4>2. CASE d # c
        BY <1>2, <1>3, <2>3, <2>4, <4>2
      <4> QED
        BY <4>1, <4>2
    <3> QED
      BY <1>1, <3>1, AskedIs
  <2> QED
    BY <1>3, <2>1, <2>2, <2>6 DEF Possible, MayAsk, new
<1>5. ASSUME NEW answers \in Possible(r, e, next)
      PROVE  answers \in Possible(r, e, results) /\ Check(c, answers[c]) = Check(c, raw)
  <2>1. answers \in [D -> Raws] /\ Ran(next) \subseteq D /\ next = Promise!Asked(answers, Ran(next))
    BY DEF Possible, MayAsk
  <2>2. \A d \in DOMAIN M.cells :
           next[d] = IF d \in Ran(next) THEN Check(d, answers[d]) ELSE ZeroResult
    BY PossibleFacts
  <2>3. results[c] = ZeroResult
    <3>1. PICK old \in Possible(r, e, results) : TRUE
      OBVIOUS
    <3>2. results = Promise!Asked(old, Ran(results)) /\ c \notin Ran(results)
      BY <3>1 DEF Possible, Ran
    <3> QED
      BY <3>1, <3>2, PossibleFacts
  <2>4. ASSUME NEW d \in DOMAIN M.cells
        PROVE  results[d] = IF d \in Ran(results) THEN Check(d, answers[d]) ELSE ZeroResult
    <3>1. c \notin Ran(results)
      BY DEF Ran
    <3>2. CASE d = c
      BY <2>3, <3>1, <3>2
    <3>3. CASE d # c
      BY <1>2, <1>3, <2>2, <3>3
    <3> QED
      BY <3>2, <3>3
  <2>5. results = Promise!Asked(answers, Ran(results))
    BY <2>4, AskedIs
  <2>6. Check(c, answers[c]) = Check(c, raw)
    BY <1>2, <1>3, <2>2
  <2> QED
    BY <1>3, <2>1, <2>5, <2>6 DEF Possible, MayAsk
<1> QED
  BY <1>1, <1>3, <1>4, <1>5

-----------------------------------------------------------------------------
(* The transitions are considered one after the other. *)
LEMMA CandidateFacts ==
  ASSUME NEW r, NEW e
  PROVE  /\ Promise!Candidates(r.state, e) = {i \in DOMAIN EdgesOf(r) : EdgesOf(r)[i].on = e.on}
         /\ Promise!Candidates(r.state, e) \subseteq DOMAIN EdgesOf(r)
         /\ Promise!Candidates(r.state, e) \subseteq Nat \ {0}
<1>1. Promise!Candidates(r.state, e) = {i \in DOMAIN EdgesOf(r) : EdgesOf(r)[i].on = e.on}
  BY SameMachine, Zenon DEF Promise!Candidates, EdgesOf
<1>2. DOMAIN EdgesOf(r) \subseteq Nat \ {0}
  <2>1. DOMAIN EdgesOf(r) = 1 .. Len(EdgesOf(r)) /\ Len(EdgesOf(r)) \in Nat
    BY StateFacts, Zenon
  <2> QED
    BY <2>1
<1>3. Promise!Candidates(r.state, e) \subseteq DOMAIN EdgesOf(r)
  BY <1>1
<1> QED
  BY <1>1, <1>2, <1>3

(* A transition holds when its guard does, judged by the cells up to it. *)
LEMMA HoldingFacts ==
  ASSUME NEW r, NEW e, NEW answers, NEW i
  PROVE  i \in Promise!Holding(r, e, answers) <=>
           /\ i \in Promise!Candidates(r.state, e)
           /\ When(EdgesOf(r)[i].guard, e, r.vars,
                   Promise!Asked(answers, Promise!Consulted(r.state, e, i)))
BY SameMachine, Zenon DEF Promise!Holding, EdgesOf

(* Every model call can fail. *)
LEMMA AnswersExist ==
  ASSUME NEW r, NEW e
  PROVE  \E answers : answers \in Promise!Answers(r.state, e)
<1>1. PICK D : MayAsk(r, e, D)
  BY AnswersFacts
<1>2. [c \in D |-> ""] \in [D -> Raws]
  BY RawsAssumption DEF RawsAssumption
<1> QED
  BY <1>1, <1>2 DEF MayAsk

(* Before the first transition every answer is possible and none is passed over. *)
LEMMA StartGuarded ==
  ASSUME NEW r, NEW e
  PROVE  Guarded(r, e, NoCells, 1)
<1>1. Ran(NoCells) = {}
  BY DEF Ran, NoCells, ZeroResult
<1>2. Promise!Consulted(r.state, e, 1 - 1) = {}
  <2>1. 1 - 1 = 0
    OBVIOUS
  <2>2. Promise!Consulted(r.state, e, 0) = {}
    BY ConsultedFacts, Zenon
  <2> QED
    BY <2>1, <2>2
<1>3. NoCells \in Results
  BY NoCellsType DEF Results
<1>4. \A answers : NoCells = Promise!Asked(answers, Ran(NoCells))
  BY <1>1, <1>3, AskedIs DEF NoCells
<1>5. \E answers : answers \in Promise!Answers(r.state, e)
  BY AnswersExist
<1>6. Possible(r, e, NoCells) # {}
  BY <1>1, <1>4, <1>5 DEF Possible
<1>7. ASSUME NEW answers, NEW j \in Promise!Holding(r, e, answers) PROVE 1 <= j
  <2>1. j \in Nat \ {0}
    BY HoldingFacts, CandidateFacts, Zenon
  <2> QED
    BY <2>1
<1> QED
  BY <1>1, <1>2, <1>6, <1>7 DEF Guarded

(* One that is not a candidate, or does not hold, is left behind. *)
LEMMA NextGuarded ==
  ASSUME NEW r, NEW e, NEW results, NEW i \in Nat \ {0}, Guarded(r, e, results, i),
         Promise!Consulted(r.state, e, i) \subseteq Ran(results),
         \A answers \in Possible(r, e, results) : i \notin Promise!Holding(r, e, answers)
  PROVE  Guarded(r, e, results, i + 1)
<1>1. Ran(results) = Promise!Consulted(r.state, e, i)
  BY DEF Guarded
<1>2. Promise!Consulted(r.state, e, i) \subseteq Promise!Consulted(r.state, e, i + 1)
  <2>1. i \in Nat
    OBVIOUS
  <2>2. Promise!Consulted(r.state, e, i + 1) =
          Promise!Consulted(r.state, e, i) \cup
          (IF i + 1 \in Promise!Candidates(r.state, e)
           THEN Declared(EdgesOf(r)[i + 1].guard) ELSE {})
    BY <2>1, ConsultedFacts, Zenon
  <2> QED
    BY <2>2, Zenon
<1>3. (i + 1) - 1 = i
  OBVIOUS
<1>4. ASSUME NEW answers \in Possible(r, e, results), NEW j \in Promise!Holding(r, e, answers)
      PROVE  i + 1 <= j
  <2>1. i <= j /\ j # i
    BY DEF Guarded
  <2>2. j \in Nat \ {0}
    BY HoldingFacts, CandidateFacts, Zenon
  <2> QED
    BY <2>1, <2>2
<1> QED
  BY <1>1, <1>2, <1>3, <1>4 DEF Guarded

(* A transition on another trigger does not hold, so it may be passed over. *)
LEMMA PassGuarded ==
  ASSUME NEW r, NEW e, NEW results, NEW i \in Nat \ {0}, Guarded(r, e, results, i),
         i \in DOMAIN EdgesOf(r), EdgesOf(r)[i].on # e.on
  PROVE  Guarded(r, e, results, i + 1)
<1>1. i \notin Promise!Candidates(r.state, e)
  BY CandidateFacts
<1>3. Promise!Consulted(r.state, e, i) = Promise!Consulted(r.state, e, i - 1)
  <2>1. Promise!Consulted(r.state, e, i) =
           Promise!Consulted(r.state, e, i - 1) \cup
           (IF i \in Promise!Candidates(r.state, e) THEN Declared(EdgesOf(r)[i].guard) ELSE {})
    BY ConsultedNext, Zenon
  <2> QED
    BY <1>1, <2>1
<1>4. Promise!Consulted(r.state, e, i) \subseteq Ran(results)
  BY <1>3 DEF Guarded
<1>5. \A answers : i \notin Promise!Holding(r, e, answers)
  BY <1>1, HoldingFacts
<1> QED
  BY <1>4, <1>5, NextGuarded

(* When the cells a guard declares have run, it is judged on the answers of  *)
(* the cells consulted so far, as in the session.                            *)
LEMMA JudgedAlike ==
  ASSUME NEW r, NEW e, NEW results, NEW i \in Nat \ {0}, Guarded(r, e, results, i),
         i \in DOMAIN EdgesOf(r), EdgesOf(r)[i].on = e.on,
         Declared(EdgesOf(r)[i].guard) \subseteq Ran(results)
  PROVE  /\ Ran(results) = Promise!Consulted(r.state, e, i)
         /\ \A answers \in Possible(r, e, results) :
               i \in Promise!Holding(r, e, answers) <=>
                  When(EdgesOf(r)[i].guard, e, r.vars, results)
<1>1. i \in Promise!Candidates(r.state, e)
  BY CandidateFacts
<1>3. Promise!Consulted(r.state, e, i) =
        Promise!Consulted(r.state, e, i - 1) \cup Declared(EdgesOf(r)[i].guard)
  BY <1>1, ConsultedNext
<1>4. Ran(results) = Promise!Consulted(r.state, e, i)
  BY <1>3 DEF Guarded
<1>5. \A answers \in Possible(r, e, results) :
         results = Promise!Asked(answers, Promise!Consulted(r.state, e, i))
  BY <1>4 DEF Possible
<1> QED
  BY <1>1, <1>4, <1>5, HoldingFacts

(* A guard that fails is false for every answer still possible. *)
LEMMA FailGuarded ==
  ASSUME NEW r, NEW e, NEW results, NEW i \in Nat \ {0}, Guarded(r, e, results, i),
         i \in DOMAIN EdgesOf(r), EdgesOf(r)[i].on = e.on,
         Declared(EdgesOf(r)[i].guard) \subseteq Ran(results),
         ~When(EdgesOf(r)[i].guard, e, r.vars, results)
  PROVE  Guarded(r, e, results, i + 1)
<1>1. Promise!Consulted(r.state, e, i) \subseteq Ran(results)
  BY JudgedAlike
<1>2. \A answers \in Possible(r, e, results) : i \notin Promise!Holding(r, e, answers)
  BY JudgedAlike
<1> QED
  BY <1>1, <1>2, NextGuarded

(* A cell the guard declares is asked. *)
LEMMA AskGuarded ==
  ASSUME NEW r, NEW e, NEW results \in Results, NEW i \in Nat \ {0}, Guarded(r, e, results, i),
         i \in DOMAIN EdgesOf(r), EdgesOf(r)[i].on = e.on, NEW raw \in Raws,
         NEW c \in Declared(EdgesOf(r)[i].guard), ~results[c].ran,
         NEW next, Asks(results, c, raw, next)
  PROVE  Guarded(r, e, next, i)
<1>1. i \in Promise!Candidates(r.state, e)
  BY CandidateFacts
<1>2. c \in Promise!Consulted(r.state, e, i)
  BY <1>1, ConsultedNext
<1>3. PICK D : /\ MayAsk(r, e, D)
               /\ \A k \in Int : Promise!Consulted(r.state, e, k) \subseteq D
  BY AnswersFacts, Zenon
<1>4. c \in D \cap DOMAIN M.cells
  BY <1>2, <1>3 DEF Declared
<1>5. MayAsk(r, e, D) /\ Possible(r, e, results) # {}
  BY <1>3 DEF Guarded
<1>6. /\ Ran(next) = Ran(results) \cup {c}
      /\ Possible(r, e, next) # {}
      /\ Possible(r, e, next) \subseteq Possible(r, e, results)
  BY <1>4, <1>5, RunNarrows
<1> QED
  BY <1>2, <1>6 DEF Guarded

-----------------------------------------------------------------------------
(* The effects are performed one after the other. *)
LEMMA FirstIsLeast ==
  ASSUME NEW holding \in SUBSET Nat, NEW i, Least(i, holding)
  PROVE  Promise!First(holding) = i
<1>1. i \in holding /\ \A j \in holding : i <= j
  BY DEF Least
<1> DEFINE first == CHOOSE k \in holding : \A j \in holding : k <= j
<1>2. first \in holding /\ \A j \in holding : first <= j
  BY <1>1
<1>3. Promise!First(holding) = first
  BY Zenon DEF Promise!First
<1> HIDE DEF first
<1> QED
  BY <1>1, <1>2, <1>3

(* The transitions that hold are positions among the transitions. *)
LEMMA HoldingAreNumbers ==
  ASSUME NEW r, NEW e, NEW answers
  PROVE  Promise!Holding(r, e, answers) \subseteq DOMAIN EdgesOf(r) \cap (Nat \ {0})
<1> SUFFICES ASSUME NEW j \in Promise!Holding(r, e, answers)
             PROVE  j \in DOMAIN EdgesOf(r) \cap (Nat \ {0})
  OBVIOUS
<1>1. j \in Promise!Candidates(r.state, e)
  BY HoldingFacts
<1>2. Promise!Candidates(r.state, e) \subseteq DOMAIN EdgesOf(r)
  BY CandidateFacts, Zenon
<1>3. Promise!Candidates(r.state, e) \subseteq Nat \ {0}
  BY CandidateFacts, Zenon
<1> QED
  BY <1>1, <1>2, <1>3

(* The effects performed are those of the least transition that holds. *)
LEMMA EffectedIsPerformed ==
  ASSUME NEW r, NEW e, NEW answers, NEW i, Least(i, Promise!Holding(r, e, answers)), NEW n
  PROVE  Promise!Effected(r, e, answers, n) =
           Promise!Performed(EdgesOf(r)[i].do, n, r.vars,
              Promise!Asked(answers, Promise!Consulted(r.state, e, i)), answers)
<1>1. Promise!First(Promise!Holding(r, e, answers)) = i
  BY HoldingAreNumbers, FirstIsLeast
<1> QED
  BY <1>1, SameMachine, Zenon DEF Promise!Effected, EdgesOf

(* They are performed one after the other, from the vars of the record. *)
LEMMA EffectedSteps ==
  ASSUME NEW r \in Persisted, NEW e, NEW answers \in Promise!Answers(r.state, e),
         NEW i, Least(i, Promise!Holding(r, e, answers))
  PROVE  /\ Promise!Effected(r, e, answers, 0) =
              [vars |-> r.vars, out |-> NoOutput,
               cells |-> Promise!Asked(answers, Promise!Consulted(r.state, e, i))]
         /\ \A n \in 1 .. Len(EdgesOf(r)[i].do) :
               Promise!Effected(r, e, answers, n) =
                  Promise!OneEffect(EdgesOf(r)[i].do[n], Promise!Effected(r, e, answers, n - 1),
                                    answers)
<1> DEFINE do == EdgesOf(r)[i].do
           asked == Promise!Asked(answers, Promise!Consulted(r.state, e, i))
<1>1. i \in DOMAIN EdgesOf(r) /\ i \in Nat \ {0} /\ i \in Promise!Candidates(r.state, e)
  BY HoldingAreNumbers, HoldingFacts DEF Least
<1>2. do \in Seq(Effect) /\ SoundTransition(EdgesOf(r)[i])
  BY <1>1, StateFacts
<1>3. PICK D : /\ MayAsk(r, e, D)
               /\ \A k \in Int : Promise!Consulted(r.state, e, k) \subseteq D
               /\ \A k \in Promise!Candidates(r.state, e) : \A j \in DOMAIN EdgesOf(r)[k].do :
                     EdgesOf(r)[k].do[j].kind = "Run" => EdgesOf(r)[k].do[j].name \in D
  BY AnswersFacts, Zenon
<1>4. \A c \in D : answers[c] \in Raws
  BY <1>3 DEF MayAsk
<1>5. asked \in Results
  BY <1>1, <1>3, <1>4, AskedType
<1>6. \A j \in DOMAIN do : do[j].kind = "Run" =>
         do[j].name \in DOMAIN M.cells /\ answers[do[j].name] \in Raws
  BY <1>1, <1>2, <1>3, <1>4 DEF SoundTransition
<1>7. r.vars \in Vars
  BY DEF Persisted
<1>8. \A n : Promise!Effected(r, e, answers, n) =
               Promise!Performed(do, n, r.vars, asked, answers)
  BY EffectedIsPerformed
<1> HIDE DEF do, asked
<1>9. /\ Promise!Performed(do, 0, r.vars, asked, answers) =
           [vars |-> r.vars, cells |-> asked, out |-> NoOutput]
      /\ \A n \in 1 .. Len(do) :
            Promise!Performed(do, n, r.vars, asked, answers) =
               Promise!OneEffect(do[n], Promise!Performed(do, n - 1, r.vars, asked, answers),
                                 answers)
  BY <1>2, <1>5, <1>6, <1>7, PerformedSteps
<1> QED
  BY <1>8, <1>9 DEF do, asked


(* A guard that holds makes its transition the first for every possible answer. *)
LEMMA HoldEffecting ==
  ASSUME NEW r \in Persisted, NEW e, NEW results, NEW i \in Nat \ {0}, Guarded(r, e, results, i),
         i \in DOMAIN EdgesOf(r), EdgesOf(r)[i].on = e.on,
         Declared(EdgesOf(r)[i].guard) \subseteq Ran(results),
         When(EdgesOf(r)[i].guard, e, r.vars, results)
  PROVE  Effecting(r, e, results, i, 0, r.vars, NoOutput)
<1>1. /\ Ran(results) = Promise!Consulted(r.state, e, i)
      /\ \A answers \in Possible(r, e, results) : i \in Promise!Holding(r, e, answers)
  BY JudgedAlike
<1>2. ASSUME NEW answers \in Possible(r, e, results)
      PROVE  /\ Least(i, Promise!Holding(r, e, answers))
             /\ Promise!Effected(r, e, answers, 0) =
                   [vars |-> r.vars, cells |-> results, out |-> NoOutput]
  <2>1. Least(i, Promise!Holding(r, e, answers))
    BY <1>1 DEF Guarded, Least
  <2>2. /\ answers \in Promise!Answers(r.state, e)
        /\ results = Promise!Asked(answers, Promise!Consulted(r.state, e, i))
    BY <1>1 DEF Possible
  <2>3. Promise!Effected(r, e, answers, 0) =
          [vars |-> r.vars, out |-> NoOutput,
           cells |-> Promise!Asked(answers, Promise!Consulted(r.state, e, i))]
    BY <2>1, <2>2, EffectedSteps
  <2> QED
    BY <2>1, <2>2, <2>3
<1>3. Possible(r, e, results) # {}
  BY DEF Guarded
<1> QED
  BY <1>2, <1>3 DEF Effecting

(* One effect of the session's step, in the hook's terms. *)
LEMMA OneEffectIs ==
  ASSUME NEW f, NEW memory, NEW results, NEW o, NEW answers
  PROVE  Promise!OneEffect(f, [vars |-> memory, cells |-> results, out |-> o], answers) =
           [vars  |-> Remember(f, memory, results),
            cells |-> IF f.kind = "Run" /\ ~results[f.name].ran
                      THEN [results EXCEPT ![f.name] = Check(f.name, answers[f.name])]
                      ELSE results,
            out   |-> Perform(f, o, memory, results)]
<1> DEFINE was == [vars |-> memory, cells |-> results, out |-> o]
<1>1. was.vars = memory /\ was.cells = results /\ was.out = o
  OBVIOUS
<1> HIDE DEF was
<1>2. Promise!OneEffect(f, was, answers) =
           [vars  |-> Remember(f, was.vars, was.cells),
            cells |-> IF f.kind = "Run" /\ ~was.cells[f.name].ran
                      THEN [was.cells EXCEPT ![f.name] = Check(f.name, answers[f.name])]
                      ELSE was.cells,
            out   |-> Perform(f, was.out, was.vars, was.cells)]
  BY SameMachine, Zenon DEF Promise!OneEffect
<1>3. Promise!OneEffect(f, was, answers) =
           [vars  |-> Remember(f, memory, results),
            cells |-> IF f.kind = "Run" /\ ~results[f.name].ran
                      THEN [results EXCEPT ![f.name] = Check(f.name, answers[f.name])]
                      ELSE results,
            out   |-> Perform(f, o, memory, results)]
  BY <1>1, <1>2, Zenon
<1> QED
  BY <1>3, Zenon DEF was

(* An effect that asks no cell. *)
LEMMA ApplyEffecting ==
  ASSUME NEW r \in Persisted, NEW e, NEW results \in Results, NEW i, NEW n \in Nat,
         NEW memory, NEW o, Effecting(r, e, results, i, n, memory, o),
         n + 1 \in DOMAIN EdgesOf(r)[i].do,
         NEW f, f = EdgesOf(r)[i].do[n + 1], f.kind = "Run" => results[f.name].ran
  PROVE  Effecting(r, e, results, i, n + 1,
                   Remember(f, memory, results), Perform(f, o, memory, results))
<1> SUFFICES ASSUME NEW answers \in Possible(r, e, results)
             PROVE  Promise!Effected(r, e, answers, n + 1) =
                      [vars  |-> Remember(f, memory, results), cells |-> results,
                       out   |-> Perform(f, o, memory, results)]
  BY DEF Effecting
<1>1. /\ Least(i, Promise!Holding(r, e, answers))
      /\ Promise!Effected(r, e, answers, n) = [vars |-> memory, cells |-> results, out |-> o]
  BY DEF Effecting
<1>2. answers \in Promise!Answers(r.state, e)
  BY DEF Possible
<1>3. i \in DOMAIN EdgesOf(r)
  BY <1>1, HoldingAreNumbers DEF Least
<1>4. n + 1 \in 1 .. Len(EdgesOf(r)[i].do) /\ (n + 1) - 1 = n
  BY <1>3, StateFacts
<1>5. \A k \in 1 .. Len(EdgesOf(r)[i].do) :
         Promise!Effected(r, e, answers, k) =
            Promise!OneEffect(EdgesOf(r)[i].do[k], Promise!Effected(r, e, answers, k - 1), answers)
  BY <1>1, <1>2, EffectedSteps
<1>6. Promise!Effected(r, e, answers, n + 1) =
        Promise!OneEffect(f, [vars |-> memory, cells |-> results, out |-> o], answers)
  BY <1>1, <1>4, <1>5
<1>7. Promise!OneEffect(f, [vars |-> memory, cells |-> results, out |-> o], answers) =
        [vars  |-> Remember(f, memory, results), cells |-> results,
         out   |-> Perform(f, o, memory, results)]
  BY OneEffectIs, Zenon
<1> QED
  BY <1>6, <1>7

(* An effect that asks one. *)
LEMMA AskEffecting ==
  ASSUME NEW r \in Persisted, NEW e, NEW results \in Results, NEW i, NEW n \in Nat,
         NEW memory, NEW o, Effecting(r, e, results, i, n, memory, o),
         n + 1 \in DOMAIN EdgesOf(r)[i].do,
         NEW f, f = EdgesOf(r)[i].do[n + 1], f.kind = "Run", ~results[f.name].ran,
         NEW raw \in Raws, NEW next, Asks(results, f.name, raw, next)
  PROVE  Effecting(r, e, next, i, n + 1, memory, o)
<1>0. PICK old \in Possible(r, e, results) : Least(i, Promise!Holding(r, e, old))
  BY DEF Effecting
<1>1. i \in DOMAIN EdgesOf(r) /\ i \in Promise!Candidates(r.state, e)
  BY <1>0, HoldingAreNumbers, HoldingFacts DEF Least
<1>2. PICK D : /\ MayAsk(r, e, D)
               /\ \A k \in Promise!Candidates(r.state, e) : \A j \in DOMAIN EdgesOf(r)[k].do :
                     EdgesOf(r)[k].do[j].kind = "Run" => EdgesOf(r)[k].do[j].name \in D
  BY AnswersFacts, Zenon
<1>3. f.name \in D
  BY <1>1, <1>2
<1>4. f.name \in DOMAIN M.cells
  BY <1>1, StateFacts DEF SoundTransition
<1>5. /\ Possible(r, e, next) # {}
      /\ Possible(r, e, next) \subseteq Possible(r, e, results)
      /\ \A answers \in Possible(r, e, next) : Check(f.name, answers[f.name]) = Check(f.name, raw)
  <2>1. f.name \in D \cap DOMAIN M.cells
    BY <1>3, <1>4
  <2>2. Possible(r, e, results) # {}
    BY DEF Effecting
  <2> QED
    BY <1>2, <2>1, <2>2, RunNarrows
<1>6. ASSUME NEW answers \in Possible(r, e, next)
      PROVE  /\ Least(i, Promise!Holding(r, e, answers))
             /\ Promise!Effected(r, e, answers, n + 1) =
                   [vars |-> memory, cells |-> next, out |-> o]
  <2>1. /\ Least(i, Promise!Holding(r, e, answers))
        /\ Promise!Effected(r, e, answers, n) = [vars |-> memory, cells |-> results, out |-> o]
    BY <1>5 DEF Effecting
  <2>2. answers \in Promise!Answers(r.state, e)
    BY DEF Possible
  <2>3. n + 1 \in 1 .. Len(EdgesOf(r)[i].do) /\ (n + 1) - 1 = n
    BY <1>1, StateFacts
  <2>4. \A k \in 1 .. Len(EdgesOf(r)[i].do) :
           Promise!Effected(r, e, answers, k) =
              Promise!OneEffect(EdgesOf(r)[i].do[k], Promise!Effected(r, e, answers, k - 1), answers)
    BY <2>1, <2>2, EffectedSteps
  <2>5. Promise!Effected(r, e, answers, n + 1) =
          Promise!OneEffect(f, [vars |-> memory, cells |-> results, out |-> o], answers)
    BY <2>1, <2>3, <2>4
  <2>6. [results EXCEPT ![f.name] = Check(f.name, answers[f.name])] = next
    <3>1. Check(f.name, answers[f.name]) = Check(f.name, raw)
      BY <1>5
    <3> QED
      BY <3>1 DEF Asks, Results
  <2>7. Promise!OneEffect(f, [vars |-> memory, cells |-> results, out |-> o], answers) =
          [vars  |-> Remember(f, memory, results),
           cells |-> [results EXCEPT ![f.name] = Check(f.name, answers[f.name])],
           out   |-> Perform(f, o, memory, results)]
    BY OneEffectIs, Zenon
  <2>8. Remember(f, memory, results) = memory /\ Perform(f, o, memory, results) = o
    BY DEF Remember, Perform
  <2> QED
    BY <2>1, <2>5, <2>6, <2>7, <2>8
<1> QED
  BY <1>5, <1>6 DEF Effecting

-----------------------------------------------------------------------------
(* What a dispatch has come to: a step of the session, but for the lints,    *)
(* which are no part of its answer.                                          *)
Unlinted(o) == [o EXCEPT !.lint = {}]

Stepped(r, e, c, o) ==
    \E answers \in Promise!Answers(r.state, e) :
        Promise!Outcome(r, e, answers) = [record |-> c, out |-> Unlinted(o)]

GuardPanicked(r, e, c, o) ==
    /\ "guardpanic" \in Faults
    /\ Promise!Candidates(r.state, e) # {}
    /\ c = r /\ o = NoOutput

EffectPanicked(r, e, c, o) ==
    /\ "effectpanic" \in Faults
    /\ Promise!Candidates(r.state, e) # {}
    /\ \E answers \in Promise!Answers(r.state, e) :
          /\ Promise!Holding(r, e, answers) # {}
          /\ \E n \in 1 .. Len(EdgesOf(r)[Promise!First(Promise!Holding(r, e, answers))].do) :
                c = [r EXCEPT !.vars = Promise!Effected(r, e, answers, n - 1).vars]
    /\ o = NoOutput

Settled(r, e, c, o) ==
    \/ Stepped(r, e, c, o)
    \/ Awake(r) /\ GuardPanicked(r, e, c, o)
    \/ Awake(r) /\ EffectPanicked(r, e, c, o)

(* Silence and the exhausted budget carry no lint. *)
LEMMA UnlintedSilence ==
  Unlinted(NoOutput) = NoOutput /\ \A t : Unlinted(Exhausted(t)) = Exhausted(t)
<1>1. Unlinted(NoOutput) = NoOutput
  <2>1. NoOutput \in Output /\ NoOutput.lint = {}
    BY OutputType DEF NoOutput
  <2> QED
    BY <2>1 DEF Unlinted, Output
<1>2. ASSUME NEW t PROVE Unlinted(Exhausted(t)) = Exhausted(t)
  <2> DEFINE text == IF t \in Gating THEN <<"budget exhausted">> ELSE <<>>
  <2>1. Exhausted(t) = [NoOutput EXCEPT !.halt = TRUE, !.inject = text]
    BY DEF Exhausted
  <2> HIDE DEF text
  <2>2. Exhausted(t) \in Output /\ Exhausted(t).lint = {}
    BY <2>1, OutputType DEF NoOutput
  <2> QED
    BY <2>2 DEF Unlinted, Output
<1> QED
  BY <1>1, <1>2

(* The session's step, case by case. *)
LEMMA OutcomeAsleep ==
  ASSUME NEW r, NEW e, NEW answers, Lookup(r.state).terminal
  PROVE  Promise!Outcome(r, e, answers) = [record |-> r, out |-> NoOutput]
BY SameMachine, Zenon DEF Promise!Outcome

(* With the budget spent the step is the exhausted output ... *)
LEMMA OutcomeSpent ==
  ASSUME NEW r, NEW e, NEW answers, ~Lookup(r.state).terminal, r.fuel = 0
  PROVE  Promise!Outcome(r, e, answers) = [record |-> r, out |-> Exhausted(e.on)]
BY SameMachine DEF Promise!Outcome

(* ... when nothing holds it changes nothing ... *)
LEMMA OutcomeNoMatch ==
  ASSUME NEW r, NEW e, NEW answers, Awake(r), Promise!Holding(r, e, answers) = {}
  PROVE  Promise!Outcome(r, e, answers) = [record |-> r, out |-> NoOutput]
<1>1. ~Promise!Lookup(r.state).terminal /\ r.fuel > 0 /\ ~(r.fuel = 0)
  BY SameMachine DEF Awake
<1> QED
  BY <1>1, SameMachine, Zenon DEF Promise!Outcome

(* ... and otherwise the first transition that holds is taken, for one unit of fuel. *)
LEMMA OutcomeFires ==
  ASSUME NEW r \in Persisted, NEW e, NEW answers, Awake(r),
         NEW i, Least(i, Promise!Holding(r, e, answers)), NEW memory, NEW results, NEW o,
         Promise!Effected(r, e, answers, Len(EdgesOf(r)[i].do)) =
            [vars |-> memory, cells |-> results, out |-> o]
  PROVE  Promise!Outcome(r, e, answers) =
           [record |-> [state |-> EdgesOf(r)[i].to, fuel |-> r.fuel - 1, vars |-> memory],
            out    |-> o]
<1>1. ~Promise!Lookup(r.state).terminal /\ ~(r.fuel = 0)
  BY SameMachine DEF Awake
<1>2. Promise!Holding(r, e, answers) # {}
  BY DEF Least
<1>3. Promise!First(Promise!Holding(r, e, answers)) = i
  BY HoldingAreNumbers, FirstIsLeast
<1>4. Promise!Lookup(r.state).on = EdgesOf(r)
  BY SameMachine DEF EdgesOf
<1> DEFINE done == Promise!Effected(r, e, answers, Len(EdgesOf(r)[i].do))
<1>5. done.vars = memory /\ done.out = o
  OBVIOUS
<1>6. Promise!Outcome(r, e, answers) =
        [record |-> [state |-> EdgesOf(r)[i].to, fuel |-> r.fuel - 1, vars |-> done.vars],
         out    |-> done.out]
  BY <1>1, <1>2, <1>3, <1>4, Zenon DEF Promise!Outcome
<1> HIDE DEF done
<1> QED
  BY <1>5, <1>6

(* A terminal state, and a spent budget. *)
LEMMA SettleAsleep ==
  ASSUME NEW r, NEW e, Lookup(r.state).terminal
  PROVE  Settled(r, e, r, NoOutput)
<1>1. PICK answers \in Promise!Answers(r.state, e) : TRUE
  BY AnswersExist
<1>2. Promise!Outcome(r, e, answers) = [record |-> r, out |-> Unlinted(NoOutput)]
  BY OutcomeAsleep, UnlintedSilence
<1> QED
  BY <1>1, <1>2 DEF Settled, Stepped

(* A spent budget settles the dispatch as well. *)
LEMMA SettleSpent ==
  ASSUME NEW r, NEW e, ~Lookup(r.state).terminal, r.fuel = 0
  PROVE  Settled(r, e, r, Exhausted(e.on))
<1>1. PICK answers \in Promise!Answers(r.state, e) : TRUE
  BY AnswersExist
<1>2. Promise!Outcome(r, e, answers) = [record |-> r, out |-> Unlinted(Exhausted(e.on))]
  BY OutcomeSpent, UnlintedSilence
<1> QED
  BY <1>1, <1>2 DEF Settled, Stepped

(* No transition holds. *)
LEMMA SettleNoMatch ==
  ASSUME NEW r, NEW e, NEW results, NEW i \in Nat, Awake(r), Guarded(r, e, results, i),
         i > Len(EdgesOf(r)), NEW o, Unlinted(o) = NoOutput
  PROVE  Settled(r, e, r, o)
<1>1. PICK answers \in Possible(r, e, results) : \A j \in Promise!Holding(r, e, answers) : i <= j
  BY DEF Guarded
<1>2. Promise!Holding(r, e, answers) = {}
  <2> SUFFICES ASSUME NEW j \in Promise!Holding(r, e, answers) PROVE FALSE
    OBVIOUS
  <2>1. j \in DOMAIN EdgesOf(r) /\ i <= j
    BY <1>1, HoldingAreNumbers
  <2>2. Len(EdgesOf(r)) \in Nat /\ j \in 1 .. Len(EdgesOf(r))
    BY <2>1, StateFacts
  <2> QED
    BY <2>1, <2>2
<1>3. Promise!Outcome(r, e, answers) = [record |-> r, out |-> Unlinted(o)]
  BY <1>2, OutcomeNoMatch
<1>4. answers \in Promise!Answers(r.state, e)
  BY DEF Possible
<1> QED
  BY <1>3, <1>4 DEF Settled, Stepped

(* A transition fires. *)
LEMMA SettleFires ==
  ASSUME NEW r \in Persisted, NEW e, NEW results, NEW i, NEW memory, NEW o, Awake(r),
         Effecting(r, e, results, i, Len(EdgesOf(r)[i].do), memory, Unlinted(o))
  PROVE  Settled(r, e, [state |-> EdgesOf(r)[i].to, fuel |-> r.fuel - 1, vars |-> memory], o)
<1> DEFINE c == [state |-> EdgesOf(r)[i].to, fuel |-> r.fuel - 1, vars |-> memory]
           last == Len(EdgesOf(r)[i].do)
<1>1. PICK answers \in Possible(r, e, results) :
         /\ Least(i, Promise!Holding(r, e, answers))
         /\ Promise!Effected(r, e, answers, last) =
              [vars |-> memory, cells |-> results, out |-> Unlinted(o)]
  BY DEF Effecting
<1>2. Promise!Outcome(r, e, answers) = [record |-> c, out |-> Unlinted(o)]
  BY <1>1, OutcomeFires
<1>3. answers \in Promise!Answers(r.state, e)
  BY DEF Possible
<1> HIDE DEF c
<1>4. Settled(r, e, c, o)
  BY <1>2, <1>3 DEF Settled, Stepped
<1> QED
  BY <1>4 DEF c

(* A guard panics, or an effect does. *)
LEMMA SettleGuardPanic ==
  ASSUME NEW r, NEW e, NEW i, Awake(r), "guardpanic" \in Faults,
         i \in DOMAIN EdgesOf(r), EdgesOf(r)[i].on = e.on
  PROVE  Settled(r, e, r, NoOutput)
<1>1. i \in Promise!Candidates(r.state, e)
  BY CandidateFacts
<1> QED
  BY <1>1 DEF Settled, GuardPanicked

(* A panic in an effect keeps what the effects before it wrote to the vars. *)
LEMMA SettleEffectPanic ==
  ASSUME NEW r \in Persisted, NEW e, NEW results, NEW i, NEW n \in Nat, NEW memory, NEW o,
         Awake(r), "effectpanic" \in Faults, Effecting(r, e, results, i, n, memory, o),
         n + 1 \in DOMAIN EdgesOf(r)[i].do
  PROVE  Settled(r, e, [r EXCEPT !.vars = memory], NoOutput)
<1> DEFINE c == [r EXCEPT !.vars = memory]
<1>1. PICK answers \in Possible(r, e, results) :
         /\ Least(i, Promise!Holding(r, e, answers))
         /\ Promise!Effected(r, e, answers, n) = [vars |-> memory, cells |-> results, out |-> o]
  BY DEF Effecting
<1>2. answers \in Promise!Answers(r.state, e)
  BY DEF Possible
<1>3. /\ Promise!First(Promise!Holding(r, e, answers)) = i
      /\ Promise!Holding(r, e, answers) # {}
  BY <1>1, HoldingAreNumbers, FirstIsLeast DEF Least
<1>4. i \in DOMAIN EdgesOf(r) /\ i \in Promise!Candidates(r.state, e)
  BY <1>1, HoldingAreNumbers, HoldingFacts DEF Least
<1>5. n + 1 \in 1 .. Len(EdgesOf(r)[i].do) /\ (n + 1) - 1 = n
  BY <1>4, StateFacts
<1>6. Promise!Effected(r, e, answers, n).vars = memory
  BY <1>1
<1>7. c = [r EXCEPT !.vars = Promise!Effected(r, e, answers, (n + 1) - 1).vars]
  BY <1>5, <1>6
<1> HIDE DEF c
<1>8. \E k \in 1 .. Len(EdgesOf(r)[Promise!First(Promise!Holding(r, e, answers))].do) :
         c = [r EXCEPT !.vars = Promise!Effected(r, e, answers, k - 1).vars]
  BY <1>3, <1>5, <1>7
<1>9. Settled(r, e, c, NoOutput)
  BY <1>2, <1>3, <1>4, <1>8 DEF Settled, EffectPanicked
<1> QED
  BY <1>9 DEF c

-----------------------------------------------------------------------------
(* The lints are no part of what an output says. *)
LEMMA UnlintedFacts ==
  ASSUME NEW o \in Output
  PROVE  /\ Unlinted(o).emits = o.emits
         /\ \A t : Rendered(Unlinted(o), t) = Rendered(o, t)
         /\ \A lint : Unlinted([o EXCEPT !.lint = lint]) = Unlinted(o)
<1>1. /\ Unlinted(o).inject = o.inject /\ Unlinted(o).block = o.block
      /\ Unlinted(o).emits = o.emits /\ Unlinted(o).halt = o.halt
  BY DEF Unlinted, Output
<1>2. \A t : Rendered(Unlinted(o), t) = Rendered(o, t)
  BY <1>1, Zenon DEF Rendered, Refused
<1>3. \A lint : Unlinted([o EXCEPT !.lint = lint]) = Unlinted(o)
  BY DEF Unlinted, Output
<1> QED
  BY <1>1, <1>2, <1>3

(* Performing an effect does not look at the lints. *)
LEMMA PerformUnlinted ==
  ASSUME NEW o \in Output, NEW f, NEW memory, NEW results
  PROVE  Unlinted(Perform(f, o, memory, results)) = Perform(f, Unlinted(o), memory, results)
<1> DEFINE text == Resolve(f.text, memory, results)
           message == [target |-> f.name, message |-> text]
<1>1. Perform(f, o, memory, results) =
        CASE f.kind = "Inject" -> [o EXCEPT !.inject = Append(@, text)]
          [] f.kind = "Block"  -> [o EXCEPT !.block = {text}]
          [] f.kind = "Emit"   -> [o EXCEPT !.emits = Append(@, message)]
          [] OTHER -> o
  BY DEF Perform
<1>2. Perform(f, Unlinted(o), memory, results) =
        CASE f.kind = "Inject" -> [Unlinted(o) EXCEPT !.inject = Append(@, text)]
          [] f.kind = "Block"  -> [Unlinted(o) EXCEPT !.block = {text}]
          [] f.kind = "Emit"   -> [Unlinted(o) EXCEPT !.emits = Append(@, message)]
          [] OTHER -> Unlinted(o)
  BY DEF Perform
<1> HIDE DEF text, message
<1>3. CASE f.kind = "Inject"
  BY <1>1, <1>2, <1>3 DEF Unlinted, Output
<1>4. CASE f.kind = "Block"
  BY <1>1, <1>2, <1>4 DEF Unlinted, Output
<1>5. CASE f.kind = "Emit"
  BY <1>1, <1>2, <1>5 DEF Unlinted, Output
<1>6. CASE f.kind \notin {"Inject", "Block", "Emit"}
  BY <1>1, <1>2, <1>6
<1> QED
  BY <1>3, <1>4, <1>5, <1>6

-----------------------------------------------------------------------------
(* While a process is alone the record stays what it loaded, until it         *)
(* replaces it; what it holds is how far the dispatch has come from there.    *)
Kept(p) ==
    LET r == Loaded(stateFile)
        e == event[p]
    IN  /\ pc[p] # "idle" => e \in Events
        /\ pc[p] \in {"idle", "load", "dispatch"} => cells[p] = NoCells /\ out[p] = NoOutput
        /\ pc[p] = "dispatch" => ctx[p] = r
        /\ pc[p] = "guard" =>
              /\ ctx[p] = r /\ Awake(r) /\ Unlinted(out[p]) = NoOutput
              /\ at[p] # 0 /\ Guarded(r, e, cells[p], at[p])
        /\ pc[p] = "effects" =>
              /\ ctx[p] = [r EXCEPT !.vars = ctx[p].vars] /\ Awake(r)
              /\ eff[p] \in 1 .. Len(Edge(p).do) + 1
              /\ Effecting(r, e, cells[p], at[p], eff[p] - 1, ctx[p].vars, Unlinted(out[p]))
        /\ pc[p] \in {"save", "write", "rename"} => Settled(r, e, ctx[p], out[p])
        /\ pc[p] = "write" => handle[p] = "tmp" /\ tmpFile = Empty
        /\ pc[p] = "rename" => tmpFile = Whole(ctx[p])

KeptInv == TypeInv /\ \A p \in Procs : Kept(p)

(* Initially no process has begun. *)
LEMMA KeptInit == Init => KeptInv
<1> SUFFICES ASSUME Init PROVE KeptInv
  OBVIOUS
<1>1. ASSUME NEW p \in Procs PROVE Kept(p)
  BY DEF Init, Kept
<1> QED
  BY <1>1, TypeInit DEF KeptInv

(* There is only one process to look at. *)
LEMMA KeptFrame ==
  ASSUME Solo, TypeInv', NEW p \in Procs, Kept(p)'
  PROVE  KeptInv'
<1>1. ASSUME NEW q \in Procs PROVE Kept(q)'
  <2>1. q = p
    BY DEF Solo
  <2> QED
    BY <2>1
<1> QED
  BY <1>1 DEF KeptInv

(* What is known of a process and its record. *)
LEMMA KeptTypes ==
  ASSUME KeptInv, NEW p \in Procs
  PROVE  /\ Loaded(stateFile) \in Persisted
         /\ pc[p] \in Phase /\ event[p] \in Event /\ ctx[p] \in Persisted
         /\ cells[p] \in Results /\ at[p] \in Nat /\ eff[p] \in Nat /\ out[p] \in Output
         /\ DOMAIN pc = Procs /\ DOMAIN event = Procs /\ DOMAIN ctx = Procs
         /\ DOMAIN cells = Procs /\ DOMAIN at = Procs /\ DOMAIN eff = Procs
         /\ DOMAIN out = Procs /\ DOMAIN handle = Procs
         /\ Kept(p)
BY LoadedType DEF KeptInv, TypeInv, TypeOK, FileTypeOK, Results

(* A process is started ... *)
LEMMA KeptStart ==
  ASSUME KeptInv, NEW p \in Procs, NEW e \in Events, Start(p, e) PROVE Kept(p)'
BY KeptTypes DEF Start, Goto, Kept, fileVars

(* ... loads the record on disk ... *)
LEMMA KeptLoad ==
  ASSUME KeptInv, NEW p \in Procs, Load(p) PROVE Kept(p)'
BY KeptTypes DEF Load, Goto, Kept, fileVars

(* ... and finds a terminal state, a spent budget or transitions to consider. *)
LEMMA KeptDispatch ==
  ASSUME KeptInv, NEW p \in Procs, TerminalState(p) \/ BudgetHalt(p) \/ Consider(p)
  PROVE  Kept(p)'
<1>1. /\ Loaded(stateFile) \in Persisted
      /\ pc[p] = "dispatch" /\ cells[p] = NoCells /\ out[p] = NoOutput
      /\ ctx[p] = Loaded(stateFile) /\ event[p] \in Events
  BY KeptTypes DEF Kept, TerminalState, BudgetHalt, Consider
<1>2. CASE TerminalState(p)
  <2>1. Settled(Loaded(stateFile), event[p], ctx[p], out[p])
    BY <1>1, <1>2, SettleAsleep DEF TerminalState
  <2> QED
    BY <1>1, <1>2, <2>1, KeptTypes DEF TerminalState, Goto, Kept, fileVars
<1>3. CASE BudgetHalt(p)
  <2>1. Settled(Loaded(stateFile), event[p], ctx[p], Exhausted(event[p].on))
    BY <1>1, <1>3, SettleSpent DEF BudgetHalt
  <2> QED
    BY <1>1, <1>3, <2>1, KeptTypes DEF BudgetHalt, Goto, Kept, fileVars
<1>4. CASE Consider(p)
  <2>1. Guarded(Loaded(stateFile), event[p], cells[p], 1)
    BY <1>1, StartGuarded
  <2>2. Awake(Loaded(stateFile)) /\ Unlinted(out[p]) = NoOutput
    BY <1>1, <1>4, UnlintedSilence DEF Consider, Awake
  <2> QED
    <3>1. /\ pc'[p] = "guard" /\ at'[p] = 1 /\ stateFile' = stateFile
          /\ UNCHANGED <<event, ctx, cells, out>>
      BY <1>4, KeptTypes DEF Consider, Goto, fileVars
    <3>2. Guarded(Loaded(stateFile), event[p], cells[p], at[p])'
      BY <2>1, <3>1
    <3> QED
      BY <1>1, <2>2, <3>1, <3>2 DEF Kept
<1> QED
  BY <1>2, <1>3, <1>4

(* While the transitions are considered ... *)
LEMMA KeptGuard ==
  ASSUME KeptInv, NEW p \in Procs, pc'[p] = "guard",
         UNCHANGED <<event, ctx, stateFile>>, ctx[p] = Loaded(stateFile), event[p] \in Events,
         Awake(ctx[p]), Unlinted(out'[p]) = NoOutput, at'[p] # 0,
         Guarded(ctx[p], event[p], cells'[p], at'[p])
  PROVE  Kept(p)'
<1>1. Guarded(Loaded(stateFile), event[p], cells[p], at[p])'
  OBVIOUS
<1> QED
  BY <1>1 DEF Kept

(* What is known of a process that considers a transition. *)
LEMMA AtGuardFacts ==
  ASSUME KeptInv, NEW p \in Procs, pc[p] = "guard"
  PROVE  /\ ctx[p] = Loaded(stateFile) /\ ctx[p] \in Persisted /\ event[p] \in Events
         /\ Awake(ctx[p]) /\ Unlinted(out[p]) = NoOutput /\ out[p] \in Output
         /\ at[p] \in Nat \ {0} /\ Guarded(ctx[p], event[p], cells[p], at[p])
         /\ Edges(p) = EdgesOf(ctx[p]) /\ Edge(p) = EdgesOf(ctx[p])[at[p]]
BY KeptTypes DEF Kept, Edges, Edge, EdgesOf

(* A transition on another trigger is passed over. *)
LEMMA KeptPassOver ==
  ASSUME KeptInv, NEW p \in Procs, PassOver(p) PROVE Kept(p)'
<1>1. Guarded(ctx[p], event[p], cells[p], at[p] + 1)
  BY AtGuardFacts, PassGuarded DEF PassOver
<1>2. /\ pc'[p] = "guard" /\ at'[p] = at[p] + 1
      /\ UNCHANGED <<event, ctx, cells, out, stateFile>>
  BY KeptTypes DEF PassOver, fileVars
<1> QED
  BY <1>1, <1>2, AtGuardFacts, KeptGuard DEF PassOver

(* A cell the guard declares is run. *)
LEMMA KeptRunCell ==
  ASSUME KeptInv, NEW p \in Procs, NEW c \in DOMAIN M.cells, NEW raw \in Raws, RunCell(p, c, raw)
  PROVE  Kept(p)'
<1>1. Asks(cells[p], c, raw, [cells[p] EXCEPT ![c] = Check(c, raw)])
  BY KeptTypes, AskedOne
<1>2. /\ pc'[p] = "guard" /\ cells'[p] = [cells[p] EXCEPT ![c] = Check(c, raw)]
      /\ UNCHANGED <<event, ctx, at, out, stateFile>>
  BY KeptTypes DEF RunCell, AtGuard, fileVars
<1>3. /\ pc[p] = "guard" /\ at[p] \in DOMAIN Edges(p) /\ Edge(p).on = event[p].on
      /\ c \in Declared(Edge(p).guard) /\ ~cells[p][c].ran
  BY DEF RunCell, AtGuard
<1>4. Guarded(ctx[p], event[p], cells'[p], at[p])
  <2>1. Asks(cells[p], c, raw, cells'[p])
    BY <1>1, <1>2
  <2> QED
    BY <1>3, <2>1, AtGuardFacts, KeptTypes, AskGuarded
<1> QED
  BY <1>2, <1>3, <1>4, AtGuardFacts, KeptGuard

(* A guard is judged once its cells have run; the lints it adds do not show. *)
LEMMA JudgedFacts ==
  ASSUME KeptInv, NEW p \in Procs, AtGuard(p), CellsRun(p)
  PROVE  /\ at[p] \in DOMAIN EdgesOf(ctx[p]) /\ EdgesOf(ctx[p])[at[p]].on = event[p].on
         /\ Declared(EdgesOf(ctx[p])[at[p]].guard) \subseteq Ran(cells[p])
         /\ Linted(p)[p] = [out[p] EXCEPT !.lint = @ \cup Undeclared(Edge(p).guard)]
         /\ Unlinted(Linted(p)[p]) = NoOutput
<1>1. /\ at[p] \in DOMAIN EdgesOf(ctx[p]) /\ EdgesOf(ctx[p])[at[p]].on = event[p].on
      /\ Declared(EdgesOf(ctx[p])[at[p]].guard) \subseteq Ran(cells[p])
  BY AtGuardFacts DEF AtGuard, CellsRun, Ran, Declared
<1>2. Linted(p)[p] = [out[p] EXCEPT !.lint = @ \cup Undeclared(Edge(p).guard)]
  BY KeptTypes DEF Linted
<1>3. Unlinted(Linted(p)[p]) = Unlinted(out[p])
  BY <1>2, KeptTypes, UnlintedFacts
<1> QED
  BY <1>1, <1>2, <1>3, AtGuardFacts DEF AtGuard

(* A guard fails. *)
LEMMA KeptFail ==
  ASSUME KeptInv, NEW p \in Procs, Fail(p) PROVE Kept(p)'
<1>1. /\ pc[p] = "guard" /\ AtGuard(p) /\ CellsRun(p)
      /\ ~When(EdgesOf(ctx[p])[at[p]].guard, event[p], ctx[p].vars, cells[p])
  BY AtGuardFacts DEF Fail, AtGuard
<1>2. Guarded(ctx[p], event[p], cells[p], at[p] + 1)
  BY <1>1, AtGuardFacts, JudgedFacts, FailGuarded
<1>3. /\ pc'[p] = "guard" /\ at'[p] = at[p] + 1 /\ out'[p] = Linted(p)[p]
      /\ UNCHANGED <<event, ctx, cells, stateFile>>
  BY <1>1, KeptTypes DEF Fail, fileVars
<1>4. Unlinted(out'[p]) = NoOutput
  BY <1>1, <1>3, JudgedFacts
<1> QED
  BY <1>1, <1>2, <1>3, <1>4, AtGuardFacts, KeptGuard

(* ... while the effects are performed ... *)
LEMMA KeptEffects ==
  ASSUME KeptInv, NEW p \in Procs, pc'[p] = "effects", UNCHANGED <<event, at, stateFile>>,
         event[p] \in Events, Awake(Loaded(stateFile)),
         ctx'[p] = [Loaded(stateFile) EXCEPT !.vars = ctx'[p].vars],
         eff'[p] \in 1 .. Len(EdgesOf(Loaded(stateFile))[at[p]].do) + 1,
         NEW n, eff'[p] = n + 1, n \in Nat,
         Effecting(Loaded(stateFile), event[p], cells'[p], at[p], n, ctx'[p].vars,
                   Unlinted(out'[p]))
  PROVE  Kept(p)'
<1>1. ctx'[p].state = Loaded(stateFile).state
  BY KeptTypes DEF Persisted
<1>2. Edge(p)' = EdgesOf(Loaded(stateFile))[at[p]]
  BY <1>1 DEF Edge, Edges, EdgesOf
<1>3. Effecting(Loaded(stateFile), event[p], cells[p], at[p], eff[p] - 1, ctx[p].vars,
                Unlinted(out[p]))'
  <2>1. eff'[p] - 1 = n
    OBVIOUS
  <2> QED
    BY <2>1
<1> QED
  BY <1>2, <1>3 DEF Kept

(* What is known of a process that performs effects. *)
LEMMA AtEffectsFacts ==
  ASSUME KeptInv, NEW p \in Procs, pc[p] = "effects"
  PROVE  /\ event[p] \in Events /\ Awake(Loaded(stateFile)) /\ out[p] \in Output
         /\ ctx[p] = [Loaded(stateFile) EXCEPT !.vars = ctx[p].vars]
         /\ ctx[p].state = Loaded(stateFile).state /\ ctx[p].fuel = Loaded(stateFile).fuel
         /\ Edge(p) = EdgesOf(Loaded(stateFile))[at[p]]
         /\ eff[p] \in 1 .. Len(Edge(p).do) + 1 /\ eff[p] \in Nat
         /\ Effecting(Loaded(stateFile), event[p], cells[p], at[p], eff[p] - 1, ctx[p].vars,
                      Unlinted(out[p]))
<1>1. ctx[p] = [Loaded(stateFile) EXCEPT !.vars = ctx[p].vars]
  BY KeptTypes DEF Kept
<1>2. ctx[p].state = Loaded(stateFile).state /\ ctx[p].fuel = Loaded(stateFile).fuel
  BY <1>1, KeptTypes DEF Persisted
<1>3. Edge(p) = EdgesOf(Loaded(stateFile))[at[p]]
  BY <1>2 DEF Edge, Edges, EdgesOf
<1> QED
  BY <1>1, <1>2, <1>3, KeptTypes DEF Kept

(* A guard holds. *)
LEMMA KeptHold ==
  ASSUME KeptInv, NEW p \in Procs, Hold(p) PROVE Kept(p)'
<1>1. /\ pc[p] = "guard" /\ AtGuard(p) /\ CellsRun(p)
      /\ When(EdgesOf(ctx[p])[at[p]].guard, event[p], ctx[p].vars, cells[p])
  BY AtGuardFacts DEF Hold, AtGuard
<1>2. Effecting(ctx[p], event[p], cells[p], at[p], 0, ctx[p].vars, NoOutput)
  BY <1>1, AtGuardFacts, JudgedFacts, HoldEffecting
<1>3. /\ pc'[p] = "effects" /\ eff'[p] = 1 /\ out'[p] = Linted(p)[p]
      /\ UNCHANGED <<event, ctx, cells, at, stateFile>>
  BY <1>1, KeptTypes DEF Hold, Goto, fileVars
<1>4. Unlinted(out'[p]) = NoOutput
  BY <1>1, <1>3, JudgedFacts
<1>5. /\ ctx[p] = Loaded(stateFile) /\ event[p] \in Events /\ Awake(ctx[p])
      /\ ctx[p] = [Loaded(stateFile) EXCEPT !.vars = ctx[p].vars]
  BY <1>1, AtGuardFacts DEF Persisted
<1>6. at[p] \in DOMAIN EdgesOf(ctx[p])
  BY <1>1, JudgedFacts
<1>7. eff'[p] \in 1 .. Len(EdgesOf(Loaded(stateFile))[at[p]].do) + 1
  <2>1. EdgesOf(ctx[p])[at[p]].do \in Seq(Effect)
    BY <1>6, StateFacts
  <2>2. Len(EdgesOf(ctx[p])[at[p]].do) \in Nat
    BY <2>1
  <2> QED
    BY <1>3, <1>5, <2>2
<1>8. Effecting(Loaded(stateFile), event[p], cells'[p], at[p], 0, ctx'[p].vars,
                Unlinted(out'[p]))
  BY <1>2, <1>3, <1>4, <1>5
<1> QED
  BY <1>3, <1>5, <1>7, <1>8, KeptEffects

(* The effect to be performed is one of the transition. *)
LEMMA EffectFacts ==
  ASSUME KeptInv, NEW p \in Procs, AtEffect(p)
  PROVE  /\ pc[p] = "effects"
         /\ eff[p] - 1 \in Nat /\ (eff[p] - 1) + 1 = eff[p]
         /\ eff[p] \in DOMAIN EdgesOf(Loaded(stateFile))[at[p]].do
         /\ eff[p] + 1 \in 1 .. Len(EdgesOf(Loaded(stateFile))[at[p]].do) + 1
<1>1. pc[p] = "effects" /\ eff[p] \in DOMAIN EdgesOf(Loaded(stateFile))[at[p]].do
  BY AtEffectsFacts DEF AtEffect
<1>2. eff[p] \in Nat /\ eff[p] \in 1 .. Len(EdgesOf(Loaded(stateFile))[at[p]].do) + 1
  BY <1>1, AtEffectsFacts
<1>3. at[p] \in DOMAIN EdgesOf(Loaded(stateFile))
  <2>1. PICK answers \in Possible(Loaded(stateFile), event[p], cells[p]) :
           at[p] \in Promise!Holding(Loaded(stateFile), event[p], answers)
    BY <1>1, AtEffectsFacts DEF Effecting, Least
  <2> QED
    BY <2>1, HoldingAreNumbers
<1>4. EdgesOf(Loaded(stateFile))[at[p]].do \in Seq(Effect)
  BY <1>3, StateFacts
<1>5. /\ Len(EdgesOf(Loaded(stateFile))[at[p]].do) \in Nat
      /\ eff[p] \in 1 .. Len(EdgesOf(Loaded(stateFile))[at[p]].do)
  BY <1>1, <1>4
<1> QED
  BY <1>1, <1>2, <1>5

(* An effect that asks no cell is performed. *)
LEMMA KeptApplyEffect ==
  ASSUME KeptInv, NEW p \in Procs, ApplyEffect(p) PROVE Kept(p)'
<1> DEFINE r == Loaded(stateFile)
           f == Edge(p).do[eff[p]]
           n == eff[p] - 1
<1>0. AtEffect(p) /\ pc[p] = "effects"
  BY DEF ApplyEffect, AtEffect
<1>1. /\ f.kind = "Run" => cells[p][f.name].ran
      /\ out'[p] = Perform(f, out[p], ctx[p].vars, cells[p])
      /\ ctx'[p] = [ctx[p] EXCEPT !.vars = Remember(f, ctx[p].vars, cells[p])]
      /\ eff'[p] = eff[p] + 1
      /\ UNCHANGED <<pc, event, cells, at, stateFile>>
  BY KeptTypes DEF ApplyEffect, fileVars
<1>2. n \in Nat /\ n + 1 = eff[p] /\ n + 1 \in DOMAIN EdgesOf(r)[at[p]].do
  BY <1>0, EffectFacts
<1>3. f = EdgesOf(r)[at[p]].do[n + 1]
  BY <1>0, <1>2, AtEffectsFacts
<1>4. r \in Persisted /\ cells[p] \in Results /\ ctx[p] \in Persisted
  BY KeptTypes
<1>5. /\ Effecting(r, event[p], cells[p], at[p], n, ctx[p].vars, Unlinted(out[p]))
      /\ out[p] \in Output /\ event[p] \in Events /\ Awake(r)
      /\ ctx[p] = [r EXCEPT !.vars = ctx[p].vars]
  BY <1>0, AtEffectsFacts
<1>6. eff[p] + 1 \in 1 .. Len(EdgesOf(r)[at[p]].do) + 1
  BY <1>0, EffectFacts
<1> HIDE DEF r, f, n
<1>7. Effecting(r, event[p], cells[p], at[p], n + 1, Remember(f, ctx[p].vars, cells[p]),
                Perform(f, Unlinted(out[p]), ctx[p].vars, cells[p]))
  BY <1>1, <1>2, <1>3, <1>4, <1>5, ApplyEffecting
<1>8. Unlinted(out'[p]) = Perform(f, Unlinted(out[p]), ctx[p].vars, cells[p])
  BY <1>1, <1>5, PerformUnlinted
<1>9. /\ ctx'[p].vars = Remember(f, ctx[p].vars, cells[p])
      /\ ctx'[p] = [r EXCEPT !.vars = ctx'[p].vars]
  BY <1>1, <1>4, <1>5 DEF Persisted
<1>10. Effecting(r, event[p], cells'[p], at[p], n + 1, ctx'[p].vars, Unlinted(out'[p]))
  BY <1>1, <1>7, <1>8, <1>9
<1>11. eff'[p] = (n + 1) + 1 /\ n + 1 \in Nat
  BY <1>1, <1>2
<1> QED
  BY <1>0, <1>1, <1>5, <1>6, <1>9, <1>10, <1>11, KeptEffects DEF r

(* A Run asks its cell. *)
LEMMA KeptRunEffect ==
  ASSUME KeptInv, NEW p \in Procs, NEW raw \in Raws, RunEffect(p, raw) PROVE Kept(p)'
<1> DEFINE r == Loaded(stateFile)
           f == Edge(p).do[eff[p]]
           n == eff[p] - 1
<1>0. AtEffect(p) /\ pc[p] = "effects"
  BY DEF RunEffect, AtEffect
<1>1. /\ f.kind = "Run" /\ ~cells[p][f.name].ran
      /\ cells'[p] = [cells[p] EXCEPT ![f.name] = Check(f.name, raw)]
      /\ eff'[p] = eff[p] + 1
      /\ UNCHANGED <<pc, event, ctx, at, out, stateFile>>
  BY KeptTypes DEF RunEffect, fileVars
<1>2. n \in Nat /\ n + 1 = eff[p] /\ n + 1 \in DOMAIN EdgesOf(r)[at[p]].do
  BY <1>0, EffectFacts
<1>3. f = EdgesOf(r)[at[p]].do[n + 1]
  BY <1>0, <1>2, AtEffectsFacts
<1>4. r \in Persisted /\ cells[p] \in Results
  BY KeptTypes
<1>5. /\ Effecting(r, event[p], cells[p], at[p], n, ctx[p].vars, Unlinted(out[p]))
      /\ event[p] \in Events /\ Awake(r)
      /\ ctx[p] = [r EXCEPT !.vars = ctx[p].vars]
  BY <1>0, AtEffectsFacts
<1>6. eff[p] + 1 \in 1 .. Len(EdgesOf(r)[at[p]].do) + 1
  BY <1>0, EffectFacts
<1>12. f.name \in DOMAIN M.cells
  BY <1>0, <1>1, RunNamesCell DEF KeptInv, TypeInv
<1> HIDE DEF r, f, n
<1>13. Asks(cells[p], f.name, raw, cells'[p])
  BY <1>1, <1>4, <1>12, AskedOne
<1>7. Effecting(r, event[p], cells'[p], at[p], n + 1, ctx[p].vars, Unlinted(out[p]))
  BY <1>1, <1>2, <1>3, <1>4, <1>5, <1>13, AskEffecting
<1>10. Effecting(r, event[p], cells'[p], at[p], n + 1, ctx'[p].vars, Unlinted(out'[p]))
  BY <1>1, <1>7
<1>11. eff'[p] = (n + 1) + 1 /\ n + 1 \in Nat
  BY <1>1, <1>2
<1> QED
  BY <1>0, <1>1, <1>5, <1>6, <1>10, <1>11, KeptEffects DEF r

(* ... and when the dispatch has come to its end. *)
LEMMA KeptSettled ==
  ASSUME KeptInv, NEW p \in Procs, pc'[p] = "save", UNCHANGED <<event, stateFile>>,
         event[p] \in Events, Settled(Loaded(stateFile), event[p], ctx'[p], out'[p])
  PROVE  Kept(p)'
<1>1. Settled(Loaded(stateFile), event[p], ctx[p], out[p])'
  OBVIOUS
<1> QED
  BY <1>1 DEF Kept

(* The transitions are exhausted. *)
LEMMA KeptNoMatch ==
  ASSUME KeptInv, NEW p \in Procs, NoMatch(p) PROVE Kept(p)'
<1>1. /\ pc[p] = "guard" /\ at[p] > Len(EdgesOf(ctx[p]))
      /\ pc'[p] = "save" /\ UNCHANGED <<event, ctx, out, stateFile>>
  BY KeptTypes, AtGuardFacts DEF NoMatch, Goto, fileVars
<1>2. Settled(ctx[p], event[p], ctx[p], out[p])
  BY <1>1, AtGuardFacts, SettleNoMatch
<1> QED
  BY <1>1, <1>2, AtGuardFacts, KeptSettled

(* The effects are exhausted: the transition fires. *)
LEMMA KeptFire ==
  ASSUME KeptInv, NEW p \in Procs, Fire(p) PROVE Kept(p)'
<1> DEFINE r == Loaded(stateFile)
           c == [state |-> EdgesOf(r)[at[p]].to, fuel |-> r.fuel - 1, vars |-> ctx[p].vars]
<1>1. /\ pc[p] = "effects" /\ eff[p] > Len(Edge(p).do)
      /\ pc'[p] = "save" /\ UNCHANGED <<event, out, stateFile>>
      /\ ctx'[p] = [ctx[p] EXCEPT !.fuel = @ - 1, !.state = Edge(p).to]
  BY KeptTypes DEF Fire, Goto, fileVars
<1>2. /\ Edge(p) = EdgesOf(r)[at[p]] /\ event[p] \in Events /\ Awake(r)
      /\ ctx[p].fuel = r.fuel /\ eff[p] \in 1 .. Len(Edge(p).do) + 1
      /\ Effecting(r, event[p], cells[p], at[p], eff[p] - 1, ctx[p].vars, Unlinted(out[p]))
  BY <1>1, AtEffectsFacts
<1>3. eff[p] - 1 = Len(EdgesOf(r)[at[p]].do)
  <2>1. at[p] \in DOMAIN Edges(p)
    BY <1>1 DEF KeptInv, TypeInv, PhaseOK
  <2>2. Edge(p).do \in Seq(Effect)
    BY <2>1, EdgeType DEF Transition
  <2>3. Len(Edge(p).do) \in Nat
    BY <2>2
  <2> QED
    BY <1>1, <1>2, <2>3
<1>4. r \in Persisted /\ ctx[p] \in Persisted
  BY KeptTypes
<1>5. ctx'[p] = c
  BY <1>1, <1>2, <1>4 DEF Persisted
<1>6. Effecting(r, event[p], cells[p], at[p], Len(EdgesOf(r)[at[p]].do), ctx[p].vars,
                Unlinted(out[p]))
  BY <1>2, <1>3
<1>7. Settled(r, event[p], c, out[p])
  <2> HIDE DEF r
  <2> QED
    BY <1>2, <1>4, <1>6, SettleFires
<1> HIDE DEF c
<1> QED
  BY <1>1, <1>2, <1>5, <1>7, KeptSettled

(* A panic discards the output. *)
LEMMA KeptPanic ==
  ASSUME KeptInv, NEW p \in Procs, Panic(p) PROVE Kept(p)'
<1>1. /\ pc'[p] = "save" /\ out'[p] = NoOutput /\ UNCHANGED <<event, ctx, stateFile>>
  BY KeptTypes DEF Panic, Goto, fileVars
<1>2. CASE "guardpanic" \in Faults /\ AtGuard(p)
  <2>1. /\ pc[p] = "guard" /\ at[p] \in DOMAIN EdgesOf(ctx[p])
        /\ EdgesOf(ctx[p])[at[p]].on = event[p].on
    BY <1>2, AtGuardFacts DEF AtGuard
  <2>2. Settled(ctx[p], event[p], ctx[p], NoOutput)
    BY <1>2, <2>1, AtGuardFacts, SettleGuardPanic
  <2> QED
    BY <1>1, <2>1, <2>2, AtGuardFacts, KeptSettled
<1>3. CASE "effectpanic" \in Faults /\ AtEffect(p)
  <2> DEFINE r == Loaded(stateFile)
             n == eff[p] - 1
  <2>1. /\ pc[p] = "effects" /\ n \in Nat /\ n + 1 \in DOMAIN EdgesOf(r)[at[p]].do
    BY <1>3, EffectFacts
  <2>2. /\ Effecting(r, event[p], cells[p], at[p], n, ctx[p].vars, Unlinted(out[p]))
        /\ event[p] \in Events /\ Awake(r) /\ ctx[p] = [r EXCEPT !.vars = ctx[p].vars]
    BY <2>1, AtEffectsFacts
  <2>3. r \in Persisted
    BY KeptTypes
  <2> HIDE DEF r, n
  <2>4. Settled(r, event[p], [r EXCEPT !.vars = ctx[p].vars], NoOutput)
    BY <1>3, <2>1, <2>2, <2>3, SettleEffectPanic
  <2>5. Settled(r, event[p], ctx'[p], out'[p])
    BY <1>1, <2>2, <2>4
  <2> QED
    BY <1>1, <2>2, <2>5, KeptSettled DEF r
<1> QED
  BY <1>2, <1>3 DEF Panic

-----------------------------------------------------------------------------
(* The save: alone, a process finds its temporary file as it left it, and    *)
(* what it renames is its record.                                            *)
LEMMA KeptOpen ==
  ASSUME KeptInv, NEW p \in Procs, Open(p) PROVE Kept(p)'
<1>1. /\ pc[p] = "save" /\ pc'[p] = "write" /\ handle'[p] = "tmp" /\ tmpFile' = Empty
      /\ UNCHANGED <<event, ctx, out, stateFile>>
  BY KeptTypes DEF Open, OpenTmp, Goto
<1>2. event[p] \in Events /\ Settled(Loaded(stateFile), event[p], ctx[p], out[p])
  BY <1>1, KeptTypes DEF Kept
<1>3. Settled(Loaded(stateFile), event[p], ctx[p], out[p])'
  BY <1>1, <1>2
<1> QED
  BY <1>1, <1>2, <1>3 DEF Kept

(* The record is written whole into the file the process has just emptied. *)
LEMMA KeptWrite ==
  ASSUME KeptInv, NEW p \in Procs, Write(p) PROVE Kept(p)'
<1>1. /\ pc[p] = "write" /\ pc'[p] = "rename" /\ UNCHANGED <<event, ctx, out>>
      /\ WriteTmp(p, ctx[p])
  BY KeptTypes DEF Write, Goto
<1>2. /\ event[p] \in Events /\ Settled(Loaded(stateFile), event[p], ctx[p], out[p])
      /\ handle[p] = "tmp" /\ tmpFile = Empty
  BY <1>1, KeptTypes DEF Kept
<1>3. tmpFile' = Whole(ctx[p]) /\ stateFile' = stateFile
  BY <1>1, <1>2 DEF WriteTmp, Overwritten
<1>4. Settled(Loaded(stateFile), event[p], ctx[p], out[p])' /\ tmpFile' = Whole(ctx'[p])
  BY <1>1, <1>2, <1>3
<1> QED
  BY <1>1, <1>2, <1>4 DEF Kept

(* The rename puts the record the dispatch has settled on in place. *)
LEMMA RenamedFacts ==
  ASSUME KeptInv, NEW p \in Procs, Rename(p)
  PROVE  /\ pc[p] = "rename" /\ pc'[p] = "deliver" /\ UNCHANGED <<event, ctx, out, inbox, said>>
         /\ event[p] \in Events /\ Settled(Loaded(stateFile), event[p], ctx[p], out[p])
         /\ Loaded(stateFile') = ctx[p]
<1>1. /\ pc[p] = "rename" /\ pc'[p] = "deliver"
      /\ UNCHANGED <<event, ctx, out, inbox, said>> /\ RenameTmp
  BY KeptTypes DEF Rename, Goto
<1>2. /\ event[p] \in Events /\ Settled(Loaded(stateFile), event[p], ctx[p], out[p])
      /\ tmpFile = Whole(ctx[p])
  BY <1>1, KeptTypes DEF Kept
<1>3. stateFile' = tmpFile
  BY <1>1, <1>2 DEF RenameTmp, Whole
<1>4. Loaded(stateFile') = ctx[p]
  BY <1>2, <1>3 DEF Loaded, Whole
<1> QED
  BY <1>1, <1>2, <1>4

(* Nothing is known of a process that has saved, but what it was asked. *)
LEMMA KeptTold ==
  ASSUME NEW p \in Procs, pc'[p] \in {"deliver", "answer"}, event'[p] \in Events
  PROVE  Kept(p)'
BY DEF Kept

(* A process that has ended is as one that has not begun. *)
LEMMA KeptForget ==
  ASSUME KeptInv, NEW p \in Procs, Forget(p)
  PROVE  Kept(p)'
<1>1. pc'[p] = "idle" /\ cells'[p] = NoCells /\ out'[p] = NoOutput
  BY KeptTypes DEF Forget, Goto
<1> QED
  BY <1>1 DEF Kept

(* No step but a failing save takes what is kept from a process alone. *)
LEMMA KeptStep ==
  ASSUME Solo, SavesSucceed
  PROVE  KeptInv /\ [Next]_vars => KeptInv'
<1> SUFFICES ASSUME KeptInv, [Next]_vars PROVE KeptInv'
  OBVIOUS
<1>1. TypeInv'
  BY TypeStep DEF KeptInv
<1>2. CASE UNCHANGED vars
  <2>1. ASSUME NEW p \in Procs PROVE Kept(p)'
    <3>1. Kept(p)
      BY KeptTypes
    <3>2. UNCHANGED <<pc, event, ctx, cells, at, eff, out, stateFile, tmpFile, handle>>
      BY <1>2 DEF vars, procVars, fileVars
    <3> QED
      BY <3>1, <3>2 DEF Kept, Edge, Edges
  <2> QED
    BY <1>1, <2>1 DEF KeptInv
<1>3. ASSUME NEW p \in Procs, \E e \in Events : Start(p, e) PROVE Kept(p)'
  BY <1>3, KeptStart
<1>4. ASSUME NEW p \in Procs, Dispatching(p) PROVE Kept(p)'
  BY <1>4, KeptDispatch, KeptPassOver, KeptRunCell, KeptHold, KeptFail, KeptNoMatch,
     KeptApplyEffect, KeptRunEffect, KeptFire DEF Dispatching
<1>5. ASSUME NEW p \in Procs, Proceed(p) PROVE Kept(p)'
  <2>1. CASE Load(p) \/ Dispatching(p) \/ Open(p) \/ Write(p)
    BY <1>4, <2>1, KeptLoad, KeptOpen, KeptWrite
  <2>2. CASE Rename(p)
    BY <2>2, RenamedFacts, KeptTold
  <2>3. CASE DeliverInbox(p) \/ AllDelivered(p)
    <3>1. pc'[p] \in {"deliver", "answer"} /\ event'[p] = event[p] /\ event[p] \in Events
      BY <2>3, KeptTypes DEF DeliverInbox, AllDelivered, Goto, Kept
    <3> QED
      BY <3>1, KeptTold
  <2>4. CASE EmitProtocol(p)
    BY <2>4, KeptForget DEF EmitProtocol
  <2> QED
    BY <1>5, <2>1, <2>2, <2>3, <2>4 DEF Proceed
<1>6. ASSUME NEW p \in Procs, Disturbed(p) PROVE Kept(p)'
  <2>1. ~LoadFails(p) /\ ~SaveFails(p)
    BY DEF SavesSucceed, LoadFails, SaveFails
  <2>2. CASE DeliverFails(p)
    <3>1. pc'[p] = "deliver" /\ event'[p] = event[p] /\ event[p] \in Events
      BY <2>2, KeptTypes DEF DeliverFails, Kept
    <3> QED
      BY <3>1, KeptTold
  <2> QED
    BY <1>6, <2>1, <2>2, KeptPanic, KeptForget DEF Disturbed, Crash
<1> QED
  BY <1>1, <1>2, <1>3, <1>5, <1>6, KeptFrame DEF Next

-----------------------------------------------------------------------------
(* What a process owes between its save and its end.                         *)
Owed(p) == [emits  |-> IF pc[p] = "deliver" THEN out[p].emits ELSE <<>>,
            answer |-> Reply(p)]
Owing   == {Owed(p) : p \in Telling}

(* Something is owed exactly while the one process is telling. *)
LEMMA OwingFacts ==
  ASSUME Solo, NEW p \in Procs
  PROVE  /\ pc[p] \in {"deliver", "answer"} => Owing = {Owed(p)}
         /\ pc[p] \notin {"deliver", "answer"} => Owing = {}
         /\ pc'[p] \in {"deliver", "answer"} => Owing' = {Owed(p)'}
         /\ pc'[p] \notin {"deliver", "answer"} => Owing' = {}
<1>1. \A q \in Procs : q = p
  BY DEF Solo
<1>2. pc[p] \in {"deliver", "answer"} => Owing = {Owed(p)}
  BY <1>1, Zenon DEF Owing, Telling
<1>3. pc[p] \notin {"deliver", "answer"} => Owing = {}
  BY <1>1, Zenon DEF Owing, Telling
<1>4. pc'[p] \in {"deliver", "answer"} => Owing' = {Owed(p)'}
  BY <1>1, Zenon DEF Owing, Telling
<1>5. pc'[p] \notin {"deliver", "answer"} => Owing' = {}
  BY <1>1, Zenon DEF Owing, Telling
<1> QED
  BY <1>2, <1>3, <1>4, <1>5

(* The session's variables, as this hook keeps them. *)
LEMMA Stutters ==
  ASSUME Loaded(stateFile') = Loaded(stateFile), Owing' = Owing, inbox' = inbox, said' = said
  PROVE  UNCHANGED Promise!vars
BY DEF Promise!vars, Owing, Owed

(* Owing an output is owing its messages and its answer. *)
LEMMA PromiseOwes ==
  ASSUME NEW e, NEW o, Owing' = {[emits |-> o.emits, answer |-> Rendered(o, e.on)]}
  PROVE  Promise!Owes(e, o)
<1>1. Promise!Rendered(o, e.on) = Rendered(o, e.on)
  BY SameMachine, Zenon
<1> QED
  BY <1>1, Zenon DEF Promise!Owes, Owing, Owed

(* A step before the rename that moves no file leaves the session as it is. *)
LEMMA PromiseQuiet ==
  ASSUME Solo, NEW p \in Procs, pc[p] \notin {"deliver", "answer"},
         pc'[p] \notin {"deliver", "answer"},
         UNCHANGED <<stateFile, inbox, said>>
  PROVE  UNCHANGED Promise!vars
BY OwingFacts, Stutters

(* The session is silent at first. *)
LEMMA PromiseInit == Init => Promise!Init
<1> SUFFICES ASSUME Init PROVE Promise!Init
  OBVIOUS
<1>1. Loaded(stateFile) = Fresh
  BY DEF Init, FileInit, Absent, Loaded
<1>2. Owing = {}
  BY DEF Owing, Telling, Init
<1>3. said = Promise!Silence
  BY DEF Init, Silence, Promise!Silence, Rendered, Refused, NoOutput
<1> QED
  BY <1>1, <1>2, <1>3, SameMachine DEF Promise!Init, Owing, Owed, Init

(* The rename is the session's step, or its panic. *)
LEMMA PromiseRename ==
  ASSUME Solo, KeptInv, NEW p \in Procs, Rename(p)
  PROVE  Promise!Next
<1> DEFINE r == Loaded(stateFile)
<1>e. PICK e : e = event[p]
  OBVIOUS
<1>o. PICK o : o = out[p]
  OBVIOUS
<1>1. /\ pc[p] = "rename" /\ pc'[p] = "deliver" /\ UNCHANGED <<event, ctx, out, inbox, said>>
      /\ e \in Events /\ Settled(r, e, ctx[p], o) /\ Loaded(stateFile') = ctx[p]
  BY RenamedFacts, <1>e, <1>o
<1>2. Owing = {} /\ Owing' = {[emits |-> o.emits, answer |-> Rendered(o, e.on)]}
  BY <1>1, <1>e, <1>o, OwingFacts DEF Owed, Reply
<1>3. o \in Output
  BY <1>o, KeptTypes
<1>4. CASE Stepped(r, e, ctx[p], o)
  <2>1. PICK answers \in Promise!Answers(r.state, e) :
           Promise!Outcome(r, e, answers) = [record |-> ctx[p], out |-> Unlinted(o)]
    BY <1>4 DEF Stepped
  <2>2. Owing' = {[emits |-> Unlinted(o).emits, answer |-> Rendered(Unlinted(o), e.on)]}
    BY <1>2, <1>3, UnlintedFacts
  <2>3. Promise!Owes(e, Unlinted(o))
    BY <2>2, PromiseOwes
  <2>4. /\ Promise!Outcome(r, e, answers).record = Loaded(stateFile')
        /\ Promise!Outcome(r, e, answers).out = Unlinted(o)
    BY <1>1, <2>1
  <2>5. Promise!Owes(e, Promise!Outcome(r, e, answers).out)
    BY <2>3, <2>4 DEF Promise!Owes
  <2>6. Promise!Step(e)
    BY <1>1, <1>2, <2>4, <2>5, Zenon DEF Promise!Step, Owing, Owed
  <2> QED
    BY <1>1, <2>6 DEF Promise!Next
<1>5. ASSUME Awake(r), Promise!Candidates(r.state, e) # {} PROVE Promise!Evaluates(e)
  BY <1>2, <1>5, SameMachine DEF Promise!Evaluates, Awake, Owing, Owed
<1>6. CASE Awake(r) /\ GuardPanicked(r, e, ctx[p], o)
  <2>1. "guardpanic" \in {"guardpanic", "effectpanic"} \cap Faults /\ ctx[p] = r /\ o = NoOutput
    BY <1>6 DEF GuardPanicked
  <2>2. Promise!Owes(e, Promise!NoOutput)
    BY <1>2, <2>1, PromiseOwes, SameMachine
  <2>3. Promise!Evaluates(e)
    BY <1>5, <1>6 DEF GuardPanicked
  <2>4. Promise!GuardPanic(e)
    BY <1>1, <2>1, <2>2, <2>3 DEF Promise!GuardPanic
  <2> QED
    BY <1>1, <2>4 DEF Promise!Next
<1>7. CASE Awake(r) /\ EffectPanicked(r, e, ctx[p], o)
  <2>1. "effectpanic" \in {"guardpanic", "effectpanic"} \cap Faults /\ o = NoOutput
    BY <1>7 DEF EffectPanicked
  <2>2. Promise!Owes(e, Promise!NoOutput)
    BY <1>2, <2>1, PromiseOwes, SameMachine
  <2>3. Promise!Evaluates(e)
    BY <1>5, <1>7 DEF EffectPanicked
  <2>4. Promise!Lookup(r.state).on = EdgesOf(r)
    BY SameMachine DEF EdgesOf
  <2>5. \E answers \in Promise!Answers(r.state, e) :
           /\ Promise!Holding(r, e, answers) # {}
           /\ \E n \in 1 .. Len(Promise!Lookup(r.state).on[
                                   Promise!First(Promise!Holding(r, e, answers))].do) :
                 Loaded(stateFile') = [r EXCEPT !.vars = Promise!Effected(r, e, answers, n - 1).vars]
    BY <1>1, <1>7, <2>4 DEF EffectPanicked
  <2>6. Promise!EffectPanic(e)
    BY <1>1, <2>1, <2>2, <2>3, <2>5, Zenon DEF Promise!EffectPanic
  <2> QED
    BY <1>1, <2>6 DEF Promise!Next
<1> QED
  BY <1>1, <1>4, <1>6, <1>7 DEF Settled

(* What is still owed after the first message is the rest, and the same answer. *)
LEMMA RestOwed ==
  ASSUME NEW E, NEW A, NEW d \in [emits : E, answer : A], NEW rest
  PROVE  [d EXCEPT !.emits = rest] = [emits |-> rest, answer |-> d.answer]
OBVIOUS

(* The first message leaves the list, whether it arrives or not. *)
LEMMA PromiseDeliver ==
  ASSUME Solo, KeptInv, NEW p \in Procs, DeliverInbox(p) \/ DeliverFails(p)
  PROVE  Promise!Next
<1>1. /\ pc[p] = "deliver" /\ out[p].emits # <<>> /\ out[p] \in Output
      /\ out'[p] = [out[p] EXCEPT !.emits = Tail(@)]
      /\ UNCHANGED <<pc, event, stateFile, said>>
  BY KeptTypes DEF DeliverInbox, DeliverFails, fileVars
<1>2. /\ inbox' \in {Append(inbox, Head(out[p].emits))} \cup
                    (IF "inbox" \in Faults THEN {inbox} ELSE {})
  BY DEF DeliverInbox, DeliverFails
<1>3. Owing = {Owed(p)} /\ Owing' = {Owed(p)'}
  BY <1>1, OwingFacts
<1>4. /\ Owed(p).emits = out[p].emits
      /\ Owed(p)' = [Owed(p) EXCEPT !.emits = Tail(@)]
  <2>0. Owed(p) = [emits |-> out[p].emits, answer |-> Reply(p)]
    BY <1>1 DEF Owed
  <2>1. /\ out'[p].emits = Tail(out[p].emits) /\ out'[p].inject = out[p].inject
        /\ out'[p].block = out[p].block /\ out'[p].halt = out[p].halt
    BY <1>1 DEF Output
  <2>2. Reply(p)' = Reply(p)
    BY <1>1, <2>1 DEF Reply, Rendered, Refused
  <2>3. Owed(p)' = [emits |-> Tail(out[p].emits), answer |-> Reply(p)]
    BY <1>1, <2>1, <2>2 DEF Owed
  <2>4. Owed(p).emits = out[p].emits
    BY <2>0
  <2>5. Owed(p) \in [emits : {out[p].emits}, answer : {Reply(p)}]
    BY <2>0
  <2>6. [Owed(p) EXCEPT !.emits = Tail(Owed(p).emits)] =
           [emits |-> Tail(Owed(p).emits), answer |-> Owed(p).answer]
    BY <2>5, RestOwed
  <2>7. Owed(p).answer = Reply(p)
    BY <2>0
  <2> QED
    BY <2>3, <2>4, <2>6, <2>7, Zenon
<1>5. /\ Owed(p).emits # <<>>
      /\ inbox' \in {Append(inbox, Head(Owed(p).emits))} \cup
                    (IF "inbox" \in Faults THEN {inbox} ELSE {})
      /\ Owing' = {[Owed(p) EXCEPT !.emits = Tail(@)]}
      /\ Loaded(stateFile') = Loaded(stateFile) /\ said' = said
  BY <1>1, <1>2, <1>3, <1>4
<1>6. Promise!Deliver
  <2>1. \E o \in Owing :
          /\ o.emits # <<>>
          /\ inbox' \in {Append(inbox, Head(o.emits))} \cup
                        (IF "inbox" \in Faults THEN {inbox} ELSE {})
          /\ Owing' = {[o EXCEPT !.emits = Tail(@)]}
          /\ Loaded(stateFile') = Loaded(stateFile) /\ said' = said
    BY <1>3, <1>5
  <2> QED
    BY <2>1 DEF Promise!Deliver, Owing, Owed
<1> QED
  BY <1>6 DEF Promise!Next

(* The answer is given. *)
LEMMA PromiseSay ==
  ASSUME Solo, KeptInv, NEW p \in Procs, EmitProtocol(p)
  PROVE  Promise!Next
<1>1. /\ pc[p] = "answer" /\ pc'[p] = "idle" /\ said' = Reply(p)
      /\ UNCHANGED <<stateFile, inbox>>
  BY KeptTypes DEF EmitProtocol, Forget, Goto, fileVars
<1>2. Owing = {Owed(p)} /\ Owing' = {} /\ Owed(p).emits = <<>> /\ Owed(p).answer = Reply(p)
  BY <1>1, OwingFacts DEF Owed
<1>3. \E o \in Owing :
         /\ o.emits = <<>> /\ said' = o.answer /\ Owing' = {}
         /\ Loaded(stateFile') = Loaded(stateFile) /\ inbox' = inbox
  BY <1>1, <1>2
<1>4. Promise!Say
  BY <1>3 DEF Promise!Say, Owing, Owed
<1> QED
  BY <1>4 DEF Promise!Next

(* A process killed in the middle of its telling loses the rest of it. *)
LEMMA PromiseCrash ==
  ASSUME Solo, KeptInv, NEW p \in Procs, Crash(p)
  PROVE  Promise!Next \/ UNCHANGED Promise!vars
<1>1. pc'[p] = "idle" /\ UNCHANGED <<stateFile, inbox, said>>
  BY KeptTypes DEF Crash, Forget, Close, Goto
<1>2. CASE pc[p] \in {"deliver", "answer"}
  <2>1. Owing # {} /\ Owing' = {} /\ Loaded(stateFile') = Loaded(stateFile)
    BY <1>1, <1>2, OwingFacts
  <2>2. Promise!Lose
    BY <1>1, <2>1 DEF Promise!Lose, Owing, Owed
  <2> QED
    BY <2>2 DEF Promise!Next
<1>3. CASE pc[p] \notin {"deliver", "answer"}
  BY <1>1, <1>3, PromiseQuiet
<1> QED
  BY <1>2, <1>3

(* The rest is between the session and nobody. *)
LEMMA PromiseSilent ==
  ASSUME Solo, KeptInv, NEW p \in Procs,
         \/ \E e \in Events : Start(p, e)
         \/ Load(p) \/ Dispatching(p) \/ Panic(p) \/ Open(p) \/ Write(p)
  PROVE  UNCHANGED Promise!vars
<1> DEFINE Quiet == /\ pc[p] \notin {"deliver", "answer"}
                    /\ pc'[p] \notin {"deliver", "answer"}
                    /\ UNCHANGED <<stateFile, inbox, said>>
<1>1. CASE (\E e \in Events : Start(p, e)) \/ Load(p) \/ Open(p)
  <2>1. Quiet
    BY <1>1, KeptTypes DEF Start, Load, Open, OpenTmp, Goto, fileVars
  <2> QED
    BY <2>1, PromiseQuiet
<1>2. CASE Dispatching(p) \/ Panic(p)
  <2>1. Quiet
    <3> USE KeptTypes DEF Goto, fileVars
    <3>1. CASE TerminalState(p) \/ BudgetHalt(p) \/ Consider(p)
      BY <3>1 DEF TerminalState, BudgetHalt, Consider
    <3>2. CASE PassOver(p) \/ Fail(p) \/ \E c \in DOMAIN M.cells, raw \in Raws : RunCell(p, c, raw)
      BY <3>2 DEF PassOver, Fail, RunCell, AtGuard
    <3>3. CASE Hold(p) \/ NoMatch(p) \/ Fire(p)
      BY <3>3 DEF Hold, NoMatch, Fire, AtGuard
    <3>4. CASE ApplyEffect(p) \/ \E raw \in Raws : RunEffect(p, raw)
      BY <3>4 DEF ApplyEffect, RunEffect, AtEffect
    <3>5. CASE Panic(p)
      BY <3>5 DEF Panic, AtGuard, AtEffect
    <3> QED
      BY <1>2, <3>1, <3>2, <3>3, <3>4, <3>5 DEF Dispatching
  <2> QED
    BY <2>1, PromiseQuiet
<1>3. CASE Write(p)
  <2>1. pc[p] = "write" /\ pc'[p] = "rename" /\ UNCHANGED <<inbox, said>> /\ WriteTmp(p, ctx[p])
    BY <1>3, KeptTypes DEF Write, Goto
  <2>2. stateFile' = stateFile
    BY <2>1, KeptTypes DEF Kept, WriteTmp
  <2> QED
    BY <2>1, <2>2, PromiseQuiet
<1> QED
  BY <1>1, <1>2, <1>3

(* With no message left the answer is still owed. *)
LEMMA PromiseAllDelivered ==
  ASSUME Solo, KeptInv, NEW p \in Procs, AllDelivered(p)
  PROVE  UNCHANGED Promise!vars
<1>1. /\ pc[p] = "deliver" /\ out[p].emits = <<>> /\ pc'[p] = "answer"
      /\ UNCHANGED <<event, out, stateFile, inbox, said>>
  BY KeptTypes DEF AllDelivered, Goto, fileVars
<1>2. Owing = {Owed(p)} /\ Owing' = {Owed(p)'}
  BY <1>1, OwingFacts
<1>3. Owed(p)' = Owed(p)
  BY <1>1 DEF Owed, Reply
<1> QED
  BY <1>1, <1>2, <1>3, Stutters

(* Each step of the hook is a step of the session, or none. *)
LEMMA PromiseStep ==
  ASSUME Solo, SavesSucceed
  PROVE  KeptInv /\ [Next]_vars => [Promise!Next]_(Promise!vars)
<1> SUFFICES ASSUME KeptInv, [Next]_vars PROVE Promise!Next \/ UNCHANGED Promise!vars
  OBVIOUS
<1>1. CASE UNCHANGED vars
  <2>1. UNCHANGED <<pc, event, out, stateFile, inbox, said>>
    BY <1>1 DEF vars, procVars, fileVars
  <2>2. Owing' = Owing
    BY <2>1 DEF Owing, Owed, Telling, Reply
  <2> QED
    BY <2>1, <2>2, Stutters
<1>2. CASE Next
  <2>1. PICK p \in Procs : (\E e \in Events : Start(p, e)) \/ Proceed(p) \/ Disturbed(p)
    BY <1>2 DEF Next
  <2>2. ~LoadFails(p) /\ ~SaveFails(p)
    BY DEF SavesSucceed, LoadFails, SaveFails
  <2>3. CASE (\E e \in Events : Start(p, e)) \/ Load(p) \/ Dispatching(p) \/ Panic(p)
             \/ Open(p) \/ Write(p)
    BY <2>3, PromiseSilent
  <2>4. CASE Rename(p)
    BY <2>4, PromiseRename
  <2>5. CASE DeliverInbox(p) \/ DeliverFails(p)
    BY <2>5, PromiseDeliver
  <2>6. CASE AllDelivered(p)
    BY <2>6, PromiseAllDelivered
  <2>7. CASE EmitProtocol(p)
    BY <2>7, PromiseSay
  <2>8. CASE Crash(p)
    BY <2>8, PromiseCrash
  <2> QED
    BY <2>1, <2>2, <2>3, <2>4, <2>5, <2>6, <2>7, <2>8 DEF Proceed, Disturbed
<1> QED
  BY <1>1, <1>2

(* The hook command, run for one event at a time on a disk that takes every  *)
(* save, keeps what a session is promised, whatever the machine, the model's *)
(* answers, the events, the panics, the crashes and the lost messages: its   *)
(* loads, lazy cell calls, guard by guard dispatch, three-step save and late *)
(* deliveries amount to one atomic step per event, recorded before it is     *)
(* told.                                                                     *)
THEOREM HookKeepsPromise ==
  ASSUME Solo, SavesSucceed
  PROVE  Spec => KeepsPromise
<1>1. Init => Promise!Init
  BY PromiseInit
<1>2. KeptInv /\ [Next]_vars => [Promise!Next]_(Promise!vars)
  BY PromiseStep
<1>3. Init => KeptInv
  BY KeptInit
<1>4. KeptInv /\ [Next]_vars => KeptInv'
  BY KeptStep
<1> QED
  BY <1>1, <1>2, <1>3, <1>4, PTL DEF Spec, KeepsPromise, Promise!Spec

-----------------------------------------------------------------------------
(* The standing guard, with whatever budget: the three units it comes with    *)
(* are for the demo, to be set high for a session.                            *)
IsDenyAddAll == M = [DenyAddAll EXCEPT !.fuel = M.fuel]

(* Its only transition, and what that amounts to. *)
Rule == [on |-> "PreToolUse", to |-> "watch", guard |-> ToolRuns("Bash", gitAddAll),
         do |-> <<Block(S("stage the specific files"))>>]

(* The transition refuses, on the one trigger, and comes back. *)
LEMMA RuleFacts ==
  /\ Rule.on = "PreToolUse" /\ Rule.to = "watch"
  /\ DOMAIN Rule.do = {1} /\ Len(Rule.do) = 1 /\ Rule.do[1].kind = "Block"
<1>1. Rule.do = <<Block(S("stage the specific files"))>> /\ Rule.on = "PreToolUse" /\ Rule.to = "watch"
  BY DEF Rule
<1>2. Block(S("stage the specific files")).kind = "Block"
  BY DEF Block, Does
<1> HIDE DEF Rule
<1>3. \A x : DOMAIN <<x>> = {1} /\ Len(<<x>>) = 1 /\ <<x>>[1] = x
  OBVIOUS
<1> QED
  BY <1>1, <1>2, <1>3

(* Its guard holds of the dangerous events and of no others. *)
LEMMA RuleMatches ==
  \A e, memory, results : When(Rule.guard, e, memory, results) <=> Dangerous(e)
<1>1. /\ Rule.guard.kind = "event" /\ Rule.guard.name = "Bash"
      /\ Rule.guard.of = gitAddAll
  BY DEF Rule, ToolRuns
<1>2. "" \notin gitAddAll
  BY DEF gitAddAll
<1>3. \A g, e, memory, results :
        g.kind = "event" => (When(g, e, memory, results) <=> EventMatches(g, e))
  BY DEF When
<1>4. \A e : EventMatches(Rule.guard, e) <=> Dangerous(e)
  BY <1>1, <1>2 DEF EventMatches, Dangerous
<1> QED
  BY <1>1, <1>3, <1>4

(* The machine watches, and every transition of it is the rule.               *)
LEMMA OnlyRule ==
  ASSUME IsDenyAddAll
  PROVE  /\ M.initial = "watch"
         /\ Lookup("watch").terminal = FALSE
         /\ Lookup("watch").on = <<Rule>>
         /\ \A s : Lookup(s).on \in {<<>>, <<Rule>>}
<1> DEFINE watch == [terminal |-> FALSE, on |-> <<Rule>>]
<1>1. M.initial = "watch" /\ M.states = [s \in {"watch"} |-> watch]
  BY DEF IsDenyAddAll, DenyAddAll, Rule
<1> HIDE DEF Rule
<1>2. watch.on = <<Rule>> /\ watch.terminal = FALSE
  OBVIOUS
<1> HIDE DEF watch
<1>3. DOMAIN M.states = {"watch"} /\ M.states["watch"] = watch
  BY <1>1
<1>4. Lookup("watch") = watch
  BY <1>3 DEF Lookup
<1>5. ASSUME NEW s PROVE Lookup(s).on \in {<<>>, <<Rule>>}
  BY <1>2, <1>3 DEF Lookup
<1> QED
  BY <1>1, <1>2, <1>4, <1>5

(* So whatever transition a process looks at is the rule, and the first.      *)
LEMMA EdgeIsRule ==
  ASSUME IsDenyAddAll, NEW p \in Procs, at[p] \in DOMAIN Edges(p)
  PROVE  at[p] = 1 /\ Edge(p) = Rule
<1>1. Edges(p) \in {<<>>, <<Rule>>}
  BY OnlyRule DEF Edges
<1>2. \A x : DOMAIN <<x>> = {1} /\ <<x>>[1] = x
  OBVIOUS
<1>3. DOMAIN <<>> = {}
  OBVIOUS
<1> QED
  BY <1>1, <1>2, <1>3 DEF Edge

-----------------------------------------------------------------------------
(* Nothing but danger is refused.  A reason to block comes from the rule, so  *)
(* from a process that performs its effects, so for an event its guard held   *)
(* of; and a process is given the next event with an empty output.            *)

Careful(p) ==
    /\ pc[p] = "effects" => Dangerous(event[p])
    /\ out[p].block # {} => Dangerous(event[p])
    /\ pc[p] = "idle" => out[p].block = {}

CarefulInv == TypeInv /\ \A p \in Procs : Careful(p)

(* Initially nothing is refused. *)
LEMMA CarefulInit == Init => CarefulInv
BY TypeInit DEF Init, NoOutput, CarefulInv, Careful

(* A step that neither starts an event nor enters the effects nor blocks, or  *)
(* that leaves nothing to refuse, keeps a process careful.                    *)
LEMMA CarefulFrame ==
  ASSUME CarefulInv, TypeInv', NEW p \in Procs,
         \A q \in Procs \ {p} : pc'[q] = pc[q] /\ event'[q] = event[q] /\ out'[q] = out[q],
         Careful(p)'
  PROVE  CarefulInv'
BY DEF CarefulInv, Careful

(* Every step preserves it. *)
LEMMA CarefulStep ==
  ASSUME IsDenyAddAll
  PROVE  CarefulInv /\ [Next]_vars => CarefulInv'
<1> SUFFICES ASSUME CarefulInv, [Next]_vars PROVE CarefulInv'
  OBVIOUS
<1>1. TypeInv'
  BY TypeStep DEF CarefulInv
<1>2. /\ pc \in [Procs -> Phase] /\ event \in [Procs -> Event] /\ out \in [Procs -> Output]
      /\ \A p \in Procs : Careful(p)
  BY DEF CarefulInv, TypeInv, TypeOK
<1>3. ASSUME UNCHANGED vars PROVE CarefulInv'
  BY <1>1, <1>3 DEF vars, procVars, CarefulInv, Careful
<1>4. ASSUME NEW p \in Procs, NEW e \in Events, Start(p, e) PROVE CarefulInv'
  <2>1. /\ pc[p] = "idle" /\ pc' = [pc EXCEPT ![p] = "load"]
        /\ event' = [event EXCEPT ![p] = e] /\ out' = out
    BY <1>4 DEF Start, Goto
  <2>2. out'[p].block = {} /\ pc'[p] = "load"
    BY <1>2, <2>1 DEF Careful
  <2> QED
    BY <1>1, <1>2, <2>1, <2>2, CarefulFrame DEF Careful
<1>5. ASSUME NEW p \in Procs, UNCHANGED event,
             \A q \in Procs \ {p} : pc'[q] = pc[q] /\ out'[q] = out[q],
             pc[p] # "idle", pc'[p] # "idle", pc'[p] = "effects" => pc[p] = "effects",
             out'[p].block = out[p].block \/ out'[p].block = {}
      PROVE  CarefulInv'
  BY <1>1, <1>2, <1>5, CarefulFrame DEF Careful
<1>6. ASSUME NEW p \in Procs,
             \/ Load(p) \/ LoadFails(p) \/ TerminalState(p) \/ Consider(p) \/ PassOver(p)
             \/ \E c \in DOMAIN M.cells, raw \in Raws : RunCell(p, c, raw)
             \/ NoMatch(p) \/ \E raw \in Raws : RunEffect(p, raw)
             \/ Fire(p) \/ Open(p) \/ Write(p) \/ Rename(p) \/ SaveFails(p) \/ AllDelivered(p)
      PROVE  CarefulInv'
  <2>1. /\ UNCHANGED <<event, out>> /\ pc[p] # "idle"
        /\ \/ pc' = pc
           \/ \E phase \in {"dispatch", "guard", "save", "write", "rename", "deliver", "answer"} :
                 pc' = [pc EXCEPT ![p] = phase]
    BY <1>6
    DEF Load, LoadFails, TerminalState, Consider, PassOver, RunCell, NoMatch, RunEffect, Fire,
        Open, Write, Rename, SaveFails, AllDelivered, AtGuard, AtEffect, Goto
  <2>2. /\ \A q \in Procs \ {p} : pc'[q] = pc[q]
        /\ pc'[p] # "idle" /\ (pc'[p] = "effects" => pc[p] = "effects")
    BY <1>2, <2>1
  <2> QED
    BY <1>5, <2>1, <2>2
<1>7. ASSUME NEW p \in Procs, Hold(p) \/ Fail(p) PROVE CarefulInv'
  <2>1. AtGuard(p) /\ out' = Linted(p) /\ event' = event
    BY <1>7 DEF Hold, Fail
  <2>2. out'[p].block = out[p].block /\ \A q \in Procs \ {p} : out'[q] = out[q]
    BY <1>2, <2>1 DEF Linted, Output
  <2>3. CASE Fail(p)
    BY <1>2, <1>5, <2>1, <2>2, <2>3 DEF Fail, AtGuard
  <2>4. CASE Hold(p)
    <3>1. Edge(p) = Rule
      BY <2>1, EdgeIsRule DEF AtGuard
    <3>2. Dangerous(event[p])
      BY <2>4, <3>1, RuleMatches DEF Hold
    <3>3. pc' = [pc EXCEPT ![p] = "effects"]
      BY <2>4 DEF Hold, Goto
    <3>4. Dangerous(event[p])'
      BY <2>1, <3>2
    <3>5. pc'[p] = "effects" /\ \A q \in Procs \ {p} : pc'[q] = pc[q]
      BY <1>2, <3>3
    <3>6. Careful(p)'
      BY <3>4, <3>5 DEF Careful
    <3> QED
      BY <1>1, <2>1, <2>2, <3>5, <3>6, CarefulFrame
  <2> QED
    BY <1>7, <2>3, <2>4
<1>8. ASSUME NEW p \in Procs, BudgetHalt(p) PROVE CarefulInv'
  <2>1. /\ out' = [out EXCEPT ![p] = Exhausted(event[p].on)]
        /\ pc[p] = "dispatch" /\ pc' = [pc EXCEPT ![p] = "save"] /\ event' = event
    BY <1>8 DEF BudgetHalt, Goto
  <2>2. out'[p] = Exhausted(event[p].on) /\ \A q \in Procs \ {p} : out'[q] = out[q]
    BY <1>2, <2>1
  <2>3. Exhausted(event[p].on).block = {}
    BY DEF Exhausted, NoOutput
  <2> QED
    BY <1>2, <1>5, <2>1, <2>2, <2>3
<1>9. ASSUME NEW p \in Procs, Panic(p) PROVE CarefulInv'
  <2>1. /\ out' = [out EXCEPT ![p] = NoOutput]
        /\ pc[p] # "idle" /\ pc' = [pc EXCEPT ![p] = "save"] /\ event' = event
    BY <1>9 DEF Panic, Goto, AtGuard, AtEffect
  <2>2. out'[p].block = {}
    BY <1>2, <2>1 DEF NoOutput
  <2> QED
    BY <1>2, <1>5, <2>1, <2>2
<1>10. ASSUME NEW p \in Procs, ApplyEffect(p) PROVE CarefulInv'
  <2> DEFINE performed == Perform(Edge(p).do[eff[p]], out[p], ctx[p].vars, cells[p])
  <2>1. out' = [out EXCEPT ![p] = performed] /\ pc' = pc /\ event' = event /\ pc[p] = "effects"
    BY <1>10 DEF ApplyEffect, AtEffect
  <2> HIDE DEF performed
  <2>2. Careful(p)'
    BY <1>2, <2>1 DEF Careful
  <2> QED
    BY <1>1, <1>2, <2>1, <2>2, CarefulFrame
<1>11. ASSUME NEW p \in Procs, DeliverInbox(p) \/ DeliverFails(p) PROVE CarefulInv'
  <2>1. /\ out' = [out EXCEPT ![p].emits = Tail(@)]
        /\ pc' = pc /\ event' = event /\ pc[p] = "deliver"
    BY <1>11 DEF DeliverInbox, DeliverFails
  <2>2. out'[p].block = out[p].block /\ \A q \in Procs \ {p} : out'[q] = out[q]
    BY <1>2, <2>1 DEF Output
  <2> QED
    BY <1>5, <2>1, <2>2
<1>12. ASSUME NEW p \in Procs, EmitProtocol(p) \/ Crash(p) PROVE CarefulInv'
  <2>1. /\ pc' = [pc EXCEPT ![p] = "idle"] /\ event' = [event EXCEPT ![p] = Nothing]
        /\ out' = [out EXCEPT ![p] = NoOutput]
    BY <1>12 DEF EmitProtocol, Crash, Forget, Goto
  <2>2. out'[p].block = {} /\ pc'[p] = "idle"
    BY <1>2, <2>1 DEF NoOutput
  <2>3. Careful(p)'
    BY <2>2 DEF Careful
  <2> QED
    BY <1>1, <1>2, <2>1, <2>3, CarefulFrame
<1> QED
  BY <1>3, <1>4, <1>6, <1>7, <1>8, <1>9, <1>10, <1>11, <1>12
  DEF Next, Proceed, Disturbed, Dispatching

(* deny-add-all refuses nothing but what it was written to refuse: with any   *)
(* number of hooks of parallel calls, any events, crashes and faults.         *)
THEOREM GuardRefusesOnlyDanger ==
  ASSUME IsDenyAddAll
  PROVE  Spec => OnlyDangerRefused
<1>1. CarefulInv /\ [Next]_vars => [\A p \in Procs : Refuse(p) => Dangerous(event[p])]_vars
  <2> SUFFICES ASSUME CarefulInv, NEW p \in Procs, Refuse(p) PROVE Dangerous(event[p])
    OBVIOUS
  <2>1. out[p].block # {}
    BY DEF Refuse, Reply, Rendered, Refused
  <2> QED
    BY <2>1 DEF CarefulInv, Careful
<1>2. CarefulInv /\ [Next]_vars => CarefulInv'
  BY CarefulStep
<1> QED
  BY <1>1, <1>2, CarefulInit, PTL DEF Spec, OnlyDangerRefused

-----------------------------------------------------------------------------
(* No danger passes in silence.  The hook is registered for the machine's one *)
(* trigger, and the texts and guards of this machine do not panic.            *)

GuardAssumption ==
    /\ IsDenyAddAll
    /\ \A e \in Events : Dangerous(e) => e.on = "PreToolUse"
    /\ {"guardpanic", "effectpanic"} \cap Faults = {}

(* Every record, torn, stale or fresh, leaves the machine on its watch ... *)
Watching(r) == r.state = "watch"

WatchInv ==
    /\ TypeInv
    /\ Watching(stateFile.record) /\ Watching(tmpFile.record)
    /\ \A p \in Procs : Watching(ctx[p])

(* ... so a dangerous call meets the rule if it meets a transition at all, and *)
(* once the rule's effect is performed there is a reason to block.            *)
Spoken(o) == o.halt \/ o.block # {}

Alert(p) ==
    /\ event[p].on = "PreToolUse"
    /\ pc[p] = "guard" => at[p] = 1
    /\ pc[p] = "effects" => eff[p] = 1 \/ Spoken(out[p])
    /\ pc[p] \in {"save", "write", "rename", "deliver", "answer"} => Spoken(out[p])

AlertInv == WatchInv /\ \A p \in Procs : Dangerous(event[p]) => Alert(p)

(* No effect but Block changes whether an output blocks. *)
LEMMA PerformBlock ==
  ASSUME NEW e, NEW o \in Output, NEW memory, NEW results
  PROVE  /\ e.kind = "Block" => Perform(e, o, memory, results).block # {}
         /\ Perform(e, o, memory, results).block = {} => o.block = {}
<1> DEFINE text == Resolve(e.text, memory, results)
           message == [target |-> e.name, message |-> text]
           injected == Append(o.inject, text)
           emitted == Append(o.emits, message)
<1> HIDE DEF injected, emitted, text
<1>1. [o EXCEPT !.inject = injected].block = o.block
  BY DEF Output
<1>2. [o EXCEPT !.block = {text}].block = {text}
  BY DEF Output
<1>3. [o EXCEPT !.emits = emitted].block = o.block
  BY DEF Output
<1> QED
  BY <1>1, <1>2, <1>3 DEF Perform, injected, emitted, text

(* Initially the machine is on its watch, and no call is dangerous. *)
LEMMA AlertInit ==
  ASSUME IsDenyAddAll
  PROVE  Init => AlertInv
<1> SUFFICES ASSUME Init PROVE AlertInv
  OBVIOUS
<1>1. TypeInv
  BY TypeInit
<1>2. Watching(Fresh)
  BY OnlyRule DEF Watching, Fresh
<1>3. /\ stateFile.record = Fresh /\ tmpFile.record = Fresh
      /\ \A p \in Procs : ctx[p] = Fresh
  BY DEF Init, FileInit, Absent
<1>4. ASSUME NEW p \in Procs PROVE ~Dangerous(event[p])
  BY DEF Init, Nothing, On, Dangerous
<1> QED
  BY <1>1, <1>2, <1>3, <1>4 DEF AlertInv, WatchInv

(* Records are copied, made afresh, or moved along the rule, back to "watch". *)
LEMMA WatchStep ==
  ASSUME IsDenyAddAll, WatchInv, [Next]_vars
  PROVE  WatchInv'
<1>1. TypeInv'
  BY TypeStep DEF WatchInv
<1>2. /\ ctx \in [Procs -> Persisted]
      /\ Watching(stateFile.record) /\ Watching(tmpFile.record)
      /\ \A p \in Procs : Watching(ctx[p])
  BY DEF WatchInv, TypeInv, TypeOK
<1>3. Watching(Fresh)
  BY OnlyRule DEF Watching, Fresh
<1>4. ASSUME UNCHANGED <<ctx, stateFile, tmpFile>> PROVE WatchInv'
  BY <1>1, <1>4 DEF WatchInv
<1>5. ASSUME NEW p \in Procs, NEW r, Watching(r), ctx' = [ctx EXCEPT ![p] = r],
             UNCHANGED <<stateFile, tmpFile>>
      PROVE  WatchInv'
  <2>1. \A q \in Procs : ctx'[q] = IF q = p THEN r ELSE ctx[q]
    BY <1>2, <1>5
  <2> QED
    BY <1>1, <1>2, <1>5, <2>1 DEF WatchInv
<1>6. ASSUME NEW p \in Procs,
             \/ \E e \in Events : Start(p, e)
             \/ TerminalState(p) \/ BudgetHalt(p) \/ Consider(p) \/ PassOver(p)
             \/ \E c \in DOMAIN M.cells, raw \in Raws : RunCell(p, c, raw)
             \/ Hold(p) \/ Fail(p) \/ NoMatch(p) \/ \E raw \in Raws : RunEffect(p, raw)
             \/ Panic(p) \/ DeliverInbox(p) \/ DeliverFails(p) \/ AllDelivered(p)
      PROVE  WatchInv'
  BY <1>4, <1>6
  DEF Start, TerminalState, BudgetHalt, Consider, PassOver, RunCell, Hold, Fail, NoMatch,
      RunEffect, Panic, DeliverInbox, DeliverFails, AllDelivered, fileVars
<1>7. ASSUME NEW p \in Procs, Load(p) \/ LoadFails(p) PROVE WatchInv'
  <2>1. Watching(Loaded(stateFile))
    BY <1>2, <1>3 DEF Loaded
  <2> QED
    BY <1>3, <1>5, <1>7, <2>1 DEF Load, LoadFails, fileVars
<1>8. ASSUME NEW p \in Procs, ApplyEffect(p) PROVE WatchInv'
  <2> DEFINE kept == Remember(Edge(p).do[eff[p]], ctx[p].vars, cells[p])
             r == [ctx[p] EXCEPT !.vars = kept]
  <2>1. ctx' = [ctx EXCEPT ![p].vars = kept] /\ UNCHANGED <<stateFile, tmpFile>>
    BY <1>8 DEF ApplyEffect, fileVars
  <2> HIDE DEF kept
  <2>2. ctx' = [ctx EXCEPT ![p] = r]
    BY <1>2, <2>1
  <2>3. r.state = ctx[p].state
    BY <1>2 DEF Persisted
  <2>4. Watching(r)
    BY <1>2, <2>3 DEF Watching
  <2> QED
    BY <1>5, <2>1, <2>2, <2>4
<1>9. ASSUME NEW p \in Procs, Fire(p) PROVE WatchInv'
  <2> DEFINE target == Edge(p).to
             spent == ctx[p].fuel - 1
             r == [ctx[p] EXCEPT !.fuel = spent, !.state = target]
  <2>1. /\ ctx' = [ctx EXCEPT ![p].fuel = @ - 1, ![p].state = target]
        /\ UNCHANGED <<stateFile, tmpFile>>
    BY <1>9 DEF Fire, fileVars
  <2>2. target = "watch"
    <3>1. at[p] \in DOMAIN Edges(p)
      BY <1>9 DEF Fire, WatchInv, TypeInv, PhaseOK
    <3> QED
      BY <3>1, EdgeIsRule, RuleFacts
  <2> HIDE DEF target
  <2>3. ctx' = [ctx EXCEPT ![p] = r]
    BY <1>2, <2>1
  <2>4. r.state = target
    BY <1>2 DEF Persisted
  <2>5. Watching(r)
    BY <2>2, <2>4 DEF Watching
  <2> QED
    BY <1>5, <2>1, <2>3, <2>5
<1>10. ASSUME NEW p \in Procs, EmitProtocol(p) \/ Crash(p) PROVE WatchInv'
  BY <1>3, <1>5, <1>10 DEF EmitProtocol, Crash, Close, Forget, fileVars
<1>11. ASSUME NEW p \in Procs, Open(p) \/ Write(p) \/ Rename(p) \/ SaveFails(p)
       PROVE  WatchInv'
  <2>1. UNCHANGED ctx
    BY <1>11 DEF Open, Write, Rename, SaveFails
  <2>2. /\ stateFile'.record \in {stateFile.record, tmpFile.record, ctx[p], Fresh}
        /\ tmpFile'.record \in {stateFile.record, tmpFile.record, ctx[p], Fresh}
    BY <1>11
    DEF Open, Write, Rename, SaveFails, OpenTmp, WriteTmp, RenameTmp, WriteFails,
        Overwritten, Whole, Empty, Garbled, Absent, fileVars
  <2> QED
    BY <1>1, <1>2, <1>3, <2>1, <2>2 DEF WatchInv
<1>12. CASE UNCHANGED vars
  BY <1>4, <1>12 DEF vars, procVars, fileVars
<1> QED
  BY <1>6, <1>7, <1>8, <1>9, <1>10, <1>11, <1>12
  DEF Next, Proceed, Disturbed, Dispatching

(* A step leaves the processes it does not belong to as they are. *)
LEMMA AlertFrame ==
  ASSUME AlertInv, WatchInv', NEW p \in Procs,
         \A q \in Procs \ {p} :
            /\ pc'[q] = pc[q] /\ event'[q] = event[q] /\ out'[q] = out[q]
            /\ at'[q] = at[q] /\ eff'[q] = eff[q],
         Dangerous(event'[p]) => Alert(p)'
  PROVE  AlertInv'
BY DEF AlertInv, Alert

(* Every step preserves it. *)
LEMMA AlertStep ==
  ASSUME GuardAssumption
  PROVE  AlertInv /\ [Next]_vars => AlertInv'
<1> SUFFICES ASSUME AlertInv, [Next]_vars PROVE AlertInv'
  OBVIOUS
<1>0. IsDenyAddAll
  BY DEF GuardAssumption
<1>1. WatchInv'
  BY <1>0, WatchStep DEF AlertInv
<1>2. /\ pc \in [Procs -> Phase] /\ event \in [Procs -> Event] /\ out \in [Procs -> Output]
      /\ at \in [Procs -> Nat] /\ eff \in [Procs -> Nat]
      /\ \A p \in Procs : Dangerous(event[p]) => Alert(p)
  BY DEF AlertInv, WatchInv, TypeInv, TypeOK
<1>3. CASE UNCHANGED vars
  BY <1>1, <1>3 DEF vars, procVars, AlertInv, Alert
(* A step of p within its event, to be judged for a dangerous one only. *)
<1>4. ASSUME NEW p \in Procs, UNCHANGED event,
             \A q \in Procs \ {p} :
                pc'[q] = pc[q] /\ out'[q] = out[q] /\ at'[q] = at[q] /\ eff'[q] = eff[q],
             Dangerous(event[p]) /\ Alert(p) => Alert(p)'
      PROVE  AlertInv'
  BY <1>1, <1>2, <1>4, AlertFrame
<1>5. ASSUME NEW p \in Procs, NEW e \in Events, Start(p, e) PROVE AlertInv'
  <2>1. /\ pc' = [pc EXCEPT ![p] = "load"] /\ event' = [event EXCEPT ![p] = e]
        /\ UNCHANGED <<out, at, eff>>
    BY <1>5 DEF Start, Goto
  <2>2. pc'[p] = "load" /\ event'[p] = e
    BY <1>2, <2>1
  <2>3. Dangerous(e) => e.on = "PreToolUse"
    BY DEF GuardAssumption
  <2>4. ASSUME Dangerous(event'[p]) PROVE Alert(p)'
    <3>1. event'[p].on = "PreToolUse"
      BY <2>2, <2>3, <2>4
    <3> QED
      BY <2>2, <3>1 DEF Alert
  <2> QED
    BY <1>1, <1>2, <2>1, <2>4, AlertFrame
<1>6. ASSUME NEW p \in Procs, Load(p) \/ LoadFails(p) PROVE AlertInv'
  <2>1. pc' = [pc EXCEPT ![p] = "dispatch"] /\ UNCHANGED <<event, out, at, eff>>
    BY <1>6 DEF Load, LoadFails, Goto
  <2>2. pc'[p] = "dispatch"
    BY <1>2, <2>1
  <2>3. Alert(p) => Alert(p)'
    BY <2>1, <2>2 DEF Alert
  <2> QED
    BY <1>2, <1>4, <2>1, <2>3
<1>7. ASSUME NEW p \in Procs, TerminalState(p) PROVE AlertInv'
  <2>1. Lookup(ctx[p].state).terminal /\ ctx[p].state = "watch"
    BY <1>7 DEF TerminalState, AlertInv, WatchInv, Watching
  <2> QED
    BY <1>0, <2>1, OnlyRule
<1>8. ASSUME NEW p \in Procs, BudgetHalt(p) PROVE AlertInv'
  <2>1. /\ out' = [out EXCEPT ![p] = Exhausted(event[p].on)]
        /\ pc' = [pc EXCEPT ![p] = "save"] /\ UNCHANGED <<event, at, eff>>
    BY <1>8 DEF BudgetHalt, Goto
  <2>2. Exhausted(event[p].on).halt
    BY DEF Exhausted, NoOutput
  <2>3. pc'[p] = "save" /\ Spoken(out'[p])
    BY <1>2, <2>1, <2>2 DEF Spoken
  <2>4. Alert(p) => Alert(p)'
    BY <2>1, <2>3 DEF Alert
  <2> QED
    BY <1>2, <1>4, <2>1, <2>4
<1>9. ASSUME NEW p \in Procs, Consider(p) PROVE AlertInv'
  <2>1. /\ at' = [at EXCEPT ![p] = 1]
        /\ pc' = [pc EXCEPT ![p] = "guard"] /\ UNCHANGED <<event, out, eff>>
    BY <1>9 DEF Consider, Goto
  <2>2. pc'[p] = "guard" /\ at'[p] = 1
    BY <1>2, <2>1
  <2>3. Alert(p) => Alert(p)'
    BY <2>1, <2>2 DEF Alert
  <2> QED
    BY <1>2, <1>4, <2>1, <2>3
<1>10. ASSUME NEW p \in Procs, PassOver(p) PROVE AlertInv'
  <2>1. /\ Edge(p).on # event[p].on /\ at[p] \in DOMAIN Edges(p)
        /\ at' = [at EXCEPT ![p] = @ + 1] /\ UNCHANGED <<pc, event, out, eff>>
    BY <1>10 DEF PassOver
  <2>2. ~Alert(p)
    <3>1. Edge(p).on = "PreToolUse"
      BY <1>0, <2>1, EdgeIsRule, RuleFacts
    <3> QED
      BY <2>1, <3>1 DEF Alert
  <2> QED
    BY <1>2, <1>4, <2>1, <2>2
<1>11. ASSUME NEW p \in Procs,
              NEW c \in DOMAIN M.cells, NEW raw \in Raws, RunCell(p, c, raw)
       PROVE  AlertInv'
  <2>1. UNCHANGED <<pc, event, out, at, eff>>
    BY <1>11 DEF RunCell
  <2> QED
    BY <1>1, <2>1 DEF AlertInv, Alert
<1>12. ASSUME NEW p \in Procs, Hold(p) PROVE AlertInv'
  <2>1. /\ out' = Linted(p) /\ eff' = [eff EXCEPT ![p] = 1]
        /\ pc' = [pc EXCEPT ![p] = "effects"] /\ UNCHANGED <<event, at>>
    BY <1>12 DEF Hold, Goto
  <2>2. \A q \in Procs \ {p} : out'[q] = out[q]
    BY <1>2, <2>1 DEF Linted
  <2>3. pc'[p] = "effects" /\ eff'[p] = 1
    BY <1>2, <2>1
  <2>4. Alert(p) => Alert(p)'
    BY <2>1, <2>3 DEF Alert
  <2> QED
    BY <1>2, <1>4, <2>1, <2>2, <2>4
<1>13. ASSUME NEW p \in Procs, Fail(p) PROVE AlertInv'
  <2>1. /\ out' = Linted(p) /\ at' = [at EXCEPT ![p] = @ + 1]
        /\ UNCHANGED <<pc, event, eff>>
    BY <1>13 DEF Fail
  <2>2. \A q \in Procs \ {p} : out'[q] = out[q]
    BY <1>2, <2>1 DEF Linted
  <2>3. ~Dangerous(event[p])
    <3>1. Edge(p) = Rule
      BY <1>0, <1>13, EdgeIsRule DEF Fail, AtGuard
    <3> QED
      BY <1>13, <3>1, RuleMatches DEF Fail
  <2> QED
    BY <1>2, <1>4, <2>1, <2>2, <2>3
<1>14. ASSUME NEW p \in Procs, NoMatch(p) PROVE AlertInv'
  <2>1. /\ pc[p] = "guard" /\ at[p] > Len(Edges(p))
        /\ pc' = [pc EXCEPT ![p] = "save"] /\ UNCHANGED <<event, out, at, eff>>
    BY <1>14 DEF NoMatch, Goto
  <2>2. Len(Edges(p)) = 1
    <3>1. Edges(p) = <<Rule>>
      BY <1>0, OnlyRule DEF AlertInv, WatchInv, Watching, Edges
    <3>2. \A x : Len(<<x>>) = 1
      OBVIOUS
    <3> QED
      BY <3>1, <3>2
  <2>3. ~Alert(p)
    BY <2>1, <2>2 DEF Alert
  <2> QED
    BY <1>2, <1>4, <2>1, <2>3
<1>15. ASSUME NEW p \in Procs, AtEffect(p) PROVE Edge(p).do[eff[p]].kind = "Block"
  <2>1. at[p] \in DOMAIN Edges(p) /\ eff[p] \in DOMAIN Edge(p).do
    BY <1>15 DEF AtEffect, AlertInv, WatchInv, TypeInv, PhaseOK
  <2>2. Edge(p) = Rule
    BY <1>0, <2>1, EdgeIsRule
  <2>3. eff[p] = 1
    BY <2>1, <2>2, RuleFacts
  <2> QED
    BY <2>2, <2>3, RuleFacts
<1>16. ASSUME NEW p \in Procs, ApplyEffect(p) PROVE AlertInv'
  <2> DEFINE performed == Perform(Edge(p).do[eff[p]], out[p], ctx[p].vars, cells[p])
  <2>1. /\ out' = [out EXCEPT ![p] = performed] /\ eff' = [eff EXCEPT ![p] = @ + 1]
        /\ UNCHANGED <<pc, event, at>> /\ pc[p] = "effects"
    BY <1>16 DEF ApplyEffect, AtEffect
  <2>2. performed.block # {}
    BY <1>2, <1>15, <1>16, PerformBlock DEF ApplyEffect
  <2> HIDE DEF performed
  <2>3. Spoken(out'[p])
    BY <1>2, <2>1, <2>2 DEF Spoken
  <2>4. Alert(p) => Alert(p)'
    BY <2>1, <2>3 DEF Alert
  <2> QED
    BY <1>2, <1>4, <2>1, <2>4
<1>17. ASSUME NEW p \in Procs, NEW raw \in Raws, RunEffect(p, raw) PROVE AlertInv'
  BY <1>15, <1>17 DEF RunEffect
<1>18. ASSUME NEW p \in Procs, Fire(p) PROVE AlertInv'
  <2>1. /\ pc[p] = "effects" /\ eff[p] > Len(Edge(p).do)
        /\ pc' = [pc EXCEPT ![p] = "save"] /\ UNCHANGED <<event, out, at, eff>>
    BY <1>18 DEF Fire, Goto
  <2>2. Edge(p) = Rule
    BY <1>0, <2>1, EdgeIsRule DEF AlertInv, WatchInv, TypeInv, PhaseOK
  <2>3. eff[p] # 1
    BY <1>2, <2>1, <2>2, RuleFacts
  <2>4. Alert(p) => Alert(p)'
    <3>1. pc'[p] = "save"
      BY <1>2, <2>1
    <3> QED
      BY <2>1, <2>3, <3>1 DEF Alert
  <2> QED
    BY <1>2, <1>4, <2>1, <2>4
<1>19. ASSUME NEW p \in Procs, Panic(p) PROVE AlertInv'
  BY <1>19 DEF Panic, GuardAssumption
<1>20. ASSUME NEW p \in Procs,
              Open(p) \/ Write(p) \/ Rename(p) \/ SaveFails(p) \/ AllDelivered(p)
       PROVE  AlertInv'
  <2>1. /\ pc[p] \in {"save", "write", "rename", "deliver"}
        /\ \E phase \in {"write", "rename", "deliver", "answer"} : pc' = [pc EXCEPT ![p] = phase]
        /\ UNCHANGED <<event, out, at, eff>>
    BY <1>20 DEF Open, Write, Rename, SaveFails, AllDelivered, Goto
  <2>2. pc'[p] \in {"write", "rename", "deliver", "answer"} /\ \A q \in Procs \ {p} : pc'[q] = pc[q]
    BY <1>2, <2>1
  <2>3. Alert(p) => Alert(p)'
    BY <2>1, <2>2 DEF Alert
  <2> QED
    BY <1>4, <2>1, <2>2, <2>3
<1>21. ASSUME NEW p \in Procs, DeliverInbox(p) \/ DeliverFails(p) PROVE AlertInv'
  <2>1. /\ out' = [out EXCEPT ![p].emits = Tail(@)]
        /\ UNCHANGED <<pc, event, at, eff>>
    BY <1>21 DEF DeliverInbox, DeliverFails
  <2>2. /\ out'[p].block = out[p].block /\ out'[p].halt = out[p].halt
        /\ \A q \in Procs \ {p} : out'[q] = out[q]
    BY <1>2, <2>1 DEF Output
  <2>3. Alert(p) => Alert(p)'
    BY <2>1, <2>2 DEF Alert, Spoken
  <2> QED
    BY <1>4, <2>1, <2>2, <2>3
<1>22. ASSUME NEW p \in Procs, EmitProtocol(p) \/ Crash(p) PROVE AlertInv'
  <2>1. Forget(p)
    BY <1>22 DEF EmitProtocol, Crash
  <2>2. event'[p] = Nothing
    BY <1>2, <2>1 DEF Forget
  <2>3. ~Dangerous(Nothing)
    BY DEF Nothing, On, Dangerous
  <2>4. ~Dangerous(event'[p])
    BY <2>2, <2>3
  <2>5. \A q \in Procs \ {p} :
          /\ pc'[q] = pc[q] /\ event'[q] = event[q] /\ out'[q] = out[q]
          /\ at'[q] = at[q] /\ eff'[q] = eff[q]
    BY <1>2, <2>1 DEF Forget, Goto
  <2> QED
    BY <1>1, <2>4, <2>5, AlertFrame
<1> QED
  BY <1>3, <1>5, <1>6, <1>7, <1>8, <1>9, <1>10, <1>11, <1>12, <1>13, <1>14, <1>16, <1>17,
     <1>18, <1>19, <1>20, <1>21, <1>22
  DEF Next, Proceed, Disturbed, Dispatching

(* deny-add-all lets a dangerous command pass only aloud, and only when all   *)
(* its budget has been spent: with any number of hooks of parallel calls,     *)
(* deaths, torn saves and disk faults.                                        *)
THEOREM GuardPassesOnlyAloud ==
  ASSUME GuardAssumption
  PROVE  Spec => DangerPassesOnlyAloud
<1>1. AlertInv /\ HaltOnlyWhenSpent /\ [Next]_vars =>
        [\A p \in Procs : EmitProtocol(p) /\ Dangerous(event[p]) /\ said'.exit = 0
                          => said'.loud /\ fired = M.fuel]_vars
  <2> SUFFICES ASSUME AlertInv, HaltOnlyWhenSpent, NEW p \in Procs, EmitProtocol(p),
                      Dangerous(event[p]), said'.exit = 0
               PROVE  said'.loud /\ fired = M.fuel
    OBVIOUS
  <2>1. Spoken(out[p]) /\ event[p].on = "PreToolUse"
    BY DEF EmitProtocol, AlertInv, Alert
  <2>2. said' = Rendered(out[p], event[p].on)
    BY DEF EmitProtocol, Reply
  <2>3. /\ said'.loud = out[p].halt
        /\ said'.exit = IF Refused(out[p], event[p].on) THEN 2 ELSE 0
    BY <2>2 DEF Rendered
  <2>4. ~Refused(out[p], event[p].on)
    BY <2>3
  <2>5. out[p].halt
    BY <2>1, <2>4 DEF Refused, Gating, Spoken
  <2> QED
    BY <2>3, <2>5 DEF HaltOnlyWhenSpent
<1>2. AlertInv /\ [Next]_vars => AlertInv'
  BY AlertStep
<1>3. Init => AlertInv
  BY AlertInit DEF GuardAssumption
<1> QED
  BY <1>1, <1>2, <1>3, HaltsOnlyWhenSpent, PTL DEF Spec, DangerPassesOnlyAloud
=============================================================================
