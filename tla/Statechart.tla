----------------------------- MODULE Statechart -----------------------------
(***************************************************************************)
(* What a machine means: the oracle cells it consults, the guards that     *)
(* select its transitions and the effects a fired transition performs.     *)
(* The machine is the CONSTANT M, a record                                 *)
(*    initial  the name of its initial state                               *)
(*    fuel     its step budget                                             *)
(*    states   a function from names to states (Language!State)            *)
(*    cells    a function from names to cells [grammar, safe]        *)
(*    keys     the vars its SetVar effects write                           *)
(***************************************************************************)
EXTENDS Language

CONSTANTS
    M,      \* the machine
    Raws    \* the raw completions a model call can return; "" is a failed call

-----------------------------------------------------------------------------
(* The oracle pipeline. *)

NoCells    == [c \in DOMAIN M.cells |-> ZeroResult]

(* Faulty: what an answer outside the language parsed to is kept. *)
CheckKeepsTerm(c, raw) ==
    LET parse == M.cells[c].grammar[raw]
    IN  [ran |-> TRUE, term |-> parse.term, wellFormed |-> parse.ok,
         safe |-> parse.ok /\ parse.term \in M.cells[c].safe]

(* Membership in the language first, then safety of the term; a completion  *)
(* outside the language leaves nothing behind but the fact that it ran.     *)
Check(c, raw) ==
    LET parse == M.cells[c].grammar[raw]
    IN  IF parse.ok
        THEN [ran |-> TRUE, term |-> parse.term, wellFormed |-> TRUE,
              safe |-> parse.term \in M.cells[c].safe]
        ELSE [ZeroResult EXCEPT !.ran = TRUE]

-----------------------------------------------------------------------------
(* Reading the context. *)

Resolve(text, vars, cells) ==
    CASE text.from = "const" -> text.name
      [] text.from = "term"  -> IF text.name \in DOMAIN cells THEN cells[text.name].term ELSE ""
      [] text.from = "var"   -> IF text.name \in DOMAIN vars THEN vars[text.name] ELSE ""

(* The cells run before a guard is evaluated. *)
Declared(guard) == Cells(guard.reads) \cap DOMAIN M.cells

CellOf(cells, c) == IF c \in DOMAIN cells THEN cells[c] ELSE ZeroResult

(* Faulty: the tool decides, whatever the command. *)
ToolMatches(guard, event) == event.tool = guard.name

(* And(ToolIs(tool), CommandMatches(re)): an absent command never matches. *)
EventMatches(guard, event) ==
    /\ event.tool = guard.name
    /\ event.command # ""
    /\ event.command \in guard.of

When(guard, event, vars, cells) ==
    CASE guard.kind = "always"     -> TRUE
      [] guard.kind = "term"       -> LET r == CellOf(cells, guard.name)
                                      IN  r.wellFormed /\ r.term \in guard.of
      [] guard.kind = "unformed"   -> ~CellOf(cells, guard.name).wellFormed
      [] guard.kind = "var"        -> Resolve(FromVar(guard.name), vars, cells) # ""
      [] guard.kind = "event"      -> EventMatches(guard, event)
      [] guard.kind = "transcript" -> /\ event.transcript # ""
                                      /\ event.transcript \in guard.of

-----------------------------------------------------------------------------
(* Effects. *)

(* What an effect adds to the output; Run and SetVar add nothing to it. *)
Perform(eff, out, vars, cells) ==
    LET text == Resolve(eff.text, vars, cells)
    IN  CASE eff.kind = "Inject" -> [out EXCEPT !.inject = Append(@, text)]
          [] eff.kind = "Block"  -> [out EXCEPT !.block = {text}]
          [] eff.kind = "Emit"   ->
                [out EXCEPT !.emits = Append(@, [target |-> eff.name, message |-> text])]
          [] OTHER -> out

(* What an effect writes into the machine's memory: only SetVar does. *)
Remember(eff, vars, cells) ==
    IF eff.kind = "SetVar"
    THEN [vars EXCEPT ![eff.name] = Resolve(eff.text, vars, cells)]
    ELSE vars

(* Faulty: the guard retires without a word. *)
ExhaustedQuietly(trigger) == NoOutput

(* Once the budget is spent the machine only says so, where text is heard. *)
Exhausted(trigger) ==
    [NoOutput EXCEPT !.halt = TRUE,
                     !.inject = IF trigger \in Gating THEN <<"budget exhausted">> ELSE <<>>]

-----------------------------------------------------------------------------
(* States, and the record persisted between two hook events. *)

(* A state the machine does not have is the zero State: no transitions. *)
Lookup(s) == IF s \in DOMAIN M.states THEN M.states[s] ELSE [terminal |-> FALSE, on |-> <<>>]

(* What survives between two hook events, and what a session starts with. *)
Vars      == [M.keys -> Strings]
Persisted == [state : Strings, fuel : Nat, vars : Vars]
Fresh     == [state |-> M.initial, fuel |-> M.fuel, vars |-> [k \in M.keys |-> ""]]

-----------------------------------------------------------------------------
(* E-FUEL: a positive budget is what makes a machine total. *)
ASSUME FuelAssumption == M.fuel \in Nat \ {0}

(* The machine is built from the types above; a grammar says of every       *)
(* completion whether it is in the language and which term it parses to.    *)
ASSUME MachineAssumption ==
    /\ M.initial \in Strings
    /\ \A s \in DOMAIN M.states : M.states[s] \in State
    /\ \A c \in DOMAIN M.cells :
          /\ M.cells[c].grammar \in [Raws -> [term : Strings, ok : BOOLEAN]]
          /\ M.cells[c].safe \subseteq Strings

(* What the checker demands before a machine may be installed: E-INITIAL,    *)
(* E-TARGET, E-TERMINAL, then E-CELL, E-ORACLE, E-INJECT and E-BLOCK for     *)
(* each transition.  The keys are those the SetVars write.                   *)
SoundTransition(t) ==
    /\ t.to \in DOMAIN M.states
    /\ \A r \in CellReads(t.guard.reads) :
          r[2] \in DOMAIN M.cells /\ r[3] \in {"term", "wellformed", "safe"}
    /\ \A j \in DOMAIN t.do :
          /\ t.do[j].kind = "Inject" => t.on \in Injecting
          /\ t.do[j].kind = "Block"  => t.on \in Gating
          /\ t.do[j].kind = "Run"    => t.do[j].name \in DOMAIN M.cells
          /\ t.do[j].kind = "SetVar" => t.do[j].name \in M.keys

ASSUME SoundAssumption ==
    /\ M.initial \in DOMAIN M.states
    /\ \A s \in DOMAIN M.states :
          /\ M.states[s].terminal => M.states[s].on = <<>>
          /\ \A i \in DOMAIN M.states[s].on : SoundTransition(M.states[s].on[i])
=============================================================================
