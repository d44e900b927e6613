------------------------------ MODULE Language ------------------------------
(***************************************************************************)
(* The statechart language of package spec as plain data: triggers, text   *)
(* fields, guards, effects, transitions, states, hook events and outputs,  *)
(* with the constructors an emitter builds a machine from.                 *)
(*                                                                         *)
(* Texts, terms, commands and raw completions are strings nobody takes     *)
(* apart here: a regular expression is the set of the strings it matches,  *)
(* a grammar the function from each completion to the term it parses to.   *)
(***************************************************************************)
EXTENDS Naturals, Sequences, FiniteSets

CONSTANTS
    Strings,    \* the strings machines, events and completions are made of
    Words       \* those made of word characters only

ASSUME StringsAssumption == {"", "budget exhausted"} \subseteq Strings

-----------------------------------------------------------------------------
(* Triggers, and what the hook protocol lets each of them do. *)

Trigger   == {"SessionStart", "UserPromptSubmit", "PreToolUse", "PostToolUse",
              "Stop", "SubagentStop"}
Injecting == Trigger \ {"PreToolUse"}
Gating    == {"PreToolUse", "UserPromptSubmit", "Stop"}

-----------------------------------------------------------------------------
(* Text fields: a constant, the validated term of a cell, or a stored var. *)

S(s)       == [from |-> "const", name |-> s]
TermOf(c)  == [from |-> "term",  name |-> c]
FromVar(k) == [from |-> "var",   name |-> k]
Text       == [from : {"const", "term", "var"}, name : Strings]

-----------------------------------------------------------------------------
(* The result of a cell, and the zero result of one that has not run. *)

CellResult == [ran : BOOLEAN, term : Strings, wellFormed : BOOLEAN, safe : BOOLEAN]
ZeroResult == [ran |-> FALSE, term |-> "", wellFormed |-> FALSE, safe |-> FALSE]

-----------------------------------------------------------------------------
(* Guards.  "reads" is what the guard declares; "kind" says what its When    *)
(* really looks at, so the two may disagree, as they may in a Go literal.    *)

Guard == [kind  : {"always", "term", "unformed", "var", "event", "transcript"},
          reads : SUBSET Seq(Strings),
          name  : Strings,
          of    : SUBSET Strings]

Always               == [kind |-> "always", reads |-> {}, name |-> "", of |-> {}]
TermIs(cell, want)   == [kind |-> "term", reads |-> {<<"cells", cell, "term">>},
                         name |-> cell, of |-> {want}]
Unformed(cell)       == [kind |-> "unformed", reads |-> {<<"cells", cell, "wellformed">>},
                         name |-> cell, of |-> {}]
VarSet(key)          == [kind |-> "var", reads |-> {<<"vars", key>>}, name |-> key, of |-> {}]
ToolRuns(tool, re)   == [kind |-> "event",
                         reads |-> {<<"event", "tool_name">>, <<"event", "tool_input", "command">>},
                         name |-> tool, of |-> re]
TranscriptMatches(re) == [kind |-> "transcript", reads |-> {<<"transcript">>},
                          name |-> "", of |-> re]

(* The cells named by declared reads.  A read is recognised only when it has *)
(* three parts and the cell and the field are words: a hyphenated name goes  *)
(* unseen.                                                                   *)
CellReads(reads) == {r \in reads : Len(r) = 3 /\ r[1] = "cells" /\ {r[2], r[3]} \subseteq Words}
Cells(reads)     == {r[2] : r \in CellReads(reads)}

(* The cells the guard's When looks at, and those of them it fails to declare. *)
Touched(guard)    == IF guard.kind \in {"term", "unformed"} THEN {guard.name} ELSE {}

(* Faulty: a declared name counts, whether or not its cell is run for it. *)
UndeclaredByName(guard) == Touched(guard) \ {r[2] : r \in {q \in guard.reads : Len(q) = 3}}

Undeclared(guard) == Touched(guard) \ Cells(guard.reads)

-----------------------------------------------------------------------------
(* Effects. "name" is the cell of a Run, the key of a SetVar or the target   *)
(* of an Emit; "reads" is what a SetVar declares its value depends on.        *)

Effect == [kind  : {"Inject", "Block", "Run", "Emit", "SetVar"},
           name  : Strings,
           text  : Text,
           reads : SUBSET Seq(Strings)]

Does(kind, name, text)   == [kind |-> kind, name |-> name, text |-> text, reads |-> {}]
Inject(text)             == Does("Inject", "", text)
Block(reason)            == Does("Block", "", reason)
Run(cell)                == Does("Run", cell, S(""))
Emit(target, text)       == Does("Emit", target, text)
SetVar(key, reads, text) == [Does("SetVar", key, text) EXCEPT !.reads = reads]
ClearVar(key)            == SetVar(key, {}, S(""))

(* What one dispatch hands to the protocol: text to inject, at most one     *)
(* reason to block, messages for other agents, the loud budget halt, and    *)
(* the authoring lint (cells a guard looked at without declaring them).     *)
Output   == [inject : Seq(Strings), block : SUBSET Strings,
             emits : Seq([target : Strings, message : Strings]),
             halt : BOOLEAN, lint : SUBSET Strings]
NoOutput == [inject |-> <<>>, block |-> {}, emits |-> <<>>, halt |-> FALSE, lint |-> {}]

(* How an output is rendered to the hook protocol: exit code 2 refuses the   *)
(* triggering action and drops whatever was to be injected, exit code 0 lets *)
(* it pass and carries the injected text.                                    *)
Answer == [on : Trigger, exit : {0, 2}, context : Seq(Strings), loud : BOOLEAN]

Refused(out, trigger) == out.block # {} /\ trigger \in Gating
Rendered(out, trigger) ==
    [on |-> trigger, loud |-> out.halt,
     exit    |-> IF Refused(out, trigger) THEN 2 ELSE 0,
     context |-> IF Refused(out, trigger) THEN <<>> ELSE out.inject]

-----------------------------------------------------------------------------
(* One edge, and one state with its edges in declaration order. *)

Transition == [on : Trigger, to : Strings, guard : Guard, do : Seq(Effect)]
State      == [terminal : BOOLEAN, on : Seq(Transition)]
Terminal   == [terminal |-> TRUE, on |-> <<>>]

-----------------------------------------------------------------------------
(* A hook event: its trigger, the tool call it announces and the transcript *)
(* tail, "" where the event has none.                                       *)
Event == [on : Trigger, tool : Strings, command : Strings, transcript : Strings]
On(trigger)        == [on |-> trigger, tool |-> "", command |-> "", transcript |-> ""]
Calls(tool, cmd)   == [On("PreToolUse") EXCEPT !.tool = tool, !.command = cmd]
After(text)        == [On("Stop") EXCEPT !.transcript = text]
=============================================================================
