------------------------------- MODULE MCHook -------------------------------
(***************************************************************************)
(* Hook on the repository's machines, and on one that has every kind of    *)
(* guard and effect, for the model checker.                                *)
(***************************************************************************)
EXTENDS StandingGuard, Machines, TLC

AnyString == STRING

Symmetry == Permutations(Procs)

-----------------------------------------------------------------------------
(* A machine with every kind of effect: it remembers a term, relays it, asks *)
(* a cell for its side effect and repeats what it remembers.  One of its     *)
(* terms is in the language and not safe, one guard does not declare the     *)
(* cell it looks at, and one declares a cell whose name has a hyphen.        *)
MeshRaws  == {"yes", "wipe", "junk", ""}
MeshWords == {"judge", "note", "term", "wellformed", "safe", "raw"}

judge == [grammar |-> [raw \in MeshRaws |->
                         IF raw \in {"yes", "wipe"} THEN Member(raw) ELSE Outside(raw)],
          safe |-> {"yes"}]

Undeclaring == [TermIs("judge", "yes") EXCEPT !.reads = {}]

NoteTerm == SetVar("note", {<<"cells", "judge", "term">>}, TermOf("judge"))

Mesh ==
    [initial |-> "a", fuel |-> 3, keys |-> {"note"},
     cells   |-> [c \in {"judge", "load-check"} |-> judge],
     states  |-> [s \in {"a", "b", "done"} |->
        CASE s = "a" ->
           [terminal |-> FALSE, on |-> <<
              [on |-> "Stop", to |-> "b", guard |-> TermIs("judge", "yes"),
               do |-> <<NoteTerm, Emit("reviewer", TermOf("judge"))>>],
              [on |-> "Stop", to |-> "done", guard |-> TermIs("judge", "wipe"),
               do |-> <<Inject(TermOf("judge"))>>],
              [on |-> "UserPromptSubmit", to |-> "b", guard |-> Undeclaring,
               do |-> <<Block(S("never"))>>],
              [on |-> "Stop", to |-> "a", guard |-> Unformed("judge"),
               do |-> <<NoteTerm, Block(S("again"))>>],
              [on |-> "UserPromptSubmit", to |-> "a", guard |-> VarSet("note"),
               do |-> <<Inject(FromVar("note")), ClearVar("note")>>] >>]
          [] s = "b" ->
           [terminal |-> FALSE, on |-> <<
              [on |-> "Stop", to |-> "done", guard |-> TranscriptMatches({"finished"}),
               do |-> <<Inject(FromVar("note"))>>],
              [on |-> "UserPromptSubmit", to |-> "b", guard |-> VarSet("note"),
               do |-> <<Inject(TermOf("judge")), Run("judge"), Run("judge"),
                        Inject(TermOf("judge")), NoteTerm, Emit("reviewer", FromVar("note")),
                        Emit("auditor", S("noted"))>>],
              [on |-> "Stop", to |-> "done", guard |-> TermIs("load-check", "yes"),
               do |-> <<Block(S("never"))>>],
              [on |-> "Stop", to |-> "a", guard |-> Always, do |-> <<>>] >>]
          [] s = "done" -> Terminal]]

MeshEvents == {On("Stop"), After("finished"), On("UserPromptSubmit")}
=============================================================================
