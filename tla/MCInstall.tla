------------------------------ MODULE MCInstall ------------------------------
(* Two installers, two machines that share a trigger, a dry run and an      *)
(* unsound machine, on settings of every shape that matters.                *)
EXTENDS Install

Symmetry == Permutations(Procs)

Asks(command, uses) == [command |-> command, uses |-> uses, sound |-> TRUE, write |-> TRUE]

Asked ==
    {Asks("nudge", {"Stop", "UserPromptSubmit"}), Asks("guard", {"Stop"}),
     [Asks("guard", {"Stop"}) EXCEPT !.write = FALSE],
     [Asks("broken", {"Stop"}) EXCEPT !.sound = FALSE]}

Hand(stop, prompt) ==
    [NoKeys EXCEPT !.keys = {"model"}, !.object = TRUE,
                   !.lists = ("Stop" :> stop) @@ ("UserPromptSubmit" :> prompt) @@ @]

(* No file, one without bytes, one cut short, no hooks, foreign entries and  *)
(* one of an unusual shape, half an installation with a foreign entry behind *)
(* it, values that are no lists, hooks that are no object.                   *)
Shapes ==
    {Absent, Empty, Garbled,
     Whole(Hand(<<>>, <<>>)),
     Whole(Hand(<<{"lint"}, {}>>, <<{"lint", "log"}>>)),
     Whole(Hand(<<{"nudge"}, {"lint"}>>, <<>>)),
     Whole([Hand(<<>>, <<{"lint"}>>) EXCEPT !.odd = {"Stop", "PreToolUse"}]),
     Whole([Hand(<<>>, <<>>) EXCEPT !.object = FALSE])}
=============================================================================
