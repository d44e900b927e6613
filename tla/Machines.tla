------------------------------ MODULE Machines ------------------------------
(***************************************************************************)
(* The machines of the repository's registry, each with what its oracle may *)
(* respond and the hook events that concern it; the standing guard, which   *)
(* has no oracle, is in StandingGuard.                                      *)
(***************************************************************************)
EXTENDS Language, Oracle

(* What a grammar says of one completion: the term it parses to, whether it *)
(* is in the language.                                                      *)
Member(term)  == [term |-> term, ok |-> TRUE]
Outside(term) == [term |-> term, ok |-> FALSE]

-----------------------------------------------------------------------------
(* review-loop: refuse to stop until a self-check says the task is done. *)

ReviewResponses ==
    {Failed, Response(<<Says("complete")>>), Response(<<Says(" Inc"), Says("omplete")>>),
     Response(<<Says("not sure")>>), Response(<<Uses("assess", "complete")>>)}

ReviewRaws == {AnthropicModel(r, FALSE, "assess") : r \in ReviewResponses}

assess == [grammar |-> [raw \in ReviewRaws |->
                          CASE raw = "complete"    -> Member("complete")
                            [] raw = " Incomplete" -> Member("incomplete")
                            [] OTHER               -> Outside(raw)],
           safe |-> {"complete", "incomplete"}]

ReviewLoop ==
    [initial |-> "loop", fuel |-> 4, keys |-> {},
     cells   |-> [c \in {"assess"} |-> assess],
     states  |-> [s \in {"loop", "done"} |->
        IF s = "done" THEN Terminal ELSE
        [terminal |-> FALSE, on |-> <<
           [on |-> "Stop", to |-> "done", guard |-> TermIs("assess", "complete"),
            do |-> <<Inject(S("verified"))>>],
           [on |-> "Stop", to |-> "loop", guard |-> TermIs("assess", "incomplete"),
            do |-> <<Block(S("not yet complete"))>>],
           [on |-> "Stop", to |-> "done", guard |-> Unformed("assess"),
            do |-> <<Inject(S("inconclusive"))>>] >>]]]

ReviewEvents == {On("Stop"), On("UserPromptSubmit")}

-----------------------------------------------------------------------------
(* hedge-verify: notice a hedge when a turn ends, nudge at the next prompt.  *)
(* The cheap lens matches the transcript, the smart one asks a cell.         *)

(* Faulty: the memory is not cleared. *)
HedgeBuildForgetful(detect, cells) ==
    [initial |-> "watch", fuel |-> 50, keys |-> {"pending"}, cells |-> cells,
     states  |-> [s \in {"watch"} |->
        [terminal |-> FALSE, on |-> <<
           [on |-> "Stop", to |-> "watch", guard |-> detect,
            do |-> <<SetVar("pending", {}, S("1"))>>],
           [on |-> "UserPromptSubmit", to |-> "watch", guard |-> VarSet("pending"),
            do |-> <<Inject(S("nudge"))>>] >>]]]

HedgeBuild(detect, cells) ==
    [initial |-> "watch", fuel |-> 50, keys |-> {"pending"}, cells |-> cells,
     states  |-> [s \in {"watch"} |->
        [terminal |-> FALSE, on |-> <<
           [on |-> "Stop", to |-> "watch", guard |-> detect,
            do |-> <<SetVar("pending", {}, S("1"))>>],
           [on |-> "UserPromptSubmit", to |-> "watch", guard |-> VarSet("pending"),
            do |-> <<Inject(S("nudge")), ClearVar("pending")>>] >>]]]

(* A text is "hedged" when one of the watched words is somewhere in it, else *)
(* "plain"; the nudge quotes the words, so it is itself hedged.              *)
HedgeVerify == HedgeBuild(TranscriptMatches({"hedged"}), <<>>)

VerdictResponses ==
    {Failed, Response(<<Says("let me see"), Uses("assess", "Load-bearing.")>>),
     Response(<<Uses("assess", "genuine")>>), Response(<<Uses("assess", "unsure")>>),
     Response(<<Says("load-bearing"), Uses("other", "load-bearing")>>)}

VerdictRaws == {AnthropicModel(r, TRUE, "assess") : r \in VerdictResponses}

verdict == [grammar |-> [raw \in VerdictRaws |->
                           CASE raw = "Load-bearing." -> Member("load-bearing")
                             [] raw = "genuine"       -> Member("genuine")
                             [] OTHER                 -> Outside(raw)],
            safe |-> {"load-bearing", "genuine"}]

SmartMachine == HedgeBuild(TermIs("assess", "load-bearing"), [c \in {"assess"} |-> verdict])
=============================================================================
