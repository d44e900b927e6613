------------------------------ MODULE MCChecker ------------------------------
(***************************************************************************)
(* Checker on every small graph of states, and on every single transition  *)
(* of the shapes an emitter can get wrong.                                 *)
(***************************************************************************)
EXTENDS Checker

AnyString == STRING

Wordy == {"a", "b", "c", "judge", "ghost", "term", "wellformed", "safe", "raw"}

Plain(to)   == [on |-> "Stop", to |-> to, guard |-> Always, do |-> <<>>]
Leads       == {"a", "b", "c", "x"}
ShortLists  == {<<>>} \cup {<<Plain(t)>> : t \in Leads}
                      \cup {<<Plain(t), Plain(u)>> : t, u \in Leads}

(* Three states, the second of which may have the first one's name, with at  *)
(* most two edges each, one of them perhaps to a state that is not there.    *)
Graphs ==
    {[fuel |-> 1, initial |-> i, cells |-> {},
      states |-> <<[name |-> "a", terminal |-> FALSE, on |-> d],
                   [name |-> n, terminal |-> FALSE, on |-> e],
                   [name |-> "c", terminal |-> h, on |-> f]>>] :
        i \in {"a", "x"}, n \in {"a", "b"}, h \in BOOLEAN,
        d \in ShortLists, e \in ShortLists, f \in {s \in ShortLists : Len(s) < 2}}

Guards ==
    {Always, TermIs("judge", "yes"), TermIs("ghost", "yes"), TermIs("load-check", "yes"),
     [TermIs("ghost", "yes") EXCEPT !.reads = {}],
     [TermIs("judge", "yes") EXCEPT !.reads = {<<"cells", "judge", "raw">>}],
     VarSet("note")}

Effects ==
    {<<>>, <<Inject(S("text"))>>, <<Block(S("text"))>>, <<Run("judge")>>, <<Run("ghost")>>,
     <<SetVar("note", {<<"cells", "judge", "raw">>}, S(""))>>,
     <<SetVar("note", {<<"cells", "ghost", "term">>}, S("")), Inject(S("text"))>>}

(* One state with one transition of any trigger, guard and effects, ending   *)
(* in itself or in a terminal state.                                         *)
Singles ==
    {[fuel |-> f, initial |-> "a", cells |-> {"judge"},
      states |-> <<[name |-> "a", terminal |-> FALSE,
                    on |-> <<[on |-> t, to |-> "b", guard |-> g, do |-> e]>>],
                   [name |-> "b", terminal |-> TRUE, on |-> <<>>]>>] :
        f \in {0, 1}, t \in Trigger, g \in Guards, e \in Effects}

Submissions == Graphs \cup Singles
=============================================================================
