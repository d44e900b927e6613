------------------------------- MODULE MCInbox -------------------------------
(* Inbox with two processes and the kinds of path a target can be. *)
EXTENDS Inbox, TLC

Symmetry == Permutations(Procs)

Rel(segments)  == [rooted |-> FALSE, segments |-> segments]
Root(segments) == [rooted |-> TRUE,  segments |-> segments]

(* "reviewer", "a/../reviewer/.", "../../auditor", "/auditor" and the targets *)
(* that are no name: "", ".", "..", "x/..", "x/../..", "/", "/..".            *)
AllPaths ==
    {Rel(<<"reviewer">>), Rel(<<"a", "..", "reviewer", ".">>), Rel(<<"..", "..", "auditor">>),
     Root(<<"auditor">>), Rel(<<"">>), Rel(<<".">>), Rel(<<"..">>), Rel(<<"x", "..">>),
     Rel(<<"x", "..", "..">>), Root(<<"">>), Root(<<"..">>)}
=============================================================================
