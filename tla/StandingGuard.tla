--------------------------- MODULE StandingGuard ---------------------------
(***************************************************************************)
(* deny-add-all, the standing guard of the repository's registry, the hook *)
(* events that concern it, and what it promises of the tool calls it       *)
(* watches, whatever hooks of parallel calls do to each other.             *)
(***************************************************************************)
EXTENDS Hook

(* A standing guard that refuses blanket staging. *)

gitAddAll == {"git add -A", "git add ."}

DenyAddAll ==
    [initial |-> "watch", fuel |-> 3, keys |-> {}, cells |-> <<>>,
     states  |-> [s \in {"watch"} |->
        [terminal |-> FALSE, on |-> <<
           [on |-> "PreToolUse", to |-> "watch", guard |-> ToolRuns("Bash", gitAddAll),
            do |-> <<Block(S("stage the specific files"))>>] >>]]]

DenyEvents == {Calls("Bash", "git add -A"), Calls("Bash", "git add main.go")}

-----------------------------------------------------------------------------
(* The commands it was written to refuse. *)
Dangerous(e) == e.tool = "Bash" /\ e.command \in gitAddAll

(* A standing guard refuses nothing but what it was written to refuse, even  *)
(* when hooks of parallel tool calls tear each other's saves.                *)
OnlyDangerRefused ==
    [][\A p \in Procs : Refuse(p) => Dangerous(event[p])]_vars

(* And it lets a dangerous command through only when it has no budget left,  *)
(* as it then says aloud.                                                    *)
DangerPassesOnlyAloud ==
    [][\A p \in Procs : EmitProtocol(p) /\ Dangerous(event[p]) /\ said'.exit = 0
                        => said'.loud /\ fired = M.fuel]_vars
=============================================================================
