----------------------------- MODULE StateFile -----------------------------
(***************************************************************************)
(* The session's record on disk: <session>.json, read by LoadContext and   *)
(* replaced by SaveContext.  A save truncates and writes <session>.json.tmp *)
(* and renames it over the record; the temporary name is the same for      *)
(* every process.                                                          *)
(*                                                                         *)
(* A process writes through the descriptor it opened, and the name that    *)
(* descriptor had may have moved: "tmp" becomes "state" when some process  *)
(* renames the temporary file, and "gone" when a later one replaces it.    *)
(***************************************************************************)
EXTENDS Statechart

CONSTANT Procs      \* the hook processes

VARIABLES
    stateFile,      \* the contents under the record's name
    tmpFile,        \* the contents under the temporary name
    handle          \* where the descriptor of each process leads

fileVars == <<stateFile, tmpFile, handle>>

Contents == [kind : {"absent", "empty", "garbled", "whole"}, record : Persisted]
Absent   == [kind |-> "absent",  record |-> Fresh]
Empty    == [kind |-> "empty",   record |-> Fresh]
Garbled  == [kind |-> "garbled", record |-> Fresh]
Whole(r) == [kind |-> "whole",   record |-> r]

FileTypeOK ==
    /\ stateFile \in Contents
    /\ tmpFile \in Contents
    /\ handle \in [Procs -> {"none", "tmp", "state", "gone"}]

FileInit ==
    /\ stateFile = Absent
    /\ tmpFile = Absent
    /\ handle = [p \in Procs |-> "none"]

(* Faulty: the error of the parser is not looked at. *)
LoadedAnyhow(file) ==
    CASE file.kind = "whole"  -> file.record
      [] file.kind = "absent" -> Fresh
      [] OTHER -> [state |-> "", fuel |-> 0, vars |-> Fresh.vars]

(* What a reader makes of the file: a file it cannot read or parse counts as *)
(* no session at all.                                                        *)
Loaded(file) == IF file.kind = "whole" THEN file.record ELSE Fresh

(* Writing a record at offset 0.  What was there shows behind it when it was *)
(* longer, so the result parses only if nothing, or the same, was there or   *)
(* the old bytes are covered.                                                *)
Overwritten(old, r) ==
    {Whole(r)} \cup IF old = Empty \/ old = Whole(r) THEN {} ELSE {Garbled}

-----------------------------------------------------------------------------
(* os.WriteFile creates or truncates the file under the temporary name ... *)
OpenTmp(p) ==
    /\ tmpFile' = Empty
    /\ handle' = [handle EXCEPT ![p] = "tmp"]
    /\ UNCHANGED stateFile

(* ... writes through the descriptor, wherever that leads by now, and       *)
(* closes it.                                                               *)
WriteTmp(p, r) ==
    /\ IF handle[p] = "tmp" THEN tmpFile' \in Overwritten(tmpFile, r)
                            ELSE UNCHANGED tmpFile
    /\ IF handle[p] = "state" THEN stateFile' \in Overwritten(stateFile, r)
                              ELSE UNCHANGED stateFile
    /\ handle' = [handle EXCEPT ![p] = "none"]

(* A write that fails half way leaves what it had written. *)
WriteFails(p) ==
    /\ tmpFile' \in IF handle[p] = "tmp" THEN {tmpFile, Garbled} ELSE {tmpFile}
    /\ stateFile' \in IF handle[p] = "state" THEN {stateFile, Garbled} ELSE {stateFile}
    /\ handle' = [handle EXCEPT ![p] = "none"]

(* os.Rename: the temporary file, with every descriptor open on it, becomes  *)
(* the record; there may be none left to rename.                             *)
Moved(h) == CASE h = "tmp" -> "state" [] h = "state" -> "gone" [] OTHER -> h

RenameTmp ==
    IF tmpFile.kind = "absent"
    THEN UNCHANGED fileVars
    ELSE /\ stateFile' = tmpFile
         /\ tmpFile' = Absent
         /\ handle' = [q \in Procs |-> Moved(handle[q])]

(* A process that ends closes its descriptor. *)
Close(p) ==
    /\ handle' = [handle EXCEPT ![p] = "none"]
    /\ UNCHANGED <<stateFile, tmpFile>>
=============================================================================
