-------------------------------- MODULE Disk --------------------------------
(***************************************************************************)
(* The file system as os.WriteFile and os.Rename see it: names that lead   *)
(* to nodes, nodes with contents, and for each process the node behind the *)
(* descriptor it writes to.  A descriptor follows its node wherever a      *)
(* rename takes it.  A node that nothing leads to is free.                 *)
(***************************************************************************)
EXTENDS Naturals, FiniteSets, Functions

VARIABLES
    dir,        \* the node that each name in use leads to
    data,       \* the contents of each node in use
    fd          \* the node each process has open for writing, or 0

Absent   == [kind |-> "absent",  value |-> {}]
Empty    == [kind |-> "empty",   value |-> {}]
Garbled  == [kind |-> "garbled", value |-> {}]
Whole(v) == [kind |-> "whole",   value |-> {v}]

(* The function f, with v at x. *)
With(f, x, v) == [y \in DOMAIN f \cup {x} |-> IF y = x THEN v ELSE f[y]]

Exists(name) == name \in DOMAIN dir

(* What a reader of a name gets. *)
Contents(name) == IF Exists(name) THEN data[dir[name]] ELSE Absent

FreeNode == CHOOSE n \in 1 .. Cardinality(DOMAIN data) + 1 : n \notin DOMAIN data

(* The contents are c, of the nodes that something still leads to. *)
Holding(c) == data' = Restrict(c, DOMAIN c \cap (Range(dir') \cup Range(fd')))

-----------------------------------------------------------------------------
(* os.WriteFile creates the file, or truncates the one there is ... *)
Create(p, name) ==
    LET node == IF Exists(name) THEN dir[name] ELSE FreeNode
    IN  /\ dir' = With(dir, name, node)
        /\ fd' = [fd EXCEPT ![p] = node]
        /\ Holding(With(data, node, Empty))

(* ... and writes from offset 0: what another wrote meanwhile may show       *)
(* behind it.                                                                *)
Fill(p, contents) ==
    /\ UNCHANGED dir
    /\ fd' = [fd EXCEPT ![p] = 0]
    /\ \E c \in {contents} \cup (IF data[fd[p]] \in {Empty, contents} THEN {} ELSE {Garbled}) :
          Holding(With(data, fd[p], c))

(* The writer fails or dies; what it had open keeps what it had written. *)
Abandon(p) ==
    /\ UNCHANGED dir
    /\ fd' = [fd EXCEPT ![p] = 0]
    /\ \/ Holding(data)
       \/ fd[p] # 0 /\ Holding(With(data, fd[p], Garbled))

(* os.Rename, of a file that is there. *)
Rename(from, to) ==
    /\ Exists(from)
    /\ dir' = With(Restrict(dir, DOMAIN dir \ {from}), to, dir[from])
    /\ UNCHANGED fd
    /\ Holding(data)

Unlink(name) ==
    /\ Exists(name)
    /\ dir' = Restrict(dir, DOMAIN dir \ {name})
    /\ UNCHANGED fd
    /\ Holding(data)
=============================================================================
