----------------------------- MODULE DiskProofs -----------------------------
(***************************************************************************)
(* What the calls of the file system do to what readers see, whatever the  *)
(* names, the nodes and the processes are.                                 *)
(***************************************************************************)
EXTENDS Disk, FiniteSetTheorems, TLAPS

(* Every name leads to a node in use, no two names to the same one, and what *)
(* is open is in use.                                                        *)
DiskOK ==
    /\ IsFiniteSet(DOMAIN data)
    /\ \A name \in DOMAIN dir : dir[name] \in DOMAIN data
    /\ \A name, other \in DOMAIN dir : dir[name] = dir[other] => name = other
    /\ \A p \in DOMAIN fd : fd[p] \in DOMAIN data \cup {0}
    /\ 0 \notin DOMAIN data

-----------------------------------------------------------------------------
(* A new file gets a node that nothing else has. *)
LEMMA FreeNodeIsFree ==
  ASSUME IsFiniteSet(DOMAIN data)
  PROVE  FreeNode \notin DOMAIN data /\ FreeNode \in Nat /\ FreeNode # 0
<1> DEFINE N == Cardinality(DOMAIN data)
<1>1. N \in Nat
  BY FS_CardinalityType
<1>2. \E n \in 1 .. N + 1 : n \notin DOMAIN data
  <2> SUFFICES ASSUME 1 .. N + 1 \subseteq DOMAIN data PROVE FALSE
    OBVIOUS
  <2>1. Cardinality(1 .. N + 1) <= N
    BY FS_Subset
  <2>2. Cardinality(1 .. N + 1) = N + 1
    <3> HIDE DEF N
    <3>1. 1 \in Int /\ N + 1 \in Int
      BY <1>1
    <3> QED
      BY <1>1, <3>1, FS_Interval
  <2> QED
    BY <1>1, <2>1, <2>2
<1>3. FreeNode \in 1 .. N + 1 /\ FreeNode \notin DOMAIN data
  BY <1>2 DEF FreeNode
<1> QED
  BY <1>1, <1>3

(* Freeing nodes leaves what a name leads to. *)
LEMMA HoldingKeeps ==
  ASSUME NEW c, Holding(c)
  PROVE  /\ DOMAIN data' \subseteq DOMAIN c
         /\ \A n \in DOMAIN data' : data'[n] = c[n]
         /\ \A name \in DOMAIN dir' :
               dir'[name] \in DOMAIN c => /\ dir'[name] \in DOMAIN data'
                                          /\ data'[dir'[name]] = c[dir'[name]]
         /\ \A p \in DOMAIN fd' : fd'[p] \in DOMAIN c => /\ fd'[p] \in DOMAIN data'
                                                         /\ data'[fd'[p]] = c[fd'[p]]
BY DEF Holding, Restrict, Range

(* os.OpenFile with O_CREATE and O_TRUNC: the name leads to an empty file,   *)
(* which is now open; every other name reads as before.                      *)
LEMMA CreateEffect ==
  ASSUME DiskOK, NEW p, NEW name, Create(p, name)
  PROVE  /\ DiskOK'
         /\ DOMAIN dir' = DOMAIN dir \cup {name}
         /\ dir'[name] # 0 /\ data'[dir'[name]] = Empty
         /\ fd' = [fd EXCEPT ![p] = dir'[name]]
         /\ \A other \in DOMAIN dir : other # name => /\ dir'[other] = dir[other]
                                                      /\ data'[dir[other]] = data[dir[other]]
         /\ name \in DOMAIN dir => dir'[name] = dir[name]
         /\ name \notin DOMAIN dir => dir'[name] \notin DOMAIN data
<1> DEFINE node == IF Exists(name) THEN dir[name] ELSE FreeNode
           c == With(data, node, Empty)
<1>1. dir' = With(dir, name, node) /\ fd' = [fd EXCEPT ![p] = node] /\ Holding(c)
  BY DEF Create
<1>2. /\ name \in DOMAIN dir => node = dir[name]
      /\ name \notin DOMAIN dir => node \notin DOMAIN data
      /\ node # 0
  BY FreeNodeIsFree DEF Exists, DiskOK
<1> HIDE DEF node
<1>3. /\ DOMAIN dir' = DOMAIN dir \cup {name} /\ dir'[name] = node
      /\ \A other \in DOMAIN dir : other # name => dir'[other] = dir[other]
  BY <1>1 DEF With
<1>4. /\ DOMAIN c = DOMAIN data \cup {node} /\ c[node] = Empty
      /\ \A n \in DOMAIN data : n # node => c[n] = data[n]
  BY DEF With
<1> HIDE DEF c
<1>5. \A other \in DOMAIN dir : other # name => dir[other] # node
  BY <1>2 DEF DiskOK
<1>6. \A other \in DOMAIN dir' : dir'[other] \in DOMAIN c
  BY <1>3, <1>4 DEF DiskOK
<1>7. /\ \A other \in DOMAIN dir' : dir'[other] \in DOMAIN data' /\ data'[dir'[other]] = c[dir'[other]]
      /\ DOMAIN data' \subseteq DOMAIN c
  BY <1>1, <1>6, HoldingKeeps
<1>8. IsFiniteSet(DOMAIN data')
  <2>1. IsFiniteSet(DOMAIN c)
    BY <1>4, FS_AddElement DEF DiskOK
  <2> QED
    BY <1>7, <2>1, FS_Subset
<1>9. \A n, o \in DOMAIN dir' : dir'[n] = dir'[o] => n = o
  BY <1>3, <1>5 DEF DiskOK
<1>10. 0 \notin DOMAIN data'
  BY <1>2, <1>4, <1>7 DEF DiskOK
<1>13. \A q \in DOMAIN fd' : fd'[q] \in DOMAIN data' \cup {0}
  BY <1>1, <1>4, HoldingKeeps DEF DiskOK
<1>11. DiskOK'
  BY <1>7, <1>8, <1>9, <1>10, <1>13 DEF DiskOK
<1>12. \A other \in DOMAIN dir : other # name => data'[dir[other]] = data[dir[other]]
  BY <1>3, <1>4, <1>5, <1>7 DEF DiskOK
<1> QED
  BY <1>1, <1>2, <1>3, <1>4, <1>7, <1>11, <1>12

(* Writing to what is open: other files read as before. *)
LEMMA FillEffect ==
  ASSUME DiskOK, NEW p \in DOMAIN fd, NEW contents, Fill(p, contents), fd[p] # 0
  PROVE  /\ DiskOK' /\ dir' = dir /\ fd' = [fd EXCEPT ![p] = 0]
         /\ \A name \in DOMAIN dir :
               IF dir[name] = fd[p]
               THEN \/ data'[dir[name]] = contents
                    \/ data[fd[p]] \notin {Empty, contents} /\ data'[dir[name]] = Garbled
               ELSE data'[dir[name]] = data[dir[name]]
<1>1. PICK new : /\ new = contents \/ (data[fd[p]] \notin {Empty, contents} /\ new = Garbled)
                 /\ Holding(With(data, fd[p], new))
  BY DEF Fill
<1> DEFINE node == fd[p]
           c == With(data, node, new)
<1>2. /\ dir' = dir /\ fd' = [fd EXCEPT ![p] = 0] /\ Holding(c) /\ node \in DOMAIN data
  BY <1>1 DEF Fill, DiskOK
<1> HIDE DEF node
<1>3. /\ DOMAIN c = DOMAIN data /\ c[node] = new
      /\ \A n \in DOMAIN data : n # node => c[n] = data[n]
  BY <1>2 DEF With
<1> HIDE DEF c
<1>4. /\ \A name \in DOMAIN dir : dir[name] \in DOMAIN data' /\ data'[dir[name]] = c[dir[name]]
      /\ DOMAIN data' \subseteq DOMAIN data
  BY <1>2, <1>3, HoldingKeeps DEF DiskOK
<1>5. DiskOK'
  BY <1>2, <1>3, <1>4, HoldingKeeps, FS_Subset DEF DiskOK
<1> QED
  BY <1>1, <1>2, <1>3, <1>4, <1>5 DEF DiskOK, node

(* A writer gives up: only what it had open may be spoilt. *)
LEMMA AbandonEffect ==
  ASSUME DiskOK, NEW p \in DOMAIN fd, Abandon(p)
  PROVE  /\ DiskOK' /\ dir' = dir /\ fd' = [fd EXCEPT ![p] = 0]
         /\ \A name \in DOMAIN dir : dir[name] # fd[p] => data'[dir[name]] = data[dir[name]]
<1>1. PICK c : /\ Holding(c) /\ DOMAIN c = DOMAIN data
               /\ \A n \in DOMAIN data : n # fd[p] => c[n] = data[n]
  <2>1. CASE Holding(data)
    BY <2>1
  <2>2. CASE fd[p] # 0 /\ Holding(With(data, fd[p], Garbled))
    <3> DEFINE node == fd[p]
               c == With(data, node, Garbled)
    <3>1. node \in DOMAIN data /\ Holding(c)
      BY <2>2 DEF DiskOK
    <3> HIDE DEF node
    <3>2. DOMAIN c = DOMAIN data /\ \A n \in DOMAIN data : n # node => c[n] = data[n]
      BY <3>1 DEF With
    <3> HIDE DEF c
    <3> QED
      BY <3>1, <3>2 DEF node
  <2> QED
    BY <2>1, <2>2 DEF Abandon
<1>2. dir' = dir /\ fd' = [fd EXCEPT ![p] = 0]
  BY DEF Abandon
<1>3. /\ \A name \in DOMAIN dir : dir[name] \in DOMAIN data' /\ data'[dir[name]] = c[dir[name]]
      /\ DOMAIN data' \subseteq DOMAIN data
  BY <1>1, <1>2, HoldingKeeps DEF DiskOK
<1>4. DiskOK'
  BY <1>1, <1>2, <1>3, HoldingKeeps, FS_Subset DEF DiskOK
<1> QED
  BY <1>1, <1>2, <1>3, <1>4 DEF DiskOK

(* os.Rename: the new name reads as the old one did, every other name as     *)
(* before, and what was under the new name is gone.                          *)
LEMMA RenameEffect ==
  ASSUME DiskOK, NEW from, NEW to, from # to, Rename(from, to)
  PROVE  /\ DiskOK' /\ fd' = fd
         /\ from \in DOMAIN dir /\ DOMAIN dir' = (DOMAIN dir \ {from}) \cup {to}
         /\ dir'[to] = dir[from] /\ data'[dir'[to]] = data[dir[from]]
         /\ \A other \in DOMAIN dir \ {from, to} : /\ dir'[other] = dir[other]
                                                   /\ data'[dir[other]] = data[dir[other]]
<1>1. from \in DOMAIN dir /\ fd' = fd /\ Holding(data)
  BY DEF Rename, Exists
<1>2. /\ DOMAIN dir' = (DOMAIN dir \ {from}) \cup {to} /\ dir'[to] = dir[from]
      /\ \A other \in DOMAIN dir \ {from, to} : dir'[other] = dir[other]
  <2> DEFINE rest == Restrict(dir, DOMAIN dir \ {from})
             node == dir[from]
  <2>1. dir' = With(rest, to, node)
    BY DEF Rename
  <2>2. DOMAIN rest = DOMAIN dir \ {from} /\ \A other \in DOMAIN rest : rest[other] = dir[other]
    BY DEF Restrict
  <2> HIDE DEF rest, node
  <2>3. /\ DOMAIN dir' = DOMAIN rest \cup {to} /\ dir'[to] = node
        /\ \A other \in DOMAIN rest : other # to => dir'[other] = rest[other]
    BY <2>1 DEF With
  <2> QED
    BY <2>2, <2>3 DEF node
<1>3. \A name \in DOMAIN dir' : dir'[name] \in DOMAIN data
  BY <1>1, <1>2 DEF DiskOK
<1>4. /\ \A name \in DOMAIN dir' : dir'[name] \in DOMAIN data' /\ data'[dir'[name]] = data[dir'[name]]
      /\ DOMAIN data' \subseteq DOMAIN data
  BY <1>1, <1>3, HoldingKeeps
<1>5. \A n, o \in DOMAIN dir' : dir'[n] = dir'[o] => n = o
  BY <1>1, <1>2 DEF DiskOK
<1>6. DiskOK'
  BY <1>1, <1>4, <1>5, HoldingKeeps, FS_Subset DEF DiskOK
<1> QED
  BY <1>1, <1>2, <1>4, <1>6

(* os.Remove: every other name reads as before. *)
LEMMA UnlinkEffect ==
  ASSUME DiskOK, NEW name, Unlink(name)
  PROVE  /\ DiskOK' /\ fd' = fd /\ name \in DOMAIN dir /\ DOMAIN dir' = DOMAIN dir \ {name}
         /\ \A other \in DOMAIN dir' : /\ dir'[other] = dir[other]
                                       /\ data'[dir[other]] = data[dir[other]]
<1>1. /\ name \in DOMAIN dir /\ fd' = fd /\ Holding(data)
      /\ DOMAIN dir' = DOMAIN dir \ {name} /\ \A other \in DOMAIN dir' : dir'[other] = dir[other]
  BY DEF Unlink, Exists, Restrict
<1>2. \A other \in DOMAIN dir' : dir'[other] \in DOMAIN data
  BY <1>1 DEF DiskOK
<1>3. /\ \A other \in DOMAIN dir' :
            dir'[other] \in DOMAIN data' /\ data'[dir'[other]] = data[dir'[other]]
      /\ DOMAIN data' \subseteq DOMAIN data
  BY <1>1, <1>2, HoldingKeeps
<1>4. DiskOK'
  BY <1>1, <1>2, <1>3, HoldingKeeps, FS_Subset DEF DiskOK
<1> QED
  BY <1>1, <1>3, <1>4

-----------------------------------------------------------------------------
(* The same for readers: what is open, and what a name reads as.             *)
Opened(p, name) == Exists(name) /\ fd[p] = dir[name] /\ Contents(name) = Empty

Leads(name, p) == Exists(name) /\ dir[name] = fd[p]

Unread(name) ==
    /\ Contents(name)' = Contents(name)
    /\ Exists(name)' <=> Exists(name)
    /\ Exists(name) => dir'[name] = dir[name]

LEMMA CreateReads ==
  ASSUME DiskOK, NEW p \in DOMAIN fd, NEW name, Create(p, name)
  PROVE  Opened(p, name)' /\ \A other : other # name => Unread(other)
<1>1. /\ DOMAIN dir' = DOMAIN dir \cup {name} /\ data'[dir'[name]] = Empty
      /\ fd' = [fd EXCEPT ![p] = dir'[name]]
  BY CreateEffect
<1>2. \A other \in DOMAIN dir \ {name} : /\ dir'[other] = dir[other]
                                         /\ data'[dir[other]] = data[dir[other]]
  BY CreateEffect
<1> QED
  BY <1>1, <1>2 DEF Opened, Unread, Contents, Exists

LEMMA FillReads ==
  ASSUME DiskOK, NEW p \in DOMAIN fd, NEW contents, Fill(p, contents), fd[p] # 0
  PROVE  \A name : IF Leads(name, p)
                   THEN /\ Exists(name)'
                        /\ Contents(name) = Empty => Contents(name)' = contents
                   ELSE Unread(name)
<1>1. /\ dir' = dir
      /\ \A name \in DOMAIN dir :
            IF dir[name] = fd[p]
            THEN data[fd[p]] = Empty => data'[dir[name]] = contents
            ELSE data'[dir[name]] = data[dir[name]]
  BY FillEffect
<1> QED
  BY <1>1 DEF Leads, Unread, Contents, Exists

LEMMA AbandonReads ==
  ASSUME DiskOK, NEW p \in DOMAIN fd, Abandon(p)
  PROVE  \A name : ~Leads(name, p) => Unread(name)
<1>1. /\ dir' = dir
      /\ \A name \in DOMAIN dir : dir[name] # fd[p] => data'[dir[name]] = data[dir[name]]
  BY AbandonEffect
<1> QED
  BY <1>1 DEF Leads, Unread, Contents, Exists

LEMMA RenameReads ==
  ASSUME DiskOK, NEW from, NEW to, from # to, Rename(from, to)
  PROVE  /\ Exists(to)' /\ Contents(to)' = Contents(from)
         /\ \A name : name \notin {from, to} => Unread(name)
<1>1. /\ from \in DOMAIN dir /\ DOMAIN dir' = (DOMAIN dir \ {from}) \cup {to}
      /\ data'[dir'[to]] = data[dir[from]]
      /\ \A other \in DOMAIN dir \ {from, to} : /\ dir'[other] = dir[other]
                                                /\ data'[dir[other]] = data[dir[other]]
  BY RenameEffect
<1> QED
  BY <1>1 DEF Unread, Contents, Exists

LEMMA UnlinkReads ==
  ASSUME DiskOK, NEW name, Unlink(name)
  PROVE  ~Exists(name)' /\ \A other : other # name => Unread(other)
<1>1. /\ name \in DOMAIN dir /\ DOMAIN dir' = DOMAIN dir \ {name}
      /\ \A other \in DOMAIN dir' : /\ dir'[other] = dir[other]
                                   /\ data'[dir[other]] = data[dir[other]]
  BY UnlinkEffect
<1> QED
  BY <1>1 DEF Unread, Contents, Exists
=============================================================================
