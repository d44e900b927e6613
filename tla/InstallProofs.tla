---------------------------- MODULE InstallProofs ----------------------------
(***************************************************************************)
(* Whatever the settings look like, however many installers run at once    *)
(* and wherever they fail or die, no command is registered twice under a   *)
(* trigger, and settings that are no JSON are left alone.  As long as one  *)
(* installer runs at a time, the keys and lists of the user stay there at  *)
(* every moment, what was installed stays with them, and nothing that      *)
(* could be read for the backup is replaced unless the backup holds it.    *)
(***************************************************************************)
EXTENDS Install, DiskProofs, SequenceTheorems

(* Settings and contents without a double registration. *)
GoodSettings == {doc \in Settings : Once(doc)}
GoodFile     ==
    {file \in [kind : {"absent", "empty", "garbled", "whole"}, value : SUBSET GoodSettings] :
        Tidy(file)}

FilesOK ==
    /\ dir \in [DOMAIN dir -> DOMAIN data]
    /\ data \in [DOMAIN data -> GoodFile]

(* Each document is good: in any file, read for a backup or about to be       *)
(* written.                                                                  *)
GoodInv ==
    /\ request \in [Procs -> Request \cup {Idle}]
    /\ merged \in [Procs -> GoodSettings]
    /\ cur \in [Procs -> GoodFile]
    /\ FilesOK

-----------------------------------------------------------------------------
(* The constant contents are good. *)
LEMMA ConstantsGood ==
    NoKeys \in GoodSettings /\ Absent \in GoodFile /\ Empty \in GoodFile /\ Garbled \in GoodFile
<1>1. NoLists \in [Triggers -> Seq(SUBSET Commands)]
  BY DEF NoLists
<1>2. NoKeys \in GoodSettings
  BY <1>1 DEF NoKeys, NoLists, GoodSettings, Settings, Once
<1> QED
  BY <1>2 DEF GoodFile, Tidy, Absent, Empty, Garbled

(* Whole contents of a good document are good. *)
LEMMA WholeGood == ASSUME NEW doc \in GoodSettings PROVE Whole(doc) \in GoodFile
BY DEF Whole, GoodFile, Tidy

(* The list under a trigger is a list without double registrations. *)
LEMMA ListsGood ==
    ASSUME NEW doc \in GoodSettings, NEW t \in Triggers
    PROVE  /\ Lists(doc)[t] \in Seq(SUBSET Commands)
           /\ \A i, j \in DOMAIN Lists(doc)[t] :
                 Lists(doc)[t][i] \cap Lists(doc)[t][j] # {} => i = j
<1>1. CASE doc.object
  BY <1>1 DEF GoodSettings, Settings, Once, Lists
<1>2. CASE ~doc.object
  BY <1>2 DEF Lists, NoLists
<1> QED
  BY <1>1, <1>2

(* Lists of entries put one behind the other. *)
LEMMA ListsConcat ==
    ASSUME NEW old \in Seq(SUBSET Commands), NEW new \in Seq(SUBSET Commands)
    PROVE  /\ old \o new \in Seq(SUBSET Commands)
           /\ Len(old \o new) = Len(old) + Len(new)
           /\ \A i \in 1 .. Len(old) + Len(new) :
                 (old \o new)[i] = IF i <= Len(old) THEN old[i] ELSE new[i - Len(old)]
<1> DEFINE S == SUBSET Commands
<1>1. old \in Seq(S) /\ new \in Seq(S)
  OBVIOUS
<1> HIDE DEF S
<1>2. /\ old \o new \in Seq(S)
      /\ Len(old \o new) = Len(old) + Len(new)
      /\ \A i \in 1 .. Len(old) + Len(new) :
            (old \o new)[i] = IF i <= Len(old) THEN old[i] ELSE new[i - Len(old)]
  BY <1>1, ConcatProperties, Zenon
<1> QED
  BY <1>2 DEF S

(* MergeHooks registers nothing twice: it appends an entry only where no      *)
(* entry has the command.                                                    *)
LEMMA MergeGood ==
    ASSUME NEW doc \in GoodSettings, NEW r \in Request
    PROVE  MergeHooks(doc, r) \in GoodSettings
<1> DEFINE L == [t \in Triggers |->
        IF t \in Added(doc, r) THEN Lists(doc)[t] \o SettingsFragment(r)[t] ELSE Lists(doc)[t]]
           M == MergeHooks(doc, r)
<1>1. ASSUME NEW t \in Triggers
      PROVE  /\ L[t] \in Seq(SUBSET Commands)
             /\ \A i, j \in DOMAIN L[t] : L[t][i] \cap L[t][j] # {} => i = j
  <2> DEFINE old == Lists(doc)[t]
  <2>1. /\ old \in Seq(SUBSET Commands)
        /\ \A i, j \in DOMAIN old : old[i] \cap old[j] # {} => i = j
    BY ListsGood
  <2>2. CASE t \notin Added(doc, r)
    BY <2>1, <2>2
  <2>3. CASE t \in Added(doc, r)
    <3> DEFINE c == r.command
               fresh == <<{c}>>
    <3>1. t \in r.uses /\ \A i \in DOMAIN old : c \notin old[i]
      BY <2>3 DEF Added, hookCommandPresent
    <3>2. SettingsFragment(r)[t] = fresh
      BY <3>1 DEF SettingsFragment
    <3>3. L[t] = old \o fresh
      BY <2>3, <3>2
    <3>4. {c} \in SUBSET Commands
      BY DEF Request
    <3>5. fresh \in Seq(SUBSET Commands) /\ Len(fresh) = 1 /\ fresh[1] = {c}
      BY <3>4
    <3> HIDE DEF L, old, fresh, c
    <3>11. old \in Seq(SUBSET Commands) /\ fresh \in Seq(SUBSET Commands)
      BY <2>1, <3>5
    <3>12. /\ L[t] \in Seq(SUBSET Commands)
          /\ Len(L[t]) = Len(old) + Len(fresh)
          /\ \A i \in 1 .. Len(old) + Len(fresh) :
                L[t][i] = IF i <= Len(old) THEN old[i] ELSE fresh[i - Len(old)]
      <4>1. /\ old \o fresh \in Seq(SUBSET Commands)
            /\ Len(old \o fresh) = Len(old) + Len(fresh)
            /\ \A i \in 1 .. Len(old) + Len(fresh) :
                  (old \o fresh)[i] = IF i <= Len(old) THEN old[i] ELSE fresh[i - Len(old)]
        BY <3>11, ListsConcat, Zenon
      <4> QED
        BY ONLY <4>1, <3>3, Zenon
    <3>13. Len(old) \in Nat
      BY <2>1
    <3>6. L[t] \in Seq(SUBSET Commands) /\ Len(L[t]) = Len(old) + 1
      BY <3>12, <3>5
    <3>7. \A i \in 1 .. Len(old) : L[t][i] = old[i]
      BY <3>13, <3>12, <3>5
    <3>8. L[t][Len(old) + 1] = {c}
      BY <3>13, <3>12, <3>5
    <3>9. DOMAIN L[t] = 1 .. Len(old) + 1 /\ DOMAIN old = 1 .. Len(old) /\ Len(old) \in Nat
      BY <2>1, <3>6
    <3>10. ASSUME NEW i \in DOMAIN L[t], NEW j \in DOMAIN L[t], L[t][i] \cap L[t][j] # {}
           PROVE  i = j
      <4>1. i \in 1 .. Len(old) \/ i = Len(old) + 1
        BY <3>9
      <4>2. j \in 1 .. Len(old) \/ j = Len(old) + 1
        BY <3>9
      <4>3. CASE i \in 1 .. Len(old) /\ j \in 1 .. Len(old)
        BY <4>3, <3>7, <3>9, <3>10, <2>1
      <4>4. CASE i \in 1 .. Len(old) /\ j = Len(old) + 1
        BY <4>4, <3>1, <3>7, <3>8, <3>9, <3>10
      <4>5. CASE j \in 1 .. Len(old) /\ i = Len(old) + 1
        BY <4>5, <3>1, <3>7, <3>8, <3>9, <3>10
      <4> QED
        BY <4>1, <4>2, <4>3, <4>4, <4>5
    <3> QED
      BY <3>6, <3>10
  <2> QED
    BY <2>2, <2>3
<1>2. M.lists = L /\ M = [keys |-> doc.keys, object |-> TRUE, lists |-> L,
                          odd |-> IF doc.object THEN doc.odd \ r.uses ELSE {}]
  BY DEF MergeHooks, Merged
<1> HIDE DEF M
<1>3. L \in [Triggers -> Seq(SUBSET Commands)]
  BY <1>1
<1> HIDE DEF L
<1>4. doc.keys \in SUBSET Keys /\ doc.odd \in SUBSET Triggers
  BY DEF GoodSettings, Settings
<1>5. M \in Settings
  BY <1>2, <1>3, <1>4 DEF Settings
<1>6. Once(M)
  BY <1>1, <1>2 DEF Once
<1>7. M \in GoodSettings
  BY <1>5, <1>6 DEF GoodSettings
<1> QED
  BY <1>7 DEF M

-----------------------------------------------------------------------------
(* One file put into a function of files. *)
LEMMA OneMore ==
    ASSUME NEW f, NEW S, f \in [DOMAIN f -> S], NEW x, NEW v \in S
    PROVE  /\ With(f, x, v) \in [DOMAIN f \cup {x} -> S]
           /\ With(f, x, v) \in [DOMAIN With(f, x, v) -> S]
           /\ DOMAIN (With(f, x, v)) = DOMAIN f \cup {x}
BY DEF With

(* Freeing the nodes nothing leads to does no harm. *)
LEMMA HoldingOK ==
    ASSUME NEW c, c \in [DOMAIN c -> GoodFile],
           dir' \in [DOMAIN dir' -> DOMAIN c], Holding(c)
    PROVE  FilesOK'
<1> DEFINE kept == DOMAIN c \cap (Range(dir') \cup Range(fd'))
<1>1. data' = [n \in kept |-> c[n]]
  BY DEF Holding, Restrict
<1>2. data' \in [kept -> GoodFile] /\ DOMAIN data' = kept
  BY <1>1
<1>3. \A name \in DOMAIN dir' : dir'[name] \in kept
  BY DEF Range
<1>4. dir' \in [DOMAIN dir' -> kept]
  BY <1>3
<1> QED
  BY <1>2, <1>4 DEF FilesOK

(* The calls of the file system keep good files good. *)
LEMMA CreateOK ==
    ASSUME FilesOK, NEW p, NEW name, Create(p, name)
    PROVE  FilesOK'
<1> DEFINE node == IF Exists(name) THEN dir[name] ELSE FreeNode
           c == With(data, node, Empty)
<1>1. dir' = With(dir, name, node) /\ Holding(c)
  BY DEF Create
<1> HIDE DEF node
<1>2. c \in [DOMAIN c -> GoodFile] /\ DOMAIN c = DOMAIN data \cup {node}
  BY ConstantsGood, OneMore DEF FilesOK
<1>3. dir \in [DOMAIN dir -> DOMAIN c]
  BY <1>2 DEF FilesOK
<1> HIDE DEF c
<1>4. node \in DOMAIN c
  BY <1>2
<1>5. With(dir, name, node) \in [DOMAIN dir \cup {name} -> DOMAIN c]
  BY <1>3, <1>4, OneMore
<1>6. dir' \in [DOMAIN dir' -> DOMAIN c]
  BY <1>1, <1>5
<1> QED
  BY <1>1, <1>2, <1>6, HoldingOK

LEMMA FillOK ==
    ASSUME FilesOK, NEW p, NEW contents \in GoodFile, Fill(p, contents)
    PROVE  FilesOK'
<1>1. PICK file \in GoodFile : Holding(With(data, fd[p], file))
  BY ConstantsGood DEF Fill
<1> DEFINE c == With(data, fd[p], file)
<1>2. c \in [DOMAIN c -> GoodFile] /\ DOMAIN c = DOMAIN data \cup {fd[p]}
  <2>1. data \in [DOMAIN data -> GoodFile]
    BY DEF FilesOK
  <2> DEFINE n == fd[p]
  <2>2. c = With(data, n, file)
    OBVIOUS
  <2> HIDE DEF n, c
  <2>3. c \in [DOMAIN c -> GoodFile] /\ DOMAIN c = DOMAIN data \cup {n}
    BY <2>1, <2>2, OneMore
  <2> QED
    BY <2>3 DEF n
<1>3. dir' \in [DOMAIN dir' -> DOMAIN c]
  BY <1>2 DEF FilesOK, Fill
<1> HIDE DEF c
<1> QED
  BY <1>1, <1>2, <1>3, HoldingOK DEF c

LEMMA AbandonOK ==
    ASSUME FilesOK, NEW p, Abandon(p)
    PROVE  FilesOK'
<1> DEFINE c == With(data, fd[p], Garbled)
<1>1. CASE Holding(data)
  BY <1>1, HoldingOK DEF FilesOK, Abandon
<1>2. CASE Holding(c)
  <2>1. c \in [DOMAIN c -> GoodFile] /\ DOMAIN c = DOMAIN data \cup {fd[p]}
    <3>1. data \in [DOMAIN data -> GoodFile] /\ Garbled \in GoodFile
      BY ConstantsGood DEF FilesOK
    <3> DEFINE n == fd[p]
    <3>2. c = With(data, n, Garbled)
      OBVIOUS
    <3> HIDE DEF n, c
    <3>3. c \in [DOMAIN c -> GoodFile] /\ DOMAIN c = DOMAIN data \cup {n}
      BY <3>1, <3>2, OneMore
    <3> QED
      BY <3>3 DEF n
  <2>2. dir' \in [DOMAIN dir' -> DOMAIN c]
    BY <2>1 DEF FilesOK, Abandon
  <2> HIDE DEF c
  <2> QED
    BY <1>2, <2>1, <2>2, HoldingOK
<1> QED
  BY <1>1, <1>2 DEF Abandon

LEMMA RenameOK ==
    ASSUME FilesOK, NEW from, NEW to, Rename(from, to)
    PROVE  FilesOK'
<1> DEFINE rest == Restrict(dir, DOMAIN dir \ {from})
<1>1. dir' = With(rest, to, dir[from]) /\ Holding(data) /\ dir[from] \in DOMAIN data
  BY DEF Rename, Exists, FilesOK
<1>2. rest \in [DOMAIN rest -> DOMAIN data]
  BY DEF FilesOK, Restrict
<1> HIDE DEF rest
<1> DEFINE node == dir[from]
<1>3. dir' = With(rest, to, node) /\ node \in DOMAIN data
  BY <1>1
<1> HIDE DEF node
<1>4. With(rest, to, node) \in [DOMAIN With(rest, to, node) -> DOMAIN data]
  BY <1>2, <1>3, OneMore
<1>5. dir' \in [DOMAIN dir' -> DOMAIN data]
  BY <1>3, <1>4
<1> QED
  BY <1>1, <1>5, HoldingOK DEF FilesOK

(* A file is read as it is, or as absent. *)
LEMMA ContentsGood == ASSUME FilesOK, NEW name PROVE Contents(name) \in GoodFile
BY ConstantsGood DEF FilesOK, Contents, Exists

LEMMA ReadGood ==
    ASSUME NEW file \in GoodFile
    PROVE  readSettings(file) \subseteq GoodSettings
BY ConstantsGood DEF readSettings, GoodFile

-----------------------------------------------------------------------------
LEMMA InitGood == Init => GoodInv
<1> SUFFICES ASSUME Init PROVE GoodInv
  OBVIOUS
<1>1. first \in GoodFile
  BY InstallAssumption, OnceAssumption DEF Init, File, GoodFile, GoodSettings
<1>2. /\ request \in [Procs -> Request \cup {Idle}]
      /\ merged \in [Procs -> GoodSettings]
      /\ cur \in [Procs -> GoodFile]
  BY ConstantsGood DEF Init
<1>3. ASSUME first = Absent PROVE FilesOK
  BY <1>3 DEF Init, FilesOK
<1>4. ASSUME first # Absent PROVE FilesOK
  <2>1. dir = With(<<>>, "settings", 1) /\ data = With(<<>>, 1, first)
    BY <1>4 DEF Init
  <2>2. dir = [y \in {"settings"} |-> 1]
    BY <2>1 DEF With
  <2>3. data = [y \in {1} |-> first]
    BY <2>1 DEF With
  <2> QED
    BY <1>1, <2>2, <2>3 DEF FilesOK
<1> QED
  BY <1>2, <1>3, <1>4 DEF GoodInv

(* The end of a run forgets what was going to be written. *)
LEMMA EndGood ==
    ASSUME GoodInv, NEW p \in Procs, End(p), FilesOK'
    PROVE  GoodInv'
BY ConstantsGood DEF GoodInv, End

(* Steps that only call the file system. *)
LEMMA OnwardGood ==
    ASSUME GoodInv, NEW p \in Procs, NEW from, NEW to, Onward(p, from, to),
           FilesOK', cur' \in [Procs -> GoodFile]
    PROVE  GoodInv'
BY DEF GoodInv, Onward

LEMMA NextGood == GoodInv /\ [Next]_vars => GoodInv'
<1> SUFFICES ASSUME GoodInv, [Next]_vars PROVE GoodInv'
  OBVIOUS
<1> USE DEF GoodInv
<1>u. ASSUME UNCHANGED files PROVE FilesOK'
  BY <1>u DEF FilesOK, files
<1>1. ASSUME NEW p \in Procs, NEW r \in Requests, Start(p, r) PROVE GoodInv'
  BY <1>1, <1>u, InstallAssumption DEF Start
<1>2. ASSUME NEW p \in Procs, Merge(p) PROVE GoodInv'
  <2>1. request[p] \in Request
    <3>1. request[p] \in Request \cup {Idle} /\ request[p].sound
      BY <1>2 DEF Merge
    <3>2. ~Idle.sound
      BY DEF Idle
    <3> QED
      BY <3>1, <3>2, Zenon
  <2>2. PICK doc \in readSettings(Contents("settings")) :
            merged' = [merged EXCEPT ![p] = MergeHooks(doc, request[p])]
    BY <1>2 DEF Merge
  <2>3. doc \in GoodSettings
    BY <2>2, ContentsGood, ReadGood
  <2>4. MergeHooks(doc, request[p]) \in GoodSettings
    BY <2>1, <2>3, MergeGood
  <2> QED
    BY <1>2, <1>u, <2>2, <2>4 DEF Merge
<1>3. ASSUME NEW p \in Procs, NothingToDo(p) PROVE GoodInv'
  BY <1>3, <1>u, EndGood DEF NothingToDo
<1>4. ASSUME NEW p \in Procs, Declined(p) PROVE GoodInv'
  <2>1. UNCHANGED files /\ End(p)
    BY <1>4 DEF Declined
  <2> QED
    BY <1>u, <2>1, EndGood
<1>5. ASSUME NEW p \in Procs, Look(p) PROVE GoodInv'
  <2>1. cur' \in [Procs -> GoodFile]
    BY <1>5, ContentsGood DEF Look
  <2> QED
    BY <1>5, <1>u, <2>1, OnwardGood DEF Look
<1>lf. ASSUME NEW p \in Procs, LookFails(p) PROVE GoodInv'
  BY <1>lf, <1>u, OnwardGood DEF LookFails
<1>6. ASSUME NEW p \in Procs, OpenBak(p) PROVE GoodInv'
  BY <1>6, CreateOK, OnwardGood DEF OpenBak
<1>7. ASSUME NEW p \in Procs, FillBak(p) PROVE GoodInv'
  <2>1. FilesOK'
    BY <1>7, FillOK DEF FillBak
  <2> QED
    BY <1>7, <2>1, OnwardGood DEF FillBak
<1>8. ASSUME NEW p \in Procs, OpenTmp(p) PROVE GoodInv'
  BY <1>8, CreateOK, OnwardGood DEF OpenTmp
<1>9. ASSUME NEW p \in Procs, FillTmp(p) PROVE GoodInv'
  <2>1. FilesOK'
    BY <1>9, FillOK, WholeGood DEF FillTmp
  <2> QED
    BY <1>9, <2>1, OnwardGood DEF FillTmp
<1>10. ASSUME NEW p \in Procs, Publish(p) PROVE GoodInv'
  BY <1>10, RenameOK, EndGood DEF Publish
<1>11. ASSUME NEW p \in Procs, Fails(p) PROVE GoodInv'
  BY <1>11, AbandonOK, EndGood DEF Fails
<1>12. CASE UNCHANGED vars
  BY <1>12, <1>u DEF vars, local, files
<1> QED
  BY <1>1, <1>2, <1>3, <1>4, <1>5, <1>lf, <1>6, <1>7, <1>8, <1>9, <1>10, <1>11, <1>12 DEF Next

LEMMA GoodOnce == GoodInv => NeverTwice
BY ContentsGood DEF GoodInv, NeverTwice, InFile, GoodFile, GoodSettings

(* MergeHooks adds an entry only where its command is missing, a reader gets  *)
(* a whole document or none, and all that is ever written is read or merged:  *)
(* no command is ever registered twice with a trigger.                       *)
THEOREM NothingTwice == Spec => []NeverTwice
<1>1. Init => GoodInv
  BY InitGood
<1>2. GoodInv /\ [Next]_vars => GoodInv'
  BY NextGood
<1>3. GoodInv => NeverTwice
  BY GoodOnce
<1> QED
  BY <1>1, <1>2, <1>3, PTL DEF Spec

-----------------------------------------------------------------------------
(* With settings that are no JSON nothing gets past reading, and nothing is   *)
(* ever opened.                                                              *)
Untouched ==
    /\ pc \in [Procs -> {"idle", "read"}]
    /\ dir = [name \in {"settings"} |-> 1]
    /\ data = [node \in {1} |-> Garbled]
    /\ fd = [p \in Procs |-> 0]

MalformedInv == first = Garbled => Untouched

LEMMA MalformedInit == Init => MalformedInv
<1> SUFFICES ASSUME Init, first = Garbled PROVE Untouched
  BY DEF MalformedInv
<1>1. first # Absent
  BY DEF Garbled, Absent
<1> QED
  BY <1>1 DEF Init, Untouched, With

LEMMA MalformedNext == MalformedInv /\ [Next]_vars => MalformedInv'
<1> SUFFICES ASSUME MalformedInv, [Next]_vars, first' = Garbled PROVE Untouched'
  BY DEF MalformedInv
<1>1. first' = first
  BY DEF Next, vars, Start, Merge, NothingToDo, Declined, Look, LookFails, OpenBak, FillBak,
         OpenTmp, FillTmp, Publish, Fails, Onward, End
<1>2. Untouched
  BY <1>1 DEF MalformedInv
<1>3. readSettings(Contents("settings")) = {}
  <2>1. Contents("settings") = Garbled
    BY <1>2 DEF Untouched, Contents, Exists
  <2> QED
    BY <2>1 DEF readSettings, Garbled
<1>4. ASSUME NEW p \in Procs, Fails(p) PROVE Untouched'
  <2>1. dir' = dir /\ fd' = fd /\ fd[p] = 0
    BY <1>2, <1>4 DEF Fails, Abandon, Untouched
  <2>2. Holding(data)
    BY <1>4, <2>1 DEF Fails, Abandon
  <2>3. DOMAIN data \cap (Range(dir') \cup Range(fd')) = DOMAIN data
    BY <1>2, <2>1 DEF Untouched, Range
  <2>4. data' = data
    BY <1>2, <2>2, <2>3 DEF Holding, Restrict, Untouched
  <2>5. pc' \in [Procs -> {"idle", "read"}]
    BY <1>2, <1>4 DEF Fails, End, Goto, Untouched
  <2> QED
    BY <1>2, <2>1, <2>4, <2>5 DEF Untouched
<1>5. ASSUME NEW p \in Procs, NEW r \in Requests, Start(p, r) PROVE Untouched'
  BY <1>2, <1>5 DEF Start, Goto, Untouched, files
<1>6. ASSUME NEW p \in Procs, Declined(p) PROVE Untouched'
  BY <1>2, <1>6 DEF Declined, End, Goto, Untouched, files
<1>7. ASSUME NEW p \in Procs, Merge(p) \/ NothingToDo(p) PROVE FALSE
  BY <1>3, <1>7 DEF Merge, NothingToDo
<1>8. ASSUME NEW p \in Procs,
             \/ Look(p) \/ LookFails(p) \/ OpenBak(p) \/ FillBak(p)
             \/ OpenTmp(p) \/ FillTmp(p) \/ Publish(p)
      PROVE  FALSE
  <2>1. pc[p] \in {"idle", "read"}
    BY <1>2 DEF Untouched
  <2> QED
    BY <1>8, <2>1 DEF Look, LookFails, OpenBak, FillBak, OpenTmp, FillTmp, Publish, Onward, At
<1>9. CASE UNCHANGED vars
  BY <1>2, <1>9 DEF Untouched, vars, local, files
<1> QED
  BY <1>4, <1>5, <1>6, <1>7, <1>8, <1>9 DEF Next

LEMMA UntouchedGarbled == MalformedInv => MalformedUntouched
BY DEF MalformedInv, Untouched, MalformedUntouched, Contents, Exists

(* readSettings gives nothing of a file that is no JSON, every run then ends  *)
(* before it writes, and a failed one has nothing open: the file stays.      *)
THEOREM MalformedStays == Spec => []MalformedUntouched
<1>1. Init => MalformedInv
  BY MalformedInit
<1>2. MalformedInv /\ [Next]_vars => MalformedInv'
  BY MalformedNext
<1>3. MalformedInv => MalformedUntouched
  BY UntouchedGarbled
<1> QED
  BY <1>1, <1>2, <1>3, PTL DEF Spec

-----------------------------------------------------------------------------
(* Installs that do not overlap.  What an installer has open, and between its *)
(* steps: the settings stay as it read them until it replaces them, the      *)
(* backup is them once it is filled, unless they could not be read for it,   *)
(* and the temporary file is the merge.                                       *)
Filling == {"fill bak", "fill tmp"}
Looked  == {"open bak", "fill bak"}
Writing == {"look", "open tmp", "fill tmp", "publish"} \cup Looked

OpenInv ==
    /\ DiskOK
    /\ DOMAIN fd = Procs /\ DOMAIN pc = Procs
    /\ \A p \in Procs : fd[p] # 0 <=> pc[p] \in Filling

Stage(p) ==
    /\ pc[p] \in Writing => \E doc \in readSettings(Contents("settings")) :
                               merged[p] = MergeHooks(doc, request[p])
    /\ pc[p] \in Looked => cur[p] = Contents("settings")
    /\ At(p, "fill bak") => Opened(p, "bak")
    /\ At(p, "fill tmp") => Opened(p, "tmp")
    /\ pc[p] \in {"open tmp", "fill tmp", "publish"} /\ Exists("settings") /\ p \notin unread =>
          Contents("bak") = Contents("settings")
    /\ At(p, "publish") => Exists("tmp") /\ Contents("tmp") = Whole(merged[p])

(* What the user had at first is in the document, but for odd values under    *)
(* these triggers ...                                                        *)
Keeps(doc, old, gone) ==
    /\ doc.keys = old.keys
    /\ old.object =>
          /\ doc.object
          /\ \A t \in Triggers : IsPrefix(old.lists[t], doc.lists[t])
          /\ old.odd \ gone \subseteq doc.odd

(* ... and so is the command, among the entries of the trigger. *)
Enters(doc, t, command) == doc.object /\ hookCommandPresent(doc.lists[t], command)

Used     == UNION {r.uses : r \in installed}
Survives == \A old \in first.value : \E doc \in InFile : Keeps(doc, old, Used)
Stays    == \A r \in installed : \A t \in r.uses : \E doc \in InFile : Enters(doc, t, r.command)

AskedInv ==
    /\ first \in GoodFile
    /\ installed \subseteq Requests
    /\ \A p \in Procs : ~At(p, "idle") => request[p] \in Requests

AloneInv ==
    alone => /\ \A p, q \in Procs : ~At(p, "idle") /\ ~At(q, "idle") => p = q
             /\ \A p \in Procs : Stage(p)
             /\ Survives
             /\ Stays

LoneInv == GoodInv /\ OpenInv /\ AskedInv /\ AloneInv

-----------------------------------------------------------------------------
(* What is open, and where. *)
LEMMA OpenInit == Init => OpenInv
<1> SUFFICES ASSUME Init PROVE OpenInv
  OBVIOUS
<1>1. DOMAIN fd = Procs /\ DOMAIN pc = Procs /\ \A p \in Procs : fd[p] = 0 /\ pc[p] \notin Filling
  BY DEF Init, Filling
<1>2. CASE first = Absent
  <2>1. dir = <<>> /\ data = <<>> /\ DOMAIN dir = {} /\ DOMAIN data = {}
    BY <1>2 DEF Init
  <2> QED
    BY <1>1, <2>1, FS_EmptySet DEF OpenInv, DiskOK
<1>3. CASE first # Absent
  <2>1. dir = [y \in {"settings"} |-> 1] /\ data = [y \in {1} |-> first]
    BY <1>3 DEF Init, With
  <2>2. IsFiniteSet(DOMAIN data)
    BY <2>1, FS_Singleton
  <2> QED
    BY <1>1, <2>1, <2>2 DEF OpenInv, DiskOK
<1> QED
  BY <1>2, <1>3

LEMMA OpenStep == OpenInv /\ [Next]_vars => OpenInv'
<1> SUFFICES ASSUME OpenInv, [Next]_vars PROVE OpenInv'
  OBVIOUS
<1> USE DEF OpenInv, Goto
<1>u. ASSUME UNCHANGED files PROVE DiskOK' /\ fd' = fd
  BY <1>u DEF DiskOK, files
<1>1. ASSUME NEW p \in Procs, NEW r \in Requests, Start(p, r) PROVE OpenInv'
  BY <1>1, <1>u DEF Start, At, Filling
<1>2. ASSUME NEW p \in Procs, Merge(p) PROVE OpenInv'
  BY <1>2, <1>u DEF Merge, At, Filling
<1>3. ASSUME NEW p \in Procs, NothingToDo(p) \/ Declined(p) PROVE OpenInv'
  BY <1>3, <1>u DEF NothingToDo, Declined, End, At, Filling
<1>4. ASSUME NEW p \in Procs, Look(p) \/ LookFails(p) PROVE OpenInv'
  BY <1>4, <1>u DEF Look, LookFails, Onward, At, Filling
<1>5. ASSUME NEW p \in Procs, OpenBak(p) PROVE OpenInv'
  <2>1. DiskOK' /\ \E node : node # 0 /\ fd' = [fd EXCEPT ![p] = node]
    BY <1>5, CreateEffect DEF OpenBak
  <2>2. pc' = [pc EXCEPT ![p] = "fill bak"]
    BY <1>5 DEF OpenBak, Onward
  <2> QED
    BY <2>1, <2>2 DEF Filling
<1>6. ASSUME NEW p \in Procs, OpenTmp(p) PROVE OpenInv'
  <2>1. DiskOK' /\ \E node : node # 0 /\ fd' = [fd EXCEPT ![p] = node]
    BY <1>6, CreateEffect DEF OpenTmp
  <2>2. pc' = [pc EXCEPT ![p] = "fill tmp"]
    BY <1>6 DEF OpenTmp, Onward
  <2> QED
    BY <2>1, <2>2 DEF Filling
<1>7. ASSUME NEW p \in Procs, FillBak(p) PROVE OpenInv'
  <2>1. pc' = [pc EXCEPT ![p] = "open tmp"] /\ pc[p] \in Filling
    BY <1>7 DEF FillBak, Onward, At, Filling
  <2>2. DiskOK' /\ fd' = [fd EXCEPT ![p] = 0]
    BY <1>7, <2>1, FillEffect DEF FillBak
  <2> QED
    BY <2>1, <2>2 DEF Filling
<1>8. ASSUME NEW p \in Procs, FillTmp(p) PROVE OpenInv'
  <2>1. pc' = [pc EXCEPT ![p] = "publish"] /\ pc[p] \in Filling
    BY <1>8 DEF FillTmp, Onward, At, Filling
  <2>2. DiskOK' /\ fd' = [fd EXCEPT ![p] = 0]
    BY <1>8, <2>1, FillEffect DEF FillTmp
  <2> QED
    BY <2>1, <2>2 DEF Filling
<1>9. ASSUME NEW p \in Procs, Publish(p) PROVE OpenInv'
  BY <1>9, RenameEffect DEF Publish, End, At, Filling
<1>10. ASSUME NEW p \in Procs, Fails(p) PROVE OpenInv'
  BY <1>10, AbandonEffect DEF Fails, End, At, Filling
<1>11. CASE UNCHANGED vars
  BY <1>11, <1>u DEF vars, local, files
<1> QED
  BY <1>1, <1>2, <1>3, <1>4, <1>5, <1>6, <1>7, <1>8, <1>9, <1>10, <1>11 DEF Next

-----------------------------------------------------------------------------
(* A list is a prefix of itself, and of itself with something behind it. *)
LEMMA PrefixExtends ==
  ASSUME NEW s \in Seq(SUBSET Commands), NEW t \in Seq(SUBSET Commands),
         NEW u \in Seq(SUBSET Commands)
  PROVE  IsPrefix(s, s) /\ (IsPrefix(s, t) => IsPrefix(s, t \o u))
<1> DEFINE X == SUBSET Commands
<1>1. s \in Seq(X) /\ t \in Seq(X) /\ u \in Seq(X)
  OBVIOUS
<1> HIDE DEF X
<1>2. IsPrefix(s, s)
  BY <1>1 DEF IsPrefix
<1>3. ASSUME IsPrefix(s, t) PROVE IsPrefix(s, t \o u)
  <2>1. Len(s) <= Len(t) /\ SubSeq(s, 1, Len(s)) = SubSeq(t, 1, Len(s))
    BY <1>3 DEF IsPrefix
  <2>2. Len(t \o u) = Len(t) + Len(u) /\ Len(s) \in Nat /\ Len(t) \in Nat /\ Len(u) \in Nat
    BY <1>1
  <2>3. SubSeq(t \o u, 1, Len(s)) = SubSeq(t, 1, Len(s))
    BY <1>1, <2>1, <2>2
  <2> QED
    BY <2>1, <2>2, <2>3 DEF IsPrefix
<1> QED
  BY <1>2, <1>3

(* MergeHooks keeps what there is and enters what is asked. *)
LEMMA MergeEffect ==
  ASSUME NEW doc \in GoodSettings, NEW r \in Requests
  PROVE  /\ \A old \in GoodSettings : \A gone :
               Keeps(doc, old, gone) => Keeps(MergeHooks(doc, r), old, gone \cup r.uses)
         /\ \A t \in Triggers : \A c : Enters(doc, t, c) => Enters(MergeHooks(doc, r), t, c)
         /\ \A t \in r.uses : Enters(MergeHooks(doc, r), t, r.command)
<1> DEFINE new == MergeHooks(doc, r)
<1>1. r \in Request /\ r.uses \subseteq Triggers /\ r.command \in Commands
  BY InstallAssumption DEF InstallAssumption, Request
<1>2. /\ new.keys = doc.keys /\ new.object = TRUE
      /\ new.odd = IF doc.object THEN doc.odd \ r.uses ELSE {}
      /\ \A t \in Triggers :
            new.lists[t] = IF t \in Added(doc, r) THEN Lists(doc)[t] \o SettingsFragment(r)[t]
                           ELSE Lists(doc)[t]
  BY DEF MergeHooks, Merged
<1> HIDE DEF new
<1>3. \A t \in Triggers : Lists(doc)[t] \in Seq(SUBSET Commands)
  BY ListsGood
<1>4. \A t \in Added(doc, r) : t \in r.uses /\ SettingsFragment(r)[t] = <<{r.command}>>
  BY DEF Added, SettingsFragment
<1>5. <<{r.command}>> \in Seq(SUBSET Commands)
  BY <1>1
<1>6. ASSUME NEW t \in Triggers, NEW c, hookCommandPresent(Lists(doc)[t], c)
      PROVE  hookCommandPresent(new.lists[t], c)
  <2> DEFINE old == Lists(doc)[t]
             more == <<{r.command}>>
  <2>1. CASE t \notin Added(doc, r)
    BY <1>2, <1>6, <2>1
  <2>2. CASE t \in Added(doc, r)
    <3>1. new.lists[t] = old \o more
      BY <1>2, <1>4, <2>2
    <3>2. old \in Seq(SUBSET Commands) /\ more \in Seq(SUBSET Commands)
      BY <1>3, <1>5
    <3>3. PICK i \in DOMAIN old : c \in old[i]
      BY <1>6 DEF hookCommandPresent
    <3> HIDE DEF old, more
    <3>4. i \in DOMAIN (old \o more) /\ (old \o more)[i] = old[i]
      <4>1. Len(old) \in Nat /\ Len(more) \in Nat /\ DOMAIN old = 1 .. Len(old)
        BY <3>2
      <4>2. old \o more \in Seq(SUBSET Commands) /\ Len(old \o more) = Len(old) + Len(more)
            /\ \A j \in 1 .. Len(old) + Len(more) :
                  (old \o more)[j] = IF j <= Len(old) THEN old[j] ELSE more[j - Len(old)]
        BY <3>2, ListsConcat, Zenon
      <4>3. DOMAIN (old \o more) = 1 .. Len(old) + Len(more)
        BY <4>2
      <4> QED
        BY <4>1, <4>2, <4>3
    <3> QED
      BY <3>1, <3>3, <3>4 DEF hookCommandPresent
  <2> QED
    BY <2>1, <2>2
<1>7. ASSUME NEW t \in r.uses PROVE Enters(new, t, r.command)
  <2>1. t \in Triggers
    BY <1>1
  <2>2. CASE t \notin Added(doc, r)
    BY <1>2, <1>6, <2>1, <2>2 DEF Added, Enters
  <2>3. CASE t \in Added(doc, r)
    <3> DEFINE old == Lists(doc)[t]
               more == <<{r.command}>>
    <3>1. new.lists[t] = old \o more
      BY <1>2, <1>4, <2>1, <2>3
    <3>2. old \in Seq(SUBSET Commands) /\ more \in Seq(SUBSET Commands)
      BY <1>3, <1>5, <2>1
    <3>3. Len(more) = 1 /\ more[1] = {r.command}
      OBVIOUS
    <3> HIDE DEF old, more
    <3>4. Len(old) \in Nat /\ Len(old) + 1 \in DOMAIN (old \o more)
          /\ (old \o more)[Len(old) + 1] = {r.command}
      <4>1. Len(old) \in Nat
        BY <3>2
      <4>2. old \o more \in Seq(SUBSET Commands) /\ Len(old \o more) = Len(old) + Len(more)
            /\ \A j \in 1 .. Len(old) + Len(more) :
                  (old \o more)[j] = IF j <= Len(old) THEN old[j] ELSE more[j - Len(old)]
        BY <3>2, ListsConcat, Zenon
      <4>3. DOMAIN (old \o more) = 1 .. Len(old) + 1
        BY <3>3, <4>2
      <4> QED
        BY <3>3, <4>1, <4>2, <4>3
    <3>5. hookCommandPresent(new.lists[t], r.command)
      BY <3>1, <3>4 DEF hookCommandPresent
    <3> QED
      BY <1>2, <3>5 DEF Enters
  <2> QED
    BY <2>2, <2>3
<1>8. ASSUME NEW t \in Triggers, NEW c, Enters(doc, t, c) PROVE Enters(new, t, c)
  <2>1. Lists(doc) = doc.lists
    BY <1>8 DEF Enters, Lists
  <2> QED
    BY <1>2, <1>6, <1>8, <2>1 DEF Enters
<1>9. ASSUME NEW old \in GoodSettings, NEW gone, Keeps(doc, old, gone)
      PROVE  Keeps(new, old, gone \cup r.uses)
  <2>1. new.keys = old.keys
    BY <1>2, <1>9 DEF Keeps
  <2>2. ASSUME old.object
        PROVE  /\ new.object
               /\ \A t \in Triggers : IsPrefix(old.lists[t], new.lists[t])
               /\ old.odd \ (gone \cup r.uses) \subseteq new.odd
    <3>1. /\ doc.object
          /\ \A t \in Triggers : IsPrefix(old.lists[t], doc.lists[t])
          /\ old.odd \ gone \subseteq doc.odd
      BY <1>9, <2>2 DEF Keeps
    <3>2. Lists(doc) = doc.lists
      BY <3>1 DEF Lists
    <3>3. ASSUME NEW t \in Triggers PROVE IsPrefix(old.lists[t], new.lists[t])
      <4>1. old.lists[t] \in Seq(SUBSET Commands)
        BY DEF GoodSettings, Settings
      <4> DEFINE before == old.lists[t]
                 now == doc.lists[t]
      <4>2. before \in Seq(SUBSET Commands) /\ now \in Seq(SUBSET Commands) /\ IsPrefix(before, now)
        BY <1>3, <3>1, <3>2, <4>1
      <4>3. new.lists[t] = now \/ new.lists[t] = now \o <<{r.command}>>
        BY <1>2, <1>4, <3>2
      <4> HIDE DEF before, now
      <4>4. IsPrefix(before, now \o <<{r.command}>>)
        BY <1>5, <4>2, PrefixExtends
      <4> QED
        BY <4>2, <4>3, <4>4 DEF before
    <3> QED
      BY <1>2, <3>1, <3>3
  <2> QED
    BY <2>1, <2>2 DEF Keeps
<1> QED
  BY <1>7, <1>8, <1>9 DEF new

-----------------------------------------------------------------------------
LEMMA Refilled ==
  ASSUME OpenInv, NEW p \in Procs, NEW name, NEW contents, Opened(p, name), fd[p] # 0,
         Fill(p, contents)
  PROVE  Exists(name)' /\ Contents(name)' = contents /\ \A other : other # name => Unread(other)
<1>1. Leads(name, p) /\ Contents(name) = Empty /\ \A other : other # name => ~Leads(other, p)
  BY DEF OpenInv, DiskOK, Opened, Leads, Exists
<1> QED
  BY <1>1, FillReads DEF OpenInv

(* Only a rename changes the settings of an install that runs alone. *)
Working(p) ==
    \/ \E r \in Requests : Start(p, r)
    \/ Merge(p) \/ NothingToDo(p) \/ Declined(p) \/ Look(p) \/ LookFails(p)
    \/ OpenBak(p) \/ FillBak(p) \/ OpenTmp(p) \/ FillTmp(p)
    \/ Fails(p)

LEMMA SettingsStay ==
  ASSUME LoneInv, alone, NEW p \in Procs, Working(p)
  PROVE  Unread("settings")
<1> USE DEF LoneInv
<1>1. Stage(p) /\ (fd[p] # 0 <=> pc[p] \in Filling)
  BY DEF AloneInv, OpenInv
<1>2. ASSUME UNCHANGED files PROVE Unread("settings")
  BY <1>2 DEF files, Unread, Contents, Exists
<1>3. CASE \/ \E r \in Requests : Start(p, r)
           \/ Merge(p) \/ NothingToDo(p) \/ Declined(p) \/ Look(p) \/ LookFails(p)
  BY <1>2, <1>3 DEF Start, Merge, NothingToDo, Declined, Look, LookFails
<1>4. CASE OpenBak(p) \/ OpenTmp(p)
  <2>1. DiskOK /\ p \in DOMAIN fd /\ "settings" \notin {"bak", "tmp"}
    BY DEF OpenInv
  <2>2. Create(p, "bak") \/ Create(p, "tmp")
    BY <1>4 DEF OpenBak, OpenTmp
  <2> QED
    BY <2>1, <2>2, CreateReads
<1>5. CASE FillBak(p)
  <2>1. Opened(p, "bak") /\ fd[p] # 0
    BY <1>1, <1>5 DEF FillBak, Onward, Stage, At, Filling
  <2> QED
    BY <1>5, <2>1, Refilled DEF FillBak
<1>6. CASE FillTmp(p)
  <2>1. Opened(p, "tmp") /\ fd[p] # 0
    BY <1>1, <1>6 DEF FillTmp, Onward, Stage, At, Filling
  <2> QED
    BY <1>6, <2>1, Refilled DEF FillTmp
<1>7. CASE Fails(p)
  <2>1. ~Leads("settings", p) => Unread("settings")
    BY <1>7, AbandonReads DEF Fails, OpenInv
  <2>2. Exists("settings") => dir["settings"] # fd[p]
    <3>1. CASE fd[p] = 0
      BY <3>1 DEF OpenInv, DiskOK, Exists
    <3>2. CASE fd[p] # 0
      <4>1. Opened(p, "bak") \/ Opened(p, "tmp")
        BY <1>1, <3>2 DEF Stage, Filling, At
      <4> QED
        BY <4>1 DEF Opened, Exists, OpenInv, DiskOK
    <3> QED
      BY <3>1, <3>2
  <2> QED
    BY <2>1, <2>2 DEF Leads
<1> QED
  BY <1>3, <1>4, <1>5, <1>6, <1>7 DEF Working

-----------------------------------------------------------------------------
(* A process at rest is at no stage of an install. *)
LEMMA IdleStage == ASSUME NEW p, At(p, "idle") PROVE Stage(p)
BY DEF Stage, At, Writing, Looked, Filling

(* A step of the only installer there is leaves the others at rest. *)
LEMMA SoleStep ==
  ASSUME LoneInv, alone, NEW p \in Procs, NEW place, pc' = [pc EXCEPT ![p] = place],
         \A q \in Procs \ {p} : At(q, "idle"),
         Stage(p)'
  PROVE  /\ \A q, r \in Procs : ~At(q, "idle")' /\ ~At(r, "idle")' => q = r
         /\ \A q \in Procs : Stage(q)'
<1>1. \A q \in Procs \ {p} : At(q, "idle")'
  BY DEF LoneInv, OpenInv, At
<1>2. \A q \in Procs : At(q, "idle")' => Stage(q)'
  BY DEF Stage, At, Writing, Looked, Filling
<1> QED
  BY <1>1, <1>2

(* The user's settings and the entries are kept where the settings are. *)
LEMMA SettingsKept ==
  ASSUME Survives, Stays, Unread("settings"), first' = first, installed \subseteq installed'
  PROVE  Survives' /\ (installed' = installed => Stays')
<1>1. InFile' = InFile
  BY DEF Unread, InFile
<1>2. Survives'
  <2>1. Used \subseteq Used'
    BY DEF Used
  <2>2. \A doc, old : Keeps(doc, old, Used) => Keeps(doc, old, Used')
    BY <2>1 DEF Keeps
  <2> QED
    BY <1>1, <2>2 DEF Survives
<1>3. installed' = installed => Stays'
  BY <1>1 DEF Stays
<1> QED
  BY <1>2, <1>3

(* What an installer has read: the settings in the file, or none. *)
LEMMA ReadIsInFile ==
  ASSUME NEW doc \in readSettings(Contents("settings")), NEW kept \in InFile, FilesOK
  PROVE  doc = kept
<1>1. Contents("settings") \in GoodFile
  BY ContentsGood
<1>2. Contents("settings").kind = "whole" /\ InFile = {kept}
  BY <1>1 DEF GoodFile, Tidy, InFile
<1> QED
  BY <1>2 DEF readSettings, InFile

LEMMA AloneInit == Init => AskedInv /\ AloneInv
<1> SUFFICES ASSUME Init PROVE AskedInv /\ AloneInv
  OBVIOUS
<1>1. first \in GoodFile
  BY InstallAssumption, OnceAssumption
  DEF InstallAssumption, OnceAssumption, Init, File, GoodFile, GoodSettings
<1>2. \A p \in Procs : At(p, "idle")
  BY DEF Init, At
<1>3. \A p \in Procs : Stage(p)
  BY <1>2, IdleStage
<1>4. Contents("settings") = first
  <2>1. CASE first = Absent
    BY <2>1 DEF Init, Contents, Exists
  <2>2. CASE first # Absent
    BY <2>2 DEF Init, Contents, Exists, With
  <2> QED
    BY <2>1, <2>2
<1>5. Survives
  <2>1. ASSUME NEW old \in first.value PROVE Keeps(old, old, Used)
    <3>1. old \in GoodSettings
      BY <1>1 DEF GoodFile
    <3>2. \A t \in Triggers : old.lists[t] \in Seq(SUBSET Commands)
      BY <3>1 DEF GoodSettings, Settings
    <3>3. \A t \in Triggers : IsPrefix(old.lists[t], old.lists[t])
      BY <3>2, PrefixExtends
    <3> QED
      BY <3>3 DEF Keeps
  <2> QED
    BY <1>4, <2>1 DEF Survives, InFile
<1>6. installed = {}
  BY DEF Init
<1> QED
  BY <1>1, <1>2, <1>3, <1>5, <1>6 DEF AskedInv, AloneInv, Stays

(* An installer does what it was asked, and reports that. *)
LEMMA AskedStep == LoneInv /\ [Next]_vars => AskedInv'
<1> SUFFICES ASSUME LoneInv, [Next]_vars PROVE AskedInv'
  OBVIOUS
<1>1. /\ first \in GoodFile /\ installed \subseteq Requests
      /\ \A p \in Procs : ~At(p, "idle") => request[p] \in Requests
      /\ DOMAIN request = Procs /\ DOMAIN pc = Procs
  BY DEF LoneInv, AskedInv, GoodInv, OpenInv
<1>2. CASE UNCHANGED vars
  BY <1>1, <1>2 DEF vars, local, AskedInv, At
<1>3. ASSUME NEW p \in Procs, NEW r \in Requests, Start(p, r) PROVE AskedInv'
  BY <1>1, <1>3 DEF Start, Goto, At, AskedInv
<1>4. ASSUME NEW p \in Procs, ~At(p, "idle"), End(p),
             installed' = installed \/ installed' = installed \cup {request[p]}
      PROVE  AskedInv'
  <2>1. /\ pc' = [pc EXCEPT ![p] = "idle"] /\ request' = [request EXCEPT ![p] = Idle]
        /\ first' = first
    BY <1>4 DEF End, Goto
  <2> QED
    BY <1>1, <1>4, <2>1 DEF At, AskedInv
<1>5. ASSUME NEW p \in Procs, ~At(p, "idle"), NEW place, Goto(p, place),
             UNCHANGED <<request, first, installed>>
      PROVE  AskedInv'
  BY <1>1, <1>5 DEF Goto, At, AskedInv
<1>6. ASSUME NEW p \in Procs, \/ Merge(p) \/ Look(p) \/ LookFails(p)
                               \/ OpenBak(p) \/ FillBak(p) \/ OpenTmp(p) \/ FillTmp(p)
      PROVE  AskedInv'
  BY <1>5, <1>6 DEF Merge, Look, LookFails, OpenBak, FillBak, OpenTmp, FillTmp, Onward, At
<1>7. ASSUME NEW p \in Procs, NothingToDo(p) \/ Declined(p) \/ Publish(p) \/ Fails(p)
      PROVE  AskedInv'
  BY <1>4, <1>7 DEF NothingToDo, Declined, Publish, Fails, At
<1> QED
  BY <1>2, <1>3, <1>6, <1>7 DEF Next

(* Every step of an installer that runs alone takes it to its next stage. *)
LEMMA AloneStep == LoneInv /\ [Next]_vars => AloneInv'
<1> SUFFICES ASSUME LoneInv, [Next]_vars PROVE AloneInv'
  OBVIOUS
<1> DEFINE Sole(p) ==
             /\ \A q, r \in Procs : ~At(q, "idle")' /\ ~At(r, "idle")' => q = r
             /\ \A q \in Procs : Stage(q)'
           Kept == Survives' /\ Stays'
<1>1. AloneInv /\ AskedInv /\ OpenInv /\ GoodInv
  BY DEF LoneInv
<1>2. CASE UNCHANGED vars
  BY <1>1, <1>2
  DEF vars, local, files, AloneInv, At, Stage, Survives, Used, Stays, InFile, Contents, Exists, Opened
<1>3. ASSUME NEW p \in Procs, alone,
             ~At(p, "idle")
      PROVE  Stage(p) /\ Survives /\ Stays /\ \A q \in Procs \ {p} : At(q, "idle")
  BY <1>1, <1>3 DEF AloneInv
<1>4. ASSUME NEW p \in Procs, alone, Working(p), first' = first, installed \subseteq installed'
      PROVE  /\ Contents("settings")' = Contents("settings")
             /\ Exists("settings")' <=> Exists("settings")
             /\ Survives' /\ (installed' = installed => Stays')
  <2>1. Unread("settings")
    BY <1>4, SettingsStay
  <2>2. Survives /\ Stays
    BY <1>1, <1>4 DEF AloneInv
  <2> QED
    BY <1>4, <2>1, <2>2, SettingsKept DEF Unread
<1>5. ASSUME NEW p \in Procs, NEW r \in Requests, Start(p, r) PROVE AloneInv'
  <2>1. first' = first /\ installed' = installed
    BY <1>5 DEF Start
  <2>2. ASSUME alone' PROVE Sole(p) /\ Kept
    <3>1. alone /\ \A q \in Procs : At(q, "idle")
      BY <1>5, <2>2 DEF Start
    <3>2. pc' = [pc EXCEPT ![p] = "read"] /\ request'[p] = r
      BY <1>1, <1>5 DEF Start, Goto, GoodInv
    <3>3. Stage(p)'
      BY <1>1, <3>2 DEF Stage, At, Writing, Looked, Filling, OpenInv
    <3>4. Sole(p)
      BY <3>1, <3>2, <3>3, SoleStep
    <3> QED
      BY <1>4, <1>5, <2>1, <3>1, <3>4 DEF Working
  <2> QED
    BY <1>1, <2>1, <2>2 DEF AloneInv
<1>6. ASSUME NEW p \in Procs, Merge(p) PROVE AloneInv'
  <2>1. first' = first /\ installed' = installed /\ alone' = alone /\ ~At(p, "idle")
    BY <1>6 DEF Merge, At
  <2>2. ASSUME alone PROVE Sole(p) /\ Kept
    <3>1. /\ Contents("settings")' = Contents("settings") /\ Kept
      BY <1>4, <1>6, <2>1, <2>2 DEF Working
    <3>2. PICK doc \in readSettings(Contents("settings")) :
             merged' = [merged EXCEPT ![p] = MergeHooks(doc, request[p])]
      BY <1>6 DEF Merge
    <3>3. pc' = [pc EXCEPT ![p] = "look"] /\ request' = request
      BY <1>6 DEF Merge, Goto
    <3>4. merged'[p] = MergeHooks(doc, request[p]) /\ pc'[p] = "look"
      BY <1>1, <3>2, <3>3 DEF GoodInv, OpenInv
    <3>6. Stage(p)'
      BY <3>1, <3>2, <3>3, <3>4 DEF Stage, At, Looked, Filling
    <3> QED
      BY <1>3, <2>1, <2>2, <3>1, <3>3, <3>6, SoleStep
  <2> QED
    BY <1>1, <2>1, <2>2 DEF AloneInv
<1>7. ASSUME NEW p \in Procs, End(p), alone, ~At(p, "idle") PROVE Sole(p)
  <2>1. pc' = [pc EXCEPT ![p] = "idle"] /\ pc'[p] = "idle"
    BY <1>1, <1>7 DEF End, Goto, OpenInv
  <2>2. Stage(p)'
    BY <2>1 DEF Stage, At, Writing, Looked, Filling
  <2> QED
    BY <1>3, <1>7, <2>1, <2>2, SoleStep
<1>8. ASSUME NEW p \in Procs, NothingToDo(p) PROVE AloneInv'
  <2>1. /\ first' = first /\ alone' = alone /\ ~At(p, "idle") /\ End(p)
        /\ installed' = installed \cup {request[p]}
    BY <1>8 DEF NothingToDo, At, End
  <2>2. ASSUME alone PROVE Sole(p) /\ Kept
    <3>1. Contents("settings")' = Contents("settings") /\ Survives' /\ Stays
      BY <1>3, <1>4, <1>8, <2>1, <2>2 DEF Working
    <3>2. PICK doc \in readSettings(Contents("settings")) : Added(doc, request[p]) = {}
      BY <1>8 DEF NothingToDo
    <3>3. request[p] \in Requests /\ request[p].uses \subseteq Triggers
      BY <1>1, <2>1, InstallAssumption DEF AskedInv, InstallAssumption, Request
    <3>4. ASSUME NEW t \in request[p].uses
          PROVE  \E kept \in InFile : Enters(kept, t, request[p].command)
      <4>1. hookCommandPresent(Lists(doc)[t], request[p].command)
        BY <3>2 DEF Added
      <4>2. doc.object
        BY <3>3, <4>1 DEF Lists, NoLists, hookCommandPresent
      <4>3. doc # NoKeys
        BY <4>2 DEF NoKeys
      <4>4. doc \in InFile
        BY <3>2, <4>3 DEF readSettings, InFile
      <4> QED
        BY <4>1, <4>2, <4>4 DEF Enters, Lists
    <3>5. Stays'
      BY <2>1, <3>1, <3>4 DEF Stays, InFile
    <3> QED
      BY <1>7, <2>1, <2>2, <3>1, <3>5
  <2> QED
    BY <2>1, <2>2 DEF AloneInv
<1>9. ASSUME NEW p \in Procs, Declined(p) \/ Fails(p) PROVE AloneInv'
  <2>1. /\ first' = first /\ alone' = alone /\ ~At(p, "idle") /\ End(p)
        /\ installed' = installed /\ Working(p)
    BY <1>9 DEF Declined, Fails, At, End, Working
  <2> QED
    BY <1>4, <1>7, <2>1 DEF AloneInv
<1>10. ASSUME NEW p \in Procs, NEW from, NEW to, from # "idle", Onward(p, from, to), Working(p),
              alone => Stage(p)'
       PROVE  AloneInv'
  <2>1. /\ first' = first /\ alone' = alone /\ ~At(p, "idle") /\ installed' = installed
        /\ pc' = [pc EXCEPT ![p] = to]
    BY <1>10 DEF Onward, At, Goto
  <2>2. ASSUME alone PROVE Sole(p) /\ Kept
    <3>1. Sole(p)
      BY <1>1, <1>3, <1>10, <2>1, <2>2, SoleStep
    <3>2. Kept
      BY <1>4, <1>10, <2>1, <2>2
    <3> QED
      BY <3>1, <3>2
  <2> QED
    BY <2>1, <2>2 DEF AloneInv
<1>11. ASSUME NEW p \in Procs, NEW from, NEW to, Onward(p, from, to)
       PROVE  /\ pc[p] = from /\ pc'[p] = to
              /\ request' = request /\ merged' = merged /\ first' = first
  BY <1>1, <1>11 DEF Onward, Goto, At, OpenInv
<1>at. ASSUME NEW p \in Procs, NEW from, NEW to, from # "idle", Onward(p, from, to), alone
       PROVE  Stage(p)
  <2>1. pc[p] = from
    BY <1>11, <1>at
  <2> QED
    BY <1>3, <1>at, <2>1 DEF At
<1>12. ASSUME NEW p \in Procs, Look(p) \/ LookFails(p) PROVE AloneInv'
  <2> DEFINE to == IF Look(p) THEN "open bak" ELSE "open tmp"
  <2>1. /\ Onward(p, "look", to) /\ Working(p)
        /\ Look(p) => cur' = [cur EXCEPT ![p] = Contents("settings")]
        /\ ~Look(p) /\ Exists("settings") => p \in unread'
    BY <1>12 DEF Look, LookFails, Working
  <2>2. ASSUME alone PROVE Stage(p)'
    <3>1. /\ Contents("settings")' = Contents("settings")
          /\ Exists("settings")' <=> Exists("settings")
      BY <1>4, <1>11, <2>1, <2>2 DEF Onward
    <3>2. Look(p) => cur'[p] = Contents("settings")
      BY <1>1, <2>1 DEF GoodInv
    <3>3. \E doc \in readSettings(Contents("settings")) : merged[p] = MergeHooks(doc, request[p])
      <4>1. Stage(p)
        BY <1>at, <2>1, <2>2
      <4>2. pc[p] = "look"
        BY <1>11, <2>1
      <4> QED
        BY <4>1, <4>2 DEF Stage, Writing
    <3>4. pc'[p] = to /\ request' = request /\ merged' = merged
      BY <1>11, <2>1
    <3> QED
      BY <2>1, <3>1, <3>2, <3>3, <3>4 DEF Stage, At, Looked
  <2> QED
    BY <1>10, <2>1, <2>2
<1>13. ASSUME NEW p \in Procs, OpenBak(p) PROVE AloneInv'
  <2>1. Onward(p, "open bak", "fill bak") /\ Working(p) /\ Create(p, "bak") /\ UNCHANGED <<cur, unread>>
    BY <1>13 DEF OpenBak, Working
  <2>2. ASSUME alone PROVE Stage(p)'
    <3>0. pc[p] = "open bak" /\ pc'[p] = "fill bak" /\ request' = request /\ merged' = merged
      BY <1>11, <2>1
    <3>1. Opened(p, "bak")' /\ Unread("settings")
      BY <1>1, <2>1, CreateReads DEF OpenInv
    <3>2. Stage(p)
      BY <1>at, <2>1, <2>2, <3>0
    <3> QED
      BY <2>1, <3>0, <3>1, <3>2 DEF Stage, Unread, At, Writing, Looked, Filling
  <2> QED
    BY <1>10, <2>1, <2>2
<1>14. ASSUME NEW p \in Procs, FillBak(p) PROVE AloneInv'
  <2>1. Onward(p, "fill bak", "open tmp") /\ Working(p) /\ Fill(p, cur[p]) /\ UNCHANGED <<cur, unread>>
    BY <1>14 DEF FillBak, Working
  <2>2. ASSUME alone PROVE Stage(p)'
    <3>0. pc[p] = "fill bak" /\ pc'[p] = "open tmp" /\ request' = request /\ merged' = merged
      BY <1>11, <2>1
    <3>1. Stage(p) /\ pc[p] = "fill bak"
      BY <1>at, <2>1, <2>2, <3>0
    <3>2. Opened(p, "bak") /\ fd[p] # 0 /\ cur[p] = Contents("settings")
      BY <1>1, <3>1 DEF Stage, At, OpenInv, Looked, Filling
    <3>3. Contents("bak")' = cur[p] /\ Unread("settings")
      BY <1>1, <2>1, <3>2, Refilled
    <3> QED
      BY <2>1, <3>0, <3>1, <3>2, <3>3 DEF Stage, Unread, At, Writing, Looked, Filling
  <2> QED
    BY <1>10, <2>1, <2>2
<1>15. ASSUME NEW p \in Procs, OpenTmp(p) PROVE AloneInv'
  <2>1. Onward(p, "open tmp", "fill tmp") /\ Working(p) /\ Create(p, "tmp") /\ UNCHANGED <<cur, unread>>
    BY <1>15 DEF OpenTmp, Working
  <2>2. ASSUME alone PROVE Stage(p)'
    <3>0. pc[p] = "open tmp" /\ pc'[p] = "fill tmp" /\ request' = request /\ merged' = merged
      BY <1>11, <2>1
    <3>1. Opened(p, "tmp")' /\ Unread("settings") /\ Unread("bak")
      BY <1>1, <2>1, CreateReads DEF OpenInv
    <3>2. Stage(p) /\ pc[p] = "open tmp"
      BY <1>at, <2>1, <2>2, <3>0
    <3> QED
      BY <2>1, <3>0, <3>1, <3>2 DEF Stage, Unread, At, Writing, Looked, Filling
  <2> QED
    BY <1>10, <2>1, <2>2
<1>16. ASSUME NEW p \in Procs, FillTmp(p) PROVE AloneInv'
  <2>1. Onward(p, "fill tmp", "publish") /\ Working(p) /\ Fill(p, Whole(merged[p])) /\ UNCHANGED <<cur, unread>>
    BY <1>16 DEF FillTmp, Working
  <2>2. ASSUME alone PROVE Stage(p)'
    <3>0. pc[p] = "fill tmp" /\ pc'[p] = "publish" /\ request' = request /\ merged' = merged
      BY <1>11, <2>1
    <3>1. Stage(p) /\ pc[p] = "fill tmp"
      BY <1>at, <2>1, <2>2, <3>0
    <3>2. Opened(p, "tmp") /\ fd[p] # 0
      BY <1>1, <3>1 DEF Stage, At, OpenInv, Filling
    <3>3. /\ Exists("tmp")' /\ Contents("tmp")' = Whole(merged[p])
          /\ Unread("settings") /\ Unread("bak")
      BY <1>1, <2>1, <3>2, Refilled
    <3> QED
      BY <2>1, <3>0, <3>1, <3>3 DEF Stage, Unread, At, Writing, Looked, Filling
  <2> QED
    BY <1>10, <2>1, <2>2
<1>17. ASSUME NEW p \in Procs, Publish(p) PROVE AloneInv'
  <2>1. /\ pc[p] = "publish" /\ first' = first /\ alone' = alone /\ ~At(p, "idle") /\ End(p)
        /\ installed' = installed \cup {request[p]} /\ Rename("tmp", "settings")
    BY <1>17 DEF Publish, At, End
  <2>2. ASSUME alone PROVE Sole(p) /\ Kept
    <3>1. Stage(p) /\ Survives /\ Stays
      BY <1>3, <2>1, <2>2
    <3>2. PICK doc \in readSettings(Contents("settings")) : merged[p] = MergeHooks(doc, request[p])
      BY <2>1, <3>1 DEF Stage, Writing, Looked
    <3>3. Contents("tmp") = Whole(merged[p])
      BY <2>1, <3>1 DEF Stage, At
    <3>4. Contents("settings")' = Contents("tmp")
      BY <1>1, <2>1, RenameReads DEF OpenInv
    <3>5. InFile' = {merged[p]}
      BY <3>3, <3>4 DEF InFile, Whole
    <3>6. request[p] \in Requests
      BY <1>1, <2>1 DEF AskedInv
    <3>7. doc \in GoodSettings
      BY <1>1, ContentsGood, ReadGood DEF GoodInv
    <3>8. \A kept \in InFile : kept = doc
      BY <1>1, ReadIsInFile DEF GoodInv
    <3>9. Survives'
      <4>1. ASSUME NEW old \in first.value PROVE Keeps(merged[p], old, Used')
        <5>1. old \in GoodSettings
          BY <1>1 DEF AskedInv, GoodFile
        <5>2. Keeps(doc, old, Used)
          BY <3>1, <3>8 DEF Survives
        <5>3. Used' = Used \cup request[p].uses
          BY <2>1 DEF Used
        <5> QED
          BY <3>2, <3>6, <3>7, <5>1, <5>2, <5>3, MergeEffect
      <4> QED
        BY <2>1, <3>5, <4>1 DEF Survives
    <3>10. Stays'
      <4>1. ASSUME NEW r \in installed', NEW t \in r.uses PROVE Enters(merged[p], t, r.command)
        <5>1. CASE r = request[p]
          BY <3>2, <3>6, <3>7, <5>1, MergeEffect
        <5>2. CASE r \in installed
          <6>1. r \in Request /\ t \in Triggers
            BY <1>1, <5>2, InstallAssumption DEF AskedInv, InstallAssumption, Request
          <6>2. Enters(doc, t, r.command)
            BY <3>1, <3>8, <5>2 DEF Stays
          <6> QED
            BY <3>2, <3>6, <3>7, <6>1, <6>2, MergeEffect
        <5> QED
          BY <2>1, <5>1, <5>2
      <4> QED
        BY <3>5, <4>1 DEF Stays
    <3> QED
      BY <1>7, <2>1, <2>2, <3>9, <3>10
  <2> QED
    BY <2>1, <2>2 DEF AloneInv
<1> QED
  BY <1>2, <1>5, <1>6, <1>8, <1>9, <1>12, <1>13, <1>14, <1>15, <1>16, <1>17 DEF Next

LEMMA LoneInit == Init => LoneInv
BY InitGood, OpenInit, AloneInit DEF LoneInv

LEMMA LoneStep == LoneInv /\ [Next]_vars => LoneInv'
<1>1. LoneInv /\ [Next]_vars => GoodInv'
  BY NextGood DEF LoneInv
<1>2. LoneInv /\ [Next]_vars => OpenInv'
  BY OpenStep DEF LoneInv
<1> QED
  BY <1>1, <1>2, AskedStep, AloneStep DEF LoneInv

LEMMA LoneSurvive == LoneInv => UserSettingsSurvive
<1> SUFFICES ASSUME LoneInv, alone, NEW old \in first.value
             PROVE  \E doc \in InFile :
                       /\ doc.keys = old.keys
                       /\ old.object =>
                           /\ \A t \in Triggers : IsPrefix(old.lists[t], doc.lists[t])
                           /\ old.odd \ UNION {r.uses : r \in installed} \subseteq doc.odd
  BY DEF UserSettingsSurvive
<1>1. PICK doc \in InFile : Keeps(doc, old, Used)
  BY DEF LoneInv, AloneInv, Survives
<1> QED
  BY <1>1 DEF Keeps, Used

LEMMA LoneStays == LoneInv => InstalledStays
<1> SUFFICES ASSUME LoneInv, alone, NEW r \in installed, NEW t \in r.uses
             PROVE  \E doc \in InFile : \E i \in DOMAIN doc.lists[t] : r.command \in doc.lists[t][i]
  BY DEF InstalledStays
<1>1. PICK doc \in InFile : Enters(doc, t, r.command)
  BY DEF LoneInv, AloneInv, Stays
<1> QED
  BY <1>1 DEF Enters, hookCommandPresent

(* Between the reading of the settings and their replacement the only         *)
(* installer passes through its stages, at each of which the settings are    *)
(* the ones it has merged; the merge keeps each key, each list and each odd   *)
(* value under a trigger of no installed machine, so that is there at every   *)
(* moment.                                                                   *)
THEOREM SettingsSurvive == Spec => []UserSettingsSurvive
<1>1. Init => LoneInv
  BY LoneInit
<1>2. LoneInv /\ [Next]_vars => LoneInv'
  BY LoneStep
<1>3. LoneInv => UserSettingsSurvive
  BY LoneSurvive
<1> QED
  BY <1>1, <1>2, <1>3, PTL DEF Spec

(* Success is reported once the entries are in the file, and no later merge  *)
(* takes an entry out.                                                       *)
THEOREM EntriesStay == Spec => []InstalledStays
<1>1. Init => LoneInv
  BY LoneInit
<1>2. LoneInv /\ [Next]_vars => LoneInv'
  BY LoneStep
<1>3. LoneInv => InstalledStays
  BY LoneStays
<1> QED
  BY <1>1, <1>2, <1>3, PTL DEF Spec

(* Of all steps of the only installer the rename alone changes what the       *)
(* settings read as, and by then the backup holds the same contents, unless  *)
(* it could not read them for the backup.                                    *)
THEOREM BackedUp == Spec => ReadIsBackedUp
<1>1. Init => LoneInv
  BY LoneInit
<1>2. LoneInv /\ [Next]_vars => LoneInv'
  BY LoneStep
<1>3. LoneInv /\ [Next]_vars =>
         [alone' /\ unread = {} /\ Replaced => Contents("bak") = Contents("settings")]_vars
  <2> SUFFICES ASSUME LoneInv, Next, alone', unread = {}, Exists("settings"),
                      Contents("settings")' # Contents("settings")
               PROVE  Contents("bak") = Contents("settings")
    BY DEF Replaced
  <2>1. PICK p \in Procs : Working(p) \/ Publish(p)
    BY DEF Next, Working
  <2>2. alone
    <3>1. CASE Working(p)
      BY <3>1 DEF Working, Start, Merge, NothingToDo, Declined, Look, LookFails, OpenBak, FillBak,
                  OpenTmp, FillTmp, Fails, Onward, End
    <3>2. CASE Publish(p)
      BY <3>2 DEF Publish, End
    <3> QED
      BY <2>1, <3>1, <3>2
  <2>3. ~Working(p)
    BY <2>2, SettingsStay DEF Unread
  <2>4. Stage(p) /\ pc[p] = "publish"
    BY <2>1, <2>2, <2>3 DEF LoneInv, AloneInv, Publish, At
  <2> QED
    BY <2>4 DEF Stage
<1> QED
  BY <1>1, <1>2, <1>3, PTL DEF Spec, ReadIsBackedUp
=============================================================================
