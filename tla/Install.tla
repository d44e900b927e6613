------------------------------- MODULE Install -------------------------------
(***************************************************************************)
(* stull install: the hooks of a machine are merged into the assistant's   *)
(* settings file, which is read, backed up and replaced through a          *)
(* temporary file, by any number of installers at once.                    *)
(*                                                                         *)
(* Settings are [keys, object, lists, odd]: the keys other than "hooks";   *)
(* whether there is an object "hooks"; of each trigger in it the list of   *)
(* entries; and the triggers whose value is something other than a list.   *)
(* An entry is the set of the commands it runs, {} if it has an odd shape. *)
(***************************************************************************)
EXTENDS Disk, Sequences, SequencesExt

CONSTANTS
    Procs,      \* the installers
    Keys,       \* the keys of settings files, other than "hooks"
    Triggers,   \* the keys under "hooks"
    Commands,   \* the commands hooks run
    Requests,   \* what they are asked: [command, uses, sound, write]
    Found,      \* the contents the settings file may have at first
    Runs        \* bound: the number of runs

Settings == [keys   : SUBSET Keys,
             object : BOOLEAN,
             lists  : [Triggers -> Seq(SUBSET Commands)],
             odd    : SUBSET Triggers]
Request  == [command : Commands, uses : SUBSET Triggers, sound : BOOLEAN, write : BOOLEAN]

(* Whole contents are one document, any others none. *)
Tidy(file) == IF file.kind = "whole" THEN \E doc \in file.value : file.value = {doc}
              ELSE file.value = {}
File       == {file \in [kind : {"absent", "empty", "garbled", "whole"}, value : SUBSET Settings] :
                  Tidy(file)}

(* No command is registered twice under a trigger. *)
Once(doc) ==
    \A t \in Triggers : \A i, j \in DOMAIN doc.lists[t] :
        doc.lists[t][i] \cap doc.lists[t][j] # {} => i = j

ASSUME InstallAssumption ==
    /\ Runs \in Nat
    /\ Requests \subseteq Request
    /\ Found \subseteq File

(* Nothing is registered twice before the first install. *)
ASSUME OnceAssumption == \A file \in Found : \A doc \in file.value : Once(doc)

VARIABLES
    pc,             \* where each installer is
    request,        \* what it was asked
    merged,         \* what it is going to write
    cur,            \* the contents it backs up
    first,          \* history: the contents of the settings file at first
    installed,      \* history: the requests answered with success
    alone,          \* history: no two runs have overlapped
    unread,         \* history: the installers that cannot read, for the backup, a file there is
    runs            \* history: the runs started

files == <<dir, data, fd>>
local == <<pc, request, merged, cur>>
vars  == <<local, files, first, installed, alone, unread, runs>>

NoLists == [t \in Triggers |-> <<>>]
NoKeys  == [keys |-> {}, object |-> FALSE, lists |-> NoLists, odd |-> {}]
Idle    == [command |-> "", uses |-> {}, sound |-> FALSE, write |-> FALSE]

-----------------------------------------------------------------------------
(* Faulty: only the latest entry is looked at. *)
PresentLast(entries, command) == entries # <<>> /\ command \in Last(entries)

hookCommandPresent(entries, command) == \E i \in DOMAIN entries : command \in entries[i]

(* The entry for each trigger the machine uses. *)
SettingsFragment(r) == [t \in r.uses |-> <<{r.command}>>]

(* The list under each trigger; what is no list, or not in an object, is none. *)
Lists(doc) == IF doc.object THEN doc.lists ELSE NoLists

(* Faulty: a machine that has one of its entries is installed. *)
AddedUnlessAny(doc, r) ==
    IF \E t \in r.uses : hookCommandPresent(Lists(doc)[t], r.command) THEN {} ELSE r.uses

(* The triggers that lack the machine's entry: their number is "added". *)
Added(doc, r) == {t \in r.uses : ~hookCommandPresent(Lists(doc)[t], r.command)}

Merged(doc, r, lists) ==
    [keys   |-> doc.keys,
     object |-> TRUE,
     lists  |-> lists,
     odd    |-> IF doc.object THEN doc.odd \ r.uses ELSE {}]

(* Faulty: the machine's list takes the place of the one there is. *)
MergeReplaces(doc, r) ==
    Merged(doc, r, [t \in Triggers |->
        IF t \in Added(doc, r) THEN SettingsFragment(r)[t] ELSE Lists(doc)[t]])

(* The machine's entries are put behind those there are.  A value that is no *)
(* list is replaced, and so are hooks that are no object.                    *)
MergeHooks(doc, r) ==
    Merged(doc, r, [t \in Triggers |->
        IF t \in Added(doc, r) THEN Lists(doc)[t] \o SettingsFragment(r)[t] ELSE Lists(doc)[t]])

(* Faulty: a file that cannot be parsed counts as none. *)
ReadAnyhow(contents) == IF contents.kind = "whole" THEN contents.value ELSE {NoKeys}

(* A missing file and one of no bytes are settings without keys; of a file   *)
(* that cannot be parsed there are none.                                     *)
readSettings(contents) ==
    IF contents.kind \in {"absent", "empty"} THEN {NoKeys} ELSE contents.value

-----------------------------------------------------------------------------
Init ==
    /\ pc = [p \in Procs |-> "idle"]
    /\ request = [p \in Procs |-> Idle]
    /\ merged = [p \in Procs |-> NoKeys]
    /\ cur = [p \in Procs |-> Absent]
    /\ first \in Found
    /\ dir = IF first = Absent THEN <<>> ELSE With(<<>>, "settings", 1)
    /\ data = IF first = Absent THEN <<>> ELSE With(<<>>, 1, first)
    /\ fd = [p \in Procs |-> 0]
    /\ installed = {}
    /\ alone = TRUE
    /\ unread = {}
    /\ runs = 0

At(p, place)     == pc[p] = place
Goto(p, place)   == pc' = [pc EXCEPT ![p] = place]
Onward(p, from, to) ==
    /\ At(p, from)
    /\ Goto(p, to)
    /\ UNCHANGED <<request, merged, first, installed, alone, runs>>

(* The run is over: what was asked is forgotten. *)
End(p) ==
    /\ Goto(p, "idle")
    /\ request' = [request EXCEPT ![p] = Idle]
    /\ merged' = [merged EXCEPT ![p] = NoKeys]
    /\ cur' = [cur EXCEPT ![p] = Absent]
    /\ unread' = unread \ {p}
    /\ UNCHANGED <<first, alone, runs>>

Start(p, r) ==
    /\ At(p, "idle")
    /\ runs < Runs
    /\ runs' = runs + 1
    /\ request' = [request EXCEPT ![p] = r]
    /\ alone' = (alone /\ \A q \in Procs : At(q, "idle"))
    /\ Goto(p, "read")
    /\ UNCHANGED <<merged, cur, files, first, installed, unread>>

(* The file is read and the merge computed; there is something to write. *)
Merge(p) ==
    /\ At(p, "read")
    /\ request[p].sound /\ request[p].write
    /\ \E doc \in readSettings(Contents("settings")) :
          /\ Added(doc, request[p]) # {}
          /\ merged' = [merged EXCEPT ![p] = MergeHooks(doc, request[p])]
    /\ Goto(p, "look")
    /\ UNCHANGED <<request, cur, files, first, installed, alone, unread, runs>>

(* All entries are there. *)
NothingToDo(p) ==
    /\ At(p, "read")
    /\ request[p].sound /\ request[p].write
    /\ \E doc \in readSettings(Contents("settings")) : Added(doc, request[p]) = {}
    /\ installed' = installed \cup {request[p]}
    /\ End(p)
    /\ UNCHANGED files

(* A dry run, an unsound machine and settings that are no JSON end the run   *)
(* before anything is written.                                               *)
Declined(p) ==
    /\ At(p, "read")
    /\ \/ ~request[p].write
       \/ ~request[p].sound
       \/ readSettings(Contents("settings")) = {}
    /\ End(p)
    /\ UNCHANGED <<files, installed>>

(* Faulty: the first backup is kept. *)
LookOnce(p) ==
    /\ Exists("settings")
    /\ Onward(p, "look", IF Exists("bak") THEN "open tmp" ELSE "open bak")
    /\ cur' = [cur EXCEPT ![p] = Contents("settings")]
    /\ UNCHANGED <<files, unread>>

(* The file is read once more, for the backup ... *)
Look(p) ==
    /\ Exists("settings")
    /\ Onward(p, "look", "open bak")
    /\ cur' = [cur EXCEPT ![p] = Contents("settings")]
    /\ UNCHANGED <<files, unread>>

(* ... and if that fails, for whatever reason, there is none. *)
LookFails(p) ==
    /\ Onward(p, "look", "open tmp")
    /\ unread' = IF Exists("settings") THEN unread \cup {p} ELSE unread
    /\ UNCHANGED <<cur, files>>

OpenBak(p) ==
    /\ Onward(p, "open bak", "fill bak")
    /\ Create(p, "bak")
    /\ UNCHANGED <<cur, unread>>

FillBak(p) ==
    /\ Onward(p, "fill bak", "open tmp")
    /\ Fill(p, cur[p])
    /\ UNCHANGED <<cur, unread>>

OpenTmp(p) ==
    /\ Onward(p, "open tmp", "fill tmp")
    /\ Create(p, "tmp")
    /\ UNCHANGED <<cur, unread>>

FillTmp(p) ==
    /\ Onward(p, "fill tmp", "publish")
    /\ Fill(p, Whole(merged[p]))
    /\ UNCHANGED <<cur, unread>>

Publish(p) ==
    /\ At(p, "publish")
    /\ Rename("tmp", "settings")
    /\ installed' = installed \cup {request[p]}
    /\ End(p)

(* Another call fails, or the installer is killed. *)
Fails(p) ==
    /\ ~At(p, "idle")
    /\ Abandon(p)
    /\ End(p)
    /\ UNCHANGED installed

Next ==
    \E p \in Procs :
       \/ \E r \in Requests : Start(p, r)
       \/ Merge(p)
       \/ NothingToDo(p)
       \/ Declined(p)
       \/ Look(p)
       \/ LookFails(p)
       \/ OpenBak(p)
       \/ FillBak(p)
       \/ OpenTmp(p)
       \/ FillTmp(p)
       \/ Publish(p)
       \/ Fails(p)

Spec == Init /\ [][Next]_vars
-----------------------------------------------------------------------------
(* The settings in the file, none if it is missing or torn. *)
InFile == Contents("settings").value

(* However often and however much at once it is installed, no command is     *)
(* registered twice with a trigger.                                          *)
NeverTwice == \A doc \in InFile : Once(doc)

(* Settings that cannot be parsed are left as they are. *)
MalformedUntouched == first = Garbled => Contents("settings") = Garbled

(* As long as installs do not overlap, the settings are whole at every       *)
(* moment: with the keys there were, and, if their hooks are an object, with *)
(* each list, now perhaps with more entries, and with each other value under *)
(* a trigger of no machine installed since.  What is no list under a trigger *)
(* of an installed machine is replaced, and so are hooks that are no object. *)
UserSettingsSurvive ==
    alone => \A old \in first.value :
        \E doc \in InFile :
            /\ doc.keys = old.keys
            /\ old.object =>
                /\ \A t \in Triggers : IsPrefix(old.lists[t], doc.lists[t])
                /\ old.odd \ UNION {r.uses : r \in installed} \subseteq doc.odd

(* As long as installs do not overlap, a machine reported as installed has   *)
(* its entry under every trigger it uses, from then on.                      *)
InstalledStays ==
    alone => \A r \in installed : \A t \in r.uses :
                \E doc \in InFile : \E i \in DOMAIN doc.lists[t] : r.command \in doc.lists[t][i]

(* The contents of the settings file give way to others. *)
Replaced == Exists("settings") /\ Contents("settings")' # Contents("settings")

(* As long as installs do not overlap, what is replaced is in the backup,    *)
(* unless the installer has failed to read the file for the backup.          *)
ReadIsBackedUp ==
    [][ alone' /\ unread = {} /\ Replaced => Contents("bak") = Contents("settings") ]_vars
=============================================================================
