-------------------------------- MODULE Inbox --------------------------------
(***************************************************************************)
(* The local inbox: WriteInbox, called by hook processes for the messages  *)
(* of their Emit effects, and the adapter that is to collect them.  Each   *)
(* message is a file of its own under the directory of its target, written *)
(* under a temporary name and renamed; the name is the clock's reading and *)
(* a sequence number that every process starts from one.                   *)
(*                                                                         *)
(* A target is a path, [rooted, segments], since an author may write any   *)
(* string there.                                                           *)
(***************************************************************************)
EXTENDS Disk, Sequences, SequencesExt

CONSTANTS
    Procs,      \* the processes that run hooks, one hook after the other
    Paths,      \* the targets machines emit to
    Traffic,    \* bound: the messages sent
    LastTick    \* bound: the readings of the clock

Path == [rooted : BOOLEAN, segments : Seq(STRING)]

ASSUME InboxAssumption ==
    /\ Paths \subseteq Path
    /\ Traffic \in Nat
    /\ LastTick \in Nat

-----------------------------------------------------------------------------
(* filepath.Clean: empty and "." segments vanish, ".." takes the one before  *)
(* it along, unless there is none to take.                                   *)
Joined(rooted, done, s) ==
    IF s \in {"", "."} THEN done
    ELSE IF s # ".." THEN Append(done, s)
    ELSE IF done # <<>> /\ done[Len(done)] # ".." THEN SubSeq(done, 1, Len(done) - 1)
    ELSE IF rooted THEN done
    ELSE Append(done, s)

Clean(path) ==
    LET done[i \in 0 .. Len(path.segments)] ==
          IF i = 0 THEN <<>> ELSE Joined(path.rooted, done[i - 1], path.segments[i])
    IN  done[Len(path.segments)]

(* filepath.Base of the cleaned path. *)
Target(path) ==
    LET kept == Clean(path)
    IN  IF kept # <<>> THEN kept[Len(kept)] ELSE IF path.rooted THEN "/" ELSE "."

(* Faulty: the parent directory is not thought of. *)
AcceptsParent(target) == target \notin {".", "/"}

Accepted(target) == target \notin {".", "..", "/"}

Tmp(f) == [f EXCEPT !.tmp = TRUE]

VARIABLES
    clock,      \* the clock's reading, in its own resolution
    pc,         \* where each process is in WriteInbox
    msg,        \* the message it is writing
    name,       \* the file it is to be
    inboxSeq,   \* the last sequence number its present hook has drawn
    taken,      \* what the adapter has collected
    sent,       \* history: the messages sent so far, each its own number
    hooks,      \* history: the hooks each process has finished
    drawn       \* history: who drew which name for which message, and whether it was published

files   == <<dir, data, fd>>
senders == <<pc, msg, name, inboxSeq>>
vars    == <<clock, senders, files, taken, sent, hooks, drawn>>

NoFile == [to |-> "", tick |-> 0, seq |-> 0, tmp |-> FALSE]

Init ==
    /\ clock = 0
    /\ pc = [p \in Procs |-> "idle"]
    /\ msg = [p \in Procs |-> 0]
    /\ name = [p \in Procs |-> NoFile]
    /\ inboxSeq = [p \in Procs |-> 0]
    /\ dir = <<>>
    /\ data = <<>>
    /\ fd = [p \in Procs |-> 0]
    /\ taken = {}
    /\ sent = 0
    /\ hooks = [p \in Procs |-> 0]
    /\ drawn = {}

-----------------------------------------------------------------------------
Goto(p, place) == pc' = [pc EXCEPT ![p] = place]

(* Faulty: the number is not counted up. *)
NumberStuck(p) == 1

(* inboxSeq.Add(1). *)
Number(p) == inboxSeq[p] + 1

(* The target is checked, its directory made and the name drawn. *)
Draw(p, path) ==
    /\ pc[p] = "idle"
    /\ sent < Traffic
    /\ Accepted(Target(path))
    /\ LET f == [to |-> Target(path), tick |-> clock, seq |-> Number(p), tmp |-> FALSE]
       IN  /\ name' = [name EXCEPT ![p] = f]
           /\ drawn' = drawn \cup {[file |-> f, by |-> <<p, hooks[p]>>, msg |-> sent + 1,
                                    published |-> FALSE]}
    /\ inboxSeq' = [inboxSeq EXCEPT ![p] = @ + 1]
    /\ sent' = sent + 1
    /\ msg' = [msg EXCEPT ![p] = sent + 1]
    /\ Goto(p, "open")
    /\ UNCHANGED <<clock, files, taken, hooks>>

(* Faulty: there is no temporary name. *)
OpenInPlace(p) ==
    /\ pc[p] = "open"
    /\ Create(p, name[p])
    /\ Goto(p, "write")
    /\ UNCHANGED <<clock, msg, name, inboxSeq, taken, sent, hooks, drawn>>

Open(p) ==
    /\ pc[p] = "open"
    /\ Create(p, Tmp(name[p]))
    /\ Goto(p, "write")
    /\ UNCHANGED <<clock, msg, name, inboxSeq, taken, sent, hooks, drawn>>

Write(p) ==
    /\ pc[p] = "write"
    /\ Fill(p, Whole(msg[p]))
    /\ Goto(p, "publish")
    /\ UNCHANGED <<clock, msg, name, inboxSeq, taken, sent, hooks, drawn>>

Publish(p) ==
    /\ pc[p] = "publish"
    /\ Rename(Tmp(name[p]), name[p])
    /\ drawn' = {[d EXCEPT !.published = @ \/ d.msg = msg[p]] : d \in drawn}
    /\ Goto(p, "idle")
    /\ UNCHANGED <<clock, msg, name, inboxSeq, taken, sent, hooks>>

(* An error ends the delivery of this message; the next one is tried. *)
Fails(p) ==
    /\ pc[p] # "idle"
    /\ Abandon(p)
    /\ Goto(p, "idle")
    /\ UNCHANGED <<clock, msg, name, inboxSeq, taken, sent, hooks, drawn>>

(* A hook ends or is killed, and the process runs another. *)
NextHook(p) ==
    /\ inboxSeq[p] > 0
    /\ Abandon(p)
    /\ Goto(p, "idle")
    /\ inboxSeq' = [inboxSeq EXCEPT ![p] = 0]
    /\ hooks' = [hooks EXCEPT ![p] = @ + 1]
    /\ UNCHANGED <<clock, msg, name, taken, sent, drawn>>

Tick ==
    /\ clock < LastTick
    /\ clock' = clock + 1
    /\ UNCHANGED <<senders, files, taken, sent, hooks, drawn>>

(* The adapter takes a message file and removes it. *)
Collect(f) ==
    /\ ~f.tmp
    /\ taken' = taken \cup {[file |-> f, contents |-> Contents(f)]}
    /\ Unlink(f)
    /\ UNCHANGED <<clock, senders, sent, hooks, drawn>>

Next ==
    \/ \E p \in Procs :
          \/ \E path \in Paths : Draw(p, path)
          \/ Open(p)
          \/ Write(p)
          \/ Publish(p)
          \/ Fails(p)
          \/ NextHook(p)
    \/ Tick
    \/ \E f \in DOMAIN dir : Collect(f)

Spec == Init /\ [][Next]_vars
-----------------------------------------------------------------------------
(* Two hooks read the same tick and drew the same number. *)
Shared(f) == \E d, e \in drawn : d.file = f /\ e.file = f /\ d.by # e.by

(* No message is written anywhere but into a directory of the inbox: not     *)
(* into its parent, nor into the inbox itself, whatever path the target is.  *)
Confined ==
    \A f \in DOMAIN dir : f.to \notin {"", ".", "..", "/"}

(* What the adapter finds under a final name is a whole message, though      *)
(* hooks fail and die half way, unless two hooks drew that name.             *)
OnlyWholeMessages ==
    /\ \A f \in DOMAIN dir : ~f.tmp /\ ~Shared(f) => Contents(f).kind = "whole"
    /\ \A t \in taken : ~Shared(t.file) => t.contents.kind = "whole"

(* Messages do not replace one another, even in one tick of the clock:       *)
(* what was published is there until it is collected.  Two hooks of the same *)
(* tick that drew the same number are the exception.                         *)
NoneReplaced ==
    \A d \in drawn : d.published /\ ~Shared(d.file) =>
        \/ Contents(d.file) = Whole(d.msg)
        \/ [file |-> d.file, contents |-> Whole(d.msg)] \in taken
=============================================================================
