----------------------------- MODULE InboxProofs -----------------------------
(***************************************************************************)
(* Whatever the targets are, however many processes write to the inbox and *)
(* wherever they fail or die: no message leaves the directories of the     *)
(* inbox, and where no two hooks have drawn one name, the adapter finds    *)
(* whole messages and each published one until it is collected.            *)
(***************************************************************************)
EXTENDS Inbox, DiskProofs, Induction, SequenceTheorems

(* A segment that filepath.Clean keeps. *)
Segment == STRING \ {"", "."}

LEMMA JoinedType ==
  ASSUME NEW rooted, NEW done \in Seq(Segment), NEW s \in STRING
  PROVE  Joined(rooted, done, s) \in Seq(Segment)
<1>1. s \notin {"", "."} => Append(done, s) \in Seq(Segment)
  <2>1. s \notin {"", "."} => s \in Segment
    BY Zenon DEF Segment
  <2>2. \A kept \in Segment : Append(done, kept) \in Seq(Segment)
    OBVIOUS
  <2> QED
    BY <2>1, <2>2, Zenon
<1>2. done # <<>> => SubSeq(done, 1, Len(done) - 1) \in Seq(Segment)
  <2> SUFFICES ASSUME done # <<>> PROVE SubSeq(done, 1, Len(done) - 1) \in Seq(Segment)
    OBVIOUS
  <2>1. Len(done) \in Nat /\ Len(done) # 0
    OBVIOUS
  <2>2. \A i \in 1 .. Len(done) - 1 : done[i] \in Segment
    BY <2>1
  <2> QED
    BY <2>1, <2>2
<1> QED
  BY <1>1, <1>2 DEF Joined

LEMMA CleanType ==
  ASSUME NEW path \in Path
  PROVE  Clean(path) \in Seq(Segment)
<1> DEFINE segments == path.segments
           n == Len(segments)
           X == Seq(Segment)
           Put(i, was) == Joined(path.rooted, was, segments[i])
           step == [k \in (1 .. n) \X X |-> Put(k[1], k[2])]
           done[i \in 0 .. n] == IF i = 0 THEN <<>> ELSE Put(i, done[i - 1])
<1>1. segments \in Seq(STRING) /\ n \in Nat /\ DOMAIN segments = 1 .. n
  BY DEF Path
<1>2. \A i \in 1 .. n, was \in X : Put(i, was) \in X
  <2> SUFFICES ASSUME NEW i \in 1 .. n, NEW was \in X PROVE Put(i, was) \in X
    OBVIOUS
  <2>1. segments[i] \in STRING
    BY <1>1
  <2> HIDE DEF segments
  <2> QED
    BY <2>1, JoinedType
<1>3. step \in [(1 .. n) \X X -> X] /\ <<>> \in X
  <2> HIDE DEF Put, n, segments
  <2> QED
    BY <1>2
<1>4. PICK f : Loop(X, <<>>, step, n, f)
  <2> HIDE DEF step, n, segments, X
  <2> QED
    BY <1>1, <1>3, LoopExists
<1>5. f \in [0 .. n -> X] /\ f = [i \in 0 .. n |-> IF i = 0 THEN <<>> ELSE Put(i, f[i - 1])]
  <2>1. f \in [0 .. n -> X] /\ f[0] = <<>>
    BY <1>4 DEF Loop
  <2>2. ASSUME NEW i \in 1 .. n PROVE f[i] = Put(i, f[i - 1])
    <3>1. i - 1 \in 0 .. n
      BY <1>1
    <3>2. <<i, f[i - 1]>> \in (1 .. n) \X X
      <4> HIDE DEF n, X
      <4> QED
        BY <2>1, <3>1
    <3>3. f[i] = step[<<i, f[i - 1]>>]
      BY <1>4 DEF Loop
    <3> HIDE DEF Put
    <3> QED
      BY <3>2, <3>3
  <2> HIDE DEF n, Put, X
  <2>3. f = [i \in 0 .. n |-> f[i]]
    BY <2>1
  <2>4. ASSUME NEW i \in 0 .. n PROVE f[i] = IF i = 0 THEN <<>> ELSE Put(i, f[i - 1])
    BY <1>1, <2>1, <2>2
  <2> QED
    BY <2>1, <2>3, <2>4, Zenon
<1>6. done = [i \in 0 .. n |-> IF i = 0 THEN <<>> ELSE Put(i, done[i - 1])]
  <2> HIDE DEF n, Put
  <2> QED
    BY <1>5
<1>7. Clean(path) = done[n]
  BY DEF Clean
<1> HIDE DEF done
<1> DEFINE T == {i \in Nat : i <= n => done[i] \in X}
<1>8. 0 \in T
  <2> HIDE DEF n, Put, X
  <2> QED
    BY <1>1, <1>3, <1>6
<1>9. \A i \in T : i + 1 \in T
  <2> SUFFICES ASSUME NEW i \in T, i + 1 <= n PROVE done[i + 1] \in X
    OBVIOUS
  <2> HIDE DEF n, Put, X
  <2>1. i \in Nat /\ i <= n /\ i + 1 \in 1 .. n /\ (i + 1) - 1 = i /\ i + 1 # 0
    BY <1>1
  <2>2. done[i] \in X
    BY <2>1
  <2>3. done[i + 1] = Put(i + 1, done[i])
    BY <1>6, <2>1
  <2> QED
    BY <1>2, <2>1, <2>2, <2>3
<1>10. T = Nat
  <2> HIDE DEF T
  <2> QED
    BY <1>8, <1>9, SetInduction DEF T
<1> QED
  BY <1>1, <1>7, <1>10

(* Whatever path a target is, its directory has a name. *)
LEMMA TargetNamed == ASSUME NEW path \in Paths PROVE Target(path) # ""
<1> DEFINE kept == Clean(path)
<1>1. kept \in Seq(Segment)
  BY CleanType, InboxAssumption DEF InboxAssumption
<1> HIDE DEF kept
<1>2. kept # <<>> => kept[Len(kept)] \in Segment
  BY <1>1
<1>3. \A s \in Segment : s # ""
  BY Zenon DEF Segment
<1>4. kept # <<>> => Target(path) # ""
  BY <1>2, <1>3 DEF Target, kept
<1>5. "/" # "" /\ "." # ""
  OBVIOUS
<1>6. kept = <<>> => Target(path) = IF path.rooted THEN "/" ELSE "."
  BY DEF Target, kept
<1>7. kept = <<>> => Target(path) # ""
  BY <1>5, <1>6, Zenon
<1> QED
  BY <1>4, <1>7

-----------------------------------------------------------------------------
(* The names of message files, and the records of who drew them.             *)
FinalName == [to   : {Target(path) : path \in Paths},
              tick : Nat,
              seq  : Nat,
              tmp  : {FALSE}]
Draws     == [file : FinalName, by : Procs \X Nat, msg : Nat, published : BOOLEAN]

Drew(d, p) == d.file = name[p] /\ d.by = <<p, hooks[p]>> /\ d.msg = msg[p] /\ ~d.published

Collected(d) == [file |-> d.file, contents |-> Whole(d.msg)] \in taken

(* Each message has a number of its own, and no hook draws a name twice.     *)
DrawInv ==
    /\ clock \in Nat /\ sent \in Nat
    /\ pc \in [Procs -> {"idle", "open", "write", "publish"}]
    /\ DOMAIN name = Procs /\ DOMAIN msg = Procs
    /\ inboxSeq \in [Procs -> Nat] /\ hooks \in [Procs -> Nat]
    /\ drawn \subseteq Draws
    /\ \A d \in drawn :
          /\ Accepted(d.file.to) /\ d.msg <= sent
          /\ \A p \in Procs, h \in Nat : d.by = <<p, h>> =>
                h <= hooks[p] /\ (h = hooks[p] => d.file.seq <= inboxSeq[p])
    /\ \A d, e \in drawn : d.msg = e.msg \/ (d.by = e.by /\ d.file = e.file) => d = e
    /\ \A p \in Procs : pc[p] # "idle" => \E d \in drawn : Drew(d, p)

(* Each file was drawn by someone; who writes has a file open that goes under *)
(* his name.                                                                 *)
DiskInv ==
    /\ DiskOK /\ DOMAIN fd = Procs
    /\ \A p \in Procs : fd[p] # 0 <=> pc[p] = "write"
    /\ \A f \in DOMAIN dir : \E d \in drawn : f \in {d.file, Tmp(d.file)}
    /\ \A p \in Procs, f \in DOMAIN dir : fd[p] # 0 /\ dir[f] = fd[p] =>
          f \in {name[p], Tmp(name[p])}

(* Where a name is nobody else's, what is under it is what its owner wrote.  *)
ReadInv ==
    /\ \A p \in Procs : ~Shared(name[p]) =>
          /\ pc[p] = "write" => Opened(p, Tmp(name[p]))
          /\ pc[p] = "publish" => Contents(Tmp(name[p])) = Whole(msg[p])
    /\ \A d \in drawn : ~Shared(d.file) =>
          /\ Exists(d.file) => Contents(d.file) = Whole(d.msg)
          /\ d.published => Contents(d.file) = Whole(d.msg) \/ Collected(d)
    /\ \A t \in taken : ~Shared(t.file) => t.contents.kind = "whole"

InboxInv == DrawInv /\ DiskInv /\ ReadInv

-----------------------------------------------------------------------------
LEMMA TmpFacts ==
  ASSUME NEW f \in FinalName, NEW g \in FinalName
  PROVE  /\ Tmp(f).tmp = TRUE /\ ~f.tmp /\ Tmp(f).to = f.to
         /\ Tmp(f) # g
         /\ Tmp(f) = Tmp(g) => f = g
<1>1. ASSUME NEW h \in FinalName
      PROVE  /\ Tmp(h).to = h.to /\ Tmp(h).tick = h.tick /\ Tmp(h).seq = h.seq
             /\ Tmp(h).tmp = TRUE /\ h.tmp = FALSE
             /\ h = [to |-> h.to, tick |-> h.tick, seq |-> h.seq, tmp |-> FALSE]
  BY DEF FinalName, Tmp
<1>2. Tmp(f).tmp = TRUE /\ ~f.tmp /\ Tmp(f).to = f.to
  BY <1>1
<1>3. Tmp(f) # g
  BY <1>1
<1>4. ASSUME Tmp(f) = Tmp(g) PROVE f = g
  <2>1. f.to = g.to /\ f.tick = g.tick /\ f.seq = g.seq
    BY <1>1, <1>4
  <2> QED
    BY <1>1, <2>1
<1> QED
  BY <1>2, <1>3, <1>4

(* A name of one's own was drawn once. *)
LEMMA SoleDraw ==
  ASSUME DrawInv, NEW d \in drawn, NEW e \in drawn, d.file = e.file, ~Shared(d.file)
  PROVE  d = e
<1>1. d.by = e.by
  BY DEF Shared
<1> QED
  BY <1>1 DEF DrawInv

(* Two who are at work on one name share it. *)
LEMMA OwnName ==
  ASSUME DrawInv, NEW p \in Procs, NEW q \in Procs, pc[p] # "idle", pc[q] # "idle",
         name[p] = name[q], ~Shared(name[p])
  PROVE  p = q
<1>1. PICK d \in drawn : Drew(d, p)
  BY DEF DrawInv
<1>2. PICK e \in drawn : Drew(e, q)
  BY DEF DrawInv
<1>3. d = e
  BY <1>1, <1>2, SoleDraw DEF Drew
<1> QED
  BY <1>1, <1>2, <1>3 DEF Drew

LEMMA DrawInit == Init => DrawInv
BY InboxAssumption DEF Init, DrawInv

(* Who drew what stays known, and once it is published it stays published. *)
LEMMA DrawnStays ==
  ASSUME DrawInv, [Next]_vars
  PROVE  /\ \A d \in drawn : \E e \in drawn' :
               e.file = d.file /\ e.by = d.by /\ e.msg = d.msg /\ (d.published => e.published)
         /\ \A f : Shared(f) => Shared(f)'
<1>1. \A d \in drawn : \E e \in drawn' :
         e.file = d.file /\ e.by = d.by /\ e.msg = d.msg /\ (d.published => e.published)
  <2>1. CASE drawn \subseteq drawn'
    BY <2>1
  <2>2. ASSUME NEW p \in Procs, Publish(p), NEW d \in drawn
        PROVE  \E e \in drawn' :
                  e.file = d.file /\ e.by = d.by /\ e.msg = d.msg /\ (d.published => e.published)
    <3> DEFINE e == [d EXCEPT !.published = @ \/ d.msg = msg[p]]
    <3>1. e \in drawn'
      BY <2>2 DEF Publish
    <3>2. e.file = d.file /\ e.by = d.by /\ e.msg = d.msg /\ (d.published => e.published)
      BY DEF DrawInv, Draws
    <3> QED
      BY <3>1, <3>2
  <2>3. drawn \subseteq drawn' \/ \E p \in Procs : Publish(p)
    BY DEF Next, vars, Draw, Open, Write, Fails, NextHook, Tick, Collect
  <2> QED
    BY <2>1, <2>2, <2>3
<1>2. ASSUME NEW f, Shared(f) PROVE Shared(f)'
  <2>1. PICK d, e \in drawn : d.file = f /\ e.file = f /\ d.by # e.by
    BY <1>2 DEF Shared
  <2>2. PICK d2 \in drawn' : d2.file = d.file /\ d2.by = d.by
    BY <1>1
  <2>3. PICK e2 \in drawn' : e2.file = e.file /\ e2.by = e.by
    BY <1>1
  <2> QED
    BY <2>1, <2>2, <2>3 DEF Shared
<1> QED
  BY <1>1, <1>2

(* The process p goes on with the message it has drawn, or gives it up. *)
LEMMA GoesOn ==
  ASSUME DrawInv, NEW p \in Procs, NEW place \in {"idle", "open", "write", "publish"},
         pc[p] # "idle" \/ place = "idle", Goto(p, place),
         UNCHANGED <<clock, msg, name, inboxSeq, sent, hooks, drawn>>
  PROVE  DrawInv'
<1>1. pc' \in [Procs -> {"idle", "open", "write", "publish"}]
  BY DEF DrawInv, Goto
<1>2. \A q \in Procs : pc'[q] # "idle" => pc[q] # "idle"
  BY DEF DrawInv, Goto
<1> QED
  BY <1>1, <1>2 DEF DrawInv, Drew

LEMMA DrawKeeps ==
  ASSUME DrawInv, NEW p \in Procs, NEW path \in Paths, Draw(p, path)
  PROVE  DrawInv'
<1> DEFINE f == [to |-> Target(path), tick |-> clock, seq |-> inboxSeq[p] + 1, tmp |-> FALSE]
           new == [file |-> f, by |-> <<p, hooks[p]>>, msg |-> sent + 1, published |-> FALSE]
<1>1. /\ drawn' = drawn \cup {new} /\ name' = [name EXCEPT ![p] = f]
      /\ inboxSeq' = [inboxSeq EXCEPT ![p] = @ + 1] /\ sent' = sent + 1
      /\ msg' = [msg EXCEPT ![p] = sent + 1] /\ pc' = [pc EXCEPT ![p] = "open"]
      /\ clock' = clock /\ hooks' = hooks /\ Accepted(Target(path))
  BY DEF Draw, Goto, Number
<1>2. f \in FinalName /\ new \in Draws
  BY DEF DrawInv, FinalName, Draws
<1>3. f.to = Target(path) /\ f.seq = inboxSeq[p] + 1
  OBVIOUS
<1>4. new.file = f /\ new.by = <<p, hooks[p]>> /\ new.msg = sent + 1 /\ new.published = FALSE
  OBVIOUS
<1> HIDE DEF f, new
<1>5. clock' \in Nat /\ sent' \in Nat
  BY <1>1 DEF DrawInv
<1>6. /\ pc' \in [Procs -> {"idle", "open", "write", "publish"}]
      /\ DOMAIN name' = Procs /\ DOMAIN msg' = Procs
  BY <1>1 DEF DrawInv
<1>7. inboxSeq' \in [Procs -> Nat] /\ hooks' \in [Procs -> Nat]
  BY <1>1 DEF DrawInv
<1>8. drawn' \subseteq Draws
  BY <1>1, <1>2 DEF DrawInv
<1>9. ASSUME NEW d \in drawn'
      PROVE  /\ Accepted(d.file.to) /\ d.msg <= sent'
             /\ \A q \in Procs, h \in Nat : d.by = <<q, h>> =>
                   h <= hooks'[q] /\ (h = hooks'[q] => d.file.seq <= inboxSeq'[q])
  <2>1. CASE d = new
    BY <1>1, <1>3, <1>4, <1>5, <1>7, <2>1 DEF DrawInv
  <2>2. CASE d \in drawn
    <3>1. d.msg \in Nat /\ d.file.seq \in Nat
      BY <2>2 DEF DrawInv, Draws, FinalName
    <3>2. \A q \in Procs : inboxSeq[q] <= inboxSeq'[q] /\ inboxSeq[q] \in Nat /\ inboxSeq'[q] \in Nat
      BY <1>1 DEF DrawInv
    <3> QED
      BY <1>1, <2>2, <3>1, <3>2 DEF DrawInv
  <2> QED
    BY <1>1, <2>1, <2>2
<1>10. ASSUME NEW d \in drawn PROVE d.msg # new.msg /\ ~(d.by = new.by /\ d.file = new.file)
  <2>1. d.msg \in Nat /\ d.msg <= sent /\ sent \in Nat
    BY DEF DrawInv, Draws
  <2>2. ASSUME d.by = new.by PROVE d.file.seq <= inboxSeq[p] /\ d.file.seq \in Nat /\ inboxSeq[p] \in Nat
    BY <1>4, <2>2 DEF DrawInv, Draws, FinalName
  <2> QED
    BY <1>3, <1>4, <2>1, <2>2
<1>11. \A d, e \in drawn' : d.msg = e.msg \/ (d.by = e.by /\ d.file = e.file) => d = e
  BY <1>1, <1>10 DEF DrawInv
<1>12. ASSUME NEW q \in Procs, pc'[q] # "idle" PROVE \E d \in drawn' : Drew(d, q)'
  <2>1. CASE q = p
    BY <1>1, <1>4, <2>1 DEF Drew, DrawInv
  <2>2. CASE q # p
    <3>1. PICK d \in drawn : Drew(d, q)
      BY <1>1, <1>12, <2>2 DEF DrawInv
    <3> QED
      BY <1>1, <2>2, <3>1 DEF Drew, DrawInv
  <2> QED
    BY <2>1, <2>2
<1> QED
  BY <1>5, <1>6, <1>7, <1>8, <1>9, <1>11, <1>12 DEF DrawInv

LEMMA PublishDrawn == ASSUME DrawInv, NEW p \in Procs, Publish(p) PROVE DrawInv'
<1> DEFINE Now(d) == [d EXCEPT !.published = @ \/ d.msg = msg[p]]
<1>1. /\ drawn' = {Now(d) : d \in drawn} /\ pc[p] = "publish" /\ pc' = [pc EXCEPT ![p] = "idle"]
      /\ UNCHANGED <<clock, msg, name, inboxSeq, sent, hooks>>
  BY DEF Publish, Goto
<1>2. \A d \in drawn : /\ Now(d) \in Draws
                       /\ Now(d).file = d.file /\ Now(d).by = d.by /\ Now(d).msg = d.msg
                       /\ d.msg # msg[p] => Now(d) = d
  BY DEF DrawInv, Draws
<1> HIDE DEF Now
<1>3. \A e \in drawn' : \E d \in drawn : e = Now(d)
  BY <1>1
<1>4. drawn' \subseteq Draws
  BY <1>2, <1>3
<1>5. \A d \in drawn' :
         /\ Accepted(d.file.to) /\ d.msg <= sent'
         /\ \A q \in Procs, h \in Nat : d.by = <<q, h>> =>
               h <= hooks'[q] /\ (h = hooks'[q] => d.file.seq <= inboxSeq'[q])
  BY <1>1, <1>2, <1>3 DEF DrawInv
<1>6. \A d, e \in drawn' : d.msg = e.msg \/ (d.by = e.by /\ d.file = e.file) => d = e
  BY <1>1, <1>2, <1>3 DEF DrawInv
<1>7. ASSUME NEW q \in Procs, pc'[q] # "idle" PROVE \E d \in drawn' : Drew(d, q)'
  <2>1. q # p /\ pc[q] # "idle"
    BY <1>1, <1>7 DEF DrawInv
  <2>2. PICK d \in drawn : Drew(d, q)
    BY <2>1 DEF DrawInv
  <2>3. PICK e \in drawn : Drew(e, p)
    BY <1>1 DEF DrawInv
  <2>4. d.msg # msg[p]
    BY <2>1, <2>2, <2>3 DEF Drew, DrawInv
  <2>5. d \in drawn'
    BY <1>1, <1>2, <2>4
  <2> QED
    BY <1>1, <2>2, <2>5 DEF Drew
<1> QED
  BY <1>1, <1>4, <1>5, <1>6, <1>7 DEF DrawInv

LEMMA NextHookDrawn == ASSUME DrawInv, NEW p \in Procs, NextHook(p) PROVE DrawInv'
<1>1. /\ pc' = [pc EXCEPT ![p] = "idle"] /\ inboxSeq' = [inboxSeq EXCEPT ![p] = 0]
      /\ hooks' = [hooks EXCEPT ![p] = @ + 1]
      /\ UNCHANGED <<clock, msg, name, sent, drawn>>
  BY DEF NextHook, Goto
<1>2. /\ pc' \in [Procs -> {"idle", "open", "write", "publish"}]
      /\ inboxSeq' \in [Procs -> Nat] /\ hooks' \in [Procs -> Nat]
  BY <1>1 DEF DrawInv
<1>3. ASSUME NEW d \in drawn, NEW q \in Procs, NEW h \in Nat, d.by = <<q, h>>
      PROVE  h <= hooks'[q] /\ (h = hooks'[q] => d.file.seq <= inboxSeq'[q])
  <2>1. /\ h <= hooks[q] /\ (h = hooks[q] => d.file.seq <= inboxSeq[q])
        /\ hooks[q] \in Nat
    BY <1>3 DEF DrawInv
  <2>2. CASE q = p
    <3>1. hooks'[q] = hooks[q] + 1
      BY <1>1, <2>2 DEF DrawInv
    <3> QED
      BY <2>1, <3>1
  <2>3. CASE q # p
    BY <1>1, <2>1, <2>3 DEF DrawInv
  <2> QED
    BY <2>2, <2>3
<1>4. ASSUME NEW q \in Procs, pc'[q] # "idle" PROVE \E d \in drawn' : Drew(d, q)'
  <2>1. q # p /\ pc[q] # "idle"
    BY <1>1, <1>4 DEF DrawInv
  <2>2. PICK d \in drawn : Drew(d, q)
    BY <2>1 DEF DrawInv
  <2> QED
    BY <1>1, <2>1, <2>2 DEF Drew, DrawInv
<1> QED
  BY <1>1, <1>2, <1>3, <1>4 DEF DrawInv

LEMMA DrawStep == DrawInv /\ [Next]_vars => DrawInv'
<1> SUFFICES ASSUME DrawInv, [Next]_vars PROVE DrawInv'
  OBVIOUS
<1>1. CASE UNCHANGED vars
  BY <1>1 DEF vars, senders, DrawInv, Drew
<1>2. ASSUME NEW p \in Procs, Open(p) \/ Write(p) \/ Fails(p) PROVE DrawInv'
  <2>1. /\ UNCHANGED <<clock, msg, name, inboxSeq, sent, hooks, drawn>>
        /\ Goto(p, "write") \/ Goto(p, "publish") \/ Goto(p, "idle")
    BY <1>2 DEF Open, Write, Fails
  <2>2. pc[p] # "idle"
    BY <1>2 DEF Open, Write, Fails
  <2>3. PICK place \in {"idle", "open", "write", "publish"} : Goto(p, place)
    BY <2>1
  <2> QED
    BY <2>1, <2>2, <2>3, GoesOn
<1>3. CASE Tick
  <2>1. clock' = clock + 1 /\ clock' \in Nat
    BY <1>3 DEF Tick, DrawInv
  <2> QED
    BY <1>3, <2>1 DEF Tick, senders, DrawInv, Drew
<1>4. ASSUME NEW f, Collect(f) PROVE DrawInv'
  BY <1>4 DEF Collect, senders, DrawInv, Drew
<1>5. ASSUME NEW p \in Procs, (\E path \in Paths : Draw(p, path)) \/ Publish(p) \/ NextHook(p)
      PROVE  DrawInv'
  BY <1>5, DrawKeeps, PublishDrawn, NextHookDrawn
<1> QED
  BY <1>1, <1>2, <1>3, <1>4, <1>5 DEF Next

-----------------------------------------------------------------------------
LEMMA NameDrawn ==
  ASSUME DrawInv, NEW p \in Procs, pc[p] # "idle"
  PROVE  name[p] \in FinalName /\ \E d \in drawn : Drew(d, p)
<1>1. PICK d \in drawn : Drew(d, p)
  BY DEF DrawInv
<1> QED
  BY <1>1 DEF Drew, DrawInv, Draws

LEMMA FileDrawn ==
  ASSUME DrawInv, DiskInv, NEW f \in DOMAIN dir
  PROVE  \E d \in drawn : d.file \in FinalName /\ f = IF f.tmp THEN Tmp(d.file) ELSE d.file
<1>1. PICK d \in drawn : f \in {d.file, Tmp(d.file)}
  BY DEF DiskInv
<1>2. d.file \in FinalName
  BY DEF DrawInv, Draws
<1> QED
  BY <1>1, <1>2, TmpFacts

LEMMA DiskInit == Init => DiskInv
<1> SUFFICES ASSUME Init PROVE DiskInv
  OBVIOUS
<1>1. DOMAIN dir = {} /\ DOMAIN data = {}
  BY DEF Init
<1>2. DOMAIN fd = Procs /\ \A p \in Procs : fd[p] = 0 /\ pc[p] # "write"
  BY DEF Init
<1> QED
  BY <1>1, <1>2, FS_EmptySet DEF DiskInv, DiskOK

LEMMA DiskStep == DrawInv /\ DiskInv /\ [Next]_vars => DiskInv'
<1> SUFFICES ASSUME DrawInv, DiskInv, [Next]_vars PROVE DiskInv'
  OBVIOUS
<1>1. \A f : (\E d \in drawn : f \in {d.file, Tmp(d.file)}) => \E d \in drawn' : f \in {d.file, Tmp(d.file)}
  BY DrawnStays
<1>2. /\ DiskOK /\ DOMAIN fd = Procs /\ DOMAIN pc = Procs /\ DOMAIN name = Procs
      /\ \A p \in Procs : fd[p] # 0 <=> pc[p] = "write"
      /\ \A f \in DOMAIN dir : \E d \in drawn : f \in {d.file, Tmp(d.file)}
      /\ \A p \in Procs, f \in DOMAIN dir : fd[p] # 0 /\ dir[f] = fd[p] =>
            f \in {name[p], Tmp(name[p])}
  BY DEF DiskInv, DrawInv
<1>3. CASE UNCHANGED <<files, pc, name>>
  <2>1. dir' = dir /\ data' = data /\ fd' = fd /\ pc' = pc /\ name' = name
    BY <1>3 DEF files
  <2>2. DiskOK'
    BY <1>2, <2>1 DEF DiskOK
  <2> QED
    BY <1>1, <1>2, <2>1, <2>2 DEF DiskInv
<1>4. ASSUME NEW p \in Procs, NEW path \in Paths, Draw(p, path) PROVE DiskInv'
  <2>1. /\ dir' = dir /\ data' = data /\ fd' = fd /\ pc[p] = "idle"
        /\ pc' = [pc EXCEPT ![p] = "open"]
        /\ \A q \in Procs \ {p} : name'[q] = name[q]
    BY <1>2, <1>4 DEF Draw, Goto, files
  <2>2. DiskOK'
    BY <1>2, <2>1 DEF DiskOK
  <2> QED
    BY <1>1, <1>2, <2>1, <2>2 DEF DiskInv
<1>5. ASSUME NEW p \in Procs, Open(p) PROVE DiskInv'
  <2>1. PICK g : g = Tmp(name[p])
    OBVIOUS
  <2>2. /\ pc[p] = "open" /\ Create(p, g) /\ pc' = [pc EXCEPT ![p] = "write"] /\ name' = name
    BY <1>5, <2>1 DEF Open, Goto, Create
  <2>3. DiskOK /\ Create(p, g)
    BY <1>2, <2>2
  <2>11. DiskOK'
    BY <2>3, CreateEffect
  <2>12. DOMAIN dir' = DOMAIN dir \cup {g} /\ dir'[g] # 0 /\ fd' = [fd EXCEPT ![p] = dir'[g]]
    BY <2>3, CreateEffect
  <2>9. g \in DOMAIN dir => dir'[g] = dir[g]
    BY <2>3, CreateEffect
  <2>10. g \notin DOMAIN dir => dir'[g] \notin DOMAIN data
    BY <2>3, CreateEffect
  <2>4. \A f \in DOMAIN dir \ {g} : dir'[f] = dir[f]
    BY <2>3, CreateEffect
  <2>5. PICK d \in drawn : Drew(d, p)
    BY <2>2, NameDrawn
  <2>6. \A f \in DOMAIN dir' : \E e \in drawn' : f \in {e.file, Tmp(e.file)}
    BY <1>1, <1>2, <2>1, <2>11, <2>12, <2>5 DEF Drew
  <2>7. \A q \in Procs : fd'[q] # 0 <=> pc'[q] = "write"
    BY <1>2, <2>2, <2>11, <2>12
  <2>8. ASSUME NEW q \in Procs, NEW f \in DOMAIN dir', fd'[q] # 0, dir'[f] = fd'[q]
        PROVE  f \in {name[q], Tmp(name[q])}
    <3>1. CASE q = p
      <4>1. dir'[f] = dir'[g]
        BY <1>2, <2>11, <2>12, <2>8, <3>1
      <4>2. f = g
        BY <2>11, <2>12, <2>8, <4>1 DEF DiskOK
      <4> QED
        BY <2>1, <3>1, <4>2
    <3>2. CASE q # p
      <4>1. fd'[q] = fd[q] /\ fd[q] \in DOMAIN data
        BY <1>2, <2>11, <2>12, <2>8, <3>2 DEF DiskOK
      <4>2. f \in DOMAIN dir /\ dir[f] = fd[q]
        BY <2>11, <2>12, <2>4, <2>8, <2>9, <2>10, <4>1
      <4> QED
        BY <1>2, <2>8, <4>1, <4>2
    <3> QED
      BY <3>1, <3>2
  <2> QED
    BY <1>2, <2>2, <2>11, <2>12, <2>6, <2>7, <2>8 DEF DiskInv
<1>6. ASSUME NEW p \in Procs, NEW place, place # "write",
             dir' = dir, DiskOK', fd' = [fd EXCEPT ![p] = 0], pc' = [pc EXCEPT ![p] = place],
             name' = name
      PROVE  DiskInv'
  BY <1>1, <1>2, <1>6 DEF DiskInv
<1>7. ASSUME NEW p \in Procs, Write(p) PROVE DiskInv'
  <2>1. PICK c : c = Whole(msg[p])
    OBVIOUS
  <2>2. /\ pc[p] = "write" /\ Fill(p, c) /\ pc' = [pc EXCEPT ![p] = "publish"] /\ name' = name
    BY <1>7, <2>1 DEF Write, Goto, Fill
  <2>3. DiskOK' /\ dir' = dir /\ fd' = [fd EXCEPT ![p] = 0]
    BY <1>2, <2>2, FillEffect
  <2> QED
    BY <1>6, <2>2, <2>3
<1>8. ASSUME NEW p \in Procs, Fails(p) \/ NextHook(p) PROVE DiskInv'
  <2>1. Abandon(p) /\ pc' = [pc EXCEPT ![p] = "idle"] /\ name' = name
    BY <1>8 DEF Fails, NextHook, Goto
  <2>2. DiskOK' /\ dir' = dir /\ fd' = [fd EXCEPT ![p] = 0]
    BY <1>2, <2>1, AbandonEffect
  <2> QED
    BY <1>6, <2>1, <2>2
<1>9. ASSUME NEW p \in Procs, Publish(p) PROVE DiskInv'
  <2>1. PICK f, g : f = name[p] /\ g = Tmp(name[p])
    OBVIOUS
  <2>2. /\ pc[p] = "publish" /\ Rename(g, f) /\ pc' = [pc EXCEPT ![p] = "idle"] /\ name' = name
    BY <1>9, <2>1 DEF Publish, Goto, Rename
  <2>3. f \in FinalName /\ g # f
    BY <2>1, <2>2, NameDrawn, TmpFacts
  <2>4. /\ DiskOK' /\ fd' = fd
        /\ g \in DOMAIN dir /\ DOMAIN dir' = (DOMAIN dir \ {g}) \cup {f}
        /\ dir'[f] = dir[g]
    BY <1>2, <2>2, <2>3, RenameEffect
  <2>9. \A other \in DOMAIN dir \ {g, f} : dir'[other] = dir[other]
    BY <1>2, <2>2, <2>3, RenameReads DEF Unread, Exists
  <2>5. PICK d \in drawn : Drew(d, p)
    BY <2>2, NameDrawn
  <2>6. \A h \in DOMAIN dir' : \E e \in drawn' : h \in {e.file, Tmp(e.file)}
    BY <1>1, <1>2, <2>1, <2>4, <2>5 DEF Drew
  <2>7. \A q \in Procs : fd'[q] # 0 <=> pc'[q] = "write"
    BY <1>2, <2>2, <2>4
  <2>8. ASSUME NEW q \in Procs, NEW h \in DOMAIN dir', fd'[q] # 0, dir'[h] = fd'[q]
        PROVE  h \in {name[q], Tmp(name[q])}
    <3>1. name[q] \in FinalName
      BY <1>2, <2>4, <2>8, NameDrawn
    <3>2. CASE h = f
      <4>1. g \in {name[q], Tmp(name[q])}
        BY <1>2, <2>4, <2>8, <3>2
      <4> QED
        BY <2>1, <2>3, <3>1, <3>2, <4>1, TmpFacts
    <3>3. CASE h # f
      BY <1>2, <2>4, <2>8, <2>9, <3>3
    <3> QED
      BY <3>2, <3>3
  <2> QED
    BY <1>2, <2>2, <2>4, <2>6, <2>7, <2>8 DEF DiskInv
<1>10. ASSUME NEW f, Collect(f) PROVE DiskInv'
  <2>1. Unlink(f) /\ pc' = pc /\ name' = name
    BY <1>10 DEF Collect, senders
  <2>2. /\ DiskOK' /\ fd' = fd /\ DOMAIN dir' = DOMAIN dir \ {f}
        /\ \A other \in DOMAIN dir' : dir'[other] = dir[other]
    BY <1>2, <2>1, UnlinkEffect
  <2> QED
    BY <1>1, <1>2, <2>1, <2>2 DEF DiskInv
<1> QED
  BY <1>3, <1>4, <1>5, <1>7, <1>8, <1>9, <1>10 DEF Next, Tick, vars, senders

-----------------------------------------------------------------------------
(* Where the name of p is its own, p spoils nothing but its temporary file.   *)
Elsewhere(p) == \A f : f # Tmp(name[p]) /\ (f = name[p] => ~Shared(f)) => Unread(f)

(* What is open under a name of one's own is the temporary file. *)
LEMMA OpenIsTmp ==
  ASSUME InboxInv, NEW p \in Procs, NEW f, Leads(f, p)
  PROVE  f = Tmp(name[p]) \/ (f = name[p] /\ Shared(f))
<1>1. f \in DOMAIN dir /\ dir[f] = fd[p] /\ fd[p] # 0
  BY DEF Leads, Exists, InboxInv, DiskInv, DiskOK
<1>2. f \in {name[p], Tmp(name[p])} /\ pc[p] = "write"
  BY <1>1 DEF InboxInv, DiskInv
<1>3. ASSUME f = name[p], ~Shared(f) PROVE FALSE
  <2>1. Opened(p, Tmp(name[p]))
    BY <1>2, <1>3 DEF InboxInv, ReadInv
  <2>2. Tmp(name[p]) = f
    BY <1>1, <2>1 DEF Opened, Exists, InboxInv, DiskInv, DiskOK
  <2>3. name[p] \in FinalName
    BY <1>2, NameDrawn DEF InboxInv
  <2> QED
    BY <1>3, <2>2, <2>3, TmpFacts
<1> QED
  BY <1>2, <1>3

(* What p does in its files leaves the others as they are. *)
LEMMA Bystanders ==
  ASSUME InboxInv, [Next]_vars, NEW p \in Procs,
         (pc[p] # "idle" /\ Elsewhere(p)) \/ (\A f : Unread(f)),
         drawn' = drawn, taken' = taken,
         \A q \in Procs \ {p} : /\ pc'[q] = pc[q] /\ name'[q] = name[q] /\ msg'[q] = msg[q]
                                /\ fd'[q] = fd[q],
         ~Shared(name[p])' =>
             /\ pc'[p] = "write" => Opened(p, Tmp(name[p]))'
             /\ pc'[p] = "publish" => Contents(Tmp(name[p]))' = Whole(msg'[p])
  PROVE  ReadInv'
<1>1. \A f : Shared(f)' = Shared(f)
  BY DEF Shared
<1>2. ASSUME NEW d \in drawn, ~Shared(d.file) PROVE Unread(d.file)
  <2>1. PICK f : f = d.file
    OBVIOUS
  <2>2. ASSUME pc[p] # "idle" PROVE f # Tmp(name[p])
    <3>1. d.file \in FinalName /\ name[p] \in FinalName
      BY <2>2, NameDrawn DEF InboxInv, DrawInv, Draws
    <3> QED
      BY <2>1, <3>1, TmpFacts
  <2> QED
    BY <1>2, <2>1, <2>2 DEF Elsewhere
<1>3. ASSUME NEW d \in drawn', ~Shared(d.file)'
      PROVE  /\ Exists(d.file)' => Contents(d.file)' = Whole(d.msg)
             /\ d.published => Contents(d.file)' = Whole(d.msg) \/ Collected(d)'
  <2>1. d \in drawn /\ ~Shared(d.file)
    BY <1>1, <1>3
  <2>2. Unread(d.file)
    BY <1>2, <2>1
  <2>3. /\ Exists(d.file) => Contents(d.file) = Whole(d.msg)
        /\ d.published => Contents(d.file) = Whole(d.msg) \/ Collected(d)
    BY <2>1 DEF InboxInv, ReadInv
  <2> QED
    BY <2>2, <2>3 DEF Unread, Collected
<1>4. \A t \in taken' : ~Shared(t.file)' => t.contents.kind = "whole"
  BY <1>1 DEF InboxInv, ReadInv
<1>5. ASSUME NEW q \in Procs, q # p, ~Shared(name[q])'
      PROVE  /\ pc'[q] = "write" => Opened(q, Tmp(name[q]))'
             /\ pc'[q] = "publish" => Contents(Tmp(name[q]))' = Whole(msg'[q])
  <2>1. /\ pc'[q] = pc[q] /\ name'[q] = name[q] /\ msg'[q] = msg[q] /\ fd'[q] = fd[q]
        /\ ~Shared(name[q])
    BY <1>5 DEF Shared
  <2> SUFFICES ASSUME pc[q] # "idle"
               PROVE  /\ pc'[q] = "write" => Opened(q, Tmp(name[q]))'
                      /\ pc'[q] = "publish" => Contents(Tmp(name[q]))' = Whole(msg'[q])
    BY <2>1
  <2>2. PICK f : f = Tmp(name[q])
    OBVIOUS
  <2>3. name[q] \in FinalName
    BY NameDrawn DEF InboxInv
  <2>4. ASSUME pc[p] # "idle" PROVE f # Tmp(name[p]) /\ f # name[p]
    <3>1. name[p] \in FinalName
      BY <2>4, NameDrawn DEF InboxInv
    <3>2. name[p] # name[q]
      BY <1>5, <2>1, <2>4, OwnName DEF InboxInv
    <3> QED
      BY <2>2, <2>3, <3>1, <3>2, TmpFacts
  <2>5. Unread(f)
    BY <2>4 DEF Elsewhere
  <2>6. /\ pc[q] = "write" => Opened(q, f)
        /\ pc[q] = "publish" => Contents(f) = Whole(msg[q])
    BY <2>1, <2>2 DEF InboxInv, ReadInv
  <2>7. /\ pc[q] = "write" => Opened(q, f)'
        /\ pc[q] = "publish" => Contents(f)' = Whole(msg[q])
    BY <2>1, <2>5, <2>6 DEF Unread, Opened
  <2>8. Tmp(name[q])' = f
    BY <2>1, <2>2 DEF Tmp
  <2> QED
    BY <2>1, <2>7, <2>8 DEF Opened, Exists, Contents
<1> QED
  BY <1>3, <1>4, <1>5 DEF ReadInv

LEMMA ReadInit == Init => ReadInv
BY DEF Init, ReadInv

LEMMA OpenReads == ASSUME InboxInv, NEW p \in Procs, Open(p) PROVE ReadInv'
<1>1. PICK g : g = Tmp(name[p])
  OBVIOUS
<1>2. /\ pc[p] = "open" /\ Create(p, g) /\ pc' = [pc EXCEPT ![p] = "write"]
      /\ UNCHANGED <<msg, name, taken, drawn>>
  BY <1>1 DEF Open, Goto, Create
<1>3. DiskOK /\ p \in DOMAIN fd /\ DOMAIN pc = Procs
  BY DEF InboxInv, DiskInv, DrawInv
<1>4. Opened(p, g)' /\ \A f : f # g => Unread(f)
  BY <1>2, <1>3, CreateReads
<1>5. \A q \in Procs \ {p} : fd'[q] = fd[q]
  BY <1>2 DEF Create, InboxInv, DiskInv
<1>6. Elsewhere(p)
  BY <1>1, <1>4 DEF Elsewhere
<1>7. Tmp(name[p])' = g
  BY <1>1, <1>2 DEF Tmp
<1>8. Opened(p, Tmp(name[p]))'
  BY <1>4, <1>7 DEF Opened, Exists, Contents
<1>9. pc'[p] = "write" /\ \A q \in Procs \ {p} : pc'[q] = pc[q] /\ name'[q] = name[q] /\ msg'[q] = msg[q]
  BY <1>2, <1>3
<1> QED
  BY <1>2, <1>5, <1>6, <1>8, <1>9, Bystanders DEF Next

LEMMA WriteReads == ASSUME InboxInv, NEW p \in Procs, Write(p) PROVE ReadInv'
<1>1. PICK g, c : g = Tmp(name[p]) /\ c = Whole(msg[p])
  OBVIOUS
<1>2. /\ pc[p] = "write" /\ Fill(p, c) /\ pc' = [pc EXCEPT ![p] = "publish"]
      /\ UNCHANGED <<msg, name, taken, drawn>>
  BY <1>1 DEF Write, Goto, Fill
<1>3. DiskOK /\ p \in DOMAIN fd /\ DOMAIN pc = Procs /\ fd[p] # 0
  BY <1>2 DEF InboxInv, DiskInv, DrawInv
<1>4. \A f : IF Leads(f, p) THEN Contents(f) = Empty => Contents(f)' = c ELSE Unread(f)
  BY <1>2, <1>3, FillReads
<1>5. \A q \in Procs \ {p} : fd'[q] = fd[q]
  BY <1>2 DEF Fill, InboxInv, DiskInv
<1>6. Elsewhere(p)
  BY <1>4, OpenIsTmp DEF Elsewhere
<1>7. Tmp(name[p])' = g /\ Whole(msg'[p]) = c
  BY <1>1, <1>2 DEF Tmp
<1>8. ASSUME ~Shared(name[p])' PROVE Contents(Tmp(name[p]))' = Whole(msg'[p])
  <2>1. ~Shared(name[p])
    BY <1>2, <1>8 DEF Shared
  <2>2. Opened(p, g)
    BY <1>1, <1>2, <2>1 DEF InboxInv, ReadInv
  <2>3. Contents(g)' = c
    BY <1>4, <2>2 DEF Opened, Leads
  <2> QED
    BY <1>7, <2>3 DEF Contents, Exists
<1>9. pc'[p] = "publish" /\ \A q \in Procs \ {p} : pc'[q] = pc[q] /\ name'[q] = name[q] /\ msg'[q] = msg[q]
  BY <1>2, <1>3
<1> QED
  BY <1>2, <1>5, <1>6, <1>8, <1>9, Bystanders DEF Next

LEMMA LeaveReads == ASSUME InboxInv, NEW p \in Procs, Fails(p) \/ NextHook(p) PROVE ReadInv'
<1>1. /\ Abandon(p) /\ pc' = [pc EXCEPT ![p] = "idle"]
      /\ UNCHANGED <<msg, name, taken, drawn>>
  BY DEF Fails, NextHook, Goto
<1>2. DiskOK /\ p \in DOMAIN fd /\ DOMAIN pc = Procs
  BY DEF InboxInv, DiskInv, DrawInv
<1>3. \A f : ~Leads(f, p) => Unread(f)
  BY <1>1, <1>2, AbandonReads
<1>4. \A q \in Procs \ {p} : fd'[q] = fd[q]
  BY <1>1 DEF Abandon, InboxInv, DiskInv
<1>5. Elsewhere(p)
  BY <1>3, OpenIsTmp DEF Elsewhere
<1>6. pc[p] = "idle" => \A f : Unread(f)
  <2>1. pc[p] = "idle" => \A f : ~Leads(f, p)
    BY DEF InboxInv, DiskInv, DiskOK, Leads, Exists
  <2> QED
    BY <1>3, <2>1
<1>7. pc'[p] = "idle" /\ \A q \in Procs \ {p} : pc'[q] = pc[q] /\ name'[q] = name[q] /\ msg'[q] = msg[q]
  BY <1>1, <1>2
<1> QED
  BY <1>1, <1>4, <1>5, <1>6, <1>7, Bystanders DEF Next

LEMMA DrawReads ==
  ASSUME InboxInv, NEW p \in Procs, NEW path \in Paths, Draw(p, path)
  PROVE  ReadInv'
<1>1. DrawInv' /\ \A f : Shared(f) => Shared(f)'
  BY DrawStep, DrawnStays DEF InboxInv, Next
<1>2. /\ dir' = dir /\ data' = data /\ fd' = fd /\ taken' = taken
      /\ pc' = [pc EXCEPT ![p] = "open"] /\ DOMAIN pc = Procs
      /\ \A q \in Procs \ {p} : name'[q] = name[q] /\ msg'[q] = msg[q]
  BY DEF Draw, Goto, files, InboxInv, DrawInv
<1>3. PICK new : drawn' = drawn \cup {new} /\ ~new.published /\ new.msg = sent + 1
  <2> DEFINE f == [to |-> Target(path), tick |-> clock, seq |-> Number(p), tmp |-> FALSE]
             new == [file |-> f, by |-> <<p, hooks[p]>>, msg |-> sent + 1, published |-> FALSE]
  <2>1. drawn' = drawn \cup {new}
    BY DEF Draw
  <2>2. ~new.published /\ new.msg = sent + 1
    OBVIOUS
  <2> HIDE DEF new
  <2> QED
    BY <2>1, <2>2
<1>4. \A f : Contents(f)' = Contents(f) /\ (Exists(f)' <=> Exists(f))
  BY <1>2 DEF Contents, Exists
<1>5. ASSUME ~Shared(new.file)' PROVE ~Exists(new.file)
  <2> SUFFICES ASSUME new.file \in DOMAIN dir PROVE FALSE
    BY DEF Exists
  <2>1. new \in drawn' /\ new.file \in FinalName
    BY <1>1, <1>3 DEF DrawInv, Draws
  <2>2. PICK d \in drawn : new.file \in {d.file, Tmp(d.file)}
    BY DEF InboxInv, DiskInv
  <2>3. d.file \in FinalName /\ d.msg \in Nat /\ d.msg <= sent /\ sent \in Nat
    BY DEF InboxInv, DrawInv, Draws
  <2>4. new.file = d.file
    BY <2>1, <2>2, <2>3, TmpFacts
  <2>5. d \in drawn'
    BY <1>3
  <2>6. d.by = new.by
    BY <1>5, <2>1, <2>4, <2>5 DEF Shared
  <2>7. d = new
    BY <1>1, <2>1, <2>4, <2>5, <2>6 DEF DrawInv
  <2> QED
    BY <1>3, <2>3, <2>7
<1>6. ASSUME NEW d \in drawn', ~Shared(d.file)'
      PROVE  /\ Exists(d.file)' => Contents(d.file)' = Whole(d.msg)
             /\ d.published => Contents(d.file)' = Whole(d.msg) \/ Collected(d)'
  <2>1. CASE d = new
    BY <1>3, <1>4, <1>5, <1>6, <2>1
  <2>2. CASE d \in drawn
    <3>1. ~Shared(d.file)
      BY <1>1, <1>6
    <3> QED
      BY <1>2, <1>4, <2>2, <3>1 DEF InboxInv, ReadInv, Collected
  <2> QED
    BY <1>3, <2>1, <2>2
<1>7. \A t \in taken' : ~Shared(t.file)' => t.contents.kind = "whole"
  BY <1>1, <1>2 DEF InboxInv, ReadInv
<1>8. ASSUME NEW q \in Procs, ~Shared(name[q])'
      PROVE  /\ pc'[q] = "write" => Opened(q, Tmp(name[q]))'
             /\ pc'[q] = "publish" => Contents(Tmp(name[q]))' = Whole(msg'[q])
  <2>1. CASE q = p
    BY <1>2, <2>1
  <2>2. CASE q # p
    <3>1. pc'[q] = pc[q] /\ name'[q] = name[q] /\ msg'[q] = msg[q]
      BY <1>2, <2>2
    <3>2. ~Shared(name[q])
      <4>1. PICK f : f = name[q]
        OBVIOUS
      <4>2. ~Shared(f)'
        BY <1>8, <3>1, <4>1 DEF Shared
      <4> QED
        BY <1>1, <4>1, <4>2
    <3>3. /\ pc[q] = "write" => Opened(q, Tmp(name[q]))
          /\ pc[q] = "publish" => Contents(Tmp(name[q])) = Whole(msg[q])
      BY <3>2 DEF InboxInv, ReadInv
    <3>4. Tmp(name[q])' = Tmp(name[q])
      BY <3>1 DEF Tmp
    <3> QED
      BY <1>2, <3>1, <3>3, <3>4 DEF Opened, Exists, Contents
  <2> QED
    BY <2>1, <2>2
<1> QED
  BY <1>6, <1>7, <1>8 DEF ReadInv

LEMMA PublishReads == ASSUME InboxInv, NEW p \in Procs, Publish(p) PROVE ReadInv'
<1>1. PICK f, g : f = name[p] /\ g = Tmp(name[p])
  OBVIOUS
<1>2. /\ pc[p] = "publish" /\ Rename(g, f) /\ pc' = [pc EXCEPT ![p] = "idle"]
      /\ drawn' = {[d EXCEPT !.published = @ \/ d.msg = msg[p]] : d \in drawn}
      /\ UNCHANGED <<msg, name, taken, fd>>
  BY <1>1 DEF Publish, Goto, Rename
<1>3. DiskOK /\ DOMAIN pc = Procs /\ f \in FinalName /\ g # f
  BY <1>1, <1>2, NameDrawn, TmpFacts DEF InboxInv, DiskInv, DrawInv
<1>4. Contents(f)' = Contents(g) /\ \A other : other \notin {g, f} => Unread(other)
  BY <1>2, <1>3, RenameReads
<1>5. \A x : Shared(x) => Shared(x)'
  BY DrawnStays DEF InboxInv, Next
<1>6. PICK mine \in drawn : Drew(mine, p)
  BY <1>2, NameDrawn DEF InboxInv
<1>7. ASSUME NEW e \in drawn', ~Shared(e.file)'
      PROVE  /\ Exists(e.file)' => Contents(e.file)' = Whole(e.msg)
             /\ e.published => Contents(e.file)' = Whole(e.msg) \/ Collected(e)'
  <2>0. PICK d \in drawn : e = [d EXCEPT !.published = @ \/ d.msg = msg[p]]
    BY <1>2
  <2>1. d.msg = e.msg
    BY <2>0 DEF InboxInv, DrawInv, Draws
  <2>5. d.file = e.file
    BY <2>0 DEF InboxInv, DrawInv, Draws
  <2>7. e.published => d.published \/ d.msg = msg[p]
    BY <2>0 DEF InboxInv, DrawInv, Draws
  <2>8. PICK x : x = d.file
    OBVIOUS
  <2>6. ~Shared(x)'
    BY <1>7, <2>5, <2>8 DEF Shared
  <2>2. ~Shared(d.file) /\ d.file \in FinalName
    BY <1>5, <2>6, <2>8 DEF InboxInv, DrawInv, Draws
  <2>3. CASE d.file = f
    <3>1. d = mine
      BY <1>1, <1>6, <2>2, <2>3, SoleDraw DEF InboxInv, Drew
    <3>2. Contents(g) = Whole(msg[p])
      BY <1>1, <1>2, <2>2, <2>3 DEF InboxInv, ReadInv
    <3> QED
      BY <1>4, <1>6, <2>1, <2>3, <2>5, <3>1, <3>2 DEF Drew, Contents, Exists
  <2>4. CASE d.file # f
    <3>1. d.file # g
      BY <1>1, <1>3, <2>2, TmpFacts
    <3>2. Unread(d.file)
      BY <1>4, <2>4, <3>1
    <3>3. d.msg # msg[p]
      BY <1>1, <1>6, <2>4 DEF InboxInv, DrawInv, Drew
    <3>4. /\ Exists(d.file) => Contents(d.file) = Whole(d.msg)
          /\ d.published => Contents(d.file) = Whole(d.msg) \/ Collected(d)
      BY <2>2 DEF InboxInv, ReadInv
    <3> QED
      <4>1. d.published => Contents(x)' = Whole(d.msg) \/ Collected(d)'
        BY <1>2, <2>8, <3>2, <3>4 DEF Unread, Collected
      <4>2. Exists(x)' => Contents(x)' = Whole(d.msg)
        BY <2>8, <3>2, <3>4 DEF Unread
      <4>3. e.published => d.published
        BY <2>7, <3>3
      <4> QED
        BY <2>1, <2>5, <2>8, <4>1, <4>2, <4>3 DEF Collected, Contents, Exists
  <2> QED
    BY <2>3, <2>4
<1>8. \A t \in taken' : ~Shared(t.file)' => t.contents.kind = "whole"
  BY <1>2, <1>5 DEF InboxInv, ReadInv
<1>9. ASSUME NEW q \in Procs, ~Shared(name[q])'
      PROVE  /\ pc'[q] = "write" => Opened(q, Tmp(name[q]))'
             /\ pc'[q] = "publish" => Contents(Tmp(name[q]))' = Whole(msg'[q])
  <2> SUFFICES ASSUME q # p, pc[q] # "idle"
               PROVE  /\ pc'[q] = "write" => Opened(q, Tmp(name[q]))'
                      /\ pc'[q] = "publish" => Contents(Tmp(name[q]))' = Whole(msg'[q])
    BY <1>2, <1>3
  <2>1. PICK h, k : h = name[q] /\ k = Tmp(name[q])
    OBVIOUS
  <2>2. pc'[q] = pc[q] /\ name' = name /\ msg' = msg /\ fd' = fd
    BY <1>2, <1>3
  <2>3. ~Shared(h)'
    BY <1>9, <2>1, <2>2 DEF Shared
  <2>4. ~Shared(name[q])
    BY <1>5, <2>1, <2>3
  <2>5. h # f /\ h \in FinalName
    BY <1>1, <1>2, <2>1, <2>4, OwnName, NameDrawn DEF InboxInv
  <2>6. k # f /\ k # g
    BY <1>1, <1>3, <2>1, <2>5, TmpFacts
  <2>7. Unread(k)
    BY <1>4, <2>6
  <2>8. /\ pc[q] = "write" => Opened(q, k)
        /\ pc[q] = "publish" => Contents(k) = Whole(msg[q])
    BY <2>1, <2>4 DEF InboxInv, ReadInv
  <2>9. Tmp(name[q])' = k
    BY <2>1, <2>2 DEF Tmp
  <2> QED
    BY <2>2, <2>7, <2>8, <2>9 DEF Unread, Opened, Exists, Contents
<1> QED
  BY <1>7, <1>8, <1>9 DEF ReadInv

LEMMA CollectReads == ASSUME InboxInv, NEW f, Collect(f) PROVE ReadInv'
<1>1. /\ ~f.tmp /\ Unlink(f) /\ taken' = taken \cup {[file |-> f, contents |-> Contents(f)]}
      /\ UNCHANGED <<pc, msg, name, drawn, fd>>
  BY DEF Collect, senders, Unlink
<1>2. ~Exists(f)' /\ (\A other : other # f => Unread(other)) /\ f \in DOMAIN dir
  BY <1>1, UnlinkReads DEF InboxInv, DiskInv, Unlink, Exists
<1>3. \A x : Shared(x)' = Shared(x)
  BY <1>1 DEF Shared
<1>4. ASSUME NEW d \in drawn', ~Shared(d.file)'
      PROVE  /\ Exists(d.file)' => Contents(d.file)' = Whole(d.msg)
             /\ d.published => Contents(d.file)' = Whole(d.msg) \/ Collected(d)'
  <2>1. d \in drawn /\ ~Shared(d.file)
    BY <1>1, <1>3, <1>4
  <2>2. /\ Exists(d.file) => Contents(d.file) = Whole(d.msg)
        /\ d.published => Contents(d.file) = Whole(d.msg) \/ Collected(d)
    BY <2>1 DEF InboxInv, ReadInv
  <2>3. CASE d.file = f
    <3>1. Contents(f) = Whole(d.msg)
      BY <1>2, <2>2, <2>3 DEF Exists
    <3> QED
      BY <1>1, <1>2, <2>3, <3>1 DEF Collected
  <2>4. CASE d.file # f
    <3>1. Unread(d.file)
      BY <1>2, <2>4
    <3> QED
      BY <1>1, <2>2, <3>1 DEF Unread, Collected
  <2> QED
    BY <2>3, <2>4
<1>5. ASSUME NEW t \in taken', ~Shared(t.file)' PROVE t.contents.kind = "whole"
  <2>1. CASE t \in taken
    BY <1>3, <1>5, <2>1 DEF InboxInv, ReadInv
  <2>2. CASE t = [file |-> f, contents |-> Contents(f)]
    <3>1. PICK d \in drawn : d.file \in FinalName /\ f = IF f.tmp THEN Tmp(d.file) ELSE d.file
      BY <1>2, FileDrawn DEF InboxInv
    <3>2. d.file = f /\ ~Shared(d.file)
      BY <1>1, <1>3, <1>5, <2>2, <3>1
    <3>3. Contents(f) = Whole(d.msg)
      BY <1>2, <3>2 DEF InboxInv, ReadInv, Exists
    <3> QED
      BY <2>2, <3>3 DEF Whole
  <2> QED
    BY <1>1, <2>1, <2>2
<1>6. ASSUME NEW q \in Procs, ~Shared(name[q])'
      PROVE  /\ pc'[q] = "write" => Opened(q, Tmp(name[q]))'
             /\ pc'[q] = "publish" => Contents(Tmp(name[q]))' = Whole(msg'[q])
  <2> SUFFICES ASSUME pc[q] # "idle"
               PROVE  /\ pc'[q] = "write" => Opened(q, Tmp(name[q]))'
                      /\ pc'[q] = "publish" => Contents(Tmp(name[q]))' = Whole(msg'[q])
    BY <1>1
  <2>1. PICK h, k : h = name[q] /\ k = Tmp(name[q])
    OBVIOUS
  <2>2. k.tmp
    BY <2>1, NameDrawn, TmpFacts DEF InboxInv
  <2>3. Unread(k)
    BY <1>1, <1>2, <2>2
  <2>4. ~Shared(h)'
    BY <1>1, <1>6, <2>1 DEF Shared
  <2>5. ~Shared(name[q])
    BY <1>3, <2>1, <2>4
  <2>6. /\ pc[q] = "write" => Opened(q, k)
        /\ pc[q] = "publish" => Contents(k) = Whole(msg[q])
    BY <2>1, <2>5 DEF InboxInv, ReadInv
  <2>7. Tmp(name[q])' = k
    BY <1>1, <2>1 DEF Tmp
  <2> QED
    BY <1>1, <2>3, <2>6, <2>7 DEF Unread, Opened, Exists, Contents
<1> QED
  BY <1>4, <1>5, <1>6 DEF ReadInv

LEMMA ReadStep == InboxInv /\ [Next]_vars => ReadInv'
<1> SUFFICES ASSUME InboxInv, [Next]_vars PROVE ReadInv'
  OBVIOUS
<1>1. CASE UNCHANGED <<senders, files, taken, drawn>>
  <2>1. ReadInv
    BY DEF InboxInv
  <2> QED
    BY <1>1, <2>1 DEF senders, files, ReadInv, Shared, Opened, Exists, Contents, Collected, Tmp
<1> QED
  BY <1>1, DrawReads, OpenReads, WriteReads, LeaveReads, PublishReads, CollectReads
  DEF Next, Tick, vars

LEMMA InboxInit == Init => InboxInv
BY DrawInit, DiskInit, ReadInit DEF InboxInv

LEMMA InboxStep == InboxInv /\ [Next]_vars => InboxInv'
BY DrawStep, DiskStep, ReadStep DEF InboxInv

LEMMA InboxConfined == InboxInv => Confined
<1> SUFFICES ASSUME InboxInv, NEW f \in DOMAIN dir PROVE f.to \notin {"", ".", "..", "/"}
  BY DEF Confined
<1>1. PICK d \in drawn : d.file \in FinalName /\ f = IF f.tmp THEN Tmp(d.file) ELSE d.file
  BY FileDrawn DEF InboxInv
<1>2. f.to = d.file.to
  BY <1>1, TmpFacts
<1>3. PICK path \in Paths : f.to = Target(path)
  BY <1>1, <1>2 DEF FinalName
<1>4. f.to # ""
  BY <1>3, TargetNamed
<1>5. f.to \notin {".", "..", "/"}
  BY <1>2 DEF InboxInv, DrawInv, Accepted
<1> QED
  BY <1>4, <1>5

LEMMA InboxWhole == InboxInv => OnlyWholeMessages
<1> SUFFICES ASSUME InboxInv PROVE OnlyWholeMessages
  OBVIOUS
<1>1. ASSUME NEW f \in DOMAIN dir, ~f.tmp, ~Shared(f) PROVE Contents(f).kind = "whole"
  <2>1. PICK d \in drawn : d.file \in FinalName /\ f = IF f.tmp THEN Tmp(d.file) ELSE d.file
    BY FileDrawn DEF InboxInv
  <2>2. f = d.file
    BY <1>1, <2>1
  <2>3. Contents(f) = Whole(d.msg)
    BY <1>1, <2>2 DEF InboxInv, ReadInv, Exists
  <2> QED
    BY <2>3 DEF Whole
<1> QED
  BY <1>1 DEF OnlyWholeMessages, InboxInv, ReadInv

LEMMA InboxKept == InboxInv => NoneReplaced
BY DEF InboxInv, ReadInv, NoneReplaced, Collected

-----------------------------------------------------------------------------
(* Clean leaves no segment that is empty or ".", whatever the path, and       *)
(* WriteInbox refuses "..", "." and "/" of what is left: a message goes into  *)
(* a directory of the inbox, whatever an author writes as a target.           *)
THEOREM InboxIsConfined == Spec => []Confined
<1>1. InboxInv /\ [Next]_vars => InboxInv'
  BY InboxStep
<1> QED
  BY <1>1, InboxInit, InboxConfined, PTL DEF Spec

(* A message file gets its name by a rename, and the file renamed is the one  *)
(* its hook alone has written to the end: the adapter reads whole messages,   *)
(* unless two hooks drew one name.                                           *)
THEOREM MessagesAreWhole == Spec => []OnlyWholeMessages
<1>1. InboxInv /\ [Next]_vars => InboxInv'
  BY InboxStep
<1> QED
  BY <1>1, InboxInit, InboxWhole, PTL DEF Spec

(* No hook draws a name twice, since its sequence numbers go up: a message is *)
(* under its name until the adapter collects it, unless another hook drew     *)
(* the same name.                                                            *)
THEOREM NoMessageReplaced == Spec => []NoneReplaced
<1>1. InboxInv /\ [Next]_vars => InboxInv'
  BY InboxStep
<1> QED
  BY <1>1, InboxInit, InboxKept, PTL DEF Spec
=============================================================================
