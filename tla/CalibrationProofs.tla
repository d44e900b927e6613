------------------------- MODULE CalibrationProofs -------------------------
(***************************************************************************)
(* Theorems about Calibration: the log only watches the hook; whatever the *)
(* number of hooks at once and whatever fails, it accounts for the fuel    *)
(* that is gone; and of hooks that run one at a time it says nothing that  *)
(* was not paid for and can be joined, predictions to steps.               *)
(***************************************************************************)
EXTENDS Calibration, HookProofs, FiniteSetTheorems

-----------------------------------------------------------------------------
(* The log watches. *)

(* Every step of the hook with its log is a step of the hook. *)
LEMMA CalStepIsStep == [CalNext]_<<vars, tap>> => [Next]_vars
<1> SUFFICES ASSUME [CalNext]_<<vars, tap>> PROVE [Next]_vars
  OBVIOUS
<1>1. CASE UNCHANGED <<vars, tap>>
  BY <1>1
<1>2. ASSUME NEW p \in Procs, NEW e \in Events, CalStart(p, e) PROVE Next
  BY <1>2 DEF CalStart, Next
<1>3. ASSUME NEW p \in Procs, CalCell(p) PROVE Next
  BY <1>3 DEF CalCell, Next, Proceed, Dispatching
<1>4. ASSUME NEW p \in Procs, CalRun(p) PROVE Next
  BY <1>4 DEF CalRun, Next, Proceed, Dispatching
<1>5. ASSUME NEW p \in Procs, CalHalt(p) \/ CalFire(p) PROVE Next
  BY <1>5 DEF CalHalt, CalFire, Next, Proceed, Dispatching
<1>6. ASSUME NEW p \in Procs, CalCrash(p) PROVE Next
  BY <1>6 DEF CalCrash, Next, Disturbed
<1>7. ASSUME NEW p \in Procs, Unrecorded(p) PROVE Next
  BY <1>7 DEF Unrecorded, Next, Proceed, Disturbed, Dispatching
<1> QED
  BY <1>1, <1>2, <1>3, <1>4, <1>5, <1>6, <1>7 DEF CalNext

(* A hook that keeps its log does nothing that a hook without one could not  *)
(* do: whatever is proved of Spec holds beside the log.                      *)
THEOREM LogOnlyWatches == CalSpec => Spec
<1>1. CalInit => Init
  BY DEF CalInit
<1> QED
  BY <1>1, CalStepIsStep, PTL DEF CalSpec, Spec

(* So it keeps the promise of Session too: each event is answered in one     *)
(* atomic step, logged or not.                                               *)
THEOREM LoggedHookKeepsPromise ==
  ASSUME Solo, SavesSucceed
  PROVE  CalSpec => KeepsPromise
BY LogOnlyWatches, HookKeepsPromise, PTL

-----------------------------------------------------------------------------
(* The records of the log. *)

Outcome == {"", "block", "budget", "inject", "setvar", "noop"}

LogRecord ==
    [kind : {"cell", "step"}, fuel : Nat, cell : DOMAIN M.cells \cup {""},
     answer : CellResult, outcome : Outcome]

LogTypeOK ==
    /\ log \in Seq(LogRecord)
    /\ missed \in [Procs -> SUBSET DOMAIN M.cells]
    /\ started \in Nat
    /\ dropped \in Nat
    /\ killed \in Nat

(* What a step of the hook appends: nothing ... *)
Silent == UNCHANGED <<log, dropped>>

(* ... or one record, which the disk may refuse. *)
Tells(rec) == FileCalibrator(rec)

(* The record of a cell that answered r. *)
CellRecord(p, c, r) ==
    [kind |-> "cell", fuel |-> ctx[p].fuel, cell |-> c, answer |-> r, outcome |-> ""]

(* A cell's record is a record of the log. *)
LEMMA CellRecordType ==
  ASSUME TypeInv, NEW p \in Procs, NEW c \in DOMAIN M.cells, NEW r \in CellResult
  PROVE  CellRecord(p, c, r) \in LogRecord
<1>1. ctx[p].fuel \in Nat
  BY DEF TypeInv, TypeOK, Persisted
<1> QED
  BY <1>1 DEF CellRecord, LogRecord, Outcome

(* So is a step's. *)
LEMMA StepRecordType ==
  ASSUME NEW n \in Nat, NEW outcome \in Outcome
  PROVE  StepRecord(n, outcome) \in LogRecord
<1>1. ZeroResult \in CellResult
  BY StringsAssumption DEF StringsAssumption, ZeroResult, CellResult
<1> QED
  BY <1>1 DEF StepRecord, LogRecord

(* The kind of an output is an outcome, and a halt's kind is "budget". *)
LEMMA KindFacts ==
  ASSUME NEW o \in Output, NEW do
  PROVE  /\ Kind(o, do) \in Outcome
         /\ ~o.halt => Kind(o, do) # "budget"
         /\ o.halt /\ o.block = {} => Kind(o, do) = "budget"
<1>1. Kind(o, do) \in {"block", "budget", "inject", "setvar", "noop"}
  BY DEF Kind
<1>2. ~o.halt => Kind(o, do) # "budget"
  BY DEF Kind
<1>3. o.halt /\ o.block = {} => Kind(o, do) = "budget"
  BY DEF Kind
<1> QED
  BY <1>1, <1>2, <1>3 DEF Outcome

(* A step of the hook by what it tells the log. *)
CellTold(p) ==
    \E c \in DOMAIN M.cells, raw \in Raws :
        /\ RunCell(p, c, raw) \/ (RunEffect(p, raw) /\ c = Edge(p).do[eff[p]].name)
        /\ ~cells[p][c].ran
        /\ cells' = [cells EXCEPT ![p][c] = Check(c, raw)]
        /\ Tells(CellRecord(p, c, Check(c, raw)))
        /\ missed' = IF log' = log THEN [missed EXCEPT ![p] = @ \cup {c}] ELSE missed
        /\ UNCHANGED <<pc, ctx, started, killed>>

HaltTold(p) ==
    /\ BudgetHalt(p)
    /\ Tells(StepRecord(ctx[p].fuel, "budget"))
    /\ UNCHANGED <<missed, started, killed>>

FireTold(p) ==
    /\ Fire(p)
    /\ Tells(StepRecord(ctx[p].fuel - 1, Kind(out[p], Edge(p).do)))
    /\ UNCHANGED <<missed, started, killed>>

(* The answer of a cell is logged with the fuel of the hook that asked. *)
LEMMA CellIsTold ==
  ASSUME TypeInv, NEW p \in Procs, CalCell(p) \/ CalRun(p)
  PROVE  CellTold(p)
<1>1. cells \in [Procs -> [DOMAIN M.cells -> CellResult]]
  BY DEF TypeInv, TypeOK
<1>2. ASSUME NEW c \in DOMAIN M.cells, NEW raw \in Raws,
             RunCell(p, c, raw) \/ (RunEffect(p, raw) /\ c = Edge(p).do[eff[p]].name),
             EmitCell(p, c, cells'[p][c]), UNCHANGED Watched
      PROVE  CellTold(p)
  <2>1. /\ ~cells[p][c].ran
        /\ cells' = [cells EXCEPT ![p][c] = Check(c, raw)]
        /\ UNCHANGED <<pc, ctx>>
    BY <1>2 DEF RunCell, RunEffect
  <2>2. cells'[p][c] = Check(c, raw)
    BY <1>1, <2>1
  <2>3. Tells(CellRecord(p, c, Check(c, raw)))
    BY <1>2, <2>2 DEF EmitCell, Tells, CellRecord
  <2>4. missed' = IF log' = log THEN [missed EXCEPT ![p] = @ \cup {c}] ELSE missed
    BY <1>2 DEF EmitCell
  <2>5. UNCHANGED <<pc, ctx, started, killed>>
    BY <1>2, <2>1 DEF Watched
  <2>6. RunCell(p, c, raw) \/ (RunEffect(p, raw) /\ c = Edge(p).do[eff[p]].name)
    BY <1>2
  <2> QED
    BY <2>1, <2>3, <2>4, <2>5, <2>6, Zenon DEF CellTold
<1>3. CASE CalCell(p)
  <2>1. PICK c \in DOMAIN M.cells, raw \in Raws : RunCell(p, c, raw) /\ EmitCell(p, c, cells'[p][c])
    BY <1>3 DEF CalCell
  <2>2. UNCHANGED Watched
    BY <1>3 DEF CalCell
  <2> QED
    BY <1>2, <2>1, <2>2
<1>4. CASE CalRun(p)
  <2>1. PICK raw \in Raws : RunEffect(p, raw)
    BY <1>4 DEF CalRun
  <2>2. Edge(p).do[eff[p]].name \in DOMAIN M.cells
    BY <2>1, RunNamesCell DEF RunEffect, TypeInv
  <2>3. EmitCell(p, Edge(p).do[eff[p]].name, cells'[p][Edge(p).do[eff[p]].name]) /\ UNCHANGED Watched
    BY <1>4 DEF CalRun
  <2> QED
    BY <1>2, <2>1, <2>2, <2>3
<1> QED
  BY <1>3, <1>4

(* A hook without budget logs that it halted. *)
LEMMA HaltIsTold ==
  ASSUME TypeInv, NEW p \in Procs, CalHalt(p)
  PROVE  HaltTold(p)
<1>1. BudgetHalt(p) /\ EmitStep(p, Kind(out'[p], <<>>)) /\ UNCHANGED <<missed, Watched>>
  BY DEF CalHalt
<1>2. ctx' = ctx /\ out' = [out EXCEPT ![p] = Exhausted(event[p].on)]
  BY <1>1 DEF BudgetHalt
<1>3. out'[p] = Exhausted(event[p].on)
  BY <1>2 DEF TypeInv, TypeOK
<1>4. PICK t : t = event[p].on
  OBVIOUS
<1>5. Exhausted(t).block = {} /\ Exhausted(t).halt
  <2> DEFINE text == IF t \in Gating THEN <<"budget exhausted">> ELSE <<>>
  <2>1. Exhausted(t) = [NoOutput EXCEPT !.halt = TRUE, !.inject = text]
    BY DEF Exhausted
  <2>2. NoOutput \in Output
    BY OutputType
  <2> HIDE DEF text
  <2>3. Exhausted(t).halt
    BY <2>1, <2>2 DEF Output
  <2> QED
    BY <2>3, ExhaustedRefusesNothing
<1>6. Kind(out'[p], <<>>) = "budget"
  BY <1>3, <1>4, <1>5, KindFacts, OutputType
<1> QED
  BY <1>1, <1>2, <1>6 DEF EmitStep, HaltTold, Tells, StepRecord, Watched

(* A transition logs its cause and the fuel it leaves. *)
LEMMA FireIsTold ==
  ASSUME TypeInv, NEW p \in Procs, CalFire(p)
  PROVE  FireTold(p)
<1>1. Fire(p) /\ EmitStep(p, Kind(out[p], Edge(p).do)) /\ UNCHANGED <<missed, Watched>>
  BY DEF CalFire
<1>2. ctx' = [ctx EXCEPT ![p].fuel = @ - 1, ![p].state = Edge(p).to]
  BY <1>1 DEF Fire
<1>3. ctx'[p].fuel = ctx[p].fuel - 1
  BY <1>2 DEF TypeInv, TypeOK, Persisted
<1> QED
  BY <1>1, <1>3 DEF EmitStep, FireTold, Tells, StepRecord, Watched

(* What a step tells leaves the log well typed. *)
LEMMA TellsType ==
  ASSUME LogTypeOK, NEW rec \in LogRecord, Tells(rec), UNCHANGED <<started, killed>>,
         missed' \in [Procs -> SUBSET DOMAIN M.cells]
  PROVE  LogTypeOK'
<1>1. CASE log' = Append(log, rec) /\ dropped' = dropped
  <2>1. log' \in Seq(LogRecord)
    BY <1>1, AppendType DEF LogTypeOK
  <2> QED
    BY <1>1, <2>1 DEF LogTypeOK
<1>2. CASE dropped' = dropped + 1 /\ log' = log
  BY <1>2 DEF LogTypeOK
<1> QED
  BY <1>1, <1>2 DEF Tells, FileCalibrator

(* The steps of the hook by what they do to the log. *)
Quiet(p) ==
    \/ \E e \in Events : Start(p, e)
    \/ Unrecorded(p)
    \/ Crash(p)

(* Every step is told by one of these or is silent. *)
LEMMA CalSteps ==
  ASSUME TypeInv, LogTypeOK, CalNext
  PROVE  \E p \in Procs :
            \/ Quiet(p) /\ Silent
            \/ CellTold(p)
            \/ HaltTold(p)
            \/ FireTold(p)
<1>1. PICK p \in Procs :
         \/ \E e \in Events : CalStart(p, e)
         \/ CalCell(p) \/ CalRun(p) \/ CalHalt(p) \/ CalFire(p) \/ CalCrash(p)
         \/ Unrecorded(p) /\ UNCHANGED tap
  BY DEF CalNext
<1>2. CASE \/ \E e \in Events : CalStart(p, e)
           \/ CalCrash(p)
           \/ Unrecorded(p) /\ UNCHANGED tap
  <2>1. Quiet(p) /\ Silent
    BY <1>2 DEF CalStart, CalCrash, Quiet, Silent, tap
  <2> QED
    BY <2>1
<1> QED
  BY <1>1, <1>2, CellIsTold, HaltIsTold, FireIsTold

(* The log keeps its type. *)
LEMMA LogTypeInit == CalInit => LogTypeOK
BY DEF CalInit, LogTypeOK

(* Every step keeps the type of the log. *)
LEMMA LogTypeStep == TypeInv /\ LogTypeOK /\ [CalNext]_<<vars, tap>> => LogTypeOK'
<1> SUFFICES ASSUME TypeInv, LogTypeOK, [CalNext]_<<vars, tap>> PROVE LogTypeOK'
  OBVIOUS
<1>1. CASE UNCHANGED tap
  BY <1>1 DEF tap, LogTypeOK
<1>2. ASSUME NEW p \in Procs, (\E e \in Events : CalStart(p, e)) \/ CalCrash(p)
      PROVE  LogTypeOK'
  BY <1>2 DEF CalStart, CalCrash, LogTypeOK
<1>3. ASSUME NEW p \in Procs, CalCell(p) \/ CalRun(p) PROVE LogTypeOK'
  <2>1. CellTold(p)
    BY <1>3, CellIsTold
  <2>2. PICK c \in DOMAIN M.cells, raw \in Raws : Tells(CellRecord(p, c, Check(c, raw)))
    BY <2>1 DEF CellTold
  <2>3. CellRecord(p, c, Check(c, raw)) \in LogRecord
    BY CellRecordType, CheckType
  <2>4. missed' \in [Procs -> SUBSET DOMAIN M.cells]
    <3>1. PICK d \in DOMAIN M.cells :
             missed' = IF log' = log THEN [missed EXCEPT ![p] = @ \cup {d}] ELSE missed
      BY <2>1 DEF CellTold
    <3> QED
      BY <3>1 DEF LogTypeOK
  <2> QED
    BY <2>1, <2>2, <2>3, <2>4, TellsType DEF CellTold
<1>4. ASSUME NEW p \in Procs, CalHalt(p) PROVE LogTypeOK'
  <2>1. HaltTold(p)
    BY <1>4, HaltIsTold
  <2>2. StepRecord(ctx[p].fuel, "budget") \in LogRecord
    BY StepRecordType DEF Outcome, TypeInv, TypeOK, Persisted
  <2> QED
    BY <2>1, <2>2, TellsType DEF HaltTold, LogTypeOK
<1>5. ASSUME NEW p \in Procs, CalFire(p) PROVE LogTypeOK'
  <2>1. FireTold(p)
    BY <1>5, FireIsTold
  <2>2. ctx[p].fuel - 1 \in Nat /\ out[p] \in Output
    BY <2>1 DEF FireTold, Fire, TypeInv, TypeOK, PhaseOK, Persisted
  <2>3. StepRecord(ctx[p].fuel - 1, Kind(out[p], Edge(p).do)) \in LogRecord
    BY <2>2, StepRecordType, KindFacts
  <2> QED
    BY <2>1, <2>3, TellsType DEF FireTold, LogTypeOK
<1> QED
  BY <1>1, <1>2, <1>3, <1>4, <1>5 DEF CalNext, tap

-----------------------------------------------------------------------------
(* Every unit of fuel that is gone is in the log or was dropped.             *)

(* The fuel of every record there is: the fresh one, the two on disk and     *)
(* those in the hands of the processes.                                      *)
Held ==
    {M.fuel, stateFile.record.fuel, tmpFile.record.fuel} \cup {ctx[p].fuel : p \in Procs}

(* Between a fresh record and one of n units: the steps the log knows not. *)
Missing(n) == {f \in n .. M.fuel - 1 : \A i \in Steps : log[i].fuel # f}

Accounted(n) == Cardinality(Missing(n)) <= dropped

(* No record can come to anybody's hands by any interleaving that misses     *)
(* more steps than were dropped; and what fires is not the halt.             *)
LogInv ==
    /\ TypeInv
    /\ LogTypeOK
    /\ \A n \in Held : Accounted(n)
    /\ \A p \in Procs : pc[p] \in {"idle", "load", "dispatch", "guard", "effects"} => ~out[p].halt

(* The fuels held are numbers. *)
LEMMA HeldType == TypeInv => Held \subseteq Nat
BY FuelAssumption DEF FuelAssumption, Held, TypeInv, TypeOK, FileTypeOK, Contents, Persisted

(* Records are copied, kept and lost, but for the one that fires none is made. *)
LEMMA HeldQuiet ==
  ASSUME TypeInv, NEW p \in Procs,
         \A q \in Procs \ {p} : ctx'[q] = ctx[q],
         ctx'[p].fuel \in Held,
         stateFile'.record.fuel \in Held, tmpFile'.record.fuel \in Held
  PROVE  Held' \subseteq Held
<1>1. ASSUME NEW q \in Procs PROVE ctx'[q].fuel \in Held
  BY DEF Held
<1> QED
  BY <1>1 DEF Held

(* Only a transition makes a fuel that no record had. *)
LEMMA HeldMoves ==
  ASSUME TypeInv, NEW p \in Procs, Quiet(p) \/ CellTold(p) \/ HaltTold(p)
  PROVE  Held' \subseteq Held
<1>1. /\ ctx \in [Procs -> Persisted]
      /\ Fresh.fuel \in Held /\ Fresh \in Persisted
      /\ ctx[p].fuel \in Held /\ stateFile.record.fuel \in Held /\ tmpFile.record.fuel \in Held
  BY FreshType DEF TypeInv, TypeOK, Held, Fresh
<1>2. ASSUME UNCHANGED <<ctx, stateFile, tmpFile>> PROVE Held' \subseteq Held
  BY <1>2 DEF Held
<1>3. ASSUME \/ \E e \in Events : Start(p, e)
             \/ TerminalState(p) \/ Consider(p) \/ PassOver(p) \/ Hold(p) \/ Fail(p) \/ NoMatch(p)
             \/ Panic(p) \/ DeliverInbox(p) \/ DeliverFails(p) \/ AllDelivered(p)
             \/ CellTold(p) \/ HaltTold(p)
      PROVE  UNCHANGED <<ctx, stateFile, tmpFile>>
  BY <1>3
  DEF Start, TerminalState, Consider, PassOver, Hold, Fail, NoMatch, Panic, DeliverInbox,
      DeliverFails, AllDelivered, CellTold, HaltTold, BudgetHalt, RunCell, RunEffect, fileVars
<1>4. ASSUME NEW r \in Persisted, r.fuel \in Held, ctx' = [ctx EXCEPT ![p] = r],
             UNCHANGED <<stateFile, tmpFile>>
      PROVE  Held' \subseteq Held
  BY <1>1, <1>4, HeldQuiet
<1>5. ASSUME Load(p) \/ LoadFails(p) PROVE Held' \subseteq Held
  <2>1. Loaded(stateFile).fuel \in Held /\ Loaded(stateFile) \in Persisted
    BY <1>1, LoadedType DEF Loaded, TypeInv, TypeOK, FileTypeOK
  <2> QED
    BY <1>1, <1>4, <1>5, <2>1 DEF Load, LoadFails, fileVars
<1>6. ASSUME ApplyEffect(p) PROVE Held' \subseteq Held
  <2> DEFINE kept == Remember(Edge(p).do[eff[p]], ctx[p].vars, cells[p])
  <2>1. ctx' = [ctx EXCEPT ![p].vars = kept] /\ UNCHANGED <<stateFile, tmpFile>>
    BY <1>6 DEF ApplyEffect, fileVars
  <2> HIDE DEF kept
  <2>2. ctx'[p].fuel = ctx[p].fuel /\ \A q \in Procs \ {p} : ctx'[q] = ctx[q]
    BY <1>1, <2>1 DEF Persisted
  <2> QED
    BY <1>1, <2>1, <2>2, HeldQuiet
<1>7. ASSUME Open(p) \/ Write(p) \/ Rename(p) \/ SaveFails(p) PROVE Held' \subseteq Held
  <2>1. UNCHANGED ctx
    BY <1>7 DEF Open, Write, Rename, SaveFails
  <2>2. /\ stateFile'.record \in {stateFile.record, tmpFile.record, ctx[p], Fresh}
        /\ tmpFile'.record \in {stateFile.record, tmpFile.record, ctx[p], Fresh}
    BY <1>7
    DEF Open, Write, Rename, SaveFails, OpenTmp, WriteTmp, RenameTmp, WriteFails,
        Overwritten, Whole, Empty, Garbled, Absent, fileVars
  <2> QED
    BY <1>1, <2>1, <2>2, HeldQuiet
<1>8. ASSUME EmitProtocol(p) \/ Crash(p) PROVE Held' \subseteq Held
  BY <1>1, <1>4, <1>8 DEF EmitProtocol, Crash, Close, Forget, fileVars
<1> QED
  BY <1>2, <1>3, <1>5, <1>6, <1>7, <1>8 DEF Quiet, Unrecorded

(* A transition makes one unit less than its hook had. *)
LEMMA HeldFires ==
  ASSUME TypeInv, NEW p \in Procs, Fire(p)
  PROVE  Held' \subseteq Held \cup {ctx[p].fuel - 1}
<1>1. /\ ctx' = [ctx EXCEPT ![p].fuel = @ - 1, ![p].state = Edge(p).to]
      /\ UNCHANGED <<stateFile, tmpFile>>
  BY DEF Fire, fileVars
<1>2. ctx'[p].fuel = ctx[p].fuel - 1 /\ \A q \in Procs \ {p} : ctx'[q] = ctx[q]
  BY <1>1 DEF TypeInv, TypeOK, Persisted
<1>3. ASSUME NEW q \in Procs PROVE ctx'[q].fuel \in Held \cup {ctx[p].fuel - 1}
  BY <1>2 DEF Held
<1> QED
  BY <1>1, <1>3 DEF Held

-----------------------------------------------------------------------------
(* The units missing from the log are finitely many. *)
LEMMA MissingFinite ==
  ASSUME NEW n \in Nat
  PROVE  IsFiniteSet(Missing(n)) /\ Cardinality(Missing(n)) \in Nat
<1>1. IsFiniteSet(n .. M.fuel - 1)
  BY FuelAssumption, FS_Interval DEF FuelAssumption
<1>2. IsFiniteSet(Missing(n))
  BY <1>1, FS_Subset DEF Missing
<1> QED
  BY <1>2, FS_CardinalityType

(* A log that grows misses nothing new. *)
LEMMA LogGrows ==
  ASSUME LogTypeOK, NEW rec \in LogRecord, log' = Append(log, rec)
  PROVE  /\ DOMAIN log' = DOMAIN log \cup {Len(log) + 1}
         /\ log'[Len(log) + 1] = rec
         /\ \A i \in DOMAIN log : log'[i] = log[i] /\ i # Len(log) + 1 /\ i \in Nat
         /\ Steps' = IF rec.kind = "step" /\ rec.outcome # "budget"
                     THEN Steps \cup {Len(log) + 1} ELSE Steps
<1>1. log \in Seq(LogRecord)
  BY DEF LogTypeOK
<1>2. /\ DOMAIN log' = DOMAIN log \cup {Len(log) + 1}
      /\ log'[Len(log) + 1] = rec
      /\ \A i \in DOMAIN log : log'[i] = log[i] /\ i # Len(log) + 1 /\ i \in Nat
  BY <1>1
<1>3. Steps' = IF rec.kind = "step" /\ rec.outcome # "budget"
               THEN Steps \cup {Len(log) + 1} ELSE Steps
  BY <1>2 DEF Steps
<1> QED
  BY <1>2, <1>3

(* A fuel that is accounted for stays so. *)
LEMMA MissingKept ==
  ASSUME LogTypeOK, NEW rec \in LogRecord, Silent \/ Tells(rec), NEW n \in Nat, Accounted(n)
  PROVE  Accounted(n)'
<1>1. CASE Silent
  BY <1>1 DEF Silent, Accounted, Missing, Steps
<1>2. CASE log' = Append(log, rec) /\ dropped' = dropped
  <2>1. Missing(n)' \subseteq Missing(n)
    BY <1>2, LogGrows DEF Missing, Steps
  <2>2. /\ IsFiniteSet(Missing(n)') /\ Cardinality(Missing(n)') <= Cardinality(Missing(n))
        /\ Cardinality(Missing(n)') \in Nat /\ Cardinality(Missing(n)) \in Nat
    BY <2>1, MissingFinite, FS_Subset, FS_CardinalityType
  <2> QED
    BY <1>2, <2>2 DEF Accounted, LogTypeOK
<1>3. CASE dropped' = dropped + 1 /\ log' = log
  <2>1. Missing(n)' = Missing(n)
    BY <1>3 DEF Missing, Steps
  <2> QED
    BY <1>3, <2>1, MissingFinite DEF Accounted, LogTypeOK
<1> QED
  BY <1>1, <1>2, <1>3 DEF Tells, FileCalibrator

(* The step that spends the unit n is told, or dropped. *)
LEMMA SpentIsTold ==
  ASSUME LogTypeOK, NEW rec \in LogRecord, Tells(rec), rec.kind = "step", rec.outcome # "budget",
         NEW n \in Nat, n > 0, rec.fuel = n - 1, Accounted(n)
  PROVE  Accounted(n - 1)'
<1>0. n - 1 \in Nat
  OBVIOUS
<1>1. CASE log' = Append(log, rec) /\ dropped' = dropped
  <2>1. Missing(n - 1)' \subseteq Missing(n)
    <3>1. ASSUME NEW f \in Missing(n - 1)' PROVE f \in Missing(n)
      <4>1. f \in n - 1 .. M.fuel - 1 /\ \A i \in Steps' : log'[i].fuel # f
        BY <3>1 DEF Missing
      <4>2. f # n - 1
        BY <1>1, <4>1, LogGrows
      <4>3. \A i \in Steps : log[i].fuel # f
        BY <1>1, <4>1, LogGrows DEF Steps
      <4> QED
        BY <4>1, <4>2, <4>3, FuelAssumption DEF FuelAssumption, Missing
    <3> QED
      BY <3>1
  <2>2. /\ IsFiniteSet(Missing(n - 1)')
        /\ Cardinality(Missing(n - 1)') <= Cardinality(Missing(n))
        /\ Cardinality(Missing(n - 1)') \in Nat /\ Cardinality(Missing(n)) \in Nat
    BY <2>1, MissingFinite, FS_Subset, FS_CardinalityType
  <2> QED
    BY <1>1, <2>2 DEF Accounted, LogTypeOK
<1>2. CASE dropped' = dropped + 1 /\ log' = log
  <2>1. Missing(n - 1)' \subseteq Missing(n) \cup {n - 1}
    BY <1>2, FuelAssumption DEF FuelAssumption, Missing, Steps
  <2>2. /\ IsFiniteSet(Missing(n) \cup {n - 1})
        /\ Cardinality(Missing(n) \cup {n - 1}) <= Cardinality(Missing(n)) + 1
        /\ Cardinality(Missing(n)) \in Nat
    <3>1. IsFiniteSet(Missing(n)) /\ Cardinality(Missing(n)) \in Nat
      BY MissingFinite
    <3>2. /\ IsFiniteSet(Missing(n) \cup {n - 1})
          /\ Cardinality(Missing(n) \cup {n - 1})
               = IF n - 1 \in Missing(n) THEN Cardinality(Missing(n)) ELSE Cardinality(Missing(n)) + 1
      BY <3>1, FS_AddElement
    <3> QED
      BY <3>1, <3>2
  <2>3. /\ Cardinality(Missing(n - 1)') <= Cardinality(Missing(n) \cup {n - 1})
        /\ IsFiniteSet(Missing(n - 1)')
    BY <2>1, <2>2, FS_Subset
  <2>4. Cardinality(Missing(n - 1)') \in Nat /\ Cardinality(Missing(n) \cup {n - 1}) \in Nat
    BY <2>2, <2>3, FS_CardinalityType
  <2> QED
    BY <1>2, <2>2, <2>3, <2>4 DEF Accounted, LogTypeOK
<1> QED
  BY <1>1, <1>2 DEF Tells, FileCalibrator

(* At the start nothing is missing. *)
LEMMA LogInit == CalInit => LogInv
<1> SUFFICES ASSUME CalInit PROVE LogInv
  OBVIOUS
<1>1. TypeInv /\ LogTypeOK
  BY TypeInit, LogTypeInit DEF CalInit
<1>2. Held = {M.fuel}
  BY DEF CalInit, Init, FileInit, Absent, Fresh, Held
<1>3. Missing(M.fuel) = {}
  BY FuelAssumption DEF FuelAssumption, Missing
<1>4. Accounted(M.fuel)
  BY <1>3, FS_EmptySet DEF Accounted, CalInit
<1>5. \A p \in Procs : ~out[p].halt
  BY DEF CalInit, Init, NoOutput
<1> QED
  BY <1>1, <1>2, <1>4, <1>5 DEF LogInv

(* Nothing but the budget's own exit raises the halt, and it goes to the save. *)
LEMMA HaltsAtSave ==
  ASSUME LogInv, NEW p \in Procs, Quiet(p) \/ CellTold(p) \/ HaltTold(p) \/ FireTold(p)
  PROVE  \A q \in Procs :
            pc'[q] \in {"idle", "load", "dispatch", "guard", "effects"} => ~out'[q].halt
<1> DEFINE early == {"idle", "load", "dispatch", "guard", "effects"}
<1>1. /\ pc \in [Procs -> Phase] /\ out \in [Procs -> Output]
      /\ \A q \in Procs : pc[q] \in early => ~out[q].halt
  BY DEF LogInv, TypeInv, TypeOK
<1>2. ASSUME \A q \in Procs \ {p} : pc'[q] = pc[q] /\ out'[q] = out[q],
             \/ pc'[p] \notin early
             \/ ~out'[p].halt
             \/ pc[p] \in early /\ out'[p].halt = out[p].halt
      PROVE  \A q \in Procs : pc'[q] \in early => ~out'[q].halt
  BY <1>1, <1>2
<1>3. CASE \/ \E e \in Events : Start(p, e)
           \/ Load(p) \/ LoadFails(p) \/ Consider(p) \/ PassOver(p) \/ CellTold(p)
  BY <1>1, <1>2, <1>3
  DEF Start, Load, LoadFails, Consider, PassOver, CellTold, RunCell, RunEffect, AtGuard, AtEffect,
      Goto
<1>4. CASE \/ TerminalState(p) \/ NoMatch(p) \/ HaltTold(p) \/ FireTold(p) \/ Panic(p)
           \/ Open(p) \/ Write(p) \/ Rename(p) \/ SaveFails(p) \/ AllDelivered(p)
  <2>1. /\ \A q \in Procs \ {p} : pc'[q] = pc[q] /\ out'[q] = out[q]
        /\ pc'[p] \notin early
    BY <1>1, <1>4
    DEF TerminalState, NoMatch, HaltTold, BudgetHalt, FireTold, Fire, Panic, Open, Write, Rename,
        SaveFails, AllDelivered, Goto
  <2> QED
    BY <1>2, <2>1
<1>5. CASE Hold(p) \/ Fail(p)
  <2>1. out' = Linted(p) /\ pc[p] = "guard" /\ \A q \in Procs \ {p} : pc'[q] = pc[q]
    BY <1>1, <1>5 DEF Hold, Fail, AtGuard, Goto
  <2>2. out'[p].halt = out[p].halt /\ \A q \in Procs \ {p} : out'[q] = out[q]
    BY <1>1, <2>1 DEF Linted, Output
  <2> QED
    BY <1>2, <2>1, <2>2
<1>6. CASE ApplyEffect(p)
  <2> DEFINE performed == Perform(Edge(p).do[eff[p]], out[p], ctx[p].vars, cells[p])
  <2>1. out' = [out EXCEPT ![p] = performed] /\ pc[p] = "effects" /\ pc' = pc
    BY <1>6 DEF ApplyEffect, AtEffect
  <2>2. performed.halt = out[p].halt
    BY <1>1, PerformHalt
  <2> HIDE DEF performed
  <2> QED
    BY <1>1, <1>2, <2>1, <2>2
<1>7. CASE DeliverInbox(p) \/ DeliverFails(p)
  BY <1>1, <1>2, <1>7 DEF DeliverInbox, DeliverFails
<1>8. CASE EmitProtocol(p) \/ Crash(p)
  <2>1. Forget(p) /\ ~NoOutput.halt
    BY <1>8 DEF EmitProtocol, Crash, NoOutput
  <2> QED
    BY <1>1, <1>2, <2>1 DEF Forget, Goto
<1> QED
  BY <1>3, <1>4, <1>5, <1>6, <1>7, <1>8 DEF Quiet, Unrecorded

(* Every step keeps the account. *)
LEMMA LogStep == LogInv /\ [CalNext]_<<vars, tap>> => LogInv'
<1> SUFFICES ASSUME LogInv, [CalNext]_<<vars, tap>> PROVE LogInv'
  OBVIOUS
<1>1. TypeInv' /\ LogTypeOK'
  BY CalStepIsStep, TypeStep, LogTypeStep DEF LogInv
<1>2. CASE UNCHANGED <<vars, tap>>
  <2>1. UNCHANGED <<pc, out, ctx, stateFile, tmpFile, log, dropped>>
    BY <1>2 DEF vars, procVars, fileVars, tap
  <2>2. Held' = Held /\ \A n \in Held : Accounted(n)' = Accounted(n)
    BY <2>1 DEF Held, Accounted, Missing, Steps
  <2> QED
    BY <1>1, <2>1, <2>2 DEF LogInv
<1>3. CASE CalNext
  <2>1. PICK p \in Procs :
           \/ Quiet(p) /\ Silent
           \/ CellTold(p) \/ HaltTold(p) \/ FireTold(p)
    BY <1>3, CalSteps DEF LogInv
  <2>2. \A q \in Procs :
           pc'[q] \in {"idle", "load", "dispatch", "guard", "effects"} => ~out'[q].halt
    BY <2>1, HaltsAtSave
  <2>3. ASSUME NEW rec \in LogRecord, Silent \/ Tells(rec), NEW n \in Held PROVE Accounted(n)'
    BY <2>3, MissingKept, HeldType DEF LogInv
  <2>4. CASE Quiet(p) /\ Silent
    <3>1. Held' \subseteq Held
      BY <2>4, HeldMoves DEF LogInv
    <3>2. StepRecord(0, "noop") \in LogRecord
      BY StepRecordType DEF LogInv, Outcome
    <3>3. \A n \in Held' : Accounted(n)'
      BY <2>3, <2>4, <3>1, <3>2
    <3> QED
      BY <1>1, <2>2, <3>3 DEF LogInv
  <2>5. CASE CellTold(p)
    <3>1. Held' \subseteq Held
      BY <2>5, HeldMoves DEF LogInv
    <3>2. PICK c \in DOMAIN M.cells, raw \in Raws : Tells(CellRecord(p, c, Check(c, raw)))
      BY <2>5 DEF CellTold
    <3>3. CellRecord(p, c, Check(c, raw)) \in LogRecord
      BY CellRecordType, CheckType DEF LogInv
    <3>4. \A n \in Held' : Accounted(n)'
      BY <2>3, <3>1, <3>2, <3>3
    <3> QED
      BY <1>1, <2>2, <3>4 DEF LogInv
  <2>6. CASE HaltTold(p)
    <3>1. Held' \subseteq Held
      BY <2>6, HeldMoves DEF LogInv
    <3>2. StepRecord(ctx[p].fuel, "budget") \in LogRecord
      BY StepRecordType DEF LogInv, Outcome, TypeInv, TypeOK, Persisted
    <3>3. \A n \in Held' : Accounted(n)'
      BY <2>3, <2>6, <3>1, <3>2 DEF HaltTold
    <3> QED
      BY <1>1, <2>2, <3>3 DEF LogInv
  <2>7. CASE FireTold(p)
    <3> DEFINE n == ctx[p].fuel
               outcome == Kind(out[p], Edge(p).do)
               rec == StepRecord(n - 1, outcome)
    <3>1. Fire(p) /\ Tells(rec)
      BY <2>7 DEF FireTold
    <3>2. n \in Nat /\ n > 0 /\ n - 1 \in Nat /\ n \in Held /\ out[p] \in Output /\ ~out[p].halt
      BY <3>1 DEF Fire, LogInv, TypeInv, TypeOK, PhaseOK, Persisted, Held
    <3>3. outcome \in Outcome /\ outcome # "budget"
      BY <3>2, KindFacts
    <3> HIDE DEF outcome
    <3>4. rec \in LogRecord /\ rec.kind = "step" /\ rec.outcome # "budget" /\ rec.fuel = n - 1
      BY <3>2, <3>3, StepRecordType DEF LogInv, StepRecord
    <3>5. Held' \subseteq Held \cup {n - 1}
      BY <3>1, HeldFires DEF LogInv
    <3> HIDE DEF rec
    <3>6. PICK m \in Nat : m = n
      BY <3>2
    <3>7. Accounted(m - 1)'
      BY <3>1, <3>2, <3>4, <3>6, SpentIsTold DEF LogInv
    <3>8. \A k \in Held' : Accounted(k)'
      BY <2>3, <3>1, <3>4, <3>5, <3>6, <3>7
    <3> QED
      BY <1>1, <2>2, <3>8 DEF LogInv
  <2> QED
    BY <2>1, <2>4, <2>5, <2>6, <2>7
<1> QED
  BY <1>2, <1>3

(* No unit of fuel is gone without a step in the log that spent it, but for   *)
(* those the disk refused: with any number of hooks at once, killed between  *)
(* any two steps, torn, failed and lost saves, and whatever panics.          *)
THEOREM SpentFuelIsLogged == CalSpec => []SpentIsLogged
<1>1. LogInv => SpentIsLogged
  <2> SUFFICES ASSUME LogInv PROVE SpentIsLogged
    OBVIOUS
  <2>1. Loaded(stateFile).fuel \in Held
    BY DEF Loaded, Fresh, Held
  <2>2. Accounted(Loaded(stateFile).fuel)
    BY <2>1 DEF LogInv
  <2> QED
    BY <2>2 DEF Accounted, Missing, SpentIsLogged
<1> QED
  BY <1>1, LogInit, LogStep, PTL DEF CalSpec

-----------------------------------------------------------------------------
(* The steps the log reports were paid for: one hook at a time, with saves    *)
(* that succeed.                                                             *)

Saving == {p \in Procs : pc[p] \in {"save", "write", "rename"}}

(* What a hook has in hand while it dispatches is what the disk has; a hook   *)
(* about to save has taken at most one unit off it, for the step in the log. *)
StepInv ==
    /\ RefusalInv
    /\ LogTypeOK
    /\ \A p \in Procs : pc[p] \in {"dispatch", "guard", "effects"} => ctx[p].fuel = Balance
    /\ \A p \in Saving :
          /\ Cardinality(Steps) <= M.fuel - ctx[p].fuel + killed
          /\ Balance - 1 <= ctx[p].fuel
    /\ Saving = {} => Cardinality(Steps) <= M.fuel - Balance + killed

(* The steps in the log are finitely many, and a record adds at most one. *)
LEMMA StepsFinite ==
  ASSUME LogTypeOK
  PROVE  IsFiniteSet(Steps) /\ Cardinality(Steps) \in Nat
<1>1. log \in Seq(LogRecord) /\ Len(log) \in Nat /\ DOMAIN log = 1 .. Len(log)
  BY DEF LogTypeOK
<1>2. IsFiniteSet(1 .. Len(log))
  BY <1>1, FS_Interval
<1>3. Steps \in SUBSET (1 .. Len(log))
  BY <1>1 DEF Steps
<1>4. IsFiniteSet(Steps)
  BY <1>2, <1>3, FS_Subset
<1> QED
  BY <1>4, FS_CardinalityType

(* A record adds at most one step. *)
LEMMA StepsCount ==
  ASSUME LogTypeOK, NEW rec \in LogRecord, Silent \/ Tells(rec)
  PROVE  /\ Cardinality(Steps') \in Nat /\ Cardinality(Steps') <= Cardinality(Steps) + 1
         /\ Silent \/ rec.kind = "cell" \/ rec.outcome = "budget" => Steps' = Steps
<1>1. IsFiniteSet(Steps) /\ Cardinality(Steps) \in Nat
  BY StepsFinite
<1>2. CASE log' = log
  BY <1>1, <1>2 DEF Steps
<1>3. CASE log' = Append(log, rec)
  <2>1. Steps' = IF rec.kind = "step" /\ rec.outcome # "budget"
                 THEN Steps \cup {Len(log) + 1} ELSE Steps
    BY <1>3, LogGrows
  <2>2. Cardinality(Steps \cup {Len(log) + 1})
          = IF Len(log) + 1 \in Steps THEN Cardinality(Steps) ELSE Cardinality(Steps) + 1
    BY <1>1, FS_AddElement
  <2>3. Silent => Steps' = Steps
    BY DEF Silent, Steps
  <2>4. rec.kind = "cell" => rec.kind # "step"
    OBVIOUS
  <2> QED
    BY <1>1, <2>1, <2>2, <2>3, <2>4
<1> QED
  BY <1>2, <1>3 DEF Silent, Tells, FileCalibrator

(* With one process, a step is judged by that process alone. *)
LEMMA StepFrame ==
  ASSUME Solo, RefusalInv', LogTypeOK', NEW p \in Procs,
         pc'[p] \in {"dispatch", "guard", "effects"} => ctx'[p].fuel = Balance',
         pc'[p] \in {"save", "write", "rename"} =>
            /\ Cardinality(Steps') <= M.fuel - ctx'[p].fuel + killed'
            /\ Balance' - 1 <= ctx'[p].fuel,
         pc'[p] \notin {"save", "write", "rename"} =>
            Cardinality(Steps') <= M.fuel - Balance' + killed'
  PROVE  StepInv'
<1>1. \A q \in Procs : q = p
  BY DEF Solo
<1>2. Saving' \subseteq {p} /\ (p \in Saving' <=> pc'[p] \in {"save", "write", "rename"})
  BY <1>1 DEF Saving
<1>3. \A q \in Procs : pc'[q] \in {"dispatch", "guard", "effects"} => ctx'[q].fuel = Balance'
  BY <1>1
<1>4. \A q \in Saving' :
          /\ Cardinality(Steps') <= M.fuel - ctx'[q].fuel + killed'
          /\ Balance' - 1 <= ctx'[q].fuel
  BY <1>2
<1>5. Saving' = {} => Cardinality(Steps') <= M.fuel - Balance' + killed'
  BY <1>2
<1> QED
  BY <1>3, <1>4, <1>5 DEF StepInv

(* Before it saves, a hook has in hand what the disk has, and every step in   *)
(* the log is paid.                                                          *)
LEMMA StepFacts ==
  ASSUME Solo, StepInv, NEW p \in Procs
  PROVE  /\ M.fuel \in Nat /\ Balance \in Nat /\ ctx[p].fuel \in Nat /\ killed \in Nat
         /\ Cardinality(Steps) \in Nat
         /\ pc \in [Procs -> Phase]
         /\ ctx \in [Procs -> Persisted]
         /\ pc[p] \in {"dispatch", "guard", "effects"} => ctx[p].fuel = Balance
         /\ pc[p] \in {"save", "write", "rename"} =>
               /\ Cardinality(Steps) <= M.fuel - ctx[p].fuel + killed
               /\ Balance - 1 <= ctx[p].fuel
         /\ pc[p] \notin {"save", "write", "rename"} =>
               Cardinality(Steps) <= M.fuel - Balance + killed
<1>1. TypeInv
  BY DEF StepInv, RefusalInv
<1>2. M.fuel \in Nat /\ Balance \in Nat /\ ctx[p].fuel \in Nat
  BY <1>1, RefusalNumbers
<1>3. pc \in [Procs -> Phase] /\ ctx \in [Procs -> Persisted]
  BY <1>1 DEF TypeInv, TypeOK
<1>4. Cardinality(Steps) \in Nat /\ killed \in Nat
  BY StepsFinite DEF StepInv, LogTypeOK
<1>5. pc[p] \in {"save", "write", "rename"} => p \in Saving
  BY DEF Saving
<1>6. pc[p] \notin {"save", "write", "rename"} => Saving = {}
  BY DEF Saving, Solo
<1> QED
  BY <1>2, <1>3, <1>4, <1>5, <1>6 DEF StepInv

(* The steps of the hook that leave the log and the budget alone. *)
LEMMA StepQuiet ==
  ASSUME Solo, StepInv, RefusalInv', LogTypeOK', NEW p \in Procs,
         UNCHANGED stateFile, Steps' = Steps, killed' = killed, ctx'[p].fuel = ctx[p].fuel,
         \/ pc[p] \in {"dispatch", "guard", "effects"}
            /\ pc'[p] \in {"dispatch", "guard", "effects", "save"}
         \/ pc[p] \in {"save", "write", "rename"} /\ pc'[p] \in {"save", "write", "rename"}
         \/ pc[p] \in {"idle", "load", "deliver", "answer"}
            /\ pc'[p] \in {"idle", "load", "deliver", "answer"}
  PROVE  StepInv'
<1>1. Balance' = Balance
  BY DEF Balance
<1> QED
  BY <1>1, StepFacts, StepFrame

(* One hook's step keeps the account of the steps. *)
LEMMA StepOne ==
  ASSUME Solo, SavesSucceed, StepInv, RefusalInv', LogTypeOK', NEW p \in Procs,
         \/ (\E e \in Events : CalStart(p, e)) \/ CalCrash(p)
         \/ Unrecorded(p) /\ UNCHANGED tap
         \/ CellTold(p) \/ HaltTold(p) \/ FireTold(p)
  PROVE  StepInv'
<1>1. /\ M.fuel \in Nat /\ Balance \in Nat /\ ctx[p].fuel \in Nat /\ killed \in Nat
      /\ Cardinality(Steps) \in Nat
      /\ pc \in [Procs -> Phase]
      /\ ctx \in [Procs -> Persisted]
      /\ pc[p] \in {"dispatch", "guard", "effects"} => ctx[p].fuel = Balance
      /\ pc[p] \in {"save", "write", "rename"} =>
            /\ Cardinality(Steps) <= M.fuel - ctx[p].fuel + killed
            /\ Balance - 1 <= ctx[p].fuel
      /\ pc[p] \notin {"save", "write", "rename"} =>
            Cardinality(Steps) <= M.fuel - Balance + killed
  BY StepFacts
<1>2. TypeInv /\ LogTypeOK /\ Paid(p)
  BY DEF StepInv, RefusalInv
<1>3. CASE \E e \in Events : CalStart(p, e)
  <2>1. /\ UNCHANGED <<stateFile, log, killed, ctx>>
        /\ pc[p] = "idle" /\ pc'[p] = "load"
    BY <1>1, <1>3 DEF CalStart, Start, Goto, fileVars
  <2>2. Steps' = Steps
    BY <2>1 DEF Steps
  <2> QED
    BY <2>1, <2>2, StepQuiet
<1>4. CASE CalCrash(p)
  <2>1. /\ UNCHANGED <<stateFile, log>> /\ killed' = killed + 1
        /\ pc'[p] = "idle"
    BY <1>1, <1>4 DEF CalCrash, Crash, Close, Forget, Goto
  <2>2. Steps' = Steps /\ Balance' = Balance
    BY <2>1 DEF Steps, Balance
  <2> QED
    BY <1>1, <2>1, <2>2, StepFrame
<1>5. CASE CellTold(p)
  <2>1. PICK c \in DOMAIN M.cells, raw \in Raws :
           /\ RunCell(p, c, raw) \/ RunEffect(p, raw)
           /\ Tells(CellRecord(p, c, Check(c, raw)))
           /\ UNCHANGED <<pc, ctx, killed>>
    BY <1>5 DEF CellTold
  <2>2. CellRecord(p, c, Check(c, raw)) \in LogRecord
    BY <1>2, CellRecordType, CheckType
  <2>3. CellRecord(p, c, Check(c, raw)).kind = "cell"
    BY DEF CellRecord
  <2>4. Steps' = Steps
    BY <1>2, <2>1, <2>2, <2>3, StepsCount
  <2>5. pc[p] \in {"guard", "effects"} /\ UNCHANGED stateFile
    BY <2>1 DEF RunCell, RunEffect, AtGuard, AtEffect, fileVars
  <2> QED
    BY <2>1, <2>4, <2>5, StepQuiet
<1>6. CASE HaltTold(p)
  <2>1. StepRecord(ctx[p].fuel, "budget") \in LogRecord
    BY <1>1, <1>2, StepRecordType DEF Outcome
  <2>2. StepRecord(ctx[p].fuel, "budget").outcome = "budget"
    BY DEF StepRecord
  <2>3. Steps' = Steps
    BY <1>2, <1>6, <2>1, <2>2, StepsCount DEF HaltTold
  <2>4. pc[p] = "dispatch" /\ pc'[p] = "save" /\ UNCHANGED <<ctx, stateFile, killed>>
    BY <1>1, <1>6 DEF HaltTold, BudgetHalt, Goto, fileVars
  <2> QED
    BY <2>3, <2>4, StepQuiet
<1>7. CASE FireTold(p)
  <2> DEFINE outcome == Kind(out[p], Edge(p).do)
  <2>1. /\ Fire(p) /\ Tells(StepRecord(ctx[p].fuel - 1, outcome)) /\ killed' = killed
        /\ ctx[p].fuel > 0 /\ out[p] \in Output
    BY <1>2, <1>7 DEF FireTold, Fire, TypeInv, TypeOK, PhaseOK
  <2>2. outcome \in Outcome
    BY <2>1, KindFacts
  <2> HIDE DEF outcome
  <2>3. ctx[p].fuel - 1 \in Nat
    BY <1>1, <2>1
  <2>4. StepRecord(ctx[p].fuel - 1, outcome) \in LogRecord
    BY <1>2, <2>2, <2>3, StepRecordType
  <2>5. Cardinality(Steps') \in Nat /\ Cardinality(Steps') <= Cardinality(Steps) + 1
    BY <1>2, <2>1, <2>4, StepsCount
  <2>6. /\ ctx' = [ctx EXCEPT ![p].fuel = @ - 1, ![p].state = Edge(p).to]
        /\ pc[p] = "effects" /\ pc'[p] = "save" /\ UNCHANGED stateFile
    BY <1>1, <2>1 DEF Fire, Goto, fileVars
  <2>7. ctx'[p].fuel = ctx[p].fuel - 1
    BY <1>1, <2>6 DEF Persisted
  <2>8. Balance' = Balance
    BY <2>6 DEF Balance
  <2> QED
    BY <1>1, <2>1, <2>5, <2>6, <2>7, <2>8, StepFrame
<1>8. CASE Unrecorded(p) /\ UNCHANGED tap
  <2>1. Steps' = Steps /\ killed' = killed
    BY <1>8 DEF tap, Steps
  <2>2. CASE Load(p)
    <3>1. ctx'[p] = Loaded(stateFile) /\ UNCHANGED stateFile /\ pc[p] = "load" /\ pc'[p] = "dispatch"
      BY <1>1, <2>2 DEF Load, Goto, fileVars
    <3>2. Balance' = Balance /\ ctx'[p].fuel = Balance
      BY <3>1 DEF Balance
    <3> QED
      BY <1>1, <2>1, <3>1, <3>2, StepFrame
  <2>3. CASE Rename(p)
    <3>1. pc[p] = "rename" /\ tmpFile = Whole(ctx[p])
      BY <1>2, <2>3 DEF Rename, Paid
    <3>2. stateFile' = Whole(ctx[p])
      BY <2>3, <3>1 DEF Rename, RenameTmp, Whole
    <3>3. Balance' = ctx[p].fuel
      BY <3>2 DEF Balance, Loaded, Whole
    <3>4. pc'[p] = "deliver" /\ UNCHANGED ctx
      BY <1>1, <2>3 DEF Rename, Goto
    <3> QED
      BY <1>1, <2>1, <3>1, <3>3, <3>4, StepFrame
  <2>4. CASE \/ TerminalState(p) \/ Consider(p) \/ PassOver(p) \/ Hold(p) \/ Fail(p) \/ NoMatch(p)
             \/ Panic(p)
    <3>1. /\ pc[p] \in {"dispatch", "guard", "effects"}
          /\ pc'[p] \in {"dispatch", "guard", "effects", "save"}
          /\ UNCHANGED <<ctx, stateFile>>
      BY <1>1, <2>4
      DEF TerminalState, Consider, PassOver, Hold, Fail, NoMatch, Panic, AtGuard, AtEffect, Goto,
          fileVars
    <3> QED
      BY <2>1, <3>1, StepQuiet
  <2>5. CASE ApplyEffect(p)
    <3> DEFINE kept == Remember(Edge(p).do[eff[p]], ctx[p].vars, cells[p])
    <3>1. /\ ctx' = [ctx EXCEPT ![p].vars = kept]
          /\ pc[p] = "effects" /\ UNCHANGED <<pc, stateFile>>
      BY <2>5 DEF ApplyEffect, AtEffect, fileVars
    <3> HIDE DEF kept
    <3>2. ctx'[p].fuel = ctx[p].fuel
      BY <1>1, <3>1 DEF Persisted
    <3> QED
      BY <2>1, <3>1, <3>2, StepQuiet
  <2>6. CASE Open(p) \/ Write(p)
    <3>1. /\ pc[p] \in {"save", "write"} /\ pc'[p] \in {"write", "rename"}
          /\ UNCHANGED ctx
      BY <1>1, <2>6 DEF Open, Write, Goto
    <3>2. CASE Open(p)
      BY <2>1, <3>1, <3>2, StepQuiet DEF Open, OpenTmp
    <3>3. CASE Write(p)
      <4>1. handle[p] = "tmp"
        BY <1>2, <3>3 DEF Write, Paid
      <4>2. UNCHANGED stateFile
        BY <3>3, <4>1 DEF Write, WriteTmp
      <4> QED
        BY <2>1, <3>1, <4>2, StepQuiet
    <3> QED
      BY <2>6, <3>2, <3>3
  <2>7. CASE DeliverInbox(p) \/ DeliverFails(p) \/ AllDelivered(p)
    <3>1. /\ pc[p] = "deliver" /\ pc'[p] \in {"deliver", "answer"}
          /\ UNCHANGED <<ctx, stateFile>>
      BY <1>1, <2>7 DEF DeliverInbox, DeliverFails, AllDelivered, Goto, fileVars
    <3> QED
      BY <2>1, <3>1, StepQuiet
  <2>8. CASE EmitProtocol(p)
    <3>1. pc[p] = "answer" /\ pc'[p] = "idle" /\ UNCHANGED stateFile
      BY <1>1, <2>8 DEF EmitProtocol, Forget, Goto, fileVars
    <3>2. Balance' = Balance
      BY <3>1 DEF Balance
    <3> QED
      BY <1>1, <2>1, <3>1, <3>2, StepFrame
  <2>9. ~LoadFails(p) /\ ~SaveFails(p)
    BY DEF LoadFails, SaveFails, SavesSucceed
  <2> QED
    BY <1>8, <2>2, <2>3, <2>4, <2>5, <2>6, <2>7, <2>8, <2>9 DEF Unrecorded
<1> QED
  BY <1>3, <1>4, <1>5, <1>6, <1>7, <1>8

(* At the start no step is logged. *)
LEMMA StepInit == CalInit => StepInv
<1> SUFFICES ASSUME CalInit PROVE StepInv
  OBVIOUS
<1>1. RefusalInv /\ LogTypeOK
  BY RefusalInit, LogTypeInit DEF CalInit
<1>2. Steps = {} /\ killed = 0 /\ Cardinality(Steps) = 0
  BY FS_EmptySet DEF CalInit, Steps
<1>3. Balance = M.fuel /\ M.fuel \in Nat
  BY FuelAssumption DEF FuelAssumption, CalInit, Init, FileInit, Absent, Balance, Loaded, Fresh
<1>4. \A p \in Procs : pc[p] = "idle"
  BY DEF CalInit, Init
<1> QED
  BY <1>1, <1>2, <1>3, <1>4 DEF StepInv, Saving

(* Every step of the hooks keeps the account of the steps. *)
LEMMA StepStep ==
  ASSUME Solo, SavesSucceed
  PROVE  StepInv /\ [CalNext]_<<vars, tap>> => StepInv'
<1> SUFFICES ASSUME StepInv, [CalNext]_<<vars, tap>> PROVE StepInv'
  OBVIOUS
<1>1. TypeInv /\ LogTypeOK
  BY DEF StepInv, RefusalInv
<1>2. RefusalInv' /\ LogTypeOK'
  BY <1>1, CalStepIsStep, RefusalStep, LogTypeStep DEF StepInv
<1>3. CASE UNCHANGED <<vars, tap>>
  <2>1. UNCHANGED <<pc, ctx, stateFile, log, killed>>
    BY <1>3 DEF vars, procVars, fileVars, tap
  <2>2. Saving' = Saving /\ Steps' = Steps /\ Balance' = Balance
    BY <2>1 DEF Saving, Steps, Balance
  <2> QED
    BY <1>2, <2>1, <2>2 DEF StepInv
<1>4. CASE CalNext
  <2>1. PICK p \in Procs :
           \/ (\E e \in Events : CalStart(p, e)) \/ CalCrash(p)
           \/ Unrecorded(p) /\ UNCHANGED tap
           \/ CalCell(p) \/ CalRun(p) \/ CalHalt(p) \/ CalFire(p)
    BY <1>4 DEF CalNext
  <2> QED
    BY <1>1, <1>2, <2>1, CellIsTold, HaltIsTold, FireIsTold, StepOne
<1> QED
  BY <1>3, <1>4

(* Of hooks that run one at a time and whose saves succeed, the log never     *)
(* reports a step that the record on disk has not paid for, but for those of *)
(* the hooks killed before they saved and the one about to save.             *)
THEOREM LoggedStepsArePaid ==
  ASSUME Solo, SavesSucceed
  PROVE  CalSpec => []StepsArePaid
<1>1. StepInv => StepsArePaid
  <2> SUFFICES ASSUME StepInv PROVE StepsArePaid
    OBVIOUS
  <2>1. StepsArePaid <=>
           Cardinality(Steps) <= (M.fuel - Loaded(stateFile).fuel) + killed + Cardinality(Saving)
    BY DEF StepsArePaid, Saving
  <2>2. M.fuel \in Nat /\ Balance \in Nat /\ killed \in Nat /\ Cardinality(Steps) \in Nat
    BY FuelAssumption, LoadedType, StepsFinite
    DEF FuelAssumption, StepInv, RefusalInv, TypeInv, TypeOK, FileTypeOK, Balance, Persisted, LogTypeOK
  <2>3. CASE Saving = {}
    <3>1. Cardinality(Saving) = 0
      BY <2>3, FS_EmptySet
    <3>2. Cardinality(Steps) <= M.fuel - Balance + killed
      BY <2>3 DEF StepInv
    <3> QED
      BY <2>1, <2>2, <3>1, <3>2 DEF Balance
  <2>4. CASE Saving # {}
    <3>1. PICK p \in Procs : Saving = {p}
      BY <2>4 DEF Saving, Solo
    <3>2. Cardinality(Saving) = 1
      BY <3>1, FS_Singleton
    <3>3. ctx[p].fuel \in Nat
      BY RefusalNumbers DEF StepInv, RefusalInv
    <3>4. Cardinality(Steps) <= M.fuel - ctx[p].fuel + killed /\ Balance - 1 <= ctx[p].fuel
      BY <3>1 DEF StepInv
    <3> QED
      BY <2>1, <2>2, <3>2, <3>3, <3>4 DEF Balance
  <2> QED
    BY <2>3, <2>4
<1>2. StepInv /\ [CalNext]_<<vars, tap>> => StepInv'
  BY StepStep
<1> QED
  BY <1>1, <1>2, StepInit, PTL DEF CalSpec

-----------------------------------------------------------------------------
(* The join of predictions to steps: one hook at a time.                     *)

Asked(c) == {k \in DOMAIN log : log[k].kind = "cell" /\ log[k].cell = c}

(* The last record of cell c is that of what hook p was answered. *)
Heard(p, c) ==
    \E j \in Asked(c) : /\ log[j].fuel = ctx[p].fuel
                        /\ log[j].answer = cells[p][c]
                        /\ \A k \in Asked(c) : k <= j

(* Until a hook considers a transition no cell has run; until it has fired,   *)
(* the last record of each cell that has is its own, if it could write it.   *)
HeardOK(p) ==
    /\ pc[p] \in {"idle", "load", "dispatch"} => cells[p] = NoCells
    /\ pc[p] \in {"guard", "effects"} =>
          \A c \in DOMAIN M.cells : cells[p][c].ran /\ c \notin missed[p] => Heard(p, c)

JoinInv == TypeInv /\ LogTypeOK /\ \A p \in Procs : HeardOK(p)

(* At the start nothing has run. *)
LEMMA JoinInit == CalInit => JoinInv
<1> SUFFICES ASSUME CalInit PROVE JoinInv
  OBVIOUS
<1>1. TypeInv /\ LogTypeOK
  BY TypeInit, LogTypeInit DEF CalInit
<1>2. \A p \in Procs : HeardOK(p)
  BY DEF HeardOK, CalInit, Init
<1> QED
  BY <1>1, <1>2 DEF JoinInv

(* With one process, it is judged by that process alone. *)
LEMMA JoinFrame ==
  ASSUME Solo, TypeInv', LogTypeOK', NEW p \in Procs, HeardOK(p)'
  PROVE  JoinInv'
<1>1. ASSUME NEW q \in Procs PROVE HeardOK(q)'
  <2>1. q = p
    BY DEF Solo
  <2> QED
    BY <2>1
<1> QED
  BY <1>1 DEF JoinInv

(* The steps of a hook that tell nothing. *)
LEMMA HeardKept ==
  ASSUME JoinInv, NEW p \in Procs, UNCHANGED <<log, missed>>, ctx'[p].fuel = ctx[p].fuel,
         cells'[p] = cells[p],
         \/ pc[p] = "dispatch" /\ pc'[p] = "guard"
         \/ pc[p] \in {"guard", "effects"} /\ pc'[p] \in {"guard", "effects"}
         \/ pc'[p] \notin {"idle", "load", "dispatch", "guard", "effects"}
  PROVE  HeardOK(p)'
<1>1. ASSUME NEW c \in DOMAIN M.cells, Heard(p, c) PROVE Heard(p, c)'
  BY <1>1 DEF Heard, Asked
<1>2. CASE pc[p] = "dispatch" /\ pc'[p] = "guard"
  <2>1. cells'[p] = NoCells
    BY <1>2 DEF JoinInv, HeardOK
  <2>2. \A c \in DOMAIN M.cells : ~NoCells[c].ran
    BY DEF NoCells, ZeroResult
  <2> QED
    BY <1>2, <2>1, <2>2 DEF HeardOK
<1>3. CASE pc[p] \in {"guard", "effects"} /\ pc'[p] \in {"guard", "effects"}
  BY <1>1, <1>3 DEF JoinInv, HeardOK
<1>4. CASE pc'[p] \notin {"idle", "load", "dispatch", "guard", "effects"}
  BY <1>4 DEF HeardOK
<1> QED
  BY <1>2, <1>3, <1>4

(* A cell's answer, once told, is in the last record of the cell, and the     *)
(* last record of any other cell is the last still.                          *)
LEMMA HeardGrows ==
  ASSUME LogTypeOK, NEW p \in Procs, NEW c \in DOMAIN M.cells, NEW rec \in LogRecord,
         log' = Append(log, rec), rec.kind = "cell", rec.cell = c,
         rec.fuel = ctx[p].fuel, rec.answer = cells'[p][c], ctx' = ctx
  PROVE  /\ Heard(p, c)'
         /\ \A d \in DOMAIN M.cells \ {c} :
               Heard(p, d) /\ cells'[p][d] = cells[p][d] => Heard(p, d)'
<1> DEFINE last == Len(log) + 1
<1>1. /\ DOMAIN log' = DOMAIN log \cup {last}
      /\ log'[last] = rec
      /\ \A i \in DOMAIN log : log'[i] = log[i]
  BY LogGrows
<1>2. \A i \in DOMAIN log : i \in Nat /\ i <= last
  BY DEF LogTypeOK
<1>3. last \in Nat
  BY DEF LogTypeOK
<1> HIDE DEF last
<1>4. Asked(c)' = Asked(c) \cup {last}
  BY <1>1 DEF Asked
<1>5. ASSUME NEW d \in DOMAIN M.cells \ {c} PROVE Asked(d)' = Asked(d)
  BY <1>1 DEF Asked
<1>6. Heard(p, c)'
  <2>1. \A k \in Asked(c)' : k <= last
    BY <1>2, <1>3, <1>4 DEF Asked
  <2>2. last \in Asked(c)' /\ log'[last].fuel = ctx'[p].fuel /\ log'[last].answer = cells'[p][c]
    BY <1>1, <1>4
  <2> QED
    BY <2>1, <2>2 DEF Heard
<1>7. ASSUME NEW d \in DOMAIN M.cells \ {c}, Heard(p, d), cells'[p][d] = cells[p][d]
      PROVE  Heard(p, d)'
  <2>1. PICK j \in Asked(d) : /\ log[j].fuel = ctx[p].fuel
                              /\ log[j].answer = cells[p][d]
                              /\ \A k \in Asked(d) : k <= j
    BY <1>7 DEF Heard
  <2>2. log'[j] = log[j]
    BY <1>1 DEF Asked
  <2> QED
    BY <1>5, <1>7, <2>1, <2>2 DEF Heard
<1> QED
  BY <1>6, <1>7

(* One hook's step keeps what joins predictions to steps. *)
LEMMA JoinOne ==
  ASSUME Solo, JoinInv, TypeInv', LogTypeOK', NEW p \in Procs,
         \/ (\E e \in Events : CalStart(p, e)) \/ CalCrash(p)
         \/ Unrecorded(p) /\ UNCHANGED tap
         \/ CellTold(p) \/ HaltTold(p) \/ FireTold(p)
  PROVE  JoinInv'
<1>1. /\ TypeInv /\ LogTypeOK /\ HeardOK(p)
      /\ pc \in [Procs -> Phase] /\ ctx \in [Procs -> Persisted]
      /\ cells \in [Procs -> [DOMAIN M.cells -> CellResult]]
      /\ missed \in [Procs -> SUBSET DOMAIN M.cells]
  BY DEF JoinInv, TypeInv, TypeOK, LogTypeOK
<1>2. CASE \E e \in Events : CalStart(p, e)
  <2>1. pc[p] = "idle" /\ pc'[p] = "load" /\ cells' = cells
    BY <1>1, <1>2 DEF CalStart, Start, Goto
  <2>2. HeardOK(p)'
    BY <1>1, <2>1 DEF HeardOK
  <2> QED
    BY <2>2, JoinFrame
<1>3. ASSUME Forget(p) PROVE JoinInv'
  <2>1. pc'[p] = "idle" /\ cells'[p] = NoCells
    BY <1>1, <1>3 DEF Forget, Goto
  <2>2. HeardOK(p)'
    BY <2>1 DEF HeardOK
  <2> QED
    BY <2>2, JoinFrame
<1>4. CASE CalCrash(p)
  BY <1>3, <1>4 DEF CalCrash, Crash
<1>5. CASE Unrecorded(p) /\ UNCHANGED tap
  <2>1. UNCHANGED <<log, missed>>
    BY <1>5 DEF tap
  <2>2. CASE Load(p) \/ LoadFails(p)
    <3>1. pc[p] = "load" /\ pc'[p] = "dispatch" /\ cells' = cells
      BY <1>1, <2>2 DEF Load, LoadFails, Goto
    <3>2. HeardOK(p)'
      BY <1>1, <3>1 DEF HeardOK
    <3> QED
      BY <3>2, JoinFrame
  <2>3. CASE \/ TerminalState(p) \/ Consider(p) \/ PassOver(p) \/ Hold(p) \/ Fail(p) \/ NoMatch(p)
             \/ Panic(p) \/ Open(p) \/ Write(p) \/ Rename(p) \/ SaveFails(p)
             \/ DeliverInbox(p) \/ DeliverFails(p) \/ AllDelivered(p)
    <3>1. /\ UNCHANGED <<ctx, cells>>
          /\ \/ pc[p] = "dispatch" /\ pc'[p] = "guard"
             \/ pc[p] \in {"guard", "effects"} /\ pc'[p] \in {"guard", "effects"}
             \/ pc'[p] \notin {"idle", "load", "dispatch", "guard", "effects"}
      BY <1>1, <2>3
      DEF TerminalState, Consider, PassOver, Hold, Fail, NoMatch, Panic, AtGuard, AtEffect, Open,
          Write, Rename, SaveFails, DeliverInbox, DeliverFails, AllDelivered, Goto
    <3>2. HeardOK(p)'
      BY <2>1, <3>1, HeardKept
    <3> QED
      BY <3>2, JoinFrame
  <2>4. CASE ApplyEffect(p)
    <3> DEFINE kept == Remember(Edge(p).do[eff[p]], ctx[p].vars, cells[p])
    <3>1. /\ ctx' = [ctx EXCEPT ![p].vars = kept]
          /\ pc[p] = "effects" /\ UNCHANGED <<pc, cells>>
      BY <2>4 DEF ApplyEffect, AtEffect
    <3> HIDE DEF kept
    <3>2. ctx'[p].fuel = ctx[p].fuel
      BY <1>1, <3>1 DEF Persisted
    <3>3. HeardOK(p)'
      BY <2>1, <3>1, <3>2, HeardKept
    <3> QED
      BY <3>3, JoinFrame
  <2>5. CASE EmitProtocol(p)
    BY <1>3, <2>5 DEF EmitProtocol
  <2> QED
    BY <1>5, <2>2, <2>3, <2>4, <2>5 DEF Unrecorded
<1>6. CASE CellTold(p)
  <2>1. PICK c \in DOMAIN M.cells, raw \in Raws :
           /\ RunCell(p, c, raw) \/ RunEffect(p, raw)
           /\ cells' = [cells EXCEPT ![p][c] = Check(c, raw)]
           /\ Tells(CellRecord(p, c, Check(c, raw)))
           /\ missed' = IF log' = log THEN [missed EXCEPT ![p] = @ \cup {c}] ELSE missed
           /\ UNCHANGED <<pc, ctx>>
    BY <1>6 DEF CellTold
  <2> DEFINE answer == Check(c, raw)
             rec == CellRecord(p, c, answer)
  <2>2. /\ rec \in LogRecord /\ rec.kind = "cell" /\ rec.cell = c
        /\ rec.fuel = ctx[p].fuel /\ rec.answer = answer
    BY <1>1, CellRecordType, CheckType DEF CellRecord
  <2>3. pc[p] \in {"guard", "effects"}
    BY <2>1 DEF RunCell, RunEffect, AtGuard, AtEffect
  <2> HIDE DEF answer
  <2>4. cells' = [cells EXCEPT ![p][c] = answer] /\ Tells(rec)
    BY <2>1 DEF answer
  <2> HIDE DEF rec
  <2>5. cells'[p][c] = answer /\ \A d \in DOMAIN M.cells \ {c} : cells'[p][d] = cells[p][d]
    BY <1>1, <2>4
  <2>6. \A d \in DOMAIN M.cells : cells[p][d].ran /\ d \notin missed[p] => Heard(p, d)
    BY <1>1, <2>3 DEF HeardOK
  <2>7. CASE log' = log
    <3>1. missed'[p] = missed[p] \cup {c}
      BY <1>1, <2>1, <2>7
    <3>2. ASSUME NEW d \in DOMAIN M.cells, cells'[p][d].ran, d \notin missed'[p]
          PROVE  Heard(p, d)'
      <4>1. d \in DOMAIN M.cells \ {c} /\ d \notin missed[p]
        BY <3>1, <3>2
      <4>2. Heard(p, d) /\ cells'[p][d] = cells[p][d]
        BY <2>5, <2>6, <3>2, <4>1
      <4> QED
        BY <2>1, <2>7, <4>2 DEF Heard, Asked
    <3>3. HeardOK(p)'
      BY <2>1, <2>3, <3>2 DEF HeardOK
    <3> QED
      BY <3>3, JoinFrame
  <2>8. CASE log' = Append(log, rec)
    <3>1. log' # log
      <4>1. log \in Seq(LogRecord)
        BY <1>1 DEF LogTypeOK
      <4>2. Len(log') = Len(log) + 1 /\ Len(log) \in Nat
        BY <2>2, <2>8, <4>1
      <4> QED
        BY <4>2
    <3>2. missed' = missed
      BY <2>1, <3>1
    <3>3. /\ Heard(p, c)'
          /\ \A d \in DOMAIN M.cells \ {c} :
                Heard(p, d) /\ cells'[p][d] = cells[p][d] => Heard(p, d)'
      BY <1>1, <2>1, <2>2, <2>5, <2>8, HeardGrows
    <3>4. ASSUME NEW d \in DOMAIN M.cells, cells'[p][d].ran, d \notin missed'[p]
          PROVE  Heard(p, d)'
      <4>1. CASE d = c
        BY <3>3, <4>1
      <4>2. CASE d \in DOMAIN M.cells \ {c}
        BY <2>5, <2>6, <3>2, <3>3, <3>4, <4>2
      <4> QED
        BY <4>1, <4>2
    <3>5. HeardOK(p)'
      BY <2>1, <2>3, <3>4 DEF HeardOK
    <3> QED
      BY <3>5, JoinFrame
  <2> QED
    BY <2>4, <2>7, <2>8 DEF Tells, FileCalibrator
<1>7. CASE HaltTold(p) \/ FireTold(p)
  <2>1. pc'[p] = "save"
    BY <1>1, <1>7 DEF HaltTold, FireTold, BudgetHalt, Fire, Goto
  <2>2. HeardOK(p)'
    BY <2>1 DEF HeardOK
  <2> QED
    BY <2>2, JoinFrame
<1> QED
  BY <1>2, <1>4, <1>5, <1>6, <1>7

(* Every step of the hooks keeps it. *)
LEMMA JoinStep ==
  ASSUME Solo
  PROVE  JoinInv /\ [CalNext]_<<vars, tap>> => JoinInv'
<1> SUFFICES ASSUME JoinInv, [CalNext]_<<vars, tap>> PROVE JoinInv'
  OBVIOUS
<1>1. TypeInv /\ LogTypeOK
  BY DEF JoinInv
<1>2. TypeInv' /\ LogTypeOK'
  BY <1>1, CalStepIsStep, TypeStep, LogTypeStep
<1>3. CASE UNCHANGED <<vars, tap>>
  <2>1. UNCHANGED <<pc, ctx, cells, log, missed>>
    BY <1>3 DEF vars, procVars, tap
  <2>2. \A p \in Procs : HeardOK(p)'
    BY <2>1 DEF JoinInv, HeardOK, Heard, Asked
  <2> QED
    BY <1>2, <2>2 DEF JoinInv
<1>4. CASE CalNext
  <2>1. PICK p \in Procs :
           \/ (\E e \in Events : CalStart(p, e)) \/ CalCrash(p)
           \/ Unrecorded(p) /\ UNCHANGED tap
           \/ CalCell(p) \/ CalRun(p) \/ CalHalt(p) \/ CalFire(p)
    BY <1>4 DEF CalNext
  <2> QED
    BY <1>1, <1>2, <2>1, CellIsTold, HaltIsTold, FireIsTold, JoinOne
<1> QED
  BY <1>3, <1>4

(* Where the last record of a cell has one more unit of fuel than the last    *)
(* of the log, it is the one that is joined.                                 *)
LEMMA PredictionIs ==
  ASSUME NEW entries \in Seq(LogRecord), NEW c, NEW j \in DOMAIN entries,
         entries[j].kind = "cell", entries[j].cell = c,
         entries[j].fuel = entries[Len(entries)].fuel + 1,
         \A k \in DOMAIN entries : entries[k].kind = "cell" /\ entries[k].cell = c => k <= j
  PROVE  Prediction(entries, c) = entries[j].answer
<1> DEFINE fuel == entries[Len(entries)].fuel + 1
           fed  == {k \in DOMAIN entries :
                      entries[k].kind = "cell" /\ entries[k].cell = c /\ entries[k].fuel = fuel}
<1>1. j \in fed /\ fed # {} /\ (\A k \in fed : k <= j) /\ \A k \in fed : k \in Nat
  OBVIOUS
<1>2. Prediction(entries, c) = IF fed = {} THEN ZeroResult
                               ELSE entries[CHOOSE i \in fed : \A k \in fed : k <= i].answer
  BY DEF Prediction
<1> HIDE DEF fed
<1>3. \A i \in fed : (\A k \in fed : k <= i) => i = j
  BY <1>1
<1>4. (CHOOSE i \in fed : \A k \in fed : k <= i) = j
  BY <1>1, <1>3
<1> QED
  BY <1>1, <1>2, <1>4

(* Of hooks that run one at a time, whatever is killed, fails or panics, a   *)
(* logged transition is joined to the answers that its hook was given, of    *)
(* each cell it asked and could log.                                         *)
THEOREM PredictionsJoinSteps ==
  ASSUME Solo
  PROVE  CalSpec => JoinsByLastCell
<1>1. ASSUME JoinInv, NEW p \in Procs, CalFire(p), log' # log,
             NEW c \in DOMAIN M.cells, cells[p][c].ran, c \notin missed[p]
      PROVE  Prediction(log', c) = cells[p][c]
  <2>1. TypeInv /\ LogTypeOK /\ HeardOK(p)
    BY <1>1 DEF JoinInv
  <2>2. FireTold(p)
    BY <1>1, <2>1, FireIsTold
  <2> DEFINE n == ctx[p].fuel
             outcome == Kind(out[p], Edge(p).do)
             rec == StepRecord(n - 1, outcome)
  <2>3. /\ pc[p] = "effects" /\ n \in Nat /\ n - 1 \in Nat /\ out[p] \in Output
        /\ log' = Append(log, rec)
    BY <1>1, <2>1, <2>2
    DEF FireTold, Fire, Tells, FileCalibrator, TypeInv, TypeOK, PhaseOK, Persisted
  <2>4. outcome \in Outcome
    BY <2>3, KindFacts
  <2> HIDE DEF outcome
  <2>5. rec \in LogRecord /\ rec.kind = "step" /\ rec.fuel = n - 1
    BY <2>3, <2>4, StepRecordType DEF StepRecord
  <2> HIDE DEF rec
  <2>6. PICK j \in Asked(c) : /\ log[j].fuel = n
                              /\ log[j].answer = cells[p][c]
                              /\ \A k \in Asked(c) : k <= j
    BY <1>1, <2>1, <2>3 DEF HeardOK, Heard
  <2>7. /\ log \in Seq(LogRecord) /\ log' \in Seq(LogRecord) /\ Len(log') = Len(log) + 1
        /\ DOMAIN log' = DOMAIN log \cup {Len(log) + 1}
        /\ log'[Len(log) + 1] = rec
        /\ \A i \in DOMAIN log : log'[i] = log[i]
    BY <2>1, <2>3, <2>5 DEF LogTypeOK
  <2>8. /\ j \in DOMAIN log' /\ log'[j].kind = "cell" /\ log'[j].cell = c
        /\ log'[j].fuel = log'[Len(log')].fuel + 1
        /\ log'[j].answer = cells[p][c]
    BY <2>3, <2>5, <2>6, <2>7 DEF Asked
  <2>9. \A k \in DOMAIN log' : log'[k].kind = "cell" /\ log'[k].cell = c => k <= j
    BY <2>5, <2>6, <2>7 DEF Asked
  <2>10. Prediction(log', c) = log'[j].answer
    <3> DEFINE entries == log'
    <3>1. /\ entries \in Seq(LogRecord) /\ j \in DOMAIN entries
          /\ entries[j].kind = "cell" /\ entries[j].cell = c
          /\ entries[j].fuel = entries[Len(entries)].fuel + 1
          /\ \A k \in DOMAIN entries : entries[k].kind = "cell" /\ entries[k].cell = c => k <= j
      BY <2>7, <2>8, <2>9
    <3> HIDE DEF entries
    <3>2. Prediction(entries, c) = entries[j].answer
      BY <3>1, PredictionIs
    <3> QED
      BY <3>2 DEF entries
  <2> QED
    BY <2>8, <2>10
<1>2. JoinInv /\ [CalNext]_<<vars, tap>> => JoinInv'
  BY JoinStep
<1>3. JoinInv /\ [CalNext]_<<vars, tap>> =>
        [\A p \in Procs : CalFire(p) /\ log' # log =>
            \A c \in DOMAIN M.cells :
               cells[p][c].ran /\ c \notin missed[p] => Prediction(log', c) = cells[p][c]]_<<vars, tap>>
  BY <1>1, Zenon
<1> QED
  BY <1>2, <1>3, JoinInit, PTL DEF CalSpec, JoinsByLastCell
=============================================================================
