---------------------------- MODULE Calibration ----------------------------
(***************************************************************************)
(* The calibration log beside the hook: every cell that runs and every     *)
(* step of the budget appends one record to it, in the middle of the       *)
(* dispatch and before the session's record is saved.  The log only        *)
(* watches: each step here is a step of Hook with what it appends.         *)
(*                                                                         *)
(* A record does not name the dispatch it was written in: a reader finds   *)
(* what a step was decided on by the fuel of the records before it.        *)
(***************************************************************************)
EXTENDS Hook

CONSTANTS
    Workload,   \* bound: the hooks started
    MaxDropped  \* bound: the records that fail to be written

ASSUME CalibrationAssumption == Workload \in Nat /\ MaxDropped \in Nat

VARIABLES
    log,        \* calibration.jsonl
    missed,     \* history: the cells of each process's hook with no record written
    started,    \* history: the hooks started
    dropped,    \* history: the records that could not be written
    killed      \* history: the hooks killed

tap == <<log, missed, started, dropped, killed>>

CalInit ==
    /\ Init
    /\ log = <<>>
    /\ missed = [p \in Procs |-> {}]
    /\ started = 0
    /\ dropped = 0
    /\ killed = 0

-----------------------------------------------------------------------------
(* FileCalibrator: one line in one write to a file opened for appending, so  *)
(* it is there as a whole or, when the disk refuses it, counted as dropped.  *)
FileCalibrator(rec) ==
    \/ log' = Append(log, rec) /\ UNCHANGED dropped
    \/ dropped < MaxDropped /\ dropped' = dropped + 1 /\ UNCHANGED log

EmitCell(p, c, r) ==
    /\ FileCalibrator([kind |-> "cell", fuel |-> ctx[p].fuel, cell |-> c,
                       answer |-> r, outcome |-> ""])
    /\ missed' = IF log' = log THEN [missed EXCEPT ![p] = @ \cup {c}] ELSE missed

StepRecord(fuel, outcome) ==
    [kind |-> "step", fuel |-> fuel, cell |-> "", answer |-> ZeroResult, outcome |-> outcome]

(* Faulty: the step is recorded with the fuel it started from. *)
EmitStepEarly(p, outcome) == FileCalibrator(StepRecord(ctx[p].fuel, outcome))

(* A step is recorded with the fuel it leaves. *)
EmitStep(p, outcome) == FileCalibrator(StepRecord(ctx[p].fuel', outcome))

(* Output.Kind. *)
Kind(o, do) ==
    IF o.block # {} THEN "block"
    ELSE IF o.halt THEN "budget"
    ELSE IF o.inject # <<>> \/ o.emits # <<>> THEN "inject"
    ELSE IF \E i \in DOMAIN do : do[i].kind = "SetVar" THEN "setvar"
    ELSE "noop"

Watched == <<started, killed>>

CalStart(p, e) ==
    /\ started < Workload
    /\ Start(p, e)
    /\ started' = started + 1
    /\ missed' = [missed EXCEPT ![p] = {}]
    /\ UNCHANGED <<log, dropped, killed>>

CalCell(p) ==
    /\ \E c \in DOMAIN M.cells, raw \in Raws :
          RunCell(p, c, raw) /\ EmitCell(p, c, cells'[p][c])
    /\ UNCHANGED Watched

CalRun(p) ==
    /\ \E raw \in Raws : RunEffect(p, raw)
    /\ LET c == Edge(p).do[eff[p]].name IN EmitCell(p, c, cells'[p][c])
    /\ UNCHANGED Watched

CalHalt(p) ==
    /\ BudgetHalt(p)
    /\ EmitStep(p, Kind(out'[p], <<>>))
    /\ UNCHANGED <<missed, Watched>>

CalFire(p) ==
    /\ Fire(p)
    /\ EmitStep(p, Kind(out[p], Edge(p).do))
    /\ UNCHANGED <<missed, Watched>>

CalCrash(p) ==
    /\ Crash(p)
    /\ killed' = killed + 1
    /\ UNCHANGED <<log, missed, started, dropped>>

(* The other steps append nothing: an event that fires no transition, or     *)
(* whose dispatch panics, leaves its cells in the log and no step.           *)
Unrecorded(p) ==
    \/ Load(p) \/ LoadFails(p)
    \/ TerminalState(p) \/ Consider(p) \/ PassOver(p) \/ Hold(p) \/ Fail(p) \/ NoMatch(p)
    \/ ApplyEffect(p) \/ Panic(p)
    \/ Open(p) \/ Write(p) \/ Rename(p) \/ SaveFails(p)
    \/ DeliverInbox(p) \/ DeliverFails(p) \/ AllDelivered(p) \/ EmitProtocol(p)

CalNext ==
    \E p \in Procs :
        \/ \E e \in Events : CalStart(p, e)
        \/ CalCell(p)
        \/ CalRun(p)
        \/ CalHalt(p)
        \/ CalFire(p)
        \/ CalCrash(p)
        \/ Unrecorded(p) /\ UNCHANGED tap

CalSpec == CalInit /\ [][CalNext]_<<vars, tap>>
-----------------------------------------------------------------------------
(* The records of the steps that spent a unit of fuel. *)
Steps == {i \in DOMAIN log : log[i].kind = "step" /\ log[i].outcome # "budget"}

(* No unit of fuel is missing from the record on disk without a step in the   *)
(* log that accounts for it, but for the lines the disk refused.              *)
SpentIsLogged ==
    LET spent == Loaded(stateFile).fuel .. M.fuel - 1
    IN  Cardinality({f \in spent : \A i \in Steps : log[i].fuel # f}) <= dropped

(* The log reports more steps than the record has paid for only by those of   *)
(* hooks killed before they saved, and of the hook about to save now.         *)
StepsArePaid ==
    LET saving == {p \in Procs : pc[p] \in {"save", "write", "rename"}}
    IN  Cardinality(Steps) <= (M.fuel - Loaded(stateFile).fuel) + killed + Cardinality(saving)

(* The join of a reader: what cell c is taken to have answered for the last   *)
(* record of the log, a step, is in the last record of c before it that has   *)
(* one more unit of fuel; ZeroResult where there is none.                     *)
Prediction(entries, c) ==
    LET fuel == entries[Len(entries)].fuel + 1
        fed  == {j \in DOMAIN entries :
                    entries[j].kind = "cell" /\ entries[j].cell = c /\ entries[j].fuel = fuel}
    IN  IF fed = {} THEN ZeroResult ELSE entries[CHOOSE j \in fed : \A k \in fed : k <= j].answer

(* The join finds what a step was decided on: with hooks one at a time, a     *)
(* transition that is logged is joined, for every cell that its hook asked    *)
(* and could log, to the answer that the hook itself had, whichever hooks     *)
(* asked the cell with the same fuel before and fired nothing, were killed    *)
(* or lost what they saved.  A cell that its hook did not ask, or could not   *)
(* log, is joined to what an earlier hook with the same fuel was answered, if *)
(* there was one: there the join misleads, and nothing is claimed.            *)
JoinsByLastCell ==
    [][\A p \in Procs : CalFire(p) /\ log' # log =>
          \A c \in DOMAIN M.cells :
             cells[p][c].ran /\ c \notin missed[p] => Prediction(log', c) = cells[p][c]]_<<vars, tap>>
=============================================================================
