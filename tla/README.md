# stull in TLA+

stull runs statecharts as hooks of a coding assistant. A machine is a finite set
of states whose transitions fire on hook events, are selected by deterministic
guards, and may consult a language model only through *cells*, whose answers are
parsed and judged before anything can read them. Every event starts a fresh
process that loads the session's record, takes at most one transition, saves the
record and answers the hook protocol. A budget, the *fuel*, bounds the
transitions of a session.

This directory holds specifications of that system, the configurations that
model-check them with TLC, and theorems checked by TLAPS.

## 1. Inventory

| Component | State | Operations | What makes it correct |
|---|---|---|---|
| language (`spec/spec.go`, `spec/guards.go`) | none; data | constructors, `Cell.Check`, `Resolve`, guard predicates | a completion outside the language leaves nothing behind; guards are total; only safe terms decide |
| dispatcher (`runtime/runtime.go`: `Dispatch`, `SafeDispatch`) | state, fuel, vars, cells of the event | first holding transition, effects, fuel, budget halt, recovery from panics | first match in declaration order; never below zero; a cell is asked once per event; a panic gives no output |
| hook command (`runtime/run.go`: `RunHook`) | one process per event | load, dispatch, save, deliver, answer | what is told is recorded; a started hook ends; the loop ends |
| persistence (`LoadContext`, `SaveContext`) | `<session>.json`, `<session>.json.tmp` | read, truncate-write-rename | a reader sees an old or a new record; fuel is neither lost nor invented |
| inbox (`runtime/inbox.go`) | a file per message, a sequence number per process | check the target, write, rename | a message stays inside the inbox, is whole when found, replaces none |
| model binding (`runtime/model.go`) | none | one call with a 30 s limit, the tail of the transcript | every failure is the empty completion; the tail is bounded |
| calibration (`runtime/calib.go`) | an append-only log, a count of dropped lines | cell and step records | every unit of fuel is accounted for; a step can be joined to the predictions it used |
| checker (`check/check.go`) | the walk's stack and visited set | `Inspect` | a machine without errors can be run; orphans and halts are exact |
| simulator (`sim/sim.go`) | the context of a scripted session | `Run`, `Lint` | shows what the live hook would do |
| compiler and installer (`compile/`, `cmd/stull`) | the assistant's settings file, its backup, a temporary file | fragment, merge, backup, write | installing twice adds nothing; foreign entries survive; the old settings are in the backup |
| registry, describe, trace, CLI | none | lookup, printing | — |
| examples | — | review-loop, deny-add-all, hedge-verify | what their comments promise |

How they interact: the CLI or a custom binary calls `RunHook` with a machine;
`RunHook` calls the dispatcher through `SafeDispatch`, the model through a
function value, the file system for record, inbox and log. Processes of one
session share nothing but the files. `sim` calls the same dispatcher with a
scripted model and no files. The checker runs before installation and its
pattern for declared reads is used again by the dispatcher.

What is hard: processes of one session may overlap (parallel tool calls); a
process may be killed between any two steps; a save may fail and its error is
ignored; guards and texts are the author's closures and may panic anywhere; the
budget must survive all of this, since it is the only thing that makes a loop of
refused stops end. `PROJECT.json` lists the hazards, each with its line and the
properties aimed at it.

## 2. Modules

    Language            data of package spec, constructors, protocol answers
      Statechart        meaning of one machine M: cells, guards, effects, budget
        Session         abstract: one event, one atomic step (also what sim runs)
          Conversation  a session in a conversation with one transcript
            ConversationProofs  theorems about Conversation
        StateFile       record and temporary file, with descriptors that move
          Hook          concrete: the processes of RunHook, step by step
            StandingGuard deny-add-all, and what it promises of parallel hooks
              HookProofs    theorems about Hook: types, words, reads, the budget,
                            that it implements Session, and the standing guard
            Calibration the same steps with the log they leave
              CalibrationProofs  theorems about Calibration, from HookProofs
      Checker           check.Inspect, with its walk step by step
        CheckerProofs   theorems about Checker
      Machines          the repository's other machines as data
        Oracle          from a response of the API to a raw completion
    Disk                os.WriteFile and os.Rename on any names, by any processes
      DiskProofs        what each of its operations does, and what a reader sees after it
      Inbox             message files, their names, the adapter that collects
        InboxProofs     theorems about Inbox, from DiskProofs
      Install           the settings file and the installers
        InstallProofs   theorems about Install, from DiskProofs
    Induction           two lemmas on counting, for HookProofs, CheckerProofs and InboxProofs
    MCHook, MCChecker, MCConversation, MCCalibration, MCInbox, MCInstall

**Language, Statechart.** A Go closure is data here: a guard is its kind, the
cell, var or tool it looks at, the set of strings it accepts and the reads it
*declares* (which may differ from what it looks at). A regular expression is the
set of strings it matches; a grammar is a function from completions to
`[term, ok]`. `Check`, `When`, `Perform`, `Remember`, `Exhausted` are
`Cell.Check`, the guard builders, the effect switch, the `SetVar` case and the
budget halt. The constant `Strings` stands for all strings (`STRING` in the
configurations; a constant because the prover knows nothing of literals) and
`Words` for those the pattern of declared reads recognises. The assumptions on
`M` are what `check.Inspect` demands before a machine can be compiled.

**Session.** The promise: one record, and per event one atomic step that replaces
the record by the `Outcome` of the first transition that holds, and leaves the
messages and the answer owed. `GuardPanic` is a dispatch in which a guard panics,
which leaves no trace; `EffectPanic` one in which an effect does, where nothing is
told or charged and yet the vars of the effects before it stay. The messages owed
are delivered one by one, in order, each perhaps in vain, then the answer is said;
or what is left is lost. Nothing is told before the record is replaced, and
nothing twice. `Outcome` is written with sets and a fold over the effects,
not as the loop of the code, so that it is a second opinion on the dispatcher.

**StateFile.** A file is absent, empty, garbled or a whole record. `os.WriteFile`
truncates at `OpenTmp` and writes at `WriteTmp`, through a descriptor that
follows the file when someone else renames it: to the record's name, or into
nowhere when that is replaced in turn. Bytes longer than the new record show
behind it, hence `Overwritten`.

**Hook.** Per process a program counter, the event, the context, the cell results,
the transition and effect in hand, the output. One action per step of the code:
`Start`, `Load`/`LoadFails`, `TerminalState`, `BudgetHalt`, `Consider`, `PassOver`,
`RunCell`, `Hold`/`Fail`, `NoMatch`, `ApplyEffect`, `RunEffect`, `Fire`, `Panic`,
`Open`, `Write`, `Rename`, `SaveFails`, `DeliverInbox`, `DeliverFails`,
`AllDelivered`, `EmitProtocol`, `Crash`. A model call is any completion of `Raws`,
of which `""` is the failed or timed-out one. `Faults` chooses what may go wrong.
The history variables `fired` and `refusals` are counted up to `M.fuel` and `M.fuel
+ 1`, their only bounds.

**StandingGuard.** The machine deny-add-all and what it promises of the tool calls
it watches. The commands are those of its scenarios; the other machines of the
registry are in **Machines**.

**Checker.** A machine is a list of states as its author writes it, with repeated
names and dangling edges. `Form`, `Skip`, `Visit`, `Conclude`, `InspectEdges` are
the sections of `Inspect`; a finding is a code and the state it is about. Two
findings of the same code about the same state count once.

**Conversation.** The host is the environment: the user prompts, the assistant
replies, and their hooks are steps of `Session`, which `hook_review` and `hook_mesh`
show the processes to implement. A text is hedged or plain; the nudge quotes the
words it warns of and is hedged. The tail of the transcript is bounded by bytes, so
it reaches back over any number of entries up to `Window`, or over none when the
file cannot be read. The host may or may not write injected text to the transcript;
the repository does not say. An entry that the bound cuts counts as read while its
hedge still shows, and not at all otherwise. `seen` and `lost` are history: a hedge
that no nudge told has answered, and a nudge lost with its hook.

**Calibration.** `FileCalibrator` appends with one write to a file opened for
appending, hence whole lines. Each action is one of `Hook` conjoined with what it
appends; a record has no key but its fuel and its cell. `Prediction` is the join a
reader does, and `missed`, the cells of a hook whose record was not written, is
history.

**Oracle.** What `AnthropicModel` makes of a response; the completions of the two
model-backed examples are derived from responses with it.

**Disk.** Names lead to nodes, and a descriptor to a node wherever a rename takes
it. `Create` truncates, `Fill` writes at offset 0, `Abandon` is a failed write or
a death, after which the file is as it was or garbled. `StateFile` has the same
behaviour with two names spelt out, in the form its proofs need.

**Inbox.** A process runs hook after hook; `inboxSeq` starts anew in each. A target
is a path of segments, cleaned as `filepath.Clean` does. `Collect` is the adapter
the comments of `inbox.go` announce. `drawn` remembers who drew which name.

**Install.** The settings are the keys beside `hooks`, the list of entries of each
trigger, and the triggers whose value is no list. `Merge` is everything from the
read to the first write, since nothing of it can be seen from outside; the file
operations after it are one action each. `LookFails` is the read for the backup
that does not succeed, after which the installer goes on without one; `unread`
remembers who did so though there was a file. A request that is unsound or dry ends
before all of these. Settings of the user and of the project are two files that never
meet; there is one here.

Operators called *Faulty* in their comment are plausible mistakes; no
specification uses them. They show that the properties notice such a mistake.

## 3. Runs

| Run | Instance | Shows |
|---|---|---|
| `hook_review` | review-loop with its fuel of 4 and four kinds of completion, one process, kills and panics, fair | `KeepsPromise` (implements `Session`), `BudgetNeverOverdrawn`, `EveryHookEnds`, `Totality` |
| `hook_mesh` | a machine with every kind of guard and effect, fuel 3, an unsafe term, an undeclared read, a cell whose name has a hyphen, two messages of one dispatch, kills and failing deliveries; no panics, so that a no-op has to be one | `TypeOK`, `NoLaundering`, `NeverJudgedUnheard`, `KeepsPromise` |
| `hook_parallel` | deny-add-all with its fuel of 3, two processes, kills and disk faults | `NeverReleasedEarly`, `HaltOnlyWhenSpent`, `OnlyDangerRefused`, `DangerPassesOnlyAloud` |
| `checker` | every graph of three listed states with up to two edges each, and every single transition over six triggers, six guards and seven lists of effects | `OrphansExact`, `HaltWarned`, `AcceptedIsRunnable`, `Reports` |
| `conversation` | hedge-verify with its fuel of 50 and the nudge kept out of the transcript or written to it, a tail of up to 4 entries, hooks that die before or after they have recorded | `NudgedWhenSeen`, `NagsEnd` |
| `calibration` | the smart lens with fuel 2, a transition with a `Run` effect on `SessionStart` beside its own two, one process, 3 hooks, one line refused, kills and panics of effects | `SpentIsLogged`, `StepsArePaid`, `JoinsByLastCell`, `KeepsPromise` |
| `inbox` | two processes, 3 messages, 2 readings of the clock, eleven kinds of target, errors and kills, an adapter | `Confined`, `OnlyWholeMessages`, `NoneReplaced` |
| `install` | two installers, 4 runs, two machines that share a trigger, a dry run, an unsound machine, eight kinds of settings, errors and kills | `NeverTwice`, `MalformedUntouched`, `UserSettingsSurvive`, `InstalledStays`, `ReadIsBackedUp` |
| `hook_safety` | the mesh | violated: `OnlySafeTermsGate` |
| `hook_torn` | deny-add-all, two processes, no fault at all | violated: `AtomicSave` |
| `conversation_stale` | the conversation | violated: `CleanTurnIsSilent` |
| `hook_unsaved` | review-loop on a disk that may fail, fair | violated: `Totality` |

Why the bounds suffice. The fuel is each example's own, except for the smart lens,
whose 50 are cut to 2 so that three hooks exhaust them; every run of `Hook` reaches
the exhausted budget and goes on behind it. Two processes are enough for every pair
of steps on the shared files; a third adds a third reader of the same contents.
Completions are one per answer the grammar distinguishes plus the failed call. The
checker's graphs contain self-loops, cycles, orphans, dangling edges, a missing
initial state and a repeated name; each conclusion of the walk is about single
states and paths of at most two edges among three states. The tail of the
conversation holds two turns; a longer one only makes the nagging longer, by half an
entry per nudge. Three messages let two hooks draw one name while a third message of
one of them draws the next. Four installs are two that overlap between two that do
not.

`CHECK_DEADLOCK FALSE` appears for `checker`, since `Inspect`
returns, and for `calibration`, `inbox` and `install`, whose
histories bound the number of hooks, messages and installs: when these have been
done there is nothing to do.

Fairness. `Fairness` is weak fairness of `Proceed(p)`: the operating system
schedules a started process, and a model call returns within its limit
(`model.go:53`) or fails. Nothing obliges an event to be raised or a fault to
happen. `Totality` is thus a statement about a session that may raise events for
ever. `FairSpec` of the checker is that a sequential function runs on.

What the violations say.
* **`OnlySafeTermsGate`**: `spec.go:53` and the README say a term reaches control
  flow only if well formed *and* safe. `TermIs` (`guards.go:59`) looks at the
  first only; an author who relies on the safety stage has to read `Safe` himself.
* **`CleanTurnIsSilent`**: the lens looks at the tail of the whole transcript, not
  at the last turn. A turn in which nobody hedged still sets the memory when an
  older hedge, or the nudge, is within the tail, and the next prompt is told that
  the *last turn* hedged. `NagsEnd` shows the nagging stops once the hedge has
  left the tail, if the nudges stay out of it; if the host writes them into the
  transcript each raises the next, until the budget is gone.
* **`AtomicSave`**: the temporary name is the same for all processes
  (`runtime.go:312`). One process truncates it, another renames it over the
  record: the record is empty until the first has written, and a hook that loads
  meanwhile starts with a full budget. `NeverReleasedEarly` shows the damage is
  one-sided: budget is given back, never taken.
* **`Totality` on a failing disk**: the error of the save is dropped
  (`run.go:67`), the decrement with it.

What the passing runs say of limits.
* The budget halt injects on every gating trigger (`runtime.go:110`), `PreToolUse`
  included, which the checker forbids authors (`E-INJECT`).
* `SpentIsLogged` and `StepsArePaid` are as tight as they can be: each refused
  line may be one unit unaccounted for, each killed hook one step too many.
  `JoinsByLastCell` is about the cells that a transition's own hook has asked and
  could log; a cell it did not ask, or whose line was dropped, joins an older
  record with the same fuel, if there is one. It needs hooks one at a time: two in
  parallel log with the same fuel.
  So a Stop that is hedged, a Stop that is judged genuine and fires nothing, and the
  nudge come out as a nudge about "genuine", though `calib.go:23` says that a
  prediction "can be joined to the machine outcome it fed".
* `NudgedWhenSeen` excepts a hedge whose nudge was recorded and lost with its hook:
  the nudge clears the memory, the record is saved, and the answer goes out last. A
  hook killed in between has forgotten the hedge, though `hedgeverify.go:2` promises
  the reminder "on the next turn". There is no other way to forget one, and none to
  nudge twice about it.
* `NoneReplaced` and `OnlyWholeMessages` except hooks that draw the same number
  in the same tick: their messages replace one another and may mix.
* `UserSettingsSurvive`, `InstalledStays` and `ReadIsBackedUp` hold while
  installs do not overlap. Two at once lose the entries of one, and may leave
  settings torn or empty, which the next install takes for none: they share
  `settings.json.tmp` as hooks do theirs. `NeverTwice` and `MalformedUntouched`
  hold regardless.
* `ReadIsBackedUp` excepts an installer whose second read failed. `main.go:395` makes a
  backup if the file can be read and otherwise goes on as if there were none, so a
  file that was read for the merge and cannot be read a moment later is replaced
  without a backup, though the comment at `main.go:389` says that any existing file
  is backed up.
* `UserSettingsSurvive` excepts a value that is no list under a trigger a machine uses,
  and `hooks` that is no object. The merge replaces both (`install.go:43`, `:33`) with
  no word but the backup, though `install.go:10` says "without clobbering anything
  else in the file".
* `AcceptedIsRunnable` is about declared reads under names of word characters. A guard
  that reads `cells.load-check.term` is accepted without such a cell, since the
  pattern of `check.go:50` does not recognise it, though `check.go:16` lists any
  reference to an unregistered cell as E-CELL. Such a guard is false for ever, and
  the dispatcher reports it as undeclared, which is what the property and
  `NeverJudgedUnheard` say.
* `NoLaundering` counts the zero term `""` as vetted: a `SetVar` that quotes a cell
  nobody asked stores it (`runtime.go:152`), which nothing in the repository denies.
* `KeepsPromise` compares the answers of `Session` and `Hook`, which share `Rendered`;
  what `Emit` drops (`runtime.go:327`) is translated once and not checked again.

Two hooks in parallel can also lose a decrement, so that `BudgetNeverOverdrawn`
holds for one process at a time only; its theorem says so in its assumptions, and no
run is about that decrement.

## 4. Theorems

The theorems of `HookProofs` and `CalibrationProofs` are about every machine that
satisfies the assumptions on `M`, every set of events and completions, and any
number of processes unless said otherwise. They assume `StringsAssumption`,
`FuelAssumption`, `MachineAssumption`, `SoundAssumption`, `FaultsAssumption`,
`EventsAssumption`, `RawsAssumption`, which TLC evaluates in every run of
`MCHook`, and those about the log `CalibrationAssumption`, that its bounds are numbers.

* **`HookProofs!TypeCorrect`** (`Spec => []TypeOK`). `TypeOK` is not inductive:
  the transition in hand exists, and fuel may be decremented, only because the
  process stands inside the list of a state with fuel left. `TypeInv` adds
  `PhaseOK`, which says so per phase.
* **`HookProofs!NothingLaundered`** (`Spec => []NoLaundering`): no word reaches
  the model, the inbox or the record that is not a constant of the machine's
  effects, the term of an accepted completion, or the notice of the exhausted
  budget. A record that is
  torn or stale now may be loaded later, a cell asked now may be quoted by a later
  effect, an output is told steps after it was made. `VettedInv` therefore says it
  of the vars of both files and of every context, of every cell and of every
  output. Of a refused completion nothing is kept (`CheckVetted`).
* **`HookProofs!UnheardIsReported`** (`Spec => NeverJudgedUnheard`): a guard that
  decides on a cell nobody asked leaves a lint. A cell a guard declares is
  registered, which `SoundAssumption` gives, so it has
  been asked before the guard is evaluated; what is looked at without is
  undeclared, and that is reported.
* **`HookProofs!BudgetNotLost`** and **`HaltsOnlyWhenSpent`**. The invariant is
  that *every* record, in both files and in every context, satisfies
  `fuel + fired >= M.fuel`. It is needed of the temporary file, and of contexts
  that are stale, since any of them may become the record. A step copies records,
  replaces one by a fresh one, or takes one unit while `fired` grows by one. The
  halt is raised only at fuel zero, which then means `fired = M.fuel`.
* **`HookProofs!RefusalsPaid`** assumes `Solo` (one process) and
  `SavesSucceed` (no disk fault) and shows `refusals + fuel on disk <= M.fuel`.
  The invariant follows the refusal through the process: fuel never exceeds the
  record loaded; a refusal about to be saved has lowered it; what is about to be
  renamed is what was written; a refusal about to be told is already paid for.
* **`HookProofs!HookKeepsPromise`** (`Spec => KeepsPromise`), also with `Solo` and
  `SavesSucceed`: `Hook` implements `Session`. The session knows all the answers of
  its cells beforehand and takes the first transition that holds; the hook asks a
  cell when a guard or an effect comes to it. The invariant `KeptInv` says of the
  process that the record it loaded is still on disk until it renames its own over
  it, and ties its progress to *every* assignment of answers that agrees with what
  its cells have said so far (`Possible`), of which there is at least one: while
  guards are evaluated, nothing before the present transition holds under any of
  them (`Guarded`); while effects are performed, the present transition is the first
  that holds under each of them, and vars, cells and output are those after as many
  effects as have been performed (`Effecting`); then what it is about to save is the
  outcome under some of them, or that of a panic (`Settled`). A cell that runs
  narrows the assignments (`RunNarrows`); when a guard is judged the cells that have
  run are just those consulted so far, so it is judged on the same results under all
  that are left (`JudgedAlike`). Lints are left out of the comparison: they are no
  part of an answer. The rename maps to the session's step, a delivery, an answer
  and a kill after the rename to theirs, everything else to a stutter. Some answer
  must exist: `RawsAssumption` has `""`, the completion of a model call that failed,
  among the completions. Without the assumptions the theorem is false: two hooks may
  work from one record, and a save that fails is followed by an answer that was
  never recorded.

* **`HookProofs!GuardRefusesOnlyDanger`** (`Spec => OnlyDangerRefused`) assumes
  `IsDenyAddAll`: the machine is deny-add-all, with any fuel (its 3 are "small for
  the demo"). A reason to block stands in an output only for an event of which the
  guard held, and a process meets its next event with an empty output
  (`CarefulInv`).
* **`HookProofs!GuardPassesOnlyAloud`** (`Spec => DangerPassesOnlyAloud`) assumes
  in addition (`GuardAssumption`) that dangerous commands come with the trigger the
  machine is installed for, and that nothing panics: its texts are constants and its
  guard looks up two strings, while a panic would let the command pass.
  Every record, torn or stale, is in the state "watch" (`WatchInv`), so a dangerous
  command meets the rule or the exhausted budget, and from then on the output says
  one or the other (`AlertInv`). That the budget is really spent is
  `HaltsOnlyWhenSpent`.

* **`CalibrationProofs!LogOnlyWatches`** (`CalSpec => Spec`): what appends to the log
  is a step of the hook or a stutter, so every theorem of `HookProofs` holds of a
  hook that logs; **`LoggedHookKeepsPromise`** is one of them, with the property of
  the run `calibration`.
* **`CalibrationProofs!SpentFuelIsLogged`** (`CalSpec => []SpentIsLogged`), for any
  number of processes, deaths, disk faults and refused lines. `LogInv` says it of
  *every* record, in files and in contexts: the units it lacks for which no step in
  the log has the fuel (`Missing`) are at most as many as the lines dropped. Records
  are copied, which changes nothing, or one unit is taken off a record
  while the step that has it is appended or dropped. Once a step is logged it
  accounts for that unit in all records, which is why the count is of units.
* **`CalibrationProofs!LoggedStepsArePaid`** (`CalSpec => []StepsArePaid`) assumes
  `Solo` and `SavesSucceed`, for a step whose save fails or is overtaken is
  logged and not paid for. `StepInv` says that a hook dispatches with the fuel on disk
  and is about to save at most one unit less, and counts the steps against the
  context until the rename and against the disk otherwise; a kill in between
  leaves one step unpaid and raises `killed`.
* **`CalibrationProofs!PredictionsJoinSteps`** (`CalSpec => JoinsByLastCell`)
  assumes `Solo`. `JoinInv` says of the hook under way, while it dispatches, that
  every cell it has asked is either in `missed` or *heard* in the log: the last
  record of the cell has the hook's fuel and the hook's answer. Other cells' records
  do not disturb this, and a hook asks no cell twice. The step that `CalFire`
  appends has one unit less, so the join finds that record.

* **`ConversationProofs!HedgesAreNudged`** (`CSpec => NudgedWhenSeen`) and
  **`NaggingEnds`** (`CSpec => []NagsEnd`) assume `M = HedgeVerify` and nothing of
  `Window`. `SeenInv` says that a Stop hook has seen a hedge while there was fuel
  (`seen`) and no answer that nudges has been lost since (`lost`) exactly if the var
  of the record is set or a nudge is owed, never both; the first transition that
  holds for a prompt is then the nudge, while there is fuel. A nudge that is lost
  has cleared the var like one that is told, which is why the invariant needs
  `lost`. `NagInv` says that every nudge told since anyone hedged has a plain reply
  and a plain prompt behind it in the transcript, so that the tail is plain once
  there are more than half a tail of them; a nudge that is pending or owed has been
  decided on before.

The theorems about the checker are about every set of machines of the language,
with any number of states and edges, any cycles, and repeated or dangling names
(`MachinesAssumption`).

* **`CheckerProofs!OrphansAreExact`**, **`HaltsAreWarned`**,
  **`AcceptedMachinesRun`**. What an accepted machine has is said of the names
  themselves (`Declared`, `Words`), not through the checker's recogniser. `Walking`,
  the part of `CheckerInv` about the walk, says that what is seen or on the stack is
  reachable, that the initial state is among it, and that the successors of what is
  seen are too. When the stack is empty the seen states are closed under successors,
  and `Reachable` is the least such set (`ReachableLeast`). That the loop over a
  state's edges pushes exactly its successors is `TargetsAreSuccessors`, an
  induction. The findings of each section are what the invariant says of the later
  phases, and no other section raises their codes (`OtherCodes`).

`DiskProofs` states what `Create`, `Fill`, `Abandon`, `Rename` and `Unlink` do to
files and descriptors, and from this what somebody who opens a name reads after
each, when no other descriptor leads to the same node (`Opened`, `Unread`).

* **`InstallProofs!NothingTwice`** and **`MalformedStays`** are about every set of
  triggers, commands, keys and requests, and any number of installers, overlapping
  or failing anywhere. They assume `InstallAssumption` and, for the first,
  `OnceAssumption`: the settings found at first have no double registration.
  `NeverTwice` is not inductive, as what an installer holds may become the file;
  the invariant says of *every* document, in the three files, merged or about to
  be backed up, that its lists share no command between entries, and `MergeGood`
  that the merge keeps this. Torn contents hold no document. For malformed
  settings the invariant is that no installer gets past reading and none has a
  file open.
* **`InstallProofs!SettingsSurvive`**, **`EntriesStay`** and **`BackedUp`** are
  about installs that do not overlap (`alone`, which the properties themselves say).
  `LoneInv` has, for the only installer that is under way, its `Stage`: what it has
  merged is the merge of the settings as they still are, its copy of them is current
  if it has taken one, what it has open leads to the backup or to the temporary
  file, the backup is a copy of the settings once it is filled, unless they could
  not be read, the temporary file is the merged document once it is. A kill or an
  error leaves a torn backup or a torn temporary file, never torn settings.
  `MergeEffect` is the lemma about the merge: it keeps keys, extends every list, and
  enters the command under each of its triggers.
* **`InboxProofs!InboxIsConfined`** is about all targets of all paths, with any
  segments (`CleanType` is an induction over them). Every file belongs to a message
  that somebody drew after the target was accepted; an accepted target is a single
  segment that does not lead out.
* **`InboxProofs!MessagesAreWhole`** and **`NoMessageReplaced`** are about
  any number of processes, errors and kills anywhere. `InboxInv` says that each
  message has its own number and each hook draws a name once (`DrawInv`, from the
  sequence number); that every file was drawn by someone and what a process has
  open goes under its own name (`DiskInv`); and that under a name nobody else drew
  there is what its owner wrote, until it is collected (`ReadInv`). A name that
  two hooks drew stays shared, for nothing takes back a draw.

`Induction` proves from the library's `WFMin` that a set of numbers with 0 and every
successor is `Nat` (`SetInduction`), and that a loop over `1 .. n` has a function of
its intermediate results (`LoopExists`). The library's own theorems take an operator
as a parameter, which the provers here cannot instantiate; a set can be
instantiated, and this is how the recursive functions of `Checker` and `Inbox`, and
the fold over the effects in `Session`, are reasoned about.

Model-checked only:
* liveness (`EveryHookEnds`, `Totality`, `Reports`), which needs fairness and
  `ENABLED`.

Every safety property of a passing run is stated by a theorem.

## 5. Not modelled

Left out for good: layout (`Describe`, `Render`, tracing, JSON formats, how a
request to the model is put together), the registry's constant table, flags and
printing of the CLI. `json.Unmarshal` followed by `json.MarshalIndent` keeps what
the settings mean except for integers beyond 2^53; numbers are not modelled. A
transition without a trigger the protocol knows never fires and has no model; a
regular expression's inside is not taken apart. The calibration log of parallel
hooks, and the user editing the settings while an installer runs, are left out
because nothing in the code addresses them. A guard that writes vars, against its
contract, and the lint that reports it (`runtime.go:129`, `:132-134`) have no
model: guards here are pure. A crash is the death of one process; after a power
loss, which ends all of them and, since `SaveContext` does not sync, may leave a
renamed record empty, nothing is claimed.
