# Verification of superpowers-multiagents

TLA+ models of the orchestrator in `src/scripts/`: who may work in a slice, what a
run leaves behind when it ends, dies or is overtaken, and what the humans'
commands do to it meanwhile. TLC checks the models on small instances; TLAPS
proves the most important results for every instance.

## The system

A *slice* is a unit of work: a spec, later a plan, a branch `feat/<slice_id>`, a
worktree, and, if enabled, a sandbox stack of containers. Each document carries a
`status` in its frontmatter. `dispatch` starts an agent at a document: it
passes gates, takes the slice's lock file, prepares the worktree and the stack,
writes the in-progress status, spawns a *supervisor* and exits. The supervisor
claims the lock, runs a client of the agent's harness, decides from what the agent
left whether the run succeeded, writes the resulting status and releases the lock.
Nothing else is running in between: all coordination goes through files.

Components, their state and operations:

| component (under `src/scripts`) | state | operations | hard about it |
| --- | --- | --- | --- |
| `locks.py` slice lock | one lock file: `starting`, `running`, `unresolved`, owner pid, start time | acquire (link, or read, judge, unlink, retry), claim, mark unresolved, release | several processes, no operation looks at the owner, staleness by pid and by age, crashes anywhere |
| `orchestrator.py` dispatch | the documents' statuses | gates, lock, fallible side effects, status write, spawn | order of gate, lock and write; failure after each step |
| `runner.py` supervisor | its job (gate, base ref), the log | claim, run the client, examine, watch, record, sweep, release | the client's exit says nothing about the agent; the epilogue may abort; agents outlive both |
| `orchestrator.py` certify, reconcile, set-status | statuses, lock | decide on a reading, write, release | no lock of their own, race with runs |
| `abandonment.py` | none | is a document abandoned, owned by hand; `wait` | lock and document read one after the other |
| `frontmatter.py`, `config.py` state machine | edges, roles | accept or refuse a status | a stale writer is only stopped by a missing edge |
| `closure.py`, closing in `set-status` | both documents, main branch, worktree, stack | merge, close, record, remove, tear down | many steps, no lock, partial failure |
| `sandbox.py` | address records, an allocation lock, containers, volumes | ensure up, tear down, restart | bounded addresses, races of up and down, half-written records |
| `milestone.py` | briefs listing slices | file, refresh, move a brief | read-modify-write by several processes and by hand |
| `dependencies.py` | none | which document an id names, is it closed | documents appear and close in any order |
| `provision.py` | the copies in a worktree | check, refuse, copy | reused worktrees, rules and files that change meanwhile |
| `git_ops.py` | worktrees, branches | create, tip, count, merge, remove | reuse of worktrees and commits |
| `produced.py`, `hooks.py`, `adapters/`, `skills.py`, `paths.py`, `utils.py`, `errors.py` | none | find a document, run a hook, compose text | little logic |

What makes each correct: the lock is exclusive, names its owner, heals after a
crash and keeps `unresolved` until a human decides; a dispatch that fails leaves no
trace; a run is judged by its own work, ends at its gate or its success status, and
sweeps nothing an agent still uses; the human commands only resolve what a dead
or undecided run left; `wait` reports what is true of the run it watches; what is
closed is merged, complete and stays closed, and a closing can be repeated; stacks
share no address and lose no data; a brief tells the truth about its slices; nothing
starts before what it depends on; and an agent has its files without committing them.

## Modules

| module | models | role |
| --- | --- | --- |
| `SliceMachine` | default statuses, edges, roles, `update_frontmatter_status` | constants and operators, no state |
| `SliceOwnership` | the promise of the lock: one holder at a time, until broken | abstract specification |
| `SliceLock` | `locks.py` and its callers, per file-system call | detailed specification, implements `SliceOwnership` |
| `Dispatch` | dispatch, supervisor, agents, certify, reconcile, set-status on one slice | composes `SliceLock` and `SliceMachine` |
| `Waiting` | `wait` | composes watchers with `Dispatch` |
| `Closure` | closing a slice, beside a run, other closings and humans | extends `SliceMachine` |
| `Sandbox` | the stacks of all slices | uses the lock by its promise |
| `Brief` | the text of a milestone brief and the pure functions on it | operators, no state |
| `Milestone` | everybody who rewrites one brief | extends `Brief` |
| `Gate` | the dependency gate over the life of slices and milestones | extends `SliceMachine` |
| `Provision` | `worktree.copy` over several dispatches | |
| `SliceLockProofs`, `DispatchProofs`, `WaitingProofs`, `ClosureProofs`, `SandboxProofs`, `MilestoneProofs`, `GateProofs`, `ProvisionProofs` | theorems | |
| `MCSliceLock`, `MCDispatch`, `MCWaiting`, `MCClosure`, `MCSandbox`, `MCMilestone`, `MCGate`, `MCProvision` | small instances | |

What one module treats in detail another takes for one step or one flag: `Dispatch`
has a stack that is up or down and a gate that refuses, `Sandbox`, `Provision` and
`Gate` say when; `Closure` has a run that holds the slice or does not, `Dispatch` says
how it comes and goes.

### SliceLock

A run is one `dispatch` command and the supervisor it spawns; `pc[r]` says where it
stands. `lock` is the content of the file: the state it declares and the run
that staged it (for a `running` lock its pid). A crash leaves the file. Each action
is one atomic file-system call or one decision on an earlier reading:
`Link`/`LinkRefused` are the `os.link` of `_write_new`, `Read` the `read_text`,
`JudgeHeld`/`JudgeStale` the state test and `_lock_is_held`, `Unlink`/`UnlinkFails`
the `unlink`, `Again` the loop. `aged[r]` says that more than
`LOCK_START_GRACE_SECONDS` passed since the run built its payload; the clock may
run out at any moment at which somebody can still compare it. `OperatorDecides` is
the reading on which certify and reconcile decide, `OperatorReleases` their release.

`slips` is a history variable. The code has two decisions that can be wrong when they
are acted on: a `starting` lock judged stale although its dispatcher lives (`grace`),
and an unlink that hits another lock than the one judged (`late`). The safety
properties say that nothing else goes wrong; that these two do is in the findings.

### Dispatch

Every step that touches the lock is the SliceLock action, conjoined with what the
code does to the documents, the branch and the stack at that point. `job[r]` is what a
run carries: role, the gate it was accepted from (`--gate-status`), the branch tip
(`--base-ref`), the stage of its dispatch or epilogue, and its verdict.

| code | actions |
| --- | --- |
| `cmd_dispatch_agent` gates, lock | `ReadGate`, `Acquire` |
| its `try` block, its failure | `PrepareSlice`, `DispatchFails` |
| status write, spawn | `WriteInProgress`, `SpawnSupervisor` |
| `run_supervised`, `_run_child` | `ClaimAndStart`, `ClientExits` |
| the agent (external) | `AgentCommits`, `AgentDrafts`, `AgentStops` |
| `_unmet_postcondition`, `_promote_produced` | `ExamineBranch`, `ExaminePlan` |
| `_fate_of_a_dead_client`, the watch | `WeighPlan`, `Watch` |
| status, sweep, lock | `Record`, `SweepStack`, `Finish`, `LeaveUnresolved`, `EpilogueAborts` |
| certify, reconcile | `ReadsDocument`, `SeesLock`, `Decides`, `WritesTarget`, `Resolves`, `Refused`, `Quits` |
| set-status (not closing) | `SetStatus` |
| kill -9, a spawn that raises; the clock | `Dies`; `Ages` |

Assumptions of the model, each a reading of the code's own:

- one slice, the default configuration and the two default roles;
- a supervisor's pid is not reused while its lock exists; a pid lookup is exact;
- a client that exits 0 means that the agent has stopped, and a working agent keeps
  changing its workspace, so the watch sees it (`Fate`): what `runner.py` states as
  the evidence it relies on. What happens when commits land while the watch runs is
  in the model, and a finding;
- an agent writes its plan at `PLAN_DRAFTING` as its prompt asks; a plan marked
  otherwise by the agent, and a worktree that vanished, are left out;
- gates that only look at the environment (dependencies, tracked at HEAD,
  provisioning) can only refuse before the lock; a refusal there is a run that
  never begins;
- closing a slice is not part of `Dispatch` but of `Closure`: `SetStatus` here gives no
  `VERIFIED_CLOSED`.

### Waiting

A watcher is a process that reads. A poll is `FindsNoLock`, or `FindsLock` and then
`ReadsLock` or `CannotReadLock` (`exists()` and the read are two calls), and after it
the verdict on a second reading, of the document: `EndsTerminal`, `EndsUnresolved`,
`EndsAbandoned` or `PollsAgain`. Every step of `Dispatch` may happen in between.
`OnSlice` takes the two documents' statuses in one step. `starters`, `hasty` and
`about` are history: they let the properties name the run the verdict is about.

### Closure

`closer[c].step` is the place of each `set-status VERIFIED_CLOSED` in the command, one
step per write or irreversible effect: `Begins` and `Weighs` the readings and
`closure.verdict`, `ChecksTree`, `Merges`/`MergeFails`, `RemovesWorktree`,
`MarksClosed`/`RefusedLate`/`MarksConflict`, and the tail of warnings `ClosesSpec`,
`SyncsBriefs`, `RunsHook`, `TearsDown`. `Dies` kills it anywhere. The run beside it is
seen from outside; humans resolve conflicts, move statuses and delete branches. A
branch is the numbers of its commits, of those merged and of those there were when the
slice was reported complete. `overtaken` and `history` are history variables.

### Sandbox

One record file, compose project and set of volumes per project name. `ensure_up` is
`TakeAlloc`, `ReadRecord`, `Choose`, `OpenRecord`, `WriteRecord` (`write_text` first empties
the file), `ReleaseAlloc`, `ComposeUp`; `tear_down` is `LookUp`, `ComposeDown`,
`ClearRecord`, and takes no lock. Docker may fail and stop anywhere, a command may be
killed, its lock is then an orphan until its grace window runs out. Port probing is a
choice of the set of addresses that answer, since stacks publish on real ports and the
probe binds an ephemeral one. `torn` records that a clearing overlapped a start.

### Brief and Milestone

A line is a record of what its reader takes it for, so the text functions of
`milestone.py` are operators on sequences of lines. In `Milestone` a process holds the
whole file as it will write it (`held`) from the reading to the write; `Lists`, `Files`,
`Loads`, `Writes` are `_sync_briefs_listing` and `sync_file`, `PassesGate` and `Moves`
`set-status`. Left out: more than one brief, a slice's statuses besides open and
closed, and the kind check of `load`. The text and the slices' statuses are read in one
step in `sync_file`; an edit by hand is atomic; one mishap (an edit or a kill) per
behaviour.

### Gate

The frontmatter of every file, by directory and by the id its name was made from.
`Within` says which id contains which, which is all the stem match looks at. A planner
reproduces the frontmatter block it is given. Gate, lock and status write are one step:
what happens between them is `Dispatch`'s.

### Provision

The developer's tree and the worktree, each with its files (as versions), its HEAD, the
ignore rules in the directory and those in HEAD. `PassesGate`, `Builds`, `ChecksAgain`,
`Refuses`, `Copies`, `StartsAgent` follow `cmd_dispatch_agent`; `Ends` fails it anywhere.
Agents do not edit the copies. `exposed` are the files whose rule an agent itself
removed: against that nothing is checked.

## Runs

| run | instance | asks |
| --- | --- | --- |
| `slicelock` | 3 runs, 1 operator, 3 attempts | types; `ExclusiveUntilSlip`, `LockNamesHolder`, `NothingSelfHeals`; `ImplementsOwnership` |
| `slicelock_live` | 2 runs, 1 operator, 3 attempts | `AcquireTerminates`, `DeadRunsLockHeals` |
| `dispatch` | 2 runs, 1 operator, 2 commits, until a slip | types; `CreditNeedsOwnWork`, `StackOutlivesAgent`, `NobodyWritesFailed`; `LockSteps` |
| `dispatch_hand` | 2 runs, one set-status, epilogues that raise, slips included | `JudgedRunsStrandNothing`, `UndecidedStaysResolvable` |
| `dispatch_nolock` | 1 run, 1 operator | one documented claim, which the code does not keep |
| `sandbox` | 2 commands, 2 branches starting at one address, 2 addresses | `DistinctAddresses`, `VolumesKeepTheirRecord`, `NoContention`, `SameDataSameAddress`; that no command hangs (deadlock) |
| `waiting` | 1 watcher, 2 runs, slips included, 2 unreadable polls | `AbandonedMeansStranded`, `ExitZeroIsEarned`, `SliceWaitFollowsTheRun`, `WaitEnds`; types |
| `closure` | 2 closings, 3 slices, 2 commits, 1 move, 1 kill or failing step | `SpecClosedWithPlan`, `NothingLeftBehind`, `ClosedMeansMerged`, `RefusedBeforeMerging`, `LiveWorkIsSafe`, `DependencyStaysMet` |
| `closure_live` | 1 closing, 2 kills or failing steps | `ClosingCanBeRepeated` |
| `milestone` | 2 processes, 2 slices, 2 tracks, 1 mishap | `RegionInOrder`, `RecordedOrSaid`, `ClosedIsTerminal`, `ClosedMeansDone`, `ActiveMeansWritten`; types; deadlock |
| `gate` | 3 slices, 1 milestone, 6 graphs of dependencies, 1 setback | `StartsAfterDependencies`, `WhatIsOrderedCloses` |
| `provision` | 2 files, 2 versions, 4 commits, 3 dispatches | `CopiesStayUncommitted`, `AgentStartsComplete` |

Bounds and why they are enough. Three runs are the fewest in which a reclaim is
overtaken: one leaves a dead lock, two contend for it. Exclusion and naming are
proved for any number. Two runs at dispatch level let a run follow, overlap or wait
behind another, be a planner or an executor, and find its commits, plan, lock and
agent; two commits let each of them add one of its own, so "before" and "since"
differ for the second run (one commit in the runs that are not about credit). `MaxMoves` = 1 puts one human
set-status at every point of two runs; with moves the operator is left
out, and without moves it is in, which keeps each run under a minute or so.
`dispatch` stops at the first slip (`UntilSlip`): past it SliceLock promises nothing,
and every property of that run but the types and `NobodyWritesFailed` is conditional on
there being none; `dispatch_hand` explores past slips. Starting statuses are the two
gates (`Starts`). Deadlock is not checked: every run may have ended, which is a
state in which the system really stops. Runs are interchangeable, so the safety runs
use their symmetry; the liveness run does not.

For the other modules: two addresses and two branches that start at the same one make
the search collide, wrap around and fail; two closings overlap in every step, and two
commits tell what was complete from what came later; two processes on a brief lose
updates, one mishap is enough for each of its kinds, and the small brief has a track of
either kind; the graphs of `MCGate` hold a chain, a fork, a circle of slices, a circle
through the milestone, an id nobody has and an id within another; three dispatches
create a worktree, reuse it, and create it again on its old branch. Every safety
property of a run that is expected to pass is also proved without these bounds; the
hypotheses three of the proofs add on where a behaviour starts are assumptions of
`MCClosure`, `MCWaiting` and `MCMilestone`, so the instances meet them.

Deadlock is not checked where bounds run out or everything may be closed (`waiting`,
`closure`, `gate`, `provision`). `waiting` does not go on after a verdict, which stays as
it is; only past-verdict states are cut off.

Fairness. `SliceLock.Spec`: weak fairness of each run's acquisition step, which is
straight-line code with bounded retries, and of the clock; nothing is assumed of
agents, humans, supervisors or start-up, and crashes remain possible everywhere.
`WaitingSpec`: the watcher's loop sleeps and polls on, and the clock runs; a supervisor
may hang for ever, which is why `WaitEnds` excepts it. `ClosureSpec`: a command that runs
goes on, the human cleans the tree, and gives the command again whenever it is possible
again and again (strong fairness, as a human who wants the slice closed): that giving it
again helps is the claim. `GateLiveSpec`: whoever drives a slice does the next step
that is open, runs end and do not fail for ever (`MaxSetbacks`).

### What the code does not confirm

Each is a claim of a doc, comment or docstring, quoted in `PROJECT.json`. A cfg named
here is a counterexample configuration: TLC ends with a violation of the property,
whose trace is the story told. `dispatch_nolock` is also one of the runs.

1. `ReclaimIsExclusive` (`slicelock_reclaim.cfg`): `acquire_slice_lock` unlinks whatever
   is there, not what it judged (`locks.py:192`). Two runs that read one dead lock both
   obtain the slice.
2. `GraceIsNoHole` (`slicelock_grace.cfg`): the window of 60 s starts before worktree,
   health check (60 s by default) and hooks, and is not renewed; a slow start-up loses
   its lock.
3. `CommitsSettleTheVerdict` (`dispatch_commits.cfg`): the branch is asked before the
   watch and never again; a commit during the watch leads to the gate and the sweep.
4. `NoLockNoDispatch` (`dispatch_nolock.cfg`): certify on the plan removes the lock while
   the spec stays at `PLANNING`; it is then reported as owned by hand and `reconcile`
   refuses it. An epilogue that raises ends in the same state (`runner.py:112`).
5. `DispatchedFromGate` (`dispatch_gate.cfg`): the status is read before the lock and not
   again under it.
6. `PlannerCreditedForItsPlan` (`dispatch_planner.cfg`): any plan of the slice is
   promoted, whoever wrote it.
7. `NeverPicksAnother` (`gate_shadow.cfg`): an id no document declares is answered by a
   document whose file name contains it (`dependencies.py:39`).
8. `HandOwnedIsNotAbandoned` (`waiting_hand.cfg`): `wait` calls a document abandoned that a
   human put in progress (`abandonment.py:426`).
9. The ordering note in `wait_for_dispatch` (`abandonment.py:382`) misses a dispatch that
   starts between the two readings; `AbandonedMeansStranded` excepts it (`starters`).
10. `InProgressNeverClosed` (`closure_over.cfg`): a closing writes over a spec in progress.
    Closing a plan closes its spec whatever that is at (`orchestrator.py:551`); the trace
    shows the other case, a planner dispatched after the closing had read the status.
11. `RecordedOrSaid`, `ClosedIsTerminal` and `ClosedMeansDone` hold up to `lost`: without a
    lock on the brief one write undoes another, an entry or `MILESTONE_CLOSED` with it.
12. The properties of `Sandbox` hold up to `torn`: a teardown beside a start of the same
    stack leaves containers and volumes without a record (`sandbox.py:355`).
13. `StackOfItsOwn` (`sandbox_folded.cfg`): branches that differ in case or punctuation
    share one stack (`sandbox.py:40`).
14. `close-slice.md` names one status a slice is closed from; the code has two.
15. An `OSError` of the copy is not caught by the dispatch, which dies with its lock
    (`provision.py:133`, `orchestrator.py:802`).

Smaller observations, claimed by no doc: a closing killed after its status write cannot
repeat hook and teardown, since a closed plan has no edge; a merge that fails for any
other reason is marked as a conflict; a brief with one malformed line is skipped in
silence by `briefs_listing`; a comment opened above the first section is not taken for
one by `missing_sections`, so what it hides counts (`milestone.py:162`; the template has
none there); circular dependencies are not reported and their slices
never start; a refusal after `git worktree add` leaves worktree and branch behind.

## Theorems

Every safety property that a passing run checks is a theorem for every value of the
constants. What is proved of `Dispatch` holds beside any number of watchers too, since
`WaitingOnlyLooks`: `WaitingSpec` implies `DispatchSpec`.

`SliceLockProofs`, for any `Runs`, `Operators` and `MaxAttempts`, from
`ConstantsAssumption` alone:

- `TypeCorrect`. `TypeOK` is not inductive: the attempt counter stays in range only
  because a contending run has rounds left (`RoundsLeft`).
- `Exclusion`, `OwnerNamed`, `HumansResolve`. The inductive invariant `IInv` has two
  parts. Always: every content, on disk or in somebody's hands, was staged by a run
  that is at least in the phase it declares (`EveryContentStaged`). Until a slip: each
  holder's lock is on disk (`OwnerOfLock`) and everybody about to unlink judged a
  content whose writer has left that phase for good (`VerdictsStand`). The second
  part needs the first: a content read long ago can only be invalidated by a run
  going back, and no run does. Since there is one file, two holders would have
  to be named by one content.
- `LockImplementsOwnership`: each step is an entry, a departure, a stutter or,
  with a slip, the break of `SliceOwnership`.

`DispatchProofs`, for any initial statuses and bounds, using `DispatchAssumption` as
well:

- `DispatchTakesLockSteps`: every action is a SliceLock step or leaves the lock's
  variables alone, so the lock's invariant carries over; `DispatchExclusion` follows.
- `DispatchTypeCorrect`.
- `VerdictsStrandNothing` and `UndecidedResolvable` from `RunsKeepTrack`: before its
  status write a run has written nothing; from then to its record its own document is
  at the in-progress status or somebody else's; from its record on, what it wrote is
  no in-progress status. The heart is `WayHome`: from each in-progress status
  the machine has an edge to every place a verdict leads to.
- `CreditIsEarned` and `NoAgentLosesItsStack`. `SliceSteps` first reduces the actions to
  what one step may do to a run (`RunStep`), a document, the branch and the stack; the
  later proofs go by these. `RunsStayInCourse` says that a run's stage, verdict and agent
  agree. `CreditInv`, until a slip: a holder's stack is up until it sweeps it itself, and
  every supervised commit since its base is its own, because exclusion keeps every other
  run from committing meanwhile.
- `FailedIsNeverWritten`, from `HomeInReach`: no document is at another role's in-progress
  status while no human moves any, so the gate is one edge away from wherever the run,
  its agent or `reconcile` left the document.

`WaitingProofs`, for any runs and watchers, over the invariants of `Dispatch`:

- `WaitingOnlyLooks`, `WatchersTyped`.
- `ZeroIsEarned` needs who wrote what a watcher reads: `AuthorsAreTrue` ties a success
  status to its author's verdict, also after that run is gone.
- `AbandonedIsStranded` needs the two readings tied together: `NobodyAtWork` keeps, from
  the look at the lock to the reading of the document, that every run but those that
  start in between is over.
- `SliceWaitFollows`, if at most one role can start in the slice (`OneRoleAtAGate`) and
  until a human moves a document: `SoleRole` says that the other document is never in
  progress, so it cannot be the one that is chosen. With both at their gates both roles
  may be at work, and then there is no one run to follow.

`ClosureProofs`, for any slices, number of closings and bounds:

- `ClosureTypeCorrect`.
- `SpecFollowsPlan` and `ChecksComeFirst`, from `CInv`: a closing's document still fits the
  verdict unless somebody wrote it since (`StillFits`), and a closing that has come to
  the spec left a closed plan (`HasGrounds`), which no edge leads away from.
- `DependencyIsKept`: of all steps only a planner's draft over a closed slice takes a
  met dependency back.
- `ClosedIsMerged`, from `MergeInv`: past the merge a closing knows everything complete to
  be merged, or was overtaken.
- `NothingIsLeft`, from `LeftInv`, which counts who is on the way: while a plan is closed
  and nobody was cut short, each effect of its closing is done or some closing is at a
  step before it. That nothing is left when nobody is at work is then a corollary.
- `LiveWorkStays`, if the slice was not moved about by hand before (`OrderlyStart`): until
  a human moves a document, a live executor's plan is in progress and nobody is closing it.

`SandboxProofs`, for any branches, names, addresses and number of commands:

- `SandboxTypeCorrect` and `AddressesDistinct`. Distinct addresses are not inductive: a
  command that has chosen an address has not recorded it yet. `AllocInv` adds that only
  the command holding the allocation lock is in the phases from reading to writing
  (`LockedPhases`) and that the address it chose stays nobody's (`ChosenIsFree`).
- `VolumesKept`, `NeverContends`, `SameDataSameRecord`, from `KeepInv`: until a teardown
  overlaps a start, volumes and published stacks have a readable record with their
  address, and who clears a record clears one whose volumes are gone.

`MilestoneProofs`, for any processes, slices, tracks, sections, first briefs and number
of mishaps. Nothing is recursive here but the reader of sections, so the text functions
are reasoned about through *places*: a function that says where the lines of one text
are in another (`Places`, `Embeds`). Inserting, removing and refreshing a line are
embeddings that keep markers and headings, and an embedding keeps which lines are in the
region, entries, and under which heading (`EmbeddedRegion`, `EmbeddedHeading`).

- `BriefsAreBriefs`: every text, on disk or held by a process, is made of proper lines.
- `ListedOnce`, if the first briefs are in order (`OrderlyBriefs`): `WellKept` holds of the
  brief and of whatever a process holds. An entry is filed where `FiledUnder` says, and a
  process files what it saw unlisted in the very text it holds; one opening marker is
  part of the invariant, since deleting a second one would change the region.
- `NoCheckboxGoesStale`, if besides nothing is ticked at first, from `RecordInv`: what
  is written without having been overtaken loses no entry and no tick (`Derived`), and
  for each closed slice that names its track the tick is there, or a closing is on its
  way to it (`OnItsWay`), or was overtaken.
- `StatusFollowsTable`, `ClosedStaysClosed`, `DoneWhenClosed`, from `Lawful`: a status
  change that nobody overtook passed table and gate on the text it will write.
- `ApprovedMeansWritten`, if the hints of the first briefs are closed
  (`BriefsWithClosedHints`, which the template's are): `ApprovalInv` keeps them closed.
- `MissingMeansEmpty`, of the reader alone: for every text with closed hints,
  `missing_sections` names exactly the required sections under whose heading nobody wrote
  anything outside a comment. Without the hypothesis it is false: a comment opened above
  the first section is not skipped.
- `FilingAgain`, `SyncingAgain`, of the text functions alone: both are idempotent, filing
  lists the one slice more and refreshing lists what was listed.

The reader is a recursive function. That it exists and what it knows after each line is
shown without an induction principle: of the numbers of lines at which it would go wrong
take the least (`Least`, from the well-foundedness of the naturals).

`GateProofs`, for any ids, milestones, dependencies and `Within`:

- `GateInvHolds`: types, `OwnSliceId` (a document names the slice it belongs to) and
  `Carried` (both documents of a slice carry the dependencies of its spec: the planner
  reproduces them, nobody else writes them).
- `DependenciesComeFirst`, from it: the gate reads the dependencies of the document it is
  given, and they are the slice's because of `Carried`.

`ProvisionProofs`, for any declared files and bounds:

- `NoCopyIsCommitted`, `StartsComplete`, from `PInv`. `IgnoredInv` keeps what is copied
  ignored and unknown to the branch's HEAD, which rests on the worktree and not
  the root being asked; `FreshInv` keeps a copy as new as what the dispatch saw.

Only model-checked: liveness (`AcquireTerminates`, `DeadRunsLockHeals`, `WaitEnds`,
`ClosingCanBeRepeated`, `WhatIsOrderedCloses`), because weak and strong fairness rest on
`ENABLED`, which the prover cannot reason about; that a sandbox command never hangs
(deadlock, for the same reason); and all violations.

## Plan

Left, in this order:

1. The hypotheses on first states, shorter: that what `milestone new` writes is an
   orderly brief with closed hints, and that a slice whose documents come out of
   `Dispatch` alone is at one gate at a time.
2. A theorem over two modules: that what `Dispatch` leaves of a slice without a human's
   moves is an `OrderlyStart` of `Closure`.
3. Liveness of `Dispatch`: that each dispatch settles. A supervisor may hang as long as
   its client does (no bound is set), so this needs a fairness of agents
   which the code does not give; `WaitEnds` takes the same exception.

## Not modelled

- `adapters/`, `skills.py`, `errors.py`, hook and command texts: they compose command lines,
  prompts and messages, and hold none of the program's state.
- Parsing YAML and frontmatter, `deep_merge`, `validate_config`: shape checks on a
  dictionary before anything else runs; a configuration that passes is a constant here.
- `status`, `summary`, `sandbox env` and `sandbox exec`: they read and print. `milestone new`
  writes one file from a template, refusing an existing one.
- The containment of paths in `provision.py` and the checks of ids in `utils.py`: rules on
  the characters of a path. What follows from two ids folding to one name is in the
  findings.
- The settle window and observation deadline of `runner.py` as durations: the watch is a
  choice of the outcomes its evidence allows (`Fate`).
- What agents, git, docker and a project's own hooks do inside: each is an action with
  the outcomes the code distinguishes.
