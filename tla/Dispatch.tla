------------------------------ MODULE Dispatch ------------------------------
(***************************************************************************)
(* One slice from `dispatch` to the supervisor's epilogue, with the humans *)
(* who resolve it by hand (scripts/orchestrator.py, scripts/runner.py).    *)
(*                                                                         *)
(* Every step that touches the lock is the step of SliceLock, together     *)
(* with what the code does to the documents, the branch and the sandbox    *)
(* stack at that point; the other steps leave the lock alone.              *)
(***************************************************************************)
EXTENDS SliceLock, SliceMachine, Sequences

CONSTANTS
  InitialStatuses,   \* the statuses of the two documents a behaviour may start in
  MaxCommits,        \* bound on the slice branch's commits
  MaxMoves,          \* bound on the `set-status` commands given
  EpilogueMayAbort   \* whether an epilogue may raise, or find its configuration unusable

ASSUME DispatchAssumption ==
  /\ InitialStatuses \subseteq [Documents -> ValidStatuses \cup {NoDocument}]
  /\ MaxCommits \in Nat /\ MaxMoves \in Nat
  /\ EpilogueMayAbort \in BOOLEAN

VARIABLES
  status,   \* the status of each document, as on disk
  author,   \* history: the run that wrote it last, NoRun for a human
  drafter,  \* history: the run whose agent wrote the plan, NoRun for none
  job,      \* what each run carries with it, and the stage of its dispatch or epilogue
  agent,    \* whether the agent a run started still works
  branch,   \* the commits on feat/<slice_id>: who made them, under a supervisor or not
  stack,    \* whether the slice's sandbox stack is up
  task,     \* the command each operator is giving
  moves     \* `set-status` commands given so far

sliceVars == <<status, author, drafter, job, agent, branch, stack, task, moves>>
dispatchVars == <<vars, sliceVars>>

NewJob(role, gate) ==
  [role |-> role, gate |-> gate, base |-> 0, stage |-> "none", verdict |-> "none"]
NoJob == NewJob("planner", NoDocument)
NoTask == [command |-> "none", document |-> "spec", target |-> NoDocument,
           stage |-> "none"]

Stages == {"none", "prepared", "written", "exit0", "exit1", "watching", "judged",
           "recorded", "swept"}
Verdicts == {"none", "success", "gate", "unknown"}

Jobs == [role : Roles, gate : ValidStatuses \cup {NoDocument}, base : 0..MaxCommits,
         stage : Stages, verdict : Verdicts]
Commands == {"none", "certify", "reconcile"}
Tasks == [command : Commands, document : Documents,
          target : ValidStatuses \cup {NoDocument},
          stage : {"none", "read", "looked", "decided", "written"}]

DispatchTypeOK ==
  /\ TypeOK
  /\ status \in [Documents -> ValidStatuses \cup {NoDocument}]
  /\ author \in [Documents -> Runs \cup {NoRun}]
  /\ drafter \in Runs \cup {NoRun}
  /\ job \in [Runs -> Jobs]
  /\ agent \in [Runs -> {"none", "working", "gone"}]
  /\ branch \in Seq([by : Runs, supervised : BOOLEAN])
  /\ Len(branch) <= MaxCommits
  /\ stack \in BOOLEAN
  /\ task \in [Operators -> Tasks]
  /\ moves \in 0..MaxMoves

DispatchInit ==
  /\ Init
  /\ status \in InitialStatuses
  /\ author = [d \in Documents |-> NoRun]
  /\ drafter = NoRun
  /\ job = [r \in Runs |-> NoJob]
  /\ agent = [r \in Runs |-> "none"]
  /\ branch = <<>>
  /\ stack = FALSE
  /\ task = [o \in Operators |-> NoTask]
  /\ moves = 0

DocumentOfRun(r) == DocumentOf(job[r].role)
AtStage(r, s) == pc[r] = "running" /\ job[r].stage = s
GoToStage(r, s) == job' = [job EXCEPT ![r].stage = s]
WriteStatus(d, new, who) ==
  /\ status' = [status EXCEPT ![d] = new]
  /\ author' = [author EXCEPT ![d] = who]

------------------------------------------------------------------------------
(* cmd_dispatch_agent.                                                      *)

\* The gates, all before the lock.  The status read here is what the run is
\* accepted from and what it is put back to; it is not read again.
ReadGate(r, role) ==
  /\ Begin(r)
  /\ status[DocumentOf(role)] \in AllowedStatuses(role)
  /\ job' = [job EXCEPT ![r] = NewJob(role, status[DocumentOf(role)])]
  /\ UNCHANGED <<status, author, drafter, agent, branch, stack, task, moves>>

Acquire(r) == AcquireStep(r) /\ UNCHANGED sliceVars

\* Mutants: commits counted from the main branch; the count off by one.
BaseFromMain(r) == 0
BaseOffByOne(r) == Len(branch) + 1

\* Where the branch stands now: only an isolated run is judged by what it adds.
Base(r) == IF Isolated(job[r].role) THEN Len(branch) ELSE 0

\* The worktree, the branch tip and the sandbox stack, for an isolated role.
PrepareSlice(r) ==
  /\ pc[r] = "preparing"
  /\ job[r].stage = "none"
  /\ job' = [job EXCEPT ![r].stage = "prepared",
                        ![r].base = Base(r)]
  /\ stack' = (stack \/ Isolated(job[r].role))
  /\ UNCHANGED <<vars, status, author, drafter, agent, branch, task, moves>>

\* Mutant: the lock is left behind.
DispatchFailsLeavingLock(r) ==
  /\ pc[r] = "preparing"
  /\ Goto(r, "ended")
  /\ UNCHANGED <<lock, seen, attempts, aged, others, slips, sliceVars>>

\* Any failure up to and including the status write gives the lock back.
DispatchFails(r) ==
  /\ PrepareFails(r)
  /\ job[r].stage \in {"none", "prepared"}
  /\ UNCHANGED sliceVars

\* The first irreversible mutation.
WriteInProgress(r) ==
  /\ pc[r] = "preparing"
  /\ job[r].stage = "prepared"
  /\ CanMove(status[DocumentOfRun(r)], InProgressStatus(job[r].role))
  /\ WriteStatus(DocumentOfRun(r), InProgressStatus(job[r].role), r)
  /\ GoToStage(r, "written")
  /\ UNCHANGED <<vars, drafter, agent, branch, stack, task, moves>>

SpawnSupervisor(r) ==
  /\ job[r].stage = "written"
  /\ Spawn(r)
  /\ UNCHANGED sliceVars

------------------------------------------------------------------------------
(* run_supervised: claim, run the client, and see what the agent left.      *)

ClaimAndStart(r) ==
  /\ Claim(r)
  /\ agent' = [agent EXCEPT ![r] = "working"]
  /\ UNCHANGED <<status, author, drafter, job, branch, stack, task, moves>>

\* An agent works on, whatever becomes of the client and of the supervisor.
AgentCommits(r) ==
  /\ agent[r] = "working"
  /\ Isolated(job[r].role)
  /\ Len(branch) < MaxCommits
  /\ branch' = Append(branch, [by |-> r, supervised |-> pc[r] = "running"])
  /\ UNCHANGED <<vars, status, author, drafter, job, agent, stack, task, moves>>

AgentDrafts(r) ==
  /\ agent[r] = "working"
  /\ job[r].role = "planner"
  /\ WriteStatus("plan", ProducedStatus, r)
  /\ drafter' = r
  /\ UNCHANGED <<vars, job, agent, branch, stack, task, moves>>

AgentStops(r) ==
  /\ agent[r] = "working"
  /\ agent' = [agent EXCEPT ![r] = "gone"]
  /\ UNCHANGED <<vars, status, author, drafter, job, branch, stack, task, moves>>

\* The client is a thin one: only an exit with 0 says that the agent is done.
ClientExits(r) ==
  /\ AtStage(r, "written")
  /\ \/ /\ GoToStage(r, "exit0")
        /\ agent' = [agent EXCEPT ![r] = "gone"]
     \/ GoToStage(r, "exit1") /\ UNCHANGED agent
  /\ UNCHANGED <<vars, status, author, drafter, branch, stack, task, moves>>

------------------------------------------------------------------------------
(* _record_outcome: examine, watch, record, sweep; then the lock.           *)

Landed(r) == Len(branch) > job[r].base
Judge(r, verdict) == job' = [job EXCEPT ![r].stage = "judged", ![r].verdict = verdict]

\* Commits settle it whatever the exit code; without any, exit 0 does.
ExamineBranch(r) ==
  /\ AtStage(r, "exit0") \/ AtStage(r, "exit1")
  /\ Isolated(job[r].role)
  /\ \/ Landed(r) /\ Judge(r, "success")
     \/ ~Landed(r) /\ AtStage(r, "exit0") /\ Judge(r, "gate")
     \/ ~Landed(r) /\ AtStage(r, "exit1") /\ GoToStage(r, "watching")
  /\ UNCHANGED <<vars, status, author, drafter, agent, branch, stack, task, moves>>

\* Mutant: the exit code taken for the answer.
FateByExitCode(r) == "gate"

\* A working agent changes its workspace: gone quiet, or still changing at the deadline.
Fate(r) == IF agent[r] = "working" THEN "unknown" ELSE "gate"

Watch(r) ==
  /\ AtStage(r, "watching")
  /\ Judge(r, Fate(r))
  /\ UNCHANGED <<vars, status, author, drafter, agent, branch, stack, task, moves>>

\* _promote_produced: any plan of this slice is promoted, if the machine allows it.
ExaminePlan(r) ==
  /\ AtStage(r, "exit0")
  /\ ~Isolated(job[r].role)
  /\ LET success == SuccessStatus(job[r].role) IN
     IF CanMove(status["plan"], success)
       THEN /\ Judge(r, "success")
            /\ IF status["plan"] = success
                 THEN UNCHANGED <<status, author>>
                 ELSE WriteStatus("plan", success, r)
       ELSE Judge(r, "gate") /\ UNCHANGED <<status, author>>
  /\ UNCHANGED <<vars, drafter, agent, branch, stack, task, moves>>

\* The client died over a document: only a human can tell whether it is whole.
WeighPlan(r) ==
  /\ AtStage(r, "exit1")
  /\ ~Isolated(job[r].role)
  /\ Judge(r, IF status["plan"] = NoDocument THEN "gate" ELSE "unknown")
  /\ UNCHANGED <<vars, status, author, drafter, agent, branch, stack, task, moves>>

\* Mutants: a failed run recorded as FAILED; the gate read when the run has ended.
HomeIsFailed(r) ==
  IF job[r].verdict = "success" THEN SuccessStatus(job[r].role) ELSE "FAILED"
HomeReadLate(r) ==
  IF job[r].verdict = "success"
    THEN SuccessStatus(job[r].role) ELSE status[DocumentOfRun(r)]

\* Where the epilogue takes the document: on, or back to the gate it came from.
Home(r) == IF job[r].verdict = "success" THEN SuccessStatus(job[r].role) ELSE job[r].gate

\* FAILED is the fallback of a failed run whose gate cannot be reached; what cannot
\* be written at all is logged.
Record(r) ==
  /\ AtStage(r, "judged")
  /\ job[r].verdict # "unknown"
  /\ LET d == DocumentOfRun(r) IN
     \/ CanMove(status[d], Home(r)) /\ WriteStatus(d, Home(r), r)
     \/ /\ ~CanMove(status[d], Home(r))
        /\ IF job[r].verdict = "gate" /\ CanMove(status[d], "FAILED")
             THEN WriteStatus(d, "FAILED", r)
             ELSE UNCHANGED <<status, author>>
  /\ GoToStage(r, "recorded")
  /\ UNCHANGED <<vars, drafter, agent, branch, stack, task, moves>>

\* Reclamation hangs off the verdict, and off owning the stack.
MustSweep(r) == job[r].verdict = "gate" /\ Isolated(job[r].role)

SweepStack(r) ==
  /\ AtStage(r, "recorded")
  /\ MustSweep(r)
  /\ stack' = FALSE
  /\ GoToStage(r, "swept")
  /\ UNCHANGED <<vars, status, author, drafter, agent, branch, task, moves>>

Finish(r) ==
  /\ AtStage(r, "swept") \/ (AtStage(r, "recorded") /\ ~MustSweep(r))
  /\ Release(r)
  /\ UNCHANGED sliceVars

LeaveUnresolved(r) ==
  /\ AtStage(r, "judged")
  /\ job[r].verdict = "unknown"
  /\ MarkUnresolved(r)
  /\ UNCHANGED sliceVars

\* An unusable configuration, or an exception (a document or the branch that cannot be
\* read or written): unless the verdict is unknown the lock is released all the same.
EpilogueAborts(r) ==
  /\ EpilogueMayAbort
  /\ job[r].stage \in {"exit0", "exit1", "watching", "judged", "recorded"}
  /\ job[r].verdict # "unknown"
  /\ Release(r)
  /\ UNCHANGED sliceVars

Dies(r) == Crash(r) /\ UNCHANGED sliceVars
Ages(r) == GraceElapses(r) /\ UNCHANGED sliceVars

------------------------------------------------------------------------------
(* Humans: certify, reconcile --yes and set-status.                         *)

Free(o) == task' = [task EXCEPT ![o] = NoTask]
Advance(o, s) == task' = [task EXCEPT ![o].stage = s]

\* The document is read first, and what it will be moved to follows from that.
ReadsDocument(o, d) ==
  /\ task[o].stage = "none"
  /\ \/ /\ status[d] \in InProgressStatuses
        /\ task' = [task EXCEPT ![o] = [command |-> "reconcile", document |-> d,
                                        target |-> GateForInProgress(status[d]),
                                        stage |-> "read"]]
     \/ /\ status[d] = ProducedStatus
        /\ task' = [task EXCEPT ![o] = [command |-> "certify", document |-> d,
                                        target |-> SuccessStatus("planner"),
                                        stage |-> "looked"]]
  /\ UNCHANGED <<vars, status, author, drafter, job, agent, branch, stack, moves>>

\* reconcile refuses a document no lock stands for: it is owned by hand.
SeesLock(o) ==
  /\ task[o].stage = "read"
  /\ lock # Absent
  /\ Advance(o, "looked")
  /\ UNCHANGED <<vars, status, author, drafter, job, agent, branch, stack, moves>>

Decides(o) ==
  /\ task[o].stage = "looked"
  /\ OperatorDecides(o)
  /\ Advance(o, "decided")
  /\ UNCHANGED <<status, author, drafter, job, agent, branch, stack, moves>>

WritesTarget(o) ==
  /\ task[o].stage = "decided"
  /\ CanMove(status[task[o].document], task[o].target)
  /\ WriteStatus(task[o].document, task[o].target, NoRun)
  /\ Advance(o, "written")
  /\ UNCHANGED <<vars, drafter, job, agent, branch, stack, moves>>

Resolves(o) ==
  /\ task[o].stage = "written"
  /\ OperatorReleases(o)
  /\ Free(o)
  /\ UNCHANGED <<status, author, drafter, job, agent, branch, stack, moves>>

\* Refused before the decision; the write refused, or the command killed, after it.
Refused(o) ==
  /\ task[o].stage \in {"read", "looked"}
  /\ Free(o)
  /\ UNCHANGED <<vars, status, author, drafter, job, agent, branch, stack, moves>>

Quits(o) ==
  /\ OperatorQuits(o)
  /\ Free(o)
  /\ UNCHANGED <<status, author, drafter, job, agent, branch, stack, moves>>

\* No lock is taken, and none is looked at.  Closing a slice is not modelled here.
SetStatus(d, new) ==
  /\ moves < MaxMoves
  /\ moves' = moves + 1
  /\ new \notin {status[d], "VERIFIED_CLOSED"}
  /\ CanMove(status[d], new)
  /\ WriteStatus(d, new, NoRun)
  /\ UNCHANGED <<vars, drafter, job, agent, branch, stack, task>>

------------------------------------------------------------------------------
DispatcherNext(r) ==
  \/ \E role \in Roles : ReadGate(r, role)
  \/ Acquire(r) \/ PrepareSlice(r) \/ DispatchFails(r) \/ WriteInProgress(r)
  \/ SpawnSupervisor(r)

SupervisorNext(r) ==
  \/ ClaimAndStart(r) \/ ClientExits(r) \/ ExamineBranch(r) \/ Watch(r)
  \/ ExaminePlan(r) \/ WeighPlan(r) \/ Record(r) \/ SweepStack(r) \/ Finish(r)
  \/ LeaveUnresolved(r) \/ EpilogueAborts(r)

AgentNext(r) == AgentCommits(r) \/ AgentDrafts(r) \/ AgentStops(r)

HumanNext ==
  \/ \E o \in Operators : \/ \E d \in Documents : ReadsDocument(o, d)
                          \/ SeesLock(o) \/ Decides(o) \/ WritesTarget(o)
                          \/ Resolves(o) \/ Refused(o) \/ Quits(o)
  \/ \E d \in Documents, new \in ValidStatuses : SetStatus(d, new)

DispatchNext ==
  \/ \E r \in Runs : \/ DispatcherNext(r) \/ SupervisorNext(r) \/ AgentNext(r)
                     \/ Dies(r) \/ Ages(r)
  \/ HumanNext

DispatchSpec == DispatchInit /\ [][DispatchNext]_dispatchVars

------------------------------------------------------------------------------
(* Properties.                                                              *)

\* The composition does with the lock only what SliceLock lets it do, so what is
\* proved of the lock holds of dispatch, supervisor and human commands together.
LockSteps == Init /\ [][Next]_vars

\* A run is credited with its own commits: never with those an earlier run left on
\* the branch, nor with another supervised run's.  Only an agent that outlived its
\* supervisor can be mistaken for it (base_ref, _no_commits_on_the_branch).
CreditNeedsOwnWork ==
  \A r \in Runs :
    slips = {} /\ Isolated(job[r].role) /\ job[r].verdict = "success" =>
      \E i \in (job[r].base + 1)..Len(branch) : branch[i].by = r \/ ~branch[i].supervised

\* A run that reached a verdict and ended leaves no document at an in-progress
\* status of its own writing, however gates, retries and other runs interleaved.
JudgedRunsStrandNothing ==
  \A r \in Runs :
    /\ pc[r] = "ended" /\ job[r].stage \in {"recorded", "swept"}
    /\ author[DocumentOfRun(r)] = r
    => status[DocumentOfRun(r)] \notin InProgressStatuses

\* No sandbox stack is swept from under an agent whose run is supervised, or ended
\* without a verdict (runner.py: reclamation hangs off the verdict).
StackOutlivesAgent ==
  \A r \in Runs :
    slips = {} /\ Isolated(job[r].role) /\ agent[r] = "working"
        /\ pc[r] \in {"running", "unknown"}
      => stack

\* A run that ended undecided keeps its slice resolvable until a human resolves it:
\* the lock says unresolved, and unless somebody else wrote the document it is still
\* at the in-progress status that `reconcile` asks for.
UndecidedStaysResolvable ==
  \A r \in Runs :
    slips = {} /\ pc[r] = "unknown" =>
      /\ lock = File("unresolved", r)
      /\ author[DocumentOfRun(r)] = r =>
           status[DocumentOfRun(r)] = InProgressStatus(job[r].role)

\* While no human moves documents about, no run ever writes FAILED: every verdict
\* finds its way home to the gate (docs/architecture.md).
NobodyWritesFailed ==
  moves = 0 => \A d \in Documents : author[d] \in Runs => status[d] # "FAILED"

\* docs/configuration.md: "A commit settles the question whatever the client did".
\* A run sent back to its gate should have left no commit of its own.
CommitsSettleTheVerdict ==
  \A r \in Runs :
    Isolated(job[r].role) /\ job[r].verdict = "gate" =>
      \A i \in (job[r].base + 1)..Len(branch) : branch[i].by # r

\* docs/configuration.md: "a document at one with no lock was never dispatched into
\* it".  A document in progress without a lock should be a human's.
NoLockNoDispatch ==
  \A d \in Documents :
    slips = {} /\ status[d] \in InProgressStatuses /\ lock = Absent => author[d] = NoRun

\* docs/configuration.md: a dispatch starts from a status "the role accepts".
DispatchedFromGate ==
  [][\A r \in Runs :
       WriteInProgress(r) /\ slips = {} =>
         status[DocumentOfRun(r)] \in AllowedStatuses(job[r].role)]_dispatchVars

\* runner.py: a run ends by promoting "this run's produced document".
PlannerCreditedForItsPlan ==
  \A r \in Runs :
    AtStage(r, "judged") /\ job[r].role = "planner" /\ job[r].verdict = "success"
      => drafter = r
==============================================================================
