---------------------------- MODULE DispatchProofs ----------------------------
(***************************************************************************)
(* What holds of dispatch, supervisor, agents and human commands together, *)
(* for every set of runs and operators, every initial status of the two    *)
(* documents and every number of commits and moves.                        *)
(***************************************************************************)
EXTENDS Dispatch, SliceLockProofs

------------------------------------------------------------------------------
(* The composition does with the lock only what SliceLock does.             *)

LEMMA LockStep == DispatchNext \/ UNCHANGED dispatchVars => [Next]_vars
<1> SUFFICES ASSUME DispatchNext \/ UNCHANGED dispatchVars PROVE [Next]_vars
  OBVIOUS
<1>1. ASSUME NEW r \in Runs, NEW role \in Roles, ReadGate(r, role) PROVE [Next]_vars
  BY <1>1 DEF ReadGate, Next, RunNext
<1>2. ASSUME NEW r \in Runs, Acquire(r) PROVE [Next]_vars
  BY <1>2 DEF Acquire, AcquireStep, Next, RunNext
<1>3. ASSUME NEW r \in Runs, PrepareSlice(r) PROVE [Next]_vars
  BY <1>3 DEF PrepareSlice
<1>4. ASSUME NEW r \in Runs, DispatchFails(r) PROVE [Next]_vars
  BY <1>4 DEF DispatchFails, Next, RunNext
<1>5. ASSUME NEW r \in Runs, WriteInProgress(r) PROVE [Next]_vars
  BY <1>5 DEF WriteInProgress
<1>6. ASSUME NEW r \in Runs, SpawnSupervisor(r) PROVE [Next]_vars
  BY <1>6 DEF SpawnSupervisor, Next, RunNext
<1>7. ASSUME NEW r \in Runs, ClaimAndStart(r) PROVE [Next]_vars
  BY <1>7 DEF ClaimAndStart, Next, RunNext
<1>8. ASSUME NEW r \in Runs, ClientExits(r) PROVE [Next]_vars
  BY <1>8 DEF ClientExits
<1>9. ASSUME NEW r \in Runs, ExamineBranch(r) PROVE [Next]_vars
  BY <1>9 DEF ExamineBranch
<1>10. ASSUME NEW r \in Runs, Watch(r) PROVE [Next]_vars
  BY <1>10 DEF Watch
<1>11. ASSUME NEW r \in Runs, ExaminePlan(r) PROVE [Next]_vars
  BY <1>11 DEF ExaminePlan
<1>12. ASSUME NEW r \in Runs, WeighPlan(r) PROVE [Next]_vars
  BY <1>12 DEF WeighPlan
<1>13. ASSUME NEW r \in Runs, Record(r) PROVE [Next]_vars
  BY <1>13 DEF Record
<1>14. ASSUME NEW r \in Runs, SweepStack(r) PROVE [Next]_vars
  BY <1>14 DEF SweepStack
<1>15. ASSUME NEW r \in Runs, Finish(r) PROVE [Next]_vars
  BY <1>15 DEF Finish, Next, RunNext
<1>16. ASSUME NEW r \in Runs, LeaveUnresolved(r) PROVE [Next]_vars
  BY <1>16 DEF LeaveUnresolved, Next, RunNext
<1>17. ASSUME NEW r \in Runs, EpilogueAborts(r) PROVE [Next]_vars
  BY <1>17 DEF EpilogueAborts, Next, RunNext
<1>18. ASSUME NEW r \in Runs, AgentCommits(r) PROVE [Next]_vars
  BY <1>18 DEF AgentCommits
<1>19. ASSUME NEW r \in Runs, AgentDrafts(r) PROVE [Next]_vars
  BY <1>19 DEF AgentDrafts
<1>20. ASSUME NEW r \in Runs, AgentStops(r) PROVE [Next]_vars
  BY <1>20 DEF AgentStops
<1>21. ASSUME NEW r \in Runs, Dies(r) PROVE [Next]_vars
  BY <1>21 DEF Dies, Next, RunNext
<1>22. ASSUME NEW r \in Runs, Ages(r) PROVE [Next]_vars
  BY <1>22 DEF Ages, Next, RunNext
<1>23. ASSUME NEW o \in Operators, NEW d \in Documents, ReadsDocument(o, d) PROVE [Next]_vars
  BY <1>23 DEF ReadsDocument
<1>24. ASSUME NEW o \in Operators, SeesLock(o) PROVE [Next]_vars
  BY <1>24 DEF SeesLock
<1>25. ASSUME NEW o \in Operators, Decides(o) PROVE [Next]_vars
  BY <1>25 DEF Decides, Next, OperatorNext
<1>26. ASSUME NEW o \in Operators, WritesTarget(o) PROVE [Next]_vars
  BY <1>26 DEF WritesTarget
<1>27. ASSUME NEW o \in Operators, Resolves(o) PROVE [Next]_vars
  BY <1>27 DEF Resolves, Next, OperatorNext
<1>28. ASSUME NEW o \in Operators, Refused(o) PROVE [Next]_vars
  BY <1>28 DEF Refused
<1>29. ASSUME NEW o \in Operators, Quits(o) PROVE [Next]_vars
  BY <1>29 DEF Quits, Next, OperatorNext
<1>30. ASSUME NEW d \in Documents, NEW new \in ValidStatuses, SetStatus(d, new)
       PROVE  [Next]_vars
  BY <1>30 DEF SetStatus
<1>31. CASE UNCHANGED dispatchVars
  BY <1>31 DEF dispatchVars
<1> QED
  BY <1>1, <1>2, <1>3, <1>4, <1>5, <1>6, <1>7, <1>8, <1>9, <1>10, <1>11, <1>12,
     <1>13, <1>14, <1>15, <1>16, <1>17, <1>18, <1>19, <1>20, <1>21, <1>22, <1>23,
     <1>24, <1>25, <1>26, <1>27, <1>28, <1>29, <1>30, <1>31
     DEF DispatchNext, DispatcherNext, SupervisorNext, AgentNext, HumanNext

\* The property LockSteps of the run, for every instance.
THEOREM DispatchTakesLockSteps == DispatchSpec => LockSteps
<1>1. DispatchInit => Init
  BY DEF DispatchInit
<1>2. [DispatchNext]_dispatchVars => [Next]_vars
  BY LockStep
<1> QED
  BY <1>1, <1>2, PTL DEF DispatchSpec, LockSteps

\* Two dispatches of one slice never work in it together, whatever the agents, the
\* verdicts and the humans do, until one of the lock's two slips.
THEOREM DispatchExclusion == DispatchSpec => []ExclusiveUntilSlip
<1>1. Typed /\ IInv => ExclusiveUntilSlip
  BY OwnersExclude DEF Typed, IInv, ExclusiveUntilSlip
<1> QED
  BY <1>1, DispatchTakesLockSteps, InvariantHolds, PTL DEF LockSteps

------------------------------------------------------------------------------
(* Types.                                                                   *)

\* Everything the code writes or compares is a status of the machine.
LEMMA StatusTypes ==
  /\ \A role \in Roles :
       /\ DocumentOf(role) \in Documents
       /\ InProgressStatus(role) \in ValidStatuses
       /\ SuccessStatus(role) \in ValidStatuses
       /\ AllowedStatuses(role) \subseteq ValidStatuses
       /\ InProgressStatus(role) \in InProgressStatuses
       /\ SuccessStatus(role) \notin InProgressStatuses
       /\ AllowedStatuses(role) \cap InProgressStatuses = {}
  /\ \A s \in InProgressStatuses : GateForInProgress(s) \in ValidStatuses
  /\ {ProducedStatus, "FAILED"} \subseteq ValidStatuses \ InProgressStatuses
  /\ "plan" \in Documents
<1> USE DEF Roles, DocumentOf, Documents, InProgressStatus, SuccessStatus,
            AllowedStatuses, ProducedStatus, ValidStatuses, Edges, InProgressStatuses
<1>1. \A s \in InProgressStatuses :
        \E gate \in ValidStatuses :
          \E role \in Roles : InProgressStatus(role) = s /\ gate \in AllowedStatuses(role)
  OBVIOUS
<1>2. \A s \in InProgressStatuses : GateForInProgress(s) \in ValidStatuses
  BY <1>1 DEF GateForInProgress
<1> QED
  BY <1>2

\* The types of Dispatch's own variables: DispatchTypeOK without TypeOK.
SliceTyped ==
  /\ status \in [Documents -> ValidStatuses \cup {NoDocument}]
  /\ author \in [Documents -> Runs \cup {NoRun}]
  /\ drafter \in Runs \cup {NoRun}
  /\ job \in [Runs -> Jobs]
  /\ agent \in [Runs -> {"none", "working", "gone"}]
  /\ branch \in Seq([by : Runs, supervised : BOOLEAN])
  /\ Len(branch) <= MaxCommits
  /\ stack \in BOOLEAN
  /\ task \in [Operators -> Tasks]
  /\ moves \in 0..MaxMoves

\* What the steps write into a job or a task keeps it one.
LEMMA JobUpdates ==
  ASSUME job \in [Runs -> Jobs], NEW r \in Runs
  PROVE  /\ job[r].role \in Roles /\ job[r].gate \in ValidStatuses \cup {NoDocument}
         /\ \A role \in Roles, gate \in ValidStatuses :
              [job EXCEPT ![r] = NewJob(role, gate)] \in [Runs -> Jobs]
         /\ \A s \in Stages : [job EXCEPT ![r].stage = s] \in [Runs -> Jobs]
         /\ \A s \in Stages, v \in Verdicts :
              [job EXCEPT ![r].stage = s, ![r].verdict = v] \in [Runs -> Jobs]
         /\ \A s \in Stages, b \in 0..MaxCommits :
              [job EXCEPT ![r].stage = s, ![r].base = b] \in [Runs -> Jobs]
<1>1. job[r].role \in Roles /\ job[r].gate \in ValidStatuses \cup {NoDocument}
  BY DEF Jobs
<1>2. ASSUME NEW role \in Roles, NEW gate \in ValidStatuses
      PROVE  NewJob(role, gate) \in Jobs
  BY DispatchAssumption DEF NewJob, Jobs, Stages, Verdicts
<1>3. \A s \in Stages : [job EXCEPT ![r].stage = s] \in [Runs -> Jobs]
  BY DEF Jobs
<1>4. \A s \in Stages, v \in Verdicts :
        [job EXCEPT ![r].stage = s, ![r].verdict = v] \in [Runs -> Jobs]
  BY DEF Jobs
<1>5. \A s \in Stages, b \in 0..MaxCommits :
        [job EXCEPT ![r].stage = s, ![r].base = b] \in [Runs -> Jobs]
  BY DEF Jobs
<1> QED
  BY <1>1, <1>2, <1>3, <1>4, <1>5

LEMMA StageMoves ==
  ASSUME job \in [Runs -> Jobs], NEW r \in Runs
  PROVE  /\ \A s \in Stages :
              GoToStage(r, s) =>
                /\ job' \in [Runs -> Jobs]
                /\ job'[r].stage = s
                /\ job'[r].role = job[r].role /\ job'[r].gate = job[r].gate
                /\ \A q \in Runs : q # r => job'[q] = job[q]
         /\ \A v \in Verdicts :
              Judge(r, v) =>
                /\ job' \in [Runs -> Jobs]
                /\ job'[r].stage = "judged"
                /\ job'[r].role = job[r].role /\ job'[r].gate = job[r].gate
                /\ \A q \in Runs : q # r => job'[q] = job[q]
<1>1. \A s \in Stages : GoToStage(r, s) => job' \in [Runs -> Jobs]
  BY DEF GoToStage, Jobs
<1>2. \A v \in Verdicts : Judge(r, v) => job' \in [Runs -> Jobs]
  <2> SUFFICES ASSUME NEW v \in Verdicts
               PROVE  [job EXCEPT ![r].stage = "judged", ![r].verdict = v]
                        \in [Runs -> Jobs]
    BY DEF Judge
  <2>1. "judged" \in Stages
    BY DEF Stages
  <2> QED
    BY <2>1, JobUpdates
<1>3. \A s \in Stages :
        GoToStage(r, s) =>
          /\ job'[r].stage = s
          /\ job'[r].role = job[r].role /\ job'[r].gate = job[r].gate
          /\ \A q \in Runs : q # r => job'[q] = job[q]
  BY DEF GoToStage, Jobs
<1>4. \A v \in Verdicts :
        Judge(r, v) =>
          /\ job'[r].stage = "judged"
          /\ job'[r].role = job[r].role /\ job'[r].gate = job[r].gate
          /\ \A q \in Runs : q # r => job'[q] = job[q]
  BY DEF Judge, Jobs
<1> QED
  BY <1>1, <1>2, <1>3, <1>4

LEMMA DocumentWrites ==
  ASSUME status \in [Documents -> ValidStatuses \cup {NoDocument}],
         author \in [Documents -> Runs \cup {NoRun}],
         NEW r \in Runs, NEW d \in Documents,
         UNCHANGED <<status, author>>
           \/ \E new \in ValidStatuses : WriteStatus(d, new, r)
  PROVE  /\ status' \in [Documents -> ValidStatuses \cup {NoDocument}]
         /\ author' \in [Documents -> Runs \cup {NoRun}]
BY DEF WriteStatus

LEMMA TaskUpdates ==
  ASSUME task \in [Operators -> Tasks], NEW o \in Operators
  PROVE  /\ task[o].document \in Documents
         /\ task[o].target \in ValidStatuses \cup {NoDocument}
         /\ [task EXCEPT ![o] = NoTask] \in [Operators -> Tasks]
         /\ \A s \in {"none", "read", "looked", "decided", "written"} :
              [task EXCEPT ![o].stage = s] \in [Operators -> Tasks]
BY DEF Tasks, NoTask, Commands, Documents

LEMMA SliceTypedInit == DispatchInit => SliceTyped
<1> SUFFICES ASSUME DispatchInit PROVE SliceTyped
  OBVIOUS
<1>1. NoJob \in Jobs
  BY DispatchAssumption DEF NoJob, NewJob, Jobs, Stages, Verdicts, Roles
<1>2. NoTask \in Tasks
  BY DEF NoTask, Tasks, Commands, Documents
<1>3. branch \in Seq([by : Runs, supervised : BOOLEAN]) /\ Len(branch) <= MaxCommits
  BY DispatchAssumption DEF DispatchInit
<1>4. moves \in 0..MaxMoves
  BY DispatchAssumption DEF DispatchInit
<1> QED
  BY <1>1, <1>2, <1>3, <1>4, DispatchAssumption DEF DispatchInit, SliceTyped

LEMMA SliceTypeStep == SliceTyped /\ (DispatchNext \/ UNCHANGED dispatchVars) => SliceTyped'
<1> SUFFICES ASSUME SliceTyped, DispatchNext \/ UNCHANGED dispatchVars PROVE SliceTyped'
  OBVIOUS
<1> USE ConstantsAssumption, DispatchAssumption DEF SliceTyped, Stages, Verdicts
<1>1. ASSUME NEW r \in Runs, NEW role \in Roles, ReadGate(r, role) PROVE SliceTyped'
  BY <1>1, JobUpdates, StatusTypes DEF ReadGate
<1>2. ASSUME NEW r \in Runs, Acquire(r) PROVE SliceTyped'
  BY <1>2 DEF Acquire, sliceVars
<1>3. ASSUME NEW r \in Runs, PrepareSlice(r) PROVE SliceTyped'
  <2>1. Base(r) \in 0..MaxCommits
    BY DEF Base
  <2>2. job' \in [Runs -> Jobs]
    BY <1>3, <2>1, JobUpdates DEF PrepareSlice
  <2> QED
    BY <1>3, <2>2 DEF PrepareSlice, Isolated
<1>4. ASSUME NEW r \in Runs, DispatchFails(r) PROVE SliceTyped'
  BY <1>4 DEF DispatchFails, sliceVars
<1>5. ASSUME NEW r \in Runs, WriteInProgress(r) PROVE SliceTyped'
  BY <1>5, JobUpdates, StatusTypes
     DEF WriteInProgress, WriteStatus, DocumentOfRun, GoToStage
<1>6. ASSUME NEW r \in Runs, SpawnSupervisor(r) PROVE SliceTyped'
  BY <1>6 DEF SpawnSupervisor, sliceVars
<1>7. ASSUME NEW r \in Runs, ClaimAndStart(r) PROVE SliceTyped'
  BY <1>7 DEF ClaimAndStart
<1>8. ASSUME NEW r \in Runs, ClientExits(r) PROVE SliceTyped'
  <2>1. job' \in [Runs -> Jobs]
    BY <1>8, StageMoves DEF ClientExits
  <2>2. agent' \in [Runs -> {"none", "working", "gone"}]
    BY <1>8 DEF ClientExits
  <2> QED
    BY <1>8, <2>1, <2>2 DEF ClientExits
<1>9. ASSUME NEW r \in Runs, ExamineBranch(r) PROVE SliceTyped'
  <2>1. job' \in [Runs -> Jobs]
    BY <1>9, StageMoves DEF ExamineBranch
  <2> QED
    BY <1>9, <2>1 DEF ExamineBranch
<1>10. ASSUME NEW r \in Runs, Watch(r) PROVE SliceTyped'
  BY <1>10, JobUpdates DEF Watch, AtStage, Judge, Fate
<1>11. ASSUME NEW r \in Runs, ExaminePlan(r) PROVE SliceTyped'
  <2>1. job' \in [Runs -> Jobs]
    BY <1>11, StageMoves DEF ExaminePlan
  <2>2. \/ UNCHANGED <<status, author>>
        \/ \E new \in ValidStatuses : WriteStatus("plan", new, r)
    BY <1>11, JobUpdates, StatusTypes DEF ExaminePlan
  <2>3. /\ status' \in [Documents -> ValidStatuses \cup {NoDocument}]
        /\ author' \in [Documents -> Runs \cup {NoRun}]
    BY <2>2, StatusTypes, DocumentWrites
  <2> QED
    BY <1>11, <2>1, <2>3 DEF ExaminePlan
<1>12. ASSUME NEW r \in Runs, WeighPlan(r) PROVE SliceTyped'
  BY <1>12, JobUpdates DEF WeighPlan, AtStage, Judge
<1>13. ASSUME NEW r \in Runs, Record(r) PROVE SliceTyped'
  <2> DEFINE d == DocumentOfRun(r)
  <2>1. job' \in [Runs -> Jobs]
    BY <1>13, StageMoves DEF Record
  <2>2. d \in Documents
    BY JobUpdates, StatusTypes DEF DocumentOfRun
  <2>3. \/ UNCHANGED <<status, author>>
        \/ \E new \in ValidStatuses : WriteStatus(d, new, r)
    BY <1>13, StatusTypes DEF Record, CanMove
  <2>4. /\ status' \in [Documents -> ValidStatuses \cup {NoDocument}]
        /\ author' \in [Documents -> Runs \cup {NoRun}]
    BY <2>2, <2>3, DocumentWrites
  <2> QED
    BY <1>13, <2>1, <2>4 DEF Record
<1>14. ASSUME NEW r \in Runs, SweepStack(r) PROVE SliceTyped'
  BY <1>14, JobUpdates DEF SweepStack, AtStage, GoToStage, MustSweep
<1>15. ASSUME NEW r \in Runs, Finish(r) PROVE SliceTyped'
  BY <1>15 DEF Finish, sliceVars
<1>16. ASSUME NEW r \in Runs, LeaveUnresolved(r) PROVE SliceTyped'
  BY <1>16 DEF LeaveUnresolved, sliceVars
<1>17. ASSUME NEW r \in Runs, EpilogueAborts(r) PROVE SliceTyped'
  BY <1>17 DEF EpilogueAborts, sliceVars
<1>18. ASSUME NEW r \in Runs, AgentCommits(r) PROVE SliceTyped'
  BY <1>18 DEF AgentCommits
<1>19. ASSUME NEW r \in Runs, AgentDrafts(r) PROVE SliceTyped'
  BY <1>19, StatusTypes DEF AgentDrafts, WriteStatus
<1>20. ASSUME NEW r \in Runs, AgentStops(r) PROVE SliceTyped'
  BY <1>20 DEF AgentStops
<1>21. ASSUME NEW r \in Runs, Dies(r) PROVE SliceTyped'
  BY <1>21 DEF Dies, sliceVars
<1>22. ASSUME NEW r \in Runs, Ages(r) PROVE SliceTyped'
  BY <1>22 DEF Ages, sliceVars
<1>23. ASSUME NEW o \in Operators, NEW d \in Documents, ReadsDocument(o, d) PROVE SliceTyped'
  <2>1. task' \in [Operators -> Tasks]
    <3>1. CASE status[d] \in InProgressStatuses
      BY <1>23, <3>1, StatusTypes DEF ReadsDocument, Tasks, Commands
    <3>2. CASE status[d] = ProducedStatus
      BY <1>23, <3>2, StatusTypes DEF ReadsDocument, Tasks, Commands, Roles
    <3> QED
      BY <1>23, <3>1, <3>2 DEF ReadsDocument
  <2> QED
    BY <1>23, <2>1 DEF ReadsDocument
<1>24. ASSUME NEW o \in Operators, SeesLock(o) PROVE SliceTyped'
  BY <1>24, TaskUpdates DEF SeesLock, Advance
<1>25. ASSUME NEW o \in Operators, Decides(o) PROVE SliceTyped'
  BY <1>25, TaskUpdates DEF Decides, Advance
<1>26. ASSUME NEW o \in Operators, WritesTarget(o) PROVE SliceTyped'
  BY <1>26, TaskUpdates DEF WritesTarget, WriteStatus, Advance
<1>27. ASSUME NEW o \in Operators, Resolves(o) PROVE SliceTyped'
  BY <1>27, TaskUpdates DEF Resolves, Free
<1>28. ASSUME NEW o \in Operators, Refused(o) PROVE SliceTyped'
  BY <1>28, TaskUpdates DEF Refused, Free
<1>29. ASSUME NEW o \in Operators, Quits(o) PROVE SliceTyped'
  BY <1>29, TaskUpdates DEF Quits, Free
<1>30. ASSUME NEW d \in Documents, NEW new \in ValidStatuses, SetStatus(d, new)
       PROVE  SliceTyped'
  BY <1>30 DEF SetStatus, WriteStatus
<1>31. CASE UNCHANGED dispatchVars
  BY <1>31 DEF dispatchVars, sliceVars, vars
<1> QED
  BY <1>1, <1>2, <1>3, <1>4, <1>5, <1>6, <1>7, <1>8, <1>9, <1>10, <1>11, <1>12,
     <1>13, <1>14, <1>15, <1>16, <1>17, <1>18, <1>19, <1>20, <1>21, <1>22, <1>23,
     <1>24, <1>25, <1>26, <1>27, <1>28, <1>29, <1>30, <1>31
     DEF DispatchNext, DispatcherNext, SupervisorNext, AgentNext, HumanNext

\* The documents, what each run carries, the branch and the humans' commands are
\* always well-formed.
THEOREM DispatchTypeCorrect == DispatchSpec => []DispatchTypeOK
<1>1. DispatchInit => SliceTyped
  BY SliceTypedInit
<1>2. SliceTyped /\ [DispatchNext]_dispatchVars => SliceTyped'
  BY SliceTypeStep
<1>3. Typed /\ SliceTyped => DispatchTypeOK
  BY DEF Typed, SliceTyped, DispatchTypeOK
<1> QED
  BY <1>1, <1>2, <1>3, DispatchTakesLockSteps, InvariantHolds, PTL DEF DispatchSpec, LockSteps

------------------------------------------------------------------------------
(* What a run knows of its own document.                                    *)

\* From an in-progress status the machine has an edge to wherever a verdict goes.
LEMMA WayHome ==
  \A role \in Roles :
    \A new \in AllowedStatuses(role) \cup {SuccessStatus(role)} :
      CanMove(InProgressStatus(role), new)
BY DEF Roles, InProgressStatus, SuccessStatus, AllowedStatuses, CanMove, ValidStatuses,
       Edges, NoDocument

\* Before a run writes the in-progress status it has written nothing; from then on
\* to its record, its own document is at that status or somebody else's; from the
\* record on, whatever it last wrote there is no in-progress status.
KeepsTrack(r) ==
  /\ pc[r] = "idle" => job[r].stage = "none"
  /\ pc[r] # "idle" => job[r].gate \in AllowedStatuses(job[r].role)
  /\ pc[r] = "spawned" => job[r].stage = "written"
  /\ pc[r] = "unknown" => job[r].stage = "judged"
  /\ job[r].stage \in {"none", "prepared"} =>
       agent[r] = "none" /\ \A d \in Documents : author[d] # r
  /\ job[r].stage \in {"written", "exit0", "exit1", "watching", "judged"}
       /\ author[DocumentOfRun(r)] = r
     => status[DocumentOfRun(r)] = InProgressStatus(job[r].role)
  /\ job[r].stage \in {"recorded", "swept"} /\ author[DocumentOfRun(r)] = r
     => status[DocumentOfRun(r)] \notin InProgressStatuses

RunsKeepTrack == \A r \in Runs : KeepsTrack(r)

\* A step that does not touch a run, its job, its agent or what it wrote keeps it.
LEMMA OthersKeepTrack ==
  ASSUME SliceTyped, NEW q \in Runs, KeepsTrack(q),
         pc'[q] = pc[q], job'[q] = job[q], agent'[q] = agent[q],
         \A e \in Documents :
           author'[e] = q => author[e] = q /\ status'[e] = status[e]
  PROVE  KeepsTrack(q)'
<1>1. DocumentOfRun(q) \in Documents
  BY JobUpdates, StatusTypes DEF SliceTyped, DocumentOfRun
<1> QED
  BY <1>1 DEF KeepsTrack, DocumentOfRun

\* Every step keeps track: the gate read before the lock is the only way home, and
\* the machine has an edge to it from whatever the run itself has left.
LEMMA KeepsTrackStep ==
  ASSUME Typed, SliceTyped, RunsKeepTrack, DispatchNext \/ UNCHANGED dispatchVars
  PROVE  RunsKeepTrack'
<1> USE ConstantsAssumption
    DEF Typed, TypeOK, SliceTyped, Stages, Verdicts, RunsKeepTrack
<1>1. ASSUME NEW r \in Runs, NEW role \in Roles, ReadGate(r, role) PROVE RunsKeepTrack'
  BY <1>1, StatusTypes
     DEF ReadGate, NewJob, Begin, KeepsTrack, DocumentOfRun, Goto, others,
         Acquiring, Holding
<1>2. ASSUME NEW r \in Runs, Acquire(r) PROVE RunsKeepTrack'
  BY <1>2
     DEF Acquire, sliceVars, AcquireStep, Link, LinkRefused, Read, JudgeHeld,
         JudgeStale, Unlink, UnlinkFails, Again, KeepsTrack, DocumentOfRun, Goto,
         others, Acquiring, Holding
<1>3. ASSUME NEW r \in Runs, PrepareSlice(r) PROVE RunsKeepTrack'
  BY <1>3
     DEF PrepareSlice, Base, vars, KeepsTrack, DocumentOfRun, Goto, others,
         Acquiring, Holding
<1>4. ASSUME NEW r \in Runs, DispatchFails(r) PROVE RunsKeepTrack'
  BY <1>4
     DEF DispatchFails, sliceVars, PrepareFails, KeepsTrack, DocumentOfRun, Goto,
         others, Acquiring, Holding
<1>5. ASSUME NEW r \in Runs, WriteInProgress(r) PROVE RunsKeepTrack'
  <2> DEFINE d == DocumentOfRun(r)
  <2>1. GoToStage(r, "written") /\ pc' = pc /\ agent' = agent /\ pc[r] = "preparing"
    BY <1>5 DEF WriteInProgress, vars
  <2>2. d \in Documents /\ d' = d
    BY <2>1, JobUpdates, StatusTypes, StageMoves DEF DocumentOfRun
  <2>3. /\ author'[d] = r
        /\ status'[d] = InProgressStatus(job[r].role)
        /\ \A e \in Documents \ {d} : author'[e] = author[e] /\ status'[e] = status[e]
    BY <1>5, <2>2 DEF WriteInProgress, WriteStatus
  <2>4. KeepsTrack(r)'
    BY <2>1, <2>2, <2>3, StageMoves DEF KeepsTrack
  <2>5. ASSUME NEW q \in Runs, q # r PROVE KeepsTrack(q)'
    BY <2>1, <2>3, <2>5, StageMoves, OthersKeepTrack
  <2> QED
    BY <2>4, <2>5
<1>6. ASSUME NEW r \in Runs, SpawnSupervisor(r) PROVE RunsKeepTrack'
  BY <1>6
     DEF SpawnSupervisor, sliceVars, Spawn, KeepsTrack, DocumentOfRun, Goto, others,
         Acquiring, Holding
<1>7. ASSUME NEW r \in Runs, ClaimAndStart(r) PROVE RunsKeepTrack'
  BY <1>7
     DEF ClaimAndStart, Claim, KeepsTrack, DocumentOfRun, Goto, others, Acquiring,
         Holding
<1>8. ASSUME NEW r \in Runs, ClientExits(r) PROVE RunsKeepTrack'
  <2>1. /\ GoToStage(r, "exit0") \/ GoToStage(r, "exit1")
        /\ UNCHANGED <<pc, status, author>>
        /\ job[r].stage = "written"
        /\ pc[r] = "running"
        /\ \A q \in Runs : q # r => agent'[q] = agent[q]
    BY <1>8 DEF ClientExits, AtStage, vars
  <2>2. KeepsTrack(r)'
    BY <2>1, StageMoves DEF KeepsTrack, DocumentOfRun
  <2>3. ASSUME NEW q \in Runs, q # r PROVE KeepsTrack(q)'
    BY <2>1, <2>3, StageMoves, OthersKeepTrack
  <2> QED
    BY <2>2, <2>3
<1>9. ASSUME NEW r \in Runs, ExamineBranch(r) PROVE RunsKeepTrack'
  <2>1. /\ GoToStage(r, "watching") \/ \E v \in Verdicts : Judge(r, v)
        /\ UNCHANGED <<pc, status, author, agent>>
        /\ job[r].stage \in {"exit0", "exit1"}
        /\ pc[r] = "running"
    BY <1>9 DEF ExamineBranch, AtStage, vars
  <2>2. KeepsTrack(r)'
    BY <2>1, StageMoves DEF KeepsTrack, DocumentOfRun
  <2>3. ASSUME NEW q \in Runs, q # r PROVE KeepsTrack(q)'
    BY <2>1, <2>3, StageMoves, OthersKeepTrack
  <2> QED
    BY <2>2, <2>3
<1>10. ASSUME NEW r \in Runs, Watch(r) PROVE RunsKeepTrack'
  BY <1>10
     DEF Watch, AtStage, Judge, Fate, vars, KeepsTrack, DocumentOfRun, Goto, others,
         Acquiring, Holding
<1>11. ASSUME NEW r \in Runs, ExaminePlan(r) PROVE RunsKeepTrack'
  <2>1. /\ \E v \in Verdicts : Judge(r, v)
        /\ UNCHANGED <<pc, agent>>
        /\ job[r].stage = "exit0"
        /\ pc[r] = "running"
        /\ job[r].role = "planner"
        /\ \/ UNCHANGED <<status, author>>
           \/ WriteStatus("plan", SuccessStatus("planner"), r)
    BY <1>11, JobUpdates DEF ExaminePlan, AtStage, Isolated, Roles, vars
  <2>2. \A e \in Documents :
          \/ author'[e] = author[e] /\ status'[e] = status[e]
          \/ e = "plan" /\ author'[e] = r
    BY <2>1 DEF WriteStatus, Documents
  <2>3. KeepsTrack(r)'
    BY <2>1, <2>2, StageMoves DEF KeepsTrack, DocumentOfRun, DocumentOf, Documents
  <2>4. ASSUME NEW q \in Runs, q # r PROVE KeepsTrack(q)'
    BY <2>1, <2>2, <2>4, StageMoves, OthersKeepTrack
  <2> QED
    BY <2>3, <2>4
<1>12. ASSUME NEW r \in Runs, WeighPlan(r) PROVE RunsKeepTrack'
  BY <1>12
     DEF WeighPlan, AtStage, Judge, vars, KeepsTrack, DocumentOfRun, Goto, others,
         Acquiring, Holding
<1>13. ASSUME NEW r \in Runs, Record(r) PROVE RunsKeepTrack'
  <2> DEFINE d == DocumentOfRun(r)
  <2>1. GoToStage(r, "recorded") /\ pc' = pc /\ agent' = agent
    BY <1>13 DEF Record, vars
  <2>2. job[r].stage = "judged" /\ pc[r] = "running" /\ job[r].role \in Roles
    BY <1>13, JobUpdates DEF Record, AtStage
  <2>3. d \in Documents /\ d' = d
    BY <2>1, JobUpdates, StatusTypes, StageMoves DEF DocumentOfRun
  <2>4. Home(r) \in AllowedStatuses(job[r].role) \cup {SuccessStatus(job[r].role)}
    BY <2>2 DEF Home, KeepsTrack
  <2>5. Home(r) \notin InProgressStatuses
    BY <2>2, <2>4, StatusTypes
  <2>6. \/ \E new : new \notin InProgressStatuses /\ WriteStatus(d, new, r)
        \/ UNCHANGED <<status, author>> /\ ~CanMove(status[d], Home(r))
    BY <1>13, <2>5, StatusTypes DEF Record
  <2>7. author'[d] = r => status'[d] \notin InProgressStatuses
    <3>1. CASE \E new : new \notin InProgressStatuses /\ WriteStatus(d, new, r)
      BY <3>1, <2>3 DEF WriteStatus
    <3>2. CASE UNCHANGED <<status, author>> /\ ~CanMove(status[d], Home(r))
      BY <3>2, <2>2, <2>4, WayHome DEF KeepsTrack
    <3> QED
      BY <2>6, <3>1, <3>2
  <2>8. \A e \in Documents :
          \/ author'[e] = author[e] /\ status'[e] = status[e]
          \/ author'[e] = r
    BY <2>3, <2>6 DEF WriteStatus
  <2>9. KeepsTrack(r)'
    BY <2>1, <2>2, <2>3, <2>7, StageMoves DEF KeepsTrack
  <2>10. ASSUME NEW q \in Runs, q # r PROVE KeepsTrack(q)'
    BY <2>1, <2>8, <2>10, StageMoves, OthersKeepTrack
  <2> QED
    BY <2>9, <2>10
<1>14. ASSUME NEW r \in Runs, SweepStack(r) PROVE RunsKeepTrack'
  BY <1>14
     DEF SweepStack, AtStage, GoToStage, MustSweep, vars, KeepsTrack, DocumentOfRun,
         Goto, others, Acquiring, Holding
<1>15. ASSUME NEW r \in Runs, Finish(r) PROVE RunsKeepTrack'
  BY <1>15
     DEF Finish, sliceVars, Release, KeepsTrack, DocumentOfRun, Goto, others,
         Acquiring, Holding
<1>16. ASSUME NEW r \in Runs, LeaveUnresolved(r) PROVE RunsKeepTrack'
  <2>1. /\ UNCHANGED <<job, agent, status, author>>
        /\ job[r].stage = "judged"
        /\ pc[r] = "running"
        /\ pc' = [pc EXCEPT ![r] = "unknown"]
    BY <1>16 DEF LeaveUnresolved, MarkUnresolved, Goto, AtStage, sliceVars
  <2>2. KeepsTrack(r)'
    BY <2>1 DEF KeepsTrack, DocumentOfRun
  <2>3. ASSUME NEW q \in Runs, q # r PROVE KeepsTrack(q)'
    BY <2>1, <2>3, OthersKeepTrack
  <2> QED
    BY <2>2, <2>3
<1>17. ASSUME NEW r \in Runs, EpilogueAborts(r) PROVE RunsKeepTrack'
  BY <1>17
     DEF EpilogueAborts, sliceVars, Release, KeepsTrack, DocumentOfRun, Goto,
         others, Acquiring, Holding
<1>18. ASSUME NEW r \in Runs, AgentCommits(r) PROVE RunsKeepTrack'
  BY <1>18
     DEF AgentCommits, vars, KeepsTrack, DocumentOfRun, Goto, others, Acquiring,
         Holding
<1>19. ASSUME NEW r \in Runs, AgentDrafts(r) PROVE RunsKeepTrack'
  <2>1. /\ UNCHANGED <<pc, job, agent>>
        /\ agent[r] = "working"
        /\ job[r].role = "planner"
        /\ WriteStatus("plan", ProducedStatus, r)
    BY <1>19 DEF AgentDrafts, vars
  <2>2. \A e \in Documents :
          \/ author'[e] = author[e] /\ status'[e] = status[e]
          \/ e = "plan" /\ author'[e] = r
    BY <2>1 DEF WriteStatus, Documents
  <2>3. KeepsTrack(r)'
    BY <2>1, <2>2 DEF KeepsTrack, DocumentOfRun, DocumentOf, Documents
  <2>4. ASSUME NEW q \in Runs, q # r PROVE KeepsTrack(q)'
    BY <2>1, <2>2, <2>4, OthersKeepTrack
  <2> QED
    BY <2>3, <2>4
<1>20. ASSUME NEW r \in Runs, AgentStops(r) PROVE RunsKeepTrack'
  BY <1>20
     DEF AgentStops, vars, KeepsTrack, DocumentOfRun, Goto, others, Acquiring,
         Holding
<1>21. ASSUME NEW r \in Runs, Dies(r) PROVE RunsKeepTrack'
  BY <1>21
     DEF Dies, sliceVars, Crash, KeepsTrack, DocumentOfRun, Goto, others, Acquiring,
         Holding
<1>22. ASSUME NEW r \in Runs, Ages(r) PROVE RunsKeepTrack'
  BY <1>22
     DEF Ages, sliceVars, GraceElapses, KeepsTrack, DocumentOfRun, Goto, others,
         Acquiring, Holding
<1>23. ASSUME NEW o \in Operators, NEW d \in Documents, ReadsDocument(o, d) PROVE RunsKeepTrack'
  BY <1>23
     DEF ReadsDocument, vars, KeepsTrack, DocumentOfRun, Goto, others, Acquiring,
         Holding
<1>24. ASSUME NEW o \in Operators, SeesLock(o) PROVE RunsKeepTrack'
  BY <1>24
     DEF SeesLock, Advance, vars, KeepsTrack, DocumentOfRun, Goto, others,
         Acquiring, Holding
<1>25. ASSUME NEW o \in Operators, Decides(o) PROVE RunsKeepTrack'
  BY <1>25
     DEF Decides, Advance, OperatorDecides, KeepsTrack, DocumentOfRun, Goto, others,
         Acquiring, Holding
<1>26. ASSUME NEW o \in Operators, WritesTarget(o) PROVE RunsKeepTrack'
  BY <1>26
     DEF WritesTarget, WriteStatus, Advance, vars, KeepsTrack, DocumentOfRun, Goto,
         others, Acquiring, Holding
<1>27. ASSUME NEW o \in Operators, Resolves(o) PROVE RunsKeepTrack'
  BY <1>27
     DEF Resolves, Free, NoTask, OperatorReleases, KeepsTrack, DocumentOfRun, Goto,
         others, Acquiring, Holding
<1>28. ASSUME NEW o \in Operators, Refused(o) PROVE RunsKeepTrack'
  BY <1>28
     DEF Refused, Free, NoTask, vars, KeepsTrack, DocumentOfRun, Goto, others,
         Acquiring, Holding
<1>29. ASSUME NEW o \in Operators, Quits(o) PROVE RunsKeepTrack'
  BY <1>29
     DEF Quits, Free, NoTask, OperatorQuits, KeepsTrack, DocumentOfRun, Goto,
         others, Acquiring, Holding
<1>30. ASSUME NEW d \in Documents, NEW new \in ValidStatuses, SetStatus(d, new)
       PROVE  RunsKeepTrack'
  BY <1>30
     DEF SetStatus, WriteStatus, vars, KeepsTrack, DocumentOfRun, Goto, others,
         Acquiring, Holding
<1>31. CASE UNCHANGED dispatchVars
  BY <1>31 DEF dispatchVars, sliceVars, vars, KeepsTrack, DocumentOfRun
<1> QED
  BY <1>1, <1>2, <1>3, <1>4, <1>5, <1>6, <1>7, <1>8, <1>9, <1>10, <1>11, <1>12,
     <1>13, <1>14, <1>15, <1>16, <1>17, <1>18, <1>19, <1>20, <1>21, <1>22, <1>23,
     <1>24, <1>25, <1>26, <1>27, <1>28, <1>29, <1>30, <1>31
     DEF DispatchNext, DispatcherNext, SupervisorNext, AgentNext, HumanNext

LEMMA TrackKept == DispatchSpec => [](Typed /\ IInv /\ SliceTyped /\ RunsKeepTrack)
<1>1. DispatchInit => SliceTyped /\ RunsKeepTrack
  <2> SUFFICES ASSUME DispatchInit, NEW r \in Runs PROVE KeepsTrack(r)
    BY SliceTypedInit DEF RunsKeepTrack
  <2> QED
    BY ConstantsAssumption DEF DispatchInit, Init, KeepsTrack, NoJob, NewJob
<1>2. Typed /\ SliceTyped /\ RunsKeepTrack /\ [DispatchNext]_dispatchVars
        => SliceTyped' /\ RunsKeepTrack'
  BY SliceTypeStep, KeepsTrackStep
<1> QED
  BY <1>1, <1>2, DispatchTakesLockSteps, InvariantHolds, PTL DEF DispatchSpec, LockSteps

\* No run that reached a verdict leaves its document in progress by its own hand,
\* for every interleaving of runs, agents, slips, aborts and human commands.
THEOREM VerdictsStrandNothing == DispatchSpec => []JudgedRunsStrandNothing
<1>1. RunsKeepTrack => JudgedRunsStrandNothing
  BY DEF RunsKeepTrack, KeepsTrack, JudgedRunsStrandNothing
<1> QED
  BY <1>1, TrackKept, PTL

\* What an undecided run leaves can always be resolved: the lock names it, and the
\* document is where `reconcile` looks for it unless somebody else moved it.
THEOREM UndecidedResolvable == DispatchSpec => []UndecidedStaysResolvable
<1>1. Typed /\ IInv /\ RunsKeepTrack => UndecidedStaysResolvable
  BY DEF IInv, OwnerOfLock, RunsKeepTrack, KeepsTrack, UndecidedStaysResolvable
<1> QED
  BY <1>1, TrackKept, PTL

------------------------------------------------------------------------------
(* What one step may do to a run.                                           *)

\* The steps a run can take: from dispatch to verdict and end, its agent beside it.
StageStep(r, old, new) == job[r].stage = old /\ job'[r] = [job[r] EXCEPT !.stage = new]

SameRun(r) == pc'[r] = pc[r] /\ job'[r] = job[r] /\ agent'[r] = agent[r]

SetsOut(r) ==
  /\ agent'[r] = agent[r]
  /\ \/ /\ pc[r] = "idle" /\ pc'[r] = "linking"
        /\ status' = status
        /\ \E role \in Roles :
             /\ status[DocumentOf(role)] \in AllowedStatuses(role)
             /\ job'[r] = NewJob(role, status[DocumentOf(role)])
     \/ /\ job'[r] = job[r]
        /\ \/ pc[r] \in Acquiring /\ pc'[r] \in Acquiring \cup {"refused", "preparing"}
           \/ pc[r] = "preparing" /\ pc'[r] = "ended" /\ job[r].stage \in {"none", "prepared"}
           \/ pc[r] = "preparing" /\ pc'[r] = "spawned" /\ job[r].stage = "written"
     \/ /\ pc[r] = "preparing" /\ pc'[r] = pc[r]
        /\ \/ /\ job[r].stage = "none"
              /\ job'[r] = [job[r] EXCEPT !.stage = "prepared", !.base = Base(r)]
              /\ branch' = branch /\ stack' = (stack \/ Isolated(job[r].role))
           \/ StageStep(r, "prepared", "written")

Works(r) ==
  /\ pc[r] = "running" /\ pc'[r] = pc[r]
  /\ \/ StageStep(r, "written", "exit0") /\ agent'[r] = "gone"
     \/ StageStep(r, "written", "exit1") /\ agent'[r] = agent[r]
     \/ /\ StageStep(r, "exit1", "watching") \/ StageStep(r, "judged", "recorded")
           \/ (StageStep(r, "recorded", "swept") /\ MustSweep(r))
        /\ agent'[r] = agent[r]
     \/ /\ job[r].stage \in {"exit0", "exit1", "watching"}
        /\ agent'[r] = agent[r]
        /\ \E verdict \in {"success", "gate", "unknown"} :
             /\ job'[r] = [job[r] EXCEPT !.stage = "judged", !.verdict = verdict]
             /\ verdict = "success" /\ Isolated(job[r].role) => Landed(r)
             /\ verdict = "gate" /\ Isolated(job[r].role) =>
                  job[r].stage = "exit0" \/ agent[r] # "working"

Departs(r) ==
  /\ job'[r] = job[r]
  /\ \/ agent'[r] = agent[r]
        /\ \/ pc[r] \in Acquiring \cup {"preparing", "spawned", "running"} /\ pc'[r] = "dead"
           \/ pc[r] = "running" /\ pc'[r] = "ended"
           \/ pc[r] = "running" /\ pc'[r] = "unknown" /\ job[r].stage = "judged"
           \/ pc[r] = "unknown" /\ pc'[r] = "ended"
     \/ pc[r] = "spawned" /\ pc'[r] = "running" /\ agent'[r] = "working"
     \/ pc'[r] = pc[r] /\ agent[r] = "working" /\ agent'[r] = "gone"

RunStep(r) == SameRun(r) \/ SetsOut(r) \/ Works(r) \/ Departs(r)

LEMMA RunSteps ==
  ASSUME Typed, SliceTyped, DispatchNext \/ UNCHANGED dispatchVars, NEW q \in Runs
  PROVE  RunStep(q)
<1> USE ConstantsAssumption
    DEF Typed, TypeOK, SliceTyped, RunStep, SameRun, Goto, others, Roles
<1>1. ASSUME NEW r \in Runs, NEW role \in Roles, ReadGate(r, role) PROVE RunStep(q)
  BY <1>1 DEF ReadGate, Begin, SetsOut, vars
<1>2. ASSUME NEW r \in Runs, Acquire(r) PROVE RunStep(q)
  <2>1. \E p \in Acquiring \cup {"refused", "preparing"} :
          pc[r] \in Acquiring /\ pc' = [pc EXCEPT ![r] = p]
    BY <1>2 DEF Acquire, AcquireStep, Link, LinkRefused, Read, JudgeHeld, JudgeStale,
                Unlink, UnlinkFails, Again, Acquiring
  <2>2. UNCHANGED <<job, agent>>
    BY <1>2 DEF Acquire, sliceVars
  <2> QED
    BY <2>1, <2>2 DEF SetsOut
<1>3. ASSUME NEW r \in Runs, PrepareSlice(r) PROVE RunStep(q)
  BY <1>3 DEF PrepareSlice, SetsOut, StageStep, GoToStage, vars
<1>4. ASSUME NEW r \in Runs, DispatchFails(r) PROVE RunStep(q)
  BY <1>4 DEF DispatchFails, PrepareFails, sliceVars, SetsOut, vars
<1>5. ASSUME NEW r \in Runs, WriteInProgress(r) PROVE RunStep(q)
  BY <1>5 DEF WriteInProgress, SetsOut, StageStep, GoToStage, vars
<1>6. ASSUME NEW r \in Runs, SpawnSupervisor(r) PROVE RunStep(q)
  BY <1>6 DEF SpawnSupervisor, Spawn, sliceVars, SetsOut, vars
<1>7. ASSUME NEW r \in Runs, ClaimAndStart(r) PROVE RunStep(q)
  BY <1>7 DEF ClaimAndStart, Claim, Departs, vars
<1>8. ASSUME NEW r \in Runs, ClientExits(r) PROVE RunStep(q)
  <2>1. pc' = pc /\ pc[r] = "running" /\ job[r].stage = "written"
    BY <1>8 DEF ClientExits, AtStage, vars
  <2>2. \/ job' = [job EXCEPT ![r].stage = "exit0"] /\ agent' = [agent EXCEPT ![r] = "gone"]
        \/ job' = [job EXCEPT ![r].stage = "exit1"] /\ agent' = agent
    BY <1>8 DEF ClientExits, GoToStage
  <2>3. CASE q # r
    BY <2>1, <2>2, <2>3
  <2>4. CASE q = r
    <3>1. \/ StageStep(r, "written", "exit0") /\ agent'[r] = "gone"
          \/ StageStep(r, "written", "exit1") /\ agent'[r] = agent[r]
      BY <2>1, <2>2 DEF StageStep
    <3> QED
      BY <2>1, <2>4, <3>1 DEF Works
  <2> QED
    BY <2>3, <2>4
<1>9. ASSUME NEW r \in Runs, ExamineBranch(r) PROVE RunStep(q)
  <2>1. UNCHANGED <<pc, agent>> /\ pc[r] = "running" /\ job[r].stage \in {"exit0", "exit1"}
    BY <1>9 DEF ExamineBranch, AtStage, vars
  <2>2. \/ Landed(r) /\ Judge(r, "success")
        \/ job[r].stage = "exit0" /\ Judge(r, "gate")
        \/ job[r].stage = "exit1" /\ GoToStage(r, "watching")
    BY <1>9 DEF ExamineBranch, AtStage
  <2>3. CASE q # r
    BY <2>1, <2>2, <2>3 DEF Judge, GoToStage
  <2>4. CASE q = r /\ Landed(r) /\ Judge(r, "success")
    BY <2>1, <2>4 DEF Works, Judge
  <2>5. CASE q = r /\ job[r].stage = "exit0" /\ Judge(r, "gate")
    BY <2>1, <2>5 DEF Works, Judge
  <2>6. CASE q = r /\ job[r].stage = "exit1" /\ GoToStage(r, "watching")
    BY <2>1, <2>6 DEF Works, StageStep, GoToStage
  <2> QED
    BY <2>2, <2>3, <2>4, <2>5, <2>6
<1>10. ASSUME NEW r \in Runs, Watch(r) PROVE RunStep(q)
  BY <1>10 DEF Watch, Works, AtStage, StageStep, GoToStage, Judge, Fate, vars
<1>11. ASSUME NEW r \in Runs, ExaminePlan(r) PROVE RunStep(q)
  <2>1. UNCHANGED <<pc, agent>> /\ pc[r] = "running" /\ job[r].stage = "exit0"
    BY <1>11 DEF ExaminePlan, AtStage, vars
  <2>2. ~Isolated(job[r].role) /\ (Judge(r, "success") \/ Judge(r, "gate"))
    BY <1>11 DEF ExaminePlan
  <2> QED
    BY <2>1, <2>2 DEF Works, Judge
<1>12. ASSUME NEW r \in Runs, WeighPlan(r) PROVE RunStep(q)
  BY <1>12 DEF WeighPlan, Works, AtStage, StageStep, GoToStage, Judge, Fate, vars
<1>13. ASSUME NEW r \in Runs, Record(r) PROVE RunStep(q)
  BY <1>13 DEF Record, Works, AtStage, StageStep, GoToStage, Judge, Fate, vars
<1>14. ASSUME NEW r \in Runs, SweepStack(r) PROVE RunStep(q)
  BY <1>14 DEF SweepStack, Works, AtStage, StageStep, GoToStage, Judge, Fate, vars
<1>15. ASSUME NEW r \in Runs, Finish(r) PROVE RunStep(q)
  BY <1>15 DEF Finish, Release, sliceVars, Departs, AtStage, vars
<1>16. ASSUME NEW r \in Runs, LeaveUnresolved(r) PROVE RunStep(q)
  BY <1>16 DEF LeaveUnresolved, MarkUnresolved, sliceVars, Departs, AtStage, vars
<1>17. ASSUME NEW r \in Runs, EpilogueAborts(r) PROVE RunStep(q)
  BY <1>17 DEF EpilogueAborts, Release, sliceVars, Departs, vars
<1>18. ASSUME NEW r \in Runs, AgentCommits(r) PROVE RunStep(q)
  BY <1>18 DEF AgentCommits, vars
<1>19. ASSUME NEW r \in Runs, AgentDrafts(r) PROVE RunStep(q)
  BY <1>19 DEF AgentDrafts, vars
<1>20. ASSUME NEW r \in Runs, AgentStops(r) PROVE RunStep(q)
  BY <1>20 DEF AgentStops, Departs, vars
<1>21. ASSUME NEW r \in Runs, Dies(r) PROVE RunStep(q)
  BY <1>21 DEF Dies, Crash, sliceVars, Departs, vars
<1>22. ASSUME NEW r \in Runs, Ages(r) PROVE RunStep(q)
  BY <1>22 DEF Ages, GraceElapses, sliceVars, vars
<1>23. ASSUME NEW o \in Operators, NEW d \in Documents, ReadsDocument(o, d) PROVE RunStep(q)
  BY <1>23 DEF ReadsDocument, vars
<1>24. ASSUME NEW o \in Operators, SeesLock(o) PROVE RunStep(q)
  BY <1>24 DEF SeesLock, vars
<1>25. ASSUME NEW o \in Operators, Decides(o) PROVE RunStep(q)
  BY <1>25 DEF Decides, OperatorDecides, vars
<1>26. ASSUME NEW o \in Operators, WritesTarget(o) PROVE RunStep(q)
  BY <1>26 DEF WritesTarget, vars
<1>27. ASSUME NEW o \in Operators, Resolves(o) PROVE RunStep(q)
  BY <1>27 DEF Resolves, OperatorReleases, Departs, vars
<1>28. ASSUME NEW o \in Operators, Refused(o) PROVE RunStep(q)
  BY <1>28 DEF Refused, vars
<1>29. ASSUME NEW o \in Operators, Quits(o) PROVE RunStep(q)
  BY <1>29 DEF Quits, OperatorQuits, vars
<1>30. ASSUME NEW d \in Documents, NEW new \in ValidStatuses, SetStatus(d, new) PROVE RunStep(q)
  BY <1>30 DEF SetStatus, vars
<1>31. CASE UNCHANGED dispatchVars
  BY <1>31 DEF dispatchVars, sliceVars, vars
<1> QED
  BY <1>1, <1>2, <1>3, <1>4, <1>5, <1>6, <1>7, <1>8, <1>9, <1>10, <1>11, <1>12,
     <1>13, <1>14, <1>15, <1>16, <1>17, <1>18, <1>19, <1>20, <1>21, <1>22, <1>23,
     <1>24, <1>25, <1>26, <1>27, <1>28, <1>29, <1>30, <1>31
     DEF DispatchNext, DispatcherNext, SupervisorNext, AgentNext, HumanNext

------------------------------------------------------------------------------
(* What one step may do to the documents, the branch and the stack.         *)

\* Who writes a document, and what: a run its in-progress status, its verdict's home or
\* the FAILED that stands in for it; a planner's agent and its promotion; a human.
RunWrites(r, d) ==
  \/ /\ d = DocumentOfRun(r) /\ pc[r] = "preparing"
     /\ status'[d] = InProgressStatus(job[r].role)
  \/ d = "plan" /\ status'[d] = ProducedStatus
  \/ /\ d = "plan" /\ status'[d] = SuccessStatus("planner")
     /\ job'[r].verdict = "success"
  \/ d = DocumentOfRun(r) /\ AtStage(r, "judged") /\ status'[d] = Home(r)
  \/ /\ d = DocumentOfRun(r) /\ AtStage(r, "judged") /\ status'[d] = "FAILED"
     /\ job[r].verdict = "gate"
     /\ CanMove(status[d], "FAILED") /\ ~CanMove(status[d], Home(r))

DocumentStep(d) ==
  \/ status'[d] = status[d] /\ author'[d] = author[d]
  \/ \E r \in Runs : author'[d] = r /\ RunWrites(r, d)
  \/ /\ author'[d] = NoRun /\ status'[d] \in ValidStatuses
     /\ \/ moves' > moves
        \/ \E o \in Operators : d = task[o].document /\ status'[d] = task[o].target

BranchStep ==
  \/ branch' = branch
  \/ \E r \in Runs : branch' = Append(branch, [by |-> r, supervised |-> pc[r] = "running"])

StackStep ==
  \/ stack' = stack \/ stack'
  \/ \E r \in Runs :
       AtStage(r, "recorded") /\ MustSweep(r) /\ pc' = pc /\ job'[r].stage = "swept"

\* What a human's command moves a document to: what certify certifies, or the gate of
\* the in-progress status it found there.
TaskStep(o) ==
  \/ task'[o].target \in {NoDocument, SuccessStatus("planner")}
  \/ task'[o].target = task[o].target /\ task'[o].document = task[o].document
  \/ \E d \in Documents :
       /\ task'[o].document = d /\ status[d] \in InProgressStatuses
       /\ task'[o].target = GateForInProgress(status[d])

SliceStep ==
  /\ \A d \in Documents : DocumentStep(d)
  /\ BranchStep /\ StackStep
  /\ \A o \in Operators : TaskStep(o)
  /\ moves' >= moves

LEMMA SliceSteps ==
  ASSUME Typed, SliceTyped, DispatchNext \/ UNCHANGED dispatchVars
  PROVE  SliceStep
<1> USE ConstantsAssumption, DispatchAssumption
    DEF SliceTyped, SliceStep, DocumentStep, BranchStep, StackStep, TaskStep
<1>1. ASSUME NEW r \in Runs, NEW role \in Roles, ReadGate(r, role) PROVE SliceStep
  BY <1>1 DEF ReadGate
<1>2. ASSUME NEW r \in Runs, Acquire(r) PROVE SliceStep
  BY <1>2 DEF Acquire, sliceVars
<1>3. ASSUME NEW r \in Runs, PrepareSlice(r) PROVE SliceStep
  <2>1. UNCHANGED <<status, author, branch, task, moves>>
    BY <1>3 DEF PrepareSlice
  <2>2. stack' = stack \/ stack'
    BY <1>3 DEF PrepareSlice
  <2> QED
    BY <2>1, <2>2
<1>4. ASSUME NEW r \in Runs, DispatchFails(r) PROVE SliceStep
  BY <1>4 DEF DispatchFails, sliceVars
<1>5. ASSUME NEW r \in Runs, WriteInProgress(r) PROVE SliceStep
  <2>1. UNCHANGED <<branch, stack, task, moves>>
    BY <1>5 DEF WriteInProgress
  <2>2. \A d \in Documents : DocumentStep(d)
    BY <1>5 DEF WriteInProgress, WriteStatus, RunWrites
  <2> QED
    BY <2>1, <2>2
<1>6. ASSUME NEW r \in Runs, SpawnSupervisor(r) PROVE SliceStep
  BY <1>6 DEF SpawnSupervisor, sliceVars
<1>7. ASSUME NEW r \in Runs, ClaimAndStart(r) PROVE SliceStep
  BY <1>7 DEF ClaimAndStart
<1>8. ASSUME NEW r \in Runs, ClientExits(r) PROVE SliceStep
  BY <1>8 DEF ClientExits
<1>9. ASSUME NEW r \in Runs, ExamineBranch(r) PROVE SliceStep
  BY <1>9 DEF ExamineBranch
<1>10. ASSUME NEW r \in Runs, Watch(r) PROVE SliceStep
  BY <1>10 DEF Watch
<1>11. ASSUME NEW r \in Runs, ExaminePlan(r) PROVE SliceStep
  <2>1. UNCHANGED <<branch, stack, task, moves>>
    BY <1>11 DEF ExaminePlan
  <2>2. job[r].role = "planner"
    BY <1>11, JobUpdates DEF ExaminePlan, Isolated, Roles
  <2>3. \/ UNCHANGED <<status, author>>
        \/ WriteStatus("plan", SuccessStatus("planner"), r) /\ Judge(r, "success")
    BY <1>11, <2>2 DEF ExaminePlan
  <2>4. Judge(r, "success") => job'[r].verdict = "success"
    BY DEF Judge, Jobs
  <2>5. \A d \in Documents : DocumentStep(d)
    BY <2>3, <2>4 DEF WriteStatus, RunWrites
  <2> QED
    BY <2>1, <2>5
<1>12. ASSUME NEW r \in Runs, WeighPlan(r) PROVE SliceStep
  BY <1>12 DEF WeighPlan
<1>13. ASSUME NEW r \in Runs, Record(r) PROVE SliceStep
  <2> DEFINE d == DocumentOfRun(r)
  <2>1. UNCHANGED <<branch, stack, task, moves>> /\ AtStage(r, "judged")
    BY <1>13 DEF Record
  <2>2. \/ UNCHANGED <<status, author>>
        \/ WriteStatus(d, Home(r), r)
        \/ /\ WriteStatus(d, "FAILED", r) /\ job[r].verdict = "gate"
           /\ CanMove(status[d], "FAILED") /\ ~CanMove(status[d], Home(r))
    BY <1>13 DEF Record
  <2>3. \A e \in Documents : DocumentStep(e)
    BY <2>1, <2>2 DEF WriteStatus, RunWrites
  <2> QED
    BY <2>1, <2>3
<1>14. ASSUME NEW r \in Runs, SweepStack(r) PROVE SliceStep
  <2>1. AtStage(r, "recorded") /\ MustSweep(r) /\ pc' = pc /\ job'[r].stage = "swept"
    BY <1>14, StageMoves DEF SweepStack, vars, Stages
  <2>2. UNCHANGED <<status, author, branch, task, moves>>
    BY <1>14 DEF SweepStack
  <2> QED
    BY <2>1, <2>2
<1>15. ASSUME NEW r \in Runs, Finish(r) PROVE SliceStep
  BY <1>15 DEF Finish, sliceVars
<1>16. ASSUME NEW r \in Runs, LeaveUnresolved(r) PROVE SliceStep
  BY <1>16 DEF LeaveUnresolved, sliceVars
<1>17. ASSUME NEW r \in Runs, EpilogueAborts(r) PROVE SliceStep
  BY <1>17 DEF EpilogueAborts, sliceVars
<1>18. ASSUME NEW r \in Runs, AgentCommits(r) PROVE SliceStep
  BY <1>18 DEF AgentCommits
<1>19. ASSUME NEW r \in Runs, AgentDrafts(r) PROVE SliceStep
  BY <1>19 DEF AgentDrafts, WriteStatus, RunWrites
<1>20. ASSUME NEW r \in Runs, AgentStops(r) PROVE SliceStep
  BY <1>20 DEF AgentStops
<1>21. ASSUME NEW r \in Runs, Dies(r) PROVE SliceStep
  BY <1>21 DEF Dies, sliceVars
<1>22. ASSUME NEW r \in Runs, Ages(r) PROVE SliceStep
  BY <1>22 DEF Ages, sliceVars
<1>23. ASSUME NEW o \in Operators, NEW d \in Documents, ReadsDocument(o, d) PROVE SliceStep
  BY <1>23 DEF ReadsDocument
<1>24. ASSUME NEW o \in Operators, SeesLock(o) PROVE SliceStep
  BY <1>24 DEF SeesLock, Advance
<1>25. ASSUME NEW o \in Operators, Decides(o) PROVE SliceStep
  BY <1>25 DEF Decides, Advance
<1>26. ASSUME NEW o \in Operators, WritesTarget(o) PROVE SliceStep
  <2>1. /\ task[o].target \in ValidStatuses
        /\ UNCHANGED <<branch, stack, moves>> /\ Advance(o, "written")
        /\ WriteStatus(task[o].document, task[o].target, NoRun)
    BY <1>26 DEF WritesTarget, CanMove
  <2>2. \A d \in Documents : DocumentStep(d)
    BY <2>1 DEF WriteStatus
  <2>3. \A p \in Operators : TaskStep(p)
    BY <2>1 DEF Advance
  <2> QED
    BY <2>1, <2>2, <2>3
<1>27. ASSUME NEW o \in Operators, Resolves(o) PROVE SliceStep
  BY <1>27 DEF Resolves, Free, NoTask
<1>28. ASSUME NEW o \in Operators, Refused(o) PROVE SliceStep
  BY <1>28 DEF Refused, Free, NoTask
<1>29. ASSUME NEW o \in Operators, Quits(o) PROVE SliceStep
  BY <1>29 DEF Quits, Free, NoTask
<1>30. ASSUME NEW d \in Documents, NEW new \in ValidStatuses, SetStatus(d, new) PROVE SliceStep
  BY <1>30 DEF SetStatus, WriteStatus
<1>31. CASE UNCHANGED dispatchVars
  BY <1>31 DEF dispatchVars, sliceVars
<1> QED
  BY <1>1, <1>2, <1>3, <1>4, <1>5, <1>6, <1>7, <1>8, <1>9, <1>10, <1>11, <1>12,
     <1>13, <1>14, <1>15, <1>16, <1>17, <1>18, <1>19, <1>20, <1>21, <1>22, <1>23,
     <1>24, <1>25, <1>26, <1>27, <1>28, <1>29, <1>30, <1>31
     DEF DispatchNext, DispatcherNext, SupervisorNext, AgentNext, HumanNext

------------------------------------------------------------------------------
(* Whose work a run is credited with, and whose stack it sweeps.            *)

\* What a run has done so far agrees with where it stands; and a verdict that sends an
\* isolated run back to its gate was formed when its agent had stopped.
Unjudged == {"none", "prepared", "written", "exit0", "exit1", "watching"}

StaysInCourse(r) ==
  /\ pc[r] \in {"idle", "refused"} \cup Acquiring => job[r].stage = "none"
  /\ pc[r] \in {"running", "unknown"} => job[r].stage \notin {"none", "prepared"}
  /\ pc[r] = "spawned" => job[r].stage = "written"
  /\ job[r].stage \in Unjudged => job[r].verdict = "none"
  /\ job[r].stage = "exit0" => agent[r] # "working"
  /\ Isolated(job[r].role) /\ job[r].verdict = "gate" => agent[r] # "working"
  /\ job[r].stage = "swept" => job[r].verdict = "gate"

RunsStayInCourse == \A r \in Runs : StaysInCourse(r)

LEMMA InCourseStep ==
  ASSUME SliceTyped, RunsStayInCourse, NEW r \in Runs, RunStep(r)
  PROVE  StaysInCourse(r)'
<1> USE DEF SliceTyped, StaysInCourse, RunsStayInCourse, Acquiring, Unjudged
<1>1. job[r] \in Jobs
  OBVIOUS
<1>2. CASE SameRun(r)
  BY <1>2 DEF SameRun
<1>3. CASE SetsOut(r)
  <2>1. CASE job'[r] = job[r]
    BY <1>3, <2>1 DEF SetsOut
  <2>2. ASSUME NEW role \in Roles, NEW gate, pc'[r] = "linking", job'[r] = NewJob(role, gate)
        PROVE  StaysInCourse(r)'
    BY <2>2 DEF NewJob
  <2>3. ASSUME pc'[r] = "preparing", job[r].stage \in Unjudged,
               job'[r].stage \in {"prepared", "written"},
               job'[r].verdict = job[r].verdict
        PROVE  StaysInCourse(r)'
    BY <2>3
  <2>4. ASSUME job[r].stage = "none",
               job'[r] = [job[r] EXCEPT !.stage = "prepared", !.base = Base(r)]
        PROVE  job'[r].stage = "prepared" /\ job'[r].verdict = job[r].verdict
    BY <1>1, <2>4 DEF Jobs
  <2>5. ASSUME StageStep(r, "prepared", "written")
        PROVE  job'[r].stage = "written" /\ job'[r].verdict = job[r].verdict
               /\ job[r].stage = "prepared"
    BY <1>1, <2>5 DEF StageStep, Jobs
  <2> QED
    BY <1>3, <2>1, <2>2, <2>3, <2>4, <2>5 DEF SetsOut
<1>4. CASE Works(r)
  <2>1. pc[r] = "running" /\ pc'[r] = "running"
    BY <1>4 DEF Works
  <2>2. ASSUME NEW old \in Stages, NEW new \in Stages, StageStep(r, old, new)
        PROVE  /\ job[r].stage = old /\ job'[r].stage = new
               /\ job'[r].verdict = job[r].verdict /\ job'[r].role = job[r].role
    BY <1>1, <2>2 DEF StageStep, Jobs
  <2>3. ASSUME NEW verdict \in {"success", "gate", "unknown"},
               job'[r] = [job[r] EXCEPT !.stage = "judged", !.verdict = verdict]
        PROVE  /\ job'[r].stage = "judged" /\ job'[r].verdict = verdict
               /\ job'[r].role = job[r].role
    BY <1>1, <2>3 DEF Jobs
  <2> QED
    BY <1>4, <2>1, <2>2, <2>3 DEF Works, Stages, MustSweep
<1>5. CASE Departs(r)
  BY <1>5 DEF Departs
<1> QED
  BY <1>2, <1>3, <1>4, <1>5 DEF RunStep

\* Until a slip: an isolated holder's stack is up until it sweeps it itself, and every
\* supervised commit since its base is its own.
InTheSlice(r) == pc[r] \in Holding /\ Isolated(job[r].role) /\ job[r].stage # "none"

StackIsUp == \A r \in Runs : InTheSlice(r) /\ job[r].stage # "swept" => stack

OwnOrUnsupervised(r, i) == branch[i].by = r \/ ~branch[i].supervised

SinceItsBase ==
  \A r \in Runs : InTheSlice(r) =>
    \A i \in (job[r].base + 1)..Len(branch) : OwnOrUnsupervised(r, i)

CreditInv == slips = {} => StackIsUp /\ SinceItsBase /\ CreditNeedsOwnWork

\* How a run comes to hold the slice, and to a verdict.
LEMMA EntersSlice ==
  ASSUME SliceTyped, RunsStayInCourse, NEW r \in Runs, RunStep(r), InTheSlice(r)'
  PROVE  \/ /\ InTheSlice(r) /\ job'[r].base = job[r].base
            /\ job[r].stage = "swept" => job'[r].stage = "swept"
         \/ branch' = branch /\ stack' /\ job'[r].base = Len(branch)
<1> USE DEF SliceTyped, InTheSlice
<1>1. job[r] \in Jobs
  OBVIOUS
<1>2. CASE SameRun(r)
  BY <1>2 DEF SameRun
<1>3. CASE SetsOut(r)
  <2>1. CASE job'[r] = job[r]
    BY <1>3, <2>1
       DEF SetsOut, RunsStayInCourse, StaysInCourse, Acquiring, Holding
  <2>2. ASSUME NEW role \in Roles, NEW gate, job'[r] = NewJob(role, gate)
        PROVE  FALSE
    BY <2>2 DEF NewJob
  <2>3. ASSUME job[r].stage = "none",
               job'[r] = [job[r] EXCEPT !.stage = "prepared", !.base = Base(r)],
               branch' = branch, stack' = (stack \/ Isolated(job[r].role))
        PROVE  branch' = branch /\ stack' /\ job'[r].base = Len(branch)
    <3>1. job'[r].role = job[r].role /\ job'[r].base = Base(r)
      BY <1>1, <2>3 DEF Jobs
    <3>2. Isolated(job[r].role)
      BY <3>1
    <3> QED
      BY <2>3, <3>1, <3>2 DEF Base
  <2>4. ASSUME pc[r] = "preparing", StageStep(r, "prepared", "written")
        PROVE  InTheSlice(r) /\ job'[r].base = job[r].base /\ job[r].stage # "swept"
    BY <1>1, <2>4 DEF StageStep, Jobs, Holding
  <2> QED
    BY <1>3, <2>1, <2>2, <2>3, <2>4 DEF SetsOut
<1>4. CASE Works(r)
  <2>1. pc[r] = "running" /\ job[r].stage \notin {"none", "swept"}
    BY <1>1, <1>4 DEF Works, StageStep
  <2>2. job'[r].base = job[r].base /\ job'[r].role = job[r].role
    BY <1>1, <1>4 DEF Works, StageStep, Jobs
  <2> QED
    BY <2>1, <2>2 DEF Holding
<1>5. CASE Departs(r)
  BY <1>5 DEF Departs, RunsStayInCourse, StaysInCourse, Acquiring, Holding
<1> QED
  BY <1>2, <1>3, <1>4, <1>5 DEF RunStep

LEMMA EarnsSuccess ==
  ASSUME SliceTyped, RunsStayInCourse, NEW r \in Runs, RunStep(r),
         Isolated(job'[r].role), job'[r].verdict = "success"
  PROVE  /\ Isolated(job[r].role) /\ job'[r].base = job[r].base
         /\ job[r].verdict = "success" \/ (InTheSlice(r) /\ Landed(r))
<1> USE DEF SliceTyped
<1>1. job[r] \in Jobs /\ StaysInCourse(r)
  BY DEF RunsStayInCourse
<1>2. CASE job'[r] = job[r]
  BY <1>2
<1>3. CASE SetsOut(r) /\ job'[r] # job[r]
  <2>1. ASSUME NEW role \in Roles, NEW gate, job'[r] = NewJob(role, gate)
        PROVE  FALSE
    BY <2>1 DEF NewJob
  <2>2. ASSUME job[r].stage = "none",
               job'[r] = [job[r] EXCEPT !.stage = "prepared", !.base = Base(r)]
        PROVE  FALSE
    BY <1>1, <2>2 DEF Jobs, StaysInCourse, Unjudged
  <2>3. ASSUME StageStep(r, "prepared", "written") PROVE FALSE
    BY <1>1, <2>3 DEF StageStep, Jobs, StaysInCourse, Unjudged
  <2> QED
    BY <1>3, <2>1, <2>2, <2>3 DEF SetsOut
<1>4. CASE Works(r)
  <2>1. InTheSlice(r) <=> Isolated(job[r].role)
    BY <1>1, <1>4 DEF Works, InTheSlice, StaysInCourse, Holding
  <2>2. ASSUME NEW old \in Stages, NEW new \in Stages, StageStep(r, old, new)
        PROVE  /\ job'[r].verdict = job[r].verdict /\ job'[r].base = job[r].base
               /\ job'[r].role = job[r].role
    BY <1>1, <2>2 DEF StageStep, Jobs
  <2>3. ASSUME NEW verdict \in {"success", "gate", "unknown"},
               job'[r] = [job[r] EXCEPT !.stage = "judged", !.verdict = verdict]
        PROVE  /\ job'[r].verdict = verdict /\ job'[r].base = job[r].base
               /\ job'[r].role = job[r].role
    BY <1>1, <2>3 DEF Jobs
  <2> QED
    BY <1>4, <2>1, <2>2, <2>3 DEF Works, Stages, MustSweep
<1> QED
  BY <1>2, <1>3, <1>4 DEF RunStep, SameRun, Departs

\* The branch only grows, and what is on it stays.
LEMMA BranchGrows ==
  ASSUME SliceTyped, BranchStep
  PROVE  /\ Len(branch) \in Nat /\ Len(branch') \in Nat /\ Len(branch) <= Len(branch')
         /\ \A i \in 1..Len(branch) : branch'[i] = branch[i]
         /\ \A i \in 1..Len(branch') : i > Len(branch) =>
              \E r \in Runs : /\ branch'[i].by = r
                              /\ branch'[i].supervised = (pc[r] = "running")
<1> USE DEF SliceTyped
<1>1. CASE branch' = branch
  BY <1>1
<1>2. ASSUME NEW r \in Runs,
             branch' = Append(branch, [by |-> r, supervised |-> pc[r] = "running"])
      PROVE  /\ Len(branch) \in Nat /\ Len(branch') = Len(branch) + 1
             /\ \A i \in 1..Len(branch) : branch'[i] = branch[i]
             /\ branch'[Len(branch')] = [by |-> r, supervised |-> pc[r] = "running"]
  BY <1>2
<1>3. ASSUME NEW r \in Runs,
             branch' = Append(branch, [by |-> r, supervised |-> pc[r] = "running"]),
             NEW i \in 1..Len(branch'), i > Len(branch)
      PROVE  branch'[i].by = r /\ branch'[i].supervised = (pc[r] = "running")
  <2>1. i = Len(branch')
    BY <1>2, <1>3
  <2> QED
    BY <1>2, <1>3, <2>1
<1>4. CASE \E r \in Runs : branch' = Append(branch, [by |-> r, supervised |-> pc[r] = "running"])
  BY <1>2, <1>3, <1>4
<1> QED
  BY <1>1, <1>4 DEF BranchStep

LEMMA CreditStep ==
  ASSUME Typed, IInv, SliceTyped, RunsStayInCourse, CreditInv,
         DispatchNext \/ UNCHANGED dispatchVars
  PROVE  CreditInv'
<1> SUFFICES ASSUME slips' = {} PROVE (StackIsUp /\ SinceItsBase /\ CreditNeedsOwnWork)'
  BY DEF CreditInv
<1> USE DEF SliceTyped
<1>1. slips = {} /\ StackIsUp /\ SinceItsBase /\ CreditNeedsOwnWork
  BY LockStep, SlipsGrow DEF CreditInv
<1>2. MutualExclusion
  BY <1>1, OwnersExclude DEF Typed, IInv
<1>3. SliceStep /\ \A r \in Runs : RunStep(r)
  BY RunSteps, SliceSteps
<1>4. StackIsUp'
  <2> SUFFICES ASSUME NEW r \in Runs, InTheSlice(r)', job'[r].stage # "swept", ~stack'
               PROVE  FALSE
    BY DEF StackIsUp
  <2>1. InTheSlice(r) /\ job[r].stage # "swept"
    BY <1>3, EntersSlice
  <2>2. PICK q \in Runs : pc[q] = "running" /\ job'[q].stage = "swept"
    BY <1>1, <1>3, <2>1 DEF SliceStep, StackStep, StackIsUp, AtStage
  <2>3. q = r
    BY <1>2, <2>1, <2>2 DEF MutualExclusion, Holders, InTheSlice, Holding
  <2> QED
    BY <2>2, <2>3
<1>5. SinceItsBase'
  <2> SUFFICES ASSUME NEW r \in Runs, InTheSlice(r)',
                      NEW i \in (job'[r].base + 1)..Len(branch')
               PROVE  branch'[i].by = r \/ ~branch'[i].supervised
    BY DEF SinceItsBase, OwnOrUnsupervised
  <2>1. InTheSlice(r) /\ job'[r].base = job[r].base
    <3>1. ASSUME branch' = branch, job'[r].base = Len(branch) PROVE FALSE
      BY <3>1
    <3> QED
      BY <1>3, <3>1, EntersSlice
  <2>2. job[r].base \in Nat
    BY DispatchAssumption DEF Jobs
  <2>3. CASE i <= Len(branch)
    <3>1. i \in (job[r].base + 1)..Len(branch) /\ branch'[i] = branch[i]
      BY <1>3, <2>1, <2>2, <2>3, BranchGrows DEF SliceStep
    <3> QED
      BY <1>1, <2>1, <3>1 DEF SinceItsBase, OwnOrUnsupervised
  <2>4. CASE i > Len(branch)
    <3>1. PICK q \in Runs : /\ branch'[i].by = q
                            /\ branch'[i].supervised = (pc[q] = "running")
      BY <1>3, <2>1, <2>2, <2>4, BranchGrows DEF SliceStep
    <3>2. pc[q] = "running" => q = r
      BY <1>2, <2>1 DEF MutualExclusion, Holders, InTheSlice, Holding
    <3> QED
      BY <3>1, <3>2
  <2> QED
    BY <1>3, <2>1, <2>2, <2>3, <2>4, BranchGrows DEF SliceStep
<1>6. CreditNeedsOwnWork'
  <2> SUFFICES ASSUME NEW r \in Runs, Isolated(job'[r].role), job'[r].verdict = "success"
               PROVE  \E i \in (job'[r].base + 1)..Len(branch') :
                        branch'[i].by = r \/ ~branch'[i].supervised
    BY DEF CreditNeedsOwnWork
  <2>1. /\ Isolated(job[r].role) /\ job'[r].base = job[r].base
        /\ job[r].verdict = "success" \/ (InTheSlice(r) /\ Landed(r))
    BY <1>3, EarnsSuccess
  <2>2. job[r].base \in Nat /\ Len(branch) \in Nat
    BY DispatchAssumption DEF Jobs
  <2>3. PICK i \in (job[r].base + 1)..Len(branch) : OwnOrUnsupervised(r, i)
    <3>1. CASE job[r].verdict = "success"
      BY <1>1, <2>1, <3>1 DEF CreditNeedsOwnWork, OwnOrUnsupervised
    <3>2. CASE InTheSlice(r) /\ Landed(r)
      BY <1>1, <2>2, <3>2 DEF SinceItsBase, Landed
    <3> QED
      BY <2>1, <3>1, <3>2
  <2>4. i \in (job'[r].base + 1)..Len(branch') /\ branch'[i] = branch[i]
    BY <1>3, <2>1, <2>2, <2>3, BranchGrows DEF SliceStep
  <2> QED
    BY <2>3, <2>4 DEF OwnOrUnsupervised
<1> QED
  BY <1>4, <1>5, <1>6

LEMMA CreditKept ==
  DispatchSpec => [](Typed /\ IInv /\ SliceTyped /\ RunsStayInCourse /\ CreditInv)
<1>1. DispatchInit => SliceTyped /\ RunsStayInCourse /\ CreditInv
  <2> SUFFICES ASSUME DispatchInit PROVE RunsStayInCourse /\ CreditInv
    BY SliceTypedInit
  <2>1. \A r \in Runs : /\ pc[r] = "idle" /\ agent[r] = "none"
                        /\ job[r].stage = "none" /\ job[r].verdict = "none"
    BY DEF DispatchInit, Init, NoJob, NewJob
  <2>2. RunsStayInCourse
    BY <2>1 DEF RunsStayInCourse, StaysInCourse
  <2>3. CreditInv
    BY <2>1 DEF CreditInv, StackIsUp, SinceItsBase, InTheSlice, Holding, CreditNeedsOwnWork
  <2> QED
    BY <2>2, <2>3
<1>2. /\ Typed /\ IInv /\ SliceTyped /\ RunsStayInCourse /\ CreditInv
      /\ [DispatchNext]_dispatchVars
      => SliceTyped' /\ RunsStayInCourse' /\ CreditInv'
  <2> SUFFICES ASSUME Typed, IInv, SliceTyped, RunsStayInCourse, CreditInv,
                      DispatchNext \/ UNCHANGED dispatchVars
               PROVE  SliceTyped' /\ RunsStayInCourse' /\ CreditInv'
    OBVIOUS
  <2>1. RunsStayInCourse'
    BY RunSteps, InCourseStep DEF RunsStayInCourse
  <2> QED
    BY <2>1, SliceTypeStep, CreditStep
<1> QED
  BY <1>1, <1>2, DispatchTakesLockSteps, InvariantHolds, PTL DEF DispatchSpec, LockSteps

\* No run is credited with a supervised commit of another one, however runs overlap,
\* retry and die, until one of the lock's two slips.
THEOREM CreditIsEarned == DispatchSpec => []CreditNeedsOwnWork
<1>1. CreditInv => CreditNeedsOwnWork
  BY DEF CreditInv, CreditNeedsOwnWork
<1> QED
  BY <1>1, CreditKept, PTL

\* The stack of an agent that may still be at work stays up: only the run that judged
\* its own agent stopped sweeps it, and only its own.
THEOREM NoAgentLosesItsStack == DispatchSpec => []StackOutlivesAgent
<1>1. RunsStayInCourse /\ CreditInv => StackOutlivesAgent
  BY DEF RunsStayInCourse, StaysInCourse, CreditInv, StackIsUp, InTheSlice, Holding,
         StackOutlivesAgent
<1> QED
  BY <1>1, CreditKept, PTL

------------------------------------------------------------------------------
(* The way home.                                                            *)

\* Without a human's moves no document is ever at another role's in-progress status, once
\* a run of its own role has begun; so the gate is always within reach.
HomeInReach ==
  moves = 0 =>
    /\ \A r \in Runs : pc[r] # "idle" =>
         status[DocumentOfRun(r)] \notin InProgressStatuses \ {InProgressStatus(job[r].role)}
    /\ \A o \in Operators : task[o].target \notin InProgressStatuses
    /\ NobodyWritesFailed

\* Nor does `reconcile` ever lead to an in-progress status.
LEMMA GatesAreNoWork ==
  \A s \in InProgressStatuses : GateForInProgress(s) \notin InProgressStatuses
<1> SUFFICES ASSUME NEW s \in InProgressStatuses
             PROVE  GateForInProgress(s) \notin InProgressStatuses
  OBVIOUS
<1>1. \E gate \in ValidStatuses :
        \E role \in Roles : InProgressStatus(role) = s /\ gate \in AllowedStatuses(role)
  BY DEF Roles, InProgressStatuses, InProgressStatus, AllowedStatuses, ValidStatuses, Edges
<1>2. \E role \in Roles : GateForInProgress(s) \in AllowedStatuses(role)
  BY <1>1 DEF GateForInProgress
<1> QED
  BY <1>2, StatusTypes

LEMMA InProgressAre == InProgressStatuses = {"PLANNING", "EXECUTING"}
BY DEF InProgressStatuses, InProgressStatus, Roles

\* The statuses a run or its agent leaves a document at for good.
LEMMA PlacesToRest ==
  \A s \in {"SPEC_APPROVED", "PLAN_APPROVED", "PLAN_DRAFTING", "PLAN_GENERATED",
            "EXECUTION_COMPLETE"} : s # "FAILED" /\ s \notin InProgressStatuses
BY InProgressAre

\* Wherever the machine lets a failed run's document go to FAILED, it lets it go home.
LEMMA FailedNotNeeded ==
  ASSUME NEW role \in Roles, NEW gate \in AllowedStatuses(role),
         NEW s \in ValidStatuses \cup {NoDocument},
         s \notin InProgressStatuses \ {InProgressStatus(role)}, CanMove(s, "FAILED")
  PROVE  CanMove(s, gate)
<1>1. s \in {"PLANNING", "EXECUTING", "FAILED"}
  BY DEF CanMove, ValidStatuses, Edges
<1>2. CASE role = "planner"
  <2>1. s \in {"PLANNING", "FAILED"} /\ gate = "SPEC_APPROVED"
    BY <1>1, <1>2, InProgressAre DEF InProgressStatus, AllowedStatuses
  <2>2. CanMove("FAILED", "SPEC_APPROVED") /\ CanMove("PLANNING", "SPEC_APPROVED")
    BY DEF CanMove, ValidStatuses, Edges, NoDocument
  <2> QED
    BY <2>1, <2>2
<1>3. CASE role = "executor"
  <2>1. s \in {"EXECUTING", "FAILED"} /\ gate = "PLAN_APPROVED"
    BY <1>1, <1>3, InProgressAre DEF InProgressStatus, AllowedStatuses
  <2>2. CanMove("FAILED", "PLAN_APPROVED") /\ CanMove("EXECUTING", "PLAN_APPROVED")
    BY DEF CanMove, ValidStatuses, Edges, NoDocument
  <2> QED
    BY <2>1, <2>2
<1> QED
  BY <1>2, <1>3 DEF Roles

LEMMA KeepsRole ==
  ASSUME SliceTyped, NEW r \in Runs, RunStep(r), pc[r] # "idle"
  PROVE  job'[r].role = job[r].role /\ job'[r].gate = job[r].gate
<1>1. job[r] \in Jobs
  BY DEF SliceTyped
<1>2. CASE job'[r] = job[r]
  BY <1>2
<1>3. CASE SetsOut(r) /\ job'[r] # job[r]
  BY <1>1, <1>3 DEF SetsOut, StageStep, Jobs
<1>4. CASE Works(r)
  BY <1>1, <1>4 DEF Works, StageStep, Jobs
<1> QED
  BY <1>2, <1>3, <1>4 DEF RunStep, SameRun, Departs

LEMMA HomeInReachStep ==
  ASSUME Typed, SliceTyped, RunsKeepTrack, HomeInReach,
         DispatchNext \/ UNCHANGED dispatchVars
  PROVE  HomeInReach'
<1> SUFFICES ASSUME moves' = 0
             PROVE  /\ \A r \in Runs : pc'[r] # "idle" =>
                         status'[DocumentOfRun(r)'] \notin
                           InProgressStatuses \ {InProgressStatus(job'[r].role)}
                    /\ \A o \in Operators : task'[o].target \notin InProgressStatuses
                    /\ NobodyWritesFailed'
  BY DEF HomeInReach, DocumentOfRun
<1> USE DEF SliceTyped
<1>1. SliceStep /\ \A r \in Runs : RunStep(r)
  BY RunSteps, SliceSteps
<1>2. moves = 0 /\ ~(moves' > moves)
  BY <1>1, DispatchAssumption DEF SliceStep
<1>3. \A r \in Runs : pc[r] # "idle" =>
        /\ status[DocumentOfRun(r)] \notin InProgressStatuses \ {InProgressStatus(job[r].role)}
        /\ job[r].gate \in AllowedStatuses(job[r].role)
  BY <1>2 DEF HomeInReach, RunsKeepTrack, KeepsTrack
<1>4. \A r \in Runs : job[r].role \in Roles /\ DocumentOfRun(r) \in Documents
  BY JobUpdates, StatusTypes DEF DocumentOfRun
<1>5. ASSUME NEW d \in Documents, NEW r \in Runs, RunWrites(r, d)
      PROVE  /\ status'[d] # "FAILED"
             /\ \/ status'[d] \notin InProgressStatuses
                \/ d = DocumentOfRun(r) /\ status'[d] = InProgressStatus(job[r].role)
  <2>1. CASE d = DocumentOfRun(r) /\ status'[d] = InProgressStatus(job[r].role)
    BY <1>4, <2>1 DEF InProgressStatus
  <2>2. CASE d = "plan" /\ status'[d] \in {ProducedStatus, SuccessStatus("planner")}
    <3>1. status'[d] \in {"PLAN_DRAFTING", "PLAN_GENERATED"}
      BY <2>2 DEF ProducedStatus, SuccessStatus
    <3> QED
      BY <3>1, PlacesToRest
  <2>3. CASE AtStage(r, "judged") /\ status'[d] = Home(r)
    <3>1. Home(r) \in AllowedStatuses(job[r].role) \cup {SuccessStatus(job[r].role)}
      BY <1>3, <2>3 DEF Home, AtStage
    <3> QED
      <4>1. status'[d] \in {"SPEC_APPROVED", "PLAN_APPROVED", "PLAN_GENERATED",
                            "EXECUTION_COMPLETE"}
        BY <2>3, <3>1 DEF AllowedStatuses, SuccessStatus
      <4> QED
        BY <4>1, PlacesToRest
  <2>4. CASE /\ d = DocumentOfRun(r) /\ AtStage(r, "judged") /\ job[r].verdict = "gate"
             /\ CanMove(status[d], "FAILED") /\ ~CanMove(status[d], Home(r))
    <3>1. Home(r) = job[r].gate /\ pc[r] # "idle"
      BY <2>4 DEF Home, AtStage
    <3>2. status[d] \in ValidStatuses \cup {NoDocument}
      OBVIOUS
    <3> QED
      BY <1>3, <1>4, <2>4, <3>1, <3>2, FailedNotNeeded
  <2> QED
    BY <1>5, <2>1, <2>2, <2>3, <2>4 DEF RunWrites
<1>6. ASSUME NEW o \in Operators PROVE task'[o].target \notin InProgressStatuses
  <2>1. task[o].target \notin InProgressStatuses
    BY <1>2 DEF HomeInReach
  <2>2. NoDocument \notin InProgressStatuses
    BY DEF NoDocument, InProgressStatuses, InProgressStatus, Roles
  <2> QED
    BY <1>1, <2>1, <2>2, StatusTypes, GatesAreNoWork DEF SliceStep, TaskStep, Roles
<1>7. ASSUME NEW d \in Documents
      PROVE  \/ status'[d] = status[d] /\ author'[d] = author[d]
             \/ \E r \in Runs : author'[d] = r /\ RunWrites(r, d)
             \/ author'[d] = NoRun /\ status'[d] \notin InProgressStatuses
  BY <1>1, <1>2 DEF SliceStep, DocumentStep, HomeInReach
<1>8. ASSUME NEW r \in Runs, pc'[r] # "idle"
      PROVE  status'[DocumentOfRun(r)'] \notin
               InProgressStatuses \ {InProgressStatus(job'[r].role)}
  <2>1. CASE pc[r] = "idle"
    <3>1. PICK role \in Roles : /\ status' = status
                                /\ status[DocumentOf(role)] \in AllowedStatuses(role)
                                /\ job'[r] = NewJob(role, status[DocumentOf(role)])
      BY <1>1, <1>8, <2>1 DEF RunStep, SameRun, SetsOut, Works, Departs, Acquiring
    <3>2. job'[r].role = role
      BY <3>1 DEF NewJob
    <3> QED
      BY <3>1, <3>2, StatusTypes DEF DocumentOfRun
  <2>2. CASE pc[r] # "idle"
    <3> DEFINE d == DocumentOfRun(r)
    <3>1. job'[r].role = job[r].role /\ d' = d /\ d \in Documents
      BY <1>1, <1>4, <2>2, KeepsRole DEF DocumentOfRun
    <3>2. CASE status'[d] = status[d]
      BY <1>3, <2>2, <3>1, <3>2
    <3>3. ASSUME NEW q \in Runs, RunWrites(q, d)
          PROVE  status'[d] \notin InProgressStatuses \ {InProgressStatus(job[r].role)}
      <4>1. DocumentOfRun(q) = d => job[q].role = job[r].role
        BY <1>4 DEF DocumentOfRun, DocumentOf, Roles
      <4> QED
        BY <1>5, <3>1, <3>3, <4>1
    <3> QED
      BY <1>7, <3>1, <3>2, <3>3
  <2> QED
    BY <2>1, <2>2
<1>9. NobodyWritesFailed'
  <2> SUFFICES ASSUME NEW d \in Documents, author'[d] \in Runs PROVE status'[d] # "FAILED"
    BY DEF NobodyWritesFailed
  <2> QED
    BY <1>2, <1>5, <1>7, ConstantsAssumption DEF HomeInReach, NobodyWritesFailed
<1> QED
  BY <1>6, <1>8, <1>9

\* Without a human's moves no run of any number of runs writes FAILED: the gate it was
\* accepted from is always one edge away.
THEOREM FailedIsNeverWritten == DispatchSpec => []NobodyWritesFailed
<1>1. DispatchInit => HomeInReach
  <2> SUFFICES ASSUME DispatchInit PROVE HomeInReach
    OBVIOUS
  <2>1. \A r \in Runs : pc[r] = "idle"
    BY DEF DispatchInit, Init
  <2>2. \A o \in Operators : task[o].target \notin InProgressStatuses
    BY InProgressAre DEF DispatchInit, NoTask, NoDocument
  <2>3. NobodyWritesFailed
    BY ConstantsAssumption DEF DispatchInit, NobodyWritesFailed
  <2> QED
    BY <2>1, <2>2, <2>3 DEF HomeInReach
<1>2. Typed /\ SliceTyped /\ RunsKeepTrack /\ HomeInReach /\ [DispatchNext]_dispatchVars
        => HomeInReach'
  BY HomeInReachStep
<1>3. HomeInReach => NobodyWritesFailed
  BY DEF HomeInReach, NobodyWritesFailed
<1> QED
  BY <1>1, <1>2, <1>3, TrackKept, PTL DEF DispatchSpec
==============================================================================
