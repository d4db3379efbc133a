----------------------------- MODULE WaitingProofs -----------------------------
(***************************************************************************)
(* What the exit code of `wait` is worth, for every set of runs, operators *)
(* and watchers, every bound on unreadable polls and every initial status. *)
(***************************************************************************)
EXTENDS Waiting, DispatchProofs

------------------------------------------------------------------------------
(* A watcher only looks.                                                    *)

LEMMA WatchersLook ==
  WaitingNext \/ UNCHANGED waitingVars => DispatchNext \/ UNCHANGED dispatchVars
BY DEF WaitingNext, Poll, waitingVars

\* Waiting on a dispatch changes nothing in it: whatever is proved of dispatch,
\* supervisor, agents and humans holds with any number of watchers beside them.
THEOREM WaitingOnlyLooks == WaitingSpec => DispatchSpec
<1>1. WaitingInit => DispatchInit
  BY DEF WaitingInit
<1>2. [WaitingNext]_waitingVars => [DispatchNext]_dispatchVars
  BY WatchersLook
<1> QED
  BY <1>1, <1>2, PTL DEF WaitingSpec, DispatchSpec

\* One step of one watcher, and what it leaves behind.
Opens(w) ==
  /\ watch[w].stage = "none" /\ watch'[w].stage = "polling"
  /\ watch'[w].outcome = watch[w].outcome

Refuses(w) ==
  /\ watch[w].stage = "none" /\ watch'[w].stage = "over"
  /\ watch'[w].outcome = "refused" /\ watch'[w].code = 3

MovesOn(w) ==
  /\ watch[w].stage \in {"polling", "found", "looked"}
  /\ watch'[w].stage \in {"polling", "found"}
  /\ watch'[w].outcome = watch[w].outcome

Looks(w) ==
  /\ watch[w].stage \in {"polling", "found"} /\ watch'[w].stage = "looked"
  /\ watch'[w].outcome = watch[w].outcome
  /\ \/ watch'[w].held
     \/ /\ ~Held(lock)
        /\ watch'[w].starters = StillToStart
        /\ watch'[w].hasty = (GraceSlip(lock) # {})

Concludes(w) ==
  /\ watch[w].stage \in {"found", "looked"} /\ watch'[w].stage = "over"
  /\ watch'[w].about = author[watch[w].document]
  /\ watch'[w].code = ExitCode(watch'[w].outcome, Watched(w))
  /\ watch'[w].starters = watch[w].starters /\ watch'[w].hasty = watch[w].hasty
  /\ watch'[w].outcome \in Outcomes \ {"none", "refused"}
  /\ watch'[w].outcome = "abandoned" =>
       watch[w].stage = "looked" /\ ~watch[w].held /\ ~Settled(w)

WatcherStep(w) ==
  watch'[w] = watch[w] \/ Opens(w) \/ Refuses(w) \/ MovesOn(w) \/ Looks(w) \/ Concludes(w)

\* The exit codes are those cmd_wait documents.
LEMMA ExitCodes ==
  \A outcome \in Outcomes \ {"none"} : \A s :
    /\ ExitCode(outcome, s) \in 0..5
    /\ ExitCode(outcome, s) = 0 => outcome = "terminal" /\ s \in SuccessStatuses
BY DEF ExitCode, Outcomes

LEMMA EndingIs ==
  ASSUME WaitingTypeOK, SliceTyped, NEW w \in Watchers,
         NEW outcome \in Outcomes \ {"none", "refused"},
         Ends(w, outcome), watch[w].stage \in {"found", "looked"},
         outcome = "abandoned" =>
           watch[w].stage = "looked" /\ ~watch[w].held /\ ~Settled(w)
  PROVE  WaitingTypeOK' /\ \A u \in Watchers : WatcherStep(u)
<1> USE DEF WaitingTypeOK
<1>1. watch[w] \in Watches /\ watch[w].document \in Documents
  BY DEF Watches
<1>2. author[watch[w].document] \in Runs \cup {NoRun}
  BY <1>1 DEF SliceTyped
<1>3. ExitCode(outcome, Watched(w)) \in 0..5
  BY ExitCodes
<1> DEFINE new == [watch[w] EXCEPT !.stage = "over", !.outcome = outcome,
                                   !.held = FALSE, !.undecided = FALSE,
                                   !.about = author[watch[w].document],
                                   !.code = ExitCode(outcome, Watched(w))]
<1>4. watch' = [watch EXCEPT ![w] = new]
  BY <1>1 DEF Ends
<1>5. new \in Watches
  BY <1>1, <1>2, <1>3 DEF Watches
<1>6. watch'[w] = new /\ \A u \in Watchers : u # w => watch'[u] = watch[u]
  BY <1>4
<1>7. Concludes(w)
  BY <1>1, <1>6 DEF Concludes, Watches
<1> QED
  BY <1>4, <1>5, <1>6, <1>7 DEF WatcherStep

LEMMA LearningIs ==
  ASSUME WaitingTypeOK, NEW w \in Watchers, watch[w].stage \in {"polling", "found"},
         NEW content, NEW held \in BOOLEAN, Learns(w, content, held),
         ~held => ~Held(lock) /\ content = lock
  PROVE  WaitingTypeOK' /\ \A u \in Watchers : WatcherStep(u)
<1> USE WaitingAssumption DEF WaitingTypeOK
<1>1. watch[w] \in Watches
  OBVIOUS
<1> DEFINE
  readings == IF content = Absent THEN watch[w].unreadable ELSE 0
  waiting == IF held THEN {} ELSE StillToStart
  early == ~held /\ GraceSlip(content) # {}
  new == [watch[w] EXCEPT !.stage = "looked", !.held = held,
                          !.undecided = content.state = "unresolved",
                          !.unreadable = readings, !.starters = waiting,
                          !.hasty = early]
<1>2. watch' = [watch EXCEPT ![w] = new]
  BY <1>1 DEF Learns
<1>3. /\ readings \in 0..(MaxUnreadable - 1) /\ waiting \in SUBSET Runs
      /\ early \in BOOLEAN /\ (content.state = "unresolved") \in BOOLEAN
  BY <1>1 DEF Watches, StillToStart
<1>4. new \in Watches
  <2> HIDE DEF readings, waiting, early
  <2> QED
    BY <1>1, <1>3 DEF Watches
<1>5. watch'[w] = new /\ \A u \in Watchers : u # w => watch'[u] = watch[u]
  BY <1>2
<1>6. Looks(w)
  BY <1>1, <1>5 DEF Looks, Watches
<1> QED
  BY <1>2, <1>4, <1>5, <1>6 DEF WatcherStep

\* A step that rewrites one watcher's record into one of its shapes.
LEMMA RewritingIs ==
  ASSUME WaitingTypeOK, NEW w \in Watchers, NEW new \in Watches,
         watch' = [watch EXCEPT ![w] = new],
         Opens(w) \/ Refuses(w) \/ MovesOn(w) \/ Looks(w)
  PROVE  WaitingTypeOK' /\ \A u \in Watchers : WatcherStep(u)
BY DEF WaitingTypeOK, WatcherStep

LEMMA WatcherSteps ==
  ASSUME WaitingTypeOK, SliceTyped, WaitingNext \/ UNCHANGED waitingVars
  PROVE  WaitingTypeOK' /\ \A w \in Watchers : WatcherStep(w)
<1> DEFINE Goal == WaitingTypeOK' /\ \A w \in Watchers : WatcherStep(w)
<1>0. \A w \in Watchers : watch[w] \in Watches
  BY DEF WaitingTypeOK
<1> USE WaitingAssumption
<1>1. ASSUME UNCHANGED watch PROVE Goal
  BY <1>1 DEF WaitingTypeOK, WatcherStep
<1>2. ASSUME NEW w \in Watchers, NEW d \in Documents, NEW until \in BOOLEAN,
             watch[w].stage = "none", StartsWaiting(w, d, until)
      PROVE  Goal
  <2> DEFINE new == [watch[w] EXCEPT !.stage = "polling", !.document = d, !.until = until]
  <2>1. watch' = [watch EXCEPT ![w] = new]
    BY <1>0, <1>2 DEF StartsWaiting
  <2>2. new \in Watches
    BY <1>0 DEF Watches
  <2>3. Opens(w)
    BY <1>0, <1>2, <2>1 DEF Opens, Watches, WaitingTypeOK
  <2> QED
    BY <2>1, <2>2, <2>3, RewritingIs
<1>3. ASSUME NEW w \in Watchers, NEW until \in BOOLEAN, OnSlice(w, until) PROVE Goal
  <2>1. CASE \E d \in TheOneMeant : StartsWaiting(w, d, until)
    BY <1>2, <1>3, <2>1 DEF OnSlice, TheOneMeant, Carrying, At
  <2>2. CASE watch' = [watch EXCEPT ![w].stage = "over", ![w].outcome = "refused",
                                    ![w].code = 3]
    <3> DEFINE new == [watch[w] EXCEPT !.stage = "over", !.outcome = "refused", !.code = 3]
    <3>1. watch' = [watch EXCEPT ![w] = new]
      BY <1>0, <2>2
    <3>2. new \in Watches
      <4>1. "refused" \in Outcomes /\ 3 \in 0..5
        BY DEF Outcomes
      <4> QED
        BY <1>0, <4>1 DEF Watches
    <3>3. Refuses(w)
      BY <1>0, <1>3, <3>1 DEF OnSlice, At, Refuses, Watches, WaitingTypeOK
    <3> QED
      BY <3>1, <3>2, <3>3, RewritingIs
  <2> QED
    BY <1>3, <2>1, <2>2 DEF OnSlice
<1>4. ASSUME NEW w \in Watchers, FindsNoLock(w) PROVE Goal
  <2>1. ~Held(lock) /\ lock = Absent
    BY <1>4 DEF FindsNoLock, Held, Absent
  <2> QED
    BY <1>4, <2>1, LearningIs DEF FindsNoLock, At
<1>5. ASSUME NEW w \in Watchers, FindsLock(w) PROVE Goal
  <2> DEFINE new == [watch[w] EXCEPT !.stage = "found"]
  <2>1. watch' = [watch EXCEPT ![w] = new]
    BY <1>0, <1>5 DEF FindsLock
  <2>2. new \in Watches
    BY <1>0 DEF Watches
  <2>3. MovesOn(w)
    BY <1>0, <1>5, <2>1 DEF FindsLock, At, MovesOn, Watches, WaitingTypeOK
  <2> QED
    BY <2>1, <2>2, <2>3, RewritingIs
<1>6. ASSUME NEW w \in Watchers, ReadsLock(w) PROVE Goal
  <2>1. Held(lock) \in BOOLEAN
    BY DEF Held
  <2> QED
    BY <1>6, <2>1, LearningIs DEF ReadsLock, At
<1>7. ASSUME NEW w \in Watchers, CannotReadLock(w) PROVE Goal
  <2>1. CASE watch[w].unreadable + 1 = MaxUnreadable
    <3>1. Ends(w, "unreadable_lock") /\ watch[w].stage = "found"
      BY <1>7, <2>1 DEF CannotReadLock, At
    <3> QED
      BY <3>1, EndingIs DEF Outcomes
  <2>2. CASE watch[w].unreadable + 1 # MaxUnreadable
    <3> DEFINE new == [watch[w] EXCEPT !.stage = "looked", !.held = TRUE,
                                       !.unreadable = @ + 1]
    <3>1. watch' = [watch EXCEPT ![w] = new]
      BY <1>0, <1>7, <2>2 DEF CannotReadLock
    <3>2. watch[w].unreadable + 1 \in 0..(MaxUnreadable - 1)
      BY <1>0, <2>2 DEF Watches
    <3>3. new \in Watches
      BY <1>0, <3>2 DEF Watches
    <3>4. Looks(w)
      BY <1>0, <1>7, <3>1 DEF CannotReadLock, At, Looks, Watches, WaitingTypeOK
    <3> QED
      BY <3>1, <3>3, <3>4, RewritingIs
  <2> QED
    BY <2>1, <2>2
<1>8. ASSUME NEW w \in Watchers,
             EndsTerminal(w) \/ EndsUnresolved(w) \/ EndsAbandoned(w)
      PROVE  Goal
  BY <1>8, EndingIs
     DEF EndsTerminal, EndsUnresolved, EndsAbandoned, At, Outcomes, Stranded
<1>9. ASSUME NEW w \in Watchers, PollsAgain(w) PROVE Goal
  <2>1. CASE Ends(w, "timed_out")
    BY <1>9, <2>1, EndingIs DEF PollsAgain, At, Outcomes
  <2>2. CASE watch' = [watch EXCEPT ![w].stage = "polling", ![w].undecided = FALSE,
                                    ![w].held = FALSE, ![w].hasty = FALSE,
                                    ![w].starters = {}]
    <3> DEFINE new == [watch[w] EXCEPT !.stage = "polling", !.undecided = FALSE,
                                       !.held = FALSE, !.hasty = FALSE, !.starters = {}]
    <3>1. watch' = [watch EXCEPT ![w] = new]
      BY <1>0, <2>2
    <3>2. new \in Watches
      BY <1>0 DEF Watches
    <3>3. MovesOn(w)
      BY <1>0, <1>9, <3>1 DEF PollsAgain, At, MovesOn, Watches, WaitingTypeOK
    <3> QED
      BY <3>1, <3>2, <3>3, RewritingIs
  <2> QED
    BY <1>9, <2>1, <2>2 DEF PollsAgain
<1>10. CASE UNCHANGED waitingVars
  BY <1>1, <1>10 DEF waitingVars
<1>11. CASE \E w \in Watchers : \E d \in Documents, until \in BOOLEAN : OnFile(w, d, until)
  BY <1>2, <1>11 DEF OnFile, At
<1>12. CASE \E w \in Watchers : Poll(w)
  BY <1>4, <1>5, <1>6, <1>7, <1>8, <1>9, <1>12 DEF Poll
<1> QED
  BY <1>1, <1>3, <1>10, <1>11, <1>12 DEF WaitingNext

\* What a watcher knows and reports is well-formed; in particular the number of
\* unreadable polls it has put up with stays below the limit.
THEOREM WatchersTyped == WaitingSpec => []WaitingTypeOK
<1>1. WaitingInit => WaitingTypeOK
  <2>1. NoWatch \in Watches
    BY WaitingAssumption DEF NoWatch, Watches, Outcomes, Documents
  <2> QED
    BY <2>1 DEF WaitingInit, WaitingTypeOK
<1>2. WaitingTypeOK /\ SliceTyped /\ [WaitingNext]_waitingVars => WaitingTypeOK'
  BY WatcherSteps
<1> QED
  BY <1>1, <1>2, TrackKept, WaitingOnlyLooks, PTL DEF WaitingSpec

------------------------------------------------------------------------------
(* Who wrote the status a watcher reads.                                    *)

\* A success status of a run's own writing was earned by its verdict, and away from its
\* own document a run leaves no status that says somebody is at work.
EarnedBy(r, d) ==
  author[d] = r =>
    /\ status[d] \in SuccessStatuses => job[r].verdict = "success"
    /\ d # DocumentOfRun(r) => status[d] \notin InProgressStatuses

AuthorsAreTrue == \A r \in Runs, d \in Documents : EarnedBy(r, d)

LEMMA SuccessesAre ==
  /\ SuccessStatuses = {"PLAN_GENERATED", "EXECUTION_COMPLETE"}
  /\ SuccessStatuses \cap InProgressStatuses = {}
  /\ \A role \in Roles : AllowedStatuses(role) \cap SuccessStatuses = {}
  /\ {"FAILED", ProducedStatus} \cap SuccessStatuses = {}
BY DEF SuccessStatuses, SuccessStatus, Roles, InProgressStatuses, InProgressStatus,
       AllowedStatuses, ProducedStatus

\* A verdict of success stands, and so does the role it was formed in.
LEMMA SuccessStands ==
  ASSUME SliceTyped, RunsStayInCourse, NEW r \in Runs, RunStep(r)
  PROVE  /\ job[r].verdict = "success" => job'[r].verdict = "success"
         /\ pc[r] # "idle" => job'[r].role = job[r].role
<1>1. job[r] \in Jobs /\ StaysInCourse(r)
  BY DEF SliceTyped, RunsStayInCourse
<1>2. CASE job'[r] = job[r]
  BY <1>2
<1>3. CASE SetsOut(r) /\ job'[r] # job[r]
  BY <1>1, <1>3 DEF SetsOut, StageStep, Jobs, StaysInCourse, Acquiring, Unjudged
<1>4. CASE Works(r)
  BY <1>1, <1>4 DEF Works, StageStep, Jobs, StaysInCourse, Unjudged
<1>5. job[r].verdict = "success" => job'[r].verdict = "success"
  BY <1>2, <1>3, <1>4 DEF RunStep, SameRun, Departs
<1> QED
  BY <1>5, KeepsRole

LEMMA AuthorsStep ==
  ASSUME Typed, SliceTyped, RunsStayInCourse, RunsKeepTrack, AuthorsAreTrue,
         DispatchNext \/ UNCHANGED dispatchVars
  PROVE  AuthorsAreTrue'
<1> USE DEF SliceTyped
<1>1. SliceStep /\ \A r \in Runs : RunStep(r)
  BY RunSteps, SliceSteps
<1> SUFFICES ASSUME NEW r \in Runs, NEW d \in Documents, author'[d] = r
             PROVE  /\ status'[d] \in SuccessStatuses => job'[r].verdict = "success"
                    /\ d # DocumentOfRun(r)' => status'[d] \notin InProgressStatuses
  BY DEF AuthorsAreTrue, EarnedBy
<1>2. /\ job[r].verdict = "success" => job'[r].verdict = "success"
      /\ pc[r] # "idle" => DocumentOfRun(r)' = DocumentOfRun(r)
  BY <1>1, SuccessStands DEF DocumentOfRun
<1>3. job[r].role \in Roles /\ KeepsTrack(r)
  BY JobUpdates DEF RunsKeepTrack
<1>4. CASE status'[d] = status[d] /\ author'[d] = author[d]
  <2>1. pc[r] # "idle"
    BY <1>3, <1>4 DEF KeepsTrack
  <2> QED
    BY <1>2, <1>4, <2>1 DEF AuthorsAreTrue, EarnedBy
<1>5. CASE RunWrites(r, d)
  <2>1. CASE d = DocumentOfRun(r) /\ pc[r] = "preparing"
             /\ status'[d] = InProgressStatus(job[r].role)
    BY <1>2, <1>3, <2>1, StatusTypes, SuccessesAre
  <2>2. CASE status'[d] = ProducedStatus
    BY <2>2, StatusTypes, SuccessesAre
  <2>3. CASE status'[d] = SuccessStatus("planner") /\ job'[r].verdict = "success"
    BY <2>3, StatusTypes DEF Roles
  <2>4. CASE AtStage(r, "judged") /\ status'[d] = Home(r)
    <3>1. CASE job[r].verdict = "success"
      BY <1>2, <1>3, <2>4, <3>1, StatusTypes DEF Home
    <3>2. CASE job[r].verdict # "success"
      BY <1>3, <2>4, <3>2, StatusTypes, SuccessesAre DEF Home, AtStage, KeepsTrack
    <3> QED
      BY <3>1, <3>2
  <2>5. CASE status'[d] = "FAILED"
    BY <2>5, StatusTypes, SuccessesAre
  <2> QED
    BY <1>5, <2>1, <2>2, <2>3, <2>4, <2>5 DEF RunWrites
<1> QED
  BY <1>1, <1>4, <1>5, ConstantsAssumption DEF SliceStep, DocumentStep

------------------------------------------------------------------------------
(* What a watcher reports.                                                  *)

\* A look that found the lock not held, acted on without a slip, met no run at work:
\* every run but those still to start was refused or is over.
NobodyAtWork(w) ==
  At(w, "looked") /\ ~watch[w].held /\ slips = {} /\ ~watch[w].hasty =>
    \A r \in Runs \ watch[w].starters : pc[r] \in {"refused"} \cup Over

TrueTo(w) ==
  /\ NobodyAtWork(w)
  /\ ~At(w, "over") => watch[w].outcome = "none"
  /\ watch[w].outcome = "refused" => watch[w].code = 3

WatchersAreTrue ==
  (\A w \in Watchers : TrueTo(w)) /\ ExitZeroIsEarned /\ AbandonedMeansStranded

\* A lock that is not held, and not misjudged, has no owner.
LEMMA NotHeldMeansFree ==
  ASSUME Typed, IInv, slips = {}, ~Held(lock), GraceSlip(lock) = {}, NEW r \in Runs
  PROVE  r \in StillToStart \/ pc[r] \in {"refused"} \cup Over
<1>1. OwnerOfLock(r) /\ pc[r] \in PCs
  BY DEF IInv, Typed, TypeOK
<1> QED
  BY <1>1 DEF OwnerOfLock, Held, GraceSlip, File, Alive, StillToStart, PCs, Holding

\* A run that is over stays over, and its job as it was.
LEMMA OverIsOver ==
  ASSUME NEW r \in Runs, RunStep(r), pc[r] \in {"refused"} \cup Over
  PROVE  pc'[r] = pc[r] /\ job'[r] = job[r]
BY DEF RunStep, SameRun, SetsOut, Works, Departs, Over, Acquiring

LEMMA WatchersStayTrue ==
  ASSUME Typed, IInv, SliceTyped, RunsStayInCourse, RunsKeepTrack, AuthorsAreTrue,
         WaitingTypeOK, WatchersAreTrue, WaitingNext \/ UNCHANGED waitingVars
  PROVE  WatchersAreTrue'
<1>1. DispatchNext \/ UNCHANGED dispatchVars
  BY WatchersLook
<1>2. \A r \in Runs : RunStep(r)
  BY <1>1, RunSteps
<1>3. WaitingTypeOK' /\ \A w \in Watchers : WatcherStep(w)
  BY WatcherSteps
<1>4. slips' = {} => slips = {}
  BY <1>1, LockStep, SlipsGrow
<1>5. UNCHANGED watch \/ UNCHANGED dispatchVars
  BY DEF WaitingNext, Poll, waitingVars
<1>6. ASSUME NEW w \in Watchers, watch'[w] # watch[w]
      PROVE  UNCHANGED <<lock, pc, job, author, status, slips>>
  BY <1>5, <1>6 DEF dispatchVars, vars, sliceVars
<1>7. ASSUME NEW w \in Watchers PROVE NobodyAtWork(w)'
  <2> SUFFICES ASSUME watch'[w].stage = "looked", ~watch'[w].held, slips' = {},
                      ~watch'[w].hasty, NEW r \in Runs \ watch'[w].starters
               PROVE  pc'[r] \in {"refused"} \cup Over
    BY DEF NobodyAtWork, At
  <2>1. CASE watch'[w] = watch[w]
    <3>1. pc[r] \in {"refused"} \cup Over
      BY <1>4, <2>1 DEF WatchersAreTrue, TrueTo, NobodyAtWork, At
    <3> QED
      BY <1>2, <3>1, OverIsOver
  <2>2. CASE Looks(w)
    <3>1. ~Held(lock) /\ GraceSlip(lock) = {} /\ r \notin StillToStart
      BY <2>2 DEF Looks
    <3>2. watch'[w] # watch[w]
      BY <2>2 DEF Looks
    <3> QED
      BY <1>4, <1>6, <3>1, <3>2, NotHeldMeansFree
  <2> QED
    BY <1>3, <2>1, <2>2 DEF WatcherStep, Opens, Refuses, MovesOn, Concludes
<1>8. ASSUME NEW w \in Watchers PROVE TrueTo(w)'
  BY <1>3, <1>7
     DEF WatchersAreTrue, TrueTo, At, WatcherStep, Opens, Refuses, MovesOn, Looks,
         Concludes
<1>9. ExitZeroIsEarned'
  <2> SUFFICES ASSUME NEW w \in Watchers, watch'[w].stage = "over", watch'[w].code = 0,
                      watch'[w].about \in Runs
               PROVE  job'[watch'[w].about].verdict = "success"
    BY DEF ExitZeroIsEarned, At
  <2>1. CASE watch'[w] = watch[w]
    <3>1. job[watch[w].about].verdict = "success"
      BY <2>1 DEF WatchersAreTrue, ExitZeroIsEarned, At
    <3> QED
      BY <1>2, <2>1, <3>1, SuccessStands
  <2>2. CASE Concludes(w)
    <3> DEFINE d == watch[w].document
               r == author[d]
    <3>1. watch'[w].about = r /\ watch'[w] # watch[w]
      BY <2>2 DEF Concludes
    <3>2. status[d] \in SuccessStatuses
      BY <2>2, ExitCodes DEF Concludes, Watched
    <3>3. d \in Documents
      BY DEF WaitingTypeOK, Watches
    <3>4. job[r].verdict = "success"
      BY <3>1, <3>2, <3>3 DEF AuthorsAreTrue, EarnedBy
    <3> QED
      BY <1>6, <3>1, <3>4
  <2> QED
    BY <1>3, <2>1, <2>2 DEF WatcherStep, Opens, Refuses, MovesOn, Looks
<1>10. AbandonedMeansStranded'
  <2> SUFFICES ASSUME NEW w \in Watchers, watch'[w].outcome = "abandoned", slips' = {},
                      ~watch'[w].hasty, watch'[w].about \in Runs \ watch'[w].starters
               PROVE  /\ pc'[watch'[w].about] \in Over
                      /\ job'[watch'[w].about].stage \notin {"recorded", "swept"}
    BY DEF AbandonedMeansStranded
  <2>1. CASE watch'[w] = watch[w]
    <3> DEFINE r == watch[w].about
    <3>1. pc[r] \in Over /\ job[r].stage \notin {"recorded", "swept"}
      BY <1>4, <2>1 DEF WatchersAreTrue, AbandonedMeansStranded
    <3> QED
      BY <1>2, <2>1, <3>1, OverIsOver
  <2>2. CASE Concludes(w)
    <3> DEFINE d == watch[w].document
               r == author[d]
    <3>1. /\ watch'[w].about = r /\ watch'[w] # watch[w] /\ d \in Documents
          /\ watch[w].stage = "looked" /\ ~watch[w].held /\ ~watch[w].hasty
          /\ watch'[w].starters = watch[w].starters
          /\ status[d] \in InProgressStatuses
      BY <2>2 DEF Concludes, Settled, Watched, WaitingTypeOK, Watches
    <3>2. pc[r] \in {"refused"} \cup Over
      BY <1>4, <3>1 DEF WatchersAreTrue, TrueTo, NobodyAtWork, At
    <3>3. r \in Runs
      BY <3>1
    <3>4. d = DocumentOfRun(r)
      BY <3>1, <3>3 DEF AuthorsAreTrue, EarnedBy
    <3>5. job[r].stage \notin {"none", "recorded", "swept"}
      BY <3>1, <3>3, <3>4 DEF RunsKeepTrack, KeepsTrack
    <3>6. pc[r] # "refused"
      BY <3>3, <3>5 DEF RunsStayInCourse, StaysInCourse
    <3> QED
      BY <1>6, <3>1, <3>2, <3>5, <3>6
  <2>3. CASE Opens(w) \/ MovesOn(w) \/ Looks(w)
    BY <2>3 DEF Opens, MovesOn, Looks, WatchersAreTrue, TrueTo, At
  <2> QED
    BY <1>3, <2>1, <2>2, <2>3 DEF WatcherStep, Refuses
<1> QED
  BY <1>8, <1>9, <1>10 DEF WatchersAreTrue

\* The inductive invariant of the wait: who wrote what is read, and what a look found.
LEMMA WaitKept == WaitingSpec => [](AuthorsAreTrue /\ WaitingTypeOK /\ WatchersAreTrue)
<1>1. WaitingInit => AuthorsAreTrue /\ WatchersAreTrue
  <2> SUFFICES ASSUME WaitingInit PROVE AuthorsAreTrue /\ WatchersAreTrue
    OBVIOUS
  <2>1. AuthorsAreTrue
    BY ConstantsAssumption DEF WaitingInit, DispatchInit, AuthorsAreTrue, EarnedBy
  <2>2. \A w \in Watchers : watch[w].stage = "none" /\ watch[w].outcome = "none"
    BY DEF WaitingInit, NoWatch
  <2> QED
    BY <2>1, <2>2
       DEF WatchersAreTrue, TrueTo, NobodyAtWork, At, ExitZeroIsEarned,
           AbandonedMeansStranded
<1>2. /\ Typed /\ IInv /\ SliceTyped /\ RunsStayInCourse /\ RunsKeepTrack
      /\ AuthorsAreTrue /\ WaitingTypeOK /\ WatchersAreTrue
      /\ [WaitingNext]_waitingVars
      => AuthorsAreTrue' /\ WatchersAreTrue'
  BY AuthorsStep, WatchersStayTrue, WatchersLook
<1> QED
  BY <1>1, <1>2, WatchersTyped, TrackKept, CreditKept, WaitingOnlyLooks, PTL DEF WaitingSpec

\* Exit code 0 of `wait` means work that was judged successful, or a human's word for
\* it, whichever run the document belonged to when the wait began.
THEOREM ZeroIsEarned == WaitingSpec => []ExitZeroIsEarned
<1>1. WatchersAreTrue => ExitZeroIsEarned
  BY DEF WatchersAreTrue
<1> QED
  BY <1>1, WaitKept, PTL

\* Nobody at work is ever reported abandoned: outside the two exceptions the property
\* names, the run whose document it was is gone and had recorded nothing.
THEOREM AbandonedIsStranded == WaitingSpec => []AbandonedMeansStranded
<1>1. WatchersAreTrue => AbandonedMeansStranded
  BY DEF WatchersAreTrue
<1> QED
  BY <1>1, WaitKept, PTL

------------------------------------------------------------------------------
(* Which document a wait on the slice follows.                              *)

\* The statuses that would let the role that is not `role` be dispatched, or be at work.
OtherBusy(role) ==
  InProgressStatuses \cup UNION {AllowedStatuses(other) : other \in Roles \ {role}}

\* Until a human moves a document, only `role` is dispatched, and the other document is
\* neither at its gate nor in progress, nor about to be put there.
SoleRole(role) ==
  moves = 0 =>
    /\ \A r \in Runs : pc[r] # "idle" => job[r].role = role
    /\ \A d \in Documents : d # DocumentOf(role) => status[d] \notin OtherBusy(role)
    /\ \A o \in Operators :
         task[o].document # DocumentOf(role) => task[o].target \notin OtherBusy(role)

\* The document of a run that has begun exists.
DocumentsStay == \A r \in Runs : pc[r] # "idle" => status[DocumentOfRun(r)] # NoDocument

OneIsMeant == DocumentsStay /\ \E role \in Roles : SoleRole(role)

LEMMA OtherBusyIs ==
  /\ OtherBusy("planner") = {"PLANNING", "EXECUTING", "PLAN_APPROVED"}
  /\ OtherBusy("executor") = {"PLANNING", "EXECUTING", "SPEC_APPROVED"}
<1>1. Roles \ {"planner"} = {"executor"} /\ Roles \ {"executor"} = {"planner"}
  BY DEF Roles
<1>2. /\ AllowedStatuses("planner") = {"SPEC_APPROVED"}
      /\ AllowedStatuses("executor") = {"PLAN_APPROVED"}
  BY DEF AllowedStatuses
<1> QED
  BY <1>1, <1>2, InProgressAre DEF OtherBusy

\* What an agent's draft, a promotion, a certification or a freed command leaves is rest.
LEMMA RestIsRest ==
  ASSUME NEW role \in Roles
  PROVE  {ProducedStatus, SuccessStatus("planner"), NoDocument} \cap OtherBusy(role) = {}
BY OtherBusyIs DEF ProducedStatus, SuccessStatus, NoDocument, Roles

LEMMA NoDocumentIsNoStatus ==
  /\ NoDocument \notin ValidStatuses
  /\ \A role \in Roles : NoDocument \notin AllowedStatuses(role)
BY DEF NoDocument, ValidStatuses, Edges, AllowedStatuses

\* No step takes a document away.
LEMMA DocumentsLast ==
  ASSUME SliceTyped, RunsKeepTrack, NEW d \in Documents, DocumentStep(d)
  PROVE  status'[d] = status[d] \/ status'[d] # NoDocument
<1>1. ASSUME NEW r \in Runs, RunWrites(r, d) PROVE status'[d] # NoDocument
  <2>1. job[r].role \in Roles /\ KeepsTrack(r)
    BY JobUpdates DEF SliceTyped, RunsKeepTrack
  <2>2. CASE AtStage(r, "judged") /\ status'[d] = Home(r)
    BY <2>1, <2>2, NoDocumentIsNoStatus, StatusTypes DEF Home, AtStage, KeepsTrack
  <2>3. CASE status'[d] = InProgressStatus(job[r].role)
    BY <2>1, <2>3, NoDocumentIsNoStatus, StatusTypes
  <2>4. CASE status'[d] \in {ProducedStatus, SuccessStatus("planner"), "FAILED"}
    BY <2>4, NoDocumentIsNoStatus, StatusTypes DEF Roles
  <2> QED
    BY <1>1, <2>2, <2>3, <2>4 DEF RunWrites
<1> QED
  BY <1>1, NoDocumentIsNoStatus DEF DocumentStep

LEMMA DocumentsStayStep ==
  ASSUME Typed, SliceTyped, RunsKeepTrack, DocumentsStay,
         DispatchNext \/ UNCHANGED dispatchVars
  PROVE  DocumentsStay'
<1> SUFFICES ASSUME NEW r \in Runs, pc'[r] # "idle"
             PROVE  status'[DocumentOf(job'[r].role)] # NoDocument
  BY DEF DocumentsStay, DocumentOfRun
<1>1. SliceStep /\ RunStep(r)
  BY RunSteps, SliceSteps
<1>2. CASE pc[r] = "idle"
  <2>1. PICK role \in Roles : /\ status' = status
                              /\ status[DocumentOf(role)] \in AllowedStatuses(role)
                              /\ job'[r] = NewJob(role, status[DocumentOf(role)])
    BY <1>1, <1>2 DEF RunStep, SameRun, SetsOut, Works, Departs, Acquiring
  <2>2. job'[r].role = role
    BY <2>1 DEF NewJob
  <2> QED
    BY <2>1, <2>2, NoDocumentIsNoStatus
<1>3. CASE pc[r] # "idle"
  <2> DEFINE d == DocumentOf(job[r].role)
  <2>1. job'[r].role = job[r].role /\ d \in Documents
    BY <1>1, <1>3, KeepsRole, JobUpdates, StatusTypes DEF SliceTyped
  <2>2. status[d] # NoDocument
    BY <1>3 DEF DocumentsStay, DocumentOfRun
  <2>3. DocumentStep(d)
    BY <1>1, <2>1 DEF SliceStep
  <2> QED
    BY <2>1, <2>2, <2>3, DocumentsLast
<1> QED
  BY <1>2, <1>3

LEMMA SoleRoleStep ==
  ASSUME Typed, SliceTyped, NEW role \in Roles, SoleRole(role),
         DispatchNext \/ UNCHANGED dispatchVars
  PROVE  SoleRole(role)'
<1> USE DEF SliceTyped
<1> DEFINE busy == OtherBusy(role)
           own == DocumentOf(role)
<1> SUFFICES ASSUME moves' = 0
             PROVE  /\ \A r \in Runs : pc'[r] # "idle" => job'[r].role = role
                    /\ \A d \in Documents : d # own => status'[d] \notin busy
                    /\ \A o \in Operators : task'[o].document # own => task'[o].target \notin busy
  BY DEF SoleRole
<1>1. SliceStep /\ \A r \in Runs : RunStep(r)
  BY RunSteps, SliceSteps
<1>2. moves = 0 /\ ~(moves' > moves)
  BY <1>1, DispatchAssumption DEF SliceStep
<1>3. /\ \A r \in Runs : pc[r] # "idle" => job[r].role = role
      /\ \A d \in Documents : d # own => status[d] \notin busy
      /\ \A o \in Operators : task[o].document # own => task[o].target \notin busy
  BY <1>2 DEF SoleRole
<1>4. own \in Documents /\ {ProducedStatus, SuccessStatus("planner"), NoDocument} \cap busy = {}
  BY StatusTypes, RestIsRest
<1>5. InProgressStatuses \subseteq busy
      /\ \A other \in Roles \ {role} : AllowedStatuses(other) \subseteq busy
  BY DEF OtherBusy
<1> HIDE DEF busy, own
<1>6. ASSUME NEW r \in Runs, pc'[r] # "idle" PROVE job'[r].role = role
  <2>1. CASE pc[r] # "idle"
    BY <1>1, <1>3, <2>1, KeepsRole
  <2>2. CASE pc[r] = "idle"
    <3>1. PICK new \in Roles : /\ status[DocumentOf(new)] \in AllowedStatuses(new)
                               /\ job'[r] = NewJob(new, status[DocumentOf(new)])
      BY <1>1, <1>6, <2>2 DEF RunStep, SameRun, SetsOut, Works, Departs, Acquiring
    <3>2. job'[r].role = new
      BY <3>1 DEF NewJob
    <3>3. new # role => DocumentOf(new) # own /\ DocumentOf(new) \in Documents
      BY StatusTypes DEF own, DocumentOf, Roles
    <3> QED
      BY <1>3, <1>5, <3>1, <3>2, <3>3
  <2> QED
    BY <2>1, <2>2
<1>7. ASSUME NEW d \in Documents, d # own PROVE status'[d] \notin busy
  <2>1. ASSUME NEW r \in Runs, RunWrites(r, d) PROVE status'[d] \notin busy
    <3>1. pc[r] # "idle" => d # DocumentOfRun(r)
      BY <1>3, <1>7 DEF DocumentOfRun, own
    <3> QED
      BY <1>4, <2>1, <3>1 DEF RunWrites, AtStage
  <2> QED
    BY <1>1, <1>2, <1>3, <1>7, <2>1 DEF SliceStep, DocumentStep
<1>8. ASSUME NEW o \in Operators, task'[o].document # own PROVE task'[o].target \notin busy
  <2>1. CASE \E d \in Documents : task'[o].document = d /\ status[d] \in InProgressStatuses
    BY <1>3, <1>5, <1>8, <2>1
  <2> QED
    BY <1>1, <1>3, <1>4, <1>8, <2>1 DEF SliceStep, TaskStep
<1> QED
  BY <1>6, <1>7, <1>8

LEMMA OneIsMeantInit ==
  ASSUME OneRoleAtAGate, DispatchInit
  PROVE  OneIsMeant
<1>1. \A r \in Runs : pc[r] = "idle"
  BY DEF DispatchInit, Init
<1>2. PICK other \in Roles : status[DocumentOf(other)] \notin AllowedStatuses(other)
  BY DEF OneRoleAtAGate, DispatchInit
<1>3. PICK role \in Roles : role # other
  BY DEF Roles
<1>4. \A d \in Documents : d # DocumentOf(role) => d = DocumentOf(other)
  BY <1>2, <1>3 DEF Documents, DocumentOf, Roles
<1>5. Roles \ {role} = {other}
  BY <1>2, <1>3 DEF Roles
<1>6. \A d \in Documents : d # DocumentOf(role) => status[d] \notin OtherBusy(role)
  BY <1>2, <1>4, <1>5 DEF OneRoleAtAGate, DispatchInit, OtherBusy
<1>7. \A o \in Operators : task[o].target \notin OtherBusy(role)
  BY RestIsRest DEF DispatchInit, NoTask
<1> QED
  BY <1>1, <1>6, <1>7 DEF OneIsMeant, DocumentsStay, SoleRole

\* A document in flight beside the run's own would have to be the other role's.
LEMMA ChoiceFollows ==
  ASSUME OneIsMeant, moves = 0, NEW r \in Runs, pc[r] = "running",
         NEW d \in TheOneMeant, SliceTyped
  PROVE  d = DocumentOfRun(r)
<1>1. PICK role \in Roles : SoleRole(role)
  BY DEF OneIsMeant
<1>2. job[r].role = role /\ DocumentOfRun(r) \in Documents
  BY <1>1, StatusTypes DEF SoleRole, DocumentOfRun
<1>3. DocumentOfRun(r) \in Carrying
  BY <1>2 DEF OneIsMeant, DocumentsStay, Carrying
<1>4. \A e \in Documents : e # DocumentOfRun(r) => status[e] \notin InProgressStatuses
  BY <1>1, <1>2 DEF SoleRole, OtherBusy, DocumentOfRun
<1> QED
  BY <1>3, <1>4 DEF TheOneMeant, Carrying

\* In a slice whose documents are one step of the workflow apart, a wait on the slice
\* started beside a run at work follows the document of that run, or says that it cannot
\* tell; the other document is never the one it chooses.
THEOREM SliceWaitFollows ==
  ASSUME OneRoleAtAGate
  PROVE  WaitingSpec => SliceWaitFollowsTheRun
<1>1. WaitingInit => OneIsMeant
  BY OneIsMeantInit DEF WaitingInit
<1>2. /\ Typed /\ SliceTyped /\ RunsKeepTrack /\ OneIsMeant /\ [WaitingNext]_waitingVars
      => OneIsMeant'
  BY WatchersLook, DocumentsStayStep, SoleRoleStep DEF OneIsMeant
<1> DEFINE Follows ==
      \A w \in Watchers, r \in Runs :
        (\E until \in BOOLEAN : OnSlice(w, until)) /\ slips = {} /\ moves = 0
            /\ pc[r] = "running"
            /\ job[r].stage \in {"written", "exit0", "exit1", "watching"} =>
          watch'[w].outcome = "refused" \/ watch'[w].document = DocumentOfRun(r)
<1>3. SliceTyped /\ OneIsMeant /\ WaitingTypeOK => Follows
  <2> SUFFICES ASSUME SliceTyped, OneIsMeant, WaitingTypeOK,
                      NEW w \in Watchers, NEW r \in Runs, NEW until \in BOOLEAN,
                      OnSlice(w, until), moves = 0, pc[r] = "running"
               PROVE  watch'[w].outcome = "refused" \/ watch'[w].document = DocumentOfRun(r)
    OBVIOUS
  <2>1. watch[w] \in Watches
    BY DEF WaitingTypeOK
  <2>2. ASSUME NEW d \in TheOneMeant, StartsWaiting(w, d, until)
        PROVE  watch'[w].document = DocumentOfRun(r)
    <3>1. watch'[w].document = d
      BY <2>1, <2>2 DEF StartsWaiting, WaitingTypeOK, Watches
    <3> QED
      BY <2>2, <3>1, ChoiceFollows
  <2>3. CASE watch' = [watch EXCEPT ![w].stage = "over", ![w].outcome = "refused",
                                    ![w].code = 3]
    BY <2>1, <2>3 DEF WaitingTypeOK, Watches
  <2> QED
    BY <2>2, <2>3 DEF OnSlice
<1>4. WaitingSpec => [][Follows]_waitingVars
  BY <1>1, <1>2, <1>3, TrackKept, WaitingOnlyLooks, WatchersTyped, PTL DEF WaitingSpec
<1> QED
  BY <1>4 DEF SliceWaitFollowsTheRun
==============================================================================
