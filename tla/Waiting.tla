------------------------------- MODULE Waiting -------------------------------
(***************************************************************************)
(* `wait`: a process that watches one dispatch from outside and ends when  *)
(* it does (scripts/abandonment.py, wait_for_dispatch; cmd_wait).          *)
(*                                                                         *)
(* A poll is three readings - is there a lock, what does it say, what does *)
(* the document say - and the supervisor goes on between any two of them.  *)
(***************************************************************************)
EXTENDS Dispatch

CONSTANTS
  Watchers,        \* processes at `wait`
  MaxUnreadable,   \* _MAX_UNREADABLE_POLLS
  MayTimeOut       \* whether a `--timeout` was given

ASSUME WaitingAssumption == MaxUnreadable \in Nat \ {0} /\ MayTimeOut \in BOOLEAN

\* A slice whose documents are one step of the workflow apart: none in progress, and at
\* most one of the two at the gate of its role.
OneRoleAtAGate ==
  \A s \in InitialStatuses :
    /\ \A d \in Documents : s[d] \notin InProgressStatuses
    /\ \E role \in Roles : s[DocumentOf(role)] \notin AllowedStatuses(role)

VARIABLE watch     \* what each watcher knows, and how it ended

Outcomes == {"none", "terminal", "unresolved", "abandoned", "timed_out",
             "unreadable_lock", "refused"}

NoWatch == [stage |-> "none", document |-> "spec", until |-> FALSE, undecided |-> FALSE,
            held |-> FALSE, hasty |-> FALSE, starters |-> {}, unreadable |-> 0,
            outcome |-> "none", about |-> NoRun, code |-> 0]

\* `starters`, `hasty` and `about` are history: the runs that had not linked their lock
\* when none was held; a starting run's lock taken for stale; who wrote the status read.
Watches ==
  [stage : {"none", "polling", "found", "looked", "over"}, document : Documents,
   until : BOOLEAN, undecided : BOOLEAN, held : BOOLEAN, hasty : BOOLEAN,
   starters : SUBSET Runs, unreadable : 0..(MaxUnreadable - 1), outcome : Outcomes,
   about : Runs \cup {NoRun}, code : 0..5]

WaitingTypeOK == watch \in [Watchers -> Watches]

WaitingInit == DispatchInit /\ watch = [w \in Watchers |-> NoWatch]

SuccessStatuses == {SuccessStatus(role) : role \in Roles}

At(w, s) == watch[w].stage = s
Watched(w) == status[watch[w].document]
Settled(w) == Watched(w) \notin InProgressStatuses

------------------------------------------------------------------------------
(* cmd_wait: which document.                                                *)

StartsWaiting(w, d, until) ==
  watch' = [watch EXCEPT ![w].stage = "polling", ![w].document = d, ![w].until = until]

OnFile(w, d, until) ==
  /\ At(w, "none")
  /\ status[d] # NoDocument
  /\ StartsWaiting(w, d, until)

Carrying == {d \in Documents : status[d] # NoDocument}

\* Mutant: the first document that carries the slice_id.
FirstFound == {IF status["spec"] # NoDocument THEN "spec" ELSE "plan"}

\* resolve_slice_document: the only one, or the only one in flight.
TheOneMeant ==
  LET live == {d \in Carrying : status[d] \in InProgressStatuses} IN
  {d \in Carrying : Carrying = {d} \/ live = {d}}

OnSlice(w, until) ==
  /\ At(w, "none")
  /\ \/ \E d \in TheOneMeant : StartsWaiting(w, d, until)
     \/ /\ TheOneMeant = {}
        /\ watch' = [watch EXCEPT ![w].stage = "over", ![w].outcome = "refused",
                                  ![w].code = 3]

------------------------------------------------------------------------------
(* read_lock_state, and what a poll makes of it.                            *)

StillToStart == {r \in Runs : pc[r] \in {"idle"} \cup Acquiring}

\* An absent lock does not end a run of unreadable ones.
Learns(w, content, held) ==
  watch' = [watch EXCEPT ![w].stage = "looked", ![w].held = held,
                         ![w].undecided = content.state = "unresolved",
                         ![w].unreadable = IF content = Absent THEN @ ELSE 0,
                         ![w].starters = IF held THEN {} ELSE StillToStart,
                         ![w].hasty = ~held /\ GraceSlip(content) # {}]

FindsNoLock(w) == At(w, "polling") /\ lock = Absent /\ Learns(w, Absent, FALSE)

FindsLock(w) ==
  /\ At(w, "polling")
  /\ lock # Absent
  /\ watch' = [watch EXCEPT ![w].stage = "found"]

ReadsLock(w) == At(w, "found") /\ lock # Absent /\ Learns(w, lock, Held(lock))

\* Mutant: 0 says that the wait ended.
ExitZeroAtTheEnd(outcome, s) == IF outcome = "terminal" THEN 0 ELSE 4

\* _report_wait_result.
ExitCode(outcome, s) ==
  CASE outcome = "terminal"   -> IF s \in SuccessStatuses THEN 0 ELSE 4
    [] outcome = "abandoned"  -> 2
    [] outcome = "unresolved" -> 5
    [] outcome \in {"unreadable_lock", "refused"} -> 3
    [] outcome = "timed_out"  -> 1

Ends(w, outcome) ==
  watch' = [watch EXCEPT ![w].stage = "over", ![w].outcome = outcome,
                         ![w].held = FALSE, ![w].undecided = FALSE,
                         ![w].about = author[watch[w].document],
                         ![w].code = ExitCode(outcome, Watched(w))]

\* Mutants: an unreadable lock is nobody's; the polls are counted up to the limit.
UnreadableIsFree(w) ==
  /\ At(w, "found")
  /\ Learns(w, Absent, FALSE)

GivesUpLate(w) ==
  /\ At(w, "found")
  /\ IF watch[w].unreadable = MaxUnreadable
       THEN Ends(w, "unreadable_lock")
       ELSE watch' = [watch EXCEPT ![w].stage = "looked", ![w].held = TRUE, ![w].unreadable = @ + 1]

\* Present and not to be read: a sharing violation, or gone between exists() and the
\* read.  It keeps the wait open; a run of them is the watcher's own failure.
CannotReadLock(w) ==
  /\ At(w, "found")
  /\ IF watch[w].unreadable + 1 = MaxUnreadable
       THEN Ends(w, "unreadable_lock")
       ELSE watch' = [watch EXCEPT ![w].stage = "looked", ![w].held = TRUE, ![w].unreadable = @ + 1]

\* The document is read after the lock, and the poll decided on the two readings.
Finished(w) == Settled(w) /\ (watch[w].until => Watched(w) \in SuccessStatuses)
Unresolved(w) == watch[w].undecided
\* Mutant: a wait does not look for a dead supervisor.
NeverStranded(w) == FALSE

Stranded(w) == ~watch[w].held /\ ~Settled(w) /\ ~watch[w].until

EndsTerminal(w) == At(w, "looked") /\ Finished(w) /\ Ends(w, "terminal")

EndsUnresolved(w) ==
  At(w, "looked") /\ ~Finished(w) /\ Unresolved(w) /\ Ends(w, "unresolved")

EndsAbandoned(w) ==
  At(w, "looked") /\ ~Finished(w) /\ ~Unresolved(w) /\ Stranded(w) /\ Ends(w, "abandoned")

PollsAgain(w) ==
  /\ At(w, "looked")
  /\ ~Finished(w) /\ ~Unresolved(w) /\ ~Stranded(w)
  /\ \/ MayTimeOut /\ Ends(w, "timed_out")
     \/ watch' = [watch EXCEPT ![w].stage = "polling", ![w].undecided = FALSE,
                               ![w].held = FALSE, ![w].hasty = FALSE,
                               ![w].starters = {}]

------------------------------------------------------------------------------
Poll(w) ==
  /\ \/ FindsNoLock(w) \/ FindsLock(w) \/ ReadsLock(w) \/ CannotReadLock(w)
     \/ EndsTerminal(w) \/ EndsUnresolved(w) \/ EndsAbandoned(w) \/ PollsAgain(w)
  /\ UNCHANGED dispatchVars

WaitingNext ==
  \/ DispatchNext /\ UNCHANGED watch
  \/ \E w \in Watchers :
       \/ (\E d \in Documents, until \in BOOLEAN : OnFile(w, d, until))
            /\ UNCHANGED dispatchVars
       \/ (\E until \in BOOLEAN : OnSlice(w, until)) /\ UNCHANGED dispatchVars
       \/ Poll(w)

waitingVars == <<dispatchVars, watch>>

\* The watcher's loop sleeps and polls on, and the clock runs.  Nothing is assumed of
\* agents, of supervisors or of humans.
WaitingSpec ==
  /\ WaitingInit /\ [][WaitingNext]_waitingVars
  /\ \A w \in Watchers : WF_waitingVars(Poll(w))
  /\ \A r \in Runs : WF_waitingVars(Ages(r) /\ UNCHANGED watch)

------------------------------------------------------------------------------
(* Properties.                                                              *)

\* A dispatch is called abandoned only when the run that put the document in progress
\* is gone and recorded nothing: never a run that finished, nor one that left the
\* question open.  A run that linked its lock only after the watcher had looked, and a
\* run whose start-up outlasts its grace window, are the two exceptions (the ordering
\* note in wait_for_dispatch).
AbandonedMeansStranded ==
  \A w \in Watchers :
    LET r == watch[w].about IN
    /\ watch[w].outcome = "abandoned" /\ slips = {} /\ ~watch[w].hasty
    /\ r \in Runs \ watch[w].starters
    => pc[r] \in Over /\ job[r].stage \notin {"recorded", "swept"}

\* Exit code 0 is earned: the status it reports was recorded by a run that was judged
\* successful, or by a human (_report_wait_result: not merely that the wait ended).
ExitZeroIsEarned ==
  \A w \in Watchers :
    At(w, "over") /\ watch[w].code = 0 /\ watch[w].about \in Runs =>
      job[watch[w].about].verdict = "success"

\* A wait on the slice, started while a run is at work in it, follows that run's
\* document or refuses to choose (resolve_slice_document).
SliceWaitFollowsTheRun ==
  [][\A w \in Watchers, r \in Runs :
       (\E until \in BOOLEAN : OnSlice(w, until)) /\ slips = {} /\ moves = 0
           /\ pc[r] = "running"
           /\ job[r].stage \in {"written", "exit0", "exit1", "watching"} =>
         watch'[w].outcome = "refused" \/ watch'[w].document = DocumentOfRun(r)]_waitingVars

\* A wait ends, unless a live supervisor still has its document in progress; under
\* --until-success, unless its document is not at a success status (wait_for_dispatch).
WaitEnds ==
  \A w \in Watchers :
    ~At(w, "none") ~>
      \/ At(w, "over")
      \/ IF watch[w].until THEN Watched(w) \notin SuccessStatuses
                          ELSE ~Settled(w) /\ \E r \in Runs : Alive(r)

\* docs/configuration.md: exit code 2 says "the supervisor died with the status
\* unchanged".  A document a human put in progress should not be reported with it.
HandOwnedIsNotAbandoned ==
  \A w \in Watchers : watch[w].outcome = "abandoned" => watch[w].about \in Runs
==============================================================================
