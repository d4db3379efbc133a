------------------------------- MODULE Closure -------------------------------
(***************************************************************************)
(* Closing a slice: `set-status VERIFIED_CLOSED` on its plan or its spec   *)
(* (cmd_set_status, scripts/closure.py, merge_and_cleanup_worktree).       *)
(*                                                                         *)
(* The command takes no lock and each of its steps acts on what an earlier *)
(* one read.  Beside it go other closings, a run that is dispatched or     *)
(* judged, agents, and humans at `set-status` and at git.                  *)
(***************************************************************************)
EXTENDS SliceMachine, Naturals

CONSTANTS
  Closers,      \* processes at `set-status VERIFIED_CLOSED`
  Slices,       \* where a slice stands when a behaviour starts
  MaxCommits,   \* bound on the commits of feat/<slice_id>
  MaxMoves,     \* bound on what humans do besides closing and tidying up
  MaxFailures   \* bound on closers killed and tail steps that fail

CLOSED == "VERIFIED_CLOSED"

Branches == [exists : BOOLEAN, commits : 0..MaxCommits, merged : 0..MaxCommits,
             complete : 0..MaxCommits]

\* Whoever writes a status and is no closing.
Nobody == "nobody"

ASSUME ClosureAssumption ==
  /\ Nobody \notin Closers
  /\ MaxCommits \in Nat /\ MaxMoves \in Nat /\ MaxFailures \in Nat
  /\ \A s \in Slices :
       /\ s.status \in [Documents -> (ValidStatuses \ {CLOSED}) \cup {NoDocument}]
       /\ s.branch \in Branches /\ s.branch.merged = 0
       /\ s.branch.complete <= s.branch.commits
       /\ s.run \in Roles \cup {"none"}

\* A slice nobody moved about by hand: a live executor's plan is where the dispatch put
\* it, and no spec is where only plans get to.
OrderlyStart ==
  \A s \in Slices :
    /\ s.run = "executor" => s.status["plan"] = "EXECUTING"
    /\ s.status["spec"] \notin {"EXECUTION_COMPLETE", "MERGE_CONFLICT"}

VARIABLES
  status,    \* of the two documents
  branch,    \* feat/<slice_id>: exists, its commits, those in the current branch, and
             \* those it had when EXECUTION_COMPLETE was written (history)
  tree,      \* the project's working tree: clean, dirty, or conflicted
  worktree,  \* whether .worktrees/<slice_id> is there
  unsaved,   \* whether it holds work nobody committed
  run,       \* the role whose supervisor is live, "none"
  agent,     \* the role whose agent works on, "none"
  stack,     \* whether the sandbox stack is up
  done,      \* what closing has done besides: "listed", "hooked"
  closer,    \* each closing
  moves,
  failures,
  history    \* which of Events have happened

closureVars == <<status, branch, tree, worktree, unsaved, run, agent, stack, done,
                 closer, moves, failures, history>>

\* `overtaken`: another wrote the document since its status was read.
Idle == [step |-> "idle", document |-> "plan", skip |-> FALSE, overtaken |-> FALSE]

Steps == {"idle", "weighing", "recording", "checking", "merging", "removing", "marking",
          "conflict", "spec", "syncing", "hooking", "tearing"}
Closings == [step : Steps, document : Documents, skip : BOOLEAN, overtaken : BOOLEAN]
Tail == {"spec", "syncing", "hooking", "tearing"}

\* A human vouched for a closing (--skip-merge); an agent drafted a plan into a closed
\* slice, or into one being closed; a spec was taken through the transitions of a plan
\* and closed by its own; a closing died, or a step failed, after the status write.
Events == {"asserted", "redrafted", "own transition", "cut short"}

ClosureTypeOK ==
  /\ status \in [Documents -> ValidStatuses \cup {NoDocument}]
  /\ branch \in Branches
  /\ branch.merged <= branch.commits
  /\ tree \in {"clean", "dirty", "conflicted"}
  /\ worktree \in BOOLEAN /\ unsaved \in BOOLEAN /\ stack \in BOOLEAN
  /\ unsaved => worktree
  /\ run \in Roles \cup {"none"} /\ agent \in Roles \cup {"none"}
  /\ done \subseteq {"listed", "hooked"}
  /\ closer \in [Closers -> Closings]
  /\ moves \in 0..MaxMoves /\ failures \in 0..MaxFailures
  /\ history \subseteq Events

ClosureInit ==
  /\ \E s \in Slices :
       /\ status = s.status /\ branch = s.branch /\ worktree = s.branch.exists
       /\ stack = s.branch.exists /\ run = s.run /\ agent = s.run
  /\ tree = "clean" /\ unsaved = FALSE
  /\ done = {} /\ history = {} /\ moves = 0 /\ failures = 0
  /\ closer = [c \in Closers |-> Idle]

At(c, s) == closer[c].step = s
Doc(c) == closer[c].document
InTail == \E c \in Closers : closer[c].step \in Tail

\* A closing that reads or has read `d` is overtaken when somebody else writes it.
Overtaken(who, d) ==
  [c \in Closers |-> IF c # who /\ ~At(c, "idle") /\ Doc(c) = d
                       THEN [closer[c] EXCEPT !.overtaken = TRUE] ELSE closer[c]]

\* The documents are tracked: every write of a status makes the tree dirty.
Dirtied == IF tree = "clean" THEN "dirty" ELSE tree

\* A write by anybody but a closing.
WriteStatus(d, new) ==
  /\ status' = [status EXCEPT ![d] = new]
  /\ closer' = Overtaken(Nobody, d)
  /\ tree' = Dirtied

------------------------------------------------------------------------------
(* cmd_set_status up to the status write.                                   *)

Goto(c, s) == closer' = [closer EXCEPT ![c].step = s]
Stop(c) == closer' = [closer EXCEPT ![c] = Idle]
FromThere == <<run, agent, moves, failures>>
Untouched == <<status, branch, tree, worktree, unsaved, stack, done, history, FromThere>>

Enters(c, d, skip, s) ==
  closer' = [closer EXCEPT ![c] = [Idle EXCEPT !.step = s, !.document = d, !.skip = skip]]

\* Mutant: the merge before the check.
BeginsUnchecked(c, d, skip) ==
  /\ At(c, "idle")
  /\ status[d] # NoDocument
  /\ Enters(c, d, skip, IF skip THEN "removing" ELSE "checking")
  /\ UNCHANGED Untouched

\* An in-progress document is refused, whatever the grounds.
Begins(c, d, skip) ==
  /\ At(c, "idle")
  /\ status[d] # NoDocument
  /\ \/ /\ CLOSED \in Edges[status[d]]
        /\ Enters(c, d, skip, IF skip THEN "removing" ELSE "checking")
     \/ /\ CLOSED \notin Edges[status[d]]
        /\ status[d] \notin InProgressStatuses
        /\ Enters(c, d, skip, "weighing")
  /\ UNCHANGED Untouched

\* Mutant: a spec is closed with a plan that is merely complete.
GroundsForCompletePlan(c) ==
  \/ status["plan"] \in {CLOSED, "EXECUTION_COMPLETE"}
  \/ status["plan"] = NoDocument /\ closer[c].skip

\* Mutant: only a human's word counts.
GroundsAssertedOnly(c) == status["plan"] = NoDocument /\ closer[c].skip

\* closure.verdict: observed, or asserted.
Grounds(c) ==
  \/ status["plan"] = CLOSED
  \/ status["plan"] = NoDocument /\ closer[c].skip

Weighs(c) ==
  /\ At(c, "weighing")
  /\ IF Doc(c) = "spec" /\ Grounds(c)
       THEN /\ Goto(c, "recording")
            /\ history' = history \cup (IF status["plan"] = NoDocument
                                          THEN {"asserted"} ELSE {})
       ELSE Stop(c) /\ UNCHANGED history
  /\ UNCHANGED <<status, branch, tree, worktree, unsaved, stack, done, FromThere>>

\* record_closure asks no transition table.
RecordClosure(c, d, next) ==
  /\ status' = [status EXCEPT ![d] = CLOSED]
  /\ closer' = [Overtaken(c, d) EXCEPT ![c].step = next]
  /\ tree' = Dirtied

Records(c) ==
  /\ At(c, "recording")
  /\ RecordClosure(c, "spec", "syncing")
  /\ UNCHANGED <<branch, worktree, unsaved, stack, done, history, FromThere>>

ChecksTree(c) ==
  /\ At(c, "checking")
  /\ IF tree = "clean" /\ branch.exists THEN Goto(c, "merging") ELSE Stop(c)
  /\ UNCHANGED Untouched

Merges(c) ==
  /\ At(c, "merging")
  /\ branch.exists /\ tree # "conflicted"
  /\ branch' = [branch EXCEPT !.merged = branch.commits]
  /\ Goto(c, "removing")
  /\ UNCHANGED <<status, tree, worktree, unsaved, stack, done, history, FromThere>>

\* Mutant: a merge that did not succeed is taken for one.
MergeFailureIgnored(c) ==
  /\ At(c, "merging")
  /\ branch.merged < branch.commits \/ ~branch.exists \/ tree # "clean"
  /\ Goto(c, "removing")
  /\ UNCHANGED Untouched

\* `git merge` exits non-zero: a conflict, or the tree or the branch is by now not what
\* was checked.  All of it is taken for a conflict.
MergeFails(c) ==
  /\ At(c, "merging")
  /\ \/ branch.merged < branch.commits /\ branch.exists /\ tree' = "conflicted"
     \/ (~branch.exists \/ tree # "clean") /\ UNCHANGED tree
  /\ Goto(c, "conflict")
  /\ UNCHANGED <<status, branch, worktree, unsaved, stack, done, history, FromThere>>

\* `git worktree remove --force`, its failure not looked at.
RemovesWorktree(c) ==
  /\ At(c, "removing")
  /\ \/ worktree' = FALSE /\ unsaved' = FALSE
     \/ UNCHANGED <<worktree, unsaved>>
  /\ Goto(c, "marking")
  /\ UNCHANGED <<status, branch, tree, stack, done, history, FromThere>>

\* Mutants of the two status writes: no table is asked; the rest is forgotten.
MarksConflictUnchecked(c) ==
  /\ At(c, "conflict")
  /\ status' = [status EXCEPT ![Doc(c)] = "MERGE_CONFLICT"]
  /\ closer' = [Overtaken(c, Doc(c)) EXCEPT ![c] = Idle]
  /\ tree' = Dirtied
  /\ UNCHANGED <<branch, worktree, unsaved, stack, done, history, FromThere>>

MarksConflict(c) ==
  /\ At(c, "conflict")
  /\ IF CanMove(status[Doc(c)], "MERGE_CONFLICT")
       THEN /\ status' = [status EXCEPT ![Doc(c)] = "MERGE_CONFLICT"]
            /\ closer' = [Overtaken(c, Doc(c)) EXCEPT ![c] = Idle]
            /\ tree' = Dirtied
       ELSE Stop(c) /\ UNCHANGED <<status, tree>>
  /\ UNCHANGED <<branch, worktree, unsaved, stack, done, history, FromThere>>

MarksClosed(c) ==
  /\ At(c, "marking")
  /\ CanMove(status[Doc(c)], CLOSED)
  /\ RecordClosure(c, Doc(c), "spec")
  /\ history' = history \cup (IF closer[c].skip THEN {"asserted"} ELSE {})
                        \cup (IF Doc(c) = "spec" THEN {"own transition"} ELSE {})
  /\ UNCHANGED <<branch, worktree, unsaved, stack, done, FromThere>>

\* Merged, the worktree gone, and the document no longer takes the status.
RefusedLate(c) ==
  /\ At(c, "marking")
  /\ ~CanMove(status[Doc(c)], CLOSED)
  /\ Stop(c)
  /\ UNCHANGED Untouched

------------------------------------------------------------------------------
(* After the plan is closed: each failure is a warning.                     *)

Warned == failures < MaxFailures /\ failures' = failures + 1
          /\ history' = history \cup {"cut short"}
NotWarned == UNCHANGED <<failures, history>>

\* Mutant: the spec keeps what it says.
SpecForgotten(c) ==
  /\ At(c, "spec")
  /\ Goto(c, "syncing")
  /\ UNCHANGED Untouched

ClosesSpec(c) ==
  /\ At(c, "spec")
  /\ IF status["spec"] = NoDocument
       THEN Goto(c, "syncing") /\ UNCHANGED <<status, tree>> /\ NotWarned
       ELSE \/ RecordClosure(c, "spec", "syncing") /\ NotWarned
            \/ Goto(c, "syncing") /\ Warned /\ UNCHANGED <<status, tree>>
  /\ UNCHANGED <<branch, worktree, unsaved, run, agent, moves, stack, done>>

\* The closing of a spec ends here.
SyncsBriefs(c) ==
  /\ At(c, "syncing")
  /\ \/ done' = done \cup {"listed"} /\ tree' = Dirtied /\ NotWarned
     \/ UNCHANGED <<done, tree>> /\ Warned
  /\ IF Doc(c) = "spec" THEN Stop(c) ELSE Goto(c, "hooking")
  /\ UNCHANGED <<status, branch, worktree, unsaved, stack, run, agent, moves>>

RunsHook(c) ==
  /\ At(c, "hooking")
  /\ \/ done' = done \cup {"hooked"} /\ NotWarned
     \/ UNCHANGED done /\ Warned
  /\ Goto(c, "tearing")
  /\ UNCHANGED <<status, branch, tree, worktree, unsaved, stack, run, agent, moves>>

TearsDown(c) ==
  /\ At(c, "tearing")
  /\ \/ stack' = FALSE /\ NotWarned
     \/ UNCHANGED stack /\ Warned
  /\ Stop(c)
  /\ UNCHANGED <<status, branch, tree, worktree, unsaved, done, run, agent, moves>>

Dies(c) ==
  /\ ~At(c, "idle")
  /\ failures < MaxFailures
  /\ failures' = failures + 1
  /\ history' = history \cup (IF closer[c].step \in Tail THEN {"cut short"} ELSE {})
  /\ Stop(c)
  /\ UNCHANGED <<status, branch, tree, worktree, unsaved, stack, done, run, agent, moves>>

------------------------------------------------------------------------------
(* A run, from the outside: it holds the slice's lock while it is live.     *)

DispatchesExecutor ==
  /\ run = "none" /\ agent = "none"
  /\ status["plan"] = "PLAN_APPROVED"
  /\ WriteStatus("plan", "EXECUTING")
  /\ branch' = [branch EXCEPT !.exists = TRUE]
  /\ worktree' = TRUE /\ stack' = TRUE
  /\ run' = "executor" /\ agent' = "executor"
  /\ UNCHANGED <<unsaved, done, moves, failures, history>>

DispatchesPlanner ==
  /\ run = "none" /\ agent = "none"
  /\ status["spec"] = "SPEC_APPROVED"
  /\ WriteStatus("spec", "PLANNING")
  /\ run' = "planner" /\ agent' = "planner"
  /\ UNCHANGED <<branch, worktree, unsaved, stack, done, moves, failures, history>>

AgentEdits ==
  /\ agent = "executor" /\ worktree
  /\ unsaved' = TRUE
  /\ UNCHANGED <<status, branch, tree, worktree, run, agent, stack, done, closer, moves,
                 failures, history>>

AgentCommits ==
  /\ agent = "executor" /\ worktree
  /\ branch.commits < MaxCommits
  /\ branch' = [branch EXCEPT !.commits = @ + 1]
  /\ unsaved' = FALSE
  /\ UNCHANGED <<status, tree, worktree, run, agent, stack, done, closer, moves, failures,
                 history>>

AgentDrafts ==
  /\ agent = "planner"
  /\ WriteStatus("plan", ProducedStatus)
  /\ history' = history \cup
       (IF CLOSED \in {status[d] : d \in Documents} \/ (\E c \in Closers : ~At(c, "idle"))
          THEN {"redrafted"} ELSE {})
  /\ UNCHANGED <<branch, worktree, unsaved, run, agent, stack, done, moves, failures>>

AgentStops ==
  /\ agent # "none"
  /\ agent' = "none"
  /\ UNCHANGED <<status, branch, tree, worktree, unsaved, run, stack, done, closer, moves,
                 failures, history>>

\* The supervisor records what it found, where the document takes it; or it died.  An
\* agent may outlive it.
RecordsRun(d, new) ==
  IF CanMove(status[d], new) THEN WriteStatus(d, new)
                             ELSE UNCHANGED <<status, closer, tree>>

RunEnds ==
  /\ \/ /\ run = "executor"
        /\ \/ /\ RecordsRun("plan", "EXECUTION_COMPLETE")
              /\ branch' = IF CanMove(status["plan"], "EXECUTION_COMPLETE")
                             THEN [branch EXCEPT !.complete = branch.commits] ELSE branch
              /\ UNCHANGED stack
           \/ /\ agent = "none"
              /\ RecordsRun("plan", "PLAN_APPROVED")
              /\ stack' = FALSE /\ UNCHANGED branch
     \/ /\ run = "planner"
        /\ IF status["plan"] = NoDocument THEN RecordsRun("spec", "SPEC_APPROVED")
                                          ELSE RecordsRun("spec", "PLAN_GENERATED")
        /\ UNCHANGED <<branch, stack>>
     \/ /\ run # "none"
        /\ UNCHANGED <<status, closer, tree, branch, stack>>
  /\ run' = "none"
  /\ UNCHANGED <<worktree, unsaved, agent, done, moves, failures, history>>

------------------------------------------------------------------------------
(* Humans.                                                                  *)

Moves == moves < MaxMoves /\ moves' = moves + 1

SetStatus(d, new) ==
  /\ Moves
  /\ new \notin {status[d], CLOSED}
  /\ CanMove(status[d], new)
  /\ WriteStatus(d, new)
  /\ branch' = IF d = "plan" /\ new = "EXECUTION_COMPLETE"
                 THEN [branch EXCEPT !.complete = branch.commits] ELSE branch
  /\ UNCHANGED <<worktree, unsaved, run, agent, stack, done, failures, history>>

\* Commits or stashes, or resolves the conflict and commits the merge.
TidiesUp ==
  /\ tree # "clean"
  /\ tree' = "clean"
  /\ branch' = IF tree = "conflicted"
                 THEN [branch EXCEPT !.merged = branch.commits] ELSE branch
  /\ UNCHANGED <<status, worktree, unsaved, run, agent, stack, done, closer, moves,
                 failures, history>>

\* `git merge --abort`; a branch whose work is home is tidied away.
AbortsMerge ==
  /\ Moves
  /\ tree = "conflicted"
  /\ tree' = "clean"
  /\ UNCHANGED <<status, branch, worktree, unsaved, run, agent, stack, done, closer,
                 failures, history>>

DeletesBranch ==
  /\ Moves
  /\ branch.exists /\ ~worktree
  /\ branch.merged = branch.commits
  /\ branch' = [branch EXCEPT !.exists = FALSE]
  /\ UNCHANGED <<status, tree, worktree, unsaved, run, agent, stack, done, closer,
                 failures, history>>

------------------------------------------------------------------------------
CloserStep(c) ==
  \/ Weighs(c) \/ Records(c) \/ ChecksTree(c) \/ Merges(c) \/ MergeFails(c)
  \/ RemovesWorktree(c) \/ MarksConflict(c) \/ MarksClosed(c) \/ RefusedLate(c)
  \/ ClosesSpec(c) \/ SyncsBriefs(c) \/ RunsHook(c) \/ TearsDown(c)

RunNext ==
  \/ DispatchesExecutor \/ DispatchesPlanner \/ RunEnds
  \/ AgentEdits \/ AgentCommits \/ AgentDrafts \/ AgentStops

HumanNext ==
  \/ \E d \in Documents, new \in ValidStatuses : SetStatus(d, new)
  \/ TidiesUp \/ AbortsMerge \/ DeletesBranch

ClosureNext ==
  \/ \E c \in Closers : \/ \E d \in Documents, skip \in BOOLEAN : Begins(c, d, skip)
                        \/ CloserStep(c) \/ Dies(c)
  \/ RunNext \/ HumanNext

\* A command that runs goes on.  The human tidies up the tree, and gives the command
\* again while the slice is not closed: what is claimed is that giving it again helps.
ClosureSpec ==
  /\ ClosureInit /\ [][ClosureNext]_closureVars
  /\ \A c \in Closers : /\ WF_closureVars(CloserStep(c))
                        /\ \A d \in Documents : SF_closureVars(Begins(c, d, FALSE))
  /\ WF_closureVars(TidiesUp)

------------------------------------------------------------------------------
(* Properties.                                                              *)

\* A spec says closed only beside a closed plan, or on a human's word: at every moment
\* in between two writes, and after a crash there (closure.py: two grounds, no third).
Excused == history \cap {"asserted", "redrafted", "own transition"} # {}

SpecClosedWithPlan ==
  status["spec"] = CLOSED /\ ~Excused => status["plan"] = CLOSED

\* Everything that was complete is merged when the plan says closed.
ClosedMeansMerged ==
  [][\A c \in Closers :
       MarksClosed(c) /\ ~closer[c].skip /\ ~closer[c].overtaken /\ Doc(c) = "plan" =>
         branch.merged >= branch.complete]_closureVars

\* "mutation before the fallible check": a branch is merged and a worktree removed for
\* a closing that is then refused only when somebody moved the document meanwhile.
RefusedBeforeMerging ==
  [][\A c \in Closers : RefusedLate(c) => closer[c].overtaken]_closureVars

\* The uncommitted work of a live run is not deleted, unless a human moves documents.
LiveWorkIsSafe ==
  [][moves = 0 /\ run = "executor" /\ unsaved /\ ~unsaved' => worktree']_closureVars

\* A closing nothing cut short leaves nothing behind: spec, briefs, hook and stack.
NothingLeftBehind ==
  status["plan"] = CLOSED /\ ~InTail /\ "cut short" \notin history =>
    /\ status["spec"] \in {CLOSED, NoDocument}
    /\ done = {"listed", "hooked"}
    /\ ~stack

\* What a dependent slice asks (resolve_document prefers the plan): once it is answered
\* with "closed", it stays so, unless an agent drafts a plan into the closed slice.
DependencyMet ==
  IF status["plan"] # NoDocument THEN status["plan"] = CLOSED ELSE status["spec"] = CLOSED

DependencyStaysMet ==
  [][DependencyMet => DependencyMet' \/ "redrafted" \in history']_closureVars

\* A closing cut short anywhere can be given again: a plan that is complete, on a branch
\* that is there, does not stay unclosed; and its spec follows it.
ClosingCanBeRepeated ==
  /\ status["plan"] \in {"EXECUTION_COMPLETE", "MERGE_CONFLICT"} ~>
       status["plan"] \notin {"EXECUTION_COMPLETE", "MERGE_CONFLICT"} \/ ~branch.exists
  /\ status["plan"] = CLOSED ~>
       status["spec"] \in {CLOSED, NoDocument} \cup InProgressStatuses
         \/ status["plan"] # CLOSED

\* docs/configuration.md: "A document at some role's in-progress status is refused under
\* both": no closing should write over a status a supervisor owns.
InProgressNeverClosed ==
  [][\A d \in Documents :
       status[d] \in InProgressStatuses => status'[d] # CLOSED]_closureVars
==============================================================================
