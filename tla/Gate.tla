-------------------------------- MODULE Gate --------------------------------
(***************************************************************************)
(* The dependency gate (scripts/dependencies.py) over the life of several  *)
(* slices and milestones: which document a `depends_on` id is taken to     *)
(* name, and who may start when.                                           *)
(*                                                                         *)
(* A file's name contains the id it is written for, and so every id that   *)
(* one contains.  Two dispatches of one slice are Dispatch's business: here*)
(* the gate, the lock and the status write are one step.                   *)
(***************************************************************************)
EXTENDS SliceMachine, Naturals, FiniteSets

CONSTANTS
  Slices, Milestones,
  Within,      \* pairs of ids, the first contained in the second
  Projects,    \* what slices depend on, which specs carry a slice_id, what milestones list
  MaxSetbacks  \* bound on runs that end without their outcome

Ids == Slices \cup Milestones
NoSliceId == "no slice_id"

DIRECTORY_PRIORITY == <<"plans", "specs", "milestones">>

\* A file by its directory and the id it is written for.
Files == ({"specs", "plans"} \X Slices) \cup ({"milestones"} \X Milestones)
FileOf == [spec |-> "specs", plan |-> "plans"]
Spec(s) == <<"specs", s>>
Plan(s) == <<"plans", s>>
Brief(m) == <<"milestones", m>>

CLOSED == "VERIFIED_CLOSED"
MILESTONE_STATUSES == {"MILESTONE_ACTIVE", "MILESTONE_CLOSED"}
NoFrontmatter == [status |-> NoDocument, slice_id |-> NoSliceId, depends_on |-> {}]

ASSUME GateAssumption ==
  /\ Slices \cap Milestones = {} /\ NoSliceId \notin Ids /\ MaxSetbacks \in Nat
  /\ Within \subseteq Ids \X Ids /\ \A x \in Ids : <<x, x>> \in Within
  /\ \A p \in Projects :
       /\ DOMAIN p.depends_on = Slices /\ p.named \subseteq Slices
       /\ \A s \in Slices : NoSliceId \notin p.depends_on[s]
       /\ p.lists \in [Milestones -> SUBSET Slices]

VARIABLES
  project,   \* one of Projects
  file,      \* the frontmatter of each file, NoFrontmatter where there is none
  run,       \* the role at work in a slice, "none"
  setbacks

gateVars == <<project, file, run, setbacks>>

Exists(f) == file[f].status # NoDocument

------------------------------------------------------------------------------
(* The gate.                                                                *)

\* Mutant: a file name is believed before a slice_id.
MatchesByName(id, dirs, exclude) ==
  LET found == {f \in Files \ {exclude} : Exists(f) /\ f[1] \in dirs}
      bySliceId == {f \in found : file[f].slice_id = id}
      byStem == {f \in found \ bySliceId : <<id, f[2]>> \in Within}
  IN IF byStem # {} THEN byStem ELSE bySliceId

\* _matches: by slice_id, and when there is none by file name.
Matches(id, dirs, exclude) ==
  LET found == {f \in Files \ {exclude} : Exists(f) /\ f[1] \in dirs}
      bySliceId == {f \in found : file[f].slice_id = id}
  IN IF bySliceId # {} THEN bySliceId ELSE {f \in found : <<id, f[2]>> \in Within}

Preferred(files) ==
  LET first == {i \in DOMAIN DIRECTORY_PRIORITY :
                  /\ \E f \in files : f[1] = DIRECTORY_PRIORITY[i]
                  /\ \A j \in 1..(i - 1) : \A f \in files : f[1] # DIRECTORY_PRIORITY[j]}
  IN {f \in files : \E i \in first : f[1] = DIRECTORY_PRIORITY[i]}

\* Mutant: one status closes them all.
IsClosedSlice(f) == file[f].status = CLOSED

IsClosed(f) == file[f].status = IF f[1] = "milestones" THEN "MILESTONE_CLOSED" ELSE CLOSED

\* resolve_document finds one file, and it is closed; none and several are refused.
Closed(id, dirs, exclude) ==
  \E f \in Files : Preferred(Matches(id, dirs, exclude)) = {f} /\ IsClosed(f)

\* check_unmet_dependencies
Unmet(f) == {id \in file[f].depends_on : ~Closed(id, {"specs", "plans", "milestones"}, f)}

------------------------------------------------------------------------------
(* Slices.                                                                  *)

\* Writes a document's status, by the rule of update_frontmatter_status.
Moved(files, f, new) ==
  IF CanMove(files[f].status, new) THEN [files EXCEPT ![f].status = new] ELSE files

WritesSpec(s) ==
  /\ ~Exists(Spec(s))
  /\ file' = [file EXCEPT ![Spec(s)] =
                [status |-> "DRAFT_SPEC",
                 slice_id |-> IF s \in project.named THEN s ELSE NoSliceId,
                 depends_on |-> project.depends_on[s]]]
  /\ UNCHANGED <<run, setbacks>>

Approves(f, from, to) ==
  /\ file[f].status = from
  /\ file' = Moved(file, f, to)
  /\ UNCHANGED <<run, setbacks>>

ApprovesSpec(s) == Approves(Spec(s), "DRAFT_SPEC", "SPEC_APPROVED")
ApprovesPlan(s) == run[s] = "none" /\ Approves(Plan(s), "PLAN_GENERATED", "PLAN_APPROVED")

Dispatched(role, s) == <<FileOf[DocumentOf(role)], s>>

\* cmd_dispatch_agent: the gate is asked of the document the role is dispatched at.
Dispatches(role, s) ==
  LET f == Dispatched(role, s) IN
  /\ run[s] = "none"
  /\ Unmet(f) = {}
  /\ file[f].status \in AllowedStatuses(role)
  /\ file' = Moved(file, f, InProgressStatus(role))
  /\ run' = [run EXCEPT ![s] = role]
  /\ UNCHANGED setbacks

\* A planner writes the frontmatter it was given, spec's dependencies and all.
Drafts(s) ==
  /\ run[s] = "planner" /\ ~Exists(Plan(s))
  /\ file' = [file EXCEPT ![Plan(s)] = [status |-> ProducedStatus, slice_id |-> s,
                                         depends_on |-> file[Spec(s)].depends_on]]
  /\ UNCHANGED <<run, setbacks>>

\* The supervisor's verdict; a planner's needs a plan, which is promoted first.
Succeeds(role, s) ==
  LET promoted == IF role = "planner" THEN Moved(file, Plan(s), SuccessStatus(role)) ELSE file
  IN /\ run[s] = role
     /\ role = "planner" => Exists(Plan(s))
     /\ file' = Moved(promoted, Dispatched(role, s), SuccessStatus(role))
     /\ run' = [run EXCEPT ![s] = "none"]
     /\ UNCHANGED setbacks

GoesBack(role, s) ==
  /\ run[s] = role
  /\ setbacks < MaxSetbacks /\ setbacks' = setbacks + 1
  /\ file' = Moved(file, Dispatched(role, s), GateForInProgress(InProgressStatus(role)))
  /\ run' = [run EXCEPT ![s] = "none"]

\* set-status VERIFIED_CLOSED on the plan; the sibling spec has a slice_id, or is not found.
Closes(s) ==
  /\ CanMove(file[Plan(s)].status, CLOSED) /\ file[Plan(s)].status # CLOSED
  /\ file' = [f \in Files |->
                IF f = Plan(s) \/ (f = Spec(s) /\ Exists(f) /\ file[f].slice_id = s)
                  THEN [file[f] EXCEPT !.status = CLOSED]
                  ELSE file[f]]
  /\ UNCHANGED <<run, setbacks>>

\* set-status VERIFIED_CLOSED --skip-merge on the spec of a slice that has no plan: it
\* shipped outside the pipeline.
Asserts(s) ==
  /\ setbacks < MaxSetbacks /\ setbacks' = setbacks + 1
  /\ Exists(Spec(s)) /\ ~Exists(Plan(s))
  /\ file[Spec(s)].status \notin InProgressStatuses \cup {CLOSED}
  /\ file' = [file EXCEPT ![Spec(s)].status = CLOSED]
  /\ UNCHANGED run

\* set-status MILESTONE_CLOSED: the slices a brief lists are looked up among specs and plans.
ClosesMilestone(m) ==
  /\ file[Brief(m)].status = "MILESTONE_ACTIVE"
  /\ \A s \in project.lists[m] : Closed(s, {"specs", "plans"}, Brief(m))
  /\ file' = [file EXCEPT ![Brief(m)].status = "MILESTONE_CLOSED"]
  /\ UNCHANGED <<run, setbacks>>

------------------------------------------------------------------------------
GateInit ==
  /\ project \in Projects
  /\ file = [f \in Files |->
               IF f[1] = "milestones"
                 THEN [NoFrontmatter EXCEPT !.status = "MILESTONE_ACTIVE"]
                 ELSE NoFrontmatter]
  /\ run = [s \in Slices |-> "none"]
  /\ setbacks = 0

SliceNext(s) ==
  \/ WritesSpec(s) \/ ApprovesSpec(s) \/ ApprovesPlan(s) \/ Closes(s) \/ Asserts(s)
  \/ Drafts(s)
  \/ \E role \in Roles : Dispatches(role, s) \/ Succeeds(role, s) \/ GoesBack(role, s)

GateNext ==
  /\ (\E s \in Slices : SliceNext(s)) \/ (\E m \in Milestones : ClosesMilestone(m))
  /\ UNCHANGED project

GateSpec == GateInit /\ [][GateNext]_gateVars

\* Whoever drives a slice goes on with it, and a run comes to an end.
OnwardSlice(s) ==
  /\ UNCHANGED project
  /\ \/ WritesSpec(s) \/ ApprovesSpec(s) \/ ApprovesPlan(s) \/ Closes(s) \/ Drafts(s)
     \/ \E role \in Roles : Dispatches(role, s) \/ Succeeds(role, s)

OnwardMilestone(m) == UNCHANGED project /\ ClosesMilestone(m)

GateLiveSpec ==
  /\ GateSpec
  /\ \A s \in Slices : WF_gateVars(OnwardSlice(s))
  /\ \A m \in Milestones : WF_gateVars(OnwardMilestone(m))

------------------------------------------------------------------------------
(* Properties.                                                              *)

\* The document an id is meant to name is closed.
Met(id) ==
  IF id \in Milestones THEN IsClosed(Brief(id)) ELSE IsClosed(Spec(id)) \/ IsClosed(Plan(id))

\* No document besides this one says it is of this id, and another's name contains the id.
Shadowed(id, exclude) ==
  /\ \A f \in Files \ {exclude} : file[f].slice_id # id
  /\ \E x \in Ids \ {id} : <<id, x>> \in Within

Starts(s) == run[s] = "none" /\ run'[s] # "none"

\* No role starts on a slice before what its spec depends on is closed, milestones too,
\* unless the id is one that only file names could tell.
StartsAfterDependencies ==
  [][\A s \in Slices : Starts(s) =>
       \A id \in project.depends_on[s] :
         id \in Ids /\ (Met(id) \/ Shadowed(id, Dispatched(run'[s], s)))]_gateVars

\* "silently picking one is how a dependency gate stops meaning anything" (resolve_document).
NeverPicksAnother ==
  [][\A s \in Slices : Starts(s) =>
       \A id \in project.depends_on[s] : id \in Ids /\ Met(id)]_gateVars

\* What a slice or a milestone waits for.
WaitsFor(x) == IF x \in Slices THEN project.depends_on[x]
               ELSE IF x \in Milestones THEN project.lists[x] ELSE {}

\* Some set of ids waits for nothing outside it, and each of it for another of it.
Circular == \E C \in SUBSET Ids : C # {} /\ \A x \in C : WaitsFor(x) \cap C # {}

\* Every id names what it is meant to, whatever is written when.
Plain ==
  /\ project.named = Slices
  /\ \A s \in Slices : project.depends_on[s] \subseteq Ids
  /\ \A m \in Milestones : \A x \in Ids \ {m} : <<m, x>> \notin Within

\* The gate holds nobody back for ever: slices that depend on one another in no circle are
\* all closed, and their milestones, once everybody does their part.
WhatIsOrderedCloses ==
  Plain /\ ~Circular => <>(\A x \in Ids : Met(x))
==============================================================================
