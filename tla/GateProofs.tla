----------------------------- MODULE GateProofs -----------------------------
(***************************************************************************)
(* The dependency gate holds for every set of slices, milestones and names *)
(* and for every graph of dependencies.                                    *)
(***************************************************************************)
EXTENDS Gate, TLAPS

Wants == {project.depends_on[s] : s \in Slices} \cup {{}}
Statuses == ValidStatuses \cup MILESTONE_STATUSES \cup {NoDocument}
Heads == [status : Statuses, slice_id : Ids \cup {NoSliceId}, depends_on : Wants]

\* A slice_id is the one the file is written for; briefs, and files not there, have none.
OwnSliceId ==
  \A f \in Files :
    \/ file[f].slice_id = NoSliceId
    \/ Exists(f) /\ f[1] # "milestones" /\ file[f].slice_id = f[2]

\* Both documents of a slice carry the dependencies of its spec.
Carried ==
  \A s \in Slices : \A f \in {Spec(s), Plan(s)} :
    Exists(f) => file[f].depends_on = project.depends_on[s]

GInv ==
  /\ project \in Projects
  /\ run \in [Slices -> Roles \cup {"none"}]
  /\ file \in [Files -> Heads]
  /\ OwnSliceId
  /\ Carried
  /\ \A s \in Slices : run[s] = "planner" => Exists(Spec(s))

LEMMA FileFacts ==
  /\ \A s \in Slices : Spec(s) \in Files /\ Plan(s) \in Files /\ Spec(s) # Plan(s)
  /\ \A s \in Slices : Spec(s)[2] = s /\ Plan(s)[2] = s
  /\ \A s \in Slices : Spec(s)[1] = "specs" /\ Plan(s)[1] = "plans"
  /\ \A m \in Milestones : Brief(m) \in Files /\ Brief(m)[1] = "milestones"
  /\ \A m \in Milestones : Brief(m)[2] = m
  /\ \A f \in Files : \/ f[2] \in Slices /\ f \in {Spec(f[2]), Plan(f[2])}
                      \/ f[2] \in Milestones /\ f = Brief(f[2])
  /\ \A s, t \in Slices : (Spec(s) = Spec(t) \/ Plan(s) = Plan(t)) => s = t
  /\ \A s, t \in Slices : Spec(s) # Plan(t)
BY DEF Files, Spec, Plan, Brief

LEMMA HeadFacts ==
  /\ \A h \in Heads : h.status \in Statuses /\ h.slice_id \in Ids \cup {NoSliceId}
                      /\ h.depends_on \in Wants
  /\ \A h \in Heads, st \in Statuses :
       /\ [h EXCEPT !.status = st] \in Heads
       /\ [h EXCEPT !.status = st].status = st
       /\ [h EXCEPT !.status = st].slice_id = h.slice_id
       /\ [h EXCEPT !.status = st].depends_on = h.depends_on
BY DEF Heads

LEMMA StatusFacts ==
  /\ NoDocument \in Statuses /\ NoDocument \notin ValidStatuses
  /\ ValidStatuses \subseteq Statuses /\ MILESTONE_STATUSES \subseteq Statuses
  /\ CLOSED \in ValidStatuses /\ "DRAFT_SPEC" \in ValidStatuses
  /\ ProducedStatus \in ValidStatuses
  /\ "MILESTONE_CLOSED" \in Statuses
  /\ \A role \in Roles : AllowedStatuses(role) \subseteq ValidStatuses
  /\ \A current, new : CanMove(current, new) => current # NoDocument /\ new \in ValidStatuses
BY DEF Statuses, ValidStatuses, Edges, MILESTONE_STATUSES, NoDocument, CLOSED,
       ProducedStatus, AllowedStatuses, Roles, CanMove

\* What a change of statuses leaves alone.
Alike(files, others) ==
  /\ others \in [Files -> Heads]
  /\ \A f \in Files : /\ others[f].slice_id = files[f].slice_id
                      /\ others[f].depends_on = files[f].depends_on
                      /\ (others[f].status # NoDocument) <=> (files[f].status # NoDocument)

LEMMA MovedKeeps ==
  ASSUME NEW files \in [Files -> Heads], NEW f \in Files, NEW new
  PROVE  Alike(files, Moved(files, f, new))
<1>1. CASE ~CanMove(files[f].status, new)
  BY <1>1 DEF Moved, Alike
<1>2. CASE CanMove(files[f].status, new)
  <2>1. new \in Statuses /\ new # NoDocument /\ files[f].status # NoDocument
    BY <1>2, StatusFacts
  <2> DEFINE h == [files[f] EXCEPT !.status = new]
  <2>2. /\ h \in Heads /\ h.status = new /\ h.slice_id = files[f].slice_id
        /\ h.depends_on = files[f].depends_on
    BY <2>1, HeadFacts
  <2>3. Moved(files, f, new) = [files EXCEPT ![f] = h]
    BY <1>2 DEF Moved
  <2> QED
    BY <2>1, <2>2, <2>3 DEF Alike
<1> QED
  BY <1>1, <1>2

LEMMA AlikeTwice ==
  ASSUME NEW files \in [Files -> Heads], NEW others, NEW more,
         Alike(files, others), Alike(others, more)
  PROVE  Alike(files, more)
BY DEF Alike

LEMMA InitInv == GateInit => GInv
<1> SUFFICES ASSUME GateInit PROVE GInv
  OBVIOUS
<1> DEFINE open == [NoFrontmatter EXCEPT !.status = "MILESTONE_ACTIVE"]
<1>1. NoFrontmatter \in Heads /\ open \in Heads
  BY DEF NoFrontmatter, Heads, Statuses, MILESTONE_STATUSES, Wants
<1>2. NoFrontmatter.slice_id = NoSliceId /\ open.slice_id = NoSliceId
  BY DEF NoFrontmatter
<1>3. NoFrontmatter.status = NoDocument
  BY DEF NoFrontmatter
<1> HIDE DEF open
<1>4. file = [f \in Files |-> IF f[1] = "milestones" THEN open ELSE NoFrontmatter]
  BY DEF GateInit, open
<1>5. file \in [Files -> Heads] /\ OwnSliceId
  BY <1>1, <1>2, <1>4 DEF OwnSliceId, Exists
<1>6. \A s \in Slices : \A f \in {Spec(s), Plan(s)} : ~Exists(f)
  BY <1>3, <1>4, FileFacts DEF Exists
<1> QED
  BY <1>5, <1>6 DEF GateInit, GInv, Carried, Roles

\* A step that changes statuses only, and starts nobody but where there is a document.
LEMMA StatusStep ==
  ASSUME GInv, project' = project, Alike(file, file'),
         run' \in [Slices -> Roles \cup {"none"}],
         \A s \in Slices : run'[s] = "planner" => Exists(Spec(s))
  PROVE  GInv'
<1>1. Wants' = Wants /\ Heads' = Heads
  BY DEF Wants, Heads
<1>2. OwnSliceId' /\ Carried'
  BY FileFacts DEF GInv, OwnSliceId, Carried, Alike, Exists
<1>3. \A s \in Slices : run'[s] = "planner" => Exists(Spec(s))'
  BY FileFacts DEF Alike, Exists
<1> QED
  BY <1>1, <1>2, <1>3 DEF GInv, Alike

LEMMA StepInv == GInv /\ [GateNext]_gateVars => GInv'
<1> SUFFICES ASSUME GInv, [GateNext]_gateVars PROVE GInv'
  OBVIOUS
<1> USE DEF GInv
<1>u. CASE UNCHANGED gateVars
  BY <1>u DEF gateVars, OwnSliceId, Carried, Exists, Wants, Heads
<1>p. CASE project' = project
  <2>0. Wants' = Wants /\ Heads' = Heads
    BY <1>p DEF Wants, Heads
  <2>1. ASSUME NEW s \in Slices, WritesSpec(s) PROVE GInv'
    <3> DEFINE h == [status |-> "DRAFT_SPEC",
                     slice_id |-> IF s \in project.named THEN s ELSE NoSliceId,
                     depends_on |-> project.depends_on[s]]
    <3>1. h \in Heads /\ h.status # NoDocument /\ h.slice_id \in {s, NoSliceId}
          /\ h.depends_on = project.depends_on[s]
      BY StatusFacts DEF Heads, Wants, Ids
    <3>2. file' = [file EXCEPT ![Spec(s)] = h] /\ run' = run
      BY <2>1 DEF WritesSpec
    <3> HIDE DEF h
    <3>3. file' \in [Files -> Heads]
      BY <3>1, <3>2
    <3>4. OwnSliceId'
      BY <3>1, <3>2, FileFacts DEF OwnSliceId, Exists
    <3>5. Carried'
      <4> SUFFICES ASSUME NEW t \in Slices, NEW f \in {Spec(t), Plan(t)}, Exists(f)'
                   PROVE  file'[f].depends_on = project.depends_on[t]
        BY <1>p DEF Carried
      <4>1. CASE f = Spec(s)
        BY <4>1, <3>1, <3>2, FileFacts
      <4>2. CASE f # Spec(s)
        BY <4>2, <3>2, FileFacts DEF Carried, Exists
      <4> QED
        BY <4>1, <4>2
    <3>6. \A t \in Slices : run'[t] = "planner" => Exists(Spec(t))'
      BY <3>1, <3>2, FileFacts DEF Exists
    <3> QED
      BY <2>0, <3>2, <3>3, <3>4, <3>5, <3>6, <1>p
  <2>2. ASSUME NEW s \in Slices, Drafts(s) PROVE GInv'
    <3> DEFINE h == [status |-> ProducedStatus, slice_id |-> s,
                     depends_on |-> file[Spec(s)].depends_on]
    <3>1. file[Spec(s)].depends_on = project.depends_on[s]
      BY <2>2, FileFacts DEF Drafts, Carried
    <3>2. h \in Heads /\ h.status # NoDocument /\ h.slice_id = s
          /\ h.depends_on = project.depends_on[s]
      BY <3>1, StatusFacts DEF Heads, Wants, Ids
    <3>3. file' = [file EXCEPT ![Plan(s)] = h] /\ run' = run
      BY <2>2 DEF Drafts
    <3> HIDE DEF h
    <3>4. file' \in [Files -> Heads]
      BY <3>2, <3>3
    <3>5. OwnSliceId'
      BY <3>2, <3>3, FileFacts DEF OwnSliceId, Exists
    <3>6. Carried'
      <4> SUFFICES ASSUME NEW t \in Slices, NEW f \in {Spec(t), Plan(t)}, Exists(f)'
                   PROVE  file'[f].depends_on = project.depends_on[t]
        BY <1>p DEF Carried
      <4>1. CASE f = Plan(s)
        BY <4>1, <3>2, <3>3, FileFacts
      <4>2. CASE f # Plan(s)
        BY <4>2, <3>3, FileFacts DEF Carried, Exists
      <4> QED
        BY <4>1, <4>2
    <3>7. \A t \in Slices : run'[t] = "planner" => Exists(Spec(t))'
      BY <3>3, FileFacts DEF Exists
    <3> QED
      BY <2>0, <3>3, <3>4, <3>5, <3>6, <3>7, <1>p
  <2>3. ASSUME NEW s \in Slices, NEW f \in {Spec(s), Plan(s)}, NEW from, NEW to,
               Approves(f, from, to)
        PROVE  GInv'
    <3>1. Alike(file, file')
      BY <2>3, FileFacts, MovedKeeps DEF Approves
    <3> QED
      BY <2>3, <3>1, <1>p, StatusStep DEF Approves
  <2>4. ASSUME NEW s \in Slices, NEW role \in Roles, Dispatches(role, s) PROVE GInv'
    <3> DEFINE f == Dispatched(role, s)
    <3>1. f \in {Spec(s), Plan(s)} /\ (role = "planner" => f = Spec(s))
      BY DEF Dispatched, FileOf, DocumentOf, Spec, Plan, Roles
    <3>2. Exists(f)
      BY <2>4, StatusFacts DEF Dispatches, Exists
    <3> HIDE DEF f
    <3>3. Alike(file, file')
      BY <2>4, <3>1, FileFacts, MovedKeeps DEF Dispatches, f
    <3>4. run' = [run EXCEPT ![s] = role]
      BY <2>4 DEF Dispatches
    <3> QED
      BY <3>1, <3>2, <3>3, <3>4, <1>p, StatusStep
  <2>5. ASSUME NEW s \in Slices, NEW role \in Roles, Succeeds(role, s) PROVE GInv'
    <3> DEFINE promoted == IF role = "planner" THEN Moved(file, Plan(s), SuccessStatus(role))
                           ELSE file
    <3>1. Dispatched(role, s) \in Files
      BY FileFacts DEF Dispatched, FileOf, DocumentOf, Spec, Plan, Roles
    <3>2. Alike(file, promoted) /\ promoted \in [Files -> Heads]
      BY MovedKeeps, FileFacts DEF Alike
    <3>3. file' = Moved(promoted, Dispatched(role, s), SuccessStatus(role))
      BY <2>5 DEF Succeeds
    <3> HIDE DEF promoted
    <3>4. Alike(file, file')
      BY <3>1, <3>2, <3>3, MovedKeeps, AlikeTwice
    <3>5. run' = [run EXCEPT ![s] = "none"]
      BY <2>5 DEF Succeeds
    <3> QED
      BY <3>4, <3>5, <1>p, StatusStep
  <2>6. ASSUME NEW s \in Slices, NEW role \in Roles, GoesBack(role, s) PROVE GInv'
    <3>1. Dispatched(role, s) \in Files
      BY FileFacts DEF Dispatched, FileOf, DocumentOf, Spec, Plan, Roles
    <3>2. Alike(file, file')
      BY <2>6, <3>1, MovedKeeps DEF GoesBack
    <3>3. run' = [run EXCEPT ![s] = "none"]
      BY <2>6 DEF GoesBack
    <3> QED
      BY <3>2, <3>3, <1>p, StatusStep
  <2>7. ASSUME NEW s \in Slices, Closes(s) PROVE GInv'
    <3>1. file[Plan(s)].status # NoDocument
      BY <2>7, StatusFacts DEF Closes
    <3>2. run' = run
      BY <2>7 DEF Closes
    <3>3. ASSUME NEW f \in Files
          PROVE  /\ file'[f] \in Heads
                 /\ file'[f].slice_id = file[f].slice_id
                 /\ file'[f].depends_on = file[f].depends_on
                 /\ (file'[f].status # NoDocument) <=> (file[f].status # NoDocument)
      <4>1. CASE file'[f] = file[f]
        BY <4>1
      <4>2. CASE file'[f] = [file[f] EXCEPT !.status = CLOSED] /\ file[f].status # NoDocument
        BY <4>2, HeadFacts, StatusFacts
      <4> QED
        BY <2>7, <3>1, <4>1, <4>2 DEF Closes, Exists
    <3>4. Alike(file, file')
      BY <2>7, <3>3 DEF Alike, Closes
    <3> QED
      BY <3>2, <3>4, <1>p, StatusStep
  <2>8. ASSUME NEW s \in Slices, Asserts(s) PROVE GInv'
    <3>1. run' = run /\ file[Spec(s)].status # NoDocument
      BY <2>8 DEF Asserts, Exists
    <3> DEFINE h == [file[Spec(s)] EXCEPT !.status = CLOSED]
    <3>2. h \in Heads /\ h.status # NoDocument /\ h.slice_id = file[Spec(s)].slice_id
          /\ h.depends_on = file[Spec(s)].depends_on
      BY HeadFacts, StatusFacts, FileFacts
    <3>3. file' = [file EXCEPT ![Spec(s)] = h]
      BY <2>8 DEF Asserts
    <3> HIDE DEF h
    <3>4. Alike(file, file')
      BY <3>1, <3>2, <3>3 DEF Alike
    <3> QED
      BY <3>1, <3>4, <1>p, StatusStep
  <2>9. ASSUME NEW m \in Milestones, ClosesMilestone(m) PROVE GInv'
    <3>1. run' = run /\ file[Brief(m)].status # NoDocument
      BY <2>9 DEF ClosesMilestone, NoDocument
    <3> DEFINE h == [file[Brief(m)] EXCEPT !.status = "MILESTONE_CLOSED"]
    <3>2. file[Brief(m)] \in Heads /\ NoDocument # "MILESTONE_CLOSED"
      BY FileFacts DEF NoDocument
    <3>4. h \in Heads /\ h.status # NoDocument /\ h.slice_id = file[Brief(m)].slice_id
          /\ h.depends_on = file[Brief(m)].depends_on
      BY <3>2, HeadFacts, StatusFacts
    <3>3. file' = [file EXCEPT ![Brief(m)] = h]
      BY <2>9 DEF ClosesMilestone
    <3> HIDE DEF h
    <3>5. Alike(file, file')
      BY <3>1, <3>4, <3>3 DEF Alike
    <3> QED
      BY <3>1, <3>5, <1>p, StatusStep
  <2> QED
    BY <1>p, <1>u, <2>1, <2>2, <2>3, <2>4, <2>5, <2>6, <2>7, <2>8, <2>9
    DEF GateNext, SliceNext, ApprovesSpec, ApprovesPlan
<1> QED
  BY <1>u, <1>p DEF GateNext

THEOREM GateInvHolds == GateSpec => []GInv
BY InitInv, StepInv, PTL DEF GateSpec

\* What the gate let pass was closed, or is an id that only file names could tell.
LEMMA ClosedIsMet ==
  ASSUME GInv, NEW f \in Files, NEW id, id # NoSliceId,
         Closed(id, {"specs", "plans", "milestones"}, f)
  PROVE  id \in Ids /\ (Met(id) \/ Shadowed(id, f))
<1> DEFINE dirs == {"specs", "plans", "milestones"}
           found == {g \in Files \ {f} : Exists(g) /\ g[1] \in dirs}
           bySliceId == {g \in found : file[g].slice_id = id}
           byStem == {g \in found : <<id, g[2]>> \in Within}
<1>1. PICK g \in Files : g \in Matches(id, dirs, f) /\ IsClosed(g)
  BY DEF Closed, Preferred
<1>2. \/ bySliceId # {} /\ g \in bySliceId
      \/ bySliceId = {} /\ g \in byStem
  BY <1>1 DEF Matches
<1>3. ASSUME id \in Ids, g[2] = id PROVE Met(id)
  BY <1>1, <1>3, FileFacts, GateAssumption DEF Met
<1>4. CASE g \in bySliceId
  <2>1. file[g].slice_id = id /\ Exists(g)
    BY <1>4
  <2> QED
    BY <2>1, <1>3, FileFacts DEF GInv, OwnSliceId, Ids
<1>5. CASE bySliceId = {} /\ g \in byStem
  <2>1. id \in Ids /\ g[2] \in Ids
    BY <1>5, GateAssumption
  <2>2. CASE g[2] # id
    <3>1. \A h \in Files : h[1] \in dirs
      BY FileFacts
    <3>2. ASSUME NEW h \in Files \ {f} PROVE file[h].slice_id # id
      BY <3>1, <1>5 DEF GInv, OwnSliceId
    <3>3. <<id, g[2]>> \in Within
      BY <1>5
    <3> QED
      BY <2>1, <2>2, <3>2, <3>3 DEF Shadowed
  <2> QED
    BY <2>1, <2>2, <1>3
<1> QED
  BY <1>2, <1>4, <1>5


\* Only a dispatch starts a role, at a document that carries its slice's dependencies.
LEMMA StartsAreGated ==
  ASSUME GInv, GateNext, NEW s \in Slices, Starts(s)
  PROVE  /\ Dispatched(run'[s], s) \in Files
         /\ Exists(Dispatched(run'[s], s))
         /\ Unmet(Dispatched(run'[s], s)) = {}
         /\ file[Dispatched(run'[s], s)].depends_on = project.depends_on[s]
<1>1. PICK role \in Roles : Dispatches(role, s) /\ run'[s] = role
  <2>1. PICK t \in Slices : SliceNext(t) /\ run' # run
    BY DEF GateNext, ClosesMilestone, Starts
  <2>2. PICK role \in Roles : Dispatches(role, t)
    BY <2>1 DEF GInv, Starts, SliceNext, WritesSpec, ApprovesSpec, ApprovesPlan, Approves,
       Closes, Asserts, Drafts, Succeeds, GoesBack
  <2> QED
    BY <2>2 DEF GInv, Starts, Dispatches
<1>2. Dispatched(role, s) \in {Spec(s), Plan(s)}
  BY DEF Dispatched, FileOf, DocumentOf, Spec, Plan, Roles
<1>3. Exists(Dispatched(role, s))
  BY <1>1, StatusFacts DEF Dispatches, Exists
<1> QED
  BY <1>1, <1>2, <1>3, FileFacts DEF GInv, Carried, Dispatches

\* Whatever the graph of dependencies and whatever order humans and runs go in, the gate lets
\* no role start before what its slice depends on is closed (StartsAfterDependencies).
THEOREM DependenciesComeFirst == GateSpec => StartsAfterDependencies
<1>1. GInv /\ [GateNext]_gateVars =>
        [\A s \in Slices : Starts(s) =>
           \A id \in project.depends_on[s] :
             id \in Ids /\ (Met(id) \/ Shadowed(id, Dispatched(run'[s], s)))]_gateVars
  <2> SUFFICES ASSUME GInv, GateNext, NEW s \in Slices, Starts(s),
                      NEW id \in project.depends_on[s]
               PROVE  id \in Ids /\ (Met(id) \/ Shadowed(id, Dispatched(run'[s], s)))
    OBVIOUS
  <2> DEFINE f == Dispatched(run'[s], s)
  <2>1. f \in Files /\ Unmet(f) = {} /\ file[f].depends_on = project.depends_on[s]
    BY StartsAreGated
  <2> HIDE DEF f
  <2>2. Closed(id, {"specs", "plans", "milestones"}, f)
    BY <2>1 DEF Unmet
  <2>3. id # NoSliceId
    BY GateAssumption DEF GInv
  <2>4. id \in Ids /\ (Met(id) \/ Shadowed(id, f))
    BY <2>1, <2>2, <2>3, ClosedIsMet
  <2> QED
    BY <2>4 DEF f
<1> QED
  BY <1>1, GateInvHolds, PTL DEF GateSpec, StartsAfterDependencies

=============================================================================
