---------------------------- MODULE ClosureProofs ----------------------------
(***************************************************************************)
(* What holds of closing a slice, for every set of closings, every slice   *)
(* to start from and every number of commits, human moves and failures.    *)
(***************************************************************************)
EXTENDS Closure, TLAPS

------------------------------------------------------------------------------
(* The state machine, as the steps use it.                                  *)

LEMMA MachineFacts ==
  /\ Documents = {"spec", "plan"}
  /\ CLOSED \in ValidStatuses /\ CLOSED # NoDocument
  /\ NoDocument \notin ValidStatuses
  /\ \A new : ~CanMove(NoDocument, new)
  /\ \A new : CanMove(CLOSED, new) => new = CLOSED
  /\ \A cur, new : CanMove(cur, new) => new \in ValidStatuses
  /\ \A cur \in ValidStatuses : CLOSED \in Edges[cur] => CanMove(cur, CLOSED)
  /\ ProducedStatus \in ValidStatuses
  /\ {"EXECUTING", "PLANNING", "PLAN_APPROVED", "MERGE_CONFLICT", "SPEC_APPROVED",
      "PLAN_GENERATED", "EXECUTION_COMPLETE"} \subseteq ValidStatuses
  /\ CLOSED \notin {"SPEC_APPROVED", "PLAN_APPROVED", "MERGE_CONFLICT"}
<1> USE DEF Documents, CLOSED, NoDocument, ValidStatuses, Edges, ProducedStatus
<1>1. \A new : ~CanMove(NoDocument, new)
  BY DEF CanMove
<1>2. \A new : CanMove(CLOSED, new) => new = CLOSED
  BY DEF CanMove
<1>3. \A cur, new : CanMove(cur, new) => new \in ValidStatuses
  BY DEF CanMove
<1>4. \A cur \in ValidStatuses : CLOSED \in Edges[cur] => CanMove(cur, CLOSED)
  BY DEF CanMove
<1> QED
  BY <1>1, <1>2, <1>3, <1>4

\* A closing as the steps build and change it.
Changed(x, s) == [x EXCEPT !.step = s]
Late(x) == [x EXCEPT !.overtaken = TRUE]
Entered(d, skip, s) == [Idle EXCEPT !.step = s, !.document = d, !.skip = skip]

LEMMA ClosingFacts ==
  /\ Idle \in Closings /\ Idle.step = "idle"
  /\ \A x \in Closings : x.step \in Steps /\ x.document \in Documents
  /\ \A x \in Closings, s \in Steps :
       /\ Changed(x, s) \in Closings
       /\ Changed(x, s).step = s
       /\ Changed(x, s).document = x.document
       /\ Changed(x, s).overtaken = x.overtaken
  /\ \A x \in Closings :
       /\ Late(x) \in Closings
       /\ Late(x).step = x.step
       /\ Late(x).document = x.document
       /\ Late(x).overtaken
  /\ \A d \in Documents, skip \in BOOLEAN, s \in Steps :
       /\ Entered(d, skip, s) \in Closings
       /\ Entered(d, skip, s).step = s
       /\ Entered(d, skip, s).document = d
<1>1. Idle \in Closings /\ Idle.step = "idle"
  BY DEF Idle, Closings, Steps, Documents
<1>2. \A x \in Closings : x.step \in Steps /\ x.document \in Documents
  BY DEF Closings
<1>3. \A x \in Closings, s \in Steps :
        /\ Changed(x, s) \in Closings
        /\ Changed(x, s).step = s
        /\ Changed(x, s).document = x.document
        /\ Changed(x, s).overtaken = x.overtaken
  BY DEF Changed, Closings
<1>4. \A x \in Closings :
        /\ Late(x) \in Closings
        /\ Late(x).step = x.step
        /\ Late(x).document = x.document
        /\ Late(x).overtaken
  BY DEF Late, Closings
<1>5. \A d \in Documents, skip \in BOOLEAN, s \in Steps :
        /\ Entered(d, skip, s) \in Closings
        /\ Entered(d, skip, s).step = s
        /\ Entered(d, skip, s).document = d
  BY DEF Entered, Idle, Closings
<1> QED
  BY <1>1, <1>2, <1>3, <1>4, <1>5

------------------------------------------------------------------------------
(* The invariant: documents and closings have their types; a closing that   *)
(* nobody overtook can still write its status; and one that is about to     *)
(* close the spec has seen the plan closed.                                 *)

Fits(d) == CanMove(status[d], CLOSED)
OnItsWay == {"checking", "merging", "conflict", "removing", "marking"}

Typed ==
  /\ status \in [Documents -> ValidStatuses \cup {NoDocument}]
  /\ closer \in [Closers -> Closings]

StillFits(x) == x.step \in OnItsWay /\ ~x.overtaken => Fits(x.document)
HasGrounds(x) == x.step \in {"recording", "spec"} /\ ~Excused => status["plan"] = CLOSED

CInv ==
  /\ Typed
  /\ \A c \in Closers : StillFits(closer[c]) /\ HasGrounds(closer[c])
  /\ SpecClosedWithPlan

LEMMA OvertakenFacts ==
  ASSUME Typed, NEW who, NEW d
  PROVE  /\ Overtaken(who, d) \in [Closers -> Closings]
         /\ \A c \in Closers \ {who} :
              \/ Overtaken(who, d)[c] = closer[c] /\ (At(c, "idle") \/ Doc(c) # d)
              \/ Overtaken(who, d)[c] = Late(closer[c])
         /\ who \in Closers => Overtaken(who, d)[who] = closer[who]
BY ClosingFacts DEF Typed, Overtaken, Late

\* Nobody's closing is at work: a document is written, or none is.
LEMMA OthersWrite ==
  ASSUME CInv, ClosureAssumption, NEW d \in Documents, NEW new \in ValidStatuses,
         status' = [status EXCEPT ![d] = new], closer' = Overtaken(Nobody, d),
         Excused => Excused',
         d = "plan" /\ status["plan"] = CLOSED => new = CLOSED \/ Excused',
         d = "spec" => new # CLOSED,
         d = "plan" \/ d = "spec"
  PROVE  CInv'
<1>1. Typed'
  BY MachineFacts, OvertakenFacts DEF CInv, Typed
<1>2. ASSUME NEW c \in Closers PROVE (StillFits(closer[c]) /\ HasGrounds(closer[c]))'
  <2>1. c # Nobody
    BY DEF ClosureAssumption
  <2>2. CASE closer'[c] = closer[c] /\ (At(c, "idle") \/ Doc(c) # d)
    BY <2>2, MachineFacts, ClosingFacts
    DEF CInv, Typed, StillFits, HasGrounds, Fits, OnItsWay, At, Doc
  <2>3. CASE closer'[c] = Late(closer[c])
    <3>1. closer'[c].step = closer[c].step /\ closer'[c].overtaken
      BY <2>3, ClosingFacts DEF CInv, Typed
    <3>2. StillFits(closer[c])'
      BY <3>1 DEF StillFits
    <3>3. HasGrounds(closer[c])'
      BY <3>1, MachineFacts DEF CInv, Typed, HasGrounds
    <3> QED
      BY <3>2, <3>3
  <2> QED
    BY <2>1, <2>2, <2>3, OvertakenFacts DEF CInv
<1>3. SpecClosedWithPlan'
  BY MachineFacts DEF CInv, Typed, SpecClosedWithPlan
<1> QED
  BY <1>1, <1>2, <1>3 DEF CInv

\* One closing at work writes a status, and goes where it goes.
LEMMA CloserWrites ==
  ASSUME CInv, NEW c \in Closers, NEW d \in Documents, NEW new \in ValidStatuses,
         NEW x \in Closings,
         status' = [status EXCEPT ![d] = new],
         closer' = [Overtaken(c, d) EXCEPT ![c] = x],
         Excused => Excused',
         d = "plan" /\ status["plan"] = CLOSED => new = CLOSED,
         d = "spec" /\ new = CLOSED => status["plan"] = CLOSED \/ Excused',
         x.step \notin OnItsWay,
         x.step \in {"recording", "spec"} => (d = "plan" /\ new = CLOSED) \/ Excused'
  PROVE  CInv'
<1>1. Typed'
  BY MachineFacts, OvertakenFacts DEF CInv, Typed
<1>2. ASSUME NEW e \in Closers PROVE (StillFits(closer[e]) /\ HasGrounds(closer[e]))'
  <2>1. CASE e = c
    <3>1. closer'[e] = x
      BY <2>1, OvertakenFacts DEF CInv
    <3> QED
      BY <2>1, <3>1, MachineFacts DEF CInv, Typed, StillFits, HasGrounds
  <2>2. CASE e # c /\ closer'[e] = closer[e] /\ (At(e, "idle") \/ Doc(e) # d)
    <3>1. StillFits(closer[e])'
      BY <2>2, ClosingFacts DEF CInv, Typed, StillFits, Fits, OnItsWay, At, Doc
    <3>2. HasGrounds(closer[e])'
      BY <2>2, MachineFacts DEF CInv, Typed, HasGrounds
    <3> QED
      BY <3>1, <3>2
  <2>3. CASE e # c /\ closer'[e] = Late(closer[e])
    <3>1. closer'[e].step = closer[e].step /\ closer'[e].overtaken
      BY <2>3, ClosingFacts DEF CInv, Typed
    <3>2. StillFits(closer[e])'
      BY <3>1 DEF StillFits
    <3>3. HasGrounds(closer[e])'
      BY <3>1, MachineFacts DEF CInv, Typed, HasGrounds
    <3> QED
      BY <3>2, <3>3
  <2>4. e # c => closer'[e] = Overtaken(c, d)[e]
    BY OvertakenFacts DEF CInv
  <2> QED
    BY <2>1, <2>2, <2>3, <2>4, OvertakenFacts DEF CInv
<1>3. SpecClosedWithPlan'
  BY MachineFacts DEF CInv, Typed, SpecClosedWithPlan
<1> QED
  BY <1>1, <1>2, <1>3 DEF CInv

\* One closing goes on, and writes no status.
LEMMA CloserGoesOn ==
  ASSUME CInv, NEW c \in Closers, NEW x \in Closings,
         UNCHANGED status, closer' = [closer EXCEPT ![c] = x],
         Excused => Excused',
         x.step \in OnItsWay => Fits(x.document) \/ x.overtaken,
         x.step \in {"recording", "spec"} => status["plan"] = CLOSED \/ Excused'
  PROVE  CInv'
<1>1. Typed'
  BY DEF CInv, Typed
<1>2. ASSUME NEW e \in Closers PROVE (StillFits(closer[e]) /\ HasGrounds(closer[e]))'
  <2>1. CASE e = c
    <3>1. closer'[e] = x
      BY <2>1 DEF CInv, Typed
    <3> QED
      BY <2>1, <3>1 DEF CInv, StillFits, HasGrounds, Fits
  <2>2. CASE e # c
    BY <2>2 DEF CInv, Typed, StillFits, HasGrounds, Fits
  <2> QED
    BY <2>1, <2>2
<1>3. SpecClosedWithPlan'
  BY DEF CInv, SpecClosedWithPlan
<1> QED
  BY <1>1, <1>2, <1>3 DEF CInv

\* Neither a status nor a closing changes.
LEMMA NothingSaid ==
  ASSUME CInv, UNCHANGED <<status, closer>>, Excused => Excused'
  PROVE  CInv'
BY DEF CInv, Typed, StillFits, HasGrounds, Fits, SpecClosedWithPlan

------------------------------------------------------------------------------
LEMMA CInvInit == ClosureInit /\ ClosureAssumption => CInv
<1> SUFFICES ASSUME ClosureInit, ClosureAssumption PROVE CInv
  OBVIOUS
<1>1. Typed
  BY ClosingFacts DEF ClosureInit, ClosureAssumption, Typed
<1>2. \A c \in Closers : closer[c].step = "idle"
  BY ClosingFacts DEF ClosureInit
<1>3. status["spec"] # CLOSED
  BY MachineFacts DEF ClosureInit, ClosureAssumption
<1> QED
  BY <1>1, <1>2, <1>3
  DEF CInv, StillFits, HasGrounds, OnItsWay, SpecClosedWithPlan

------------------------------------------------------------------------------
(* The steps of a closing.                                                  *)

LEMMA CloserKeeps ==
  ASSUME CInv, NEW c \in Closers,
         CloserStep(c) \/ Dies(c) \/ \E d \in Documents, skip \in BOOLEAN : Begins(c, d, skip)
  PROVE  CInv'
<1> DEFINE x == closer[c]
<1>0. x \in Closings /\ Doc(c) \in Documents
  BY ClosingFacts DEF CInv, Typed, Doc
<1>a. ASSUME NEW s \in OnItsWay, Goto(c, s), UNCHANGED <<status, history>>,
             x.step \in OnItsWay
      PROVE  CInv'
  <2>1. closer' = [closer EXCEPT ![c] = Changed(x, s)]
    BY <1>a DEF Goto, Changed
  <2>2. s \in Steps
    BY DEF Steps, OnItsWay
  <2>3. Fits(x.document) \/ x.overtaken
    BY <1>a DEF CInv, StillFits
  <2> DEFINE y == Changed(x, s)
  <2>4. y \in Closings /\ y.step = s /\ (Fits(y.document) \/ y.overtaken)
    BY <1>0, <2>2, <2>3, ClosingFacts DEF Fits
  <2>5. s \notin {"recording", "spec"}
    BY DEF OnItsWay
  <2> QED
    BY <1>a, <2>1, <2>4, <2>5, CloserGoesOn DEF Excused
<1>b. ASSUME Stop(c), UNCHANGED status, history \subseteq history' PROVE CInv'
  BY <1>b, ClosingFacts, CloserGoesOn DEF Stop, OnItsWay, Excused
<1>c. ASSUME NEW s \in {"syncing", "hooking", "tearing"}, Goto(c, s), UNCHANGED status,
             history \subseteq history'
      PROVE  CInv'
  <2>1. closer' = [closer EXCEPT ![c] = Changed(x, s)]
    BY <1>c DEF Goto, Changed
  <2>2. s \in Steps
    BY DEF Steps
  <2>3. Changed(x, s) \in Closings /\ Changed(x, s).step = s
    BY <1>0, <2>2, ClosingFacts
  <2>4. s \notin OnItsWay \cup {"recording", "spec"}
    BY DEF OnItsWay
  <2>5. Excused => Excused'
    BY <1>c DEF Excused
  <2> QED
    BY <1>c, <2>1, <2>3, <2>4, <2>5, CloserGoesOn
<1>d. ASSUME NEW d \in Documents, NEW s \in {"spec", "syncing"}, RecordClosure(c, d, s),
             d = "spec" => status["plan"] = CLOSED \/ Excused',
             s = "spec" => d = "plan" \/ Excused',
             history \subseteq history'
      PROVE  CInv'
  <2>1. closer' = [Overtaken(c, d) EXCEPT ![c] = Changed(x, s)]
    <3>1. closer' = [Overtaken(c, d) EXCEPT ![c].step = s]
      BY <1>d DEF RecordClosure
    <3>2. Overtaken(c, d)[c] = x
      BY OvertakenFacts DEF CInv
    <3> QED
      BY <3>1, <3>2 DEF Changed
  <2>2. s \in Steps
    BY DEF Steps
  <2>3. status' = [status EXCEPT ![d] = CLOSED]
    BY <1>d DEF RecordClosure
  <2>4. Changed(x, s) \in Closings /\ Changed(x, s).step = s
    BY <1>0, <2>2, ClosingFacts
  <2>5. s = "syncing" \/ (d = "plan" /\ s = "spec") \/ Excused'
    BY <1>d
  <2> QED
    BY <1>d, <2>1, <2>3, <2>4, <2>5, MachineFacts, CloserWrites DEF Excused, OnItsWay
<1>1. ASSUME NEW d \in Documents, NEW skip \in BOOLEAN, Begins(c, d, skip) PROVE CInv'
  <2>1. PICK s \in {"removing", "checking", "weighing"} :
          /\ closer' = [closer EXCEPT ![c] = Entered(d, skip, s)]
          /\ s # "weighing" => CLOSED \in Edges[status[d]]
    BY <1>1 DEF Begins, Enters, Entered
  <2>2. s # "weighing" => Fits(d)
    BY <1>1, <2>1, MachineFacts DEF CInv, Typed, Begins, Fits
  <2>3. s \in Steps
    BY DEF Steps
  <2>4. UNCHANGED <<status, history>>
    BY <1>1 DEF Begins, Untouched
  <2>5. Entered(d, skip, s) \in Closings /\ Entered(d, skip, s).step = s
         /\ Entered(d, skip, s).document = d
    BY <2>3, ClosingFacts
  <2>6. s \in OnItsWay => Fits(d)
    BY <2>2 DEF OnItsWay
  <2> QED
    BY <2>1, <2>4, <2>5, <2>6, CloserGoesOn DEF Excused
<1>2. ASSUME Weighs(c) PROVE CInv'
  <2>1. CASE Doc(c) = "spec" /\ Grounds(c)
    <3>1. closer' = [closer EXCEPT ![c] = Changed(x, "recording")]
      BY <1>2, <2>1 DEF Weighs, Goto, Changed
    <3>2. status["plan"] = CLOSED \/ Excused'
      BY <1>2, <2>1 DEF Weighs, Grounds, Excused
    <3>3. UNCHANGED status /\ history \subseteq history'
      BY <1>2, <2>1 DEF Weighs
    <3>4. Changed(x, "recording") \in Closings /\ Changed(x, "recording").step = "recording"
      BY <1>0, ClosingFacts DEF Steps
    <3> QED
      BY <3>1, <3>2, <3>3, <3>4, CloserGoesOn DEF Excused, OnItsWay
  <2>2. CASE ~(Doc(c) = "spec" /\ Grounds(c))
    BY <1>2, <2>2, <1>b DEF Weighs
  <2> QED
    BY <2>1, <2>2
<1>3. ASSUME Records(c) PROVE CInv'
  <2>1. status["plan"] = CLOSED \/ Excused
    BY <1>3 DEF Records, At, CInv, HasGrounds
  <2>2. RecordClosure(c, "spec", "syncing") /\ UNCHANGED history
    BY <1>3 DEF Records
  <2> QED
    BY <2>1, <2>2, <1>d, MachineFacts DEF Excused
<1>4. ASSUME ChecksTree(c) PROVE CInv'
  <2>1. UNCHANGED <<status, history>>
    BY <1>4 DEF ChecksTree, Untouched
  <2>2. x.step \in OnItsWay
    BY <1>4 DEF ChecksTree, At, OnItsWay
  <2> QED
    BY <1>4, <2>1, <2>2, <1>a, <1>b DEF ChecksTree, OnItsWay
<1>5. ASSUME Merges(c) PROVE CInv'
  BY <1>5, <1>a DEF Merges, At, OnItsWay
<1>6. ASSUME MergeFails(c) PROVE CInv'
  BY <1>6, <1>a DEF MergeFails, At, OnItsWay
<1>7. ASSUME RemovesWorktree(c) PROVE CInv'
  BY <1>7, <1>a DEF RemovesWorktree, At, OnItsWay
<1>8. ASSUME MarksConflict(c) PROVE CInv'
  <2>1. CASE CanMove(status[Doc(c)], "MERGE_CONFLICT")
    <3>1. status' = [status EXCEPT ![Doc(c)] = "MERGE_CONFLICT"]
      BY <1>8, <2>1 DEF MarksConflict
    <3>2. closer' = [Overtaken(c, Doc(c)) EXCEPT ![c] = Idle] /\ UNCHANGED history
      BY <1>8, <2>1 DEF MarksConflict
    <3>3. status[Doc(c)] # CLOSED
      BY <2>1, MachineFacts
    <3>4. Idle \in Closings /\ Idle.step \notin OnItsWay \cup {"recording", "spec"}
      BY ClosingFacts DEF OnItsWay
    <3>5. "MERGE_CONFLICT" \in ValidStatuses /\ "MERGE_CONFLICT" # CLOSED
      BY MachineFacts
    <3>6. Excused => Excused'
      BY <3>2 DEF Excused
    <3> QED
      BY <1>0, <3>1, <3>2, <3>3, <3>4, <3>5, <3>6, CloserWrites
  <2>2. CASE ~CanMove(status[Doc(c)], "MERGE_CONFLICT")
    BY <1>8, <2>2, <1>b DEF MarksConflict
  <2> QED
    BY <2>1, <2>2
<1>9. ASSUME MarksClosed(c) PROVE CInv'
  <2>1. RecordClosure(c, Doc(c), "spec") /\ history \subseteq history'
    BY <1>9 DEF MarksClosed
  <2>2. Doc(c) = "spec" => Excused'
    BY <1>9 DEF MarksClosed, Excused
  <2> QED
    BY <1>0, <2>1, <2>2, <1>d, MachineFacts
<1>10. ASSUME RefusedLate(c) PROVE CInv'
  BY <1>10, <1>b DEF RefusedLate, Untouched
<1>11. ASSUME ClosesSpec(c) PROVE CInv'
  <2>1. status["plan"] = CLOSED \/ Excused
    BY <1>11 DEF ClosesSpec, At, CInv, HasGrounds
  <2>2. history \subseteq history'
    BY <1>11 DEF ClosesSpec, NotWarned, Warned
  <2>3. CASE RecordClosure(c, "spec", "syncing")
    BY <2>1, <2>2, <2>3, <1>d, MachineFacts DEF Excused
  <2>4. CASE Goto(c, "syncing") /\ UNCHANGED status
    BY <2>2, <2>4, <1>c
  <2> QED
    BY <1>11, <2>3, <2>4 DEF ClosesSpec
<1>12. ASSUME SyncsBriefs(c) PROVE CInv'
  <2>1. UNCHANGED status /\ history \subseteq history'
    BY <1>12 DEF SyncsBriefs, NotWarned, Warned
  <2> QED
    BY <1>12, <2>1, <1>b, <1>c DEF SyncsBriefs
<1>13. ASSUME RunsHook(c) PROVE CInv'
  <2>1. UNCHANGED status /\ history \subseteq history'
    BY <1>13 DEF RunsHook, NotWarned, Warned
  <2> QED
    BY <1>13, <2>1, <1>c DEF RunsHook
<1>14. ASSUME TearsDown(c) PROVE CInv'
  <2>1. UNCHANGED status /\ history \subseteq history'
    BY <1>14 DEF TearsDown, NotWarned, Warned
  <2> QED
    BY <1>14, <2>1, <1>b DEF TearsDown
<1>15. ASSUME Dies(c) PROVE CInv'
  BY <1>15, <1>b DEF Dies
<1> QED
  BY <1>1, <1>2, <1>3, <1>4, <1>5, <1>6, <1>7, <1>8, <1>9, <1>10, <1>11, <1>12, <1>13,
     <1>14, <1>15 DEF CloserStep

------------------------------------------------------------------------------
(* Everybody else's steps.                                                  *)

\* A step that is no closing's leaves statuses and closings alone, or writes one status.
LEMMA OthersKeep ==
  ASSUME CInv, ClosureAssumption, RunNext \/ HumanNext
  PROVE  CInv'
<1>a. ASSUME NEW d \in Documents, NEW new, WriteStatus(d, new), new \in ValidStatuses,
             new # CLOSED, history \subseteq history',
             d = "plan" /\ status["plan"] = CLOSED => "redrafted" \in history'
      PROVE  CInv'
  BY <1>a, OthersWrite, MachineFacts DEF WriteStatus, Excused
<1>b. ASSUME UNCHANGED <<status, closer, history>> PROVE CInv'
  BY <1>b, NothingSaid DEF Excused
<1>c. ASSUME NEW d \in Documents, NEW new, RecordsRun(d, new), new # CLOSED,
             UNCHANGED history
      PROVE  CInv'
  <2>1. CASE CanMove(status[d], new)
    BY <1>c, <2>1, <1>a, MachineFacts DEF RecordsRun
  <2>2. CASE ~CanMove(status[d], new)
    BY <1>c, <2>2, <1>b DEF RecordsRun
  <2> QED
    BY <2>1, <2>2
<1>1. CASE DispatchesExecutor
  <2>1. WriteStatus("plan", "EXECUTING") /\ status["plan"] # CLOSED /\ UNCHANGED history
    BY <1>1, MachineFacts DEF DispatchesExecutor
  <2>2. "plan" \in Documents /\ "EXECUTING" \in ValidStatuses /\ "EXECUTING" # CLOSED
    BY MachineFacts DEF CLOSED
  <2> QED
    BY <2>1, <2>2, <1>a
<1>2. CASE DispatchesPlanner
  <2>1. WriteStatus("spec", "PLANNING") /\ UNCHANGED history
    BY <1>2 DEF DispatchesPlanner
  <2>2. "spec" \in Documents /\ "PLANNING" \in ValidStatuses /\ "PLANNING" # CLOSED
    BY MachineFacts DEF CLOSED
  <2> QED
    BY <2>1, <2>2, <1>a
<1>3. CASE RunEnds
  <2>1. UNCHANGED history
    BY <1>3 DEF RunEnds
  <2>2. \/ UNCHANGED <<status, closer>>
        \/ RecordsRun("plan", "EXECUTION_COMPLETE") \/ RecordsRun("plan", "PLAN_APPROVED")
        \/ RecordsRun("spec", "SPEC_APPROVED") \/ RecordsRun("spec", "PLAN_GENERATED")
    BY <1>3 DEF RunEnds
  <2>3. CLOSED \notin {"EXECUTION_COMPLETE", "PLAN_APPROVED", "SPEC_APPROVED",
                      "PLAN_GENERATED"}
    BY DEF CLOSED
  <2> QED
    BY <2>1, <2>2, <2>3, <1>b, <1>c DEF Documents
<1>4. CASE AgentEdits \/ AgentCommits \/ AgentStops
  BY <1>4, <1>b DEF AgentEdits, AgentCommits, AgentStops
<1>5. CASE AgentDrafts
  <2>1. WriteStatus("plan", ProducedStatus) /\ history \subseteq history'
    BY <1>5 DEF AgentDrafts
  <2>2. status["plan"] = CLOSED => "redrafted" \in history'
    BY <1>5 DEF AgentDrafts, Documents
  <2>3. ProducedStatus \in ValidStatuses /\ ProducedStatus # CLOSED /\ "plan" \in Documents
    BY MachineFacts DEF ProducedStatus, CLOSED
  <2> QED
    BY <2>1, <2>2, <2>3, <1>a
<1>6. ASSUME NEW d \in Documents, NEW new \in ValidStatuses, SetStatus(d, new) PROVE CInv'
  BY <1>6, <1>a, MachineFacts DEF SetStatus
<1>7. CASE TidiesUp \/ AbortsMerge \/ DeletesBranch
  BY <1>7, <1>b DEF TidiesUp, AbortsMerge, DeletesBranch
<1> QED
  BY <1>1, <1>2, <1>3, <1>4, <1>5, <1>6, <1>7 DEF RunNext, HumanNext

LEMMA CInvStep == CInv /\ ClosureAssumption /\ [ClosureNext]_closureVars => CInv'
<1>1. ASSUME CInv, UNCHANGED closureVars PROVE CInv'
  BY <1>1, NothingSaid DEF closureVars, Excused
<1> QED
  BY <1>1, CloserKeeps, OthersKeep DEF ClosureNext

LEMMA CInvHolds == ClosureSpec => []CInv
BY ClosureAssumption, CInvInit, CInvStep, PTL DEF ClosureSpec

------------------------------------------------------------------------------
(* The theorems.                                                            *)

\* A spec says closed only beside a closed plan, or on a human's word.
THEOREM SpecFollowsPlan == ClosureSpec => []SpecClosedWithPlan
BY CInvHolds, PTL DEF CInv

\* A merged branch is refused its closing only when somebody moved the document.
THEOREM ChecksComeFirst == ClosureSpec => RefusedBeforeMerging
<1>1. CInv => \A c \in Closers : RefusedLate(c) => closer[c].overtaken
  BY DEF CInv, StillFits, Fits, RefusedLate, At, Doc, OnItsWay
<1> QED
  BY <1>1, CInvHolds, PTL DEF RefusedBeforeMerging

\* A status that is "closed" is written over by a drafting agent alone.
LEMMA ClosedStays ==
  ASSUME CInv, ClosureNext, NEW e \in Documents, status[e] = CLOSED,
         "redrafted" \notin history'
  PROVE  status'[e] = CLOSED
<1>a. ASSUME NEW d \in Documents, NEW new, status' = [status EXCEPT ![d] = new],
             d = e => new = CLOSED
      PROVE  status'[e] = CLOSED
  BY <1>a DEF CInv, Typed
<1>b. ASSUME UNCHANGED status PROVE status'[e] = CLOSED
  BY <1>b
<1>c. ASSUME NEW d \in Documents, NEW new, RecordsRun(d, new) PROVE status'[e] = CLOSED
  <2>1. CASE CanMove(status[d], new)
    BY <1>c, <2>1, <1>a, MachineFacts DEF RecordsRun, WriteStatus
  <2>2. CASE ~CanMove(status[d], new)
    BY <1>c, <2>2 DEF RecordsRun
  <2> QED
    BY <2>1, <2>2
<1>1. ASSUME NEW c \in Closers, NEW d \in Documents, NEW skip \in BOOLEAN, Begins(c, d, skip)
      PROVE  status'[e] = CLOSED
  BY <1>1 DEF Begins, Untouched
<1>2. ASSUME NEW c \in Closers, CloserStep(c) \/ Dies(c) PROVE status'[e] = CLOSED
  <2>0. Doc(c) \in Documents /\ "spec" \in Documents
    BY ClosingFacts, MachineFacts DEF CInv, Typed, Doc
  <2>1. CASE Records(c) \/ MarksClosed(c) \/ ClosesSpec(c)
    <3>1. \/ UNCHANGED status
          \/ \E d \in Documents : status' = [status EXCEPT ![d] = CLOSED]
      BY <2>0, <2>1 DEF Records, MarksClosed, ClosesSpec, RecordClosure
    <3> QED
      BY <3>1, <1>a
  <2>2. CASE MarksConflict(c)
    <3>1. CASE CanMove(status[Doc(c)], "MERGE_CONFLICT")
      <4>1. Doc(c) # e
        BY <3>1, MachineFacts
      <4> QED
        BY <2>0, <2>2, <3>1, <4>1, <1>a DEF MarksConflict
    <3>2. CASE ~CanMove(status[Doc(c)], "MERGE_CONFLICT")
      BY <2>2, <3>2 DEF MarksConflict
    <3> QED
      BY <3>1, <3>2
  <2>3. CASE Weighs(c) \/ ChecksTree(c) \/ Merges(c) \/ MergeFails(c) \/ RemovesWorktree(c)
             \/ RefusedLate(c)
    BY <2>3 DEF Weighs, ChecksTree, Merges, MergeFails, RemovesWorktree, RefusedLate,
                Untouched
  <2>4. CASE SyncsBriefs(c) \/ RunsHook(c) \/ TearsDown(c) \/ Dies(c)
    BY <2>4 DEF SyncsBriefs, RunsHook, TearsDown, Dies
  <2> QED
    BY <1>2, <2>1, <2>2, <2>3, <2>4 DEF CloserStep
<1>3. CASE RunNext
  <2>1. CASE DispatchesExecutor
    BY <2>1, <1>a, MachineFacts DEF DispatchesExecutor, WriteStatus
  <2>2. CASE DispatchesPlanner
    BY <2>2, <1>a, MachineFacts DEF DispatchesPlanner, WriteStatus
  <2>3. CASE RunEnds
    <3>1. \/ UNCHANGED status
          \/ \E d \in Documents, new \in ValidStatuses : RecordsRun(d, new)
      BY <2>3, MachineFacts DEF RunEnds
    <3> QED
      BY <3>1, <1>c
  <2>4. CASE AgentEdits \/ AgentCommits \/ AgentStops
    BY <2>4 DEF AgentEdits, AgentCommits, AgentStops
  <2>5. CASE AgentDrafts
    <3>1. "redrafted" \in history'
      BY <2>5 DEF AgentDrafts
    <3> QED
      BY <3>1
  <2> QED
    BY <1>3, <2>1, <2>2, <2>3, <2>4, <2>5 DEF RunNext
<1>4. CASE HumanNext
  <2>1. ASSUME NEW d \in Documents, NEW new \in ValidStatuses, SetStatus(d, new)
        PROVE  status'[e] = CLOSED
    BY <2>1, <1>a, MachineFacts DEF SetStatus, WriteStatus
  <2>2. CASE TidiesUp \/ AbortsMerge \/ DeletesBranch
    BY <2>2 DEF TidiesUp, AbortsMerge, DeletesBranch
  <2> QED
    BY <1>4, <2>1, <2>2 DEF HumanNext
<1> QED
  BY <1>1, <1>2, <1>3, <1>4 DEF ClosureNext

\* A plan comes to be by drafting alone.
LEMMA NoPlanStays ==
  ASSUME CInv, ClosureNext, status["plan"] = NoDocument, status["spec"] = CLOSED,
         "redrafted" \notin history'
  PROVE  status'["plan"] = NoDocument
<1>a. ASSUME NEW d \in Documents, NEW new, status' = [status EXCEPT ![d] = new],
             status[d] # NoDocument
      PROVE  status'["plan"] = NoDocument
  BY <1>a, MachineFacts DEF CInv, Typed
<1>c. ASSUME NEW d \in Documents, NEW new, RecordsRun(d, new)
      PROVE  status'["plan"] = NoDocument
  <2>1. CASE CanMove(status[d], new)
    BY <1>c, <2>1, <1>a, MachineFacts DEF RecordsRun, WriteStatus
  <2>2. CASE ~CanMove(status[d], new)
    BY <1>c, <2>2 DEF RecordsRun
  <2> QED
    BY <2>1, <2>2
<1>1. ASSUME NEW c \in Closers, NEW d \in Documents, NEW skip \in BOOLEAN, Begins(c, d, skip)
      PROVE  status'["plan"] = NoDocument
  BY <1>1 DEF Begins, Untouched
<1>2. ASSUME NEW c \in Closers, CloserStep(c) \/ Dies(c)
      PROVE  status'["plan"] = NoDocument
  <2>0. Doc(c) \in Documents /\ "spec" \in Documents
    BY ClosingFacts, MachineFacts DEF CInv, Typed, Doc
  <2>1. CASE Records(c) \/ ClosesSpec(c)
    <3>1. UNCHANGED status \/ status' = [status EXCEPT !["spec"] = CLOSED]
      BY <2>1 DEF Records, ClosesSpec, RecordClosure
    <3> QED
      BY <2>0, <3>1, <1>a, MachineFacts
  <2>2. CASE MarksClosed(c)
    BY <2>0, <2>2, <1>a, MachineFacts DEF MarksClosed, RecordClosure
  <2>3. CASE MarksConflict(c)
    <3>1. UNCHANGED status
          \/ /\ CanMove(status[Doc(c)], "MERGE_CONFLICT")
             /\ status' = [status EXCEPT ![Doc(c)] = "MERGE_CONFLICT"]
      BY <2>3 DEF MarksConflict
    <3> QED
      BY <2>0, <3>1, <1>a, MachineFacts
  <2>4. CASE Weighs(c) \/ ChecksTree(c) \/ Merges(c) \/ MergeFails(c) \/ RemovesWorktree(c)
             \/ RefusedLate(c)
    BY <2>4 DEF Weighs, ChecksTree, Merges, MergeFails, RemovesWorktree, RefusedLate,
                Untouched
  <2>5. CASE SyncsBriefs(c) \/ RunsHook(c) \/ TearsDown(c) \/ Dies(c)
    BY <2>5 DEF SyncsBriefs, RunsHook, TearsDown, Dies
  <2> QED
    BY <1>2, <2>1, <2>2, <2>3, <2>4, <2>5 DEF CloserStep
<1>3. CASE RunNext
  <2>1. ~DispatchesExecutor /\ ~DispatchesPlanner
    BY MachineFacts DEF DispatchesExecutor, DispatchesPlanner, NoDocument
  <2>2. CASE RunEnds
    <3>1. \/ UNCHANGED status
          \/ \E d \in Documents, new \in ValidStatuses : RecordsRun(d, new)
      BY <2>2, MachineFacts DEF RunEnds
    <3> QED
      BY <3>1, <1>c
  <2>3. CASE AgentEdits \/ AgentCommits \/ AgentStops
    BY <2>3 DEF AgentEdits, AgentCommits, AgentStops
  <2>4. CASE AgentDrafts
    <3>1. "redrafted" \in history'
      BY <2>4, MachineFacts DEF AgentDrafts
    <3> QED
      BY <3>1
  <2> QED
    BY <1>3, <2>1, <2>2, <2>3, <2>4 DEF RunNext
<1>4. CASE HumanNext
  <2>1. ASSUME NEW d \in Documents, NEW new \in ValidStatuses, SetStatus(d, new)
        PROVE  status'["plan"] = NoDocument
    BY <2>1, <1>a, MachineFacts DEF SetStatus, WriteStatus
  <2>2. CASE TidiesUp \/ AbortsMerge \/ DeletesBranch
    BY <2>2 DEF TidiesUp, AbortsMerge, DeletesBranch
  <2> QED
    BY <1>4, <2>1, <2>2 DEF HumanNext
<1> QED
  BY <1>1, <1>2, <1>3, <1>4 DEF ClosureNext

\* What a dependent slice was told stays true, until an agent drafts a plan over it.
THEOREM DependencyIsKept == ClosureSpec => DependencyStaysMet
<1>1. ASSUME CInv, [ClosureNext]_closureVars, DependencyMet, "redrafted" \notin history'
      PROVE  DependencyMet'
  <2>1. CASE UNCHANGED closureVars
    BY <1>1, <2>1 DEF closureVars, DependencyMet
  <2>2. CASE ClosureNext /\ status["plan"] # NoDocument
    BY <1>1, <2>2, ClosedStays, MachineFacts DEF DependencyMet
  <2>3. CASE ClosureNext /\ status["plan"] = NoDocument
    BY <1>1, <2>3, ClosedStays, NoPlanStays, MachineFacts DEF DependencyMet
  <2> QED
    BY <1>1, <2>1, <2>2, <2>3
<1>2. CInv /\ [ClosureNext]_closureVars =>
        [DependencyMet => DependencyMet' \/ "redrafted" \in history']_closureVars
  BY <1>1
<1> QED
  BY <1>2, CInvHolds, PTL DEF ClosureSpec, DependencyStaysMet

------------------------------------------------------------------------------
(* The rest of the type invariant.                                          *)

Rest ==
  /\ branch \in Branches
  /\ branch.merged <= branch.commits
  /\ tree \in {"clean", "dirty", "conflicted"}
  /\ worktree \in BOOLEAN /\ unsaved \in BOOLEAN /\ stack \in BOOLEAN
  /\ unsaved => worktree
  /\ run \in Roles \cup {"none"} /\ agent \in Roles \cup {"none"}
  /\ done \subseteq {"listed", "hooked"}
  /\ moves \in 0..MaxMoves /\ failures \in 0..MaxFailures
  /\ history \subseteq Events

\* Every change of the branch, and what it may be.
LEMMA BranchFacts ==
  ASSUME ClosureAssumption, branch \in Branches, branch.merged <= branch.commits
  PROVE  /\ [branch EXCEPT !.merged = branch.commits] \in Branches
         /\ [branch EXCEPT !.merged = branch.commits].merged
              <= [branch EXCEPT !.merged = branch.commits].commits
         /\ \A e \in BOOLEAN : /\ [branch EXCEPT !.exists = e] \in Branches
                              /\ [branch EXCEPT !.exists = e].merged
                                   <= [branch EXCEPT !.exists = e].commits
         /\ [branch EXCEPT !.complete = branch.commits] \in Branches
         /\ [branch EXCEPT !.complete = branch.commits].merged
              <= [branch EXCEPT !.complete = branch.commits].commits
         /\ branch.commits < MaxCommits =>
              /\ [branch EXCEPT !.commits = @ + 1] \in Branches
              /\ [branch EXCEPT !.commits = @ + 1].merged
                   <= [branch EXCEPT !.commits = @ + 1].commits
BY DEF ClosureAssumption, Branches

\* What counts up, and the histories.
LEMMA CountFacts ==
  ASSUME Rest
  PROVE  /\ Warned => failures' \in 0..MaxFailures /\ history' \subseteq Events
         /\ NotWarned => failures' = failures /\ history' = history
         /\ Moves => moves' \in 0..MaxMoves
         /\ failures < MaxFailures => failures + 1 \in 0..MaxFailures
<1>1. MaxMoves \in Nat /\ MaxFailures \in Nat /\ moves \in 0..MaxMoves /\ failures \in 0..MaxFailures
  BY ClosureAssumption DEF ClosureAssumption, Rest
<1>2. Warned => failures' \in 0..MaxFailures
  <2>1. Warned => failures < MaxFailures /\ failures' = failures + 1
    BY DEF Warned
  <2> QED
    BY <1>1, <2>1
<1>3. Warned => history' \subseteq Events
  BY DEF Warned, Rest, Events
<1>4. Moves => moves' \in 0..MaxMoves
  BY <1>1 DEF Moves
<1> QED
  BY <1>1, <1>2, <1>3, <1>4 DEF NotWarned

LEMMA RestInit == ClosureInit => Rest
<1> SUFFICES ASSUME ClosureInit PROVE Rest
  OBVIOUS
<1>1. PICK s \in Slices :
        /\ branch = s.branch /\ worktree = s.branch.exists
        /\ stack = s.branch.exists /\ run = s.run /\ agent = s.run
  BY DEF ClosureInit
<1>2. s.branch \in Branches /\ s.branch.merged = 0 /\ s.run \in Roles \cup {"none"}
  BY ClosureAssumption DEF ClosureAssumption
<1>3. branch.exists \in BOOLEAN /\ branch.commits \in Nat
  BY <1>1, <1>2, ClosureAssumption DEF ClosureAssumption, Branches
<1>4. 0 \in 0..MaxMoves /\ 0 \in 0..MaxFailures
  BY ClosureAssumption DEF ClosureAssumption
<1>5. moves = 0 /\ failures = 0 /\ history = {} /\ done = {} /\ tree = "clean" /\ unsaved = FALSE
  BY DEF ClosureInit
<1>6. branch.merged <= branch.commits
  BY <1>1, <1>2, <1>3
<1> QED
  BY <1>1, <1>2, <1>3, <1>4, <1>5, <1>6 DEF Rest

LEMMA RestStep ==
  ASSUME Rest, [ClosureNext]_closureVars
  PROVE  Rest'
<1> USE ClosureAssumption, BranchFacts, CountFacts DEF Rest, Dirtied
<1>0. CASE UNCHANGED closureVars
  BY <1>0 DEF closureVars
<1>b. ASSUME NEW c \in Closers, NEW d \in Documents, NEW skip \in BOOLEAN, Begins(c, d, skip)
      PROVE  Rest'
  BY <1>b DEF Begins, Untouched, FromThere
<1>c. ASSUME NEW c \in Closers, CloserStep(c) \/ Dies(c) PROVE Rest'
  <2>1. CASE Weighs(c)
    BY <2>1 DEF Weighs, RecordClosure, Untouched, FromThere, Events
  <2>2. CASE Records(c)
    BY <2>2 DEF Records, RecordClosure, Untouched, FromThere, Events
  <2>3. CASE ChecksTree(c)
    BY <2>3 DEF ChecksTree, RecordClosure, Untouched, FromThere, Events
  <2>4. CASE Merges(c)
    BY <2>4 DEF Merges, RecordClosure, Untouched, FromThere, Events
  <2>5. CASE MergeFails(c)
    BY <2>5 DEF MergeFails, RecordClosure, Untouched, FromThere, Events
  <2>6. CASE RemovesWorktree(c)
    <3>1. UNCHANGED <<branch, tree, stack, done, history, FromThere>>
      BY <2>6 DEF RemovesWorktree
    <3>2. /\ worktree' \in BOOLEAN /\ unsaved' \in BOOLEAN
          /\ unsaved' => worktree'
      <4>1. CASE worktree' = FALSE /\ unsaved' = FALSE
        BY <4>1
      <4>2. CASE UNCHANGED <<worktree, unsaved>>
        BY <4>2
      <4> QED
        BY <2>6, <4>1, <4>2 DEF RemovesWorktree
    <3> QED
      BY <3>1, <3>2 DEF FromThere
  <2>7. CASE MarksConflict(c)
    BY <2>7 DEF MarksConflict, RecordClosure, Untouched, FromThere, Events
  <2>8. CASE MarksClosed(c)
    BY <2>8 DEF MarksClosed, RecordClosure, Untouched, FromThere, Events
  <2>9. CASE RefusedLate(c)
    BY <2>9 DEF RefusedLate, RecordClosure, Untouched, FromThere, Events
  <2>10. CASE ClosesSpec(c)
    BY <2>10 DEF ClosesSpec, RecordClosure, Untouched, FromThere, Events
  <2>11. CASE SyncsBriefs(c)
    BY <2>11 DEF SyncsBriefs, RecordClosure, Untouched, FromThere, Events
  <2>12. CASE RunsHook(c)
    BY <2>12 DEF RunsHook, RecordClosure, Untouched, FromThere, Events
  <2>13. CASE TearsDown(c)
    BY <2>13 DEF TearsDown, RecordClosure, Untouched, FromThere, Events
  <2>14. CASE Dies(c)
    BY <2>14 DEF Dies, RecordClosure, Untouched, FromThere, Events
  <2> QED
    BY <1>c, <2>1, <2>2, <2>3, <2>4, <2>5, <2>6, <2>7, <2>8, <2>9, <2>10, <2>11, <2>12, <2>13, <2>14
    DEF CloserStep
<1>1. CASE DispatchesExecutor
  BY <1>1 DEF DispatchesExecutor, WriteStatus, RecordsRun, Events, Roles
<1>2. CASE DispatchesPlanner
  BY <1>2 DEF DispatchesPlanner, WriteStatus, RecordsRun, Events, Roles
<1>3. CASE AgentEdits
  BY <1>3 DEF AgentEdits, WriteStatus, RecordsRun, Events, Roles
<1>4. CASE AgentCommits
  BY <1>4 DEF AgentCommits, WriteStatus, RecordsRun, Events, Roles
<1>5. CASE AgentDrafts
  BY <1>5 DEF AgentDrafts, WriteStatus, RecordsRun, Events, Roles
<1>6. CASE AgentStops
  BY <1>6 DEF AgentStops, WriteStatus, RecordsRun, Events, Roles
<1>7. CASE RunEnds
  BY <1>7 DEF RunEnds, WriteStatus, RecordsRun, Events, Roles
<1>8. CASE TidiesUp
  BY <1>8 DEF TidiesUp, WriteStatus, RecordsRun, Events, Roles
<1>9. CASE AbortsMerge
  BY <1>9 DEF AbortsMerge, WriteStatus, RecordsRun, Events, Roles
<1>10. CASE DeletesBranch
  BY <1>10 DEF DeletesBranch, WriteStatus, RecordsRun, Events, Roles
<1>11. ASSUME NEW d \in Documents, NEW new \in ValidStatuses, SetStatus(d, new) PROVE Rest'
  BY <1>11 DEF SetStatus, WriteStatus
<1> QED
  BY <1>0, <1>b, <1>c, <1>1, <1>2, <1>3, <1>4, <1>5, <1>6, <1>7, <1>8, <1>9, <1>10, <1>11
  DEF ClosureNext, RunNext, HumanNext

\* Whatever order closings, runs and humans go in, nothing is ever recorded of a slice that
\* its tables do not know, and no more is merged than there is (ClosureTypeOK).
THEOREM ClosureTypeCorrect == ClosureSpec => []ClosureTypeOK
<1>1. Rest /\ [ClosureNext]_closureVars => Rest'
  BY RestStep
<1>2. Rest /\ CInv => ClosureTypeOK
  BY DEF Rest, CInv, Typed, ClosureTypeOK
<1> QED
  BY <1>1, <1>2, RestInit, CInvHolds, PTL DEF ClosureSpec

------------------------------------------------------------------------------
(* What one step may do to a closing, to a document, and to the rest.       *)

\* What one step may do to one closing.
CutShort == "cut short" \in history

Way(c, s) ==
  \/ At(c, "weighing") /\ s = "recording"
  \/ At(c, "recording") /\ s = "syncing"
  \/ At(c, "checking") /\ s = "merging"
  \/ At(c, "merging") /\ s = "removing" /\ branch' = [branch EXCEPT !.merged = branch.commits]
  \/ At(c, "merging") /\ s = "conflict"
  \/ At(c, "removing") /\ s = "marking"
  \/ At(c, "marking") /\ s = "spec"
  \/ At(c, "spec") /\ s = "syncing" /\ (CutShort' \/ status'["spec"] \in {CLOSED, NoDocument})
  \/ At(c, "syncing") /\ s = "hooking" /\ Doc(c) # "spec" /\ (CutShort' \/ "listed" \in done')
  \/ At(c, "hooking") /\ s = "tearing" /\ (CutShort' \/ "hooked" \in done')

StartsOut(c) ==
  /\ At(c, "idle")
  /\ \E d \in Documents, skip \in BOOLEAN, s \in {"weighing", "checking", "removing"} :
       /\ closer'[c] = Entered(d, skip, s) /\ status' = status
       /\ s # "weighing" => status[d] # NoDocument /\ CLOSED \in Edges[status[d]]
       /\ s = "removing" => skip

Leaves(c) ==
  /\ closer'[c] = Idle
  /\ \/ closer[c].step \notin Tail \/ CutShort'
     \/ At(c, "syncing") /\ Doc(c) = "spec" /\ "listed" \in done'
     \/ At(c, "tearing") /\ ~stack'

CloserMove(c) ==
  \/ closer'[c] = closer[c] \/ closer'[c] = Late(closer[c])
  \/ StartsOut(c) \/ Leaves(c)
  \/ \E s \in Steps : closer'[c] = Changed(closer[c], s) /\ Way(c, s)

\* What one step may do to a document.
DocumentMove(d) ==
  \/ status'[d] = status[d]
  \/ /\ status'[d] = CLOSED
     /\ d = "plan" => \E c \in Closers : /\ At(c, "marking") /\ Doc(c) = "plan"
                                         /\ closer'[c] = Changed(closer[c], "spec")
  \/ /\ status'[d] = "MERGE_CONFLICT" /\ CanMove(status[d], "MERGE_CONFLICT")
     /\ \E c \in Closers : At(c, "conflict") /\ Doc(c) = d
  \/ d = "plan" /\ status'[d] = ProducedStatus /\ agent = "planner"
  \/ d = "plan" /\ status[d] = "PLAN_APPROVED" /\ status'[d] = "EXECUTING"
  \/ d = "spec" /\ status[d] = "SPEC_APPROVED" /\ status'[d] = "PLANNING"
  \/ /\ d = "plan" /\ run = "executor" /\ run' = "none" /\ CanMove(status[d], status'[d])
     /\ status'[d] \in {"EXECUTION_COMPLETE", "PLAN_APPROVED"}
  \/ /\ d = "spec" /\ run = "planner" /\ CanMove(status[d], status'[d])
     /\ status'[d] \in {"SPEC_APPROVED", "PLAN_GENERATED"}
  \/ moves' > moves /\ CanMove(status[d], status'[d]) /\ status'[d] # CLOSED

\* What one step may do to everything else.
RunMove ==
  \/ run' \in {run, "none"} /\ agent' \in {agent, "none"}
  \/ /\ run = "none" /\ agent = "none" /\ run' = "executor" /\ agent' = "executor"
     /\ status["plan"] = "PLAN_APPROVED" /\ status'["plan"] = "EXECUTING"
  \/ run' = "planner" /\ agent' = "planner"

\* The branch gets more commits, merged ones among them; or is said to be complete, and
\* that overtakes whoever is closing the plan.
BranchMove ==
  \/ /\ branch'.complete = branch.complete /\ branch'.commits >= branch.commits
     /\ branch'.merged >= branch.merged
  \/ /\ branch' = [branch EXCEPT !.complete = branch.commits]
     /\ \A c \in Closers : At(c, "idle") \/ Doc(c) # "plan" \/ closer'[c].overtaken

OtherMoves ==
  /\ RunMove /\ BranchMove
  /\ done \subseteq done' /\ history \subseteq history' /\ moves' >= moves
  /\ stack' => stack \/ status'["plan"] = "EXECUTING"
  /\ unsaved /\ ~unsaved' => worktree' \/ \E c \in Closers : At(c, "removing")

LEMMA CloserMoves ==
  ASSUME CInv, ClosureNext \/ UNCHANGED closureVars, NEW e \in Closers
  PROVE  CloserMove(e)
<1> USE ClosureAssumption DEF CInv, Typed, CloserMove, Closings
<1>0. CASE UNCHANGED closer
  BY <1>0
<1>1. ASSUME NEW who, NEW d, closer' = Overtaken(who, d) PROVE CloserMove(e)
  BY <1>1 DEF Overtaken, Late
<1>2. ASSUME NEW c \in Closers, NEW d \in Documents, NEW skip \in BOOLEAN, Begins(c, d, skip)
      PROVE  CloserMove(e)
  <2>1. CASE e # c
    BY <1>2, <2>1 DEF Begins, Enters
  <2>2. CASE e = c
    <3>1. \E s \in {"weighing", "checking", "removing"} :
            /\ closer' = [closer EXCEPT ![c] = Entered(d, skip, s)]
            /\ s # "weighing" => status[d] # NoDocument /\ CLOSED \in Edges[status[d]]
            /\ s = "removing" => skip
      BY <1>2 DEF Begins, Enters, Entered
    <3>2. status' = status /\ At(c, "idle")
      BY <1>2 DEF Begins, Untouched
    <3> QED
      BY <2>2, <3>1, <3>2 DEF StartsOut
  <2> QED
    BY <2>1, <2>2
<1>3. ASSUME NEW c \in Closers, NEW s \in Steps, Goto(c, s), Way(c, s) PROVE CloserMove(e)
  BY <1>3 DEF Goto, Changed
<1>4. ASSUME NEW c \in Closers, Stop(c), Leaves(c) \/ closer[c].step \notin Tail
      PROVE  CloserMove(e)
  BY <1>4 DEF Stop, Leaves
<1>5. ASSUME NEW c \in Closers, NEW d, NEW s \in Steps, RecordClosure(c, d, s), Way(c, s)
      PROVE  CloserMove(e)
  <2>1. closer' = [Overtaken(c, d) EXCEPT ![c] = Changed(closer[c], s)]
    BY <1>5 DEF RecordClosure, Overtaken, Changed
  <2>2. CASE e # c
    BY <2>1, <2>2 DEF Overtaken, Late
  <2>3. CASE e = c
    BY <1>5, <2>1, <2>3 DEF Overtaken
  <2> QED
    BY <2>2, <2>3
<1>s. {"recording", "syncing", "merging", "removing", "conflict", "marking", "spec",
       "hooking", "tearing"} \subseteq Steps
  BY DEF Steps
<1>6. ASSUME NEW c \in Closers, CloserStep(c) \/ Dies(c) PROVE CloserMove(e)
  <2> USE <1>s DEF At, Tail
  <2>1. CASE Weighs(c)
    BY <1>3, <1>4, <2>1 DEF Weighs, Way
  <2>2. CASE Records(c)
    BY <1>5, <2>2 DEF Records, Way
  <2>3. CASE ChecksTree(c)
    BY <1>3, <1>4, <2>3 DEF ChecksTree, Way
  <2>4. CASE Merges(c)
    BY <1>3, <2>4 DEF Merges, Way
  <2>5. CASE MergeFails(c)
    BY <1>3, <2>5 DEF MergeFails, Way
  <2>6. CASE RemovesWorktree(c)
    BY <1>3, <2>6 DEF RemovesWorktree, Way
  <2>7. CASE MarksConflict(c)
    <3>1. CASE closer' = [Overtaken(c, Doc(c)) EXCEPT ![c] = Idle]
      <4>1. CASE e # c
        BY <3>1, <4>1 DEF Overtaken, Late
      <4>2. CASE e = c
        BY <2>7, <3>1, <4>2 DEF Overtaken, Leaves, MarksConflict
      <4> QED
        BY <4>1, <4>2
    <3>2. CASE Stop(c)
      BY <1>4, <2>7, <3>2 DEF MarksConflict
    <3> QED
      BY <2>7, <3>1, <3>2 DEF MarksConflict
  <2>8. CASE MarksClosed(c)
    BY <1>5, <2>8 DEF MarksClosed, Way
  <2>9. CASE RefusedLate(c)
    BY <1>4, <2>9 DEF RefusedLate
  <2>10. CASE ClosesSpec(c)
    <3>1. CASE RecordClosure(c, "spec", "syncing")
      <4>1. status'["spec"] = CLOSED
        BY <3>1, MachineFacts DEF RecordClosure
      <4> QED
        BY <1>5, <2>10, <3>1, <4>1 DEF ClosesSpec, Way
    <3>2. CASE Goto(c, "syncing") /\ status["spec"] = NoDocument /\ UNCHANGED status
      BY <1>3, <2>10, <3>2 DEF ClosesSpec, Way
    <3>3. CASE Goto(c, "syncing") /\ Warned
      BY <1>3, <2>10, <3>3 DEF ClosesSpec, Way, Warned, CutShort
    <3> QED
      BY <2>10, <3>1, <3>2, <3>3 DEF ClosesSpec
  <2>11. CASE SyncsBriefs(c)
    <3>1. CutShort' \/ "listed" \in done'
      BY <2>11 DEF SyncsBriefs, Warned, CutShort
    <3>2. CASE Doc(c) = "spec"
      BY <1>4, <2>11, <3>1, <3>2 DEF SyncsBriefs, Stop, Leaves
    <3>3. CASE Doc(c) # "spec"
      BY <1>3, <2>11, <3>1, <3>3 DEF SyncsBriefs, Way
    <3> QED
      BY <3>2, <3>3
  <2>12. CASE RunsHook(c)
    <3>1. CutShort' \/ "hooked" \in done'
      BY <2>12 DEF RunsHook, Warned, CutShort
    <3> QED
      BY <1>3, <2>12, <3>1 DEF RunsHook, Way
  <2>13. CASE TearsDown(c)
    <3>1. CutShort' \/ ~stack'
      BY <2>13 DEF TearsDown, Warned, CutShort
    <3> QED
      BY <1>4, <2>13, <3>1 DEF TearsDown, Stop, Leaves
  <2>14. CASE Dies(c)
    <3>1. closer[c].step \notin Tail \/ CutShort'
      BY <2>14 DEF Dies, CutShort
    <3> QED
      BY <1>4, <2>14, <3>1 DEF Dies, Stop, Leaves
  <2> QED
    BY <1>6, <2>1, <2>2, <2>3, <2>4, <2>5, <2>6, <2>7, <2>8, <2>9, <2>10, <2>11, <2>12,
       <2>13, <2>14 DEF CloserStep
<1>7. CASE RunNext \/ HumanNext
  <2>1. UNCHANGED closer \/ \E d \in Documents : closer' = Overtaken(Nobody, d)
    BY <1>7 DEF RunNext, HumanNext, DispatchesExecutor, DispatchesPlanner, RunEnds,
                AgentEdits, AgentCommits, AgentDrafts, AgentStops, SetStatus, TidiesUp,
                AbortsMerge, DeletesBranch, WriteStatus, RecordsRun, Documents
  <2> QED
    BY <1>0, <1>1, <2>1
<1>8. CASE UNCHANGED closureVars
  BY <1>0, <1>8 DEF closureVars
<1> QED
  BY <1>2, <1>6, <1>7, <1>8 DEF ClosureNext

LEMMA DocumentMoves ==
  ASSUME CInv, Rest, ClosureNext \/ UNCHANGED closureVars, NEW e \in Documents
  PROVE  DocumentMove(e)
<1> USE DEF CInv, Typed, DocumentMove
<1>0. CASE UNCHANGED status
  BY <1>0
<1>1. ASSUME NEW c \in Closers, NEW d \in Documents, NEW s, RecordClosure(c, d, s),
             d = "plan" => s = "spec" /\ Doc(c) = "plan" /\ At(c, "marking")
      PROVE  DocumentMove(e)
  <2>1. status' = [status EXCEPT ![d] = CLOSED]
    BY <1>1 DEF RecordClosure
  <2>2. CASE d = "plan"
    <3>1. closer' = [Overtaken(c, d) EXCEPT ![c] = Changed(closer[c], "spec")]
      BY <1>1, <2>2 DEF RecordClosure, Overtaken, Changed
    <3>2. closer'[c] = Changed(closer[c], "spec")
      BY <3>1 DEF Overtaken
    <3> QED
      BY <1>1, <2>1, <2>2, <3>2
  <2>3. CASE d # "plan"
    BY <2>1, <2>3
  <2> QED
    BY <2>2, <2>3
<1>2. ASSUME NEW c \in Closers, CloserStep(c) \/ Dies(c) PROVE DocumentMove(e)
  <2>1. CASE Records(c)
    BY <1>1, <2>1, MachineFacts DEF Records
  <2>2. CASE MarksClosed(c)
    <3>1. Doc(c) \in Documents
      BY ClosingFacts DEF Doc
    <3>2. RecordClosure(c, Doc(c), "spec") /\ At(c, "marking")
      BY <2>2 DEF MarksClosed
    <3> QED
      BY <1>1, <3>1, <3>2
  <2>3. CASE ClosesSpec(c)
    BY <1>0, <1>1, <2>3, MachineFacts DEF ClosesSpec
  <2>4. CASE MarksConflict(c)
    BY <2>4 DEF MarksConflict
  <2>5. CASE Weighs(c) \/ ChecksTree(c) \/ Merges(c) \/ MergeFails(c) \/ RemovesWorktree(c)
             \/ RefusedLate(c)
    BY <1>0, <2>5 DEF Weighs, ChecksTree, Merges, MergeFails, RemovesWorktree, RefusedLate,
                      Untouched
  <2>6. CASE SyncsBriefs(c) \/ RunsHook(c) \/ TearsDown(c) \/ Dies(c)
    BY <1>0, <2>6 DEF SyncsBriefs, RunsHook, TearsDown, Dies
  <2> QED
    BY <1>2, <2>1, <2>2, <2>3, <2>4, <2>5, <2>6 DEF CloserStep
<1>3. ASSUME NEW c \in Closers, NEW d \in Documents, NEW skip \in BOOLEAN, Begins(c, d, skip)
      PROVE  DocumentMove(e)
  BY <1>0, <1>3 DEF Begins, Untouched
<1>4. CASE RunNext
  <2>1. CASE DispatchesExecutor
    BY <2>1 DEF DispatchesExecutor, WriteStatus
  <2>2. CASE DispatchesPlanner
    BY <2>2 DEF DispatchesPlanner, WriteStatus
  <2>3. CASE AgentDrafts
    BY <2>3 DEF AgentDrafts, WriteStatus
  <2>4. CASE AgentEdits \/ AgentCommits \/ AgentStops
    BY <1>0, <2>4 DEF AgentEdits, AgentCommits, AgentStops
  <2>5. CASE RunEnds
    <3>1. \/ UNCHANGED status
          \/ /\ run = "executor" /\ run' = "none"
             /\ RecordsRun("plan", "EXECUTION_COMPLETE") \/ RecordsRun("plan", "PLAN_APPROVED")
          \/ /\ run = "planner"
             /\ RecordsRun("spec", "SPEC_APPROVED") \/ RecordsRun("spec", "PLAN_GENERATED")
      BY <2>5 DEF RunEnds
    <3>2. ASSUME NEW d \in Documents, NEW new, RecordsRun(d, new)
          PROVE  \/ status' = status
                 \/ CanMove(status[d], new) /\ status' = [status EXCEPT ![d] = new]
      BY <3>2 DEF RecordsRun, WriteStatus
    <3> QED
      BY <1>0, <3>1, <3>2, MachineFacts
  <2> QED
    BY <1>4, <2>1, <2>2, <2>3, <2>4, <2>5 DEF RunNext
<1>5. CASE HumanNext
  <2>1. ASSUME NEW d \in Documents, NEW new \in ValidStatuses, SetStatus(d, new)
        PROVE  DocumentMove(e)
    <3>1. moves' > moves
      BY <2>1, ClosureAssumption DEF SetStatus, Moves, Rest, ClosureAssumption
    <3> QED
      BY <2>1, <3>1 DEF SetStatus, WriteStatus
  <2>2. CASE TidiesUp \/ AbortsMerge \/ DeletesBranch
    BY <1>0, <2>2 DEF TidiesUp, AbortsMerge, DeletesBranch
  <2> QED
    BY <1>5, <2>1, <2>2 DEF HumanNext
<1>6. CASE UNCHANGED closureVars
  BY <1>0, <1>6 DEF closureVars
<1> QED
  BY <1>2, <1>3, <1>4, <1>5, <1>6 DEF ClosureNext

LEMMA OthersMove ==
  ASSUME CInv, Rest, branch.complete <= branch.commits, ClosureNext \/ UNCHANGED closureVars
  PROVE  OtherMoves
<1> USE ClosureAssumption DEF ClosureAssumption, Rest, OtherMoves, RunMove, BranchMove,
        Branches, FromThere, Warned, NotWarned, Moves
<1>1. ASSUME NEW c \in Closers, CloserStep(c) \/ Dies(c) PROVE OtherMoves
  <2>1. CASE Weighs(c)
    BY <2>1 DEF Weighs
  <2>2. CASE Records(c)
    BY <2>2 DEF Records
  <2>3. CASE ChecksTree(c)
    BY <2>3 DEF ChecksTree, Untouched
  <2>4. CASE Merges(c)
    BY <2>4 DEF Merges
  <2>5. CASE MergeFails(c)
    BY <2>5 DEF MergeFails
  <2>6. CASE RemovesWorktree(c)
    BY <2>6 DEF RemovesWorktree
  <2>7. CASE MarksConflict(c)
    BY <2>7 DEF MarksConflict
  <2>8. CASE MarksClosed(c)
    <3>1. UNCHANGED <<branch, unsaved, stack, done, FromThere>>
      BY <2>8 DEF MarksClosed
    <3>2. history \subseteq history'
      BY <2>8 DEF MarksClosed
    <3> QED
      BY <3>1, <3>2
  <2>9. CASE RefusedLate(c)
    BY <2>9 DEF RefusedLate, Untouched
  <2>10. CASE ClosesSpec(c)
    <3>1. UNCHANGED <<branch, unsaved, stack, done, run, agent, moves>>
      BY <2>10 DEF ClosesSpec
    <3>2. history \subseteq history'
      BY <2>10 DEF ClosesSpec
    <3> QED
      BY <3>1, <3>2
  <2>11. CASE SyncsBriefs(c)
    <3>1. UNCHANGED <<branch, unsaved, stack, run, agent, moves>> /\ done \subseteq done'
      BY <2>11 DEF SyncsBriefs
    <3>2. history \subseteq history'
      BY <2>11 DEF SyncsBriefs
    <3> QED
      BY <3>1, <3>2
  <2>12. CASE RunsHook(c)
    <3>1. UNCHANGED <<branch, unsaved, stack, run, agent, moves>> /\ done \subseteq done'
      BY <2>12 DEF RunsHook
    <3>2. history \subseteq history'
      BY <2>12 DEF RunsHook
    <3> QED
      BY <3>1, <3>2
  <2>13. CASE TearsDown(c)
    <3>1. UNCHANGED <<branch, unsaved, done, run, agent, moves>> /\ stack' \in {FALSE, stack}
      BY <2>13 DEF TearsDown
    <3>2. history \subseteq history'
      BY <2>13 DEF TearsDown
    <3>3. stack' => stack
      BY <3>1
    <3> QED
      BY <3>1, <3>2, <3>3
  <2>14. CASE Dies(c)
    <3>1. UNCHANGED <<branch, unsaved, stack, done, run, agent, moves>>
      BY <2>14 DEF Dies
    <3>2. history \subseteq history'
      BY <2>14 DEF Dies
    <3> QED
      BY <3>1, <3>2
  <2> QED
    BY <1>1, <2>1, <2>2, <2>3, <2>4, <2>5, <2>6, <2>7, <2>8, <2>9, <2>10, <2>11, <2>12,
       <2>13, <2>14 DEF CloserStep
<1>2. ASSUME NEW c \in Closers, NEW d \in Documents, NEW skip \in BOOLEAN, Begins(c, d, skip)
      PROVE  OtherMoves
  BY <1>2 DEF Begins, Untouched
<1>3. CASE DispatchesExecutor
  BY <1>3, MachineFacts DEF DispatchesExecutor, WriteStatus, CInv, Typed
<1>4. CASE DispatchesPlanner
  BY <1>4 DEF DispatchesPlanner
<1>5. CASE AgentEdits \/ AgentStops
  BY <1>5 DEF AgentEdits, AgentStops
<1>6. CASE AgentCommits
  BY <1>6 DEF AgentCommits
<1>7. CASE AgentDrafts
  BY <1>7 DEF AgentDrafts
<1>8. ASSUME closer' = Overtaken(Nobody, "plan")
      PROVE  \A c \in Closers : At(c, "idle") \/ Doc(c) # "plan" \/ closer'[c].overtaken
  <2> SUFFICES ASSUME NEW c \in Closers, ~At(c, "idle"), Doc(c) = "plan"
               PROVE  closer'[c].overtaken
    OBVIOUS
  <2>1. closer'[c] = Late(closer[c]) /\ closer[c] \in Closings
    BY <1>8 DEF Overtaken, Late, CInv, Typed
  <2> QED
    BY <2>1, ClosingFacts
<1>9. CASE RunEnds
  <2>1. run' = "none" /\ UNCHANGED <<unsaved, agent, done, moves, history>> /\ (stack' => stack)
    BY <1>9 DEF RunEnds
  <2>2. BranchMove
    <3>1. \/ UNCHANGED branch
          \/ /\ CanMove(status["plan"], "EXECUTION_COMPLETE")
             /\ RecordsRun("plan", "EXECUTION_COMPLETE")
             /\ branch' = [branch EXCEPT !.complete = branch.commits]
      BY <1>9 DEF RunEnds
    <3>2. CASE UNCHANGED branch
      BY <3>2
    <3>3. CASE /\ closer' = Overtaken(Nobody, "plan")
               /\ branch' = [branch EXCEPT !.complete = branch.commits]
      BY <1>8, <3>3
    <3> QED
      BY <3>1, <3>2, <3>3 DEF RecordsRun, WriteStatus
  <2> QED
    BY <2>1, <2>2
<1>10. ASSUME NEW d \in Documents, NEW new \in ValidStatuses, SetStatus(d, new)
       PROVE  OtherMoves
  <2>1. UNCHANGED <<unsaved, run, agent, stack, done, history>> /\ moves' >= moves
    BY <1>10 DEF SetStatus
  <2>2. \/ UNCHANGED branch
        \/ /\ closer' = Overtaken(Nobody, "plan")
           /\ branch' = [branch EXCEPT !.complete = branch.commits]
    BY <1>10 DEF SetStatus, WriteStatus
  <2>3. BranchMove
    BY <1>8, <2>2
  <2> QED
    BY <2>1, <2>3
<1>11. CASE TidiesUp
  BY <1>11 DEF TidiesUp
<1>12. CASE AbortsMerge \/ DeletesBranch
  BY <1>12 DEF AbortsMerge, DeletesBranch
<1>13. CASE UNCHANGED closureVars
  BY <1>13 DEF closureVars
<1> QED
  BY <1>1, <1>2, <1>3, <1>4, <1>5, <1>6, <1>7, <1>9, <1>10, <1>11, <1>12, <1>13
     DEF ClosureNext, RunNext, HumanNext

------------------------------------------------------------------------------
(* What is merged when a plan is closed.                                    *)

\* Nothing complete is left unmerged by a closing that is past the merge, unless it was
\* overtaken.
PastTheMerge(x) ==
  x.step \in {"removing", "marking"} /\ ~x.skip /\ ~x.overtaken /\ x.document = "plan"

MergeInv ==
  /\ branch.complete <= branch.commits
  /\ \A c \in Closers : PastTheMerge(closer[c]) => branch.merged >= branch.complete

\* What is left of the changes of a closing besides its step.
LEMMA ClosingMarks ==
  /\ \A x \in Closings, s \in Steps : Changed(x, s).skip = x.skip
  /\ \A d \in Documents, skip \in BOOLEAN, s \in Steps :
       Entered(d, skip, s).skip = skip /\ ~Entered(d, skip, s).overtaken
BY DEF Changed, Entered, Idle, Closings

LEMMA MergeStep ==
  ASSUME CInv, Rest, MergeInv, ClosureNext \/ UNCHANGED closureVars
  PROVE  MergeInv'
<1>1. branch.complete \in Nat /\ branch.commits \in Nat /\ branch.merged \in Nat
  BY ClosureAssumption DEF ClosureAssumption, Rest, Branches
<1>2. BranchMove
  BY OthersMove DEF MergeInv, OtherMoves
<1>3. branch'.complete <= branch'.commits
  <2>1. branch'.commits \in Nat
    BY RestStep, ClosureAssumption DEF ClosureAssumption, Rest, Branches
  <2>2. CASE branch' = [branch EXCEPT !.complete = branch.commits]
    BY <1>1, <2>2 DEF Rest, Branches
  <2>3. CASE branch'.complete = branch.complete /\ branch'.commits >= branch.commits
    BY <1>1, <2>1, <2>3 DEF MergeInv
  <2> QED
    BY <1>2, <2>2, <2>3 DEF BranchMove
<1>4. ASSUME NEW c \in Closers, PastTheMerge(closer'[c])
      PROVE  branch'.merged >= branch'.complete
  <2> DEFINE x == closer[c]
  <2>1. x \in Closings /\ CloserMove(c)
    BY CloserMoves DEF CInv, Typed
  <2>2. \/ PastTheMerge(x)
        \/ At(c, "merging") /\ branch' = [branch EXCEPT !.merged = branch.commits]
    <3>1. CASE closer'[c] = x
      BY <1>4, <3>1
    <3>2. CASE closer'[c] = Late(x) \/ Leaves(c)
      BY <1>4, <2>1, <3>2, ClosingFacts DEF PastTheMerge, Leaves
    <3>4. CASE StartsOut(c)
      <4>1. PICK d \in Documents, skip \in BOOLEAN, s \in {"weighing", "checking", "removing"} :
              closer'[c] = Entered(d, skip, s) /\ (s = "removing" => skip)
        BY <3>4 DEF StartsOut
      <4>2. closer'[c].step = s /\ closer'[c].skip = skip
        <5>1. s \in Steps
          BY DEF Steps
        <5> QED
          BY <4>1, <5>1, ClosingFacts, ClosingMarks
      <4> QED
        BY <1>4, <4>1, <4>2 DEF PastTheMerge
    <3>3. ASSUME NEW s \in Steps, closer'[c] = Changed(x, s), Way(c, s)
          PROVE  \/ PastTheMerge(x)
                 \/ At(c, "merging") /\ branch' = [branch EXCEPT !.merged = branch.commits]
      <4>1. /\ closer'[c].step = s /\ closer'[c].skip = x.skip
            /\ closer'[c].overtaken = x.overtaken /\ closer'[c].document = x.document
        BY <2>1, <3>3, ClosingFacts, ClosingMarks
      <4> QED
        BY <1>4, <3>3, <4>1 DEF PastTheMerge, Way, At
    <3> QED
      BY <2>1, <3>1, <3>2, <3>3, <3>4 DEF CloserMove
  <2>3. CASE At(c, "merging") /\ branch' = [branch EXCEPT !.merged = branch.commits]
    <3>1. branch'.merged = branch.commits /\ branch'.complete = branch.complete
      BY <2>3 DEF Rest, Branches
    <3> QED
      BY <1>1, <3>1 DEF MergeInv
  <2>4. CASE PastTheMerge(x)
    <3>1. branch.merged >= branch.complete
      BY <2>4 DEF MergeInv
    <3>2. /\ branch'.complete = branch.complete
          /\ branch'.merged >= branch.merged /\ branch'.merged \in Nat
      <4>1. ~At(c, "idle") /\ Doc(c) = "plan" /\ ~closer'[c].overtaken
        BY <1>4, <2>4 DEF PastTheMerge, At, Doc
      <4>2. Rest'
        BY RestStep
      <4> QED
        BY <1>2, <4>1, <4>2, ClosureAssumption DEF BranchMove, Rest, Branches, ClosureAssumption
    <3> QED
      BY <1>1, <3>1, <3>2
  <2> QED
    BY <2>2, <2>3, <2>4
<1> QED
  BY <1>3, <1>4 DEF MergeInv

LEMMA ClosureHolds == ClosureSpec => [](CInv /\ Rest /\ MergeInv)
<1>1. ClosureInit => MergeInv
  <2> SUFFICES ASSUME ClosureInit PROVE MergeInv
    OBVIOUS
  <2>1. branch.complete <= branch.commits
    BY ClosureAssumption DEF ClosureInit, ClosureAssumption
  <2>2. \A c \in Closers : closer[c].step = "idle"
    BY ClosingFacts DEF ClosureInit
  <2> QED
    BY <2>1, <2>2 DEF MergeInv, PastTheMerge
<1>2. CInv /\ Rest /\ MergeInv /\ [ClosureNext]_closureVars => Rest' /\ MergeInv'
  BY RestStep, MergeStep
<1> QED
  BY <1>1, <1>2, RestInit, CInvHolds, PTL DEF ClosureSpec

\* A plan is closed over a branch that holds nothing complete and unmerged: whatever else
\* completes, commits or moves it meanwhile overtakes the closing.
THEOREM ClosedIsMerged == ClosureSpec => ClosedMeansMerged
<1>1. MergeInv =>
        \A c \in Closers :
          MarksClosed(c) /\ ~closer[c].skip /\ ~closer[c].overtaken /\ Doc(c) = "plan"
            => branch.merged >= branch.complete
  BY DEF MergeInv, PastTheMerge, MarksClosed, At, Doc
<1> QED
  BY <1>1, ClosureHolds, PTL DEF ClosedMeansMerged

------------------------------------------------------------------------------
(* What is left to do when a plan is closed.                                *)

\* While a plan is closed and no closing was cut short, what is not yet done of its
\* closing is on the way of somebody who is at it.
SomebodyAt(steps) == \E c \in Closers : closer[c].step \in steps
PlansCloserAt(steps) == \E c \in Closers : Doc(c) = "plan" /\ closer[c].step \in steps

LeftInv ==
  status["plan"] = CLOSED /\ ~CutShort =>
    /\ status["spec"] \in {CLOSED, NoDocument} \/ SomebodyAt({"spec"})
    /\ "listed" \in done \/ SomebodyAt({"spec", "syncing"})
    /\ "hooked" \in done \/ PlansCloserAt({"spec", "syncing", "hooking"})
    /\ ~stack \/ PlansCloserAt(Tail)

LEMMA LeftStep ==
  ASSUME CInv, Rest, MergeInv, LeftInv, ClosureNext \/ UNCHANGED closureVars
  PROVE  LeftInv'
<1> SUFFICES ASSUME status'["plan"] = CLOSED, ~CutShort'
             PROVE  /\ status'["spec"] \in {CLOSED, NoDocument} \/ SomebodyAt({"spec"})'
                    /\ "listed" \in done' \/ SomebodyAt({"spec", "syncing"})'
                    /\ "hooked" \in done' \/ PlansCloserAt({"spec", "syncing", "hooking"})'
                    /\ ~stack' \/ PlansCloserAt(Tail)'
  BY DEF LeftInv
<1>1. OtherMoves /\ DocumentMove("plan") /\ DocumentMove("spec")
  BY OthersMove, DocumentMoves, MachineFacts DEF MergeInv
<1>2. ~CutShort
  BY <1>1 DEF OtherMoves, CutShort
<1>3. ASSUME status["plan"] # CLOSED
      PROVE  \E c \in Closers : closer'[c].step = "spec" /\ closer'[c].document = "plan"
  <2>1. PICK c \in Closers : /\ At(c, "marking") /\ Doc(c) = "plan"
                             /\ closer'[c] = Changed(closer[c], "spec")
    BY <1>1, <1>3 DEF DocumentMove, ProducedStatus, CLOSED
  <2>2. closer[c] \in Closings /\ "spec" \in Steps
    BY DEF CInv, Typed, Steps
  <2> QED
    BY <2>1, <2>2, ClosingFacts DEF Doc
<1>4. CASE status["plan"] # CLOSED
  BY <1>3, <1>4 DEF SomebodyAt, PlansCloserAt, Doc, Tail
<1>5. CASE status["plan"] = CLOSED
  <2>1. /\ status["spec"] \in {CLOSED, NoDocument} \/ SomebodyAt({"spec"})
        /\ "listed" \in done \/ SomebodyAt({"spec", "syncing"})
        /\ "hooked" \in done \/ PlansCloserAt({"spec", "syncing", "hooking"})
        /\ ~stack \/ PlansCloserAt(Tail)
    BY <1>2, <1>5 DEF LeftInv
  <2>2. ASSUME NEW c \in Closers, closer[c].step \in Tail
        PROVE  \/ closer'[c].step = closer[c].step /\ closer'[c].document = closer[c].document
               \/ At(c, "syncing") /\ Doc(c) = "spec" /\ "listed" \in done'
               \/ At(c, "tearing") /\ ~stack'
               \/ \E s \in Steps : /\ Way(c, s) /\ closer'[c].step = s
                                   /\ closer'[c].document = closer[c].document
    <3>1. closer[c] \in Closings /\ CloserMove(c)
      BY CloserMoves DEF CInv, Typed
    <3> QED
      BY <2>2, <3>1, ClosingFacts DEF CloserMove, StartsOut, Leaves, At, Tail
  <2>3. status'["spec"] \in {CLOSED, NoDocument} \/ SomebodyAt({"spec"})'
    <3>1. CASE status["spec"] \in {CLOSED, NoDocument}
      BY <1>1, <3>1, MachineFacts DEF DocumentMove, CLOSED, NoDocument
    <3>2. ASSUME NEW c \in Closers, closer[c].step = "spec"
          PROVE  status'["spec"] \in {CLOSED, NoDocument} \/ closer'[c].step = "spec"
      BY <2>2, <3>2 DEF Tail, At, Way
    <3> QED
      BY <2>1, <3>1, <3>2 DEF SomebodyAt
  <2>4. "listed" \in done' \/ SomebodyAt({"spec", "syncing"})'
    <3>1. CASE "listed" \in done
      BY <1>1, <3>1 DEF OtherMoves
    <3>2. ASSUME NEW c \in Closers, closer[c].step \in {"spec", "syncing"}
          PROVE  "listed" \in done' \/ closer'[c].step \in {"spec", "syncing"}
      BY <2>2, <3>2 DEF Tail, At, Way
    <3> QED
      BY <2>1, <3>1, <3>2 DEF SomebodyAt
  <2>5. "hooked" \in done' \/ PlansCloserAt({"spec", "syncing", "hooking"})'
    <3>1. CASE "hooked" \in done
      BY <1>1, <3>1 DEF OtherMoves
    <3>2. ASSUME NEW c \in Closers, Doc(c) = "plan", closer[c].step \in {"spec", "syncing", "hooking"}
          PROVE  \/ "hooked" \in done'
                 \/ /\ closer'[c].step \in {"spec", "syncing", "hooking"}
                    /\ closer'[c].document = "plan"
      BY <2>2, <3>2 DEF Tail, At, Way, Doc
    <3> QED
      BY <2>1, <3>1, <3>2 DEF PlansCloserAt, Doc
  <2>6. ~stack' \/ PlansCloserAt(Tail)'
    <3>1. CASE ~stack
      BY <1>1, <3>1 DEF OtherMoves, CLOSED
    <3>2. ASSUME NEW c \in Closers, Doc(c) = "plan", closer[c].step \in Tail
          PROVE  ~stack' \/ (closer'[c].step \in Tail /\ closer'[c].document = "plan")
      BY <2>2, <3>2 DEF Tail, At, Way, Doc
    <3> QED
      BY <2>1, <3>1, <3>2 DEF PlansCloserAt, Doc, Tail
  <2> QED
    BY <2>3, <2>4, <2>5, <2>6
<1> QED
  BY <1>4, <1>5

\* However closings overlap, whatever of a closed plan's closing is not done yet has
\* somebody on the way to it; so when nobody is, and nobody was cut short, all is done.
THEOREM NothingIsLeft == ClosureSpec => []NothingLeftBehind
<1>1. ClosureInit => LeftInv
  <2> SUFFICES ASSUME ClosureInit PROVE status["plan"] # CLOSED
    BY DEF LeftInv
  <2>1. PICK s \in Slices : status = s.status
    BY DEF ClosureInit
  <2> QED
    BY <2>1, ClosureAssumption, MachineFacts DEF ClosureAssumption
<1>2. CInv /\ Rest /\ MergeInv /\ LeftInv /\ [ClosureNext]_closureVars => LeftInv'
  BY LeftStep
<1>3. Rest /\ LeftInv => NothingLeftBehind
  <2> SUFFICES ASSUME Rest, LeftInv, status["plan"] = CLOSED, ~InTail, ~CutShort
               PROVE  /\ status["spec"] \in {CLOSED, NoDocument}
                      /\ done = {"listed", "hooked"}
                      /\ ~stack
    BY DEF NothingLeftBehind, CutShort
  <2>1. \A c \in Closers : closer[c].step \notin Tail
    BY DEF InTail
  <2> QED
    BY <2>1 DEF LeftInv, SomebodyAt, PlansCloserAt, Tail, Rest
<1> QED
  BY <1>1, <1>2, <1>3, ClosureHolds, PTL DEF ClosureSpec

------------------------------------------------------------------------------
(* What a live executor has at stake.                                       *)

\* Until a human moves a document: a live executor's plan is in progress, and nobody is
\* closing it.
ClosablePlan == {"EXECUTION_COMPLETE", "MERGE_CONFLICT", CLOSED, ProducedStatus}

LiveInv ==
  moves = 0 =>
    /\ run = "executor" => status["plan"] = "EXECUTING" /\ agent # "planner"
    /\ status["spec"] \notin {"EXECUTION_COMPLETE", "MERGE_CONFLICT"}
    /\ \A c \in Closers : closer[c].step \in OnItsWay =>
         Doc(c) = "plan" /\ status["plan"] \in ClosablePlan

LEMMA LiveStep ==
  ASSUME CInv, Rest, MergeInv, LiveInv, ClosureNext \/ UNCHANGED closureVars
  PROVE  LiveInv'
<1> SUFFICES ASSUME moves' = 0
             PROVE  /\ run' = "executor" => status'["plan"] = "EXECUTING" /\ agent' # "planner"
                    /\ status'["spec"] \notin {"EXECUTION_COMPLETE", "MERGE_CONFLICT"}
                    /\ \A c \in Closers : closer'[c].step \in OnItsWay =>
                         closer'[c].document = "plan" /\ status'["plan"] \in ClosablePlan
  BY DEF LiveInv, Doc
<1>1. OtherMoves /\ DocumentMove("plan") /\ DocumentMove("spec")
  BY OthersMove, DocumentMoves, MachineFacts DEF MergeInv
<1>2. moves = 0 /\ ~(moves' > moves)
  BY <1>1, ClosureAssumption DEF OtherMoves, Rest, ClosureAssumption
<1>3. /\ run = "executor" => status["plan"] = "EXECUTING" /\ agent # "planner"
      /\ status["spec"] \notin {"EXECUTION_COMPLETE", "MERGE_CONFLICT"}
      /\ \A c \in Closers : closer[c].step \in OnItsWay =>
           Doc(c) = "plan" /\ status["plan"] \in ClosablePlan
  BY <1>2 DEF LiveInv
<1>4. status'["spec"] \notin {"EXECUTION_COMPLETE", "MERGE_CONFLICT"}
  BY <1>1, <1>2, <1>3 DEF DocumentMove, At, OnItsWay, CLOSED
<1>5. run' = "executor" => status'["plan"] = "EXECUTING" /\ agent' # "planner"
  <2>1. CASE run' = run /\ run = "executor" /\ agent' \in {agent, "none"}
    BY <1>1, <1>2, <1>3, <2>1
       DEF DocumentMove, At, OnItsWay, ClosablePlan, CLOSED, ProducedStatus
  <2> QED
    BY <1>1, <2>1 DEF OtherMoves, RunMove
<1>6. ASSUME NEW c \in Closers, closer'[c].step \in OnItsWay
      PROVE  closer'[c].document = "plan" /\ status'["plan"] \in ClosablePlan
  <2>1. closer[c] \in Closings /\ CloserMove(c)
    BY CloserMoves DEF CInv, Typed
  <2>2. CASE closer[c].step \in OnItsWay /\ closer'[c].document = Doc(c)
    BY <1>1, <1>2, <1>3, <2>2 DEF DocumentMove, ClosablePlan, CLOSED, ProducedStatus
  <2>3. CASE StartsOut(c)
    <3>1. PICK d \in Documents, skip \in BOOLEAN, s \in {"weighing", "checking", "removing"} :
            /\ closer'[c] = Entered(d, skip, s) /\ status' = status
            /\ s # "weighing" => status[d] # NoDocument /\ CLOSED \in Edges[status[d]]
      BY <2>3 DEF StartsOut
    <3>2. closer'[c].step = s /\ closer'[c].document = d /\ s # "weighing"
      BY <1>6, <3>1, ClosingFacts DEF Steps, OnItsWay
    <3>3. status[d] \in {"EXECUTION_COMPLETE", "MERGE_CONFLICT"}
      BY <3>1, <3>2 DEF CInv, Typed, ValidStatuses, Edges, CLOSED
    <3> QED
      BY <1>3, <3>1, <3>2, <3>3, MachineFacts DEF ClosablePlan
  <2>4. CASE Leaves(c)
    BY <1>6, <2>4, ClosingFacts DEF Leaves, OnItsWay
  <2>5. ASSUME NEW s \in Steps, closer'[c] = Changed(closer[c], s), Way(c, s)
        PROVE  closer[c].step \in OnItsWay /\ closer'[c].document = Doc(c)
    <3>1. closer'[c].step = s /\ closer'[c].document = Doc(c)
      BY <2>1, <2>5, ClosingFacts DEF Doc
    <3> QED
      BY <1>6, <2>5, <3>1 DEF Way, At, OnItsWay
  <2> QED
    BY <1>6, <2>1, <2>2, <2>3, <2>4, <2>5, ClosingFacts DEF CloserMove, Doc
<1> QED
  BY <1>4, <1>5, <1>6

\* From every orderly start, until a human moves a document: no closing removes the
\* worktree of a live executor, so no work that was not committed goes with it.
THEOREM LiveWorkStays ==
  ASSUME OrderlyStart
  PROVE  ClosureSpec => LiveWorkIsSafe
<1>1. ClosureInit => LiveInv
  <2> SUFFICES ASSUME ClosureInit PROVE LiveInv
    OBVIOUS
  <2>1. PICK s \in Slices : status = s.status /\ run = s.run /\ agent = s.run
    BY DEF ClosureInit
  <2>2. \A c \in Closers : closer[c].step = "idle"
    BY ClosingFacts DEF ClosureInit
  <2> QED
    BY <2>1, <2>2 DEF OrderlyStart, LiveInv, OnItsWay
<1>2. CInv /\ Rest /\ MergeInv /\ LiveInv /\ [ClosureNext]_closureVars => LiveInv'
  BY LiveStep
<1>3. ASSUME CInv, Rest, MergeInv, LiveInv, [ClosureNext]_closureVars,
             moves = 0, run = "executor", unsaved, ~unsaved'
      PROVE  worktree'
  <2>1. \A c \in Closers : ~At(c, "removing")
    BY <1>3 DEF LiveInv, At, OnItsWay, ClosablePlan, CLOSED, ProducedStatus
  <2> QED
    BY <1>3, <2>1, OthersMove DEF MergeInv, OtherMoves
<1>4. CInv /\ Rest /\ MergeInv /\ LiveInv /\ [ClosureNext]_closureVars =>
        [moves = 0 /\ run = "executor" /\ unsaved /\ ~unsaved' => worktree']_closureVars
  BY <1>3
<1> QED
  BY <1>1, <1>2, <1>4, ClosureHolds, PTL DEF ClosureSpec, LiveWorkIsSafe
==============================================================================
