--------------------------- MODULE SliceLockProofs ---------------------------
(***************************************************************************)
(* What SliceLock guarantees for every set of runs, of operators and for   *)
(* every number of attempts.                                               *)
(***************************************************************************)
EXTENDS SliceLock, TLAPS

\* A content was staged by a run that has got at least as far as the content says.
Staged(l) ==
  /\ l.state = "starting" => pc[l.by] \in Holding \cup Over
  /\ l.state = "running" => pc[l.by] \in {"running", "unknown"} \cup Over
  /\ l.state = "unresolved" => pc[l.by] \in {"unknown"} \cup Over

EveryContentStaged ==
  /\ Staged(lock)
  /\ \A r \in Runs : Staged(seen[r])
  /\ \A o \in Operators : Staged(opSeen[o])

\* A content whose writer has left the phase it describes, for good.
Stale(l) ==
  /\ l.state = "starting" => pc[l.by] \in Over
  /\ l.state = "running" => pc[l.by] \in {"unknown"} \cup Over

VerdictsStand ==
  /\ \A r \in Runs : pc[r] = "unlinking" => Stale(seen[r]) /\ seen[r].state # "unresolved"
  /\ \A o \in Operators : opPc[o] = "resolving" => Stale(opSeen[o])

\* The inductive invariant.  Until a slip, every holder owns the lock file, and
\* everybody about to unlink judged a content that no holder can own any more.
IInv ==
  /\ EveryContentStaged
  /\ slips = {} => VerdictsStand /\ \A r \in Runs : OwnerOfLock(r)

\* TypeOK is not inductive by itself: a run that still contends has rounds left.
RoundsLeft ==
  \A r \in Runs : pc[r] \in {"idle"} \cup Acquiring => attempts[r] < MaxAttempts

Typed == TypeOK /\ RoundsLeft

\* Every step keeps the types and the bound on the acquisition loop.
LEMMA TypeStep == Typed /\ [Next]_vars => Typed'
<1> SUFFICES ASSUME Typed, [Next]_vars PROVE Typed'
  OBVIOUS
<1> USE ConstantsAssumption
    DEF Typed, RoundsLeft, TypeOK, LockFiles, Absent, File, PCs, Acquiring, Holding,
        Over, Goto, others
<1>1. ASSUME NEW r \in Runs, Begin(r) PROVE Typed'
  BY <1>1 DEF Begin
<1>2. ASSUME NEW r \in Runs, Link(r) PROVE Typed'
  BY <1>2 DEF Link
<1>3. ASSUME NEW r \in Runs, LinkRefused(r) PROVE Typed'
  BY <1>3 DEF LinkRefused
<1>4. ASSUME NEW r \in Runs, Read(r) PROVE Typed'
  BY <1>4 DEF Read
<1>5. ASSUME NEW r \in Runs, JudgeHeld(r) PROVE Typed'
  BY <1>5 DEF JudgeHeld
<1>6. ASSUME NEW r \in Runs, JudgeStale(r) PROVE Typed'
  BY <1>6 DEF JudgeStale, GraceSlip
<1>7. ASSUME NEW r \in Runs, Unlink(r) PROVE Typed'
  BY <1>7 DEF Unlink, Again, LateSlip
<1>8. ASSUME NEW r \in Runs, UnlinkFails(r) PROVE Typed'
  BY <1>8 DEF UnlinkFails, Again
<1>9. ASSUME NEW r \in Runs, PrepareFails(r) PROVE Typed'
  BY <1>9 DEF PrepareFails
<1>10. ASSUME NEW r \in Runs, Spawn(r) PROVE Typed'
  BY <1>10 DEF Spawn
<1>11. ASSUME NEW r \in Runs, Claim(r) PROVE Typed'
  BY <1>11 DEF Claim
<1>12. ASSUME NEW r \in Runs, Release(r) PROVE Typed'
  BY <1>12 DEF Release
<1>13. ASSUME NEW r \in Runs, MarkUnresolved(r) PROVE Typed'
  BY <1>13 DEF MarkUnresolved
<1>14. ASSUME NEW r \in Runs, Crash(r) PROVE Typed'
  BY <1>14 DEF Crash
<1>15. ASSUME NEW r \in Runs, GraceElapses(r) PROVE Typed'
  BY <1>15 DEF GraceElapses
<1>16. ASSUME NEW o \in Operators, OperatorDecides(o) PROVE Typed'
  BY <1>16 DEF OperatorDecides, GraceSlip
<1>17. ASSUME NEW o \in Operators, OperatorReleases(o) PROVE Typed'
  BY <1>17 DEF OperatorReleases, LateSlip
<1>18. ASSUME NEW o \in Operators, OperatorQuits(o) PROVE Typed'
  BY <1>18 DEF OperatorQuits
<1>19. CASE UNCHANGED vars
  BY <1>19 DEF vars
<1> QED
  BY <1>1, <1>2, <1>3, <1>4, <1>5, <1>6, <1>7, <1>8, <1>9, <1>10, <1>11, <1>12, <1>13,
     <1>14, <1>15, <1>16, <1>17, <1>18, <1>19 DEF Next, RunNext, OperatorNext

\* The lock file, the readings and the loop counters are always well-formed; in
\* particular acquire_slice_lock never goes round more than MaxAttempts times.
THEOREM TypeCorrect == Spec => []TypeOK
<1>1. Init => Typed
  BY ConstantsAssumption DEF Init, Typed, RoundsLeft, TypeOK, LockFiles, Absent, PCs
<1>2. Typed => TypeOK
  BY DEF Typed
<1> QED
  BY <1>1, <1>2, TypeStep, PTL DEF Spec

\* A content keeps saying something its writer has done: no run goes back behind
\* the phase in which it wrote the lock.
LEMMA StagedStep ==
  Typed /\ EveryContentStaged /\ [Next]_vars => EveryContentStaged'
<1> SUFFICES ASSUME Typed, EveryContentStaged, [Next]_vars PROVE EveryContentStaged'
  OBVIOUS
<1> USE ConstantsAssumption
    DEF Typed, TypeOK, EveryContentStaged, Staged, LockFiles, Absent, File,
        Acquiring, Holding, Over, Goto, others
<1>1. ASSUME NEW r \in Runs, Begin(r) PROVE EveryContentStaged'
  BY <1>1 DEF Begin
<1>2. ASSUME NEW r \in Runs, Link(r) PROVE EveryContentStaged'
  BY <1>2 DEF Link
<1>3. ASSUME NEW r \in Runs, LinkRefused(r) PROVE EveryContentStaged'
  BY <1>3 DEF LinkRefused
<1>4. ASSUME NEW r \in Runs, Read(r) PROVE EveryContentStaged'
  BY <1>4 DEF Read
<1>5. ASSUME NEW r \in Runs, JudgeHeld(r) PROVE EveryContentStaged'
  BY <1>5 DEF JudgeHeld
<1>6. ASSUME NEW r \in Runs, JudgeStale(r) PROVE EveryContentStaged'
  BY <1>6 DEF JudgeStale
<1>7. ASSUME NEW r \in Runs, Unlink(r) PROVE EveryContentStaged'
  BY <1>7 DEF Unlink, Again
<1>8. ASSUME NEW r \in Runs, UnlinkFails(r) PROVE EveryContentStaged'
  BY <1>8 DEF UnlinkFails, Again
<1>9. ASSUME NEW r \in Runs, PrepareFails(r) PROVE EveryContentStaged'
  BY <1>9 DEF PrepareFails
<1>10. ASSUME NEW r \in Runs, Spawn(r) PROVE EveryContentStaged'
  BY <1>10 DEF Spawn
<1>11. ASSUME NEW r \in Runs, Claim(r) PROVE EveryContentStaged'
  BY <1>11 DEF Claim
<1>12. ASSUME NEW r \in Runs, Release(r) PROVE EveryContentStaged'
  BY <1>12 DEF Release
<1>13. ASSUME NEW r \in Runs, MarkUnresolved(r) PROVE EveryContentStaged'
  BY <1>13 DEF MarkUnresolved
<1>14. ASSUME NEW r \in Runs, Crash(r) PROVE EveryContentStaged'
  BY <1>14 DEF Crash
<1>15. ASSUME NEW r \in Runs, GraceElapses(r) PROVE EveryContentStaged'
  BY <1>15 DEF GraceElapses
<1>16. ASSUME NEW o \in Operators, OperatorDecides(o) PROVE EveryContentStaged'
  BY <1>16 DEF OperatorDecides
<1>17. ASSUME NEW o \in Operators, OperatorReleases(o) PROVE EveryContentStaged'
  BY <1>17 DEF OperatorReleases
<1>18. ASSUME NEW o \in Operators, OperatorQuits(o) PROVE EveryContentStaged'
  BY <1>18 DEF OperatorQuits
<1>19. CASE UNCHANGED vars
  BY <1>19 DEF vars
<1> QED
  BY <1>1, <1>2, <1>3, <1>4, <1>5, <1>6, <1>7, <1>8, <1>9, <1>10, <1>11, <1>12, <1>13,
     <1>14, <1>15, <1>16, <1>17, <1>18, <1>19 DEF Next, RunNext, OperatorNext

\* The history only grows: a state without slips has only predecessors without.
LEMMA SlipsGrow == [Next]_vars => slips \subseteq slips'
<1> SUFFICES ASSUME [Next]_vars PROVE slips \subseteq slips'
  OBVIOUS
<1>1. ASSUME NEW r \in Runs, Begin(r) PROVE slips \subseteq slips'
  BY <1>1 DEF Begin
<1>2. ASSUME NEW r \in Runs, Link(r) PROVE slips \subseteq slips'
  BY <1>2 DEF Link
<1>3. ASSUME NEW r \in Runs, LinkRefused(r) PROVE slips \subseteq slips'
  BY <1>3 DEF LinkRefused
<1>4. ASSUME NEW r \in Runs, Read(r) PROVE slips \subseteq slips'
  BY <1>4 DEF Read
<1>5. ASSUME NEW r \in Runs, JudgeHeld(r) PROVE slips \subseteq slips'
  BY <1>5 DEF JudgeHeld
<1>6. ASSUME NEW r \in Runs, JudgeStale(r) PROVE slips \subseteq slips'
  BY <1>6 DEF JudgeStale
<1>7. ASSUME NEW r \in Runs, Unlink(r) PROVE slips \subseteq slips'
  BY <1>7 DEF Unlink, Again
<1>8. ASSUME NEW r \in Runs, UnlinkFails(r) PROVE slips \subseteq slips'
  BY <1>8 DEF UnlinkFails, Again
<1>9. ASSUME NEW r \in Runs, PrepareFails(r) PROVE slips \subseteq slips'
  BY <1>9 DEF PrepareFails
<1>10. ASSUME NEW r \in Runs, Spawn(r) PROVE slips \subseteq slips'
  BY <1>10 DEF Spawn
<1>11. ASSUME NEW r \in Runs, Claim(r) PROVE slips \subseteq slips'
  BY <1>11 DEF Claim
<1>12. ASSUME NEW r \in Runs, Release(r) PROVE slips \subseteq slips'
  BY <1>12 DEF Release
<1>13. ASSUME NEW r \in Runs, MarkUnresolved(r) PROVE slips \subseteq slips'
  BY <1>13 DEF MarkUnresolved
<1>14. ASSUME NEW r \in Runs, Crash(r) PROVE slips \subseteq slips'
  BY <1>14 DEF Crash
<1>15. ASSUME NEW r \in Runs, GraceElapses(r) PROVE slips \subseteq slips'
  BY <1>15 DEF GraceElapses
<1>16. ASSUME NEW o \in Operators, OperatorDecides(o) PROVE slips \subseteq slips'
  BY <1>16 DEF OperatorDecides
<1>17. ASSUME NEW o \in Operators, OperatorReleases(o) PROVE slips \subseteq slips'
  BY <1>17 DEF OperatorReleases
<1>18. ASSUME NEW o \in Operators, OperatorQuits(o) PROVE slips \subseteq slips'
  BY <1>18 DEF OperatorQuits
<1>19. CASE UNCHANGED vars
  BY <1>19 DEF vars
<1> QED
  BY <1>1, <1>2, <1>3, <1>4, <1>5, <1>6, <1>7, <1>8, <1>9, <1>10, <1>11, <1>12, <1>13,
     <1>14, <1>15, <1>16, <1>17, <1>18, <1>19 DEF Next, RunNext, OperatorNext

\* Until a slip, a verdict that a content is nobody's any more remains right.
LEMMA VerdictStep ==
  ASSUME Typed, EveryContentStaged, VerdictsStand, [Next]_vars, slips' = {}
  PROVE  VerdictsStand'
<1> USE ConstantsAssumption
    DEF Typed, TypeOK, EveryContentStaged, Staged, VerdictsStand, Stale, LockFiles,
        Absent, File, Acquiring, Holding, Over, Goto, others
<1>1. ASSUME NEW r \in Runs, Begin(r) PROVE VerdictsStand'
  BY <1>1 DEF Begin
<1>2. ASSUME NEW r \in Runs, Link(r) PROVE VerdictsStand'
  BY <1>2 DEF Link
<1>3. ASSUME NEW r \in Runs, LinkRefused(r) PROVE VerdictsStand'
  BY <1>3 DEF LinkRefused
<1>4. ASSUME NEW r \in Runs, Read(r) PROVE VerdictsStand'
  BY <1>4 DEF Read
<1>5. ASSUME NEW r \in Runs, JudgeHeld(r) PROVE VerdictsStand'
  BY <1>5 DEF JudgeHeld
<1>6. ASSUME NEW r \in Runs, JudgeStale(r) PROVE VerdictsStand'
  BY <1>6 DEF JudgeStale, GraceSlip, Held, Alive
<1>7. ASSUME NEW r \in Runs, Unlink(r) PROVE VerdictsStand'
  BY <1>7 DEF Unlink, Again, LateSlip
<1>8. ASSUME NEW r \in Runs, UnlinkFails(r) PROVE VerdictsStand'
  BY <1>8 DEF UnlinkFails, Again
<1>9. ASSUME NEW r \in Runs, PrepareFails(r) PROVE VerdictsStand'
  BY <1>9 DEF PrepareFails
<1>10. ASSUME NEW r \in Runs, Spawn(r) PROVE VerdictsStand'
  BY <1>10 DEF Spawn
<1>11. ASSUME NEW r \in Runs, Claim(r) PROVE VerdictsStand'
  BY <1>11 DEF Claim
<1>12. ASSUME NEW r \in Runs, Release(r) PROVE VerdictsStand'
  BY <1>12 DEF Release
<1>13. ASSUME NEW r \in Runs, MarkUnresolved(r) PROVE VerdictsStand'
  BY <1>13 DEF MarkUnresolved
<1>14. ASSUME NEW r \in Runs, Crash(r) PROVE VerdictsStand'
  BY <1>14 DEF Crash
<1>15. ASSUME NEW r \in Runs, GraceElapses(r) PROVE VerdictsStand'
  BY <1>15 DEF GraceElapses
<1>16. ASSUME NEW o \in Operators, OperatorDecides(o) PROVE VerdictsStand'
  BY <1>16 DEF OperatorDecides, GraceSlip, Held, Alive
<1>17. ASSUME NEW o \in Operators, OperatorReleases(o) PROVE VerdictsStand'
  BY <1>17 DEF OperatorReleases, LateSlip
<1>18. ASSUME NEW o \in Operators, OperatorQuits(o) PROVE VerdictsStand'
  BY <1>18 DEF OperatorQuits
<1>19. CASE UNCHANGED vars
  BY <1>19 DEF vars
<1> QED
  BY <1>1, <1>2, <1>3, <1>4, <1>5, <1>6, <1>7, <1>8, <1>9, <1>10, <1>11, <1>12, <1>13,
     <1>14, <1>15, <1>16, <1>17, <1>18, <1>19 DEF Next, RunNext, OperatorNext

\* Until a slip, the lock file goes on naming its holder.
LEMMA OwnerStep ==
  ASSUME Typed, EveryContentStaged, VerdictsStand, \A r \in Runs : OwnerOfLock(r),
         [Next]_vars, slips' = {}
  PROVE  \A r \in Runs : OwnerOfLock(r)'
<1> USE ConstantsAssumption
    DEF Typed, TypeOK, EveryContentStaged, Staged, VerdictsStand, Stale, LockFiles,
        OwnerOfLock, Absent, File, Acquiring, Holding, Over, Goto, others
<1>1. ASSUME NEW r \in Runs, Begin(r) PROVE \A q \in Runs : OwnerOfLock(q)'
  BY <1>1 DEF Begin
<1>2. ASSUME NEW r \in Runs, Link(r) PROVE \A q \in Runs : OwnerOfLock(q)'
  BY <1>2 DEF Link
<1>3. ASSUME NEW r \in Runs, LinkRefused(r) PROVE \A q \in Runs : OwnerOfLock(q)'
  BY <1>3 DEF LinkRefused
<1>4. ASSUME NEW r \in Runs, Read(r) PROVE \A q \in Runs : OwnerOfLock(q)'
  BY <1>4 DEF Read
<1>5. ASSUME NEW r \in Runs, JudgeHeld(r) PROVE \A q \in Runs : OwnerOfLock(q)'
  BY <1>5 DEF JudgeHeld
<1>6. ASSUME NEW r \in Runs, JudgeStale(r) PROVE \A q \in Runs : OwnerOfLock(q)'
  BY <1>6 DEF JudgeStale, GraceSlip
<1>7. ASSUME NEW r \in Runs, Unlink(r) PROVE \A q \in Runs : OwnerOfLock(q)'
  BY <1>7 DEF Unlink, Again, LateSlip
<1>8. ASSUME NEW r \in Runs, UnlinkFails(r) PROVE \A q \in Runs : OwnerOfLock(q)'
  BY <1>8 DEF UnlinkFails, Again
<1>9. ASSUME NEW r \in Runs, PrepareFails(r) PROVE \A q \in Runs : OwnerOfLock(q)'
  BY <1>9 DEF PrepareFails
<1>10. ASSUME NEW r \in Runs, Spawn(r) PROVE \A q \in Runs : OwnerOfLock(q)'
  BY <1>10 DEF Spawn
<1>11. ASSUME NEW r \in Runs, Claim(r) PROVE \A q \in Runs : OwnerOfLock(q)'
  BY <1>11 DEF Claim
<1>12. ASSUME NEW r \in Runs, Release(r) PROVE \A q \in Runs : OwnerOfLock(q)'
  BY <1>12 DEF Release
<1>13. ASSUME NEW r \in Runs, MarkUnresolved(r) PROVE \A q \in Runs : OwnerOfLock(q)'
  BY <1>13 DEF MarkUnresolved
<1>14. ASSUME NEW r \in Runs, Crash(r) PROVE \A q \in Runs : OwnerOfLock(q)'
  BY <1>14 DEF Crash
<1>15. ASSUME NEW r \in Runs, GraceElapses(r) PROVE \A q \in Runs : OwnerOfLock(q)'
  BY <1>15 DEF GraceElapses
<1>16. ASSUME NEW o \in Operators, OperatorDecides(o) PROVE \A q \in Runs : OwnerOfLock(q)'
  BY <1>16 DEF OperatorDecides, GraceSlip
<1>17. ASSUME NEW o \in Operators, OperatorReleases(o) PROVE \A q \in Runs : OwnerOfLock(q)'
  BY <1>17 DEF OperatorReleases, LateSlip
<1>18. ASSUME NEW o \in Operators, OperatorQuits(o) PROVE \A q \in Runs : OwnerOfLock(q)'
  BY <1>18 DEF OperatorQuits
<1>19. CASE UNCHANGED vars
  BY <1>19 DEF vars
<1> QED
  BY <1>1, <1>2, <1>3, <1>4, <1>5, <1>6, <1>7, <1>8, <1>9, <1>10, <1>11, <1>12, <1>13,
     <1>14, <1>15, <1>16, <1>17, <1>18, <1>19 DEF Next, RunNext, OperatorNext

\* Until a slip there is one holder at most: the one lock file names it.
LEMMA OwnersExclude ==
  ASSUME TypeOK, \A r \in Runs : OwnerOfLock(r)
  PROVE  MutualExclusion
BY DEF MutualExclusion, Holders, OwnerOfLock, Holding, File

\* Fairness plays no part in it, so whatever takes only the lock's steps keeps it.
LEMMA InvariantHolds == Init /\ [][Next]_vars => [](Typed /\ IInv)
<1>1. Init => Typed /\ IInv
  BY ConstantsAssumption
     DEF Init, Typed, RoundsLeft, TypeOK, IInv, EveryContentStaged, Staged, VerdictsStand,
         Stale, OwnerOfLock, LockFiles, Absent, PCs
<1>2. Typed /\ IInv /\ [Next]_vars => (Typed /\ IInv)'
  <2> SUFFICES ASSUME Typed, IInv, [Next]_vars PROVE Typed' /\ IInv'
    OBVIOUS
  <2>1. Typed' /\ EveryContentStaged'
    BY TypeStep, StagedStep DEF IInv
  <2>2. ASSUME slips' = {} PROVE VerdictsStand' /\ \A r \in Runs : OwnerOfLock(r)'
    <3>1. slips = {}
      BY <2>2, SlipsGrow
    <3>2. EveryContentStaged /\ VerdictsStand /\ \A r \in Runs : OwnerOfLock(r)
      BY <3>1 DEF IInv
    <3> QED
      BY <2>2, <3>2, VerdictStep, OwnerStep
  <2> QED
    BY <2>1, <2>2 DEF IInv
<1> QED
  BY <1>1, <1>2, PTL

\* Double ownership of a slice has no other cause than the two slips.
THEOREM Exclusion == Spec => []ExclusiveUntilSlip
<1>1. Typed /\ IInv => ExclusiveUntilSlip
  BY OwnersExclude DEF Typed, IInv, ExclusiveUntilSlip
<1> QED
  BY <1>1, InvariantHolds, PTL DEF Spec

\* Until a slip no claim, release or resolution hits another run's lock.
THEOREM OwnerNamed == Spec => []LockNamesHolder
<1>1. Typed /\ IInv => LockNamesHolder
  BY DEF IInv, LockNamesHolder
<1> QED
  BY <1>1, InvariantHolds, PTL DEF Spec

\* Only a human's release, or a slip, ends the `unresolved` state of a lock.
LEMMA UnresolvedStep ==
  ASSUME Typed, EveryContentStaged, VerdictsStand, \A r \in Runs : OwnerOfLock(r),
         [Next]_vars, slips' = {}, lock.state = "unresolved", lock' # lock
  PROVE  \E o \in Operators : OperatorReleases(o)
<1> DEFINE Resolved == \E o \in Operators : OperatorReleases(o)
<1> USE ConstantsAssumption
    DEF Typed, TypeOK, VerdictsStand, OwnerOfLock, LockFiles, Absent, File
<1>1. ASSUME NEW r \in Runs, Begin(r) PROVE Resolved
  BY <1>1 DEF Begin
<1>2. ASSUME NEW r \in Runs, Link(r) PROVE Resolved
  BY <1>2 DEF Link
<1>3. ASSUME NEW r \in Runs, LinkRefused(r) PROVE Resolved
  BY <1>3 DEF LinkRefused
<1>4. ASSUME NEW r \in Runs, Read(r) PROVE Resolved
  BY <1>4 DEF Read
<1>5. ASSUME NEW r \in Runs, JudgeHeld(r) PROVE Resolved
  BY <1>5 DEF JudgeHeld
<1>6. ASSUME NEW r \in Runs, JudgeStale(r) PROVE Resolved
  BY <1>6 DEF JudgeStale
<1>7. ASSUME NEW r \in Runs, Unlink(r) PROVE Resolved
  BY <1>7 DEF Unlink, Again, LateSlip
<1>8. ASSUME NEW r \in Runs, UnlinkFails(r) PROVE Resolved
  BY <1>8 DEF UnlinkFails, Again
<1>9. ASSUME NEW r \in Runs, PrepareFails(r) PROVE Resolved
  BY <1>9 DEF PrepareFails
<1>10. ASSUME NEW r \in Runs, Spawn(r) PROVE Resolved
  BY <1>10 DEF Spawn
<1>11. ASSUME NEW r \in Runs, Claim(r) PROVE Resolved
  BY <1>11 DEF Claim
<1>12. ASSUME NEW r \in Runs, Release(r) PROVE Resolved
  BY <1>12 DEF Release
<1>13. ASSUME NEW r \in Runs, MarkUnresolved(r) PROVE Resolved
  BY <1>13 DEF MarkUnresolved
<1>14. ASSUME NEW r \in Runs, Crash(r) PROVE Resolved
  BY <1>14 DEF Crash
<1>15. ASSUME NEW r \in Runs, GraceElapses(r) PROVE Resolved
  BY <1>15 DEF GraceElapses
<1>16. ASSUME NEW o \in Operators, OperatorDecides(o) PROVE Resolved
  BY <1>16 DEF OperatorDecides
<1>17. ASSUME NEW o \in Operators, OperatorReleases(o) PROVE Resolved
  BY <1>17 DEF OperatorReleases
<1>18. ASSUME NEW o \in Operators, OperatorQuits(o) PROVE Resolved
  BY <1>18 DEF OperatorQuits
<1>19. CASE UNCHANGED vars
  BY <1>19 DEF vars
<1> QED
  BY <1>1, <1>2, <1>3, <1>4, <1>5, <1>6, <1>7, <1>8, <1>9, <1>10, <1>11, <1>12, <1>13,
     <1>14, <1>15, <1>16, <1>17, <1>18, <1>19 DEF Next, RunNext, OperatorNext

\* The property NothingSelfHeals of the run, for every instance.
THEOREM HumansResolve == Spec => NothingSelfHeals
<1> DEFINE Heals == lock.state = "unresolved" /\ lock' # lock
                      => (\E o \in Operators : OperatorReleases(o)) \/ slips' # {}
<1>1. Typed /\ IInv /\ [Next]_vars => [Heals]_vars
  <2> SUFFICES ASSUME Typed, IInv, [Next]_vars, slips' = {},
                      lock.state = "unresolved", lock' # lock
               PROVE  \E o \in Operators : OperatorReleases(o)
    OBVIOUS
  <2>1. slips = {}
    BY SlipsGrow
  <2> QED
    BY <2>1, UnresolvedStep DEF IInv
<1> QED
  BY <1>1, InvariantHolds, PTL DEF Spec, NothingSelfHeals

\* Every step of the lock is an entry, a departure, a stutter or the break of
\* SliceOwnership.
LEMMA OwnershipStep ==
  ASSUME Typed, EveryContentStaged,
         slips = {} => VerdictsStand /\ \A r \in Runs : OwnerOfLock(r), [Next]_vars
  PROVE  [Ownership!Next]_(Ownership!vars)
<1>1. CASE slips' # {}
  BY <1>1 DEF Ownership!Next, Ownership!Break, Holders
<1>2. CASE slips' = {}
  <2>1. slips = {} /\ VerdictsStand /\ \A r \in Runs : OwnerOfLock(r)
    BY <1>2, SlipsGrow
  <2>2. ASSUME NEW r \in Runs, Holders = {}, Holders' = {r} PROVE Ownership!Enter(r)
    BY <1>2, <2>1, <2>2 DEF Ownership!Enter
  <2>3. ASSUME NEW r \in Runs, r \in Holders, Holders' = Holders \ {r}
        PROVE  Ownership!Leave(r)
    BY <1>2, <2>1, <2>3 DEF Ownership!Leave
  <2>4. ASSUME Holders' = Holders PROVE UNCHANGED Ownership!vars
    BY <1>2, <2>1, <2>4 DEF Ownership!vars
  <2>5. \/ Holders' = Holders
        \/ \E r \in Runs : Holders = {} /\ Holders' = {r}
        \/ \E r \in Runs : r \in Holders /\ Holders' = Holders \ {r}
    <3> USE <2>1 DEF Typed, TypeOK, Holders, Holding, Acquiring, Over, Goto
    <3>1. ASSUME NEW r \in Runs, Begin(r)
          PROVE  Holders' = Holders
      BY <3>1 DEF Begin
    <3>2. ASSUME NEW r \in Runs, Link(r)
          PROVE  Holders = {} /\ Holders' = {r}
      BY <3>2 DEF Link, OwnerOfLock, File, Absent
    <3>3. ASSUME NEW r \in Runs, LinkRefused(r)
          PROVE  Holders' = Holders
      BY <3>3 DEF LinkRefused
    <3>4. ASSUME NEW r \in Runs, Read(r)
          PROVE  Holders' = Holders
      BY <3>4 DEF Read
    <3>5. ASSUME NEW r \in Runs, JudgeHeld(r)
          PROVE  Holders' = Holders
      BY <3>5 DEF JudgeHeld
    <3>6. ASSUME NEW r \in Runs, JudgeStale(r)
          PROVE  Holders' = Holders
      BY <3>6 DEF JudgeStale
    <3>7. ASSUME NEW r \in Runs, Unlink(r)
          PROVE  Holders' = Holders
      BY <3>7 DEF Unlink, Again
    <3>8. ASSUME NEW r \in Runs, UnlinkFails(r)
          PROVE  Holders' = Holders
      BY <3>8 DEF UnlinkFails, Again
    <3>9. ASSUME NEW r \in Runs, PrepareFails(r)
          PROVE  r \in Holders /\ Holders' = Holders \ {r}
      BY <3>9 DEF PrepareFails
    <3>10. ASSUME NEW r \in Runs, Spawn(r)
          PROVE  Holders' = Holders
      BY <3>10 DEF Spawn
    <3>11. ASSUME NEW r \in Runs, Claim(r)
          PROVE  Holders' = Holders
      BY <3>11 DEF Claim
    <3>12. ASSUME NEW r \in Runs, Release(r)
          PROVE  r \in Holders /\ Holders' = Holders \ {r}
      BY <3>12 DEF Release
    <3>13. ASSUME NEW r \in Runs, MarkUnresolved(r)
          PROVE  Holders' = Holders
      BY <3>13 DEF MarkUnresolved
    <3>14. ASSUME NEW r \in Runs, Crash(r)
          PROVE  Holders' = Holders \/ (r \in Holders /\ Holders' = Holders \ {r})
      BY <3>14 DEF Crash
    <3>15. ASSUME NEW r \in Runs, GraceElapses(r)
          PROVE  Holders' = Holders
      BY <3>15 DEF GraceElapses
    <3>16. ASSUME NEW o \in Operators, OperatorDecides(o)
          PROVE  Holders' = Holders
      BY <3>16 DEF OperatorDecides
    <3>17. ASSUME NEW o \in Operators, OperatorReleases(o)
          PROVE  Holders' = Holders \/ (\E q \in Runs : q \in Holders /\ Holders' = Holders \ {q})
      BY <3>17 DEF OperatorReleases, File
    <3>18. ASSUME NEW o \in Operators, OperatorQuits(o)
          PROVE  Holders' = Holders
      BY <3>18 DEF OperatorQuits
    <3>19. CASE UNCHANGED vars
      BY <3>19 DEF vars
    <3> HIDE DEF Holders
    <3> QED
      BY <3>1, <3>2, <3>3, <3>4, <3>5, <3>6, <3>7, <3>8, <3>9, <3>10, <3>11, <3>12, <3>13,
         <3>14, <3>15, <3>16, <3>17, <3>18, <3>19 DEF Next, RunNext, OperatorNext
  <2> QED
    BY <2>2, <2>3, <2>4, <2>5 DEF Ownership!Next
<1> QED
  BY <1>1, <1>2

\* Every behaviour of the lock, with its fairness dropped, is one of SliceOwnership.
THEOREM LockImplementsOwnership == Spec => ImplementsOwnership
<1>1. Init => Ownership!Init
  BY DEF Init, Ownership!Init, Holders, Holding
<1>2. Typed /\ IInv /\ [Next]_vars => [Ownership!Next]_(Ownership!vars)
  BY OwnershipStep DEF IInv
<1> QED
  BY <1>1, <1>2, InvariantHolds, PTL DEF Spec, ImplementsOwnership, Ownership!Spec
==============================================================================
