------------------------------ MODULE SliceLock ------------------------------
(***************************************************************************)
(* The lock file of ONE slice (scripts/locks.py) and everybody who touches *)
(* it.  A run is one `dispatch` command and then the supervisor it spawns; *)
(* an operator is a human at `certify` or `reconcile --yes`.  Each action  *)
(* is one atomic file-system call (os.link, a read, os.replace, unlink) or *)
(* one decision taken on an earlier reading, because that is where another *)
(* process can come in between.                                            *)
(*                                                                         *)
(* A run goes through                                                      *)
(*                                                                         *)
(*   idle -> linking <-> reading -> judging -> unlinking -> linking ...    *)
(*   linking -> preparing -> spawned -> running -> ended | unknown         *)
(*                                                                         *)
(* and may die (kill -9, power loss) anywhere on the way.                  *)
(***************************************************************************)
EXTENDS Naturals

CONSTANTS
  Runs,         \* dispatches, each with the supervisor it spawns
  Operators,    \* humans resolving the slice by hand
  NoRun,        \* the owner of a lock that is not there
  MaxAttempts   \* _MAX_RECLAIM_ATTEMPTS

ASSUME ConstantsAssumption == NoRun \notin Runs /\ MaxAttempts \in Nat \ {0}

VARIABLES
  lock,       \* the lock file's content; `by` is its pid, or the run that staged it
  pc,         \* where each run stands
  seen,       \* the content a contending run read last
  attempts,   \* how often its acquisition loop went round
  aged,       \* LOCK_START_GRACE_SECONDS went by since its `started_at`
  opPc,       \* where each operator stands
  opSeen,     \* the content an operator decided on
  slips       \* history: the two ways in which a decision was wrong when acted on

vars == <<lock, pc, seen, attempts, aged, opPc, opSeen, slips>>

Absent == [state |-> "absent", by |-> NoRun]
File(s, r) == [state |-> s, by |-> r]
LockFiles == {Absent} \cup [state : {"starting", "running", "unresolved"}, by : Runs]

Acquiring == {"linking", "reading", "judging", "unlinking"}
Holding == {"preparing", "spawned", "running", "unknown"}
Over == {"ended", "dead"}
PCs == {"idle", "refused"} \cup Acquiring \cup Holding \cup Over

\* The runs that work in the slice, or that left it with nobody knowing whether
\* an agent still does ("unknown").
Holders == {r \in Runs : pc[r] \in Holding}

Alive(r) == pc[r] = "running"

\* Mutant: an `unresolved` lock does not count as held.
HeldForgetsUnresolved(l) ==
  \/ l.state = "running" /\ Alive(l.by)
  \/ l.state = "starting" /\ ~aged[l.by]

\* Mutant: no grace window, a `starting` lock is held for ever.
HeldWithoutGrace(l) ==
  \/ l.state = "unresolved"
  \/ l.state = "running" /\ Alive(l.by)
  \/ l.state = "starting"

\* Unresolved: whatever the pid.  Running: by the supervisor's pid.  Starting: by age.
Held(l) ==
  \/ l.state = "unresolved"
  \/ l.state = "running" /\ Alive(l.by)
  \/ l.state = "starting" /\ ~aged[l.by]

\* A verdict "not held" about the lock of a run that still starts up or works.
GraceSlip(l) ==
  IF l.state = "starting" /\ pc[l.by] \in Holding THEN {"grace"} ELSE {}

\* An unlink that removes another content than the one it was decided on.
LateSlip(judged) == IF lock \notin {Absent, judged} THEN {"late"} ELSE {}

TypeOK ==
  /\ lock \in LockFiles
  /\ pc \in [Runs -> PCs]
  /\ seen \in [Runs -> LockFiles]
  /\ attempts \in [Runs -> 0..MaxAttempts]
  /\ aged \in [Runs -> BOOLEAN]
  /\ opPc \in [Operators -> {"idle", "resolving"}]
  /\ opSeen \in [Operators -> LockFiles]
  /\ slips \subseteq {"grace", "late"}

Init ==
  /\ lock = Absent
  /\ pc = [r \in Runs |-> "idle"]
  /\ seen = [r \in Runs |-> Absent]
  /\ attempts = [r \in Runs |-> 0]
  /\ aged = [r \in Runs |-> FALSE]
  /\ opPc = [o \in Operators |-> "idle"]
  /\ opSeen = [o \in Operators |-> Absent]
  /\ slips = {}

------------------------------------------------------------------------------
(* acquire_slice_lock: stage a payload, then link it, or read, judge and    *)
(* unlink what is in the way.                                               *)

Goto(r, p) == pc' = [pc EXCEPT ![r] = p]
others == <<opPc, opSeen>>

Begin(r) ==
  /\ pc[r] = "idle"
  /\ Goto(r, "linking")
  /\ UNCHANGED <<lock, seen, attempts, aged, others, slips>>

\* Mutant: os.replace in the place of os.link.
LinkOverwrites(r) ==
  /\ pc[r] = "linking"
  /\ lock' = File("starting", r)
  /\ Goto(r, "preparing")
  /\ UNCHANGED <<seen, attempts, aged, others, slips>>

Link(r) ==
  /\ pc[r] = "linking"
  /\ lock = Absent
  /\ lock' = File("starting", r)
  /\ Goto(r, "preparing")
  /\ UNCHANGED <<seen, attempts, aged, others, slips>>

LinkRefused(r) ==
  /\ pc[r] = "linking"
  /\ lock # Absent
  /\ Goto(r, "reading")
  /\ UNCHANGED <<lock, seen, attempts, aged, others, slips>>

\* A lock that went away since the link was refused reads as {}, that is Absent.
Read(r) ==
  /\ pc[r] = "reading"
  /\ seen' = [seen EXCEPT ![r] = lock]
  /\ Goto(r, "judging")
  /\ UNCHANGED <<lock, attempts, aged, others, slips>>

JudgeHeld(r) ==
  /\ pc[r] = "judging"
  /\ Held(seen[r])
  /\ Goto(r, "refused")
  /\ seen' = [seen EXCEPT ![r] = Absent]
  /\ UNCHANGED <<lock, attempts, aged, others, slips>>

JudgeStale(r) ==
  /\ pc[r] = "judging"
  /\ ~Held(seen[r])
  /\ slips' = slips \cup GraceSlip(seen[r])
  /\ Goto(r, "unlinking")
  /\ UNCHANGED <<lock, seen, attempts, aged, others>>

\* Mutants: one round too many; no bound on the rounds.
AgainOnceMore(r) ==
  /\ attempts' = [attempts EXCEPT ![r] = @ + 1]
  /\ seen' = [seen EXCEPT ![r] = Absent]
  /\ Goto(r, IF attempts[r] = MaxAttempts THEN "refused" ELSE "linking")

AgainForEver(r) ==
  /\ seen' = [seen EXCEPT ![r] = Absent]
  /\ Goto(r, "linking")
  /\ UNCHANGED attempts

\* The loop goes round MaxAttempts times, then gives up with a LockError.
Again(r) ==
  /\ attempts' = [attempts EXCEPT ![r] = @ + 1]
  /\ seen' = [seen EXCEPT ![r] = Absent]
  /\ Goto(r, IF attempts[r] + 1 = MaxAttempts THEN "refused" ELSE "linking")

\* The file is unlinked whatever it holds by now.
Unlink(r) ==
  /\ pc[r] = "unlinking"
  /\ lock' = Absent
  /\ slips' = slips \cup LateSlip(seen[r])
  /\ Again(r)
  /\ UNCHANGED <<aged, others>>

\* An OSError of the unlink is ignored (a sharing violation that outlived its retries).
UnlinkFails(r) ==
  /\ pc[r] = "unlinking"
  /\ Again(r)
  /\ UNCHANGED <<lock, aged, others, slips>>

------------------------------------------------------------------------------
(* The dispatcher and its supervisor.  None of these looks at the owner of  *)
(* the lock it replaces or removes.                                         *)

PrepareFails(r) ==
  /\ pc[r] = "preparing"
  /\ lock' = Absent
  /\ Goto(r, "ended")
  /\ UNCHANGED <<seen, attempts, aged, others, slips>>

Spawn(r) ==
  /\ pc[r] = "preparing"
  /\ Goto(r, "spawned")
  /\ UNCHANGED <<lock, seen, attempts, aged, others, slips>>

Claim(r) ==
  /\ pc[r] = "spawned"
  /\ lock' = File("running", r)
  /\ Goto(r, "running")
  /\ UNCHANGED <<seen, attempts, aged, others, slips>>

Release(r) ==
  /\ pc[r] = "running"
  /\ lock' = Absent
  /\ Goto(r, "ended")
  /\ UNCHANGED <<seen, attempts, aged, others, slips>>

\* Mutant: the lock is released on a verdict nobody formed (issue #34).
ReleasesOnUnknown(r) ==
  /\ pc[r] = "running"
  /\ lock' = Absent
  /\ Goto(r, "unknown")
  /\ UNCHANGED <<seen, attempts, aged, others, slips>>

\* mark_lock_unresolved: no verdict was formed, and the lock says so from now on.
MarkUnresolved(r) ==
  /\ pc[r] = "running"
  /\ lock' = File("unresolved", r)
  /\ Goto(r, "unknown")
  /\ UNCHANGED <<seen, attempts, aged, others, slips>>

Crash(r) ==
  /\ pc[r] \in Acquiring \cup {"preparing", "spawned", "running"}
  /\ Goto(r, "dead")
  /\ UNCHANGED <<lock, seen, attempts, aged, others, slips>>

\* Time is only told apart where somebody may still compare it: before the lock is
\* linked, and while a `starting` content of this run is on disk or in a reader's hand.
GraceElapses(r) ==
  /\ \/ pc[r] \in Acquiring
     \/ lock = File("starting", r)
     \/ \E s \in Runs : seen[s] = File("starting", r)
  /\ ~aged[r]
  /\ aged' = [aged EXCEPT ![r] = TRUE]
  /\ UNCHANGED <<lock, pc, seen, attempts, others, slips>>

------------------------------------------------------------------------------
(* certify and reconcile --yes: decide on a reading of the lock, write the  *)
(* document (not modelled here), remove the lock.                           *)

OperatorDecides(o) ==
  /\ opPc[o] = "idle"
  /\ lock.state = "unresolved" \/ ~Held(lock)
  /\ opSeen' = [opSeen EXCEPT ![o] = lock]
  /\ opPc' = [opPc EXCEPT ![o] = "resolving"]
  /\ slips' = slips \cup GraceSlip(lock)
  /\ UNCHANGED <<lock, pc, seen, attempts, aged>>

OperatorReleases(o) ==
  /\ opPc[o] = "resolving"
  /\ lock' = Absent
  /\ opPc' = [opPc EXCEPT ![o] = "idle"]
  /\ pc' = [r \in Runs |->
              IF pc[r] = "unknown" /\ opSeen[o] = File("unresolved", r)
              THEN "ended" ELSE pc[r]]
  /\ slips' = slips \cup LateSlip(opSeen[o])
  /\ opSeen' = [opSeen EXCEPT ![o] = Absent]
  /\ UNCHANGED <<seen, attempts, aged>>

\* The document could not be moved, or the operator stopped there: the lock stays.
OperatorQuits(o) ==
  /\ opPc[o] = "resolving"
  /\ opPc' = [opPc EXCEPT ![o] = "idle"]
  /\ opSeen' = [opSeen EXCEPT ![o] = Absent]
  /\ UNCHANGED <<lock, pc, seen, attempts, aged, slips>>

------------------------------------------------------------------------------
RunNext(r) ==
  \/ Begin(r)
  \/ Link(r) \/ LinkRefused(r) \/ Read(r) \/ JudgeHeld(r) \/ JudgeStale(r)
  \/ Unlink(r) \/ UnlinkFails(r)
  \/ PrepareFails(r) \/ Spawn(r) \/ Claim(r) \/ Release(r) \/ MarkUnresolved(r)
  \/ Crash(r) \/ GraceElapses(r)

OperatorNext(o) == OperatorDecides(o) \/ OperatorReleases(o) \/ OperatorQuits(o)

Next == (\E r \in Runs : RunNext(r)) \/ (\E o \in Operators : OperatorNext(o))

\* The acquisition loop is straight-line code that calls nothing that waits, and
\* the clock runs.  Nothing is assumed of agents, of humans or of start-up.
AcquireStep(r) ==
  \/ Link(r) \/ LinkRefused(r) \/ Read(r) \/ JudgeHeld(r) \/ JudgeStale(r)
  \/ Unlink(r) \/ UnlinkFails(r)

Fairness ==
  \A r \in Runs : WF_vars(AcquireStep(r)) /\ WF_vars(GraceElapses(r))

Spec == Init /\ [][Next]_vars /\ Fairness

------------------------------------------------------------------------------
(* Properties.                                                              *)

\* Two runs never work in one slice, nor one beside an agent nobody judged.
MutualExclusion == \A r, s \in Holders : r = s

\* Double ownership has exactly two causes: a grace window that runs out on a
\* dispatch still starting up, and an unlink decided on a lock that has been
\* replaced since.  Every other interleaving of acquisition, claim, release,
\* crash and manual resolution is exclusive (locks.py, acquire_slice_lock).
ExclusiveUntilSlip == slips = {} => MutualExclusion

\* The lock file names its holder, in the state of its phase, until a slip: no
\* claim, release or resolution ever hits another run's lock.
OwnerOfLock(r) ==
  /\ pc[r] \in {"preparing", "spawned"} => lock = File("starting", r)
  /\ pc[r] = "running" => lock = File("running", r)
  /\ pc[r] = "unknown" => lock = File("unresolved", r)

LockNamesHolder == slips = {} => \A r \in Runs : OwnerOfLock(r)

\* Nothing but a human's release ever ends the `unresolved` state, unless a slip
\* has happened (locks.py: "held unconditionally until a human resolves it").
NothingSelfHeals ==
  [][lock.state = "unresolved" /\ lock' # lock
       => (\E o \in Operators : OperatorReleases(o)) \/ slips' # {}]_vars

\* The lock implements the promise of SliceOwnership: holders come and go one at a
\* time, and a slip is the only step that breaks the promise.
Ownership == INSTANCE SliceOwnership WITH holders <- Holders, broken <- (slips # {})
ImplementsOwnership == Ownership!Spec

\* acquire_slice_lock always comes to an end, whatever the contention.
AcquireTerminates ==
  \A r \in Runs : pc[r] = "linking" ~> pc[r] \notin Acquiring

\* The lock of a run that died never refuses a dispatch for ever: `running`
\* resolves with its pid, `starting` with its grace window.
DeadRunsLockHeals ==
  \A r \in Runs :
    (pc[r] = "dead" /\ lock.by = r /\ lock.state # "unresolved")
      ~> ~(lock.by = r /\ lock.state # "unresolved" /\ Held(lock))

\* The module documentation claims that a `starting` lock closes the gap between
\* acquisition and claim: with every reading acted on at once (no late unlink),
\* exclusion should hold.  It does not: see the finding.
GraceIsNoHole == "late" \notin slips => MutualExclusion

\* The documentation of acquire_slice_lock claims that a lock held by a live
\* supervisor or by a dispatcher inside its grace window is refused: with every
\* start-up inside the window, exclusion should hold.  It does not.
ReclaimIsExclusive == "grace" \notin slips => MutualExclusion
==============================================================================
