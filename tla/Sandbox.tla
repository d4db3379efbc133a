------------------------------- MODULE Sandbox -------------------------------
(***************************************************************************)
(* The sandbox stacks of all slices (scripts/sandbox.py): the allocation   *)
(* records under .superpowers/sandbox, the containers and volumes docker   *)
(* keeps, and the commands that bring a stack up or tear it down.          *)
(*                                                                         *)
(* A command is a dispatch, a supervisor's sweep, a closing, or a human at *)
(* `sandbox up | restart | teardown`.  Only `ensure_up` takes the          *)
(* allocation lock; a teardown takes none.  The lock is used by its        *)
(* promise (SliceOwnership), which SliceLock keeps until a slip.           *)
(***************************************************************************)
EXTENDS Naturals

CONSTANTS
  Branches,      \* git branches that ask for a stack
  Names,         \* compose project names
  ProjectName,   \* project_name_for: many branches may share a name
  Octets,        \* the addresses are 127.0.0.2 .. 127.0.0.(Octets + 1)
  Start,         \* _hash_octet: where the search for a branch's address starts
  Commands,      \* processes, each giving one command after the other
  Nobody,
  Orphan         \* the holder of a lock whose process died

ASSUME SandboxAssumption ==
  /\ ProjectName \in [Branches -> Names]
  /\ Octets \in Nat \ {0}
  /\ Start \in [Branches -> 0..(Octets - 1)]
  /\ Nobody \notin Commands
  /\ Orphan \notin Commands \cup {Nobody}

Slots == 0..(Octets - 1)

VARIABLES
  record,     \* the record file of each project name
  stack,      \* the address each project's containers publish on, or Down
  volumes,    \* whether docker keeps volumes for the project
  alloc,      \* who holds the allocation lock; Orphan when its holder died
  pc,         \* where each command stands
  order,      \* what it was asked for, for which branch
  got,        \* the record it resolved or allocated
  torn        \* history: the clearing of a record overlapped a start of the same stack

sandboxVars == <<record, stack, volumes, alloc, pc, order, got, torn>>

Record(b, s) == [kind |-> "record", branch |-> b, slot |-> s]
NoRecord == [kind |-> "none"]
HalfWritten == [kind |-> "half written"]
Records == [kind : {"record"}, branch : Branches, slot : Slots]
Readable(r) == r \in Records
Down == Octets
Modes == {"up", "restart", "containers", "volumes"}
Order(m, b) == [mode |-> m, branch |-> b]
Orders == [mode : Modes, branch : Branches]
InAllocation == {"reading", "choosing", "creating", "writing", "releasing"}

SandboxTypeOK ==
  /\ record \in [Names -> Records \cup {NoRecord, HalfWritten}]
  /\ stack \in [Names -> Slots \cup {Down}]
  /\ volumes \in [Names -> BOOLEAN]
  /\ alloc \in Commands \cup {Nobody, Orphan}
  /\ pc \in [Commands -> {"idle", "waiting", "starting", "looking", "stopping", "clearing"}
                           \cup InAllocation]
  /\ order \in [Commands -> Orders]
  /\ got \in [Commands -> Records \cup {NoRecord}]
  /\ torn \in BOOLEAN

SandboxInit ==
  /\ record = [n \in Names |-> NoRecord]
  /\ stack = [n \in Names |-> Down]
  /\ volumes = [n \in Names |-> FALSE]
  /\ alloc = Nobody
  /\ pc = [c \in Commands |-> "idle"]
  /\ order \in [Commands -> {Order("up", b) : b \in Branches}]
  /\ got = [c \in Commands |-> NoRecord]
  /\ torn = FALSE

Branch(c) == order[c].branch
NameOf(c) == ProjectName[Branch(c)]
Goto(c, p) == pc' = [pc EXCEPT ![c] = p]
Take(c, r) == got' = [got EXCEPT ![c] = r]
Leave(c) == Goto(c, "idle") /\ Take(c, NoRecord)
Begin(c, mode, b) ==
  /\ pc[c] = "idle"
  /\ order' = [order EXCEPT ![c] = Order(mode, b)]
  /\ Goto(c, IF mode = "up" THEN "waiting" ELSE "looking")
  /\ UNCHANGED <<record, stack, volumes, alloc, got, torn>>

------------------------------------------------------------------------------
(* ensure_up: under the allocation lock find the record or choose an        *)
(* address and record it; then `docker compose up` and wait for health.     *)

\* Mutant: addresses are chosen and recorded without serialisation.
TakesNoLock(c) ==
  /\ pc[c] = "waiting"
  /\ alloc' = c
  /\ Goto(c, "reading")
  /\ UNCHANGED <<record, stack, volumes, order, got, torn>>

TakeAlloc(c) ==
  /\ pc[c] = "waiting"
  /\ alloc = Nobody
  /\ alloc' = c
  /\ Goto(c, "reading")
  /\ UNCHANGED <<record, stack, volumes, order, got, torn>>

\* Twenty attempts, a tenth of a second apart.
GiveUp(c) ==
  /\ pc[c] = "waiting"
  /\ alloc # Nobody
  /\ Leave(c)
  /\ UNCHANGED <<record, stack, volumes, alloc, order, torn>>

\* Mutant: an address is allocated anew on every start.
AllocatesAnew(c) ==
  /\ pc[c] = "reading"
  /\ Goto(c, "choosing")
  /\ UNCHANGED <<record, stack, volumes, alloc, order, got, torn>>

\* A record that cannot be read is none.
ReadRecord(c) ==
  /\ pc[c] = "reading"
  /\ LET r == record[NameOf(c)] IN
     IF Readable(r) THEN Take(c, r) /\ Goto(c, "releasing")
                    ELSE Goto(c, "choosing") /\ UNCHANGED got
  /\ UNCHANGED <<record, stack, volumes, alloc, order, torn>>

\* Mutant: only the addresses of stacks that are up are taken.
BusyWhileUp == {s \in Slots : \E n \in Names : stack[n] = s}

Busy == {s \in Slots : \E n \in Names : Readable(record[n]) /\ record[n].slot = s}

\* The first of these addresses, walking up from the branch's own and around.
Distance(b, s) == (s + Octets - Start[b]) % Octets

FirstFrom(b, slots) ==
  {s \in slots : \A t \in slots : Distance(b, s) <= Distance(b, t)}

\* `answering` are the addresses a bind succeeds on; stacks do not occupy them.
Choose(c) ==
  /\ pc[c] = "choosing"
  /\ \E answering \in SUBSET Slots :
     \E s \in FirstFrom(Branch(c), answering \ Busy) : Take(c, Record(Branch(c), s))
  /\ Goto(c, "creating")
  /\ UNCHANGED <<record, stack, volumes, alloc, order, torn>>

\* No address is left, or the host does not configure the one probed.
ChooseFails(c) ==
  /\ pc[c] = "choosing"
  /\ alloc' = Nobody
  /\ Leave(c)
  /\ UNCHANGED <<record, stack, volumes, order, torn>>

\* write_text opens the file, which empties it, and then writes.
OpenRecord(c) ==
  /\ pc[c] = "creating"
  /\ record' = [record EXCEPT ![NameOf(c)] = HalfWritten]
  /\ Goto(c, "writing")
  /\ UNCHANGED <<stack, volumes, alloc, order, got, torn>>

\* What is written to a file that has been unlinked meanwhile is lost.
WriteRecord(c) ==
  /\ pc[c] = "writing"
  /\ record' = IF record[NameOf(c)] = HalfWritten
                 THEN [record EXCEPT ![NameOf(c)] = got[c]] ELSE record
  /\ Goto(c, "releasing")
  /\ UNCHANGED <<stack, volumes, alloc, order, got, torn>>

ReleaseAlloc(c) ==
  /\ pc[c] = "releasing"
  /\ alloc' = Nobody
  /\ Goto(c, "starting")
  /\ UNCHANGED <<record, stack, volumes, order, got, torn>>

\* A teardown of the same stack has dropped the volumes and not yet the record.
BeingCleared(c) == \E d \in Commands \ {c} : pc[d] = "clearing" /\ NameOf(d) = NameOf(c)

\* Health that is never reported raises as well, with the stack left up.
ComposeUp(c) ==
  /\ pc[c] = "starting"
  /\ stack' = [stack EXCEPT ![NameOf(c)] = got[c].slot]
  /\ volumes' = [volumes EXCEPT ![NameOf(c)] = TRUE]
  /\ torn' = (torn \/ BeingCleared(c))
  /\ Leave(c)
  /\ UNCHANGED <<record, alloc, order>>

\* Docker stops anywhere: before it made anything, or with volumes and no containers.
ComposeUpFails(c) ==
  /\ pc[c] = "starting"
  /\ \E made \in BOOLEAN :
       volumes' = [volumes EXCEPT ![NameOf(c)] = @ \/ made]
  /\ torn' = (torn \/ BeingCleared(c))
  /\ Leave(c)
  /\ UNCHANGED <<record, stack, alloc, order>>

------------------------------------------------------------------------------
(* tear_down: no lock.  With volumes, the record goes last.                 *)

LookUp(c) ==
  /\ pc[c] = "looking"
  /\ LET r == record[NameOf(c)] IN
     IF Readable(r) THEN Take(c, r) /\ Goto(c, "stopping")
     ELSE IF order[c].mode = "restart" THEN Goto(c, "waiting") /\ UNCHANGED got
     ELSE Leave(c)
  /\ UNCHANGED <<record, stack, volumes, alloc, order, torn>>

\* Mutant: the record is cleared whatever the mode.
DownAlwaysClears(c) ==
  /\ pc[c] = "stopping"
  /\ stack' = [stack EXCEPT ![NameOf(c)] = Down]
  /\ volumes' = [volumes EXCEPT ![NameOf(c)] = @ /\ order[c].mode # "volumes"]
  /\ Goto(c, "clearing")
  /\ UNCHANGED <<record, alloc, order, got, torn>>

ComposeDown(c) ==
  /\ pc[c] = "stopping"
  /\ stack' = [stack EXCEPT ![NameOf(c)] = Down]
  /\ IF order[c].mode = "volumes"
       THEN /\ volumes' = [volumes EXCEPT ![NameOf(c)] = FALSE]
            /\ Goto(c, "clearing")
            /\ UNCHANGED got
       ELSE /\ Goto(c, IF order[c].mode = "restart" THEN "waiting" ELSE "idle")
            /\ Take(c, NoRecord)
            /\ UNCHANGED volumes
  /\ UNCHANGED <<record, alloc, order, torn>>

ComposeDownFails(c) ==
  /\ pc[c] = "stopping"
  /\ stack' \in {stack, [stack EXCEPT ![NameOf(c)] = Down]}
  /\ Leave(c)
  /\ UNCHANGED <<record, volumes, alloc, order, torn>>

\* A start has the record in its hands.
CountedOn(c) ==
  \E d \in Commands \ {c} :
    pc[d] \in {"writing", "releasing", "starting"} /\ NameOf(d) = NameOf(c)

ClearRecord(c) ==
  /\ pc[c] = "clearing"
  /\ record' = [record EXCEPT ![NameOf(c)] = NoRecord]
  /\ torn' = (torn \/ CountedOn(c))
  /\ Leave(c)
  /\ UNCHANGED <<stack, volumes, alloc, order>>

------------------------------------------------------------------------------
(* A command is killed; the grace window of the lock it left runs out.      *)

Dies(c) ==
  /\ pc[c] # "idle"
  /\ alloc' = IF alloc = c THEN Orphan ELSE alloc
  /\ Leave(c)
  /\ UNCHANGED <<record, stack, volumes, order, torn>>

OrphanAges ==
  /\ alloc = Orphan
  /\ alloc' = Nobody
  /\ UNCHANGED <<record, stack, volumes, pc, order, got, torn>>

EnsureUp(c) ==
  \/ TakeAlloc(c) \/ GiveUp(c) \/ ReadRecord(c) \/ Choose(c) \/ ChooseFails(c)
  \/ OpenRecord(c) \/ WriteRecord(c) \/ ReleaseAlloc(c)
  \/ ComposeUp(c) \/ ComposeUpFails(c)

TearDown(c) == LookUp(c) \/ ComposeDown(c) \/ ComposeDownFails(c) \/ ClearRecord(c)

SandboxNext ==
  \/ \E c \in Commands : \/ \E mode \in Modes, b \in Branches : Begin(c, mode, b)
                         \/ EnsureUp(c) \/ TearDown(c) \/ Dies(c)
  \/ OrphanAges

SandboxSpec == SandboxInit /\ [][SandboxNext]_sandboxVars

------------------------------------------------------------------------------
(* Properties.                                                              *)

\* Two tracked stacks never hold one address, through crashes in the middle of a
\* record and teardowns that respect no lock (_allocation_lock, ip_for).
DistinctAddresses ==
  \A m, n \in Names :
    m # n /\ Readable(record[m]) /\ Readable(record[n]) =>
      record[m].slot # record[n].slot

\* The record is there as long as the volumes are, or a leaked volume would hold its
\* data where no command finds it (SandboxState: "exists exactly as long as").  Only a
\* teardown that overlaps a start of the same stack breaks this.
VolumesKeepTheirRecord ==
  ~torn => \A n \in Names : volumes[n] => Readable(record[n])

\* A start is never told to publish on the address of another stack, up or down
\* (sandbox.py: "parallel worktrees never contend for a host port").
NoContention ==
  \A c \in Commands :
    ~torn /\ pc[c] = "starting" =>
      \A n \in Names \ {NameOf(c)} :
        /\ stack[n] # got[c].slot
        /\ Readable(record[n]) => record[n].slot # got[c].slot

\* "a re-`up` returns the same address and the same data": while the volumes live on,
\* so does the record, unchanged.
SameDataSameAddress ==
  [][\A n \in Names :
       volumes[n] /\ volumes'[n] /\ ~torn' => record'[n] = record[n]]_sandboxVars

\* The documentation of the module: "Each slice's compose stack is published on its own
\* address and its own compose project".  A branch should not be given another's stack.
StackOfItsOwn ==
  \A c \in Commands : pc[c] = "starting" => got[c].branch = Branch(c)
==============================================================================
