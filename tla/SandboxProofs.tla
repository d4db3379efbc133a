---------------------------- MODULE SandboxProofs ----------------------------
(***************************************************************************)
(* Theorems about Sandbox, for any number of commands, branches and        *)
(* addresses.                                                              *)
(***************************************************************************)
EXTENDS Sandbox, TLAPS

\* The allocation steps exclude each other.
LockedPhases == \A c \in Commands : pc[c] \in InAllocation => alloc = c

\* Nobody allocates over a record that can be read.
AllocatesForNone ==
  \A c \in Commands :
    pc[c] \in {"choosing", "creating", "writing"} => ~Readable(record[NameOf(c)])

HoldsARecord ==
  \A c \in Commands :
    pc[c] \in {"creating", "writing", "releasing", "starting"} => got[c] \in Records

\* The address chosen stays nobody's until it is recorded.
ChosenIsFree ==
  \A c \in Commands :
    pc[c] \in {"creating", "writing"} =>
      \A n \in Names :
        n # NameOf(c) /\ Readable(record[n]) => record[n].slot # got[c].slot

\* The part of the invariant that makes the addresses distinct.
AllocInv ==
  /\ SandboxTypeOK /\ LockedPhases /\ AllocatesForNone /\ HoldsARecord
  /\ ChosenIsFree /\ DistinctAddresses

\* What the steps need to know of records and addresses.
LEMMA RecordFacts ==
  /\ NoRecord \notin Records /\ HalfWritten \notin Records /\ NoRecord # HalfWritten
  /\ \A r \in Records : r.slot \in Slots
  /\ \A b \in Branches, s \in Slots : Record(b, s) \in Records /\ Record(b, s).slot = s
  /\ Down \notin Slots
  /\ "up" \in Modes
  /\ \A m \in Modes, b \in Branches : Order(m, b) \in Orders /\ Order(m, b).branch = b
  /\ \A o \in Orders : o.branch \in Branches
<1>1. Down \notin Slots
  BY SandboxAssumption DEF Down, Slots
<1>2. NoRecord # HalfWritten
  <2> SUFFICES ASSUME NoRecord = HalfWritten PROVE FALSE
    OBVIOUS
  <2>1. NoRecord.kind = HalfWritten.kind
    OBVIOUS
  <2> QED
    BY <2>1 DEF NoRecord, HalfWritten
<1>3. NoRecord \notin Records /\ HalfWritten \notin Records
  <2>1. \A r \in Records : r.kind = "record"
    BY DEF Records
  <2>2. NoRecord.kind = "none" /\ HalfWritten.kind = "half written"
    BY DEF NoRecord, HalfWritten
  <2> QED
    BY <2>1, <2>2
<1> QED
  BY <1>1, <1>2, <1>3 DEF Records, Record, Orders, Order, Modes

LEMMA InitAlloc == SandboxInit => AllocInv
<1> SUFFICES ASSUME SandboxInit PROVE AllocInv
  OBVIOUS
<1> USE SandboxAssumption, RecordFacts DEF SandboxInit
<1>1. /\ record \in [Names -> Records \cup {NoRecord, HalfWritten}]
      /\ stack \in [Names -> Slots \cup {Down}]
      /\ volumes \in [Names -> BOOLEAN]
      /\ order \in [Commands -> Orders]
      /\ got \in [Commands -> Records \cup {NoRecord}]
  OBVIOUS
<1>2. SandboxTypeOK
  BY <1>1 DEF SandboxTypeOK
<1>3. LockedPhases /\ HoldsARecord
  BY DEF LockedPhases, HoldsARecord, InAllocation
<1>4. AllocatesForNone
  BY DEF AllocatesForNone
<1>5. ChosenIsFree
  BY DEF ChosenIsFree
<1>6. DistinctAddresses
  BY DEF DistinctAddresses, Readable
<1> QED
  BY <1>2, <1>3, <1>4, <1>5, <1>6 DEF AllocInv

LEMMA FirstFromIsOneOf ==
  ASSUME NEW b, NEW slots, NEW s \in FirstFrom(b, slots)
  PROVE  s \in slots
BY DEF FirstFrom

\* Every step but that of a new record leaves the allocation's invariant as it is.
LEMMA AllocStep == AllocInv /\ [SandboxNext]_sandboxVars => AllocInv'
<1> SUFFICES ASSUME AllocInv, [SandboxNext]_sandboxVars PROVE AllocInv'
  OBVIOUS
<1> USE SandboxAssumption, RecordFacts
<1>0. \A c \in Commands : NameOf(c) \in Names /\ Branch(c) \in Branches
  BY DEF AllocInv, SandboxTypeOK, NameOf, Branch
<1>1. ASSUME NEW c \in Commands, NEW mode \in Modes, NEW b \in Branches, Begin(c, mode, b)
      PROVE  AllocInv'
  BY <1>1 DEF Begin, Goto, AllocInv, SandboxTypeOK, LockedPhases, AllocatesForNone,
       HoldsARecord, ChosenIsFree, DistinctAddresses, InAllocation, NameOf, Branch
<1>2. ASSUME NEW c \in Commands, TakeAlloc(c) PROVE AllocInv'
  BY <1>2 DEF TakeAlloc, Goto, AllocInv, SandboxTypeOK, LockedPhases, AllocatesForNone,
       HoldsARecord, ChosenIsFree, DistinctAddresses, InAllocation, NameOf, Branch
<1>3. ASSUME NEW c \in Commands, GiveUp(c) PROVE AllocInv'
  BY <1>3 DEF GiveUp, Leave, Take, Goto, AllocInv, SandboxTypeOK, LockedPhases,
       AllocatesForNone, HoldsARecord, ChosenIsFree, DistinctAddresses, InAllocation,
       NameOf, Branch
<1>4. ASSUME NEW c \in Commands, ReadRecord(c) PROVE AllocInv'
  <2> USE <1>0, <1>4 DEF ReadRecord, Take, Goto, AllocInv
  <2>1. SandboxTypeOK'
    BY DEF SandboxTypeOK, InAllocation, Readable
  <2>2. LockedPhases'
    BY DEF SandboxTypeOK, LockedPhases, InAllocation
  <2>3. AllocatesForNone'
    BY DEF SandboxTypeOK, AllocatesForNone, NameOf, Branch
  <2>4. HoldsARecord'
    BY DEF SandboxTypeOK, HoldsARecord, Readable
  <2>5. ChosenIsFree'
    BY DEF SandboxTypeOK, ChosenIsFree, NameOf, Branch
  <2>6. DistinctAddresses'
    BY DEF DistinctAddresses
  <2> QED
    BY <2>1, <2>2, <2>3, <2>4, <2>5, <2>6
<1>5. ASSUME NEW c \in Commands, Choose(c) PROVE AllocInv'
  <2>1. PICK s : s \in Slots \ Busy /\ Take(c, Record(Branch(c), s))
    BY <1>5, FirstFromIsOneOf DEF Choose
  <2>2. Record(Branch(c), s) \in Records /\ Record(Branch(c), s).slot = s
    BY <2>1 DEF Records, Record, AllocInv, SandboxTypeOK, Branch
  <2>3. \A n \in Names : Readable(record[n]) => record[n].slot # s
    BY <2>1 DEF Busy
  <2> QED
    BY <1>5, <2>1, <2>2, <2>3 DEF Choose, Take, Goto, AllocInv, SandboxTypeOK, LockedPhases,
       AllocatesForNone, HoldsARecord, ChosenIsFree, DistinctAddresses, InAllocation,
       NameOf, Branch
<1>6. ASSUME NEW c \in Commands, ChooseFails(c) PROVE AllocInv'
  BY <1>6 DEF ChooseFails, Leave, Take, Goto, AllocInv, SandboxTypeOK, LockedPhases,
       AllocatesForNone, HoldsARecord, ChosenIsFree, DistinctAddresses, InAllocation,
       NameOf, Branch
<1>7. ASSUME NEW c \in Commands, OpenRecord(c) PROVE AllocInv'
  BY <1>7 DEF OpenRecord, Goto, AllocInv, SandboxTypeOK, LockedPhases,
       AllocatesForNone, HoldsARecord, ChosenIsFree, DistinctAddresses, InAllocation,
       NameOf, Branch, Readable
<1>8. ASSUME NEW c \in Commands, WriteRecord(c) PROVE AllocInv'
  BY <1>8 DEF WriteRecord, Goto, AllocInv, SandboxTypeOK, LockedPhases,
       AllocatesForNone, HoldsARecord, ChosenIsFree, DistinctAddresses, InAllocation,
       NameOf, Branch, Readable
<1>9. ASSUME NEW c \in Commands, ReleaseAlloc(c) PROVE AllocInv'
  BY <1>9 DEF ReleaseAlloc, Goto, AllocInv, SandboxTypeOK, LockedPhases,
       AllocatesForNone, HoldsARecord, ChosenIsFree, DistinctAddresses, InAllocation,
       NameOf, Branch
<1>10. ASSUME NEW c \in Commands, ComposeUp(c) PROVE AllocInv'
  <2>1. got[c].slot \in Slots
    BY <1>10 DEF ComposeUp, AllocInv, HoldsARecord
  <2> QED
    BY <1>10, <2>1 DEF ComposeUp, BeingCleared, Leave, Take, Goto, AllocInv, SandboxTypeOK,
       LockedPhases, AllocatesForNone, HoldsARecord, ChosenIsFree, DistinctAddresses,
       InAllocation, NameOf, Branch
<1>11. ASSUME NEW c \in Commands, ComposeUpFails(c) PROVE AllocInv'
  BY <1>11 DEF ComposeUpFails, BeingCleared, Leave, Take, Goto, AllocInv, SandboxTypeOK,
       LockedPhases, AllocatesForNone, HoldsARecord, ChosenIsFree, DistinctAddresses,
       InAllocation, NameOf, Branch
<1>12. ASSUME NEW c \in Commands, LookUp(c) PROVE AllocInv'
  <2> USE <1>0, <1>12 DEF LookUp, Leave, Take, Goto, AllocInv
  <2>1. SandboxTypeOK'
    BY DEF SandboxTypeOK, InAllocation, Readable
  <2>2. LockedPhases'
    BY DEF SandboxTypeOK, LockedPhases, InAllocation
  <2>3. AllocatesForNone'
    BY DEF SandboxTypeOK, AllocatesForNone, NameOf, Branch
  <2>4. HoldsARecord'
    BY DEF SandboxTypeOK, HoldsARecord, Readable
  <2>5. ChosenIsFree'
    BY DEF SandboxTypeOK, ChosenIsFree, NameOf, Branch
  <2>6. DistinctAddresses'
    BY DEF DistinctAddresses
  <2> QED
    BY <2>1, <2>2, <2>3, <2>4, <2>5, <2>6
<1>13. ASSUME NEW c \in Commands, ComposeDown(c) PROVE AllocInv'
  <2> USE <1>0, <1>13 DEF ComposeDown, Take, Goto, AllocInv
  <2>1. SandboxTypeOK'
    BY DEF SandboxTypeOK, InAllocation, Readable
  <2>2. LockedPhases'
    BY DEF SandboxTypeOK, LockedPhases, InAllocation
  <2>3. AllocatesForNone'
    BY DEF SandboxTypeOK, AllocatesForNone, NameOf, Branch
  <2>4. HoldsARecord'
    BY DEF SandboxTypeOK, HoldsARecord, Readable
  <2>5. ChosenIsFree'
    BY DEF SandboxTypeOK, ChosenIsFree, NameOf, Branch
  <2>6. DistinctAddresses'
    BY DEF DistinctAddresses
  <2> QED
    BY <2>1, <2>2, <2>3, <2>4, <2>5, <2>6
<1>14. ASSUME NEW c \in Commands, ComposeDownFails(c) PROVE AllocInv'
  BY <1>14 DEF ComposeDownFails, Leave, Take, Goto, AllocInv, SandboxTypeOK, LockedPhases,
       AllocatesForNone, HoldsARecord, ChosenIsFree, DistinctAddresses, InAllocation,
       NameOf, Branch
<1>15. ASSUME NEW c \in Commands, ClearRecord(c) PROVE AllocInv'
  BY <1>15 DEF ClearRecord, CountedOn, Leave, Take, Goto, AllocInv, SandboxTypeOK,
       LockedPhases, AllocatesForNone, HoldsARecord, ChosenIsFree, DistinctAddresses,
       InAllocation, NameOf, Branch, Readable
<1>16. ASSUME NEW c \in Commands, Dies(c) PROVE AllocInv'
  BY <1>16 DEF Dies, Leave, Take, Goto, AllocInv, SandboxTypeOK, LockedPhases,
       AllocatesForNone, HoldsARecord, ChosenIsFree, DistinctAddresses, InAllocation,
       NameOf, Branch
<1>17. ASSUME OrphanAges PROVE AllocInv'
  BY <1>17 DEF OrphanAges, AllocInv, SandboxTypeOK, LockedPhases, AllocatesForNone,
       HoldsARecord, ChosenIsFree, DistinctAddresses, InAllocation, NameOf, Branch
<1>18. ASSUME UNCHANGED sandboxVars PROVE AllocInv'
  BY <1>18 DEF sandboxVars, AllocInv, SandboxTypeOK, LockedPhases, AllocatesForNone,
       HoldsARecord, ChosenIsFree, DistinctAddresses, NameOf, Branch
<1> QED
  BY <1>1, <1>2, <1>3, <1>4, <1>5, <1>6, <1>7, <1>8, <1>9, <1>10, <1>11, <1>12, <1>13,
     <1>14, <1>15, <1>16, <1>17, <1>18 DEF SandboxNext, EnsureUp, TearDown

\* The variables of the sandbox keep their types.
THEOREM SandboxTypeCorrect == SandboxSpec => []SandboxTypeOK
<1>1. AllocInv => SandboxTypeOK
  BY DEF AllocInv
<1> QED
  BY <1>1, InitAlloc, AllocStep, PTL DEF SandboxSpec

\* Two records that can be read never hold one address.
THEOREM AddressesDistinct == SandboxSpec => []DistinctAddresses
<1>1. AllocInv => DistinctAddresses
  BY DEF AllocInv
<1> QED
  BY <1>1, InitAlloc, AllocStep, PTL DEF SandboxSpec

------------------------------------------------------------------------------
(* What the records promise as long as no clearing overlapped a start.      *)

\* A start holds what its record says.
HoldsTheRecord ==
  \A c \in Commands :
    pc[c] \in {"releasing", "starting"} => record[NameOf(c)] = got[c]

\* A record about to be written is still the empty file.
WritesItsOwn ==
  \A c \in Commands : pc[c] = "writing" => record[NameOf(c)] = HalfWritten

\* What is cleared has lost its volumes.
ClearsTheEmpty ==
  \A c \in Commands : pc[c] = "clearing" => ~volumes[NameOf(c)]

VolumesRecorded == \A n \in Names : volumes[n] => Readable(record[n])

PublishesItsRecord ==
  \A n \in Names : stack[n] # Down => volumes[n] /\ record[n].slot = stack[n]

KeepInv ==
  ~torn => /\ HoldsTheRecord /\ WritesItsOwn /\ ClearsTheEmpty
           /\ VolumesRecorded /\ PublishesItsRecord

LEMMA InitKeep == SandboxInit => KeepInv
BY DEF SandboxInit, KeepInv, HoldsTheRecord, WritesItsOwn, ClearsTheEmpty, VolumesRecorded,
       PublishesItsRecord

LEMMA KeepStep == AllocInv /\ AllocInv' /\ KeepInv /\ [SandboxNext]_sandboxVars => KeepInv'
<1> SUFFICES ASSUME AllocInv, AllocInv', KeepInv, [SandboxNext]_sandboxVars, ~torn'
             PROVE  /\ HoldsTheRecord' /\ WritesItsOwn' /\ ClearsTheEmpty'
                    /\ VolumesRecorded' /\ PublishesItsRecord'
  BY DEF KeepInv
<1> USE SandboxAssumption, RecordFacts
<1>0. \A c \in Commands : NameOf(c) \in Names /\ Branch(c) \in Branches
  BY DEF AllocInv, SandboxTypeOK, NameOf, Branch
<1>1. ASSUME NEW c \in Commands, NEW mode \in Modes, NEW b \in Branches, Begin(c, mode, b) PROVE KeepInv'
  BY <1>1 DEF Begin, Leave, Take, Goto, AllocInv, SandboxTypeOK, LockedPhases,
       AllocatesForNone, HoldsARecord, KeepInv, HoldsTheRecord, WritesItsOwn,
       ClearsTheEmpty, VolumesRecorded, PublishesItsRecord, InAllocation, NameOf, Branch,
       Readable, BeingCleared, CountedOn
<1>2. ASSUME NEW c \in Commands, TakeAlloc(c) PROVE KeepInv'
  BY <1>2 DEF TakeAlloc, Leave, Take, Goto, AllocInv, SandboxTypeOK, LockedPhases,
       AllocatesForNone, HoldsARecord, KeepInv, HoldsTheRecord, WritesItsOwn,
       ClearsTheEmpty, VolumesRecorded, PublishesItsRecord, InAllocation, NameOf, Branch,
       Readable, BeingCleared, CountedOn
<1>3. ASSUME NEW c \in Commands, GiveUp(c) PROVE KeepInv'
  BY <1>3 DEF GiveUp, Leave, Take, Goto, AllocInv, SandboxTypeOK, LockedPhases,
       AllocatesForNone, HoldsARecord, KeepInv, HoldsTheRecord, WritesItsOwn,
       ClearsTheEmpty, VolumesRecorded, PublishesItsRecord, InAllocation, NameOf, Branch,
       Readable, BeingCleared, CountedOn
<1>4. ASSUME NEW c \in Commands, ReadRecord(c) PROVE KeepInv'
  BY <1>4 DEF ReadRecord, Leave, Take, Goto, AllocInv, SandboxTypeOK, LockedPhases,
       AllocatesForNone, HoldsARecord, KeepInv, HoldsTheRecord, WritesItsOwn,
       ClearsTheEmpty, VolumesRecorded, PublishesItsRecord, InAllocation, NameOf, Branch,
       Readable, BeingCleared, CountedOn
<1>5. ASSUME NEW c \in Commands, Choose(c) PROVE KeepInv'
  BY <1>5 DEF Choose, Leave, Take, Goto, AllocInv, SandboxTypeOK, LockedPhases,
       AllocatesForNone, HoldsARecord, KeepInv, HoldsTheRecord, WritesItsOwn,
       ClearsTheEmpty, VolumesRecorded, PublishesItsRecord, InAllocation, NameOf, Branch,
       Readable, BeingCleared, CountedOn
<1>6. ASSUME NEW c \in Commands, ChooseFails(c) PROVE KeepInv'
  BY <1>6 DEF ChooseFails, Leave, Take, Goto, AllocInv, SandboxTypeOK, LockedPhases,
       AllocatesForNone, HoldsARecord, KeepInv, HoldsTheRecord, WritesItsOwn,
       ClearsTheEmpty, VolumesRecorded, PublishesItsRecord, InAllocation, NameOf, Branch,
       Readable, BeingCleared, CountedOn
<1>7. ASSUME NEW c \in Commands, OpenRecord(c) PROVE KeepInv'
  BY <1>7 DEF OpenRecord, Leave, Take, Goto, AllocInv, SandboxTypeOK, LockedPhases,
       AllocatesForNone, HoldsARecord, KeepInv, HoldsTheRecord, WritesItsOwn,
       ClearsTheEmpty, VolumesRecorded, PublishesItsRecord, InAllocation, NameOf, Branch,
       Readable, BeingCleared, CountedOn
<1>8. ASSUME NEW c \in Commands, WriteRecord(c) PROVE KeepInv'
  BY <1>8 DEF WriteRecord, Leave, Take, Goto, AllocInv, SandboxTypeOK, LockedPhases,
       AllocatesForNone, HoldsARecord, KeepInv, HoldsTheRecord, WritesItsOwn,
       ClearsTheEmpty, VolumesRecorded, PublishesItsRecord, InAllocation, NameOf, Branch,
       Readable, BeingCleared, CountedOn
<1>9. ASSUME NEW c \in Commands, ReleaseAlloc(c) PROVE KeepInv'
  BY <1>9 DEF ReleaseAlloc, Leave, Take, Goto, AllocInv, SandboxTypeOK, LockedPhases,
       AllocatesForNone, HoldsARecord, KeepInv, HoldsTheRecord, WritesItsOwn,
       ClearsTheEmpty, VolumesRecorded, PublishesItsRecord, InAllocation, NameOf, Branch,
       Readable, BeingCleared, CountedOn
<1>10. ASSUME NEW c \in Commands, ComposeUp(c) PROVE KeepInv'
  <2> USE <1>10 DEF ComposeUp, Leave, Take, Goto, AllocInv, SandboxTypeOK, KeepInv
  <2>1. ~torn /\ got[c] \in Records /\ got[c].slot \in Slots /\ NameOf(c) \in Names
    BY DEF HoldsARecord, NameOf, Branch
  <2>2. HoldsTheRecord'
    BY <2>1 DEF HoldsTheRecord, CountedOn, NameOf, Branch
  <2>3. WritesItsOwn'
    BY <2>1 DEF WritesItsOwn, CountedOn, NameOf, Branch
  <2>4. ClearsTheEmpty'
    BY <2>1 DEF ClearsTheEmpty, BeingCleared, NameOf, Branch
  <2>5. VolumesRecorded'
    BY <2>1 DEF VolumesRecorded, HoldsTheRecord, Readable
  <2>6. PublishesItsRecord'
    BY <2>1 DEF PublishesItsRecord, HoldsTheRecord
  <2> QED
    BY <2>2, <2>3, <2>4, <2>5, <2>6
<1>11. ASSUME NEW c \in Commands, ComposeUpFails(c) PROVE KeepInv'
  BY <1>11 DEF ComposeUpFails, Leave, Take, Goto, AllocInv, SandboxTypeOK, LockedPhases,
       AllocatesForNone, HoldsARecord, KeepInv, HoldsTheRecord, WritesItsOwn,
       ClearsTheEmpty, VolumesRecorded, PublishesItsRecord, InAllocation, NameOf, Branch,
       Readable, BeingCleared, CountedOn
<1>12. ASSUME NEW c \in Commands, LookUp(c) PROVE KeepInv'
  BY <1>12 DEF LookUp, Leave, Take, Goto, AllocInv, SandboxTypeOK, LockedPhases,
       AllocatesForNone, HoldsARecord, KeepInv, HoldsTheRecord, WritesItsOwn,
       ClearsTheEmpty, VolumesRecorded, PublishesItsRecord, InAllocation, NameOf, Branch,
       Readable, BeingCleared, CountedOn
<1>13. ASSUME NEW c \in Commands, ComposeDown(c) PROVE KeepInv'
  BY <1>13 DEF ComposeDown, Leave, Take, Goto, AllocInv, SandboxTypeOK, LockedPhases,
       AllocatesForNone, HoldsARecord, KeepInv, HoldsTheRecord, WritesItsOwn,
       ClearsTheEmpty, VolumesRecorded, PublishesItsRecord, InAllocation, NameOf, Branch,
       Readable, BeingCleared, CountedOn
<1>14. ASSUME NEW c \in Commands, ComposeDownFails(c) PROVE KeepInv'
  BY <1>14 DEF ComposeDownFails, Leave, Take, Goto, AllocInv, SandboxTypeOK, LockedPhases,
       AllocatesForNone, HoldsARecord, KeepInv, HoldsTheRecord, WritesItsOwn,
       ClearsTheEmpty, VolumesRecorded, PublishesItsRecord, InAllocation, NameOf, Branch,
       Readable, BeingCleared, CountedOn
<1>15. ASSUME NEW c \in Commands, ClearRecord(c) PROVE KeepInv'
  <2> USE <1>15 DEF ClearRecord, Leave, Take, Goto, AllocInv, SandboxTypeOK, KeepInv
  <2>1. ~torn /\ stack[NameOf(c)] = Down /\ ~volumes[NameOf(c)]
    BY DEF ClearsTheEmpty, PublishesItsRecord, NameOf, Branch
  <2>2. HoldsTheRecord'
    BY <2>1 DEF HoldsTheRecord, CountedOn, NameOf, Branch
  <2>3. WritesItsOwn'
    BY <2>1 DEF WritesItsOwn, CountedOn, NameOf, Branch
  <2>4. ClearsTheEmpty'
    BY <2>1 DEF ClearsTheEmpty, BeingCleared, NameOf, Branch
  <2>5. VolumesRecorded'
    BY <2>1 DEF VolumesRecorded, HoldsTheRecord, Readable
  <2>6. PublishesItsRecord'
    BY <2>1 DEF PublishesItsRecord, HoldsTheRecord
  <2> QED
    BY <2>2, <2>3, <2>4, <2>5, <2>6
<1>16. ASSUME NEW c \in Commands, Dies(c) PROVE KeepInv'
  BY <1>16 DEF Dies, Leave, Take, Goto, AllocInv, SandboxTypeOK, LockedPhases,
       AllocatesForNone, HoldsARecord, KeepInv, HoldsTheRecord, WritesItsOwn,
       ClearsTheEmpty, VolumesRecorded, PublishesItsRecord, InAllocation, NameOf, Branch,
       Readable, BeingCleared, CountedOn
<1>17. ASSUME OrphanAges PROVE KeepInv'
  BY <1>17 DEF OrphanAges, Leave, Take, Goto, AllocInv, SandboxTypeOK, LockedPhases,
       AllocatesForNone, HoldsARecord, KeepInv, HoldsTheRecord, WritesItsOwn,
       ClearsTheEmpty, VolumesRecorded, PublishesItsRecord, InAllocation, NameOf, Branch,
       Readable, BeingCleared, CountedOn
<1>18. ASSUME UNCHANGED sandboxVars PROVE KeepInv'
  BY <1>18 DEF sandboxVars, KeepInv, HoldsTheRecord, WritesItsOwn, ClearsTheEmpty,
       VolumesRecorded, PublishesItsRecord, NameOf, Branch
<1> QED
  BY <1>1, <1>2, <1>3, <1>4, <1>5, <1>6, <1>7, <1>8, <1>9, <1>10, <1>11, <1>12, <1>13,
     <1>14, <1>15, <1>16, <1>17, <1>18 DEF SandboxNext, EnsureUp, TearDown, KeepInv

LEMMA KeepCorrect == SandboxSpec => [](AllocInv /\ KeepInv)
<1>1. SandboxInit => AllocInv /\ KeepInv
  BY InitAlloc, InitKeep
<1>2. (AllocInv /\ KeepInv) /\ [SandboxNext]_sandboxVars => (AllocInv /\ KeepInv)'
  BY AllocStep, KeepStep
<1> QED
  BY <1>1, <1>2, PTL DEF SandboxSpec

\* As long as no clearing overlapped a start, volumes live only with their record.
THEOREM VolumesKept == SandboxSpec => []VolumesKeepTheirRecord
<1>1. KeepInv => VolumesKeepTheirRecord
  BY DEF KeepInv, VolumesRecorded, VolumesKeepTheirRecord
<1> QED
  BY <1>1, KeepCorrect, PTL

\* No stack is started on the address of another.
THEOREM NeverContends == SandboxSpec => []NoContention
<1>1. AllocInv /\ KeepInv => NoContention
  <2> SUFFICES ASSUME AllocInv, KeepInv, ~torn, NEW c \in Commands, pc[c] = "starting",
                      NEW n \in Names \ {NameOf(c)}
               PROVE  /\ stack[n] # got[c].slot
                      /\ Readable(record[n]) => record[n].slot # got[c].slot
    BY DEF NoContention
  <2>1. NameOf(c) \in Names /\ record[NameOf(c)] = got[c] /\ Readable(got[c])
    BY SandboxAssumption
    DEF AllocInv, SandboxTypeOK, Orders, HoldsARecord, KeepInv, HoldsTheRecord, Readable,
        NameOf, Branch
  <2>2. Readable(record[n]) => record[n].slot # got[c].slot
    BY <2>1 DEF AllocInv, DistinctAddresses
  <2>3. got[c].slot # Down
    BY <2>1, RecordFacts DEF Readable
  <2>4. stack[n] # Down => Readable(record[n]) /\ record[n].slot = stack[n]
    BY DEF KeepInv, PublishesItsRecord, VolumesRecorded
  <2> QED
    BY <2>2, <2>3, <2>4
<1> QED
  BY <1>1, KeepCorrect, PTL

\* While the volumes live on, no step changes their record.
THEOREM SameDataSameRecord == SandboxSpec => SameDataSameAddress
<1> DEFINE Same == \A n \in Names :
                     volumes[n] /\ volumes'[n] /\ ~torn' => record'[n] = record[n]
<1>1. AllocInv /\ KeepInv /\ [SandboxNext]_sandboxVars => [Same]_sandboxVars
  <2> SUFFICES ASSUME AllocInv, KeepInv, SandboxNext, ~torn',
                      NEW n \in Names, volumes[n], volumes'[n]
               PROVE  record'[n] = record[n]
    BY DEF SandboxNext
  <2>1. ~torn
    BY DEF SandboxNext, EnsureUp, TearDown, Begin, TakeAlloc, GiveUp, ReadRecord, Choose,
       ChooseFails, OpenRecord, WriteRecord, ReleaseAlloc, ComposeUp, ComposeUpFails,
       LookUp, ComposeDown, ComposeDownFails, ClearRecord, Dies, OrphanAges
  <2>2. Readable(record[n]) /\ record[n] # HalfWritten
    BY <2>1, RecordFacts DEF KeepInv, VolumesRecorded, Readable
  <2>3. ASSUME NEW c \in Commands, OpenRecord(c) PROVE record'[n] = record[n]
    <3>1. NameOf(c) # n
      BY <2>2, <2>3 DEF OpenRecord, AllocInv, AllocatesForNone
    <3> QED
      BY <2>3, <3>1 DEF OpenRecord, AllocInv, SandboxTypeOK
  <2>4. ASSUME NEW c \in Commands, WriteRecord(c) PROVE record'[n] = record[n]
    BY <2>2, <2>4 DEF WriteRecord, AllocInv, SandboxTypeOK
  <2>5. ASSUME NEW c \in Commands, ClearRecord(c) PROVE record'[n] = record[n]
    <3>1. NameOf(c) # n
      BY <2>1, <2>5 DEF ClearRecord, KeepInv, ClearsTheEmpty
    <3> QED
      BY <2>5, <3>1 DEF ClearRecord, AllocInv, SandboxTypeOK
  <2> QED
    BY <2>3, <2>4, <2>5
    DEF SandboxNext, EnsureUp, TearDown, Begin, TakeAlloc, GiveUp, ReadRecord, Choose,
       ChooseFails, ReleaseAlloc, ComposeUp, ComposeUpFails, LookUp, ComposeDown,
       ComposeDownFails, Dies, OrphanAges
<1> QED
  BY <1>1, KeepCorrect, PTL DEF SandboxSpec, SameDataSameAddress
==============================================================================
