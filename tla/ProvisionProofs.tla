--------------------------- MODULE ProvisionProofs ---------------------------
(***************************************************************************)
(* What worktree.copy promises, for any number of files, dispatches,       *)
(* commits and rewritten versions.                                         *)
(***************************************************************************)
EXTENDS Provision, TLAPS

Contents == [Declared -> Nat]
Roots == [files : Contents, head : Contents, rules : SUBSET Declared,
          ignored : SUBSET Declared]
Trees == [exists : BOOLEAN, branch : BOOLEAN, files : Contents, head : Contents,
          rules : SUBSET Declared, ignored : SUBSET Declared]
Steps == {"idle", "building", "provisioning", "refusing", "copying", "starting"}
Dispatches == [step : Steps, left : SUBSET Declared, seen : Contents]

Typed ==
  /\ root \in Roots /\ tree \in Trees /\ dispatch \in Dispatches
  /\ written \in Contents
  /\ copied \subseteq Declared /\ exposed \subseteq Declared

Safe(f) == f \in exposed \/ (f \in tree.rules /\ tree.head[f] = NoFile)

\* What is copied, and what a dispatch found ignored, stays ignored.
IgnoredInv ==
  /\ \A f \in copied : Safe(f) /\ tree.exists
  /\ dispatch.step \in {"provisioning", "refusing", "copying", "starting"} => tree.exists
  /\ dispatch.step = "refusing" => \A f \in Declared \ dispatch.left : Safe(f)
  /\ dispatch.step \in {"copying", "starting"} => \A f \in Declared : Safe(f)
  /\ leaked \subseteq exposed

\* A copy is as new as what the dispatch saw.
FreshInv ==
  /\ \A f \in Declared : root.files[f] \in {NoFile, written[f]}
  /\ dispatch.step \in {"refusing", "copying", "starting"} =>
       \A f \in Declared : dispatch.seen[f] # NoFile /\ dispatch.seen[f] <= written[f]
  /\ dispatch.step = "copying" =>
       \A f \in Declared \ dispatch.left :
         tree.files[f] # NoFile /\ tree.files[f] >= dispatch.seen[f]
  /\ dispatch.step = "starting" =>
       \A f \in Declared : tree.files[f] # NoFile /\ tree.files[f] >= dispatch.seen[f]

PInv == Typed /\ IgnoredInv /\ FreshInv

LEMMA InitInv == ProvisionInit => PInv
BY DEF ProvisionInit, PInv, Typed, IgnoredInv, FreshInv, Roots, Trees, Dispatches, Steps,
       Contents, Nothing, NoFile, Idle

LEMMA StepInv == PInv /\ [ProvisionNext]_provisionVars => PInv'
<1> SUFFICES ASSUME PInv, [ProvisionNext]_provisionVars PROVE PInv'
  OBVIOUS
<1> USE DEF PInv, NoFile
<1>1. CASE UNCHANGED provisionVars
  BY <1>1 DEF provisionVars, Typed, IgnoredInv, FreshInv, Safe
<1>2. CASE PassesGate
  BY <1>2 DEF PassesGate, Typed, IgnoredInv, FreshInv, Safe, Dispatches, Steps
<1>3. CASE Builds
  <2>1. tree' \in Trees /\ tree'.exists /\ (tree.exists => tree' = tree)
    BY <1>3 DEF Builds, Typed, Roots, Trees
  <2>2. dispatch' \in Dispatches /\ dispatch'.step = "provisioning"
    BY <1>3 DEF Builds, Typed, Dispatches, Steps
  <2> QED
    BY <1>3, <2>1, <2>2 DEF Builds, Typed, IgnoredInv, FreshInv, Safe
<1>4. CASE ChecksAgain
  <2>1. dispatch' \in Dispatches
    BY <1>4 DEF ChecksAgain, Typed, Dispatches, Steps, Roots, Idle, Nothing, Contents
  <2>2. CASE SourcesPass
    BY <1>4, <2>1, <2>2 DEF ChecksAgain, SourcesPass, Typed, IgnoredInv, FreshInv, Safe,
       Roots, Contents
  <2>3. CASE ~SourcesPass
    BY <1>4, <2>1, <2>3 DEF ChecksAgain, Typed, IgnoredInv, FreshInv, Safe, Idle
  <2> QED
    BY <2>2, <2>3
<1>5. ASSUME NEW f \in Declared, Refuses(f) PROVE PInv'
  <2>1. dispatch' \in Dispatches
    BY <1>5 DEF Refuses, Typed, Dispatches, Steps, Idle, Nothing, Contents
  <2>2. CASE ~Ignored(f)
    BY <1>5, <2>1, <2>2 DEF Refuses, Typed, IgnoredInv, FreshInv, Safe, Idle
  <2>3. CASE Ignored(f) /\ dispatch.left = {f}
    BY <1>5, <2>1, <2>3 DEF Refuses, Ignored, Typed, IgnoredInv, FreshInv, Safe, Dispatches
  <2>4. CASE Ignored(f) /\ dispatch.left # {f}
    BY <1>5, <2>1, <2>4 DEF Refuses, Ignored, Typed, IgnoredInv, FreshInv, Safe, Dispatches
  <2> QED
    BY <2>2, <2>3, <2>4
<1>6. ASSUME NEW f \in Declared, Copies(f) PROVE PInv'
  <2>0. Idle \in Dispatches
    BY DEF Dispatches, Steps, Idle, Nothing, Contents
  <2>1. dispatch' \in Dispatches
    <3>1. CASE root.files[f] = NoFile
      BY <1>6, <2>0, <3>1 DEF Copies
    <3>2. CASE root.files[f] # NoFile
      <4>1. CASE dispatch.left = {f}
        <5>1. dispatch' = [dispatch EXCEPT !.left = dispatch.left \ {f}, !.step = "starting"]
          BY <1>6, <3>2, <4>1 DEF Copies
        <5> QED
          BY <5>1 DEF Typed, Dispatches, Steps
      <4>2. CASE dispatch.left # {f}
        BY <1>6, <3>2, <4>2 DEF Copies, Typed, Dispatches, Steps
      <4> QED
        BY <4>1, <4>2
    <3> QED
      BY <3>1, <3>2
  <2>2. CASE root.files[f] = NoFile
    BY <1>6, <2>1, <2>2 DEF Copies, Typed, IgnoredInv, FreshInv, Safe, Idle
  <2>3. CASE root.files[f] # NoFile
    <3>1. /\ tree' \in Trees /\ tree'.exists = tree.exists
          /\ tree'.rules = tree.rules /\ tree'.head = tree.head
          /\ tree'.files = [tree.files EXCEPT ![f] = root.files[f]]
      BY <1>6, <2>3 DEF Copies, Typed, Trees, Roots, Contents
    <3>2. /\ dispatch'.seen = dispatch.seen /\ dispatch'.left = dispatch.left \ {f}
          /\ dispatch'.step = IF dispatch.left = {f} THEN "starting" ELSE "copying"
          /\ dispatch.step = "copying"
      BY <1>6, <2>3 DEF Copies, Typed, Dispatches
    <3>3. /\ UNCHANGED <<root, written, exposed, leaked>> /\ copied' = copied \cup {f}
      BY <1>6, <2>3 DEF Copies
    <3>4. Typed' /\ IgnoredInv'
      BY <2>1, <3>1, <3>2, <3>3 DEF Typed, IgnoredInv, Safe
    <3>5. root.files[f] >= dispatch.seen[f]
      BY <2>3, <3>2 DEF FreshInv, Typed, Roots, Contents, Dispatches
    <3>6. tree.files \in Contents
      BY DEF Typed, Trees
    <3>7. FreshInv'
      BY <2>3, <3>1, <3>2, <3>3, <3>5, <3>6 DEF FreshInv, Contents
    <3> QED
      BY <3>4, <3>7
  <2> QED
    BY <2>2, <2>3
<1>7. CASE StartsAgent \/ Ends
  BY <1>7 DEF StartsAgent, Ends, Typed, IgnoredInv, FreshInv, Safe, Dispatches, Steps, Idle,
     Nothing, Contents
<1>8. ASSUME NEW f \in Declared, WritesFile(f) PROVE PInv'
  <2>1. /\ root' \in Roots /\ root'.files = [root.files EXCEPT ![f] = written[f] + 1]
        /\ written' \in Contents /\ written' = [written EXCEPT ![f] = @ + 1]
    BY <1>8 DEF WritesFile, Typed, Roots, Contents
  <2>2. Typed' /\ IgnoredInv'
    BY <1>8, <2>1 DEF WritesFile, Typed, IgnoredInv, Safe
  <2>3. root.files \in Contents /\ written \in Contents /\ dispatch.seen \in Contents
    BY DEF Typed, Roots, Dispatches
  <2>4. FreshInv'
    BY <1>8, <2>1, <2>3 DEF WritesFile, FreshInv, Contents
  <2> QED
    BY <2>2, <2>4
<1>9. ASSUME NEW f \in Declared, DeletesFile(f) PROVE PInv'
  <2>1. root' \in Roots /\ root'.files = [root.files EXCEPT ![f] = 0]
    BY <1>9 DEF DeletesFile, Typed, Roots, Contents
  <2> QED
    BY <1>9, <2>1 DEF DeletesFile, Typed, IgnoredInv, FreshInv, Safe, Roots, Contents
<1>10. CASE CommitsRules \/ \E f \in Declared : WritesRule(f) \/ CommitsFile(f)
  <2>1. root' \in Roots /\ root'.files = root.files
    BY <1>10 DEF WritesRule, CommitsFile, CommitsRules, Typed, Roots, Contents
  <2>2. UNCHANGED <<written, tree, dispatch, copied, exposed, leaked>>
    BY <1>10 DEF WritesRule, CommitsFile, CommitsRules
  <2> QED
    BY <2>1, <2>2 DEF Typed, IgnoredInv, FreshInv, Safe
<1>11. ASSUME NEW f \in Declared, AgentDropsRule(f) PROVE PInv'
  <2>1. /\ tree' \in Trees /\ tree'.files = tree.files /\ tree'.head = tree.head
        /\ tree'.exists = tree.exists /\ tree'.rules = tree.rules \ {f}
    BY <1>11 DEF AgentDropsRule, Typed, Trees
  <2>2. UNCHANGED <<root, written, dispatch, copied, leaked>> /\ exposed' = exposed \cup {f}
    BY <1>11 DEF AgentDropsRule
  <2> QED
    BY <2>1, <2>2 DEF Typed, IgnoredInv, FreshInv, Safe
<1>12. CASE AgentCommits
  <2> DEFINE added == {f \in Declared : f \notin tree.rules \/ tree.head[f] # NoFile}
  <2>1. /\ tree' \in Trees /\ tree'.files = tree.files /\ tree'.rules = tree.rules
        /\ tree'.exists = tree.exists
        /\ \A f \in Declared \ added : tree'.head[f] = tree.head[f]
    BY <1>12 DEF AgentCommits, Typed, Trees, Contents
  <2>2. UNCHANGED <<root, written, dispatch, copied, exposed>>
        /\ leaked' = leaked \cup (added \cap copied)
    BY <1>12 DEF AgentCommits
  <2>3. \A f \in Declared : Safe(f) => Safe(f)' /\ (f \in added => f \in exposed)
    BY <2>1, <2>2 DEF Safe
  <2> QED
    BY <2>1, <2>2, <2>3 DEF Typed, IgnoredInv, FreshInv
<1>13. CASE AgentStops
  BY <1>13 DEF AgentStops, Typed, IgnoredInv, FreshInv, Safe
<1>14. CASE RemovesWorktree
  <2>1. tree' \in Trees
    BY <1>14 DEF RemovesWorktree, Typed, Trees, Nothing, Contents
  <2> QED
    BY <1>14, <2>1 DEF RemovesWorktree, Typed, IgnoredInv, FreshInv, Safe
<1> QED
  BY <1>1, <1>2, <1>3, <1>4, <1>5, <1>6, <1>7, <1>8, <1>9, <1>10, <1>11, <1>12, <1>13, <1>14
  DEF ProvisionNext, DispatchNext, OthersNext

LEMMA PInvHolds == ProvisionSpec => []PInv
BY InitInv, StepInv, PTL DEF ProvisionSpec

\* No dispatch's copy gets onto the slice's branch unless an agent itself stopped ignoring it:
\* what makes it so is that the worktree was asked (CopiesStayUncommitted).
THEOREM NoCopyIsCommitted == ProvisionSpec => []CopiesStayUncommitted
<1>1. PInv => CopiesStayUncommitted
  BY DEF PInv, IgnoredInv, CopiesStayUncommitted
<1> QED
  BY <1>1, PInvHolds, PTL

\* Every agent starts with all of the declared files, none older than the dispatch
\* (AgentStartsComplete).
THEOREM StartsComplete == ProvisionSpec => AgentStartsComplete
<1>1. PInv => [StartsAgent => \A f \in Declared :
                 tree.files[f] # NoFile /\ tree.files[f] >= dispatch.seen[f]]_provisionVars
  BY DEF PInv, FreshInv, StartsAgent
<1> QED
  BY <1>1, PInvHolds, PTL DEF ProvisionSpec, AgentStartsComplete
=============================================================================
