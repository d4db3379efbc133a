----------------------------- MODULE MCMilestone -----------------------------
(* A fresh brief but for one section's text, and an active one that lists a slice. *)
EXTENDS Milestone

MCRegion(entries) ==
  <<Plain("begin"), Line("track", "t1", NoId)>> \o entries \o
  <<Plain("blank"), Line("track", "t2", NoId), Plain("end")>>

MCHints ==
  <<Line("section", "Problem", NoId), Plain("opens"), Plain("closes"),
    Line("section", "Track decomposition", NoId), Plain("text"), Plain("comment")>>

MCDeclares(a, b) == [s \in {"s1", "s2"} |-> IF s = "s1" THEN a ELSE b]

MCBriefs ==
  { [status |-> "MILESTONE_DRAFT", text |-> MCHints \o MCRegion(<<>>),
     declared |-> MCDeclares("t1", "t2")],
    [status |-> "MILESTONE_ACTIVE", text |-> MCRegion(<<Entry("s1", NoId)>>),
     declared |-> MCDeclares("no milestone", "no track")] }

MCSections == {"Problem", "Track decomposition"}

ASSUME MCOrderlyBriefs == OrderlyBriefs /\ BriefsWithClosedHints

MCSymmetry == Permutations(Procs)
==============================================================================
