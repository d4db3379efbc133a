------------------------------- MODULE MCGate -------------------------------
(* Three slices, the id of one within that of another, and a milestone that  *)
(* lists one of them: chains, a fork, circles, an id nobody has.             *)
EXTENDS Gate

MCSlices == {"api", "api-v2", "ui"}
MCMilestones == {"m1"}
MCWithin == {<<x, x>> : x \in MCSlices \cup MCMilestones} \cup {<<"api", "api-v2">>}

MCDepends(api, v2, ui) ==
  [s \in MCSlices |-> CASE s = "api" -> api [] s = "api-v2" -> v2 [] OTHER -> ui]

MCGraphs ==
  { MCDepends({}, {"api"}, {"m1"}), MCDepends({}, {}, {"api", "m1"}),
    MCDepends({"api-v2"}, {"api"}, {"m1"}), MCDepends({"api", "m1"}, {}, {}),
    MCDepends({}, {"unknown"}, {"api"}), MCDepends({"m1"}, {"ui"}, {"api"}) }

MCLists == {[m \in MCMilestones |-> {"api"}], [m \in MCMilestones |-> {"api", "api-v2"}]}

MCProjects ==
  [depends_on : MCGraphs, named : {MCSlices, MCSlices \ {"api"}}, lists : MCLists]
==============================================================================
