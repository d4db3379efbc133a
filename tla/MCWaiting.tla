------------------------------ MODULE MCWaiting ------------------------------
(* One watcher over two runs of either role.                                  *)
EXTENDS MCDispatch, Waiting

ASSUME MCOneRoleAtAGate == OneRoleAtAGate

\* What a watcher reported stays as it is: exploration stops there.
WhileWatching == \A w \in Watchers : ~At(w, "over")
==============================================================================
