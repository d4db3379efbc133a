------------------------------ MODULE Provision ------------------------------
(***************************************************************************)
(* `worktree.copy` (scripts/provision.py): the untracked files a dispatch  *)
(* brings into an isolated worktree, while a developer goes on in the      *)
(* project root and an agent of an earlier run may go on in the worktree.  *)
(*                                                                         *)
(* The worktree is a checkout of HEAD when it is created, and is reused as *)
(* it stands by every later dispatch of the slice.                         *)
(***************************************************************************)
EXTENDS Naturals, FiniteSets

CONSTANTS
  Declared,     \* the files worktree.copy names
  MaxVersions,  \* bound on how often a developer writes a file
  MaxCommits,   \* bound on the commits of developer and agents
  MaxDispatches \* bound on dispatches

ASSUME ProvisionAssumption ==
  MaxVersions \in Nat /\ MaxCommits \in Nat /\ MaxDispatches \in Nat

\* Version 0 of a file is no file.
NoFile == 0
Nothing == [f \in Declared |-> NoFile]

VARIABLES
  root,      \* the developer's tree: its files, those in HEAD, its rules, those in HEAD
  written,   \* how often each file was written (history)
  tree,      \* .worktrees/<slice_id>, in the same way, with its branch for HEAD
  dispatch,  \* the dispatch under way
  agents,    \* whether an agent works in the worktree
  dispatches, commits,
  copied,    \* what was copied into the worktree that is there (history)
  exposed,   \* copies an agent itself stopped ignoring (history)
  leaked     \* copies that were committed (history)

provisionVars == <<root, written, tree, dispatch, agents, dispatches, commits,
                   copied, exposed, leaked>>

Idle == [step |-> "idle", left |-> {}, seen |-> Nothing]

------------------------------------------------------------------------------
(* The dispatch.                                                            *)

\* check_sources: each is a file, and none that HEAD carries already.
SourcesPass ==
  \A f \in Declared : root.files[f] # NoFile /\ root.head[f] = NoFile

\* The provision gate, before there is a worktree.
PassesGate ==
  /\ dispatch.step = "idle"
  /\ dispatches < MaxDispatches /\ dispatches' = dispatches + 1
  /\ IF SourcesPass
       THEN dispatch' = [dispatch EXCEPT !.step = "building"]
       ELSE UNCHANGED dispatch
  /\ UNCHANGED <<root, written, tree, agents, commits, copied, exposed, leaked>>

\* create_git_worktree: from HEAD, on the branch of an earlier run, or as it stands.
Builds ==
  /\ dispatch.step = "building"
  /\ dispatch' = [dispatch EXCEPT !.step = "provisioning"]
  /\ LET from == IF tree.branch THEN tree ELSE root IN
     tree' = IF tree.exists THEN tree
             ELSE [exists |-> TRUE, branch |-> TRUE, files |-> from.head, head |-> from.head,
                   rules |-> from.ignored, ignored |-> from.ignored]
  /\ UNCHANGED <<root, written, agents, dispatches, commits, copied, exposed, leaked>>

\* Asked once more, of the files as they are now: what is copied is no older than this.
ChecksAgain ==
  /\ dispatch.step = "provisioning"
  /\ dispatch' = IF SourcesPass
                   THEN [step |-> "refusing", left |-> Declared, seen |-> root.files]
                   ELSE Idle
  /\ UNCHANGED <<root, written, tree, agents, dispatches, commits, copied, exposed, leaked>>

\* Mutant: the rules of the project root are asked.
IgnoredAtRoot(f) == f \in root.rules /\ root.head[f] = NoFile

\* `git check-ignore` in the worktree: a file its branch tracks is not ignored.
Ignored(f) == f \in tree.rules /\ tree.head[f] = NoFile

\* _refuse_unless_ignored, of one file after the other, before anything is copied.
Refuses(f) ==
  /\ dispatch.step = "refusing" /\ f \in dispatch.left
  /\ dispatch' =
       IF ~Ignored(f) THEN Idle
       ELSE IF dispatch.left = {f}
              THEN [dispatch EXCEPT !.step = "copying", !.left = Declared]
              ELSE [dispatch EXCEPT !.left = @ \ {f}]
  /\ UNCHANGED <<root, written, tree, agents, dispatches, commits, copied, exposed, leaked>>

\* Mutant: a copy that is there already is left alone.
CopiesWhatIsMissing(f) ==
  /\ dispatch.step = "copying" /\ f \in dispatch.left
  /\ tree' = [tree EXCEPT !.files[f] = IF @ = NoFile THEN root.files[f] ELSE @]
  /\ copied' = copied \cup {f}
  /\ dispatch' = [dispatch EXCEPT !.left = @ \ {f},
                                  !.step = IF dispatch.left = {f} THEN "starting" ELSE @]
  /\ UNCHANGED <<root, written, agents, dispatches, commits, exposed, leaked>>

\* copy2; a source that went away in the meantime ends the dispatch with an error.
Copies(f) ==
  /\ dispatch.step = "copying" /\ f \in dispatch.left
  /\ IF root.files[f] = NoFile
       THEN dispatch' = Idle /\ UNCHANGED <<tree, copied>>
       ELSE /\ tree' = [tree EXCEPT !.files[f] = root.files[f]]
            /\ copied' = copied \cup {f}
            /\ dispatch' = [dispatch EXCEPT !.left = @ \ {f},
                                            !.step = IF dispatch.left = {f} THEN "starting"
                                                     ELSE @]
  /\ UNCHANGED <<root, written, agents, dispatches, commits, exposed, leaked>>

\* A later step of the dispatch may fail, or the process die at any one.
StartsAgent ==
  /\ dispatch.step = "starting"
  /\ dispatch' = Idle /\ agents' = TRUE
  /\ UNCHANGED <<root, written, tree, dispatches, commits, copied, exposed, leaked>>

Ends ==
  /\ dispatch.step # "idle" /\ dispatch' = Idle
  /\ UNCHANGED <<root, written, tree, agents, dispatches, commits, copied, exposed, leaked>>

------------------------------------------------------------------------------
(* The developer and the agents.                                            *)

Committing == commits < MaxCommits /\ commits' = commits + 1

WritesFile(f) ==
  /\ written[f] < MaxVersions
  /\ written' = [written EXCEPT ![f] = @ + 1]
  /\ root' = [root EXCEPT !.files[f] = written[f] + 1]
  /\ UNCHANGED <<tree, dispatch, agents, dispatches, commits, copied, exposed, leaked>>

DeletesFile(f) ==
  /\ root.files[f] # NoFile
  /\ root' = [root EXCEPT !.files[f] = NoFile]
  /\ UNCHANGED <<written, tree, dispatch, agents, dispatches, commits, copied, exposed, leaked>>

\* A rule in force in the developer's own tree, and nowhere else before it is committed.
WritesRule(f) ==
  /\ f \notin root.rules
  /\ root' = [root EXCEPT !.rules = @ \cup {f}]
  /\ UNCHANGED <<written, tree, dispatch, agents, dispatches, commits, copied, exposed, leaked>>

CommitsRules ==
  /\ root.ignored # root.rules /\ Committing
  /\ root' = [root EXCEPT !.ignored = root.rules]
  /\ UNCHANGED <<written, tree, dispatch, agents, dispatches, copied, exposed, leaked>>

\* `git add -f`
CommitsFile(f) ==
  /\ root.files[f] # root.head[f] /\ Committing
  /\ root' = [root EXCEPT !.head[f] = root.files[f]]
  /\ UNCHANGED <<written, tree, dispatch, agents, dispatches, copied, exposed, leaked>>

AgentDropsRule(f) ==
  /\ agents /\ f \in tree.rules
  /\ tree' = [tree EXCEPT !.rules = @ \ {f}]
  /\ exposed' = exposed \cup {f}
  /\ UNCHANGED <<root, written, dispatch, agents, dispatches, commits, copied, leaked>>

\* `git add -A` and a commit.
AgentCommits ==
  /\ agents /\ Committing
  /\ LET added == {f \in Declared : f \notin tree.rules \/ tree.head[f] # NoFile} IN
     /\ tree' = [tree EXCEPT !.head = [f \in Declared |-> IF f \in added THEN tree.files[f]
                                                         ELSE @[f]],
                             !.ignored = tree.rules]
     /\ leaked' = leaked \cup (added \cap copied)
  /\ UNCHANGED <<root, written, dispatch, agents, dispatches, copied, exposed>>

AgentStops ==
  /\ agents /\ agents' = FALSE
  /\ UNCHANGED <<root, written, tree, dispatch, dispatches, commits, copied, exposed, leaked>>

\* Someone tidies up: the directory and its copies go, the branch stays.
RemovesWorktree ==
  /\ tree.exists /\ ~agents /\ dispatch.step = "idle"
  /\ tree' = [tree EXCEPT !.exists = FALSE, !.files = Nothing, !.rules = {}]
  /\ copied' = {}
  /\ UNCHANGED <<root, written, dispatch, agents, dispatches, commits, exposed, leaked>>

------------------------------------------------------------------------------
ProvisionInit ==
  /\ root = [files |-> Nothing, head |-> Nothing, rules |-> {}, ignored |-> {}]
  /\ written = Nothing
  /\ tree = [exists |-> FALSE, branch |-> FALSE, files |-> Nothing, head |-> Nothing,
             rules |-> {}, ignored |-> {}]
  /\ dispatch = Idle
  /\ agents = FALSE /\ dispatches = 0 /\ commits = 0
  /\ copied = {} /\ exposed = {} /\ leaked = {}

DispatchNext ==
  \/ PassesGate \/ Builds \/ ChecksAgain
  \/ \E f \in Declared : Refuses(f) \/ Copies(f)
  \/ StartsAgent \/ Ends

OthersNext ==
  \/ \E f \in Declared :
       \/ WritesFile(f) \/ DeletesFile(f) \/ WritesRule(f) \/ CommitsFile(f)
       \/ AgentDropsRule(f)
  \/ CommitsRules \/ AgentCommits \/ AgentStops \/ RemovesWorktree

ProvisionNext == DispatchNext \/ OthersNext

ProvisionSpec == ProvisionInit /\ [][ProvisionNext]_provisionVars

------------------------------------------------------------------------------
(* Properties.                                                              *)

\* What a dispatch copied is on no commit of the slice's branch, whichever dispatch created
\* the worktree and from what, unless an agent itself stopped ignoring it.
CopiesStayUncommitted == leaked \subseteq exposed

\* An agent starts with every declared file, none older than when the dispatch last looked:
\* neither yesterday's copy nor a file missing.
AgentStartsComplete ==
  [][StartsAgent => \A f \in Declared :
       tree.files[f] # NoFile /\ tree.files[f] >= dispatch.seen[f]]_provisionVars
==============================================================================
