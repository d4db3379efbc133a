------------------------------ MODULE Milestone ------------------------------
(***************************************************************************)
(* One milestone brief and everybody who rewrites it: closings that file   *)
(* their slice and refresh the entries (_sync_briefs_listing), `milestone  *)
(* sync`, `set-status` on the brief, and humans with an editor.            *)
(*                                                                         *)
(* Nobody locks the file.  Each of them reads the whole of it, changes     *)
(* what was read, and replaces the file: the last write wins.              *)
(***************************************************************************)
EXTENDS Brief, FiniteSets

CONSTANTS
  Procs,       \* processes of the orchestrator
  Slices,
  Tracks,
  FirstBriefs, \* the brief, and what slices declare, at the start of a behaviour
  MaxMishaps    \* bound on human edits and on processes that die

Undeclared == {"no track", "no milestone"}
NoSlice == "no slice"

MILESTONE_TRANSITIONS ==
  [ MILESTONE_DRAFT  |-> {"MILESTONE_ACTIVE"},
    MILESTONE_ACTIVE |-> {"MILESTONE_DRAFT", "MILESTONE_CLOSED"},
    MILESTONE_CLOSED |-> {} ]

MILESTONE_STATUSES == DOMAIN MILESTONE_TRANSITIONS

\* An entry names a slice; prose and the opening marker name nothing.
ProperLine(line) ==
  /\ line = Line(line.kind, line.id, line.says) /\ line.kind \in Kinds
  /\ line.kind = "section" => line.says = NoId
  /\ line.kind = "entry" => line.id \in Slices
  /\ line.kind \in {"begin", "text"} => line.id = NoId

ASSUME MilestoneAssumption ==
  /\ MaxMishaps \in Nat
  /\ NoSlice \notin Slices /\ Tracks \cap Undeclared = {}
  /\ NoId \notin Slices \cup REQUIRED_SECTIONS
  /\ \A b \in FirstBriefs :
       /\ b.declared \in [Slices -> Tracks \cup Undeclared]
       /\ b.status \in MILESTONE_STATUSES
       /\ IsText(b.text) /\ Readable(b.text)
       /\ \A i \in DOMAIN b.text : ProperLine(b.text[i])

VARIABLES
  declared, \* the `track` of a slice that declares the milestone, or one of Undeclared
  brief,    \* the file: its status and its text
  doc,      \* whether resolve_document finds a slice "open" or "closed"
  proc,     \* each process
  mishaps,  \* how many there were
  touched,  \* slices whose entry a human wrote or deleted (history)
  warned,   \* slices whose closing ended in a warning, or died (history)
  lost      \* whether one wrote what another's write had overtaken (history)

milestoneVars == <<declared, brief, doc, proc, mishaps, touched, warned, lost>>

\* `held` is the file as it will be written.  `overtaken`: another wrote it since what is
\* written was read, or the gate that let it pass was asked.
Idle == [step |-> "idle", slice |-> NoSlice, target |-> "none", held |-> "none",
         overtaken |-> FALSE]

Steps == {"idle", "listing", "reading", "filing", "loading", "writing", "moving"}

MilestoneTypeOK ==
  /\ declared \in [Slices -> Tracks \cup Undeclared]
  /\ brief.status \in MILESTONE_STATUSES
  /\ \A i \in DOMAIN brief.text :
       brief.text[i].kind = "entry" => brief.text[i].id \in Slices
  /\ doc \in [Slices -> {"open", "closed"}]
  /\ \A p \in Procs :
       /\ proc[p].step \in Steps /\ proc[p].slice \in Slices \cup {NoSlice}
       /\ proc[p].step \in {"filing", "writing"} =>
            proc[p].held.status \in MILESTONE_STATUSES
  /\ touched \subseteq Slices /\ warned \subseteq Slices /\ mishaps \in 0..MaxMishaps

MilestoneInit ==
  /\ \E b \in FirstBriefs :
       declared = b.declared /\ brief = [status |-> b.status, text |-> b.text]
  /\ doc = [s \in Slices |-> "open"]
  /\ proc = [p \in Procs |-> Idle]
  /\ mishaps = 0 /\ touched = {} /\ warned = {} /\ lost = FALSE

At(p, s) == proc[p].step = s

\* A write overtakes the `others` that hold what they read or that passed a gate.
Overtaken(others, procs) ==
  [p \in Procs |-> IF p \in others /\ procs[p].step \in {"filing", "writing", "moving"}
                     THEN [procs[p] EXCEPT !.overtaken = TRUE]
                     ELSE procs[p]]

------------------------------------------------------------------------------
(* Filing and refreshing.                                                   *)

Goto(p, s) == proc' = [proc EXCEPT ![p].step = s]
Stop(p) == proc' = [proc EXCEPT ![p] = Idle]
StopWarned(p) == Stop(p) /\ warned' = warned \cup ({proc[p].slice} \ {NoSlice})

\* Holds what it read, changed, from now on.
Holds(p, s, file) ==
  proc' = [proc EXCEPT ![p].step = s, ![p].held = file,
                        ![p].overtaken = At(p, "moving") /\ @]

\* set-status VERIFIED_CLOSED on the slice's documents, then its briefs.
Closes(p, s) ==
  /\ At(p, "idle")
  /\ doc' = [doc EXCEPT ![s] = "closed"]
  /\ proc' = [proc EXCEPT ![p].step = "listing", ![p].slice = s]
  /\ UNCHANGED <<brief, mishaps, touched, warned, lost>>

\* A brief that cannot be read lists nothing.
Lists(p) ==
  /\ At(p, "listing")
  /\ LET s == proc[p].slice IN
     \/ /\ Readable(brief.text) /\ s \in Listed(brief.text)
        /\ Goto(p, "loading") /\ UNCHANGED warned
     \/ /\ ~(Readable(brief.text) /\ s \in Listed(brief.text))
        /\ \/ declared[s] \notin Undeclared /\ Goto(p, "reading") /\ UNCHANGED warned
           \/ declared[s] = "no track" /\ StopWarned(p)
           \/ declared[s] = "no milestone" /\ Stop(p) /\ UNCHANGED warned
  /\ UNCHANGED <<brief, doc, mishaps, touched, lost>>

Files(p) ==
  /\ At(p, "reading")
  /\ LET s == proc[p].slice
         text == brief.text
     IN \/ /\ Readable(text) => s \notin Listed(text) /\ declared[s] \notin TrackIds(text)
           /\ StopWarned(p)
        \/ /\ Readable(text) /\ (s \in Listed(text) \/ declared[s] \in TrackIds(text))
           /\ LET updated == InsertEntry(text, declared[s], s) IN
              IF updated = text
                THEN Goto(p, "loading")
                ELSE Holds(p, "filing", [brief EXCEPT !.text = updated])
           /\ UNCHANGED warned
  /\ UNCHANGED <<brief, doc, mishaps, touched, lost>>

Syncs(p) ==
  /\ At(p, "idle")
  /\ Goto(p, "loading")
  /\ UNCHANGED <<brief, doc, mishaps, touched, warned, lost>>

\* sync_file.  Nothing is written that would change nothing, and nothing of a text that
\* raises.
Loads(p) ==
  /\ At(p, "loading")
  /\ \/ ~Readable(brief.text) /\ StopWarned(p)
     \/ Readable(brief.text) /\ SyncText(brief.text, doc) = brief.text
          /\ Stop(p) /\ UNCHANGED warned
     \/ /\ Readable(brief.text) /\ SyncText(brief.text, doc) # brief.text
        /\ Holds(p, "writing", [brief EXCEPT !.text = SyncText(@, doc)])
        /\ UNCHANGED warned
  /\ UNCHANGED <<brief, doc, mishaps, touched, lost>>

\* Mutant: an entry is filed and not brought up to date.
WritesAndStops(p) ==
  /\ proc[p].step \in {"filing", "writing"}
  /\ brief' = proc[p].held
  /\ lost' = (lost \/ proc[p].overtaken)
  /\ proc' = Overtaken(Procs \ {p}, [proc EXCEPT ![p] = Idle])
  /\ UNCHANGED <<doc, mishaps, touched, warned>>

\* atomic_write_text, and the replacement of update_frontmatter_status.
Writes(p) ==
  /\ proc[p].step \in {"filing", "writing"}
  /\ brief' = proc[p].held
  /\ lost' = (lost \/ proc[p].overtaken)
  /\ proc' = Overtaken(Procs \ {p},
                       [proc EXCEPT ![p] = IF At(p, "writing") THEN Idle
                                             ELSE [Idle EXCEPT !.step = "loading",
                                                               !.slice = proc[p].slice]])
  /\ UNCHANGED <<doc, mishaps, touched, warned>>

Dies(p) ==
  /\ ~At(p, "idle")
  /\ mishaps < MaxMishaps /\ mishaps' = mishaps + 1
  /\ StopWarned(p)
  /\ UNCHANGED <<brief, doc, touched, lost>>

------------------------------------------------------------------------------
(* set-status on the brief.                                                 *)

\* Mutant: a track that lists no slice does not object.
PassesUnbuilt(text, new) ==
  /\ new = "MILESTONE_ACTIVE" => MissingSections(text) = {}
  /\ new = "MILESTONE_CLOSED" => Readable(text) /\ Unclosed(text, doc) = {}

\* The two gates, asked of the text as it is before the status is looked at.
Passes(text, new) ==
  /\ new = "MILESTONE_ACTIVE" => MissingSections(text) = {}
  /\ new = "MILESTONE_CLOSED" =>
       Readable(text) /\ Unclosed(text, doc) = {} /\ TracksWithoutSlices(text) = {}

PassesGate(p, new) ==
  /\ At(p, "idle")
  /\ Passes(brief.text, new)
  /\ proc' = [proc EXCEPT ![p].step = "moving", ![p].target = new]
  /\ UNCHANGED <<brief, doc, mishaps, touched, warned, lost>>

\* Mutant: no table is asked.
CanMoveAnywhere(current, new) == new \in MILESTONE_STATUSES

CanMove(current, new) == new = current \/ new \in MILESTONE_TRANSITIONS[current]

\* update_frontmatter_status reads the file again.
Moves(p) ==
  /\ At(p, "moving")
  /\ IF CanMove(brief.status, proc[p].target)
       THEN Holds(p, "writing", [brief EXCEPT !.status = proc[p].target])
       ELSE Stop(p)
  /\ UNCHANGED <<brief, doc, mishaps, touched, warned, lost>>

------------------------------------------------------------------------------
(* Humans.                                                                  *)

Saves(text) ==
  /\ mishaps < MaxMishaps /\ mishaps' = mishaps + 1
  /\ brief' = [brief EXCEPT !.text = text]
  /\ proc' = Overtaken(Procs, proc)
  /\ UNCHANGED <<doc, warned, lost>>

InRegion(i) == HasRegion(brief.text) /\ i - 1 \in Region(brief.text)

WritesText(i) ==
  ~InRegion(i) /\ Saves(InsertAt(brief.text, i, Plain("text"))) /\ UNCHANGED touched

\* A line that looks like an entry, at the end of the region.
Mistypes ==
  /\ HasRegion(brief.text)
  /\ Saves(InsertAt(brief.text, Min(LinesOf(brief.text, "end")), Plain("malformed")))
  /\ UNCHANGED touched

ListsByHand(i, s) ==
  /\ InRegion(i) /\ s \notin Listed(brief.text)
  /\ Saves(InsertAt(brief.text, i, Entry(s, NoId)))
  /\ touched' = touched \cup {s}

DeletesLine(i) ==
  /\ brief.text[i].kind \in {"entry", "begin", "text"}
  /\ Saves(RemoveAt(brief.text, i))
  /\ touched' = touched \cup ({brief.text[i].id} \ {NoId})

------------------------------------------------------------------------------
ProcNext(p) ==
  \/ \E s \in Slices : Closes(p, s)
  \/ Lists(p) \/ Files(p) \/ Syncs(p) \/ Loads(p) \/ Writes(p) \/ Dies(p)
  \/ \E new \in MILESTONE_STATUSES : PassesGate(p, new)
  \/ Moves(p)

HumanNext ==
  \/ \E i \in DOMAIN brief.text :
       \/ WritesText(i)
       \/ \E s \in Slices : ListsByHand(i, s)
       \/ DeletesLine(i)
  \/ Mistypes

MilestoneNext ==
  /\ (\E p \in Procs : ProcNext(p)) \/ HumanNext
  /\ UNCHANGED declared

MilestoneSpec == MilestoneInit /\ [][MilestoneNext]_milestoneVars

------------------------------------------------------------------------------
(* Properties.                                                              *)

Quiet == \A p \in Procs : At(p, "idle")

\* The heading an entry stands under.
HeadingOf(text, i) == {text[h].id : h \in {h \in TrackLines(text) : i \in Block(text, h)}}

\* Each entry once, and under the track its slice names (a human's own entries aside).
Orderly(text, names, byHand) ==
  HasRegion(text) =>
    LET entries == EntryLines(text) IN
    \A i \in entries :
      LET s == text[i].id IN
        /\ \A j \in entries : text[j].id = s => j = i
        /\ s \notin byHand /\ names[s] \in Tracks => HeadingOf(text, i) = {names[s]}

\* However closings of one slice overlap, crash and repeat, it is listed once, and under
\* the track it names.
RegionInOrder == Orderly(brief.text, declared, touched)

\* What the first briefs must be for the region to stay in order, and for a tick to mean
\* what it says: in order, with one opening marker, and nothing ticked.
OrderlyBriefs ==
  \A b \in FirstBriefs :
    /\ Orderly(b.text, b.declared, {})
    /\ \A i, j \in LinesOf(b.text, "begin") : i = j
    /\ \A i \in DOMAIN b.text : b.text[i].says # "closed"

\* "so a checkbox cannot go stale": a closed slice that names its track has its ticked
\* entry, or its closing said otherwise - unless one write undid another.
RecordedOrSaid ==
  Quiet /\ ~lost =>
    \A s \in Slices \ (touched \cup warned) :
      doc[s] = "closed" /\ declared[s] \in Tracks =>
        \E i \in DOMAIN brief.text : brief.text[i] = Entry(s, "closed")

\* MILESTONE_CLOSED has no way out, but for a write that undoes another.
ClosedIsTerminal ==
  [][brief.status = "MILESTONE_CLOSED" /\ brief'.status # "MILESTONE_CLOSED" => lost']_milestoneVars

\* A milestone is closed when every slice it lists is closed and every track lists one,
\* if nobody wrote the brief while it was being closed.
ClosedMeansDone ==
  [][brief'.status = "MILESTONE_CLOSED" /\ brief.status # "MILESTONE_CLOSED" =>
       \/ lost'
       \/ /\ Unclosed(brief'.text, doc) = {}
          /\ \A t \in TrackIds(brief'.text) :
               \E i \in EntryLines(brief'.text) : t \in HeadingOf(brief'.text, i)]_milestoneVars

\* A line somebody wrote: under the section's heading, outside every comment.
Content(text, section) ==
  {j \in DOMAIN text :
     /\ text[j].kind \in Written
     /\ ~\E o \in 1..(j - 1) :
          text[o].kind = "opens" /\ \A k \in (o + 1)..(j - 1) : text[k].kind # "closes"
     /\ \E h \in 1..(j - 1) :
          /\ text[h] = Line("section", section, NoId)
          /\ \A k \in (h + 1)..(j - 1) : text[k].kind \notin Headings}

\* The template's hints, and any like them: comments that open under a section's heading
\* and close before anything but text, and closing lines that close one.
HintsAreClosed(text) ==
  /\ \A o \in LinesOf(text, "opens") :
       /\ \E h \in 1..(o - 1) :
            /\ text[h].kind = "section" /\ text[h].id # NoId
            /\ \A k \in (h + 1)..(o - 1) : text[k].kind \notin Headings
       /\ \E c \in LinesOf(text, "closes") :
            /\ o < c
            /\ \A k \in (o + 1)..(c - 1) :
                 text[k].kind \notin Headings \cup Commented \cup {"closes"}
  /\ \A c \in LinesOf(text, "closes") :
       \E o \in LinesOf(text, "opens") :
         o < c /\ \A k \in (o + 1)..(c - 1) : text[k].kind # "closes"

BriefsWithClosedHints == \A b \in FirstBriefs : HintsAreClosed(b.text)

\* A milestone is approved when every required section says something: the template's
\* hints do not count, nor what another section says.
ActiveMeansWritten ==
  [][brief'.status = "MILESTONE_ACTIVE" /\ brief.status = "MILESTONE_DRAFT" =>
       \/ lost'
       \/ \A section \in REQUIRED_SECTIONS : Content(brief'.text, section) # {}]_milestoneVars
==============================================================================
