---------------------------- MODULE MilestoneProofs ----------------------------
(***************************************************************************)
(* What holds of a milestone brief that closings, syncs, status changes    *)
(* and humans rewrite without a lock, for every set of processes, slices,  *)
(* tracks and sections, every first brief and every number of mishaps.     *)
(***************************************************************************)
EXTENDS Milestone, SequenceTheorems, WellFoundedInduction, TLAPS

------------------------------------------------------------------------------
(* Texts.                                                                   *)

LEMMA SeqIsText == ASSUME NEW S, NEW t \in Seq(S) PROVE IsText(t)
BY DEF IsText

LEMMA TextIsSeq ==
  ASSUME NEW t, IsText(t)
  PROVE  Len(t) \in Nat /\ DOMAIN t = 1..Len(t)
BY DEF IsText

\* Where the lines go when one is inserted, and when one is removed.
LEMMA InsertedLines ==
  ASSUME NEW t, IsText(t), NEW k \in 1..(Len(t) + 1), NEW line
  PROVE  /\ IsText(InsertAt(t, k, line))
         /\ DOMAIN InsertAt(t, k, line) = 1..(Len(t) + 1)
         /\ \A j \in 1..(Len(t) + 1) :
              InsertAt(t, k, line)[j] =
                IF j < k THEN t[j] ELSE IF j = k THEN line ELSE t[j - 1]
<1> DEFINE S == {t[i] : i \in DOMAIN t} \cup {line}
           a == SubSeq(t, 1, k - 1)
           b == a \o <<line>>
           c == SubSeq(t, k, Len(t))
           new == b \o c
<1>1. t \in Seq(S) /\ line \in S /\ Len(t) \in Nat /\ \A i \in 1..Len(t) : t[i] \in S
  BY DEF IsText
<1> HIDE DEF S
<1>2. a \in Seq(S) /\ Len(a) = k - 1 /\ \A i \in 1..(k - 1) : a[i] = t[i]
  BY <1>1, SubSeqProperties
<1>3. /\ c \in Seq(S) /\ Len(c) = Len(t) - k + 1
      /\ \A i \in 1..(Len(t) - k + 1) : c[i] = t[k + i - 1]
  BY <1>1, SubSeqProperties
<1>4. InsertAt(t, k, line) = new
  BY DEF InsertAt
<1> HIDE DEF a, c
<1>5. /\ b \in Seq(S) /\ Len(b) = k
      /\ \A i \in 1..k : b[i] = IF i < k THEN t[i] ELSE line
  BY <1>1, <1>2
<1> HIDE DEF b
<1>6. /\ new \in Seq(S) /\ Len(new) = Len(t) + 1
      /\ \A j \in 1..(Len(t) + 1) : new[j] = IF j <= k THEN b[j] ELSE c[j - k]
  <2>1. Len(b) + Len(c) = Len(t) + 1
    BY <1>1, <1>3, <1>5
  <2>2. /\ new \in Seq(S) /\ Len(new) = Len(b) + Len(c)
        /\ \A j \in 1..(Len(b) + Len(c)) :
             new[j] = IF j <= Len(b) THEN b[j] ELSE c[j - Len(b)]
    BY <1>3, <1>5, ConcatProperties
  <2> HIDE DEF new
  <2> QED
    BY <1>5, <2>1, <2>2
<1> HIDE DEF new
<1>7. \A j \in 1..(Len(t) + 1) :
        new[j] = IF j < k THEN t[j] ELSE IF j = k THEN line ELSE t[j - 1]
  <2> SUFFICES ASSUME NEW j \in 1..(Len(t) + 1)
               PROVE  new[j] = IF j < k THEN t[j] ELSE IF j = k THEN line ELSE t[j - 1]
    OBVIOUS
  <2>1. CASE j <= k
    BY <1>1, <1>5, <1>6, <2>1
  <2>2. CASE j > k
    <3>1. j - k \in 1..(Len(t) - k + 1) /\ k + (j - k) - 1 = j - 1
      BY <1>1, <2>2
    <3>2. c[j - k] = t[j - 1]
      BY <1>3, <3>1
    <3> QED
      BY <1>1, <1>6, <2>2, <3>2
  <2> QED
    BY <1>1, <2>1, <2>2
<1> QED
  BY <1>4, <1>6, <1>7, SeqIsText

LEMMA RemovedLines ==
  ASSUME NEW t, IsText(t), NEW k \in 1..Len(t)
  PROVE  /\ IsText(RemoveAt(t, k))
         /\ DOMAIN RemoveAt(t, k) = 1..(Len(t) - 1)
         /\ \A j \in 1..(Len(t) - 1) :
              RemoveAt(t, k)[j] = IF j < k THEN t[j] ELSE t[j + 1]
<1> DEFINE S == {t[i] : i \in DOMAIN t}
           a == SubSeq(t, 1, k - 1)
           c == SubSeq(t, k + 1, Len(t))
           new == a \o c
<1>1. t \in Seq(S) /\ Len(t) \in Nat /\ \A i \in 1..Len(t) : t[i] \in S
  BY DEF IsText
<1> HIDE DEF S
<1>2. a \in Seq(S) /\ Len(a) = k - 1 /\ \A i \in 1..(k - 1) : a[i] = t[i]
  BY <1>1, SubSeqProperties
<1>3. /\ c \in Seq(S) /\ Len(c) = Len(t) - k
      /\ \A i \in 1..(Len(t) - k) : c[i] = t[k + i]
  <2>1. \A i \in (k + 1)..Len(t) : t[i] \in S
    BY <1>1
  <2>2. /\ c \in Seq(S) /\ Len(c) = IF k + 1 <= Len(t) THEN Len(t) - (k + 1) + 1 ELSE 0
        /\ \A i \in 1..(Len(t) - (k + 1) + 1) : c[i] = t[(k + 1) + i - 1]
    BY <1>1, <2>1, SubSeqProperties
  <2> HIDE DEF c
  <2> QED
    BY <1>1, <2>2
<1>4. RemoveAt(t, k) = new
  BY DEF RemoveAt
<1> HIDE DEF a, c
<1>5. /\ new \in Seq(S) /\ Len(new) = Len(t) - 1
      /\ \A j \in 1..(Len(t) - 1) : new[j] = IF j <= k - 1 THEN a[j] ELSE c[j - (k - 1)]
  <2>1. Len(a) + Len(c) = Len(t) - 1
    BY <1>1, <1>2, <1>3
  <2>2. /\ new \in Seq(S) /\ Len(new) = Len(a) + Len(c)
        /\ \A j \in 1..(Len(a) + Len(c)) :
             new[j] = IF j <= Len(a) THEN a[j] ELSE c[j - Len(a)]
    BY <1>2, <1>3, ConcatProperties
  <2> HIDE DEF new
  <2> QED
    BY <1>2, <2>1, <2>2
<1> HIDE DEF new
<1>6. ASSUME NEW j \in 1..(Len(t) - 1)
      PROVE  new[j] = IF j < k THEN t[j] ELSE t[j + 1]
  <2>1. CASE j < k
    BY <1>1, <1>2, <1>5, <2>1
  <2>2. CASE j >= k
    <3>1. j - (k - 1) \in 1..(Len(t) - k) /\ k + (j - (k - 1)) = j + 1
      BY <1>1, <2>2
    <3>2. c[j - (k - 1)] = t[j + 1]
      BY <1>3, <3>1
    <3> QED
      BY <1>1, <1>5, <2>2, <3>2
  <2> QED
    BY <1>1, <2>1, <2>2
<1> QED
  BY <1>4, <1>5, <1>6, SeqIsText

\* The first and the last of some line numbers.
LEMMA Least ==
  ASSUME NEW S \in SUBSET Nat, S # {}
  PROVE  Min(S) \in S /\ \A y \in S : Min(S) <= y
<1> DEFINE R == {ss \in Nat \X Nat : ss[1] < ss[2]}
<1>1. IsWellFoundedOn(R, Nat)
  BY NatLessThanWellFounded, Zenon DEF OpToRel
<1>2. \A a, b \in Nat : a < b => <<a, b>> \in R
  OBVIOUS
<1> HIDE DEF R
<1>3. PICK x \in S : \A y \in S : <<y, x>> \notin R
  BY <1>1, WFMin
<1>4. ASSUME NEW y \in S PROVE x <= y
  <2>1. x \in Nat /\ y \in Nat
    OBVIOUS
  <2>2. ~(y < x)
    BY <1>2, <1>3, <2>1, Zenon
  <2> QED
    BY <2>1, <2>2
<1> QED
  BY <1>4 DEF Min

LEMMA Greatest ==
  ASSUME NEW S \in SUBSET Nat, S # {}, NEW n \in Nat, \A y \in S : y <= n
  PROVE  Max(S) \in S /\ \A y \in S : y <= Max(S)
<1> DEFINE T == {m \in Nat : \A y \in S : y <= m}
           b == Min(T)
<1>1. T # {} /\ T \subseteq Nat
  OBVIOUS
<1>2. b \in T /\ \A m \in T : b <= m
  <2> HIDE DEF T
  <2> QED
    BY <1>1, Least
<1> HIDE DEF b
<1>3. b \in S
  <2>1. CASE b = 0
    <3>1. PICK y \in S : TRUE
      OBVIOUS
    <3> QED
      BY <1>2, <2>1, <3>1
  <2>2. CASE b # 0 /\ b \notin S
    <3>1. b - 1 \in T
      BY <1>2, <2>2
    <3> QED
      BY <1>2, <3>1
  <2> QED
    BY <2>1, <2>2
<1> QED
  BY <1>2, <1>3 DEF Max

LEMMA RegionIsInside ==
  ASSUME NEW t, IsText(t), HasRegion(t)
  PROVE  /\ Region(t) \subseteq DOMAIN t
         /\ Min(LinesOf(t, "begin")) \in LinesOf(t, "begin")
         /\ Min(LinesOf(t, "end")) \in LinesOf(t, "end")
<1>1. LinesOf(t, "begin") \in SUBSET Nat /\ LinesOf(t, "end") \in SUBSET Nat
  BY TextIsSeq DEF LinesOf
<1>2. /\ Min(LinesOf(t, "begin")) \in LinesOf(t, "begin")
      /\ Min(LinesOf(t, "end")) \in LinesOf(t, "end")
  BY <1>1, Least DEF HasRegion
<1>3. Min(LinesOf(t, "begin")) \in 1..Len(t) /\ Min(LinesOf(t, "end")) \in 1..Len(t)
  BY <1>2, TextIsSeq DEF LinesOf
<1> QED
  BY <1>2, <1>3, TextIsSeq DEF Region

\* Where an entry is filed: right after a line of the track's block, or its heading.
FiledAfter(t, track, h, last) ==
  /\ h \in TrackLines(t) /\ t[h].id = track
  /\ last \in {h} \cup Block(t, h)

LEMMA EntryFiled ==
  ASSUME NEW t, IsText(t), HasRegion(t), NEW track \in TrackIds(t), NEW s,
         s \notin Listed(t)
  PROVE  \E h, last \in DOMAIN t :
           /\ FiledAfter(t, track, h, last)
           /\ InsertEntry(t, track, s) = InsertAt(t, last + 1, Entry(s, NoId))
<1> DEFINE H == {i \in TrackLines(t) : t[i].id = track}
           h == Min(H)
           L == {h} \cup {i \in Block(t, h) : t[i].kind # "blank"}
           last == Max(L)
<1>1. Region(t) \subseteq 1..Len(t) /\ Len(t) \in Nat /\ DOMAIN t = 1..Len(t)
  BY RegionIsInside, TextIsSeq
<1>2. H # {} /\ H \in SUBSET Nat
  BY <1>1 DEF TrackIds, TrackLines
<1>3. h \in H
  <2> HIDE DEF H
  <2> QED
    BY <1>2, Least
<1> HIDE DEF h
<1>4. h \in DOMAIN t /\ L \in SUBSET (1..Len(t)) /\ L # {}
  BY <1>1, <1>3 DEF TrackLines, Block
<1>5. last \in L
  <2>1. L \in SUBSET Nat /\ \A y \in L : y <= Len(t)
    BY <1>1, <1>4
  <2> HIDE DEF L
  <2> QED
    BY <1>1, <1>4, <2>1, Greatest
<1>6. InsertEntry(t, track, s) = InsertAt(t, last + 1, Entry(s, NoId))
  BY DEF InsertEntry, h
<1>7. last \in {h} \cup Block(t, h) /\ last \in DOMAIN t
  BY <1>1, <1>4, <1>5
<1> HIDE DEF last
<1> QED
  BY <1>3, <1>4, <1>6, <1>7 DEF FiledAfter

------------------------------------------------------------------------------
(* Types.                                                                   *)

TextOK(t) == IsText(t) /\ \A i \in DOMAIN t : ProperLine(t[i])

FileOK(f) ==
  /\ f = [status |-> f.status, text |-> f.text]
  /\ f.status \in MILESTONE_STATUSES /\ TextOK(f.text)

IsProc(q) ==
  /\ q = [step |-> q.step, slice |-> q.slice, target |-> q.target, held |-> q.held,
          overtaken |-> q.overtaken]
  /\ q.overtaken \in BOOLEAN

Holding == {"filing", "writing"}

ProcOK(q) ==
  /\ IsProc(q)
  /\ q.step \in Steps /\ q.slice \in Slices \cup {NoSlice}
  /\ q.step \in {"listing", "reading", "filing"} => q.slice \in Slices
  /\ q.step \in {"idle", "moving"} => q.slice = NoSlice
  /\ q.step = "moving" => q.target \in MILESTONE_STATUSES
  /\ q.step \in Holding => FileOK(q.held)

\* The inductive form of MilestoneTypeOK: what is held is a brief too.
MTyped ==
  /\ declared \in [Slices -> Tracks \cup Undeclared]
  /\ FileOK(brief)
  /\ doc \in [Slices -> {"open", "closed"}]
  /\ proc = [p \in Procs |-> proc[p]] /\ \A p \in Procs : ProcOK(proc[p])
  /\ touched \subseteq Slices /\ warned \subseteq Slices /\ mishaps \in 0..MaxMishaps

LEMMA InsertedOK ==
  ASSUME NEW t, TextOK(t), NEW k \in 1..(Len(t) + 1), NEW line, ProperLine(line)
  PROVE  TextOK(InsertAt(t, k, line))
<1>1. Len(t) \in Nat /\ DOMAIN t = 1..Len(t)
  BY TextIsSeq DEF TextOK
<1>2. /\ IsText(InsertAt(t, k, line)) /\ DOMAIN InsertAt(t, k, line) = 1..(Len(t) + 1)
      /\ \A j \in 1..(Len(t) + 1) :
           InsertAt(t, k, line)[j] =
             IF j < k THEN t[j] ELSE IF j = k THEN line ELSE t[j - 1]
  BY InsertedLines DEF TextOK
<1>3. ASSUME NEW j \in 1..(Len(t) + 1) PROVE ProperLine(InsertAt(t, k, line)[j])
  BY <1>1, <1>2 DEF TextOK
<1> QED
  BY <1>2, <1>3 DEF TextOK

LEMMA RemovedOK ==
  ASSUME NEW t, TextOK(t), NEW k \in DOMAIN t
  PROVE  TextOK(RemoveAt(t, k))
<1>1. Len(t) \in Nat /\ DOMAIN t = 1..Len(t)
  BY TextIsSeq DEF TextOK
<1>2. /\ IsText(RemoveAt(t, k)) /\ DOMAIN RemoveAt(t, k) = 1..(Len(t) - 1)
      /\ \A j \in 1..(Len(t) - 1) : RemoveAt(t, k)[j] = IF j < k THEN t[j] ELSE t[j + 1]
  BY <1>1, RemovedLines DEF TextOK
<1>3. ASSUME NEW j \in 1..(Len(t) - 1) PROVE ProperLine(RemoveAt(t, k)[j])
  BY <1>1, <1>2 DEF TextOK
<1> QED
  BY <1>2, <1>3 DEF TextOK

LEMMA ProperLines ==
  /\ \A s \in Slices : \A says : ProperLine(Entry(s, says))
  /\ ProperLine(Plain("text")) /\ ProperLine(Plain("malformed"))
BY DEF ProperLine, Entry, Plain, Line, Kinds, Written

\* Syncing rewrites what the entries say, and nothing else.
LEMMA SyncedLines ==
  ASSUME NEW t, IsText(t), NEW d
  PROVE  /\ IsText(SyncText(t, d)) /\ DOMAIN SyncText(t, d) = DOMAIN t
         /\ \A i \in DOMAIN t :
              /\ i \in EntryLines(t) => SyncText(t, d)[i] = Entry(t[i].id, d[t[i].id])
              /\ i \notin EntryLines(t) => SyncText(t, d)[i] = t[i]
              /\ SyncText(t, d)[i].kind = t[i].kind /\ SyncText(t, d)[i].id = t[i].id
<1> DEFINE new == SyncText(t, d)
           S == {new[i] : i \in DOMAIN t}
<1>1. Len(t) \in Nat /\ DOMAIN t = 1..Len(t)
  BY TextIsSeq
<1>2. /\ new = [i \in DOMAIN t |-> new[i]]
      /\ \A i \in DOMAIN t :
           /\ i \in EntryLines(t) => new[i] = Entry(t[i].id, d[t[i].id])
           /\ i \notin EntryLines(t) => new[i] = t[i]
  BY DEF SyncText
<1>3. \A i \in DOMAIN t : new[i].kind = t[i].kind /\ new[i].id = t[i].id
  BY <1>2 DEF EntryLines, Entry, Line
<1> HIDE DEF new
<1>4. new \in Seq(S)
  BY <1>1, <1>2
<1> HIDE DEF S
<1>5. IsText(new)
  BY <1>4, SeqIsText
<1>6. DOMAIN new = DOMAIN t
  BY <1>2
<1> QED
  BY <1>2, <1>3, <1>5, <1>6 DEF new

LEMMA SyncedOK ==
  ASSUME NEW t, TextOK(t), NEW d
  PROVE  TextOK(SyncText(t, d))
<1>1. /\ IsText(SyncText(t, d)) /\ DOMAIN SyncText(t, d) = DOMAIN t
      /\ \A i \in DOMAIN t :
           /\ i \in EntryLines(t) => SyncText(t, d)[i] = Entry(t[i].id, d[t[i].id])
           /\ i \notin EntryLines(t) => SyncText(t, d)[i] = t[i]
           /\ SyncText(t, d)[i].kind = t[i].kind /\ SyncText(t, d)[i].id = t[i].id
  BY SyncedLines DEF TextOK
<1>2. ASSUME NEW i \in DOMAIN t PROVE ProperLine(SyncText(t, d)[i])
  <2>1. ProperLine(t[i])
    BY DEF TextOK
  <2>2. CASE i \in EntryLines(t)
    <3>1. t[i].id \in Slices
      BY <2>1, <2>2 DEF EntryLines, ProperLine
    <3> QED
      BY <1>1, <2>2, <3>1, ProperLines
  <2>3. CASE i \notin EntryLines(t)
    BY <1>1, <2>1, <2>3
  <2> QED
    BY <2>2, <2>3
<1> QED
  BY <1>1, <1>2 DEF TextOK

LEMMA FiledOK ==
  ASSUME NEW t, TextOK(t), Readable(t), NEW track, NEW s \in Slices,
         s \in Listed(t) \/ track \in TrackIds(t)
  PROVE  TextOK(InsertEntry(t, track, s))
<1>1. CASE s \in Listed(t)
  BY <1>1 DEF InsertEntry
<1>2. CASE s \notin Listed(t)
  <2>1. PICK last \in DOMAIN t :
          InsertEntry(t, track, s) = InsertAt(t, last + 1, Entry(s, NoId))
    BY <1>2, EntryFiled DEF TextOK, Readable
  <2>2. last + 1 \in 1..(Len(t) + 1)
    BY TextIsSeq DEF TextOK
  <2> QED
    BY <2>1, <2>2, InsertedOK, ProperLines
<1> QED
  BY <1>1, <1>2

LEMMA UpdatedFiles ==
  ASSUME NEW f, FileOK(f)
  PROVE  /\ \A t : TextOK(t) => /\ FileOK([f EXCEPT !.text = t])
                                /\ [f EXCEPT !.text = t].text = t
                                /\ [f EXCEPT !.text = t].status = f.status
         /\ \A st \in MILESTONE_STATUSES :
              /\ FileOK([f EXCEPT !.status = st])
              /\ [f EXCEPT !.status = st].status = st
              /\ [f EXCEPT !.status = st].text = f.text
BY DEF FileOK

------------------------------------------------------------------------------
(* Steps.                                                                   *)

\* What a process may have become on its own, without anything being written.
Listens(p) ==
  /\ proc[p].step = "idle" /\ proc'[p].step = "listing"
  /\ proc'[p].slice \in Slices
  /\ doc' = [doc EXCEPT ![proc'[p].slice] = "closed"]

Ends(p) ==
  /\ proc'[p] = Idle /\ doc' = doc
  /\ \/ proc[p].slice \in warned' \cup {NoSlice}
     \/ proc[p].step = "listing" /\ declared[proc[p].slice] = "no milestone"
     \/ /\ proc[p].step = "loading"
        /\ Readable(brief.text) /\ SyncText(brief.text, doc) = brief.text

Goes(p) ==
  /\ proc'[p].slice = proc[p].slice /\ doc' = doc
  /\ \/ proc'[p].step = "loading" /\ proc[p].step = "idle"
     \/ /\ proc'[p].step = "loading"
        /\ Readable(brief.text) /\ proc[p].slice \in Listed(brief.text)
     \/ proc'[p].step = "reading" /\ proc[p].step = "listing"
     \/ /\ proc'[p].step = "moving" /\ proc[p].step = "idle"
        /\ Passes(brief.text, proc'[p].target)

Takes(p) ==
  /\ proc'[p].slice = proc[p].slice /\ doc' = doc
  /\ LET s == proc[p].slice
         file == proc'[p].held
     IN \/ /\ proc'[p].step = "filing" /\ ~proc'[p].overtaken
           /\ Readable(brief.text) /\ s \in Slices \ Listed(brief.text)
           /\ declared[s] \in TrackIds(brief.text)
           /\ file.status = brief.status
           /\ file.text = InsertEntry(brief.text, declared[s], s)
        \/ /\ proc'[p].step = "writing" /\ ~proc'[p].overtaken
           /\ proc[p].step = "loading" /\ Readable(brief.text)
           /\ file.status = brief.status /\ file.text = SyncText(brief.text, doc)
        \/ /\ proc'[p].step = "writing" /\ proc[p].step = "moving"
           /\ proc'[p].overtaken <=> proc[p].overtaken
           /\ CanMove(brief.status, proc[p].target)
           /\ file.status = proc[p].target /\ file.text = brief.text

Turn(p) ==
  /\ UNCHANGED <<declared, brief, touched, lost>>
  /\ warned \subseteq warned'
  /\ \A q \in Procs \ {p} : proc'[q] = proc[q]
  /\ Listens(p) \/ Ends(p) \/ Goes(p) \/ Takes(p)

\* What a write does to a process that is at something else.
Marked(q) ==
  /\ proc'[q].step = proc[q].step /\ proc'[q].slice = proc[q].slice
  /\ proc'[q].target = proc[q].target /\ proc'[q].held = proc[q].held
  /\ proc[q].step \in Holding \cup {"moving"} => proc'[q].overtaken = TRUE

Write(p) ==
  /\ UNCHANGED <<declared, doc, touched, warned>>
  /\ proc[p].step \in Holding
  /\ brief' = proc[p].held /\ lost' = (lost \/ proc[p].overtaken)
  /\ \A q \in Procs \ {p} : Marked(q)
  /\ \/ proc[p].step = "writing" /\ proc'[p] = Idle
     \/ /\ proc[p].step = "filing" /\ proc'[p].step = "loading"
        /\ proc'[p].slice = proc[p].slice

Inserts(k, line) ==
  /\ k \in 1..(Len(brief.text) + 1) /\ brief'.text = InsertAt(brief.text, k, line)

Save ==
  /\ UNCHANGED <<declared, doc, warned, lost>>
  /\ brief'.status = brief.status
  /\ \A q \in Procs : Marked(q)
  /\ \/ /\ \E k : \E kind \in {"text", "malformed"} : Inserts(k, Plain(kind))
        /\ touched' = touched
     \/ \E k : \E s \in Slices :
          /\ Inserts(k, Entry(s, NoId)) /\ s \notin Listed(brief.text)
          /\ touched' = touched \cup {s}
     \/ \E k \in DOMAIN brief.text :
          /\ brief.text[k].kind \in {"entry", "begin", "text"}
          /\ brief'.text = RemoveAt(brief.text, k)
          /\ touched' = touched \cup ({brief.text[k].id} \ {NoId})

\* How a process record changes.
LEMMA ProcChanges ==
  ASSUME MTyped, NEW p \in Procs
  PROVE  /\ \A s : Goto(p, s) =>
              /\ IsProc(proc'[p]) /\ proc'[p].step = s
              /\ proc'[p].slice = proc[p].slice /\ proc'[p].held = proc[p].held
              /\ proc'[p].target = proc[p].target
         /\ Stop(p) => proc'[p] = Idle
         /\ \A s, file : Holds(p, s, file) =>
              /\ IsProc(proc'[p]) /\ proc'[p].step = s
              /\ proc'[p].slice = proc[p].slice /\ proc'[p].held = file
              /\ proc'[p].target = proc[p].target
              /\ proc'[p].overtaken <=> (proc[p].step = "moving" /\ proc[p].overtaken)
<1>1. p \in DOMAIN proc /\ IsProc(proc[p])
  BY DEF MTyped, ProcOK
<1>2. ASSUME NEW s, Goto(p, s)
      PROVE  /\ IsProc(proc'[p]) /\ proc'[p].step = s
             /\ proc'[p].slice = proc[p].slice /\ proc'[p].held = proc[p].held
             /\ proc'[p].target = proc[p].target
  <2>1. proc'[p] = [proc[p] EXCEPT !.step = s]
    BY <1>1, <1>2 DEF Goto
  <2> QED
    BY <1>1, <2>1 DEF IsProc
<1>3. ASSUME Stop(p) PROVE proc'[p] = Idle
  BY <1>1, <1>3 DEF Stop
<1>4. ASSUME NEW s, NEW file, Holds(p, s, file)
      PROVE  /\ IsProc(proc'[p]) /\ proc'[p].step = s
             /\ proc'[p].slice = proc[p].slice /\ proc'[p].held = file
             /\ proc'[p].target = proc[p].target
             /\ proc'[p].overtaken <=> (proc[p].step = "moving" /\ proc[p].overtaken)
  <2>1. proc'[p] = [proc[p] EXCEPT !.step = s, !.held = file,
                                   !.overtaken = proc[p].step = "moving" /\ @]
    BY <1>1, <1>4 DEF Holds, At
  <2> QED
    BY <1>1, <2>1 DEF IsProc
<1> QED
  BY <1>2, <1>3, <1>4

LEMMA OthersStay ==
  ASSUME MTyped, NEW p \in Procs,
         Stop(p) \/ (\E s : Goto(p, s)) \/ (\E s, file : Holds(p, s, file))
  PROVE  /\ proc' = [q \in Procs |-> proc'[q]]
         /\ \A q \in Procs \ {p} : proc'[q] = proc[q]
<1>1. proc = [q \in Procs |-> proc[q]]
  BY DEF MTyped
<1> QED
  BY <1>1 DEF Stop, Goto, Holds

LEMMA IdleOK == ProcOK(Idle)
BY MilestoneAssumption DEF ProcOK, IsProc, Idle, Steps, Holding

\* A step that writes nothing leaves the types alone, if its process has its own.
LEMMA TypedByTurn ==
  ASSUME MTyped, NEW p \in Procs,
         UNCHANGED <<declared, brief, touched>>,
         warned' \subseteq Slices, mishaps' \in 0..MaxMishaps,
         doc' \in [Slices -> {"open", "closed"}],
         proc' = [q \in Procs |-> proc'[q]],
         \A q \in Procs \ {p} : proc'[q] = proc[q],
         ProcOK(proc'[p])
  PROVE  MTyped'
<1>1. \A q \in Procs : ProcOK(proc'[q])
  BY DEF MTyped
<1>2. FileOK(brief')
  BY DEF MTyped
<1>3. \A q \in Procs : ProcOK(proc[q])'
  BY <1>1 DEF ProcOK, FileOK, TextOK, ProperLine, IsProc
<1> QED
  BY <1>2, <1>3 DEF MTyped

LEMMA ListsTurn ==
  ASSUME MTyped, NEW p \in Procs, Lists(p), UNCHANGED declared
  PROVE  MTyped' /\ Turn(p)
<1> DEFINE s == proc[p].slice
<1>1. proc[p].step = "listing" /\ s \in Slices /\ ProcOK(proc[p]) /\ IsProc(proc[p])
  BY DEF MTyped, ProcOK, Lists, At
<1>2. UNCHANGED <<declared, brief, doc, mishaps, touched, lost>>
  BY DEF Lists
<1>3. CASE /\ Readable(brief.text) /\ s \in Listed(brief.text)
           /\ Goto(p, "loading") /\ UNCHANGED warned
  <2>1. /\ proc'[p].step = "loading" /\ IsProc(proc'[p]) /\ proc'[p].slice = s
        /\ \A q \in Procs \ {p} : proc'[q] = proc[q]
        /\ proc' = [q \in Procs |-> proc'[q]]
    BY <1>3, ProcChanges, OthersStay
  <2>2. ProcOK(proc'[p])
    BY <1>1, <2>1 DEF ProcOK, Steps, Holding
  <2> QED
    BY <1>2, <1>3, <2>1, <2>2, TypedByTurn DEF MTyped, Turn, Goes
<1>4. CASE declared[s] \notin Undeclared /\ Goto(p, "reading") /\ UNCHANGED warned
  <2>1. /\ proc'[p].step = "reading" /\ IsProc(proc'[p]) /\ proc'[p].slice = s
        /\ \A q \in Procs \ {p} : proc'[q] = proc[q]
        /\ proc' = [q \in Procs |-> proc'[q]]
    BY <1>4, ProcChanges, OthersStay
  <2>2. ProcOK(proc'[p])
    BY <1>1, <2>1 DEF ProcOK, Steps, Holding
  <2> QED
    BY <1>1, <1>2, <1>4, <2>1, <2>2, TypedByTurn DEF MTyped, Turn, Goes
<1>5. CASE StopWarned(p)
  <2>1. /\ proc'[p] = Idle /\ s \in warned' /\ warned \subseteq warned'
        /\ warned' \subseteq Slices
        /\ \A q \in Procs \ {p} : proc'[q] = proc[q]
        /\ proc' = [q \in Procs |-> proc'[q]]
    BY <1>1, <1>5, ProcChanges, OthersStay, MilestoneAssumption DEF StopWarned, MTyped
  <2> QED
    BY <1>2, <2>1, IdleOK, TypedByTurn DEF MTyped, Turn, Ends
<1>6. CASE declared[s] = "no milestone" /\ Stop(p) /\ UNCHANGED warned
  <2>1. /\ proc'[p] = Idle
        /\ \A q \in Procs \ {p} : proc'[q] = proc[q]
        /\ proc' = [q \in Procs |-> proc'[q]]
    BY <1>6, ProcChanges, OthersStay
  <2> QED
    BY <1>1, <1>2, <1>6, <2>1, IdleOK, TypedByTurn DEF MTyped, Turn, Ends
<1> QED
  BY <1>3, <1>4, <1>5, <1>6 DEF Lists

LEMMA ClosesTurn ==
  ASSUME MTyped, NEW p \in Procs, NEW s \in Slices, Closes(p, s), UNCHANGED declared
  PROVE  MTyped' /\ Turn(p)
<1>1. /\ proc[p].step = "idle" /\ IsProc(proc[p]) /\ p \in DOMAIN proc
      /\ proc = [q \in Procs |-> proc[q]]
  BY DEF MTyped, ProcOK, Closes, At
<1>2. /\ UNCHANGED <<declared, brief, mishaps, touched, warned, lost>>
      /\ doc' = [doc EXCEPT ![s] = "closed"]
      /\ proc' = [proc EXCEPT ![p] = [proc[p] EXCEPT !.step = "listing", !.slice = s]]
  BY DEF Closes
<1>3. /\ proc'[p] = [proc[p] EXCEPT !.step = "listing", !.slice = s]
      /\ proc' = [q \in Procs |-> proc'[q]]
      /\ \A q \in Procs \ {p} : proc'[q] = proc[q]
  BY <1>1, <1>2
<1>4. IsProc(proc'[p]) /\ proc'[p].step = "listing" /\ proc'[p].slice = s
  BY <1>1, <1>3 DEF IsProc
<1>5. ProcOK(proc'[p])
  BY <1>4 DEF ProcOK, Steps, Holding
<1>6. doc' \in [Slices -> {"open", "closed"}]
  BY <1>2 DEF MTyped
<1> QED
  BY <1>1, <1>2, <1>3, <1>4, <1>5, <1>6, TypedByTurn DEF MTyped, Turn, Listens

LEMMA FilesTurn ==
  ASSUME MTyped, NEW p \in Procs, Files(p), UNCHANGED declared
  PROVE  MTyped' /\ Turn(p)
<1> DEFINE s == proc[p].slice
           text == brief.text
           updated == InsertEntry(text, declared[s], s)
<1>1. /\ proc[p].step = "reading" /\ s \in Slices /\ ProcOK(proc[p]) /\ IsProc(proc[p])
      /\ FileOK(brief) /\ TextOK(text)
  BY DEF MTyped, ProcOK, Files, At, FileOK
<1>2. UNCHANGED <<declared, brief, doc, mishaps, touched, lost>>
  BY DEF Files
<1>3. CASE StopWarned(p)
  <2>1. /\ proc'[p] = Idle /\ s \in warned' /\ warned \subseteq warned'
        /\ warned' \subseteq Slices
        /\ \A q \in Procs \ {p} : proc'[q] = proc[q]
        /\ proc' = [q \in Procs |-> proc'[q]]
    BY <1>1, <1>3, ProcChanges, OthersStay, MilestoneAssumption DEF StopWarned, MTyped
  <2> QED
    BY <1>2, <2>1, IdleOK, TypedByTurn DEF MTyped, Turn, Ends
<1>4. CASE /\ Readable(text) /\ (s \in Listed(text) \/ declared[s] \in TrackIds(text))
           /\ updated = text /\ Goto(p, "loading") /\ UNCHANGED warned
  <2>1. /\ proc'[p].step = "loading" /\ IsProc(proc'[p]) /\ proc'[p].slice = s
        /\ \A q \in Procs \ {p} : proc'[q] = proc[q]
        /\ proc' = [q \in Procs |-> proc'[q]]
    BY <1>4, ProcChanges, OthersStay
  <2>2. ProcOK(proc'[p])
    BY <1>1, <2>1 DEF ProcOK, Steps, Holding
  <2>3. s \in Listed(text)
    <3> SUFFICES ASSUME s \notin Listed(text) PROVE FALSE
      OBVIOUS
    <3>1. PICK last \in DOMAIN text :
            updated = InsertAt(text, last + 1, Entry(s, NoId))
      BY <1>1, <1>4, EntryFiled DEF TextOK, Readable
    <3>2. last + 1 \in 1..(Len(text) + 1) /\ Len(text) \in Nat
          /\ DOMAIN text = 1..Len(text)
      BY <1>1, TextIsSeq DEF TextOK
    <3>3. DOMAIN updated = 1..(Len(text) + 1)
      BY <1>1, <3>1, <3>2, InsertedLines DEF TextOK
    <3>4. Len(text) + 1 \in 1..(Len(text) + 1) /\ Len(text) + 1 \notin 1..Len(text)
      BY <3>2
    <3> QED
      BY <1>4, <3>2, <3>3, <3>4
  <2> QED
    BY <1>2, <1>4, <2>1, <2>2, <2>3, TypedByTurn DEF MTyped, Turn, Goes
<1>5. CASE /\ Readable(text) /\ (s \in Listed(text) \/ declared[s] \in TrackIds(text))
           /\ updated # text
           /\ Holds(p, "filing", [brief EXCEPT !.text = updated]) /\ UNCHANGED warned
  <2>1. /\ proc'[p].step = "filing" /\ IsProc(proc'[p]) /\ proc'[p].slice = s
        /\ proc'[p].held = [brief EXCEPT !.text = updated]
        /\ proc'[p].overtaken <=> (proc[p].step = "moving" /\ proc[p].overtaken)
        /\ \A q \in Procs \ {p} : proc'[q] = proc[q]
        /\ proc' = [q \in Procs |-> proc'[q]]
    BY <1>5, ProcChanges, OthersStay
  <2>2. TextOK(updated)
    BY <1>1, <1>5, FiledOK
  <2>3. /\ FileOK(proc'[p].held) /\ proc'[p].held.text = updated
        /\ proc'[p].held.status = brief.status
    BY <1>1, <2>1, <2>2, UpdatedFiles
  <2>4. ProcOK(proc'[p])
    BY <1>1, <2>1, <2>3 DEF ProcOK, Steps, Holding
  <2>5. s \notin Listed(text) /\ declared[s] \in TrackIds(text)
    BY <1>5 DEF InsertEntry
  <2>6. ~proc'[p].overtaken
    BY <1>1, <2>1
  <2>7. Takes(p)
    BY <1>1, <1>2, <1>5, <2>1, <2>3, <2>5, <2>6 DEF Takes
  <2> QED
    BY <1>2, <1>5, <2>1, <2>4, <2>7, TypedByTurn DEF MTyped, Turn
<1> QED
  BY <1>3, <1>4, <1>5 DEF Files

LEMMA LoadsTurn ==
  ASSUME MTyped, NEW p \in Procs, Loads(p), UNCHANGED declared
  PROVE  MTyped' /\ Turn(p)
<1> DEFINE s == proc[p].slice
           synced == SyncText(brief.text, doc)
<1>1. /\ proc[p].step = "loading" /\ s \in Slices \cup {NoSlice}
      /\ ProcOK(proc[p]) /\ IsProc(proc[p]) /\ FileOK(brief) /\ TextOK(brief.text)
  BY DEF MTyped, ProcOK, Loads, At, FileOK
<1>2. UNCHANGED <<declared, brief, doc, mishaps, touched, lost>>
  BY DEF Loads
<1>3. CASE StopWarned(p)
  <2>1. /\ proc'[p] = Idle /\ s \in warned' \cup {NoSlice} /\ warned \subseteq warned'
        /\ warned' \subseteq Slices
        /\ \A q \in Procs \ {p} : proc'[q] = proc[q]
        /\ proc' = [q \in Procs |-> proc'[q]]
    BY <1>1, <1>3, ProcChanges, OthersStay DEF StopWarned, MTyped
  <2> QED
    BY <1>2, <2>1, IdleOK, TypedByTurn DEF MTyped, Turn, Ends
<1>4. CASE Readable(brief.text) /\ synced = brief.text /\ Stop(p) /\ UNCHANGED warned
  <2>1. /\ proc'[p] = Idle
        /\ \A q \in Procs \ {p} : proc'[q] = proc[q]
        /\ proc' = [q \in Procs |-> proc'[q]]
    BY <1>4, ProcChanges, OthersStay
  <2> QED
    BY <1>1, <1>2, <1>4, <2>1, IdleOK, TypedByTurn DEF MTyped, Turn, Ends
<1>5. CASE /\ Readable(brief.text)
           /\ Holds(p, "writing", [brief EXCEPT !.text = SyncText(@, doc)])
           /\ UNCHANGED warned
  <2>1. /\ proc'[p].step = "writing" /\ IsProc(proc'[p]) /\ proc'[p].slice = s
        /\ proc'[p].held = [brief EXCEPT !.text = SyncText(@, doc)]
        /\ proc'[p].overtaken <=> (proc[p].step = "moving" /\ proc[p].overtaken)
        /\ \A q \in Procs \ {p} : proc'[q] = proc[q]
        /\ proc' = [q \in Procs |-> proc'[q]]
    BY <1>5, ProcChanges, OthersStay
  <2>2. proc'[p].held = [brief EXCEPT !.text = synced]
    BY <1>1, <2>1 DEF FileOK
  <2>3. /\ FileOK(proc'[p].held) /\ proc'[p].held.text = synced
        /\ proc'[p].held.status = brief.status
    BY <1>1, <2>2, SyncedOK, UpdatedFiles
  <2>4. ProcOK(proc'[p])
    BY <1>1, <2>1, <2>3 DEF ProcOK, Steps, Holding
  <2>5. ~proc'[p].overtaken
    BY <1>1, <2>1
  <2>6. Takes(p)
    BY <1>1, <1>2, <1>5, <2>1, <2>3, <2>5 DEF Takes
  <2> QED
    BY <1>2, <1>5, <2>1, <2>4, <2>6, TypedByTurn DEF MTyped, Turn
<1> QED
  BY <1>3, <1>4, <1>5 DEF Loads

LEMMA MovesTurn ==
  ASSUME MTyped, NEW p \in Procs, Moves(p), UNCHANGED declared
  PROVE  MTyped' /\ Turn(p)
<1> DEFINE new == proc[p].target
<1>1. /\ proc[p].step = "moving" /\ proc[p].slice = NoSlice /\ new \in MILESTONE_STATUSES
      /\ ProcOK(proc[p]) /\ IsProc(proc[p]) /\ FileOK(brief)
  BY DEF MTyped, ProcOK, Moves, At
<1>2. UNCHANGED <<declared, brief, doc, mishaps, touched, warned, lost>>
  BY DEF Moves
<1>3. CASE Stop(p)
  <2>1. /\ proc'[p] = Idle
        /\ \A q \in Procs \ {p} : proc'[q] = proc[q]
        /\ proc' = [q \in Procs |-> proc'[q]]
    BY <1>3, ProcChanges, OthersStay
  <2> QED
    BY <1>1, <1>2, <2>1, IdleOK, TypedByTurn DEF MTyped, Turn, Ends
<1>4. CASE /\ CanMove(brief.status, new)
           /\ Holds(p, "writing", [brief EXCEPT !.status = new])
  <2>1. /\ proc'[p].step = "writing" /\ IsProc(proc'[p]) /\ proc'[p].slice = NoSlice
        /\ proc'[p].held = [brief EXCEPT !.status = new]
        /\ proc'[p].overtaken <=> (proc[p].step = "moving" /\ proc[p].overtaken)
        /\ \A q \in Procs \ {p} : proc'[q] = proc[q]
        /\ proc' = [q \in Procs |-> proc'[q]]
    BY <1>1, <1>4, ProcChanges, OthersStay
  <2>2. /\ FileOK(proc'[p].held) /\ proc'[p].held.text = brief.text
        /\ proc'[p].held.status = new
    BY <1>1, <2>1, UpdatedFiles
  <2>3. ProcOK(proc'[p])
    BY <1>1, <2>1, <2>2 DEF ProcOK, Steps, Holding
  <2>4. proc'[p].overtaken <=> proc[p].overtaken
    BY <1>1, <2>1
  <2>5. Takes(p)
    BY <1>1, <1>2, <1>4, <2>1, <2>2, <2>4 DEF Takes
  <2> QED
    BY <1>2, <2>1, <2>3, <2>5, TypedByTurn DEF MTyped, Turn
<1> QED
  BY <1>3, <1>4 DEF Moves

LEMMA GoesOnTurn ==
  ASSUME MTyped, NEW p \in Procs, UNCHANGED declared,
         Syncs(p) \/ \E new \in MILESTONE_STATUSES : PassesGate(p, new)
  PROVE  MTyped' /\ Turn(p)
<1>1. /\ proc[p].step = "idle" /\ proc[p].slice = NoSlice
      /\ ProcOK(proc[p]) /\ IsProc(proc[p]) /\ p \in DOMAIN proc
      /\ proc = [q \in Procs |-> proc[q]]
  BY DEF MTyped, ProcOK, Syncs, PassesGate, At
<1>2. UNCHANGED <<declared, brief, doc, mishaps, touched, warned, lost>>
  BY DEF Syncs, PassesGate
<1>3. CASE Syncs(p)
  <2>1. /\ proc'[p].step = "loading" /\ IsProc(proc'[p]) /\ proc'[p].slice = NoSlice
        /\ \A q \in Procs \ {p} : proc'[q] = proc[q]
        /\ proc' = [q \in Procs |-> proc'[q]]
    BY <1>1, <1>3, ProcChanges, OthersStay DEF Syncs
  <2>2. ProcOK(proc'[p])
    BY <1>1, <2>1 DEF ProcOK, Steps, Holding
  <2> QED
    BY <1>1, <1>2, <2>1, <2>2, TypedByTurn DEF MTyped, Turn, Goes
<1>4. ASSUME NEW new \in MILESTONE_STATUSES, PassesGate(p, new)
      PROVE  MTyped' /\ Turn(p)
  <2>1. /\ proc'[p] = [proc[p] EXCEPT !.step = "moving", !.target = new]
        /\ \A q \in Procs \ {p} : proc'[q] = proc[q]
        /\ proc' = [q \in Procs |-> proc'[q]]
    BY <1>1, <1>4 DEF PassesGate
  <2>2. /\ IsProc(proc'[p]) /\ proc'[p].step = "moving" /\ proc'[p].target = new
        /\ proc'[p].slice = NoSlice
    BY <1>1, <2>1 DEF IsProc
  <2>3. ProcOK(proc'[p])
    BY <1>1, <2>2 DEF ProcOK, Steps, Holding
  <2>4. Passes(brief.text, proc'[p].target)
    BY <1>4, <2>2 DEF PassesGate
  <2> QED
    BY <1>1, <1>2, <2>1, <2>2, <2>3, <2>4, TypedByTurn DEF MTyped, Turn, Goes
<1> QED
  BY <1>3, <1>4

LEMMA DiesTurn ==
  ASSUME MTyped, NEW p \in Procs, Dies(p), UNCHANGED declared
  PROVE  MTyped' /\ Turn(p)
<1>1. /\ proc[p].slice \in Slices \cup {NoSlice}
      /\ UNCHANGED <<declared, brief, doc, touched, lost>>
      /\ StopWarned(p) /\ mishaps' \in 0..MaxMishaps
  BY MilestoneAssumption DEF MTyped, ProcOK, Dies
<1>2. /\ proc'[p] = Idle /\ proc[p].slice \in warned' \cup {NoSlice}
      /\ warned \subseteq warned' /\ warned' \subseteq Slices
      /\ \A q \in Procs \ {p} : proc'[q] = proc[q]
      /\ proc' = [q \in Procs |-> proc'[q]]
  BY <1>1, ProcChanges, OthersStay DEF StopWarned, MTyped
<1> QED
  BY <1>1, <1>2, IdleOK, TypedByTurn DEF MTyped, Turn, Ends

\* What being overtaken changes of a process.
LEMMA OvertakenChanges ==
  ASSUME NEW others, NEW procs, proc' = Overtaken(others, procs)
  PROVE  /\ proc' = [q \in Procs |-> proc'[q]]
         /\ \A q \in Procs :
              \/ proc'[q] = procs[q]
                 /\ (q \notin others \/ procs[q].step \notin Holding \cup {"moving"})
              \/ proc'[q] = [procs[q] EXCEPT !.overtaken = TRUE] /\ q \in others
BY DEF Overtaken, Holding

LEMMA MarkedOK ==
  ASSUME NEW q \in Procs, ProcOK(proc[q]),
         \/ proc'[q] = proc[q] /\ proc[q].step \notin Holding \cup {"moving"}
         \/ proc'[q] = [proc[q] EXCEPT !.overtaken = TRUE]
  PROVE  ProcOK(proc'[q]) /\ Marked(q)
<1>1. IsProc(proc[q])
  BY DEF ProcOK
<1>2. CASE proc'[q] = proc[q] /\ proc[q].step \notin Holding \cup {"moving"}
  BY <1>2 DEF Marked
<1>3. CASE proc'[q] = [proc[q] EXCEPT !.overtaken = TRUE]
  <2>1. /\ IsProc(proc'[q]) /\ proc'[q].step = proc[q].step
        /\ proc'[q].slice = proc[q].slice /\ proc'[q].target = proc[q].target
        /\ proc'[q].held = proc[q].held /\ proc'[q].overtaken = TRUE
    BY <1>1, <1>3 DEF IsProc
  <2> QED
    BY <2>1 DEF ProcOK, Marked
<1> QED
  BY <1>2, <1>3

LEMMA TypedByFile ==
  ASSUME MTyped, UNCHANGED <<declared, doc, warned>>, FileOK(brief'),
         touched' \subseteq Slices, mishaps' \in 0..MaxMishaps,
         proc' = [q \in Procs |-> proc'[q]],
         \A q \in Procs : ProcOK(proc'[q])
  PROVE  MTyped'
<1>1. \A q \in Procs : ProcOK(proc[q])'
  BY DEF ProcOK, FileOK, TextOK, ProperLine, IsProc
<1>2. FileOK(brief)'
  BY DEF FileOK, TextOK, ProperLine
<1> QED
  BY <1>1, <1>2 DEF MTyped

LEMMA WritesWrite ==
  ASSUME MTyped, NEW p \in Procs, Writes(p), UNCHANGED declared
  PROVE  MTyped' /\ Write(p)
<1> DEFINE next == IF At(p, "writing") THEN Idle
                   ELSE [Idle EXCEPT !.step = "loading", !.slice = proc[p].slice]
           procs == [proc EXCEPT ![p] = next]
<1>1. /\ proc[p].step \in Holding /\ ProcOK(proc[p]) /\ FileOK(proc[p].held)
      /\ proc = [q \in Procs |-> proc[q]]
      /\ UNCHANGED <<declared, doc, mishaps, touched, warned>>
      /\ brief' = proc[p].held /\ lost' = (lost \/ proc[p].overtaken)
      /\ proc' = Overtaken(Procs \ {p}, procs)
  BY DEF Writes, MTyped, ProcOK, Holding
<1>2. procs[p] = next /\ \A q \in Procs \ {p} : procs[q] = proc[q]
  BY <1>1
<1> HIDE DEF procs
<1>3. /\ proc' = [q \in Procs |-> proc'[q]]
      /\ \A q \in Procs :
           \/ proc'[q] = procs[q]
              /\ (q \notin Procs \ {p} \/ procs[q].step \notin Holding \cup {"moving"})
           \/ proc'[q] = [procs[q] EXCEPT !.overtaken = TRUE] /\ q \in Procs \ {p}
  BY <1>1 DEF Overtaken, Holding
<1>4. proc'[p] = next
  BY <1>2, <1>3
<1>5. ASSUME NEW q \in Procs \ {p} PROVE ProcOK(proc'[q]) /\ Marked(q)
  BY <1>2, <1>3, MarkedOK DEF MTyped
<1>6. CASE proc[p].step = "writing"
  <2>1. proc'[p] = Idle
    BY <1>4, <1>6 DEF At
  <2>2. \A q \in Procs : ProcOK(proc'[q])
    BY <1>5, <2>1, IdleOK
  <2> QED
    BY <1>1, <1>3, <1>5, <1>6, <2>1, <2>2, TypedByFile DEF MTyped, Write
<1>7. CASE proc[p].step = "filing"
  <2>1. proc'[p] = [Idle EXCEPT !.step = "loading", !.slice = proc[p].slice]
    BY <1>4, <1>7 DEF At
  <2>2. IsProc(proc'[p]) /\ proc'[p].step = "loading" /\ proc'[p].slice = proc[p].slice
    BY <2>1 DEF Idle, IsProc
  <2>3. ProcOK(proc'[p])
    BY <1>1, <2>2 DEF ProcOK, Steps, Holding
  <2>4. \A q \in Procs : ProcOK(proc'[q])
    BY <1>5, <2>3
  <2> QED
    BY <1>1, <1>3, <1>5, <1>7, <2>2, <2>4, TypedByFile DEF MTyped, Write
<1> QED
  BY <1>1, <1>6, <1>7 DEF Holding

\* The text as a human saves it.
LEMMA SavesSave ==
  ASSUME MTyped, NEW text, Saves(text), TextOK(text), touched' \subseteq Slices,
         UNCHANGED declared
  PROVE  /\ MTyped' /\ brief'.text = text /\ brief'.status = brief.status
         /\ UNCHANGED <<declared, doc, warned, lost>>
         /\ \A q \in Procs : Marked(q)
<1>1. /\ brief' = [brief EXCEPT !.text = text] /\ proc' = Overtaken(Procs, proc)
      /\ UNCHANGED <<declared, doc, warned, lost>> /\ mishaps' \in 0..MaxMishaps
  BY MilestoneAssumption DEF Saves, MTyped
<1>2. FileOK(brief') /\ brief'.text = text /\ brief'.status = brief.status
  BY <1>1, UpdatedFiles DEF MTyped
<1>3. /\ proc' = [q \in Procs |-> proc'[q]]
      /\ \A q \in Procs :
           \/ proc'[q] = proc[q] /\ proc[q].step \notin Holding \cup {"moving"}
           \/ proc'[q] = [proc[q] EXCEPT !.overtaken = TRUE]
  BY <1>1, OvertakenChanges
<1>4. ASSUME NEW q \in Procs PROVE ProcOK(proc'[q]) /\ Marked(q)
  BY <1>3, MarkedOK DEF MTyped
<1> QED
  BY <1>1, <1>2, <1>3, <1>4, TypedByFile

LEMMA HumanSaves ==
  ASSUME MTyped, HumanNext, UNCHANGED declared
  PROVE  MTyped' /\ Save
<1> DEFINE t == brief.text
<1>1. TextOK(t) /\ IsText(t) /\ Len(t) \in Nat /\ DOMAIN t = 1..Len(t)
  BY TextIsSeq DEF MTyped, FileOK, TextOK
<1>2. ASSUME NEW i \in DOMAIN t, WritesText(i) PROVE MTyped' /\ Save
  <2>1. i \in 1..(Len(t) + 1)
    BY <1>1
  <2>2. /\ Saves(InsertAt(t, i, Plain("text"))) /\ touched' = touched
        /\ TextOK(InsertAt(t, i, Plain("text")))
    BY <1>1, <1>2, <2>1, InsertedOK, ProperLines DEF WritesText
  <2> QED
    BY <2>1, <2>2, SavesSave DEF MTyped, Save, Inserts
<1>3. ASSUME NEW i \in DOMAIN t, NEW s \in Slices, ListsByHand(i, s) PROVE MTyped' /\ Save
  <2>1. i \in 1..(Len(t) + 1)
    BY <1>1
  <2>2. /\ Saves(InsertAt(t, i, Entry(s, NoId))) /\ touched' = touched \cup {s}
        /\ s \notin Listed(t) /\ TextOK(InsertAt(t, i, Entry(s, NoId)))
    BY <1>1, <1>3, <2>1, InsertedOK, ProperLines DEF ListsByHand
  <2>3. touched' \subseteq Slices
    BY <2>2 DEF MTyped
  <2>4. /\ MTyped' /\ brief'.text = InsertAt(t, i, Entry(s, NoId))
        /\ brief'.status = brief.status
        /\ UNCHANGED <<declared, doc, warned, lost>>
        /\ \A q \in Procs : Marked(q)
    BY <2>2, <2>3, SavesSave
  <2> QED
    BY <2>1, <2>2, <2>4 DEF Save, Inserts
<1>4. ASSUME NEW i \in DOMAIN t, DeletesLine(i) PROVE MTyped' /\ Save
  <2>1. /\ t[i].kind \in {"entry", "begin", "text"} /\ Saves(RemoveAt(t, i))
        /\ touched' = touched \cup ({t[i].id} \ {NoId})
    BY <1>4 DEF DeletesLine
  <2>2. TextOK(RemoveAt(t, i))
    BY <1>1, RemovedOK
  <2>3. touched' \subseteq Slices
    BY <1>1, <2>1 DEF MTyped, TextOK, ProperLine
  <2>4. /\ MTyped' /\ brief'.text = RemoveAt(t, i) /\ brief'.status = brief.status
        /\ UNCHANGED <<declared, doc, warned, lost>>
        /\ \A q \in Procs : Marked(q)
    BY <2>1, <2>2, <2>3, SavesSave
  <2> QED
    BY <2>1, <2>4 DEF Save
<1>5. ASSUME Mistypes PROVE MTyped' /\ Save
  <2> DEFINE k == Min(LinesOf(t, "end"))
  <2>1. k \in 1..Len(t)
    BY <1>1, <1>5, RegionIsInside DEF Mistypes, LinesOf
  <2>2. Saves(InsertAt(t, k, Plain("malformed"))) /\ touched' = touched
    BY <1>5 DEF Mistypes
  <2> HIDE DEF k
  <2>3. k \in 1..(Len(t) + 1)
    BY <1>1, <2>1
  <2>4. TextOK(InsertAt(t, k, Plain("malformed")))
    BY <1>1, <2>3, InsertedOK, ProperLines
  <2> QED
    BY <2>2, <2>3, <2>4, SavesSave DEF MTyped, Save, Inserts
<1> QED
  BY <1>2, <1>3, <1>4, <1>5 DEF HumanNext

LEMMA MilestoneSteps ==
  ASSUME MTyped, MilestoneNext
  PROVE  MTyped' /\ ((\E p \in Procs : Turn(p) \/ Write(p)) \/ Save)
<1>1. UNCHANGED declared
  BY DEF MilestoneNext
<1>2. ASSUME NEW p \in Procs, ProcNext(p) PROVE MTyped' /\ (Turn(p) \/ Write(p))
  BY <1>1, <1>2, ClosesTurn, ListsTurn, FilesTurn, GoesOnTurn, LoadsTurn, WritesWrite,
     DiesTurn, MovesTurn DEF ProcNext
<1>3. CASE HumanNext
  BY <1>1, <1>3, HumanSaves
<1> QED
  BY <1>2, <1>3 DEF MilestoneNext

LEMMA TypesStay == MTyped /\ UNCHANGED milestoneVars => MTyped'
<1> SUFFICES ASSUME MTyped, UNCHANGED milestoneVars PROVE MTyped'
  OBVIOUS
<1>1. UNCHANGED <<declared, brief, doc, proc, mishaps, touched, warned>>
  BY DEF milestoneVars
<1>2. FileOK(brief')
  BY <1>1 DEF MTyped
<1>3. \A p \in Procs : ProcOK(proc'[p])
  BY <1>1 DEF MTyped
<1>4. proc' = [p \in Procs |-> proc'[p]]
  BY <1>1 DEF MTyped
<1>5. touched' \subseteq Slices /\ mishaps' \in 0..MaxMishaps
  BY <1>1 DEF MTyped
<1> QED
  BY <1>1, <1>2, <1>3, <1>4, <1>5, TypedByFile

LEMMA TypedAtFirst == MilestoneInit => MTyped
<1> SUFFICES ASSUME MilestoneInit PROVE MTyped
  OBVIOUS
<1>1. PICK b \in FirstBriefs :
        declared = b.declared /\ brief = [status |-> b.status, text |-> b.text]
  BY DEF MilestoneInit
<1>2. /\ b.declared \in [Slices -> Tracks \cup Undeclared]
      /\ b.status \in MILESTONE_STATUSES /\ TextOK(b.text)
  BY MilestoneAssumption DEF TextOK
<1>3. FileOK(brief)
  BY <1>1, <1>2 DEF FileOK
<1>4. /\ doc = [s \in Slices |-> "open"] /\ proc = [p \in Procs |-> Idle]
      /\ mishaps = 0 /\ touched = {} /\ warned = {}
  BY DEF MilestoneInit
<1>5. \A p \in Procs : ProcOK(proc[p])
  BY <1>4, IdleOK
<1>6. proc = [p \in Procs |-> proc[p]]
  BY <1>4
<1> QED
  BY <1>1, <1>2, <1>3, <1>4, <1>5, <1>6, MilestoneAssumption DEF MTyped

\* The brief is always a brief, and so is whatever a process is about to replace it with.
THEOREM BriefsAreBriefs == MilestoneSpec => []MilestoneTypeOK
<1>1. MTyped => MilestoneTypeOK
  BY DEF MTyped, MilestoneTypeOK, FileOK, TextOK, ProperLine, ProcOK, Holding
<1>2. MTyped /\ [MilestoneNext]_milestoneVars => MTyped'
  BY MilestoneSteps, TypesStay
<1> QED
  BY <1>1, <1>2, TypedAtFirst, PTL DEF MilestoneSpec

------------------------------------------------------------------------------
(* Status changes.                                                          *)

\* What the closing gate asks of a text.
Done(text, d) ==
  Readable(text) /\ Unclosed(text, d) = {} /\ TracksWithoutSlices(text) = {}

\* Nobody reopens a slice here.
LEMMA ClosedStays ==
  ASSUME MTyped, MTyped', (\E p \in Procs : Turn(p) \/ Write(p)) \/ Save
  PROVE  \A s \in Slices : doc[s] = "closed" => doc'[s] = "closed"
BY DEF MTyped, Turn, Listens, Ends, Goes, Takes, Write, Save

\* A change that nobody overtook is one the table allows, and the gate let pass the very
\* text that is written.
Lawful(q) ==
  ~q.overtaken =>
    /\ q.step \in Holding =>
         /\ CanMove(brief.status, q.held.status)
         /\ q.held.status = "MILESTONE_CLOSED" /\ brief.status # "MILESTONE_CLOSED" =>
              Done(q.held.text, doc)
    /\ q.step = "moving" /\ q.target = "MILESTONE_CLOSED" => Done(brief.text, doc)

LawInv == MTyped /\ \A p \in Procs : Lawful(proc[p])

LEMMA LawStays ==
  ASSUME LawInv, [MilestoneNext]_milestoneVars
  PROVE  LawInv'
<1>1. CASE UNCHANGED milestoneVars
  BY <1>1, TypesStay DEF LawInv, Lawful, milestoneVars, Holding
<1>2. CASE MilestoneNext
  <2>1. MTyped /\ MTyped' /\ ((\E p \in Procs : Turn(p) \/ Write(p)) \/ Save)
    BY <1>2, MilestoneSteps DEF LawInv
  <2>2. \A s \in Slices : doc[s] = "closed" => doc'[s] = "closed"
    BY <2>1, ClosedStays
  <2>3. \A t : TextOK(t) /\ Done(t, doc) => Done(t, doc')
    <3> SUFFICES ASSUME NEW t, TextOK(t), Done(t, doc) PROVE Done(t, doc')
      OBVIOUS
    <3>1. Listed(t) \subseteq Slices
      BY RegionIsInside DEF Done, Readable, TextOK, ProperLine, Listed, EntryLines
    <3>2. Unclosed(t, doc') \subseteq Unclosed(t, doc)
      BY <2>2, <3>1 DEF Unclosed
    <3> QED
      BY <3>2 DEF Done
  <2>4. ASSUME NEW p \in Procs, Turn(p) PROVE \A q \in Procs : Lawful(proc[q])'
    <3> SUFFICES ASSUME NEW q \in Procs PROVE Lawful(proc[q])'
      OBVIOUS
    <3>1. brief' = brief /\ Lawful(proc[q])
      BY <2>4 DEF Turn, LawInv
    <3>2. CASE q # p
      <4>1. proc'[q] = proc[q]
        BY <2>4, <3>2 DEF Turn
      <4>2. TextOK(brief.text) /\ (proc[q].step \in Holding => TextOK(proc[q].held.text))
        BY <2>1 DEF MTyped, ProcOK, FileOK
      <4> QED
        BY <2>3, <3>1, <4>1, <4>2 DEF Lawful, Holding
    <3>3. CASE q = p
      <4>1. CASE Listens(p) \/ Ends(p)
        <5>1. Idle.step = "idle"
          BY DEF Idle
        <5>2. proc'[p].step = "listing" \/ proc'[p] = Idle
          BY <4>1 DEF Listens, Ends
        <5> QED
          BY <3>3, <5>1, <5>2 DEF Lawful, Holding
      <4>2. CASE Goes(p)
        <5>1. doc' = doc
          BY <4>2 DEF Goes
        <5>2. CASE proc'[p].step = "moving"
          BY <3>1, <3>3, <4>2, <5>1, <5>2 DEF Lawful, Goes, Passes, Done, Holding
        <5> QED
          BY <3>3, <4>2, <5>2 DEF Lawful, Goes, Holding
      <4>3. CASE Takes(p)
        <5>1. doc' = doc /\ proc'[p].step \in Holding
          BY <4>3 DEF Takes, Holding
        <5>2. CASE proc'[p].held.status = brief.status
          BY <3>1, <3>3, <5>1, <5>2 DEF Lawful, Holding, CanMove
        <5>3. CASE /\ proc[p].step = "moving"
                   /\ proc'[p].overtaken <=> proc[p].overtaken
                   /\ CanMove(brief.status, proc[p].target)
                   /\ proc'[p].held.status = proc[p].target
                   /\ proc'[p].held.text = brief.text
          <6>1. CASE ~proc[p].overtaken
            <7>1. proc[p].target = "MILESTONE_CLOSED" => Done(brief.text, doc)
              BY <3>1, <3>3, <5>3, <6>1 DEF Lawful
            <7>2. CanMove(brief'.status, proc'[q].held.status)
              BY <3>1, <3>3, <5>3
            <7>3. /\ proc'[q].held.status = "MILESTONE_CLOSED" =>
                       Done(proc'[q].held.text, doc')
                  /\ proc'[q].step # "moving"
              BY <3>3, <5>1, <5>3, <7>1 DEF Holding
            <7> QED
              BY <7>2, <7>3 DEF Lawful
          <6>2. CASE proc[p].overtaken
            BY <3>3, <5>3, <6>2 DEF Lawful
          <6> QED
            BY <6>1, <6>2
        <5> QED
          BY <4>3, <5>2, <5>3 DEF Takes
      <4> QED
        BY <2>4, <4>1, <4>2, <4>3 DEF Turn
    <3> QED
      BY <3>2, <3>3
  <2>5. ASSUME NEW q, Marked(q) PROVE Lawful(proc[q])'
    BY <2>5 DEF Lawful, Marked, Holding
  <2>6. ASSUME NEW p \in Procs, Write(p) PROVE \A q \in Procs : Lawful(proc[q])'
    <3>1. Lawful(proc[p])'
      BY <2>6 DEF Write, Lawful, Idle, Holding
    <3> QED
      BY <2>5, <2>6, <3>1 DEF Write
  <2>7. ASSUME Save PROVE \A q \in Procs : Lawful(proc[q])'
    BY <2>5, <2>7 DEF Save
  <2> QED
    BY <2>1, <2>4, <2>6, <2>7 DEF LawInv
<1> QED
  BY <1>1, <1>2

LEMMA LawAtFirst == MilestoneInit => LawInv
BY TypedAtFirst DEF MilestoneInit, LawInv, Lawful, Idle, Holding

LEMMA LawAlways == MilestoneSpec => []LawInv
BY LawAtFirst, LawStays, PTL DEF MilestoneSpec

\* Only a write changes the status; it writes what its process held.
LEMMA StatusByWrite ==
  ASSUME LawInv, [MilestoneNext]_milestoneVars, brief'.status # brief.status
  PROVE  \/ lost'
         \/ \E p \in Procs :
              /\ brief' = proc[p].held /\ doc' = doc
              /\ CanMove(brief.status, proc[p].held.status)
              /\ proc[p].held.status = "MILESTONE_CLOSED" => Done(proc[p].held.text, doc)
<1>1. MilestoneNext
  BY DEF milestoneVars
<1>2. PICK p \in Procs : Write(p)
  BY <1>1, MilestoneSteps DEF LawInv, Turn, Save
<1>3. CASE proc[p].overtaken
  BY <1>2, <1>3 DEF Write
<1>4. CASE ~proc[p].overtaken
  <2>1. Lawful(proc[p]) /\ proc[p].step \in Holding /\ brief' = proc[p].held /\ doc' = doc
    BY <1>2 DEF LawInv, Write
  <2> QED
    BY <1>4, <2>1 DEF Lawful
<1> QED
  BY <1>3, <1>4

\* Whoever asks for a status, and whenever: the brief only moves along the table, but for a
\* write that undoes another.
THEOREM StatusFollowsTable ==
  MilestoneSpec =>
    [][brief'.status # brief.status =>
         lost' \/ brief'.status \in MILESTONE_TRANSITIONS[brief.status]]_milestoneVars
<1>1. ASSUME LawInv, [MilestoneNext]_milestoneVars, brief'.status # brief.status
      PROVE  lost' \/ brief'.status \in MILESTONE_TRANSITIONS[brief.status]
  BY <1>1, StatusByWrite DEF CanMove
<1> QED
  BY <1>1, LawAlways, PTL DEF MilestoneSpec

\* MILESTONE_CLOSED has no way out but for a write that undoes another.
THEOREM ClosedStaysClosed == MilestoneSpec => ClosedIsTerminal
<1>1. ASSUME LawInv, [MilestoneNext]_milestoneVars
      PROVE  brief.status = "MILESTONE_CLOSED" /\ brief'.status # "MILESTONE_CLOSED" => lost'
  BY <1>1, StatusByWrite DEF CanMove, MILESTONE_TRANSITIONS
<1> QED
  BY <1>1, LawAlways, PTL DEF MilestoneSpec, ClosedIsTerminal

\* Every track of a text that passed the gate lists a slice, and every slice is closed.
LEMMA DoneIsDone ==
  ASSUME NEW t, NEW d, Done(t, d)
  PROVE  /\ Unclosed(t, d) = {}
         /\ \A track \in TrackIds(t) :
              \E i \in EntryLines(t) : track \in HeadingOf(t, i)
<1> SUFFICES ASSUME NEW track \in TrackIds(t)
             PROVE  \E i \in EntryLines(t) : track \in HeadingOf(t, i)
  BY DEF Done
<1>1. PICK h \in TrackLines(t) : t[h].id = track
  BY DEF TrackIds
<1>2. PICK i \in EntryLines(t) : i \in Block(t, h)
  BY DEF Done, TracksWithoutSlices
<1> QED
  BY <1>1, <1>2 DEF HeadingOf

\* A milestone nobody wrote to while it was being closed has every slice closed and every
\* track built.
THEOREM DoneWhenClosed == MilestoneSpec => ClosedMeansDone
<1>1. ASSUME LawInv, [MilestoneNext]_milestoneVars,
             brief'.status = "MILESTONE_CLOSED", brief.status # "MILESTONE_CLOSED"
      PROVE  \/ lost'
             \/ /\ Unclosed(brief'.text, doc) = {}
                /\ \A t \in TrackIds(brief'.text) :
                     \E i \in EntryLines(brief'.text) : t \in HeadingOf(brief'.text, i)
  <2>1. CASE lost'
    BY <2>1
  <2>2. CASE ~lost'
    <3>1. Done(brief'.text, doc)
      BY <1>1, <2>2, StatusByWrite
    <3> QED
      BY <3>1, DoneIsDone
  <2> QED
    BY <2>1, <2>2
<1> QED
  BY <1>1, LawAlways, PTL DEF MilestoneSpec, ClosedMeansDone

------------------------------------------------------------------------------
(* Texts that differ in lines that are neither marker nor heading.          *)

Frame == {"begin", "end", "track"}

\* `f` says where the lines of `a` are in `b`.
Places(f, a, b) ==
  /\ IsText(a) /\ IsText(b)
  /\ f \in [DOMAIN a -> DOMAIN b]
  /\ \A i, j \in DOMAIN a : i < j => f[i] < f[j]
  /\ \A i \in DOMAIN a : b[f[i]].kind = a[i].kind /\ b[f[i]].id = a[i].id

\* What `b` has besides frames nothing.
Embeds(f, a, b) ==
  /\ Places(f, a, b)
  /\ \A j \in DOMAIN b : b[j].kind \in Frame => \E i \in DOMAIN a : j = f[i]

LEMMA PlacingKeepsOrder ==
  ASSUME NEW a, NEW b, NEW f, Places(f, a, b), NEW i \in DOMAIN a, NEW j \in DOMAIN a
  PROVE  /\ i < j <=> f[i] < f[j]
         /\ i = j <=> f[i] = f[j]
         /\ i \in Nat /\ f[i] \in Nat /\ f[i] \in DOMAIN b
<1>1. /\ DOMAIN a = 1..Len(a) /\ Len(a) \in Nat /\ DOMAIN b = 1..Len(b) /\ Len(b) \in Nat
      /\ f[i] \in DOMAIN b /\ f[j] \in DOMAIN b
      /\ (i < j => f[i] < f[j]) /\ (j < i => f[j] < f[i])
  BY TextIsSeq DEF Places
<1> QED
  BY <1>1

LEMMA EmbeddingKeepsOrder ==
  ASSUME NEW a, NEW b, NEW f, Embeds(f, a, b), NEW i \in DOMAIN a, NEW j \in DOMAIN a
  PROVE  /\ i < j <=> f[i] < f[j]
         /\ i = j <=> f[i] = f[j]
         /\ i \in Nat /\ f[i] \in Nat /\ f[i] \in DOMAIN b
BY PlacingKeepsOrder DEF Embeds

LEMMA EmbeddedLeast ==
  ASSUME NEW a, NEW b, NEW f, Embeds(f, a, b), NEW kind \in Frame
  PROVE  /\ LinesOf(a, kind) = {} <=> LinesOf(b, kind) = {}
         /\ \A i, j \in LinesOf(a, kind) : f[i] \in LinesOf(b, kind) /\ f[j] \in LinesOf(b, kind)
         /\ \A j \in LinesOf(b, kind) : \E i \in LinesOf(a, kind) : j = f[i]
         /\ LinesOf(a, kind) # {} =>
              /\ Min(LinesOf(a, kind)) \in LinesOf(a, kind)
              /\ Min(LinesOf(b, kind)) = f[Min(LinesOf(a, kind))]
<1> DEFINE S == LinesOf(a, kind)
           T == LinesOf(b, kind)
<1>1. \A i \in S : i \in DOMAIN a /\ f[i] \in T
  BY DEF Embeds, Places, LinesOf
<1>2. \A j \in T : \E i \in S : j = f[i]
  BY DEF Embeds, Places, LinesOf
<1>3. S \in SUBSET Nat /\ T \in SUBSET Nat
  BY TextIsSeq DEF Embeds, Places, LinesOf
<1> HIDE DEF S, T
<1>4. ASSUME S # {}
      PROVE  Min(S) \in S /\ Min(T) = f[Min(S)]
  <2>1. Min(S) \in S /\ \A y \in S : Min(S) <= y
    BY <1>3, <1>4, Least
  <2>2. T # {}
    BY <1>1, <2>1
  <2>3. Min(T) \in T /\ \A y \in T : Min(T) <= y
    BY <1>3, <2>2, Least
  <2>4. PICK i \in S : Min(T) = f[i]
    BY <1>2, <2>3
  <2>5. Min(T) <= f[Min(S)] /\ Min(S) <= i
    BY <1>1, <2>1, <2>3, <2>4
  <2>6. Min(S) < i \/ Min(S) = i
    <3>1. Min(S) \in Nat /\ i \in Nat
      BY <1>3, <2>1
    <3> QED
      BY <2>5, <3>1
  <2>7. ~(Min(S) < i)
    <3>1. Min(S) < i => f[Min(S)] < f[i]
      BY <1>1, <2>1, EmbeddingKeepsOrder
    <3>2. f[Min(S)] \in Nat /\ f[i] \in Nat
      BY <1>1, <1>3, <2>1
    <3> QED
      BY <2>4, <2>5, <3>1, <3>2
  <2> QED
    BY <2>1, <2>4, <2>6, <2>7
<1>5. S = {} <=> T = {}
  BY <1>1, <1>2
<1> QED
  BY <1>1, <1>2, <1>4, <1>5 DEF S, T

LEMMA EmbeddedRegion ==
  ASSUME NEW a, NEW b, NEW f, Embeds(f, a, b)
  PROVE  /\ HasRegion(a) <=> HasRegion(b)
         /\ HasRegion(a) =>
              /\ \A i \in DOMAIN a :
                   /\ i \in Region(a) <=> f[i] \in Region(b)
                   /\ i \in TrackLines(a) <=> f[i] \in TrackLines(b)
                   /\ i \in EntryLines(a) <=> f[i] \in EntryLines(b)
              /\ \A j \in TrackLines(b) : \E i \in TrackLines(a) : j = f[i]
<1> DEFINE begin == Min(LinesOf(a, "begin"))
           end == Min(LinesOf(a, "end"))
<1>1. "begin" \in Frame /\ "end" \in Frame /\ "track" \in Frame
  BY DEF Frame
<1>2. /\ LinesOf(a, "begin") = {} <=> LinesOf(b, "begin") = {}
      /\ LinesOf(a, "end") = {} <=> LinesOf(b, "end") = {}
      /\ LinesOf(a, "begin") # {} =>
           begin \in LinesOf(a, "begin") /\ Min(LinesOf(b, "begin")) = f[begin]
      /\ LinesOf(a, "end") # {} =>
           end \in LinesOf(a, "end") /\ Min(LinesOf(b, "end")) = f[end]
  BY <1>1, EmbeddedLeast
<1>3. \A kind : LinesOf(a, kind) \subseteq DOMAIN a
  BY DEF LinesOf
<1> HIDE DEF begin, end
<1>4. HasRegion(a) <=> HasRegion(b)
  <2>1. CASE LinesOf(a, "begin") # {} /\ LinesOf(a, "end") # {}
    <3>1. begin \in DOMAIN a /\ end \in DOMAIN a
      BY <1>2, <1>3, <2>1
    <3>2. begin < end <=> f[begin] < f[end]
      BY <3>1, EmbeddingKeepsOrder
    <3> QED
      BY <1>2, <2>1, <3>2 DEF HasRegion, begin, end
  <2> QED
    BY <1>2, <2>1 DEF HasRegion
<1>5. ASSUME HasRegion(a)
      PROVE  /\ \A i \in DOMAIN a :
                  /\ i \in Region(a) <=> f[i] \in Region(b)
                  /\ i \in TrackLines(a) <=> f[i] \in TrackLines(b)
                  /\ i \in EntryLines(a) <=> f[i] \in EntryLines(b)
             /\ \A j \in TrackLines(b) : \E i \in TrackLines(a) : j = f[i]
  <2>1. /\ begin \in DOMAIN a /\ end \in DOMAIN a
        /\ Region(a) = begin + 1 .. end - 1 /\ Region(b) = f[begin] + 1 .. f[end] - 1
    BY <1>2, <1>3, <1>5 DEF HasRegion, Region, begin, end
  <2>2. ASSUME NEW i \in DOMAIN a
        PROVE  i \in Region(a) <=> f[i] \in Region(b)
    <3>1. /\ begin \in Nat /\ end \in Nat /\ i \in Nat
          /\ f[begin] \in Nat /\ f[end] \in Nat /\ f[i] \in Nat
      BY <2>1, EmbeddingKeepsOrder
    <3>2. i \in Region(a) <=> begin < i /\ i < end
      BY <2>1, <3>1
    <3>3. f[i] \in Region(b) <=> f[begin] < f[i] /\ f[i] < f[end]
      BY <2>1, <3>1
    <3>4. /\ begin < i <=> f[begin] < f[i]
          /\ i < end <=> f[i] < f[end]
      BY <2>1, EmbeddingKeepsOrder
    <3> QED
      BY <3>2, <3>3, <3>4
  <2>3. Region(b) \subseteq DOMAIN b
    BY <1>4, <1>5, RegionIsInside DEF Embeds, Places
  <2>4. ASSUME NEW j \in TrackLines(b)
        PROVE  \E i \in TrackLines(a) : j = f[i]
    <3>1. j \in DOMAIN b /\ j \in Region(b) /\ b[j].kind = "track"
      BY <2>3 DEF TrackLines
    <3>2. PICK i \in DOMAIN a : j = f[i]
      BY <1>1, <3>1 DEF Embeds, Places
    <3> QED
      BY <2>2, <3>1, <3>2 DEF TrackLines, Embeds, Places
  <2> QED
    BY <2>2, <2>4 DEF TrackLines, EntryLines, Embeds, Places
<1> QED
  BY <1>4, <1>5

LEMMA EmbeddedHeading ==
  ASSUME NEW a, NEW b, NEW f, Embeds(f, a, b), HasRegion(a), NEW i \in Region(a)
  PROVE  HeadingOf(b, f[i]) = HeadingOf(a, i)
<1>1. i \in DOMAIN a /\ f[i] \in Region(b) /\ TrackLines(a) \subseteq DOMAIN a
  BY EmbeddedRegion, RegionIsInside DEF Embeds, Places, TrackLines
<1>2. ASSUME NEW h \in TrackLines(a)
      PROVE  i \in Block(a, h) <=> f[i] \in Block(b, f[h])
  <2>1. h \in DOMAIN a /\ (h < i <=> f[h] < f[i])
        /\ h \in Nat /\ i \in Nat /\ f[h] \in Nat /\ f[i] \in Nat
    BY <1>1, EmbeddingKeepsOrder
  <2>2. ASSUME NEW g \in TrackLines(a)
        PROVE  g \in h + 1 .. i <=> f[g] \in f[h] + 1 .. f[i]
    <3>1. g \in DOMAIN a
      BY <1>1
    <3>2. /\ h < g <=> f[h] < f[g]
          /\ i < g <=> f[i] < f[g]
          /\ g \in Nat /\ f[g] \in Nat
      BY <1>1, <2>1, <3>1, EmbeddingKeepsOrder
    <3> QED
      BY <2>1, <3>2
  <2>3. /\ \A g \in TrackLines(a) : f[g] \in TrackLines(b)
        /\ \A j \in TrackLines(b) : \E g \in TrackLines(a) : j = f[g]
    BY <1>1, EmbeddedRegion
  <2>4. TrackLines(a) \cap (h + 1 .. i) = {} <=> TrackLines(b) \cap (f[h] + 1 .. f[i]) = {}
    BY <2>2, <2>3
  <2>5. i \in Block(a, h) <=> h < i /\ TrackLines(a) \cap (h + 1 .. i) = {}
    BY <2>1 DEF Block
  <2>6. f[i] \in Block(b, f[h]) <=>
          f[h] < f[i] /\ TrackLines(b) \cap (f[h] + 1 .. f[i]) = {}
    BY <1>1, <2>1 DEF Block
  <2> QED
    BY <2>1, <2>4, <2>5, <2>6
<1>3. /\ \A g \in TrackLines(a) : f[g] \in TrackLines(b) /\ b[f[g]].id = a[g].id
      /\ \A j \in TrackLines(b) : \E g \in TrackLines(a) : j = f[g]
  BY <1>1, EmbeddedRegion DEF Embeds, Places
<1> QED
  BY <1>2, <1>3 DEF HeadingOf

\* Where the lines of a text are once there is one more at `k`.
Shift(k, n) == [i \in 1..n |-> IF i < k THEN i ELSE i + 1]

LEMMA InsertionPlaces ==
  ASSUME NEW t, IsText(t), NEW k \in 1..(Len(t) + 1), NEW line
  PROVE  LET b == InsertAt(t, k, line)
             f == Shift(k, Len(t))
         IN /\ Places(f, t, b) /\ b[k] = line
            /\ \A j \in DOMAIN b \ {k} : \E i \in DOMAIN t : j = f[i]
<1> DEFINE b == InsertAt(t, k, line)
           f == Shift(k, Len(t))
<1>1. Len(t) \in Nat /\ DOMAIN t = 1..Len(t)
  BY TextIsSeq
<1>2. /\ IsText(b) /\ DOMAIN b = 1..(Len(t) + 1)
      /\ \A j \in 1..(Len(t) + 1) :
           b[j] = IF j < k THEN t[j] ELSE IF j = k THEN line ELSE t[j - 1]
  BY InsertedLines
<1> HIDE DEF b
<1>3. \A i \in DOMAIN t : f[i] = IF i < k THEN i ELSE i + 1
  BY <1>1 DEF Shift
<1>4. f \in [DOMAIN t -> DOMAIN b]
  BY <1>1, <1>2 DEF Shift
<1>5. \A i, j \in DOMAIN t : i < j => f[i] < f[j]
  BY <1>1, <1>3
<1>6. ASSUME NEW i \in DOMAIN t PROVE b[f[i]] = t[i]
  <2>1. f[i] \in 1..(Len(t) + 1) /\ f[i] # k
    BY <1>1, <1>3
  <2> QED
    BY <1>1, <1>2, <1>3, <2>1
<1>7. ASSUME NEW j \in DOMAIN b \ {k} PROVE \E i \in DOMAIN t : j = f[i]
  <2>2. CASE j < k
    <3>1. j \in DOMAIN t /\ f[j] = j
      BY <1>1, <1>2, <1>3, <2>2
    <3> QED
      BY <3>1
  <2>3. CASE j > k
    <3>1. j - 1 \in DOMAIN t /\ f[j - 1] = j
      BY <1>1, <1>2, <1>3, <2>3
    <3> QED
      BY <3>1
  <2> QED
    BY <1>1, <1>2, <2>2, <2>3
<1>8. b[k] = line
  BY <1>2
<1> HIDE DEF f
<1> QED
  BY <1>2, <1>4, <1>5, <1>6, <1>7, <1>8 DEF Places, b, f

LEMMA InsertionEmbeds ==
  ASSUME NEW t, IsText(t), NEW k \in 1..(Len(t) + 1), NEW line, line.kind \notin Frame
  PROVE  Embeds(Shift(k, Len(t)), t, InsertAt(t, k, line))
BY InsertionPlaces DEF Embeds

LEMMA RemovalPlaces ==
  ASSUME NEW t, IsText(t), NEW k \in DOMAIN t
  PROVE  /\ Places(Shift(k, Len(t) - 1), RemoveAt(t, k), t)
         /\ \A j \in DOMAIN t \ {k} : \E i \in DOMAIN RemoveAt(t, k) :
              j = Shift(k, Len(t) - 1)[i] /\ RemoveAt(t, k)[i] = t[j]
<1> DEFINE a == RemoveAt(t, k)
           f == Shift(k, Len(t) - 1)
<1>1. Len(t) \in Nat /\ DOMAIN t = 1..Len(t) /\ k \in 1..Len(t)
  BY TextIsSeq
<1>2. /\ IsText(a) /\ DOMAIN a = 1..(Len(t) - 1)
      /\ \A j \in 1..(Len(t) - 1) : a[j] = IF j < k THEN t[j] ELSE t[j + 1]
  BY <1>1, RemovedLines
<1> HIDE DEF a
<1>3. \A i \in DOMAIN a : f[i] = IF i < k THEN i ELSE i + 1
  BY <1>2 DEF Shift
<1>4. f \in [DOMAIN a -> DOMAIN t]
  BY <1>1, <1>2 DEF Shift
<1>5. \A i, j \in DOMAIN a : i < j => f[i] < f[j]
  BY <1>1, <1>2, <1>3
<1>6. \A i \in DOMAIN a : t[f[i]] = a[i]
  BY <1>1, <1>2, <1>3
<1>7. ASSUME NEW j \in DOMAIN t \ {k}
      PROVE  \E i \in DOMAIN a : j = f[i] /\ a[i] = t[j]
  <2>1. CASE j < k
    <3>1. j \in DOMAIN a /\ f[j] = j
      BY <1>1, <1>2, <1>3, <2>1
    <3> QED
      BY <1>6, <3>1
  <2>2. CASE j > k
    <3>1. j - 1 \in DOMAIN a /\ f[j - 1] = j
      BY <1>1, <1>2, <1>3, <2>2
    <3> QED
      BY <1>6, <3>1
  <2> QED
    BY <1>1, <2>1, <2>2
<1> HIDE DEF f
<1> QED
  BY <1>2, <1>4, <1>5, <1>6, <1>7 DEF Places, a, f

LEMMA RemovalEmbeds ==
  ASSUME NEW t, IsText(t), NEW k \in DOMAIN t, t[k].kind \notin Frame
  PROVE  /\ Embeds(Shift(k, Len(t) - 1), RemoveAt(t, k), t)
         /\ \A j \in DOMAIN t \ {k} : \E i \in DOMAIN RemoveAt(t, k) :
              j = Shift(k, Len(t) - 1)[i] /\ RemoveAt(t, k)[i] = t[j]
BY RemovalPlaces DEF Embeds

LEMMA SyncEmbeds ==
  ASSUME NEW t, IsText(t), NEW d
  PROVE  Embeds([i \in DOMAIN t |-> i], t, SyncText(t, d))
<1>1. /\ IsText(SyncText(t, d)) /\ DOMAIN SyncText(t, d) = DOMAIN t
      /\ \A i \in DOMAIN t : /\ SyncText(t, d)[i].kind = t[i].kind
                             /\ SyncText(t, d)[i].id = t[i].id
  BY SyncedLines
<1> QED
  BY <1>1 DEF Embeds, Places

------------------------------------------------------------------------------
(* The order of the region.                                                 *)

OneBegin(t) == \A i, j \in LinesOf(t, "begin") : i = j

LEMMA OrderlyDown ==
  ASSUME NEW a, NEW b, NEW f, Embeds(f, a, b), NEW names, NEW byHand,
         Orderly(b, names, byHand)
  PROVE  Orderly(a, names, byHand)
<1> SUFFICES ASSUME HasRegion(a), NEW i \in EntryLines(a)
             PROVE  /\ \A j \in EntryLines(a) : a[j].id = a[i].id => j = i
                    /\ a[i].id \notin byHand /\ names[a[i].id] \in Tracks =>
                         HeadingOf(a, i) = {names[a[i].id]}
  BY Zenon DEF Orderly
<1>1. EntryLines(a) \subseteq DOMAIN a /\ EntryLines(a) \subseteq Region(a)
  BY RegionIsInside DEF Embeds, Places, EntryLines
<1>2. \A j \in EntryLines(a) : f[j] \in EntryLines(b) /\ b[f[j]].id = a[j].id
  BY <1>1, EmbeddedRegion DEF Embeds, Places
<1>3. HasRegion(b) /\ HeadingOf(b, f[i]) = HeadingOf(a, i)
  BY <1>1, EmbeddedRegion, EmbeddedHeading
<1>4. /\ \A j \in EntryLines(b) : b[j].id = b[f[i]].id => j = f[i]
      /\ b[f[i]].id \notin byHand /\ names[b[f[i]].id] \in Tracks =>
           HeadingOf(b, f[i]) = {names[b[f[i]].id]}
  BY <1>2, <1>3 DEF Orderly
<1>5. ASSUME NEW j \in EntryLines(a), a[j].id = a[i].id PROVE j = i
  BY <1>1, <1>2, <1>4, <1>5, EmbeddingKeepsOrder
<1> QED
  BY <1>2, <1>3, <1>4, <1>5

\* At most one entry is new, and that one is of a slice that was not listed.
LEMMA OrderlyUp ==
  ASSUME NEW a, NEW b, NEW f, Embeds(f, a, b), NEW names, NEW byHand,
         Orderly(a, names, byHand), NEW k,
         \A j \in EntryLines(b) :
           \/ \E i \in DOMAIN a : j = f[i]
           \/ /\ j = k /\ b[j].id \notin Listed(a)
              /\ b[j].id \notin byHand /\ names[b[j].id] \in Tracks =>
                   HeadingOf(b, j) = {names[b[j].id]}
  PROVE  Orderly(b, names, byHand)
<1> SUFFICES ASSUME HasRegion(b), NEW j \in EntryLines(b)
             PROVE  /\ \A l \in EntryLines(b) : b[l].id = b[j].id => l = j
                    /\ b[j].id \notin byHand /\ names[b[j].id] \in Tracks =>
                         HeadingOf(b, j) = {names[b[j].id]}
  BY Zenon DEF Orderly
<1>1. HasRegion(a) /\ EntryLines(a) \subseteq DOMAIN a /\ EntryLines(a) \subseteq Region(a)
  BY EmbeddedRegion, RegionIsInside DEF Embeds, Places, EntryLines
<1>2. \A l \in EntryLines(b) :
        \/ \E i \in EntryLines(a) : l = f[i] /\ b[l].id = a[i].id /\ a[i].id \in Listed(a)
        \/ l = k /\ b[l].id \notin Listed(a)
  BY <1>1, EmbeddedRegion DEF Embeds, Places, Listed
<1>3. \A i \in EntryLines(a) :
        /\ \A l \in EntryLines(a) : a[l].id = a[i].id => l = i
        /\ a[i].id \notin byHand /\ names[a[i].id] \in Tracks =>
             HeadingOf(a, i) = {names[a[i].id]}
  BY <1>1, Zenon DEF Orderly
<1>4. ASSUME NEW l \in EntryLines(b), b[l].id = b[j].id PROVE l = j
  BY <1>2, <1>3, <1>4
<1>5. ASSUME b[j].id \notin byHand, names[b[j].id] \in Tracks
      PROVE  HeadingOf(b, j) = {names[b[j].id]}
  <2>1. CASE \E i \in DOMAIN a : j = f[i]
    <3>1. PICK i \in DOMAIN a : j = f[i]
      BY <2>1
    <3>2. i \in EntryLines(a) /\ b[j].id = a[i].id
      BY <1>1, <3>1, EmbeddedRegion DEF Embeds, Places
    <3>3. HeadingOf(b, j) = HeadingOf(a, i)
      BY <1>1, <3>1, <3>2, EmbeddedHeading
    <3> QED
      BY <1>3, <1>5, <3>2, <3>3
  <2> QED
    BY <1>5, <2>1
<1> QED
  BY <1>4, <1>5

LEMMA OneBeginKept ==
  ASSUME NEW a, NEW b, NEW f, Embeds(f, a, b)
  PROVE  OneBegin(a) <=> OneBegin(b)
<1>1. "begin" \in Frame
  BY DEF Frame
<1>2. /\ \A i \in LinesOf(a, "begin") : f[i] \in LinesOf(b, "begin") /\ i \in DOMAIN a
      /\ \A j \in LinesOf(b, "begin") : \E i \in LinesOf(a, "begin") : j = f[i]
  <2>1. \A i \in LinesOf(a, "begin") : i \in DOMAIN a
    BY DEF LinesOf
  <2> QED
    BY <1>1, <2>1, EmbeddedLeast
<1> QED
  BY <1>2, EmbeddingKeepsOrder DEF OneBegin

\* A filed entry stands under the heading of its track.
LEMMA FiledUnder ==
  ASSUME NEW t, IsText(t), HasRegion(t), NEW track, NEW s, NEW h, NEW last \in DOMAIN t,
         FiledAfter(t, track, h, last)
  PROVE  LET b == InsertAt(t, last + 1, Entry(s, NoId)) IN
           last + 1 \in EntryLines(b) /\ HeadingOf(b, last + 1) = {track}
<1> DEFINE n == last + 1
           b == InsertAt(t, n, Entry(s, NoId))
           f == Shift(n, Len(t))
           begin == Min(LinesOf(t, "begin"))
           end == Min(LinesOf(t, "end"))
<1>1. /\ Len(t) \in Nat /\ DOMAIN t = 1..Len(t) /\ n \in 1..(Len(t) + 1)
      /\ Region(t) \subseteq 1..Len(t)
  BY TextIsSeq, RegionIsInside
<1>2. Entry(s, NoId).kind = "entry" /\ "entry" \notin Frame
  BY DEF Entry, Line, Frame
<1>3. Embeds(f, t, b)
  BY <1>1, <1>2, InsertionEmbeds
<1>4. b[n].kind = "entry" /\ IsText(b) /\ DOMAIN b = 1..(Len(t) + 1)
  BY <1>1, <1>2, InsertedLines
<1> HIDE DEF b
<1>5. \A i \in 1..Len(t) : f[i] = IF i < n THEN i ELSE i + 1
  BY DEF Shift
<1> HIDE DEF f
<1>6. /\ begin \in DOMAIN t /\ Min(LinesOf(b, "begin")) = f[begin]
      /\ end \in DOMAIN t /\ Min(LinesOf(b, "end")) = f[end]
      /\ Region(t) = begin + 1 .. end - 1
  <2>1. "begin" \in Frame /\ "end" \in Frame
    BY DEF Frame
  <2>2. LinesOf(t, "begin") # {} /\ LinesOf(t, "end") # {}
    BY DEF HasRegion
  <2> QED
    BY <1>3, <2>1, <2>2, EmbeddedLeast DEF LinesOf, Region
<1> HIDE DEF begin, end
<1>7. /\ h \in TrackLines(t) /\ h \in DOMAIN t /\ t[h].id = track
      /\ last \in Region(t) /\ h <= last
      /\ \A g \in TrackLines(t) : ~(h < g /\ g <= last)
  <2>1. h \in TrackLines(t) /\ TrackLines(t) \subseteq Region(t) /\ t[h].id = track
    BY DEF FiledAfter, TrackLines
  <2>2. last = h \/ (/\ last \in Region(t) /\ last > h
                     /\ TrackLines(t) \cap (h + 1 .. last) = {})
    BY DEF FiledAfter, Block
  <2>3. TrackLines(t) \subseteq 1..Len(t) /\ h \in 1..Len(t) /\ last \in 1..Len(t)
    BY <1>1, <2>1
  <2> QED
    BY <1>1, <2>1, <2>2, <2>3
<1>8. n \in Region(b)
  <2>1. begin < last /\ last < end /\ begin \in 1..Len(t) /\ end \in 1..Len(t)
    BY <1>1, <1>6, <1>7
  <2>2. f[begin] = begin /\ f[end] = end + 1
    BY <1>5, <2>1
  <2>3. Region(b) = begin + 1 .. end
    BY <1>6, <2>1, <2>2 DEF Region
  <2> QED
    BY <2>1, <2>3
<1>9. n \in EntryLines(b)
  BY <1>4, <1>8 DEF EntryLines
<1>10. /\ \A g \in TrackLines(t) : f[g] \in TrackLines(b) /\ b[f[g]].id = t[g].id
       /\ \A j \in TrackLines(b) : \E g \in TrackLines(t) : j = f[g]
       /\ TrackLines(t) \subseteq 1..Len(t)
  <2>1. TrackLines(t) \subseteq 1..Len(t)
    BY <1>1 DEF TrackLines
  <2>2. /\ \A g \in DOMAIN t : g \in TrackLines(t) <=> f[g] \in TrackLines(b)
        /\ \A j \in TrackLines(b) : \E g \in TrackLines(t) : j = f[g]
    BY <1>3, EmbeddedRegion
  <2>3. \A g \in DOMAIN t : b[f[g]].id = t[g].id
    BY <1>3 DEF Embeds, Places
  <2> QED
    BY <1>1, <2>1, <2>2, <2>3
<1>11. \A g \in TrackLines(t) : f[g] < n <=> g <= last
  BY <1>1, <1>5, <1>10
<1>12. f[h] = h /\ n \in Block(b, f[h])
  <2>1. f[h] = h
    BY <1>1, <1>5, <1>7
  <2>2. ASSUME NEW j \in TrackLines(b), j \in h + 1 .. n PROVE FALSE
    <3>1. PICK g \in TrackLines(t) : j = f[g]
      BY <1>10
    <3>2. f[g] # n /\ g \in 1..Len(t) /\ h \in 1..Len(t)
      BY <1>1, <1>5, <1>7, <1>10
    <3>3. f[g] < n /\ h < f[g]
      BY <1>1, <2>2, <3>1, <3>2
    <3>4. g <= last /\ f[g] = g
      BY <1>1, <1>5, <1>11, <3>2, <3>3
    <3> QED
      BY <1>7, <3>3, <3>4
  <2>3. n > h
    BY <1>1, <1>7
  <2> QED
    BY <1>8, <2>1, <2>2, <2>3 DEF Block
<1>13. ASSUME NEW j \in TrackLines(b), n \in Block(b, j) PROVE j = f[h]
  <2>1. PICK g \in TrackLines(t) : j = f[g]
    BY <1>10
  <2>2. n > j /\ TrackLines(b) \cap (j + 1 .. n) = {}
    BY <1>13 DEF Block
  <2>3. g \in 1..Len(t) /\ h \in 1..Len(t) /\ g <= last /\ f[g] = g
    BY <1>1, <1>5, <1>7, <1>10, <1>11, <2>1, <2>2
  <2>4. ~(h < g)
    BY <1>7, <2>3
  <2>5. ~(g < h)
    <3>1. h \in TrackLines(b) /\ h <= n
      BY <1>1, <1>7, <1>10, <1>12
    <3> QED
      BY <2>1, <2>2, <2>3, <3>1
  <2> QED
    BY <1>12, <2>1, <2>3, <2>4, <2>5
<1>14. HeadingOf(b, n) = {track}
  <2>1. f[h] \in TrackLines(b) /\ b[f[h]].id = track
    BY <1>7, <1>10
  <2> QED
    BY <1>12, <1>13, <2>1 DEF HeadingOf
<1> QED
  BY <1>9, <1>14 DEF b

WellKept(t) == OneBegin(t) /\ Orderly(t, declared, touched)

LEMMA OrderlyStill ==
  ASSUME NEW t, NEW names, NEW A, NEW B, A \subseteq B, Orderly(t, names, A)
  PROVE  Orderly(t, names, B)
BY Zenon DEF Orderly

------------------------------------------------------------------------------
(* Filing and refreshing, done again.                                       *)

\* What a text that embeds another lists besides.
LEMMA ListedEmbedded ==
  ASSUME NEW a, NEW b, NEW f, Embeds(f, a, b), HasRegion(a)
  PROVE  /\ Listed(a) \subseteq Listed(b)
         /\ \A j \in EntryLines(b) : (\E i \in DOMAIN a : j = f[i]) => b[j].id \in Listed(a)
<1>1. EntryLines(a) \subseteq DOMAIN a
  BY RegionIsInside DEF Embeds, Places, EntryLines
<1>2. \A i \in DOMAIN a : /\ i \in EntryLines(a) <=> f[i] \in EntryLines(b)
                          /\ b[f[i]].id = a[i].id
  BY EmbeddedRegion DEF Embeds, Places
<1> QED
  BY <1>1, <1>2 DEF Listed

\* "Idempotent. `close-slice` can be run twice": filing lists the slice and no other, and
\* filing it again changes nothing.
THEOREM FilingAgain ==
  ASSUME NEW t, TextOK(t), Readable(t), NEW track, NEW s \in Slices,
         s \in Listed(t) \/ track \in TrackIds(t)
  PROVE  LET filed == InsertEntry(t, track, s) IN
           /\ Readable(filed) /\ Listed(filed) = Listed(t) \cup {s}
           /\ InsertEntry(filed, track, s) = filed
<1> DEFINE filed == InsertEntry(t, track, s)
<1>1. CASE s \in Listed(t)
  BY <1>1 DEF InsertEntry
<1>2. CASE s \notin Listed(t)
  <2>1. IsText(t) /\ HasRegion(t) /\ DOMAIN t = 1..Len(t) /\ Len(t) \in Nat
    BY TextIsSeq DEF TextOK, Readable
  <2>2. PICK h, last \in DOMAIN t :
          /\ FiledAfter(t, track, h, last)
          /\ filed = InsertAt(t, last + 1, Entry(s, NoId))
    BY <1>2, <2>1, EntryFiled
  <2> DEFINE n == last + 1
             f == Shift(n, Len(t))
  <2>3. /\ n \in 1..(Len(t) + 1)
        /\ Entry(s, NoId).kind = "entry" /\ Entry(s, NoId).id = s /\ "entry" \notin Frame
    BY <2>1 DEF Entry, Line, Frame
  <2>4. n \in EntryLines(filed)
    BY <2>1, <2>2, FiledUnder
  <2> HIDE DEF filed
  <2>5. /\ Embeds(f, t, filed) /\ filed[n] = Entry(s, NoId)
        /\ \A j \in DOMAIN filed \ {n} : \E i \in DOMAIN t : j = f[i]
    BY <2>1, <2>2, <2>3, InsertionPlaces, InsertionEmbeds
  <2> HIDE DEF f, n
  <2>6. HasRegion(filed) /\ Region(filed) \subseteq DOMAIN filed
    BY <2>1, <2>5, EmbeddedRegion, RegionIsInside DEF Embeds, Places
  <2>7. ASSUME NEW j \in Region(filed), filed[j].kind = "malformed" PROVE FALSE
    <3>1. j # n
      BY <2>3, <2>5, <2>7
    <3>2. PICK i \in DOMAIN t : j = f[i]
      BY <2>5, <2>6, <3>1
    <3>3. i \in Region(t) /\ t[i].kind = "malformed"
      BY <2>1, <2>5, <2>7, <3>2, EmbeddedRegion DEF Embeds, Places
    <3> QED
      BY <3>3 DEF Readable
  <2>8. Listed(t) \subseteq Listed(filed) /\ s \in Listed(filed)
    <3>1. Listed(t) \subseteq Listed(filed)
      BY <2>1, <2>5, ListedEmbedded
    <3>2. s \in Listed(filed)
      BY <2>3, <2>4, <2>5 DEF Listed
    <3> QED
      BY <3>1, <3>2
  <2>9. ASSUME NEW j \in EntryLines(filed) PROVE filed[j].id \in Listed(t) \cup {s}
    <3>1. j \in DOMAIN filed
      BY <2>6 DEF EntryLines
    <3> QED
      BY <2>1, <2>3, <2>5, <3>1, ListedEmbedded
  <2>10. Listed(filed) = Listed(t) \cup {s}
    BY <2>8, <2>9 DEF Listed
  <2>11. InsertEntry(filed, track, s) = filed
    BY <2>8 DEF InsertEntry
  <2> QED
    BY <2>6, <2>7, <2>10, <2>11 DEF Readable, filed
<1> QED
  BY <1>1, <1>2

\* "A file whose entries already read correctly comes back byte-identical": refreshing lists
\* what was listed, says of each entry what its slice is, and done again changes nothing.
THEOREM SyncingAgain ==
  ASSUME NEW t, TextOK(t), Readable(t), NEW d
  PROVE  LET synced == SyncText(t, d) IN
           /\ Readable(synced) /\ Listed(synced) = Listed(t)
           /\ \A i \in EntryLines(synced) : synced[i] = Entry(synced[i].id, d[synced[i].id])
           /\ SyncText(synced, d) = synced
<1> DEFINE synced == SyncText(t, d)
           f == [i \in DOMAIN t |-> i]
<1>1. IsText(t) /\ HasRegion(t)
  BY DEF TextOK, Readable
<1>2. /\ synced = [i \in DOMAIN t |-> synced[i]]
      /\ \A i \in DOMAIN t :
           /\ i \in EntryLines(t) => synced[i] = Entry(t[i].id, d[t[i].id])
           /\ synced[i].kind = t[i].kind /\ synced[i].id = t[i].id
  BY <1>1, SyncedLines DEF SyncText
<1>3. Embeds(f, t, synced) /\ \A i \in DOMAIN t : f[i] = i
  BY <1>1, SyncEmbeds
<1>4. SyncText(synced, d) =
        [i \in DOMAIN synced |->
           IF i \in EntryLines(synced) THEN Entry(synced[i].id, d[synced[i].id])
           ELSE synced[i]]
  BY DEF SyncText
<1> HIDE DEF synced, f
<1>5. HasRegion(synced) /\ \A i \in DOMAIN t : /\ i \in Region(t) <=> i \in Region(synced)
                                               /\ i \in EntryLines(t) <=> i \in EntryLines(synced)
  BY <1>1, <1>3, EmbeddedRegion
<1>6. DOMAIN synced = DOMAIN t
  BY <1>2
<1>7. Region(synced) \subseteq DOMAIN t /\ Region(t) \subseteq DOMAIN t
  BY <1>1, <1>3, <1>5, <1>6, RegionIsInside DEF Embeds, Places
<1>8. Readable(synced)
  BY <1>2, <1>5, <1>7 DEF Readable
<1>9. EntryLines(synced) = EntryLines(t)
  BY <1>5, <1>7 DEF EntryLines
<1>10. Listed(synced) = Listed(t)
  BY <1>2, <1>7, <1>9 DEF Listed, EntryLines
<1>11. \A i \in EntryLines(synced) : synced[i] = Entry(synced[i].id, d[synced[i].id])
  BY <1>2, <1>7, <1>9 DEF EntryLines
<1>12. SyncText(synced, d) = [i \in DOMAIN synced |-> synced[i]]
  BY <1>4, <1>11
<1>13. SyncText(synced, d) = synced
  BY <1>2, <1>6, <1>12
<1> QED
  BY <1>8, <1>10, <1>11, <1>13 DEF synced

LEMMA WellKeptEmbedded ==
  ASSUME NEW a, NEW b, NEW f, Embeds(f, a, b)
  PROVE  /\ WellKept(b) => WellKept(a)
         /\ WellKept(a) /\ (\A j \in EntryLines(b) : \E i \in DOMAIN a : j = f[i])
              => WellKept(b)
<1>1. OneBegin(a) <=> OneBegin(b)
  BY OneBeginKept
<1>2. ASSUME WellKept(b) PROVE WellKept(a)
  BY <1>1, <1>2, OrderlyDown DEF WellKept
<1>3. ASSUME WellKept(a), \A j \in EntryLines(b) : \E i \in DOMAIN a : j = f[i]
      PROVE  WellKept(b)
  BY <1>1, <1>3, OrderlyUp DEF WellKept
<1> QED
  BY <1>2, <1>3

LEMMA SyncKeeps ==
  ASSUME NEW t, IsText(t), WellKept(t), NEW d
  PROVE  WellKept(SyncText(t, d))
<1> DEFINE b == SyncText(t, d)
           f == [i \in DOMAIN t |-> i]
<1>1. Embeds(f, t, b) /\ DOMAIN b = DOMAIN t
  BY SyncEmbeds, SyncedLines
<1>2. ASSUME NEW j \in EntryLines(b), HasRegion(b) PROVE \E i \in DOMAIN t : j = f[i]
  BY <1>1, <1>2, RegionIsInside DEF Embeds, Places, EntryLines
<1> HIDE DEF f, b
<1>3. CASE HasRegion(b)
  BY <1>1, <1>2, <1>3, WellKeptEmbedded DEF b
<1>4. CASE ~HasRegion(b)
  BY <1>1, <1>4, OneBeginKept DEF WellKept, Orderly, b
<1> QED
  BY <1>3, <1>4

\* A line other than a marker or a heading is put into a text: as an entry, only of a slice
\* that was not listed, and under its own track or by hand.
LEMMA InsertKeeps ==
  ASSUME NEW t, TextOK(t), WellKept(t), NEW k \in 1..(Len(t) + 1), NEW line,
         line.kind \notin Frame,
         line.kind = "entry" =>
           /\ line.id \notin Listed(t)
           /\ line.id \notin touched /\ declared[line.id] \in Tracks =>
                HeadingOf(InsertAt(t, k, line), k) = {declared[line.id]}
  PROVE  WellKept(InsertAt(t, k, line))
<1> DEFINE b == InsertAt(t, k, line)
           f == Shift(k, Len(t))
<1>1. IsText(t) /\ Len(t) \in Nat /\ DOMAIN t = 1..Len(t)
  BY TextIsSeq DEF TextOK
<1>2. Embeds(f, t, b) /\ DOMAIN b = 1..(Len(t) + 1) /\ b[k] = line
  BY <1>1, InsertionEmbeds, InsertedLines
<1>3. \A i \in 1..Len(t) : f[i] = IF i < k THEN i ELSE i + 1
  BY DEF Shift
<1> HIDE DEF f, b
<1>4. OneBegin(b)
  BY <1>2, OneBeginKept DEF WellKept
<1>5. CASE ~HasRegion(b)
  BY <1>4, <1>5 DEF WellKept, Orderly, b
<1>6. CASE HasRegion(b)
  <2>1. ASSUME NEW j \in EntryLines(b)
        PROVE  \/ \E i \in DOMAIN t : j = f[i]
               \/ /\ j = k /\ b[j].id \notin Listed(t)
                  /\ b[j].id \notin touched /\ declared[b[j].id] \in Tracks =>
                       HeadingOf(b, j) = {declared[b[j].id]}
    <3>1. j \in 1..(Len(t) + 1) /\ b[j].kind = "entry"
      BY <1>2, <1>6, RegionIsInside DEF Embeds, Places, EntryLines
    <3>2. CASE j < k
      <4>1. j \in DOMAIN t /\ f[j] = j
        BY <1>1, <1>3, <3>1, <3>2
      <4> QED
        BY <4>1
    <3>3. CASE j > k
      <4>1. j - 1 \in DOMAIN t /\ f[j - 1] = j
        BY <1>1, <1>3, <3>1, <3>3
      <4> QED
        BY <4>1
    <3>4. CASE j = k
      BY <1>2, <3>1, <3>4 DEF b
    <3> QED
      BY <1>1, <3>1, <3>2, <3>3, <3>4
  <2> QED
    BY <1>2, <1>4, <2>1, OrderlyUp DEF WellKept, b
<1> QED
  BY <1>5, <1>6

LEMMA FilingKeeps ==
  ASSUME NEW t, TextOK(t), Readable(t), WellKept(t),
         NEW s \in Slices, s \notin Listed(t), declared[s] \in TrackIds(t)
  PROVE  /\ WellKept(InsertEntry(t, declared[s], s))
         /\ s \in Listed(InsertEntry(t, declared[s], s))
<1>1. IsText(t) /\ HasRegion(t) /\ DOMAIN t = 1..Len(t) /\ Len(t) \in Nat
  BY TextIsSeq DEF TextOK, Readable
<1>2. PICK h, last \in DOMAIN t :
        /\ FiledAfter(t, declared[s], h, last)
        /\ InsertEntry(t, declared[s], s) = InsertAt(t, last + 1, Entry(s, NoId))
  BY <1>1, EntryFiled
<1> DEFINE b == InsertAt(t, last + 1, Entry(s, NoId))
<1>3. last + 1 \in EntryLines(b) /\ HeadingOf(b, last + 1) = {declared[s]}
  BY <1>1, <1>2, FiledUnder
<1>4. last + 1 \in 1..(Len(t) + 1)
  BY <1>1
<1>5. b[last + 1] = Entry(s, NoId)
  BY <1>1, <1>4, InsertedLines
<1>6. Entry(s, NoId).kind = "entry" /\ Entry(s, NoId).id = s /\ "entry" \notin Frame
  BY DEF Entry, Line, Frame
<1>7. WellKept(b)
  BY <1>3, <1>4, <1>6, InsertKeeps
<1> QED
  BY <1>2, <1>3, <1>5, <1>6, <1>7 DEF Listed

LEMMA RemoveKeeps ==
  ASSUME NEW t, TextOK(t), WellKept(t), NEW k \in DOMAIN t,
         t[k].kind \in {"entry", "begin", "text"}
  PROVE  WellKept(RemoveAt(t, k))
<1>1. CASE t[k].kind # "begin"
  <2>1. t[k].kind \notin Frame
    BY <1>1 DEF Frame
  <2> QED
    BY <2>1, RemovalEmbeds, WellKeptEmbedded DEF TextOK
<1>2. CASE t[k].kind = "begin"
  <2>1. /\ Len(t) \in Nat /\ DOMAIN t = 1..Len(t)
        /\ DOMAIN RemoveAt(t, k) = 1..(Len(t) - 1)
        /\ \A j \in 1..(Len(t) - 1) : RemoveAt(t, k)[j] = IF j < k THEN t[j] ELSE t[j + 1]
    BY TextIsSeq, RemovedLines DEF TextOK
  <2>2. ASSUME NEW j \in LinesOf(RemoveAt(t, k), "begin") PROVE FALSE
    <3>1. j \in 1..(Len(t) - 1) /\ RemoveAt(t, k)[j].kind = "begin"
      BY <2>1 DEF LinesOf
    <3>2. k \in LinesOf(t, "begin")
      BY <1>2 DEF LinesOf
    <3>3. CASE j < k
      <4>1. j \in LinesOf(t, "begin")
        BY <2>1, <3>1, <3>3 DEF LinesOf
      <4> QED
        BY <2>1, <3>2, <3>3, <4>1 DEF WellKept, OneBegin
    <3>4. CASE ~(j < k)
      <4>1. j + 1 \in LinesOf(t, "begin")
        BY <2>1, <3>1, <3>4 DEF LinesOf
      <4> QED
        BY <2>1, <3>1, <3>2, <3>4, <4>1 DEF WellKept, OneBegin
    <3> QED
      BY <3>3, <3>4
  <2> QED
    BY <2>2 DEF WellKept, OneBegin, Orderly, HasRegion
<1> QED
  BY <1>1, <1>2

\* What is held is as orderly as what it will replace.
OrderInv ==
  /\ MTyped /\ WellKept(brief.text)
  /\ \A p \in Procs : proc[p].step \in Holding => WellKept(proc[p].held.text)

LEMMA WellKeptStill ==
  ASSUME declared' = declared, touched \subseteq touched', NEW t, WellKept(t)
  PROVE  OneBegin(t) /\ Orderly(t, declared', touched')
BY OrderlyStill DEF WellKept

LEMMA OrderStays ==
  ASSUME OrderInv, [MilestoneNext]_milestoneVars
  PROVE  OrderInv'
<1> DEFINE Kept(t) == OneBegin(t) /\ Orderly(t, declared', touched')
<1>1. CASE UNCHANGED milestoneVars
  BY <1>1, TypesStay DEF OrderInv, WellKept, OneBegin, milestoneVars
<1>2. CASE MilestoneNext
  <2>1. MTyped /\ MTyped' /\ ((\E p \in Procs : Turn(p) \/ Write(p)) \/ Save)
    BY <1>2, MilestoneSteps DEF OrderInv
  <2>2. declared' = declared /\ touched \subseteq touched'
    BY <2>1 DEF Turn, Write, Save
  <2>3. \A t : WellKept(t) => Kept(t)
    BY <2>2, WellKeptStill
  <2>4. TextOK(brief.text) /\ WellKept(brief.text)
    BY <2>1 DEF MTyped, FileOK, OrderInv
  <2> HIDE DEF Kept
  <2>5. ASSUME NEW p \in Procs, Turn(p)
        PROVE  /\ Kept(brief'.text)
               /\ \A q \in Procs : proc'[q].step \in Holding => Kept(proc'[q].held.text)
    <3>1. Kept(brief'.text)
      BY <2>3, <2>4, <2>5 DEF Turn
    <3>2. ASSUME NEW q \in Procs \ {p}, proc'[q].step \in Holding
          PROVE  Kept(proc'[q].held.text)
      BY <2>3, <2>5, <3>2 DEF Turn, OrderInv
    <3>3. ASSUME proc'[p].step \in Holding
          PROVE  Kept(proc'[p].held.text)
      <4>1. Idle.step = "idle"
        BY DEF Idle
      <4>2. Takes(p)
        BY <2>5, <3>3, <4>1 DEF Turn, Listens, Ends, Goes, Holding
      <4>3. \/ \E s \in Slices :
                 /\ Readable(brief.text) /\ s \notin Listed(brief.text)
                 /\ declared[s] \in TrackIds(brief.text)
                 /\ proc'[p].held.text = InsertEntry(brief.text, declared[s], s)
            \/ proc'[p].held.text = SyncText(brief.text, doc)
            \/ proc'[p].held.text = brief.text
        BY <4>2 DEF Takes
      <4>4. WellKept(proc'[p].held.text)
        BY <2>4, <4>3, FilingKeeps, SyncKeeps DEF TextOK
      <4> QED
        BY <2>3, <4>4
    <3> QED
      BY <3>1, <3>2, <3>3
  <2>6. ASSUME NEW q \in Procs, Marked(q), proc'[q].step \in Holding
        PROVE  Kept(proc'[q].held.text)
    BY <2>3, <2>6 DEF Marked, OrderInv
  <2>7. ASSUME NEW p \in Procs, Write(p)
        PROVE  /\ Kept(brief'.text)
               /\ \A q \in Procs : proc'[q].step \in Holding => Kept(proc'[q].held.text)
    <3>1. Kept(brief'.text)
      BY <2>3, <2>7 DEF Write, OrderInv
    <3>2. proc'[p].step \notin Holding
      BY <2>7 DEF Write, Idle, Holding
    <3> QED
      BY <2>6, <2>7, <3>1, <3>2 DEF Write
  <2>8. ASSUME Save
        PROVE  /\ Kept(brief'.text)
               /\ \A q \in Procs : proc'[q].step \in Holding => Kept(proc'[q].held.text)
    <3>1. Kept(brief'.text)
      <4>1. ASSUME NEW k, NEW kind \in {"text", "malformed"}, Inserts(k, Plain(kind))
            PROVE  Kept(brief'.text)
        <5>1. Plain(kind).kind \notin Frame /\ Plain(kind).kind # "entry"
          BY DEF Plain, Line, Frame
        <5>2. WellKept(brief'.text)
          BY <2>4, <4>1, <5>1, InsertKeeps DEF Inserts
        <5> QED
          BY <2>3, <5>2
      <4>2. ASSUME NEW k, NEW s \in Slices, Inserts(k, Entry(s, NoId)),
                   s \notin Listed(brief.text), touched' = touched \cup {s}
            PROVE  Kept(brief'.text)
        <5> DEFINE b == InsertAt(brief.text, k, Entry(s, NoId))
                   f == Shift(k, Len(brief.text))
        <5>1. /\ Entry(s, NoId).kind \notin Frame /\ Entry(s, NoId).kind = "entry"
              /\ Entry(s, NoId).id = s
          BY DEF Entry, Line, Frame
        <5>2. /\ IsText(brief.text) /\ Len(brief.text) \in Nat
              /\ DOMAIN brief.text = 1..Len(brief.text) /\ k \in 1..(Len(brief.text) + 1)
              /\ brief'.text = b
          BY <2>4, <4>2, TextIsSeq DEF TextOK, Inserts
        <5>3. Embeds(f, brief.text, b) /\ DOMAIN b = 1..(Len(brief.text) + 1) /\ b[k].id = s
          BY <5>1, <5>2, InsertionEmbeds, InsertedLines
        <5>4. \A i \in DOMAIN brief.text : f[i] = IF i < k THEN i ELSE i + 1
          BY <5>2 DEF Shift
        <5> HIDE DEF b, f
        <5>5. OneBegin(b)
          BY <2>4, <5>3, OneBeginKept DEF WellKept
        <5>6. Orderly(brief.text, declared, touched \cup {s})
          BY <2>4, OrderlyStill DEF WellKept
        <5>7. CASE HasRegion(b)
          <6>1. \A j \in EntryLines(b) :
                  \/ \E i \in DOMAIN brief.text : j = f[i]
                  \/ /\ j = k /\ b[j].id \notin Listed(brief.text)
                     /\ b[j].id \notin touched \cup {s}
                        /\ declared[b[j].id] \in Tracks =>
                          HeadingOf(b, j) = {declared[b[j].id]}
            <7> SUFFICES ASSUME NEW j \in EntryLines(b), j # k
                         PROVE  \E i \in DOMAIN brief.text : j = f[i]
              BY <4>2, <5>3
            <7>1. j \in 1..(Len(brief.text) + 1)
              BY <5>3, <5>7, RegionIsInside DEF Embeds, Places, EntryLines
            <7>2. CASE j < k
              <8>1. j \in DOMAIN brief.text /\ f[j] = j
                BY <5>2, <5>4, <7>1, <7>2
              <8> QED
                BY <8>1
            <7>3. CASE j > k
              <8>1. j - 1 \in DOMAIN brief.text /\ f[j - 1] = j
                BY <5>2, <5>4, <7>1, <7>3
              <8> QED
                BY <8>1
            <7> QED
              BY <5>2, <7>1, <7>2, <7>3
          <6>2. Orderly(b, declared, touched \cup {s})
            BY <5>3, <5>6, <6>1, OrderlyUp
          <6> QED
            BY <2>2, <4>2, <5>2, <5>5, <6>2 DEF Kept
        <5>8. CASE ~HasRegion(b)
          BY <5>2, <5>5, <5>8 DEF Kept, Orderly
        <5> QED
          BY <5>7, <5>8
      <4>3. ASSUME NEW k \in DOMAIN brief.text,
                   brief.text[k].kind \in {"entry", "begin", "text"},
                   brief'.text = RemoveAt(brief.text, k)
            PROVE  Kept(brief'.text)
        BY <2>3, <2>4, <4>3, RemoveKeeps
      <4> QED
        BY <2>8, <4>1, <4>2, <4>3 DEF Save
    <3> QED
      BY <2>6, <2>8, <3>1 DEF Save
  <2>9. /\ Kept(brief'.text)
        /\ \A q \in Procs : proc'[q].step \in Holding => Kept(proc'[q].held.text)
    BY <2>1, <2>5, <2>7, <2>8
  <2> QED
    BY <2>1, <2>9 DEF OrderInv, WellKept, Kept, OneBegin
<1> QED
  BY <1>1, <1>2

LEMMA OrderAtFirst == OrderlyBriefs /\ MilestoneInit => OrderInv
<1> SUFFICES ASSUME OrderlyBriefs, MilestoneInit PROVE OrderInv
  OBVIOUS
<1>1. PICK b \in FirstBriefs :
        declared = b.declared /\ brief = [status |-> b.status, text |-> b.text]
  BY DEF MilestoneInit
<1>2. touched = {} /\ proc = [p \in Procs |-> Idle] /\ brief.text = b.text
  BY <1>1 DEF MilestoneInit
<1>3. WellKept(brief.text)
  BY <1>1, <1>2 DEF OrderlyBriefs, WellKept, OneBegin
<1>4. \A p \in Procs : proc[p].step = "idle"
  BY <1>2 DEF Idle
<1> QED
  BY <1>3, <1>4, TypedAtFirst DEF OrderInv, Holding

\* However closings of one slice overlap, crash and repeat, it is listed once, and under the
\* track it names: whoever edits the brief by hand in between, and whoever undoes whose
\* write.
THEOREM ListedOnce ==
  ASSUME OrderlyBriefs
  PROVE  MilestoneSpec => []RegionInOrder
<1>1. OrderInv => RegionInOrder
  BY DEF OrderInv, WellKept, RegionInOrder
<1>2. OrderInv /\ [MilestoneNext]_milestoneVars => OrderInv'
  BY OrderStays
<1>3. MilestoneInit => OrderInv
  BY OrderAtFirst
<1> QED
  BY <1>1, <1>2, <1>3, PTL DEF MilestoneSpec

------------------------------------------------------------------------------
(* What a closing leaves behind.                                            *)

Ticks(t, s) == \E i \in DOMAIN t : t[i] = Entry(s, "closed")

\* A text without markers lists nothing, and nobody gets a process to write one.
ListedIn(t, s) == HasRegion(t) => s \in Listed(t)

LEMMA InsertionTicks ==
  ASSUME NEW t, IsText(t), NEW k \in 1..(Len(t) + 1), NEW line, line.kind \notin Frame,
         line.says # "closed", NEW s
  PROVE  /\ Ticks(t, s) <=> Ticks(InsertAt(t, k, line), s)
         /\ ListedIn(t, s) => ListedIn(InsertAt(t, k, line), s)
<1> DEFINE b == InsertAt(t, k, line)
           f == Shift(k, Len(t))
<1>1. /\ Len(t) \in Nat /\ DOMAIN t = 1..Len(t) /\ DOMAIN b = 1..(Len(t) + 1)
      /\ \A j \in 1..(Len(t) + 1) :
           b[j] = IF j < k THEN t[j] ELSE IF j = k THEN line ELSE t[j - 1]
  <2>1. Len(t) \in Nat /\ DOMAIN t = 1..Len(t)
    BY TextIsSeq
  <2>2. /\ DOMAIN b = 1..(Len(t) + 1)
        /\ \A j \in 1..(Len(t) + 1) :
             b[j] = IF j < k THEN t[j] ELSE IF j = k THEN line ELSE t[j - 1]
    BY InsertedLines
  <2> QED
    BY <2>1, <2>2, Zenon
<1>6. Embeds(f, t, b)
  BY InsertionEmbeds
<1>2. Entry(s, "closed").says = "closed"
  BY DEF Entry, Line
<1> HIDE DEF b, f
<1>3. ASSUME NEW i \in DOMAIN t, t[i] = Entry(s, "closed") PROVE Ticks(b, s)
  <2>1. CASE i < k
    <3>1. i \in DOMAIN b /\ b[i] = t[i]
      BY <1>1, <2>1
    <3> QED
      BY <1>3, <3>1 DEF Ticks
  <2>2. CASE ~(i < k)
    <3>1. i + 1 \in DOMAIN b /\ b[i + 1] = t[i]
      BY <1>1, <2>2
    <3> QED
      BY <1>3, <3>1 DEF Ticks
  <2> QED
    BY <2>1, <2>2
<1>4. ASSUME NEW j \in DOMAIN b, b[j] = Entry(s, "closed") PROVE Ticks(t, s)
  <2>1. j # k
    BY <1>1, <1>2, <1>4
  <2>2. CASE j < k
    <3>1. j \in DOMAIN t /\ b[j] = t[j]
      BY <1>1, <2>2
    <3> QED
      BY <1>4, <3>1 DEF Ticks
  <2>3. CASE j > k
    <3>1. j - 1 \in DOMAIN t /\ b[j] = t[j - 1]
      BY <1>1, <2>3
    <3> QED
      BY <1>4, <3>1 DEF Ticks
  <2> QED
    BY <1>1, <2>1, <2>2, <2>3
<1>5. ASSUME ListedIn(t, s), HasRegion(b) PROVE s \in Listed(b)
  <2>1. HasRegion(t) /\ EntryLines(t) \subseteq DOMAIN t
    BY <1>6, <1>5, EmbeddedRegion, RegionIsInside DEF Embeds, Places, EntryLines
  <2>2. PICK i \in EntryLines(t) : t[i].id = s
    BY <1>5, <2>1 DEF ListedIn, Listed
  <2>3. f[i] \in EntryLines(b) /\ b[f[i]].id = s
    BY <1>6, <2>1, <2>2, EmbeddedRegion DEF Embeds, Places
  <2> QED
    BY <2>3 DEF Listed
<1> QED
  BY <1>3, <1>4, <1>5 DEF Ticks, ListedIn, b

LEMMA RemovalTicks ==
  ASSUME NEW t, TextOK(t), OneBegin(t), NEW k \in DOMAIN t,
         t[k].kind \in {"entry", "begin", "text"}, NEW s, s # t[k].id
  PROVE  /\ Ticks(t, s) <=> Ticks(RemoveAt(t, k), s)
         /\ ListedIn(t, s) => ListedIn(RemoveAt(t, k), s)
<1> DEFINE a == RemoveAt(t, k)
           f == Shift(k, Len(t) - 1)
<1>1. /\ IsText(t) /\ Len(t) \in Nat /\ DOMAIN t = 1..Len(t)
      /\ DOMAIN a = 1..(Len(t) - 1)
      /\ \A j \in 1..(Len(t) - 1) : a[j] = IF j < k THEN t[j] ELSE t[j + 1]
  BY TextIsSeq, RemovedLines DEF TextOK
<1>2. Entry(s, "closed").id = s
  BY DEF Entry, Line
<1> HIDE DEF a, f
<1>3. ASSUME NEW i \in DOMAIN a, a[i] = Entry(s, "closed") PROVE Ticks(t, s)
  <2>1. i \in DOMAIN t /\ i + 1 \in DOMAIN t /\ (a[i] = t[i] \/ a[i] = t[i + 1])
    BY <1>1
  <2> QED
    BY <1>3, <2>1 DEF Ticks
<1>4. ASSUME NEW j \in DOMAIN t, t[j] = Entry(s, "closed") PROVE Ticks(a, s)
  <2>1. j # k
    BY <1>2, <1>4
  <2>2. CASE j < k
    <3>1. j \in DOMAIN a /\ a[j] = t[j]
      BY <1>1, <2>2
    <3> QED
      BY <1>4, <3>1 DEF Ticks
  <2>3. CASE j > k
    <3>1. j - 1 \in DOMAIN a /\ a[j - 1] = t[j]
      BY <1>1, <2>3
    <3> QED
      BY <1>4, <3>1 DEF Ticks
  <2> QED
    BY <1>1, <2>1, <2>2, <2>3
<1>5. ASSUME ListedIn(t, s), HasRegion(a) PROVE s \in Listed(a)
  <2>1. t[k].kind # "begin"
    <3> SUFFICES ASSUME t[k].kind = "begin" PROVE FALSE
      OBVIOUS
    <3>1. PICK i \in DOMAIN a : a[i].kind = "begin"
      BY <1>5 DEF HasRegion, LinesOf
    <3>2. i \in 1..(Len(t) - 1) /\ k \in 1..Len(t)
      BY <1>1
    <3>3. CASE i < k
      <4>1. i \in DOMAIN t /\ t[i].kind = "begin" /\ i # k
        BY <1>1, <3>1, <3>2, <3>3
      <4> QED
        BY <4>1 DEF OneBegin, LinesOf
    <3>4. CASE ~(i < k)
      <4>1. i + 1 \in DOMAIN t /\ t[i + 1].kind = "begin" /\ i + 1 # k
        BY <1>1, <3>1, <3>2, <3>4
      <4> QED
        BY <4>1 DEF OneBegin, LinesOf
    <3> QED
      BY <3>3, <3>4
  <2>2. t[k].kind \notin Frame
    BY <2>1 DEF Frame
  <2>3. /\ Embeds(f, a, t)
        /\ \A j \in DOMAIN t \ {k} : \E i \in DOMAIN a : j = f[i] /\ a[i] = t[j]
    BY <1>1, <2>2, RemovalEmbeds DEF a, f
  <2>4. HasRegion(t) /\ EntryLines(t) \subseteq DOMAIN t
    BY <1>1, <1>5, <2>3, EmbeddedRegion, RegionIsInside DEF EntryLines
  <2>5. PICK j \in EntryLines(t) : t[j].id = s
    BY <1>5, <2>4 DEF ListedIn, Listed
  <2>6. PICK i \in DOMAIN a : j = f[i] /\ a[i] = t[j]
    BY <2>3, <2>4, <2>5
  <2>7. i \in EntryLines(a)
    BY <1>5, <2>3, <2>5, <2>6, EmbeddedRegion
  <2> QED
    BY <2>5, <2>6, <2>7 DEF Listed
<1> QED
  BY <1>3, <1>4, <1>5 DEF Ticks, ListedIn, a

LEMMA SyncTicks ==
  ASSUME NEW t, IsText(t), NEW d, NEW s
  PROVE  /\ Ticks(t, s) /\ d[s] = "closed" => Ticks(SyncText(t, d), s)
         /\ Ticks(SyncText(t, d), s) => Ticks(t, s) \/ d[s] = "closed"
         /\ ListedIn(t, s) => ListedIn(SyncText(t, d), s)
         /\ HasRegion(t) /\ s \in Listed(t) /\ d[s] = "closed" => Ticks(SyncText(t, d), s)
<1> DEFINE b == SyncText(t, d)
<1>1. /\ DOMAIN b = DOMAIN t
      /\ \A i \in DOMAIN t :
           /\ i \in EntryLines(t) => b[i] = Entry(t[i].id, d[t[i].id])
           /\ i \notin EntryLines(t) => b[i] = t[i]
  BY SyncedLines
<1>2. Embeds([i \in DOMAIN t |-> i], t, b)
  BY SyncEmbeds
<1> HIDE DEF b
<1>3. \A id, says : Entry(id, says).id = id /\ Entry(id, says).says = says
  BY DEF Entry, Line
<1>4. ASSUME NEW i \in DOMAIN t, t[i] = Entry(s, "closed"), d[s] = "closed"
      PROVE  Ticks(b, s)
  <2>1. t[i].id = s
    BY <1>3, <1>4
  <2>2. b[i] = Entry(s, "closed")
    BY <1>1, <1>4, <2>1
  <2> QED
    BY <1>1, <2>2 DEF Ticks
<1>5. ASSUME NEW i \in DOMAIN b, b[i] = Entry(s, "closed")
      PROVE  Ticks(t, s) \/ d[s] = "closed"
  <2>1. CASE i \in EntryLines(t)
    <3>1. Entry(t[i].id, d[t[i].id]) = Entry(s, "closed")
      BY <1>1, <1>5, <2>1
    <3>2. t[i].id = s /\ d[t[i].id] = "closed"
      BY <1>3, <3>1
    <3> QED
      BY <3>2
  <2>2. CASE i \notin EntryLines(t)
    BY <1>1, <1>5, <2>2 DEF Ticks
  <2> QED
    BY <2>1, <2>2
<1>6. ASSUME ListedIn(t, s), HasRegion(b) PROVE s \in Listed(b)
  <2>1. HasRegion(t) /\ EntryLines(t) \subseteq DOMAIN t
    BY <1>2, <1>6, EmbeddedRegion, RegionIsInside DEF EntryLines
  <2>2. PICK i \in EntryLines(t) : t[i].id = s
    BY <1>6, <2>1 DEF ListedIn, Listed
  <2>3. i \in EntryLines(b) /\ b[i].id = s
    <3>1. [j \in DOMAIN t |-> j][i] \in EntryLines(b)
      BY <1>2, <2>1, <2>2, EmbeddedRegion
    <3> QED
      BY <1>1, <1>3, <2>1, <2>2, <3>1
  <2> QED
    BY <2>3 DEF Listed
<1>7. ASSUME HasRegion(t), s \in Listed(t), d[s] = "closed" PROVE Ticks(b, s)
  <2>1. PICK i \in EntryLines(t) : t[i].id = s
    BY <1>7 DEF Listed
  <2>2. i \in DOMAIN t
    BY <1>7, RegionIsInside DEF EntryLines
  <2>3. b[i] = Entry(s, "closed")
    BY <1>1, <1>7, <2>1, <2>2
  <2> QED
    BY <1>1, <2>2, <2>3 DEF Ticks
<1> QED
  BY <1>4, <1>5, <1>6, <1>7 DEF Ticks, ListedIn, b

LEMMA FilingTicks ==
  ASSUME NEW t, TextOK(t), Readable(t), NEW track, NEW s, s \notin Listed(t),
         track \in TrackIds(t), NEW r
  PROVE  /\ Ticks(t, r) <=> Ticks(InsertEntry(t, track, s), r)
         /\ ListedIn(t, r) => ListedIn(InsertEntry(t, track, s), r)
<1>1. IsText(t) /\ HasRegion(t) /\ DOMAIN t = 1..Len(t) /\ Len(t) \in Nat
  BY TextIsSeq DEF TextOK, Readable
<1>2. PICK last \in DOMAIN t :
        InsertEntry(t, track, s) = InsertAt(t, last + 1, Entry(s, NoId))
  BY <1>1, EntryFiled
<1>3. /\ Entry(s, NoId).kind \notin Frame /\ Entry(s, NoId).says # "closed"
      /\ last + 1 \in 1..(Len(t) + 1)
  BY <1>1 DEF Entry, Line, Frame, NoId
<1> QED
  BY <1>1, <1>2, <1>3, InsertionTicks

\* An entry says closed of closed slices only.
TicksAreTrue(t) == \A s \in Slices : Ticks(t, s) => doc[s] = "closed"

\* What is written without having been overtaken loses no entry and no tick.
Derived(b, h) ==
  \A s \in Slices : (Ticks(b, s) => Ticks(h, s)) /\ (ListedIn(b, s) => ListedIn(h, s))

\* A closing that will still record its slice, or be overtaken, or say that it did not.
OnItsWay(q, s) ==
  /\ q.slice = s
  /\ \/ q.step \in {"listing", "reading"}
     \/ q.step = "loading" /\ ListedIn(brief.text, s)
     \/ q.step = "filing" /\ (q.overtaken \/ ListedIn(q.held.text, s))
     \/ q.step = "writing" /\ (q.overtaken \/ Ticks(q.held.text, s))

Recorded(s) ==
  doc[s] = "closed" /\ declared[s] \in Tracks =>
    Ticks(brief.text, s) \/ \E p \in Procs : OnItsWay(proc[p], s)

Faithful ==
  /\ TicksAreTrue(brief.text)
  /\ \A p \in Procs : proc[p].step \in Holding =>
       /\ TicksAreTrue(proc[p].held.text)
       /\ ~proc[p].overtaken => Derived(brief.text, proc[p].held.text)

RecordInv ==
  /\ OrderInv /\ Faithful
  /\ ~lost => \A s \in Slices \ (touched \cup warned) : Recorded(s)

LEMMA TicksStayTrue ==
  ASSUME MTyped, MTyped', (\E p \in Procs : Turn(p) \/ Write(p)) \/ Save,
         NEW t, TicksAreTrue(t)
  PROVE  \A s \in Slices : Ticks(t, s) => doc'[s] = "closed"
BY ClosedStays DEF TicksAreTrue

\* What a process takes to write says the truth and keeps what the brief says.
LEMMA TakenIsFaithful ==
  ASSUME OrderInv, TicksAreTrue(brief.text), NEW p \in Procs, Takes(p)
  PROVE  /\ TicksAreTrue(proc'[p].held.text)
         /\ Derived(brief.text, proc'[p].held.text)
<1> DEFINE s == proc[p].slice
           t == brief.text
           h == proc'[p].held.text
<1>1. TextOK(t) /\ IsText(t)
  BY DEF OrderInv, MTyped, FileOK, TextOK
<1>2. CASE /\ Readable(t) /\ s \in Slices \ Listed(t) /\ declared[s] \in TrackIds(t)
           /\ h = InsertEntry(t, declared[s], s)
  BY <1>1, <1>2, FilingTicks DEF TicksAreTrue, Derived
<1>3. CASE h = SyncText(t, doc)
  BY <1>1, <1>3, SyncTicks DEF TicksAreTrue, Derived
<1>4. CASE h = t
  BY <1>4 DEF TicksAreTrue, Derived
<1> QED
  BY <1>2, <1>3, <1>4 DEF Takes

LEMMA FaithStays ==
  ASSUME OrderInv, OrderInv', Faithful,
         (\E p \in Procs : Turn(p) \/ Write(p)) \/ Save
  PROVE  Faithful'
<1> DEFINE True(t) == \A s \in Slices : Ticks(t, s) => doc'[s] = "closed"
           Fair(q) == proc'[q].step \in Holding =>
                        /\ True(proc'[q].held.text)
                        /\ ~proc'[q].overtaken => Derived(brief'.text, proc'[q].held.text)
<1>1. \A t : TicksAreTrue(t) => True(t)
  BY TicksStayTrue DEF OrderInv
<1>2. TicksAreTrue(brief.text)
  BY DEF Faithful
<1> HIDE DEF True
<1>3. ASSUME NEW p \in Procs, Turn(p)
      PROVE  True(brief'.text) /\ \A q \in Procs : Fair(q)
  <2>1. brief' = brief
    BY <1>3 DEF Turn
  <2>2. ASSUME NEW q \in Procs \ {p} PROVE Fair(q)
    BY <1>1, <1>3, <2>1 DEF Turn, Faithful
  <2>3. ASSUME proc'[p].step \in Holding PROVE Fair(p)
    <3>1. Idle.step = "idle"
      BY DEF Idle
    <3>2. Takes(p)
      BY <1>3, <2>3, <3>1 DEF Turn, Listens, Ends, Goes, Holding
    <3> QED
      BY <1>1, <1>2, <2>1, <3>2, TakenIsFaithful
  <2> QED
    BY <1>1, <1>2, <2>1, <2>2, <2>3
<1>4. ASSUME NEW q \in Procs, Marked(q) PROVE Fair(q)
  BY <1>1, <1>4 DEF Marked, Faithful, Holding
<1>5. ASSUME NEW p \in Procs, Write(p)
      PROVE  True(brief'.text) /\ \A q \in Procs : Fair(q)
  <2>1. True(brief'.text)
    BY <1>1, <1>5 DEF Write, Faithful
  <2>2. Fair(p)
    BY <1>5 DEF Write, Idle, Holding
  <2> QED
    BY <1>4, <1>5, <2>1, <2>2 DEF Write
<1>6. ASSUME Save
      PROVE  True(brief'.text) /\ \A q \in Procs : Fair(q)
  <2> DEFINE t == brief.text
  <2>1. TextOK(t) /\ IsText(t) /\ OneBegin(t)
    BY DEF OrderInv, MTyped, FileOK, TextOK, WellKept
  <2>2. ASSUME NEW k, NEW kind \in {"text", "malformed"}, Inserts(k, Plain(kind))
        PROVE  TicksAreTrue(brief'.text)
    <3>1. Plain(kind).kind \notin Frame /\ Plain(kind).says # "closed"
      BY DEF Plain, Line, Frame, NoId
    <3> QED
      BY <1>2, <2>1, <2>2, <3>1, InsertionTicks DEF Inserts, TicksAreTrue
  <2>3. ASSUME NEW k, NEW s \in Slices, Inserts(k, Entry(s, NoId))
        PROVE  TicksAreTrue(brief'.text)
    <3>1. Entry(s, NoId).kind \notin Frame /\ Entry(s, NoId).says # "closed"
      BY DEF Entry, Line, Frame, NoId
    <3> QED
      BY <1>2, <2>1, <2>3, <3>1, InsertionTicks DEF Inserts, TicksAreTrue
  <2>4. ASSUME NEW k \in DOMAIN t, brief'.text = RemoveAt(t, k)
        PROVE  TicksAreTrue(brief'.text)
    <3>1. ASSUME NEW s \in Slices, Ticks(RemoveAt(t, k), s) PROVE Ticks(t, s)
      <4>1. /\ Len(t) \in Nat /\ DOMAIN t = 1..Len(t)
            /\ DOMAIN RemoveAt(t, k) = 1..(Len(t) - 1)
            /\ \A j \in 1..(Len(t) - 1) :
                 RemoveAt(t, k)[j] = IF j < k THEN t[j] ELSE t[j + 1]
        BY <2>1, TextIsSeq, RemovedLines
      <4>2. PICK i \in 1..(Len(t) - 1) : RemoveAt(t, k)[i] = Entry(s, "closed")
        BY <3>1, <4>1 DEF Ticks
      <4>3. /\ i \in DOMAIN t /\ i + 1 \in DOMAIN t
            /\ t[i] = Entry(s, "closed") \/ t[i + 1] = Entry(s, "closed")
        BY <4>1, <4>2
      <4> QED
        BY <4>3 DEF Ticks
    <3> QED
      BY <1>2, <2>4, <3>1 DEF TicksAreTrue
  <2>5. True(brief'.text)
    BY <1>1, <1>6, <2>2, <2>3, <2>4 DEF Save
  <2> QED
    BY <1>4, <1>6, <2>5 DEF Save
<1>7. True(brief'.text) /\ \A q \in Procs : Fair(q)
  BY <1>3, <1>5, <1>6
<1> QED
  BY <1>7 DEF Faithful, TicksAreTrue, True, Derived

\* What nobody overtook or touched stays recorded, or on its way.
LEMMA RecordedAfterTurn ==
  ASSUME RecordInv, NEW p \in Procs, Turn(p), ~lost,
         NEW s \in Slices, s \notin touched', s \notin warned',
         doc'[s] = "closed", declared[s] \in Tracks
  PROVE  Ticks(brief'.text, s) \/ \E q \in Procs : OnItsWay(proc[q], s)'
<1>1. /\ brief' = brief /\ s \notin touched /\ s \notin warned /\ s # NoSlice
      /\ TextOK(brief.text) /\ IsText(brief.text)
  BY MilestoneAssumption DEF Turn, RecordInv, OrderInv, MTyped, FileOK, TextOK
<1>2. CASE doc[s] # "closed"
  <2>1. Listens(p) /\ doc \in [Slices -> {"open", "closed"}]
    BY <1>2 DEF Turn, Ends, Goes, Takes, RecordInv, OrderInv, MTyped
  <2>2. proc'[p].step = "listing" /\ proc'[p].slice = s
    BY <1>2, <2>1 DEF Listens
  <2> QED
    BY <2>2 DEF OnItsWay
<1>3. CASE Ticks(brief.text, s)
  BY <1>1, <1>3
<1>4. ASSUME NEW q \in Procs \ {p}, OnItsWay(proc[q], s)
      PROVE  OnItsWay(proc[q], s)'
  BY <1>1, <1>4 DEF Turn, OnItsWay, ListedIn
<1>5. ASSUME OnItsWay(proc[p], s), doc[s] = "closed"
      PROVE  Ticks(brief.text, s) \/ OnItsWay(proc[p], s)'
  <2>1. proc[p].slice = s
    BY <1>5 DEF OnItsWay
  <2>2. ~Listens(p)
    BY <1>5 DEF Listens, OnItsWay
  <2>3. CASE Ends(p)
    <3>1. /\ proc[p].step = "loading" /\ Readable(brief.text)
          /\ SyncText(brief.text, doc) = brief.text
      <4>1. declared[s] # "no milestone"
        BY MilestoneAssumption DEF Undeclared
      <4> QED
        BY <1>1, <2>1, <2>3, <4>1 DEF Ends
    <3>2. HasRegion(brief.text) /\ s \in Listed(brief.text)
      BY <1>5, <3>1 DEF OnItsWay, ListedIn, Readable
    <3> QED
      BY <1>1, <1>5, <3>1, <3>2, SyncTicks
  <2>4. CASE Goes(p)
    <3>1. \/ proc'[p].step = "loading" /\ s \in Listed(brief.text)
          \/ proc'[p].step = "reading"
      BY <1>5, <2>1, <2>4 DEF Goes, OnItsWay
    <3> QED
      BY <1>1, <2>1, <2>4, <3>1 DEF Goes, OnItsWay, ListedIn
  <2>5. CASE Takes(p)
    <3>1. CASE /\ proc'[p].step = "filing" /\ Readable(brief.text)
               /\ s \in Slices \ Listed(brief.text)
               /\ declared[s] \in TrackIds(brief.text)
               /\ proc'[p].held.text = InsertEntry(brief.text, declared[s], s)
      <4>1. s \in Listed(proc'[p].held.text)
        BY <1>1, <3>1, FilingKeeps DEF RecordInv, OrderInv
      <4> QED
        BY <2>1, <2>5, <3>1, <4>1 DEF Takes, OnItsWay, ListedIn
    <3>2. CASE /\ proc'[p].step = "writing" /\ proc[p].step = "loading"
               /\ Readable(brief.text)
               /\ proc'[p].held.text = SyncText(brief.text, doc)
      <4>1. HasRegion(brief.text) /\ s \in Listed(brief.text)
        BY <1>5, <3>2 DEF OnItsWay, ListedIn, Readable
      <4>2. Ticks(proc'[p].held.text, s)
        BY <1>1, <1>5, <3>2, <4>1, SyncTicks
      <4> QED
        BY <2>1, <2>5, <3>2, <4>2 DEF Takes, OnItsWay
    <3>3. proc[p].step # "moving"
      BY <1>5 DEF OnItsWay
    <3> QED
      BY <2>1, <2>5, <3>1, <3>2, <3>3 DEF Takes
  <2> QED
    BY <2>2, <2>3, <2>4, <2>5 DEF Turn
<1>6. CASE doc[s] = "closed"
  <2>1. Recorded(s)
    BY <1>1 DEF RecordInv
  <2> QED
    BY <1>1, <1>3, <1>4, <1>5, <1>6, <2>1 DEF Recorded
<1> QED
  BY <1>2, <1>6

LEMMA OnItsWayMarked ==
  ASSUME NEW q \in Procs, Marked(q), NEW s \in Slices, OnItsWay(proc[q], s),
         ListedIn(brief.text, s) => ListedIn(brief'.text, s)
  PROVE  OnItsWay(proc[q], s)'
<1>1. CASE proc[q].step \in {"listing", "reading"}
  BY <1>1 DEF Marked, OnItsWay
<1>2. CASE proc[q].step = "loading"
  <2>1. ListedIn(brief'.text, s) /\ proc'[q].slice = s /\ proc'[q].step = "loading"
    BY <1>2 DEF Marked, OnItsWay
  <2> QED
    BY <2>1 DEF OnItsWay, ListedIn
<1>3. CASE proc[q].step \in Holding
  BY <1>3 DEF Marked, OnItsWay, Holding
<1> QED
  BY <1>1, <1>2, <1>3 DEF OnItsWay, Holding

LEMMA RecordedAfterWrite ==
  ASSUME RecordInv, NEW p \in Procs, Write(p), ~lost',
         NEW s \in Slices, s \notin touched', s \notin warned',
         doc'[s] = "closed", declared[s] \in Tracks
  PROVE  Ticks(brief'.text, s) \/ \E q \in Procs : OnItsWay(proc[q], s)'
<1>1. /\ proc[p].step \in Holding /\ brief' = proc[p].held /\ ~lost /\ ~proc[p].overtaken
      /\ s \notin touched /\ s \notin warned /\ doc[s] = "closed"
  BY DEF Write
<1>2. Derived(brief.text, proc[p].held.text)
  BY <1>1 DEF RecordInv, Faithful
<1>3. Recorded(s)
  BY <1>1 DEF RecordInv
<1>4. CASE Ticks(brief.text, s)
  BY <1>1, <1>2, <1>4 DEF Derived
<1>5. ASSUME NEW q \in Procs \ {p}, OnItsWay(proc[q], s)
      PROVE  OnItsWay(proc[q], s)'
  <2>1. ListedIn(brief.text, s) => ListedIn(brief'.text, s)
    BY <1>1, <1>2 DEF Derived
  <2>2. Marked(q)
    BY DEF Write
  <2> QED
    BY <1>5, <2>1, <2>2, OnItsWayMarked
<1>6. ASSUME OnItsWay(proc[p], s)
      PROVE  Ticks(brief'.text, s) \/ OnItsWay(proc[p], s)'
  <2>1. proc[p].slice = s
    BY <1>6 DEF OnItsWay
  <2>2. CASE proc[p].step = "writing"
    BY <1>1, <1>6, <2>2 DEF OnItsWay
  <2>3. CASE proc[p].step = "filing"
    <3>1. ListedIn(brief'.text, s)
      BY <1>1, <1>6, <2>3 DEF OnItsWay
    <3>2. proc'[p].step = "loading" /\ proc'[p].slice = s
      BY <2>1, <2>3 DEF Write
    <3> QED
      BY <3>1, <3>2 DEF OnItsWay, ListedIn
  <2> QED
    BY <1>1, <2>2, <2>3 DEF Holding
<1> QED
  BY <1>1, <1>3, <1>4, <1>5, <1>6 DEF Recorded

LEMMA RecordedAfterSave ==
  ASSUME RecordInv, Save, ~lost',
         NEW s \in Slices, s \notin touched', s \notin warned',
         doc'[s] = "closed", declared[s] \in Tracks
  PROVE  Ticks(brief'.text, s) \/ \E q \in Procs : OnItsWay(proc[q], s)'
<1> DEFINE t == brief.text
<1>1. /\ ~lost /\ s \notin touched /\ s \notin warned /\ doc[s] = "closed"
      /\ TextOK(t) /\ IsText(t) /\ OneBegin(t) /\ s # NoId
  BY MilestoneAssumption DEF Save, RecordInv, OrderInv, MTyped, FileOK, TextOK, WellKept
<1>2. Recorded(s)
  BY <1>1 DEF RecordInv
<1>3. /\ Ticks(t, s) => Ticks(brief'.text, s)
      /\ ListedIn(t, s) => ListedIn(brief'.text, s)
  <2>1. ASSUME NEW k, NEW kind \in {"text", "malformed"}, Inserts(k, Plain(kind))
        PROVE  /\ Ticks(t, s) => Ticks(brief'.text, s)
               /\ ListedIn(t, s) => ListedIn(brief'.text, s)
    <3>1. Plain(kind).kind \notin Frame /\ Plain(kind).says # "closed"
      BY DEF Plain, Line, Frame, NoId
    <3> QED
      BY <1>1, <2>1, <3>1, InsertionTicks DEF Inserts
  <2>2. ASSUME NEW k, NEW r \in Slices, Inserts(k, Entry(r, NoId))
        PROVE  /\ Ticks(t, s) => Ticks(brief'.text, s)
               /\ ListedIn(t, s) => ListedIn(brief'.text, s)
    <3>1. Entry(r, NoId).kind \notin Frame /\ Entry(r, NoId).says # "closed"
      BY DEF Entry, Line, Frame, NoId
    <3> QED
      BY <1>1, <2>2, <3>1, InsertionTicks DEF Inserts
  <2>3. ASSUME NEW k \in DOMAIN t, t[k].kind \in {"entry", "begin", "text"},
               brief'.text = RemoveAt(t, k),
               touched' = touched \cup ({t[k].id} \ {NoId})
        PROVE  /\ Ticks(t, s) => Ticks(brief'.text, s)
               /\ ListedIn(t, s) => ListedIn(brief'.text, s)
    <3>1. s # t[k].id
      BY <1>1, <2>3
    <3> QED
      BY <1>1, <2>3, <3>1, RemovalTicks
  <2> QED
    BY <2>1, <2>2, <2>3 DEF Save
<1>4. \A q \in Procs : OnItsWay(proc[q], s) => OnItsWay(proc[q], s)'
  BY <1>3, OnItsWayMarked DEF Save
<1> QED
  BY <1>1, <1>2, <1>3, <1>4 DEF Recorded

LEMMA RecordStays ==
  ASSUME RecordInv, [MilestoneNext]_milestoneVars
  PROVE  RecordInv'
<1>1. CASE UNCHANGED milestoneVars
  <2>1. OrderInv'
    BY OrderStays DEF RecordInv
  <2>2. Faithful'
    BY <1>1 DEF RecordInv, Faithful, TicksAreTrue, Ticks, Derived, ListedIn, milestoneVars
  <2>3. ~lost' => \A s \in Slices \ (touched' \cup warned') : Recorded(s)'
    BY <1>1 DEF RecordInv, Recorded, Ticks, OnItsWay, ListedIn, milestoneVars
  <2> QED
    BY <2>1, <2>2, <2>3 DEF RecordInv
<1>2. CASE MilestoneNext
  <2>1. (\E p \in Procs : Turn(p) \/ Write(p)) \/ Save
    BY <1>2, MilestoneSteps DEF RecordInv, OrderInv
  <2>2. OrderInv'
    BY OrderStays DEF RecordInv
  <2>3. Faithful'
    BY <2>1, <2>2, FaithStays DEF RecordInv
  <2>4. declared' = declared
    BY <1>2 DEF MilestoneNext
  <2>5. ASSUME ~lost', NEW s \in Slices \ (touched' \cup warned'),
               doc'[s] = "closed", declared[s] \in Tracks
        PROVE  Ticks(brief'.text, s) \/ \E q \in Procs : OnItsWay(proc[q], s)'
    <3>1. ASSUME NEW p \in Procs, Turn(p)
          PROVE  Ticks(brief'.text, s) \/ \E q \in Procs : OnItsWay(proc[q], s)'
      <4>1. ~lost
        BY <2>5, <3>1 DEF Turn
      <4> QED
        BY <2>5, <3>1, <4>1, RecordedAfterTurn
    <3>2. ASSUME NEW p \in Procs, Write(p)
          PROVE  Ticks(brief'.text, s) \/ \E q \in Procs : OnItsWay(proc[q], s)'
      BY <2>5, <3>2, RecordedAfterWrite
    <3>3. ASSUME Save
          PROVE  Ticks(brief'.text, s) \/ \E q \in Procs : OnItsWay(proc[q], s)'
      BY <2>5, <3>3, RecordedAfterSave
    <3> QED
      BY <2>1, <3>1, <3>2, <3>3
  <2>6. ~lost' => \A s \in Slices \ (touched' \cup warned') : Recorded(s)'
    BY <2>4, <2>5 DEF Recorded, Ticks
  <2> QED
    BY <2>2, <2>3, <2>6 DEF RecordInv
<1> QED
  BY <1>1, <1>2

LEMMA RecordAtFirst == OrderlyBriefs /\ MilestoneInit => RecordInv
<1> SUFFICES ASSUME OrderlyBriefs, MilestoneInit PROVE RecordInv
  OBVIOUS
<1>1. PICK b \in FirstBriefs : brief = [status |-> b.status, text |-> b.text]
  BY DEF MilestoneInit
<1>2. \A i \in DOMAIN brief.text : brief.text[i].says # "closed"
  BY <1>1 DEF OrderlyBriefs
<1>3. \A s : ~Ticks(brief.text, s)
  BY <1>2 DEF Ticks, Entry, Line
<1>4. \A p \in Procs : proc[p].step = "idle"
  BY DEF MilestoneInit, Idle
<1>5. \A s \in Slices : doc[s] # "closed"
  BY DEF MilestoneInit
<1> QED
  BY <1>3, <1>4, <1>5, OrderAtFirst DEF RecordInv, Faithful, TicksAreTrue, Recorded, Holding

\* Once everybody is done, a closed slice that names its track has its ticked entry, or its
\* closing said otherwise, unless a human took the entry away or one write undid another.
THEOREM NoCheckboxGoesStale ==
  ASSUME OrderlyBriefs
  PROVE  MilestoneSpec => []RecordedOrSaid
<1>1. ASSUME RecordInv PROVE RecordedOrSaid
  <2>1. ASSUME Quiet PROVE \A p \in Procs : \A s : ~OnItsWay(proc[p], s)
    BY <2>1 DEF Quiet, At, OnItsWay
  <2> QED
    BY <1>1, <2>1 DEF RecordInv, Recorded, Ticks, RecordedOrSaid
<1>2. RecordInv /\ [MilestoneNext]_milestoneVars => RecordInv'
  BY RecordStays
<1>3. MilestoneInit => RecordInv
  BY RecordAtFirst
<1> QED
  BY <1>1, <1>2, <1>3, PTL DEF MilestoneSpec

------------------------------------------------------------------------------
(* The sections: what the reader of missing_sections knows.                 *)

\* Lines of text put in or taken out leave closed hints closed.
LEMMA HintsUp ==
  ASSUME NEW a, NEW b, NEW f, Places(f, a, b), HintsAreClosed(a),
         \A j \in DOMAIN b : b[j].kind \notin Written => \E i \in DOMAIN a : j = f[i]
  PROVE  HintsAreClosed(b)
<1>1. /\ DOMAIN a = 1..Len(a) /\ Len(a) \in Nat /\ DOMAIN b = 1..Len(b) /\ Len(b) \in Nat
  BY TextIsSeq DEF Places
<1>2. /\ \A i \in DOMAIN a : f[i] \in DOMAIN b /\ b[f[i]].kind = a[i].kind
                             /\ b[f[i]].id = a[i].id
      /\ \A i, j \in DOMAIN a : i < j <=> f[i] < f[j]
  BY PlacingKeepsOrder DEF Places
<1>3. ASSUME NEW j \in DOMAIN b, b[j].kind \notin Written
      PROVE  \E i \in DOMAIN a : j = f[i] /\ a[i].kind = b[j].kind
  BY <1>2, <1>3
<1>4. ASSUME NEW g \in DOMAIN a, NEW h \in DOMAIN a, NEW K, K \cap Written = {},
             \A k \in (g + 1)..(h - 1) : a[k].kind \notin K
      PROVE  \A k \in (f[g] + 1)..(f[h] - 1) : b[k].kind \notin K
  <2> SUFFICES ASSUME NEW k \in (f[g] + 1)..(f[h] - 1), b[k].kind \in K PROVE FALSE
    OBVIOUS
  <2>1. k \in DOMAIN b /\ b[k].kind \notin Written
    BY <1>1, <1>2, <1>4
  <2>2. PICK i \in DOMAIN a : k = f[i] /\ a[i].kind = b[k].kind
    BY <1>3, <2>1
  <2>3. f[g] < f[i] /\ f[i] < f[h]
    BY <1>1, <1>2, <2>1, <2>2
  <2>4. g < i /\ i < h
    BY <1>2, <2>3
  <2>5. i \in (g + 1)..(h - 1)
    BY <1>1, <2>4
  <2> QED
    BY <1>4, <2>2, <2>5
<1>5. /\ Headings \cap Written = {} /\ {"closes"} \cap Written = {}
      /\ (Headings \cup Commented \cup {"closes"}) \cap Written = {}
      /\ "opens" \notin Written /\ "closes" \notin Written
  BY DEF Headings, Written, Commented
<1>6. ASSUME NEW p \in LinesOf(b, "opens")
      PROVE  \E o \in LinesOf(a, "opens") : p = f[o]
  BY <1>3, <1>5 DEF LinesOf
<1>7. ASSUME NEW o \in LinesOf(a, "opens")
      PROVE  \E h \in 1..(f[o] - 1) :
               /\ b[h].kind = "section" /\ b[h].id # NoId
               /\ \A k \in (h + 1)..(f[o] - 1) : b[k].kind \notin Headings
  <2>1. PICK h \in 1..(o - 1) :
          /\ a[h].kind = "section" /\ a[h].id # NoId
          /\ \A k \in (h + 1)..(o - 1) : a[k].kind \notin Headings
    BY DEF HintsAreClosed
  <2>2. o \in DOMAIN a /\ h \in DOMAIN a /\ h < o
    BY <1>1 DEF LinesOf
  <2>3. f[h] \in 1..(f[o] - 1)
    BY <1>1, <1>2, <2>2
  <2>4. \A k \in (f[h] + 1)..(f[o] - 1) : b[k].kind \notin Headings
    BY <1>4, <1>5, <2>1, <2>2
  <2> QED
    BY <1>2, <2>1, <2>2, <2>3, <2>4
<1>8. ASSUME NEW o \in LinesOf(a, "opens")
      PROVE  \E c \in LinesOf(b, "closes") :
               /\ f[o] < c
               /\ \A k \in (f[o] + 1)..(c - 1) :
                    b[k].kind \notin Headings \cup Commented \cup {"closes"}
  <2>1. PICK c \in LinesOf(a, "closes") :
          /\ o < c
          /\ \A k \in (o + 1)..(c - 1) :
               a[k].kind \notin Headings \cup Commented \cup {"closes"}
    BY DEF HintsAreClosed
  <2>2. o \in DOMAIN a /\ c \in DOMAIN a /\ a[c].kind = "closes"
    BY DEF LinesOf
  <2>3. f[c] \in LinesOf(b, "closes") /\ f[o] < f[c]
    BY <1>2, <2>1, <2>2 DEF LinesOf
  <2>4. \A k \in (f[o] + 1)..(f[c] - 1) :
          b[k].kind \notin Headings \cup Commented \cup {"closes"}
    BY <1>4, <1>5, <2>1, <2>2
  <2> QED
    BY <2>3, <2>4
<1>9. ASSUME NEW d \in LinesOf(b, "closes")
      PROVE  \E o \in LinesOf(b, "opens") :
               o < d /\ \A k \in (o + 1)..(d - 1) : b[k].kind # "closes"
  <2>1. PICK c \in LinesOf(a, "closes") : d = f[c]
    BY <1>3, <1>5 DEF LinesOf
  <2>2. PICK o \in LinesOf(a, "opens") :
          o < c /\ \A k \in (o + 1)..(c - 1) : a[k].kind # "closes"
    BY DEF HintsAreClosed
  <2>3. o \in DOMAIN a /\ c \in DOMAIN a /\ a[o].kind = "opens"
    BY DEF LinesOf
  <2>4. f[o] \in LinesOf(b, "opens") /\ f[o] < d
    BY <1>2, <2>1, <2>2, <2>3 DEF LinesOf
  <2>5. \A k \in (f[o] + 1)..(f[c] - 1) : b[k].kind \notin {"closes"}
    BY <1>4, <1>5, <2>2, <2>3
  <2> QED
    BY <2>1, <2>4, <2>5
<1> QED
  BY <1>6, <1>7, <1>8, <1>9 DEF HintsAreClosed

LEMMA HintsDown ==
  ASSUME NEW a, NEW b, NEW f, Places(f, a, b), HintsAreClosed(b),
         \A j \in DOMAIN b :
           b[j].kind \in {"opens", "closes", "section"} => \E i \in DOMAIN a : j = f[i]
  PROVE  HintsAreClosed(a)
<1>1. /\ DOMAIN a = 1..Len(a) /\ Len(a) \in Nat /\ DOMAIN b = 1..Len(b) /\ Len(b) \in Nat
  BY TextIsSeq DEF Places
<1>2. /\ \A i \in DOMAIN a : f[i] \in DOMAIN b /\ b[f[i]].kind = a[i].kind
                             /\ b[f[i]].id = a[i].id
      /\ \A i, j \in DOMAIN a : i < j <=> f[i] < f[j]
  BY PlacingKeepsOrder DEF Places
<1>3. ASSUME NEW j \in DOMAIN b, b[j].kind \in {"opens", "closes", "section"}
      PROVE  \E i \in DOMAIN a : j = f[i] /\ a[i].kind = b[j].kind /\ a[i].id = b[j].id
  BY <1>2, <1>3
<1>4. ASSUME NEW g \in DOMAIN a, NEW h \in DOMAIN a, NEW K,
             \A k \in (f[g] + 1)..(f[h] - 1) : b[k].kind \notin K
      PROVE  \A k \in (g + 1)..(h - 1) : a[k].kind \notin K
  <2> SUFFICES ASSUME NEW k \in (g + 1)..(h - 1) PROVE a[k].kind \notin K
    OBVIOUS
  <2>1. k \in DOMAIN a /\ g < k /\ k < h
    BY <1>1
  <2>2. f[g] < f[k] /\ f[k] < f[h] /\ f[k] \in DOMAIN b
    BY <1>2, <2>1
  <2>3. f[k] \in (f[g] + 1)..(f[h] - 1)
    BY <1>1, <1>2, <2>2
  <2> QED
    BY <1>2, <1>4, <2>1, <2>3
<1>5. ASSUME NEW o \in LinesOf(a, "opens")
      PROVE  /\ \E h \in 1..(o - 1) :
                  /\ a[h].kind = "section" /\ a[h].id # NoId
                  /\ \A k \in (h + 1)..(o - 1) : a[k].kind \notin Headings
             /\ \E c \in LinesOf(a, "closes") :
                  /\ o < c
                  /\ \A k \in (o + 1)..(c - 1) :
                       a[k].kind \notin Headings \cup Commented \cup {"closes"}
  <2>1. o \in DOMAIN a /\ f[o] \in LinesOf(b, "opens")
    BY <1>2 DEF LinesOf
  <2>2. PICK h \in 1..(f[o] - 1) :
          /\ b[h].kind = "section" /\ b[h].id # NoId
          /\ \A k \in (h + 1)..(f[o] - 1) : b[k].kind \notin Headings
    BY <2>1 DEF HintsAreClosed
  <2>3. h \in DOMAIN b /\ h < f[o]
    BY <1>1, <1>2, <2>1
  <2>4. PICK i \in DOMAIN a : h = f[i] /\ a[i].kind = "section" /\ a[i].id # NoId
    BY <1>3, <2>2, <2>3
  <2>5. i \in 1..(o - 1) /\ \A k \in (i + 1)..(o - 1) : a[k].kind \notin Headings
    <3>1. i < o
      BY <1>2, <2>1, <2>3, <2>4
    <3> QED
      BY <1>1, <1>4, <2>1, <2>2, <2>4, <3>1
  <2>6. PICK d \in LinesOf(b, "closes") :
          /\ f[o] < d
          /\ \A k \in (f[o] + 1)..(d - 1) :
               b[k].kind \notin Headings \cup Commented \cup {"closes"}
    BY <2>1 DEF HintsAreClosed
  <2>7. PICK c \in DOMAIN a : d = f[c] /\ a[c].kind = "closes"
    BY <1>3 DEF LinesOf
  <2>8. c \in LinesOf(a, "closes") /\ o < c
    BY <1>2, <2>1, <2>6, <2>7 DEF LinesOf
  <2>9. \A k \in (o + 1)..(c - 1) :
          a[k].kind \notin Headings \cup Commented \cup {"closes"}
    BY <1>4, <2>1, <2>6, <2>7
  <2> QED
    BY <2>4, <2>5, <2>8, <2>9
<1>6. ASSUME NEW c \in LinesOf(a, "closes")
      PROVE  \E o \in LinesOf(a, "opens") :
               o < c /\ \A k \in (o + 1)..(c - 1) : a[k].kind # "closes"
  <2>1. c \in DOMAIN a /\ f[c] \in LinesOf(b, "closes")
    BY <1>2 DEF LinesOf
  <2>2. PICK p \in LinesOf(b, "opens") :
          p < f[c] /\ \A k \in (p + 1)..(f[c] - 1) : b[k].kind \notin {"closes"}
    BY <2>1 DEF HintsAreClosed
  <2>3. PICK o \in DOMAIN a : p = f[o] /\ a[o].kind = "opens"
    BY <1>3 DEF LinesOf
  <2>4. o \in LinesOf(a, "opens") /\ o < c
    BY <1>2, <2>1, <2>2, <2>3 DEF LinesOf
  <2>5. \A k \in (o + 1)..(c - 1) : a[k].kind \notin {"closes"}
    BY <1>4, <2>1, <2>2, <2>3
  <2> QED
    BY <2>4, <2>5
<1> QED
  BY <1>5, <1>6 DEF HintsAreClosed

LEMMA HintsKept ==
  ASSUME NEW t, TextOK(t), HintsAreClosed(t)
  PROVE  /\ \A k \in 1..(Len(t) + 1) : \A line :
              line.kind \in Written => HintsAreClosed(InsertAt(t, k, line))
         /\ \A k \in DOMAIN t :
              t[k].kind \in Written \cup {"begin"} => HintsAreClosed(RemoveAt(t, k))
         /\ \A d : HintsAreClosed(SyncText(t, d))
<1>1. IsText(t)
  BY DEF TextOK
<1>2. ASSUME NEW k \in 1..(Len(t) + 1), NEW line, line.kind \in Written
      PROVE  HintsAreClosed(InsertAt(t, k, line))
  <2> DEFINE b == InsertAt(t, k, line)
             f == Shift(k, Len(t))
  <2>1. /\ Places(f, t, b) /\ b[k] = line
        /\ \A j \in DOMAIN b \ {k} : \E i \in DOMAIN t : j = f[i]
    BY <1>1, InsertionPlaces
  <2> HIDE DEF b, f
  <2>2. \A j \in DOMAIN b : b[j].kind \notin Written => \E i \in DOMAIN t : j = f[i]
    BY <1>2, <2>1
  <2>3. HintsAreClosed(b)
    BY <2>1, <2>2, HintsUp
  <2> QED
    BY <2>3 DEF b
<1>3. ASSUME NEW k \in DOMAIN t, t[k].kind \in Written \cup {"begin"}
      PROVE  HintsAreClosed(RemoveAt(t, k))
  <2> DEFINE a == RemoveAt(t, k)
             f == Shift(k, Len(t) - 1)
  <2>1. /\ Places(f, a, t)
        /\ \A j \in DOMAIN t \ {k} : \E i \in DOMAIN a : j = f[i]
    BY <1>1, RemovalPlaces
  <2>2. t[k].kind \notin {"opens", "closes", "section"}
    BY <1>3 DEF Written
  <2> HIDE DEF a, f
  <2>3. \A j \in DOMAIN t :
          t[j].kind \in {"opens", "closes", "section"} => \E i \in DOMAIN a : j = f[i]
    BY <2>1, <2>2
  <2>4. HintsAreClosed(a)
    BY <2>1, <2>3, HintsDown
  <2> QED
    BY <2>4 DEF a
<1>4. ASSUME NEW d PROVE HintsAreClosed(SyncText(t, d))
  <2>1. Places([i \in DOMAIN t |-> i], t, SyncText(t, d))
    BY <1>1, SyncEmbeds DEF Embeds
  <2>2. \A j \in DOMAIN SyncText(t, d) : \E i \in DOMAIN t : j = [k \in DOMAIN t |-> k][i]
    BY <1>1, SyncedLines
  <2> QED
    BY <2>1, <2>2, HintsUp
<1> QED
  BY <1>2, <1>3, <1>4

\* The recursion has a solution; there is no induction in the prover, so the first number
\* of lines without one is taken.
LEMMA ReadersRead ==
  ASSUME NEW t, Len(t) \in Nat
  PROVE  /\ Readers(t)[0] = Reader
         /\ \A n \in 1..Len(t) : Readers(t)[n] = ReadLine(Readers(t)[n - 1], t[n])
<1> DEFINE Reads(g, n) ==
             g = [m \in 0..n |-> IF m = 0 THEN Reader ELSE ReadLine(g[m - 1], t[m])]
           Failing == {n \in 0..Len(t) : ~\E g : Reads(g, n)}
<1>1. Failing = {}
  <2> SUFFICES ASSUME Failing # {} PROVE FALSE
    OBVIOUS
  <2> DEFINE m == Min(Failing)
  <2>1. m \in Failing /\ \A n \in Failing : m <= n
    <3>1. Failing \in SUBSET Nat
      OBVIOUS
    <3> HIDE DEF Failing
    <3> QED
      BY <3>1, Least
  <2> HIDE DEF m
  <2>2. m \in 0..Len(t) /\ ~\E g : Reads(g, m)
    BY <2>1
  <2>3. CASE m = 0
    <3> DEFINE g == [n \in 0..0 |-> Reader]
    <3>1. Reads(g, 0)
      OBVIOUS
    <3> QED
      BY <2>2, <2>3, <3>1
  <2>4. CASE m # 0
    <3>1. m - 1 \in 0..Len(t) /\ m - 1 \notin Failing
      <4> HIDE DEF Failing
      <4> QED
        BY <2>1, <2>2, <2>4
    <3>2. PICK g : Reads(g, m - 1)
      BY <3>1
    <3> DEFINE h == [n \in 0..m |-> IF n = m THEN ReadLine(g[m - 1], t[m]) ELSE g[n]]
    <3>3. ASSUME NEW n \in 0..m
          PROVE  h[n] = IF n = 0 THEN Reader ELSE ReadLine(h[n - 1], t[n])
      <4>1. CASE n = m
        <5>1. h[m - 1] = g[m - 1]
          BY <2>2, <2>4
        <5> QED
          BY <2>4, <4>1, <5>1
      <4>2. CASE n # m
        <5>1. n \in 0..(m - 1)
          BY <2>2, <4>2
        <5>2. g[n] = IF n = 0 THEN Reader ELSE ReadLine(g[n - 1], t[n])
          BY <3>2, <5>1
        <5>3. h[n] = g[n] /\ (n # 0 => h[n - 1] = g[n - 1])
          BY <2>2, <4>2, <5>1
        <5> QED
          BY <5>2, <5>3
      <4> QED
        BY <4>1, <4>2
    <3>4. h = [n \in 0..m |-> h[n]]
      OBVIOUS
    <3> HIDE DEF h
    <3>5. Reads(h, m)
      BY <3>3, <3>4
    <3> QED
      BY <2>2, <3>5
  <2> QED
    BY <2>3, <2>4
<1>2. \E g : Reads(g, Len(t))
  BY <1>1
<1>3. Reads(Readers(t), Len(t))
  BY <1>2 DEF Readers
<1> HIDE DEF Failing
<1>4. ASSUME NEW n \in 0..Len(t)
      PROVE  Readers(t)[n] = IF n = 0 THEN Reader ELSE ReadLine(Readers(t)[n - 1], t[n])
  BY <1>3
<1> QED
  BY <1>4

\* Whether a comment is open after `n` lines, and whether `h` is the section they are in.
OpenAt(t, n) ==
  \E o \in 1..n : t[o].kind = "opens" /\ \A k \in (o + 1)..n : t[k].kind # "closes"
Under(t, n, h) ==
  /\ t[h].kind = "section" /\ t[h].id # NoId
  /\ \A k \in (h + 1)..n : t[k].kind \notin Headings

IsReader(r) ==
  /\ r = [filled |-> r.filled, current |-> r.current, comment |-> r.comment]
  /\ r.comment \in BOOLEAN

\* The reader knows both, and took for content what is content, and nothing else.
ReadSoFar(t, n) ==
  LET r == Readers(t)[n] IN
    /\ IsReader(r)
    /\ r.comment <=> OpenAt(t, n)
    /\ \A h \in 1..n : Under(t, n, h) => r.current = t[h].id
    /\ r.current # NoId =>
         \E h \in 1..n : Under(t, n, h) /\ t[h] = Line("section", r.current, NoId)
    /\ \A section \in r.filled : Content(t, section) # {}
    /\ \A section : \A j \in Content(t, section) :
         section # NoId /\ j <= n => section \in r.filled

\* Closed hints, seen from one line.
LEMMA HintsSeen ==
  ASSUME NEW t, TextOK(t), HintsAreClosed(t), NEW n \in 1..Len(t)
  PROVE  /\ OpenAt(t, n - 1) => t[n].kind \notin Headings \cup Commented
         /\ t[n].kind = "opens" => \E h \in 1..(n - 1) : Under(t, n - 1, h)
         /\ t[n].kind = "closes" => OpenAt(t, n - 1)
         /\ OpenAt(t, n) <=>
              t[n].kind = "opens" \/ (OpenAt(t, n - 1) /\ t[n].kind # "closes")
         /\ \A h \in 1..(n - 1) :
              Under(t, n, h) <=> Under(t, n - 1, h) /\ t[n].kind \notin Headings
<1>1. Len(t) \in Nat /\ DOMAIN t = 1..Len(t)
  BY TextIsSeq DEF TextOK
<1>2. ASSUME OpenAt(t, n - 1) PROVE t[n].kind \notin Headings \cup Commented
  <2>1. PICK o \in 1..(n - 1) :
          t[o].kind = "opens" /\ \A k \in (o + 1)..(n - 1) : t[k].kind # "closes"
    BY <1>2 DEF OpenAt
  <2>2. o \in LinesOf(t, "opens")
    BY <1>1, <2>1 DEF LinesOf
  <2>3. PICK c \in LinesOf(t, "closes") :
          /\ o < c
          /\ \A k \in (o + 1)..(c - 1) :
               t[k].kind \notin Headings \cup Commented \cup {"closes"}
    BY <2>2 DEF HintsAreClosed
  <2>4. c \in 1..Len(t) /\ t[c].kind = "closes"
    BY <1>1 DEF LinesOf
  <2>5. c >= n
    BY <1>1, <2>1, <2>3, <2>4
  <2>6. CASE c = n
    BY <2>4, <2>6 DEF Headings, Commented
  <2>7. CASE c # n
    <3>1. n \in (o + 1)..(c - 1)
      BY <1>1, <2>1, <2>4, <2>5, <2>7
    <3> QED
      BY <2>3, <3>1
  <2> QED
    BY <2>6, <2>7
<1>3. ASSUME t[n].kind = "opens" PROVE \E h \in 1..(n - 1) : Under(t, n - 1, h)
  <2>1. n \in LinesOf(t, "opens")
    BY <1>1, <1>3 DEF LinesOf
  <2> QED
    BY <2>1 DEF HintsAreClosed, Under
<1>4. ASSUME t[n].kind = "closes" PROVE OpenAt(t, n - 1)
  <2>1. n \in LinesOf(t, "closes")
    BY <1>1, <1>4 DEF LinesOf
  <2>2. PICK o \in LinesOf(t, "opens") :
          o < n /\ \A k \in (o + 1)..(n - 1) : t[k].kind # "closes"
    BY <2>1 DEF HintsAreClosed
  <2>3. o \in 1..(n - 1) /\ t[o].kind = "opens"
    BY <1>1, <2>2 DEF LinesOf
  <2> QED
    BY <2>2, <2>3 DEF OpenAt
<1>5. ASSUME OpenAt(t, n) PROVE t[n].kind = "opens" \/ (OpenAt(t, n - 1) /\ t[n].kind # "closes")
  <2>1. PICK o \in 1..n :
          t[o].kind = "opens" /\ \A k \in (o + 1)..n : t[k].kind # "closes"
    BY <1>5 DEF OpenAt
  <2>2. CASE o = n
    BY <2>1, <2>2
  <2>3. CASE o # n
    <3>1. o \in 1..(n - 1) /\ n \in (o + 1)..n /\ (o + 1)..(n - 1) \subseteq (o + 1)..n
      BY <1>1, <2>3
    <3> QED
      BY <2>1, <3>1 DEF OpenAt
  <2> QED
    BY <2>2, <2>3
<1>6. ASSUME t[n].kind = "opens" PROVE OpenAt(t, n)
  <2>1. n \in 1..n /\ (n + 1)..n = {}
    BY <1>1
  <2> QED
    BY <1>6, <2>1 DEF OpenAt
<1>7. ASSUME OpenAt(t, n - 1), t[n].kind # "closes" PROVE OpenAt(t, n)
  <2>1. PICK o \in 1..(n - 1) :
          t[o].kind = "opens" /\ \A k \in (o + 1)..(n - 1) : t[k].kind # "closes"
    BY <1>7 DEF OpenAt
  <2>2. o \in 1..n /\ \A k \in (o + 1)..n : k = n \/ k \in (o + 1)..(n - 1)
    BY <1>1
  <2> QED
    BY <1>7, <2>1, <2>2 DEF OpenAt
<1>8. ASSUME NEW h \in 1..(n - 1)
      PROVE  Under(t, n, h) <=> Under(t, n - 1, h) /\ t[n].kind \notin Headings
  <2>1. /\ n \in (h + 1)..n /\ (h + 1)..(n - 1) \subseteq (h + 1)..n
        /\ \A k \in (h + 1)..n : k = n \/ k \in (h + 1)..(n - 1)
    BY <1>1
  <2> QED
    BY <2>1 DEF Under
<1> QED
  BY <1>2, <1>3, <1>4, <1>5, <1>6, <1>7, <1>8

\* One line more.
LEMMA ReadOneMore ==
  ASSUME NEW t, TextOK(t), HintsAreClosed(t), NEW n \in 1..Len(t), ReadSoFar(t, n - 1)
  PROVE  ReadSoFar(t, n)
<1> DEFINE r == Readers(t)[n - 1]
           s == Readers(t)[n]
           kind == t[n].kind
<1>1. /\ Len(t) \in Nat /\ DOMAIN t = 1..Len(t) /\ n \in DOMAIN t
      /\ kind \in Kinds /\ t[n] = Line(kind, t[n].id, t[n].says)
      /\ kind = "section" => t[n].says = NoId
  BY TextIsSeq DEF TextOK, ProperLine
<1>2. s = ReadLine(r, t[n])
  BY <1>1, ReadersRead
<1>3. /\ IsReader(r)
      /\ r.comment <=> OpenAt(t, n - 1)
      /\ \A h \in 1..(n - 1) : Under(t, n - 1, h) => r.current = t[h].id
      /\ r.current # NoId =>
           \E h \in 1..(n - 1) :
             Under(t, n - 1, h) /\ t[h] = Line("section", r.current, NoId)
      /\ \A section \in r.filled : Content(t, section) # {}
      /\ \A section : \A j \in Content(t, section) :
           section # NoId /\ j <= n - 1 => section \in r.filled
  BY DEF ReadSoFar
<1>4. /\ OpenAt(t, n - 1) => kind \notin Headings \cup Commented
      /\ kind = "opens" => \E h \in 1..(n - 1) : Under(t, n - 1, h)
      /\ kind = "closes" => OpenAt(t, n - 1)
      /\ OpenAt(t, n) <=> kind = "opens" \/ (OpenAt(t, n - 1) /\ kind # "closes")
      /\ \A h \in 1..(n - 1) :
           Under(t, n, h) <=> Under(t, n - 1, h) /\ kind \notin Headings
  BY HintsSeen
<1> HIDE DEF r, s
\* No new heading: who is under what stays as it is.
<1>5. ASSUME kind \notin Headings, s.current = r.current
      PROVE  /\ \A h \in 1..n : Under(t, n, h) => s.current = t[h].id
             /\ s.current # NoId =>
                  \E h \in 1..n : Under(t, n, h) /\ t[h] = Line("section", s.current, NoId)
  <2>1. ~Under(t, n, n)
    BY <1>5 DEF Under, Headings
  <2>2. \A h \in 1..n : h = n \/ h \in 1..(n - 1)
    BY <1>1
  <2>3. \A h \in 1..(n - 1) : h \in 1..n
    BY <1>1
  <2> QED
    BY <1>3, <1>4, <1>5, <2>1, <2>2, <2>3
\* Content on this very line is content of the section the reader is in.
<1>10. ASSUME NEW section, n \in Content(t, section), section # NoId
       PROVE  kind \in Written /\ ~r.comment /\ r.current = section
  <2>1. kind \in Written /\ ~OpenAt(t, n - 1)
    BY <1>10 DEF Content, OpenAt
  <2>2. PICK h \in 1..(n - 1) :
          /\ t[h] = Line("section", section, NoId)
          /\ \A k \in (h + 1)..(n - 1) : t[k].kind \notin Headings
    BY <1>10 DEF Content
  <2>3. t[h].kind = "section" /\ t[h].id = section
    BY <2>2 DEF Line
  <2>4. Under(t, n - 1, h)
    BY <1>10, <2>2, <2>3 DEF Under
  <2> QED
    BY <1>3, <2>1, <2>3, <2>4
<1>11. ASSUME r.filled \subseteq s.filled,
              \A section : n \in Content(t, section) /\ section # NoId => section \in s.filled
       PROVE  \A section : \A j \in Content(t, section) :
                section # NoId /\ j <= n => section \in s.filled
  <2> SUFFICES ASSUME NEW section, NEW j \in Content(t, section), section # NoId, j <= n
               PROVE  section \in s.filled
    OBVIOUS
  <2>1. j \in Nat
    BY <1>1 DEF Content
  <2>2. CASE j = n
    BY <1>11, <2>2
  <2>3. CASE j # n
    <3>1. j <= n - 1
      BY <1>1, <2>1, <2>3
    <3> QED
      BY <1>3, <1>11, <3>1
  <2> QED
    BY <2>2, <2>3
<1>6. CASE r.comment
  <2>1. kind \notin Headings \cup Commented
    BY <1>3, <1>4, <1>6
  <2>2. s = [r EXCEPT !.comment = kind \notin Commented \cup {"closes"}]
    BY <1>2, <1>6 DEF ReadLine
  <2>3. /\ IsReader(s) /\ s.current = r.current /\ s.filled = r.filled
        /\ s.comment <=> kind \notin Commented \cup {"closes"}
    BY <1>3, <2>2 DEF IsReader
  <2>4. s.comment <=> OpenAt(t, n)
    BY <1>3, <1>4, <1>6, <2>1, <2>3
  <2>5. \A section : \A j \in Content(t, section) :
            section # NoId /\ j <= n => section \in s.filled
    BY <1>6, <1>10, <1>11, <2>3
  <2> QED
    BY <1>3, <1>5, <2>1, <2>3, <2>4, <2>5 DEF ReadSoFar, s
<1>7. CASE ~r.comment /\ kind \in Headings
  <2>1. s = [r EXCEPT !.current = IF kind = "section" THEN t[n].id ELSE NoId]
    BY <1>2, <1>7 DEF ReadLine
  <2>2. /\ IsReader(s) /\ s.current = (IF kind = "section" THEN t[n].id ELSE NoId)
        /\ s.filled = r.filled /\ ~s.comment
    BY <1>3, <1>7, <2>1 DEF IsReader
  <2>3. ~OpenAt(t, n)
    BY <1>3, <1>4, <1>7 DEF Headings
  <2>4. ASSUME NEW h \in 1..n, Under(t, n, h) PROVE s.current = t[h].id
    <3>1. h = n
      BY <1>1, <1>4, <1>7, <2>4
    <3> QED
      BY <2>2, <2>4, <3>1 DEF Under
  <2>5. ASSUME s.current # NoId
        PROVE  \E h \in 1..n : Under(t, n, h) /\ t[h] = Line("section", s.current, NoId)
    <3>1. kind = "section" /\ s.current = t[n].id
      BY <2>2, <2>5
    <3>2. n \in 1..n /\ (n + 1)..n = {}
      BY <1>1
    <3>3. Under(t, n, n) /\ t[n] = Line("section", s.current, NoId)
      BY <1>1, <2>5, <3>1, <3>2 DEF Under
    <3> QED
      BY <3>2, <3>3
  <2>6. \A section : \A j \in Content(t, section) :
            section # NoId /\ j <= n => section \in s.filled
    BY <1>7, <1>10, <1>11, <2>2 DEF Headings, Written
  <2> QED
    BY <1>3, <2>2, <2>3, <2>4, <2>5, <2>6 DEF ReadSoFar, s
<1>8. CASE /\ ~r.comment /\ kind \notin Headings
           /\ r.current = NoId \/ kind \in Commented \cup {"blank"}
  <2>1. s = r
    BY <1>2, <1>8 DEF ReadLine
  <2>2. kind # "opens"
    <3>1. kind \notin Commented \cup {"blank"} => r.current = NoId
      BY <1>8
    <3>2. "opens" \notin Commented \cup {"blank"}
      BY DEF Commented
    <3>3. kind = "opens" => r.current # NoId
      BY <1>3, <1>4 DEF Under
    <3> QED
      BY <3>1, <3>2, <3>3
  <2>3. s.comment <=> OpenAt(t, n)
    BY <1>3, <1>4, <1>8, <2>1, <2>2
  <2>4. \A section : \A j \in Content(t, section) :
            section # NoId /\ j <= n => section \in s.filled
    BY <1>8, <1>10, <1>11, <2>1 DEF Commented, Written
  <2> QED
    BY <1>3, <1>5, <1>8, <2>1, <2>3, <2>4 DEF ReadSoFar, s
<1>9. CASE /\ ~r.comment /\ kind \notin Headings /\ r.current # NoId
           /\ kind \notin Commented \cup {"blank"}
  <2>1. CASE kind = "opens"
    <3>1. s = [r EXCEPT !.comment = TRUE]
      BY <1>2, <1>9, <2>1 DEF ReadLine
    <3>2. IsReader(s) /\ s.current = r.current /\ s.filled = r.filled /\ s.comment
      BY <1>3, <3>1 DEF IsReader
    <3>3. \A section : \A j \in Content(t, section) :
              section # NoId /\ j <= n => section \in s.filled
      BY <1>10, <1>11, <2>1, <3>2 DEF Written
    <3> QED
      BY <1>3, <1>4, <1>5, <1>9, <2>1, <3>2, <3>3 DEF ReadSoFar, s
  <2>2. CASE kind # "opens"
    <3>1. s = [r EXCEPT !.filled = @ \cup {r.current}]
      BY <1>2, <1>9, <2>2 DEF ReadLine
    <3>2. /\ IsReader(s) /\ s.current = r.current /\ s.filled = r.filled \cup {r.current}
          /\ ~s.comment
      BY <1>3, <1>9, <3>1 DEF IsReader
    <3>3. kind \in Written /\ ~OpenAt(t, n - 1) /\ ~OpenAt(t, n)
      BY <1>1, <1>3, <1>4, <1>9, <2>2 DEF Kinds
    <3>4. n \in Content(t, r.current)
      <4>1. PICK h \in 1..(n - 1) :
              Under(t, n - 1, h) /\ t[h] = Line("section", r.current, NoId)
        BY <1>3, <1>9
      <4> QED
        BY <1>1, <3>3, <4>1 DEF Content, OpenAt, Under
    <3>5. \A section : \A j \in Content(t, section) :
              section # NoId /\ j <= n => section \in s.filled
      BY <1>10, <1>11, <3>2
    <3> QED
      BY <1>3, <1>5, <1>9, <3>2, <3>3, <3>4, <3>5 DEF ReadSoFar, s
  <2> QED
    BY <2>1, <2>2
<1> QED
  BY <1>6, <1>7, <1>8, <1>9

\* However a brief is laid out, if its hints are closed: a section is missing exactly when
\* nobody wrote anything under its heading, outside every comment.
THEOREM MissingMeansEmpty ==
  ASSUME NEW t, TextOK(t), HintsAreClosed(t)
  PROVE  MissingSections(t) = {section \in REQUIRED_SECTIONS : Content(t, section) = {}}
<1> DEFINE Failing == {n \in 0..Len(t) : ~ReadSoFar(t, n)}
<1>1. Len(t) \in Nat
  BY TextIsSeq DEF TextOK
<1>2. ReadSoFar(t, 0)
  <2>1. Readers(t)[0] = Reader
    BY <1>1, ReadersRead
  <2>2. \A section : \A j \in Content(t, section) : ~(j <= 0)
    BY <1>1, TextIsSeq DEF Content, TextOK
  <2> QED
    BY <2>1, <2>2 DEF ReadSoFar, Reader, IsReader, OpenAt
<1>3. Failing = {}
  <2> SUFFICES ASSUME Failing # {} PROVE FALSE
    OBVIOUS
  <2>1. Min(Failing) \in Failing /\ \A n \in Failing : Min(Failing) <= n
    <3>1. Failing \in SUBSET Nat
      OBVIOUS
    <3> HIDE DEF Failing
    <3> QED
      BY <3>1, Least
  <2>2. PICK m \in 0..Len(t) : ~ReadSoFar(t, m) /\ \A n \in Failing : m <= n
    BY <2>1
  <2>3. m \in 1..Len(t)
    BY <1>1, <1>2, <2>2
  <2>4. m - 1 \in 0..Len(t) /\ m - 1 \notin Failing
    BY <1>1, <2>2, <2>3
  <2>5. ReadSoFar(t, m - 1)
    BY <2>4
  <2> QED
    BY <2>2, <2>3, <2>5, ReadOneMore
<1>4. ReadSoFar(t, Len(t))
  BY <1>1, <1>3
<1>5. ASSUME NEW section \in REQUIRED_SECTIONS, Content(t, section) # {}
      PROVE  section \in Readers(t)[Len(t)].filled
  <2>1. PICK j \in Content(t, section) : TRUE
    BY <1>5
  <2>2. j <= Len(t)
    BY <1>1, TextIsSeq DEF Content, TextOK
  <2> QED
    BY <1>4, <2>1, <2>2, MilestoneAssumption DEF ReadSoFar
<1> QED
  BY <1>4, <1>5 DEF ReadSoFar, MissingSections

\* A section that is not missing says something, and says it itself.
LEMMA NotMissing ==
  ASSUME NEW t, TextOK(t), HintsAreClosed(t), MissingSections(t) = {},
         NEW section \in REQUIRED_SECTIONS
  PROVE  Content(t, section) # {}
BY MissingMeansEmpty

------------------------------------------------------------------------------
(* Approval.                                                                *)

\* A change to MILESTONE_ACTIVE that nobody overtook passed the gate on the very text that
\* is written.
Approved(q) ==
  ~q.overtaken =>
    /\ q.step \in Holding /\ q.held.status = "MILESTONE_ACTIVE"
         /\ brief.status # "MILESTONE_ACTIVE" => MissingSections(q.held.text) = {}
    /\ q.step = "moving" /\ q.target = "MILESTONE_ACTIVE" => MissingSections(brief.text) = {}

\* No text ever has a hint that stays open.
ApprovalInv ==
  /\ MTyped /\ HintsAreClosed(brief.text)
  /\ \A p \in Procs :
       /\ Approved(proc[p])
       /\ proc[p].step \in Holding => HintsAreClosed(proc[p].held.text)

LEMMA FilingKeepsHints ==
  ASSUME NEW t, TextOK(t), Readable(t), HintsAreClosed(t), NEW s \in Slices \ Listed(t),
         NEW track \in TrackIds(t)
  PROVE  HintsAreClosed(InsertEntry(t, track, s))
<1>1. IsText(t) /\ HasRegion(t) /\ DOMAIN t = 1..Len(t) /\ Len(t) \in Nat
  BY TextIsSeq DEF TextOK, Readable
<1>2. PICK last \in DOMAIN t :
        InsertEntry(t, track, s) = InsertAt(t, last + 1, Entry(s, NoId))
  BY <1>1, EntryFiled
<1>3. last + 1 \in 1..(Len(t) + 1) /\ Entry(s, NoId).kind \in Written
  BY <1>1 DEF Entry, Line, Written
<1> QED
  BY <1>2, <1>3, HintsKept

LEMMA SavingKeepsHints ==
  ASSUME MTyped, HintsAreClosed(brief.text), Save
  PROVE  HintsAreClosed(brief'.text)
<1>1. TextOK(brief.text)
  BY DEF MTyped, FileOK
<1>2. /\ Plain("text").kind \in Written /\ Plain("malformed").kind \in Written
      /\ \A s : Entry(s, NoId).kind \in Written
  BY DEF Plain, Entry, Line, Written
<1>3. ASSUME NEW k, NEW line, line.kind \in Written, Inserts(k, line)
      PROVE  HintsAreClosed(brief'.text)
  BY <1>1, <1>3, HintsKept DEF Inserts
<1>4. ASSUME NEW k \in DOMAIN brief.text, brief.text[k].kind \in {"entry", "begin", "text"},
             brief'.text = RemoveAt(brief.text, k)
      PROVE  HintsAreClosed(brief'.text)
  <2>1. brief.text[k].kind \in Written \cup {"begin"}
    BY <1>4 DEF Written
  <2> QED
    BY <1>1, <1>4, <2>1, HintsKept
<1> QED
  BY <1>2, <1>3, <1>4 DEF Save

LEMMA ApprovalStays ==
  ASSUME ApprovalInv, [MilestoneNext]_milestoneVars
  PROVE  ApprovalInv'
<1>1. CASE UNCHANGED milestoneVars
  BY <1>1, TypesStay DEF ApprovalInv, Approved, milestoneVars
<1>2. CASE MilestoneNext
  <2>1. MTyped /\ MTyped' /\ ((\E p \in Procs : Turn(p) \/ Write(p)) \/ Save)
    BY <1>2, MilestoneSteps DEF ApprovalInv
  <2>2. TextOK(brief.text) /\ HintsAreClosed(brief.text)
    BY <2>1 DEF MTyped, FileOK, ApprovalInv
  <2>3. ASSUME NEW q \in Procs, Marked(q)
        PROVE  /\ Approved(proc[q])'
               /\ proc'[q].step \in Holding => HintsAreClosed(proc'[q].held.text)
    BY <2>3 DEF Marked, Approved, Holding, ApprovalInv
  <2>4. ASSUME NEW p \in Procs, Turn(p), NEW q \in Procs
        PROVE  /\ Approved(proc[q])'
               /\ proc'[q].step \in Holding => HintsAreClosed(proc'[q].held.text)
    <3>1. /\ brief' = brief /\ Approved(proc[q])
          /\ proc[q].step \in Holding => HintsAreClosed(proc[q].held.text)
      BY <2>4 DEF Turn, ApprovalInv
    <3>2. CASE q # p
      BY <2>4, <3>1, <3>2 DEF Turn, Approved
    <3>3. CASE q = p /\ (Listens(p) \/ Ends(p))
      <4>1. Idle.step = "idle"
        BY DEF Idle
      <4>2. proc'[p].step = "listing" \/ proc'[p].step = "idle"
        BY <3>3, <4>1 DEF Listens, Ends
      <4> QED
        BY <3>3, <4>2 DEF Approved, Holding
    <3>4. CASE q = p /\ Goes(p)
      BY <3>1, <3>4 DEF Goes, Passes, Approved, Holding
    <3>5. CASE q = p /\ Takes(p)
      <4>1. proc'[p].step \in Holding /\ proc'[p].step # "moving"
        BY <3>5 DEF Takes, Holding
      <4>2. CASE /\ ~proc'[p].overtaken /\ Readable(brief.text)
                 /\ proc[p].slice \in Slices \ Listed(brief.text)
                 /\ declared[proc[p].slice] \in TrackIds(brief.text)
                 /\ proc'[p].held.status = brief.status
                 /\ proc'[p].held.text =
                      InsertEntry(brief.text, declared[proc[p].slice], proc[p].slice)
        <5>1. HintsAreClosed(proc'[p].held.text)
          BY <2>2, <4>2, FilingKeepsHints
        <5> QED
          BY <3>1, <3>5, <4>1, <4>2, <5>1 DEF Approved
      <4>3. CASE /\ ~proc'[p].overtaken /\ proc'[p].held.status = brief.status
                 /\ proc'[p].held.text = SyncText(brief.text, doc)
        <5>1. HintsAreClosed(proc'[p].held.text)
          BY <2>2, <4>3, HintsKept
        <5> QED
          BY <3>1, <3>5, <4>1, <4>3, <5>1 DEF Approved
      <4>4. CASE /\ proc[p].step = "moving" /\ proc'[p].held.status = proc[p].target
                 /\ proc'[p].overtaken <=> proc[p].overtaken
                 /\ proc'[p].held.text = brief.text
        BY <2>2, <3>1, <3>5, <4>1, <4>4 DEF Approved
      <4> QED
        BY <3>5, <4>2, <4>3, <4>4 DEF Takes
    <3> QED
      BY <2>4, <3>2, <3>3, <3>4, <3>5 DEF Turn
  <2>5. ASSUME NEW p \in Procs, Write(p), NEW q \in Procs
        PROVE  /\ Approved(proc[q])'
               /\ proc'[q].step \in Holding => HintsAreClosed(proc'[q].held.text)
    <3>1. proc'[p].step \notin Holding \cup {"moving"}
      BY <2>5 DEF Write, Idle, Holding
    <3>2. CASE q = p
      BY <3>1, <3>2 DEF Approved
    <3>3. CASE q # p
      BY <2>3, <2>5, <3>3 DEF Write
    <3> QED
      BY <3>2, <3>3
  <2>6. HintsAreClosed(brief'.text)
    <3>1. ASSUME NEW p \in Procs, Turn(p) \/ Write(p) PROVE HintsAreClosed(brief'.text)
      BY <2>2, <3>1 DEF Turn, Write, ApprovalInv
    <3> QED
      BY <2>1, <2>2, <3>1, SavingKeepsHints
  <2>7. ASSUME NEW q \in Procs
        PROVE  /\ Approved(proc[q])'
               /\ proc'[q].step \in Holding => HintsAreClosed(proc'[q].held.text)
    BY <2>1, <2>3, <2>4, <2>5 DEF Save
  <2> QED
    BY <2>1, <2>6, <2>7 DEF ApprovalInv
<1> QED
  BY <1>1, <1>2

\* The gate that approves a milestone reads what a reader reads: if the hints of the first
\* briefs are closed, every required section says something, and says it itself, when the
\* milestone becomes active - unless somebody wrote the brief in between.
THEOREM ApprovedMeansWritten ==
  ASSUME BriefsWithClosedHints
  PROVE  MilestoneSpec => ActiveMeansWritten
<1>1. MilestoneInit => ApprovalInv
  <2> SUFFICES ASSUME MilestoneInit PROVE ApprovalInv
    OBVIOUS
  <2>1. HintsAreClosed(brief.text)
    BY DEF MilestoneInit, BriefsWithClosedHints
  <2>2. \A p \in Procs : proc[p].step = "idle"
    BY DEF MilestoneInit, Idle
  <2> QED
    BY <2>1, <2>2, TypedAtFirst DEF ApprovalInv, Approved, Holding
<1>2. ApprovalInv /\ [MilestoneNext]_milestoneVars => ApprovalInv'
  BY ApprovalStays
<1>3. ASSUME ApprovalInv, [MilestoneNext]_milestoneVars,
             brief'.status = "MILESTONE_ACTIVE", brief.status = "MILESTONE_DRAFT"
      PROVE  \/ lost'
             \/ \A section \in REQUIRED_SECTIONS : Content(brief'.text, section) # {}
  <2>1. MilestoneNext
    BY <1>3 DEF milestoneVars
  <2>2. PICK p \in Procs : Write(p)
    BY <1>3, <2>1, MilestoneSteps DEF ApprovalInv, Turn, Save
  <2>3. CASE proc[p].overtaken
    BY <2>2, <2>3 DEF Write
  <2>4. CASE ~proc[p].overtaken
    <3>1. /\ proc[p].step \in Holding /\ brief' = proc[p].held
          /\ HintsAreClosed(brief'.text) /\ Approved(proc[p])
      BY <1>3, <2>2 DEF Write, ApprovalInv
    <3>2. MissingSections(brief'.text) = {} /\ TextOK(brief'.text)
      BY <1>3, <2>4, <3>1 DEF Approved, ApprovalInv, MTyped, ProcOK, FileOK
    <3> QED
      BY <3>1, <3>2, NotMissing
  <2> QED
    BY <2>3, <2>4
<1> QED
  BY <1>1, <1>2, <1>3, PTL DEF MilestoneSpec, ActiveMeansWritten
================================================================================
