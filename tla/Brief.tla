-------------------------------- MODULE Brief --------------------------------
(***************************************************************************)
(* The text of a milestone brief, line by line, and what scripts/milestone *)
(* reads off it and rewrites in it: the required sections, and the region  *)
(* between the two markers with its tracks and their entries.              *)
(***************************************************************************)
EXTENDS Naturals, SequencesExt

CONSTANT REQUIRED_SECTIONS

\* A line is what its reader takes it for; `id` names a section, a track or a slice, and
\* `says` is an entry's box and suffix: what the slice was when the line was rendered.
Line(kind, id, says) == [kind |-> kind, id |-> id, says |-> says]
Entry(s, says) == Line("entry", s, says)
NoId == "no id"
Plain(kind) == Line(kind, NoId, NoId)

\* A text is a sequence of lines, whatever they say.
IsText(text) == text \in Seq({text[i] : i \in DOMAIN text})

Headings == {"section", "track"}
\* Both markers are HTML comments of one line.
Commented == {"comment", "begin", "end"}
\* What a section says is said in these.
Written == {"text", "entry", "malformed"}
Kinds == Headings \cup Commented \cup Written \cup {"opens", "closes", "blank"}

------------------------------------------------------------------------------
(* The region.                                                              *)

LinesOf(text, kind) == {i \in DOMAIN text : text[i].kind = kind}

\* _region_bounds: the first marker of each kind, in order.
HasRegion(text) ==
  /\ LinesOf(text, "begin") # {} /\ LinesOf(text, "end") # {}
  /\ Min(LinesOf(text, "begin")) < Min(LinesOf(text, "end"))

Region(text) ==
  LET begin == Min(LinesOf(text, "begin"))
      end == Min(LinesOf(text, "end"))
  IN begin + 1 .. end - 1

\* What looks like an entry and is none raises, and so do missing markers.
Readable(text) ==
  HasRegion(text) /\ \A i \in Region(text) : text[i].kind # "malformed"

EntryLines(text) == {i \in Region(text) : text[i].kind = "entry"}
Listed(text) == {text[i].id : i \in EntryLines(text)}

TrackLines(text) == {i \in Region(text) : text[i].kind = "track"}
TrackIds(text) == {text[i].id : i \in TrackLines(text)}

\* The lines under the heading at `h`, up to the next one or the closing marker.
Block(text, h) ==
  LET headings == TrackLines(text)
  IN {i \in Region(text) : i > h /\ headings \cap (h + 1 .. i) = {}}

TracksWithoutSlices(text) ==
  LET entries == EntryLines(text)
  IN {h \in TrackLines(text) : Block(text, h) \cap entries = {}}

\* Mutants: once more each time; the track in place of the slice.
InsertAgain(text, track, s) ==
  LET h == Min({i \in TrackLines(text) : text[i].id = track})
  IN InsertAt(text, h + 1, Entry(s, NoId))

InsertSwapped(text, track, s) ==
  LET h == Min({i \in TrackLines(text) : text[i].id = track})
  IN InsertAt(text, h + 1, Entry(track, NoId))

\* Above the blank lines that end the first block of that name; once.
InsertEntry(text, track, s) ==
  IF s \in Listed(text) THEN text
  ELSE LET h == Min({i \in TrackLines(text) : text[i].id = track})
           last == Max({h} \cup {i \in Block(text, h) : text[i].kind # "blank"})
       IN InsertAt(text, last + 1, Entry(s, NoId))

\* Every entry says what its slice is now.
SyncText(text, doc) ==
  LET entries == EntryLines(text)
  IN [i \in DOMAIN text |->
        IF i \in entries THEN Entry(text[i].id, doc[text[i].id]) ELSE text[i]]

Unclosed(text, doc) == {s \in Listed(text) : doc[s] # "closed"}

------------------------------------------------------------------------------
(* The sections.                                                            *)

\* Mutant: the first line of a comment is skipped, and the others are not.
ReadHints(reader, line) ==
  IF line.kind \in Headings
    THEN [reader EXCEPT !.current = IF line.kind = "section" THEN line.id ELSE NoId]
  ELSE IF reader.current = NoId \/ line.kind \in Commented \cup {"blank", "opens"}
    THEN reader
  ELSE [reader EXCEPT !.filled = @ \cup {reader.current}]

\* One line of missing_sections: an open comment swallows everything up to its end.
ReadLine(reader, line) ==
  IF reader.comment
    THEN [reader EXCEPT !.comment = line.kind \notin Commented \cup {"closes"}]
  ELSE IF line.kind \in Headings
    THEN [reader EXCEPT !.current = IF line.kind = "section" THEN line.id ELSE NoId]
  ELSE IF reader.current = NoId \/ line.kind \in Commented \cup {"blank"}
    THEN reader
  ELSE IF line.kind = "opens"
    THEN [reader EXCEPT !.comment = TRUE]
  ELSE [reader EXCEPT !.filled = @ \cup {reader.current}]

Reader == [filled |-> {}, current |-> NoId, comment |-> FALSE]

\* What the reader knows after each number of lines.
Readers(text) ==
  LET read[n \in 0..Len(text)] ==
        IF n = 0 THEN Reader ELSE ReadLine(read[n - 1], text[n])
  IN read

MissingSections(text) == REQUIRED_SECTIONS \ Readers(text)[Len(text)].filled
==============================================================================
