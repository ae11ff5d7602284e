---------------------------- MODULE ContentChunks ----------------------------
(***************************************************************************)
(* How the content of a memory is cut into the chunks that get a vector    *)
(* each: at the Markdown headings, and within a section where the input of *)
(* a request would not fit the window of the model.                        *)
(*                                                                         *)
(* A document is its lines, the byte offsets around its characters, and   *)
(* what the tokenizer counts for the input made of a range of it, its      *)
(* titles and metadata included.  The count is no sum over characters: a   *)
(* prefix may need more tokens than it does within the whole.              *)
(***************************************************************************)
EXTENDS Naturals, FiniteSets, Sequences, SequencesExt, FiniteSetsExt

CONSTANTS
  Documents,  (* [lines, chars, tokens]                                      *)
  Budget      (* tokens of the longest input: 8192                           *)

\* content.len()
Length(doc) == Max(doc.chars)

\* What is left of s when all that is not in S is taken out: Vec::retain().
Those(s, S) ==
  LET kept[k \in 0 .. Len(s)] ==
        IF k = 0 THEN <<>> ELSE IF s[k] \in S THEN Append(kept[k - 1], s[k]) ELSE kept[k - 1]
  IN kept[Len(s)]

-----------------------------------------------------------------------------
(* markdown_heading_paths().  A line is known by its mark: a heading of    *)
(* level "run", a possible fence of "run" marks, or text, which is all     *)
(* else, lines indented by more than three spaces among it.  "rest" is     *)
(* what follows the mark.                                                  *)

LineKinds == {"text", "heading", "ticks", "tildes"}
NoFence == [kind |-> "text", run |-> 0]

\* Where the first k lines end: the offset of markdown_heading_paths().
LineEnds(doc) ==
  LET end[k \in 0 .. Len(doc.lines)] == IF k = 0 THEN 0 ELSE end[k - 1] + doc.lines[k].size IN end

\* The lines are all of the content, and each begins with a character.
ASSUME DocumentsAssumption ==
  \A d \in Documents :
    /\ d.lines \in Seq([kind : LineKinds, run : Nat, rest : STRING, size : Nat])
    /\ {0, Length(d)} \subseteq d.chars /\ d.chars \subseteq 0 .. Length(d) /\ Length(d) \in Nat
    /\ d.tokens \in [d.chars \X d.chars -> Nat]
    /\ \A k \in 0 .. Len(d.lines) : LineEnds(d)[k] \in d.chars
    /\ LineEnds(d)[Len(d.lines)] = Length(d)

\* A fence of backticks has none in what follows it.
Opens(line) ==
  /\ line.kind \in {"ticks", "tildes"} /\ line.run >= 3
  /\ line.kind = "tildes" \/ line.rest # "ticked"

Closes(line, fence) ==
  line.kind = fence.kind /\ line.run >= fence.run /\ line.rest = "blank"

\* Mutant: a heading of the same level stays in the path.
KeptAbove(open, run) == Those(open, {h \in Range(open) : h.level <= run})

Above(open, run) == Those(open, {h \in Range(open) : h.level < run})

\* A heading without text ends those of its level and adds none.
Open(open, line) ==
  Above(open, line.run)
    \o IF line.rest = "blank" THEN <<>> ELSE <<[level |-> line.run, title |-> line.rest]>>

Scanned(scan, line) ==
  LET next == [scan EXCEPT !.at = @ + line.size]
      open == Open(scan.open, line) IN
  CASE scan.fence # NoFence ->
         IF Closes(line, scan.fence) THEN [next EXCEPT !.fence = NoFence] ELSE next
    [] scan.fence = NoFence /\ Opens(line) ->
         [next EXCEPT !.fence = [kind |-> line.kind, run |-> line.run]]
    [] scan.fence = NoFence /\ line.kind = "heading" ->
         [next EXCEPT !.open = open,
            !.paths = Append(@, [at |-> scan.at, path |-> [i \in DOMAIN open |-> open[i].title]])]
    [] OTHER -> next

HeadingPaths(doc) ==
  LET scan[k \in 0 .. Len(doc.lines)] ==
        IF k = 0 THEN [at |-> 0, fence |-> NoFence, open |-> <<>>, paths |-> <<>>]
        ELSE Scanned(scan[k - 1], doc.lines[k])
  IN scan[Len(doc.lines)].paths

-----------------------------------------------------------------------------
(* The loop of generate_chunks() and fitting_content_end()                 *)

\* title_path, when the loop has come to "start".
TitleAt(headings, start) ==
  LET last == SelectLastInSeq(headings, LAMBDA h : h.at <= start) IN
  IF last = 0 THEN <<>> ELSE headings[last].path

SectionEnd(doc, headings, start) ==
  Min({h.at : h \in {h \in Range(headings) : h.at > start}} \cup {Length(doc)})

Fits(doc, start, end) == doc.tokens[<<start, end>>] <= Budget

\* Mutant: the prefix up to the cut is not counted again.
FittingEndsUncounted(doc, headings, start) ==
  LET stop == SectionEnd(doc, headings, start) IN
  IF Fits(doc, start, stop) THEN {stop}
  ELSE {Max({b \in doc.chars : b <= cut}) : cut \in start + 1 .. stop}

\* The ends fitting_content_end() may find.  Where the tokenizer puts the
\* first cut is not modelled: anywhere in the section.  From there it goes
\* back, to a boundary and then by characters, until the prefix fits.
FittingEnds(doc, headings, start) ==
  LET stop == SectionEnd(doc, headings, start)
      fitting == {b \in doc.chars : start < b /\ b < stop /\ Fits(doc, start, b)} IN
  IF Fits(doc, start, stop) THEN {stop} ELSE fitting

\* Nothing fits, or nothing that is left of the cut.
MayNotFit(doc, headings, start) == ~ Fits(doc, start, SectionEnd(doc, headings, start))

\* The chunk that comes next, with the tokens of its request.
ChunkTo(doc, headings, done, start, end) ==
  [index |-> Len(done), start |-> start, end |-> end,
   title |-> TitleAt(headings, start), tokens |-> doc.tokens[<<start, end>>]]

EndOf(chunks) == IF chunks = <<>> THEN 0 ELSE Last(chunks).end

-----------------------------------------------------------------------------
(* What upsert_approved_embedding() demands of the chunks it publishes;    *)
(* the vectors have been looked at by then.                                *)
Publishable(doc, chunks) ==
  /\ chunks # <<>> /\ EndOf(chunks) = Length(doc)
  /\ \A i \in DOMAIN chunks :
       LET c == chunks[i] IN
       /\ c.index = i - 1
       /\ c.start = IF i = 1 THEN 0 ELSE chunks[i - 1].end
       /\ c.end > c.start \/ (Length(doc) = 0 /\ Len(chunks) = 1)
       /\ {c.start, c.end} \subseteq doc.chars
=============================================================================
