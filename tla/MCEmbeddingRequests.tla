------------------------ MODULE MCEmbeddingRequests ------------------------
(***************************************************************************)
(* The instance of EmbeddingRequests for TLC.                              *)
(***************************************************************************)
EXTENDS EmbeddingRequests, TLC

Line(kind, run, rest, size) == [kind |-> kind, run |-> run, rest |-> rest, size |-> size]
Plain(size) == Line("text", 0, "", size)
Heading(level, title) == Line("heading", level, title, 1)

\* A token for each range, but for those with a count.
Document(lines, chars, counts) ==
  [lines |-> lines, chars |-> chars,
   tokens |-> [r \in chars \X chars |-> IF r \in DOMAIN counts THEN counts[r] ELSE 1]]

MCDelays == <<1>>

MCDocuments ==
  {Document(<<>>, {0}, <<>>),
   \* characters of two bytes, and a prefix that is no shorter than the whole
   Document(<<Plain(5)>>, {0, 1, 3, 5},
            (<<0, 5>> :> 5) @@ (<<0, 3>> :> 5) @@ (<<1, 5>> :> 3)),
   \* more than the window of the model, and more than Tpm
   Document(<<Plain(3)>>, {0, 3}, (<<0, 3>> :> 5)),
   Document(<<Plain(2)>>, {0, 2}, (<<0, 2>> :> 4)),
   \* a fence hides a heading, and only a longer one of its kind ends it; one
   \* heading is below the first, the next takes its place
   Document(<<Heading(1, "A"), Line("ticks", 3, "blank", 1), Line("tildes", 3, "blank", 1),
              Heading(1, "no"), Line("ticks", 4, "blank", 1), Heading(2, "B"), Heading(2, "C")>>,
            0 .. 7, <<>>),
   \* backticks in one line are no fence; a heading may be without text
   Document(<<Heading(2, "A"), Line("ticks", 3, "ticked", 1), Heading(1, "blank")>>, 0 .. 3, <<>>)}
=============================================================================
