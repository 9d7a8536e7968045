------------------------------- MODULE Chunking -------------------------------
(***************************************************************************)
(* DocumentProcessingService.chunkText(): the loop over the paragraphs of  *)
(* a text, one step each.  A paragraph is the sequence of its characters,  *)
(* none of them blank: the k-th character of paragraph p is <<p, k>>, so   *)
(* that two occurrences of one character are the same.  extractText() is   *)
(* external; the text reaches this loop split and trimmed.                 *)
(***************************************************************************)
EXTENDS Integers, Sequences

CONSTANTS
  ChunkSize, Overlap,  \* the default arguments of chunkText()
  MaxParagraph,        \* bound: the longest paragraph
  MaxParagraphs        \* bound: how many there are

Newline == <<0, 1>>
Space == <<0, 2>>
Blank == {Newline, Space}

VARIABLES
  seen,     \* the lengths of the paragraphs visited
  current,  \* currentChunk
  chunks,   \* the chunks pushed
  done      \* the loop has ended

vars == <<seen, current, chunks, done>>

Paragraph(p, n) == [k \in 1 .. n |-> <<p, k>>]
Slice(s, n) == IF Len(s) <= n THEN s ELSE SubSeq(s, Len(s) - n + 1, Len(s))
\* The position of the first character that is not blank, and of the last.
Ink(s) == {i \in 1 .. Len(s) : s[i] \notin Blank}
First(s) == CHOOSE i \in Ink(s) : \A j \in Ink(s) : i <= j
Last(s) == CHOOSE i \in Ink(s) : \A j \in Ink(s) : j <= i
Trim(s) == IF Ink(s) = {} THEN <<>> ELSE SubSeq(s, First(s), Last(s))

Init == seen = <<>> /\ current = <<>> /\ chunks = <<>> /\ done = FALSE

\* Variant: the next chunk starts without the end of the last.
OverflowWithoutOverlap(paragraph) ==
  /\ chunks' = Append(chunks, Trim(current))
  /\ current' = paragraph
\* The paragraph does not fit: the chunk is pushed, and the next one starts
\* with its end.
Overflow(paragraph) ==
  /\ chunks' = Append(chunks, Trim(current))
  /\ current' = Slice(current, Overlap) \o <<Space>> \o paragraph
\* Variant: the whole of the current chunk is not counted.
FitsByItself(paragraph) == Len(paragraph) + 1 <= ChunkSize \/ current = <<>>
Fits(paragraph) ==
  \/ Len(current) + Len(paragraph) + 1 <= ChunkSize
  \/ current = <<>>

AddParagraph(n) ==
  LET paragraph == Paragraph(Len(seen) + 1, n) IN
  /\ ~done /\ Len(seen) < MaxParagraphs
  /\ seen' = Append(seen, n)
  /\ IF Fits(paragraph)
     THEN /\ current' = IF current = <<>> THEN paragraph
                        ELSE current \o <<Newline, Newline>> \o paragraph
          /\ UNCHANGED chunks
     ELSE Overflow(paragraph)
  /\ UNCHANGED done

\* Variant: what is left after the loop is forgotten.
FinishWithoutLast == ~done /\ done' = TRUE /\ UNCHANGED <<seen, current, chunks>>
Finish ==
  /\ ~done /\ done' = TRUE
  /\ chunks' = IF Trim(current) = <<>> THEN chunks ELSE Append(chunks, Trim(current))
  /\ UNCHANGED <<seen, current>>

Next == Finish \/ \E n \in 1 .. MaxParagraph : AddParagraph(n)
Spec == Init /\ [][Next]_vars

-----------------------------------------------------------------------------
Larger(a, b) == IF a >= b THEN a ELSE b

\* chunkText(): a separator of two newlines is counted as one character, and a
\* paragraph is never cut: no chunk is longer than the size plus one, or than
\* the overlap with a space and the longest paragraph.
Limit == Larger(ChunkSize + 1, Overlap + 1 + MaxParagraph)
ChunksBounded == /\ Len(current) <= Limit
                 /\ \A i \in 1 .. Len(chunks) : Len(chunks[i]) <= Limit

Within(part, whole) ==
  \E i \in 0 .. Len(whole) - Len(part) :
    SubSeq(whole, i + 1, i + Len(part)) = part

\* Nothing of the text is lost: once the loop has ended every paragraph stands
\* whole in some chunk, an earlier paragraph in no later chunk than the next.
ParagraphsKept ==
  done => \E home \in [1 .. Len(seen) -> 1 .. Len(chunks)] :
            /\ \A p \in 1 .. Len(seen) :
                 Within(Paragraph(p, seen[p]), chunks[home[p]])
            /\ \A p \in 2 .. Len(seen) : home[p - 1] <= home[p]

\* A chunk begins with the end of the chunk before it, leading blanks aside.
ChunksOverlap ==
  \A i \in 2 .. Len(chunks) :
    LET shared == Trim(Slice(chunks[i - 1], Overlap)) IN
    /\ shared # <<>> /\ Len(shared) < Len(chunks[i])
    /\ SubSeq(chunks[i], 1, Len(shared)) = shared

\* chunkText(): the chunks are the text, cut to size and overlapping.
TextIsCut == ParagraphsKept /\ ChunksOverlap /\ ChunksBounded
=============================================================================
