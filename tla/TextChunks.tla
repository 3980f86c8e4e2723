------------------------------- MODULE TextChunks -------------------------------
(* The chunkers of flat text: chunker.py, _chunk_markdown, _chunk_prose,      *)
(* _chunk_bash_regex, _chunk_text_fallback and chunk_pdf.                     *)
(*                                                                            *)
(* A text is a sequence of lines, each given by what the patterns see of it:  *)
(* a blank line, a heading, a fence ("fence" and the longer "long" are of     *)
(* backticks, "tilde" is of tildes), the head of a shell function.  Prose is  *)
(* a sequence of sentences, a PDF a sequence of pages.                        *)
EXTENDS Chunks

CONSTANTS
  PdfPages,   \* _PDF_MAX_PAGES
  PdfChars    \* _PDF_MAX_CHARS

Lines(text) == 1 .. Len(text)
Blanks(text) == {l \in Lines(text) : text[l] = "blank"}
Ink(text) == Lines(text) \ Blanks(text)

(* Where the section that starts at s ends.                                   *)
EndOf(s, starts, text) == Min({t \in starts : t > s} \cup {Len(text) + 1}) - 1

-----------------------------------------------------------------------------
Fences == {"fence", "long", "tilde"}

(* The same character, and at least as many.                                 *)
Closes(marker, open) ==
  (marker = "tilde") = (open = "tilde") /\ ~(open = "long" /\ marker = "fence")

AfterLine(open, line) ==
  IF line \notin Fences THEN open
  ELSE IF open = "none" THEN line
  ELSE IF Closes(line, open) THEN "none" ELSE open

(* Inside a fenced range; an unclosed fence reaches to the end.              *)
InFence(text, l) == FoldLeft(AfterLine, "none", SubSeq(text, 1, l - 1)) # "none"

Sections(text) == {l \in Lines(text) : text[l] = "heading" /\ ~InFence(text, l)}

Stripped(lo, hi, text) == Strip(lo .. hi, Blanks(text))

(* The text before the first heading claims to start at line 1, whatever was *)
(* stripped from it; a file without headings is one chunk.                   *)
MarkdownChunks(text) ==
  LET heads == Sections(text)
      before == Stripped(1, Min(heads \cup {Len(text) + 1}) - 1, text)
      preamble == IfAny(before, Chunk(before, 1, Cardinality(before), "", "block"))
      section(s) == LineChunk(Stripped(s, EndOf(s, heads, text), text), "heading", "module")
      starts == Ordered(heads)
  IN  IF heads = {}
        THEN IfAny(before, Chunk(before, 1, Len(text), "", "block"))
        ELSE preamble \o [k \in DOMAIN starts |-> section(starts[k])]

-----------------------------------------------------------------------------
(* A block is a run of lines that are not blank.  Its line is that of the    *)
(* text behind the blank lines before it, which the first block of a file    *)
(* that starts with exactly one blank line does not have.                    *)
BlockStarts(text) == {l \in Ink(text) : l = 1 \/ text[l - 1] = "blank"}

FallbackChunks(text) ==
  LET starts == Ordered(BlockStarts(text))
      last(s) == Max({l \in s .. Len(text) : s .. l \subseteq Ink(text)})
      line(s) == IF s = 2 /\ text[1] = "blank" THEN 1 ELSE s
      block(s) == Chunk(s .. last(s), line(s), line(s) + last(s) - s, "", "block")
  IN  [k \in DOMAIN starts |-> block(starts[k])]

-----------------------------------------------------------------------------
Functions(text) == {l \in Lines(text) : text[l] = "function"}

(* What precedes the first function is kept as it is; a function goes on to  *)
(* the next one.  Its end line does not follow the stripping of blank lines. *)
BashChunks(text) ==
  LET starts == Functions(text)
      before == 1 .. Min(starts) - 1
      preamble == IfAny(before \ Blanks(text), LineChunk(before, "", "module"))
      function(s) == LET end == EndOf(s, starts, text)
                     IN  Chunk(Stripped(s, end, text), s, end, "function", "function")
      ordered == Ordered(starts)
  IN  IF starts = {} THEN FallbackChunks(text)
      ELSE preamble \o [k \in DOMAIN ordered |-> function(ordered[k])]

-----------------------------------------------------------------------------
(* Prose: a sentence has its length, the newlines in the white space before  *)
(* it (gap) and those within it (inner).  Sentence k is unit k.              *)
LineWhereGapStarts(text, k) ==
  LET line[j \in Lines(text)] ==
        IF j = 1 THEN 1 ELSE line[j - 1] + text[j - 1].gap + text[j - 1].inner
  IN  line[k]

FirstLine(text, k) == LineWhereGapStarts(text, k) + text[k].gap
LastLine(text, k) == FirstLine(text, k) + text[k].inner

(* A sentence's line is taken where the white space before it starts.        *)
SentenceLine(text, k) == LineWhereGapStarts(text, k)
SentenceEnd(text, k) == SentenceLine(text, k) + text[k].inner

Length(text, ks) == FoldSet(LAMBDA k, n : n + text[k].size + 1, 0, ks)

(* The sentences of a chunk that starts at sentence a: as many as fit, with  *)
(* a space between them, and always one.                                     *)
Packed(text, a) ==
  a .. Max({b \in a .. Len(text) : b = a \/ Length(text, a .. b) - 1 <= MaxUnits})

PackStarts(text) ==
  LET starts[k \in 0 .. Len(text)] ==
        IF k = 0 THEN {}
        ELSE IF starts[k - 1] # {} /\ k \in Packed(text, Max(starts[k - 1])) THEN starts[k - 1]
        ELSE starts[k - 1] \cup {k}
  IN  starts[Len(text)]

ProseChunks(text) ==
  LET starts == Ordered(PackStarts(text))
      pack(a) == Chunk(Packed(text, a), SentenceLine(text, a),
                       SentenceEnd(text, Max(Packed(text, a))), "", "block")
  IN  [k \in DOMAIN starts |-> [pack(starts[k]) EXCEPT !.split = FALSE]]

-----------------------------------------------------------------------------
(* A page of a PDF has the length of its stripped text, 0 when it has none.  *)
(* The page that passes the cap on characters is cut, the rest is skipped.   *)
CharsRead(text, p) == FoldLeft(LAMBDA n, s : n + s.size, 0, SubSeq(text, 1, p))

Remaining(text, p) == PdfChars - CharsRead(text, p - 1)

PagesRead(text) == {p \in Lines(text) : p <= PdfPages /\ text[p].size > 0 /\ Remaining(text, p) > 0}

PdfChunks(text) ==
  LET pages == Ordered(PagesRead(text))
  IN  [k \in DOMAIN pages |->
         [LineChunk({pages[k]}, "page", "module") EXCEPT !.split = FALSE]]
=============================================================================
