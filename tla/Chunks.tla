--------------------------------- MODULE Chunks ---------------------------------
(* Chunks as the chunkers build them, and the lookup of the chunk a line      *)
(* belongs to (chunker.py, _add_chunk, _strip_span, _build_line_index).       *)
(*                                                                            *)
(* A file's text is cut into units that no chunker cuts further: lines in     *)
(* most formats.  A chunk that a chunker adds has a text, the set of units it *)
(* is made of and the line span it claims.  One that is too long is not       *)
(* stored: its sub-chunks are, each with the lines it is told by where it is  *)
(* in the text.                                                               *)
EXTENDS Arrangements, FiniteSetsExt, SequencesExt

CONSTANT MaxUnits   \* max_chars, in units

(* A chunk of units as they are in the file.                                 *)
Chunk(units, start, end, name, kind) ==
  [ text |-> Ordered(units), units |-> units, start |-> start, end |-> end,
    name |-> name, kind |-> kind, split |-> Cardinality(units) > MaxUnits ]

(* A shell's text is put together of lines from here and there, some of them *)
(* twice, and of lines that are in no file, as its closing brace.            *)
NoLine == -1
Shell(text, start, end, name, kind) ==
  [ text |-> text, units |-> Range(text) \ {NoLine}, start |-> start, end |-> end,
    name |-> name, kind |-> kind, split |-> Len(text) > MaxUnits ]

-----------------------------------------------------------------------------
(* The chunks stored for the k-th that is added: the chunk, or a sub-chunk   *)
(* for each window of its text (SubChunks), whose lines are counted from the *)
(* chunk's first as if the text were of successive lines.  Behind the first  *)
(* window it repeats the signature, which is not counted here.               *)
Piece(k, c, units, start, end) ==
  [ parent |-> k, units |-> units, start |-> start, end |-> end, name |-> c.name, kind |-> c.kind ]

SubChunk(k, c, w) ==
  Piece(k, c, {c.text[i] : i \in w.from .. w.to} \ {NoLine},
        c.start + w.from - 1, c.start + w.to - 1)

Pieces(k, c, windows) ==
  IF c.split THEN [i \in DOMAIN windows |-> SubChunk(k, c, windows[i])]
  ELSE <<Piece(k, c, c.units, c.start, c.end)>>

(* cutting: how the k-th chunk is cut, were its text of n lines.             *)
Stored(added, cutting) ==
  FlattenSeq([k \in DOMAIN added |-> Pieces(k, added[k], cutting[k][Len(added[k].text)])])

(* The lines of a text are not those from the first its chunk claims, one by *)
(* one.  Where such a text is cut, its sub-chunks claim lines of others.     *)
Scattered(c) == \E i \in DOMAIN c.text : c.text[i] # c.start + i - 1
Displaced(c) == c.split /\ Scattered(c)

(* str.strip: the span without blank units at either end.                    *)
Strip(span, blanks) ==
  LET ink == span \ blanks
  IN  IF ink = {} THEN {} ELSE Min(ink) .. Max(ink)

(* A chunk of units that are one line each, from its first line to its last. *)
LineChunk(units, name, kind) == Chunk(units, Min(units), Max(units), name, kind)

(* As many chunks as there is text for: none for an empty set of units.      *)
IfAny(units, chunk) == IF units = {} THEN <<>> ELSE <<chunk>>

-----------------------------------------------------------------------------
(* Broken variant: bisect_left, which misses a chunk that starts at the line. *)
StartingBefore(chunks, line) == {k \in DOMAIN chunks : chunks[k].start < line}

Starting(chunks, line) == {k \in DOMAIN chunks : chunks[k].start <= line}

(* The chunk found by bisection: of those that start at the line or before,  *)
(* the one that starts last, and of several the last in the list.            *)
LastStarted(chunks, line) ==
  LET before == Starting(chunks, line)
      latest == Max({chunks[k].start : k \in before})
  IN  Max({k \in before : chunks[k].start = latest})

FirstStarted(chunks) ==
  LET earliest == Min({chunks[k].start : k \in DOMAIN chunks})
  IN  Min({k \in DOMAIN chunks : chunks[k].start = earliest})

(* A line in no chunk's span goes to the first chunk.                        *)
Lookup(chunks, line) ==
  IF Starting(chunks, line) = {} THEN FirstStarted(chunks)
  ELSE LET k == LastStarted(chunks, line)
       IN  IF line <= chunks[k].end THEN k ELSE FirstStarted(chunks)
=============================================================================
