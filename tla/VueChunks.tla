-------------------------------- MODULE VueChunks --------------------------------
(* Vue single-file components: chunker.py, _chunk_vue, _vue_chunk_script,     *)
(* _vue_emit_element, _vue_emit_span and _vue_merge_into_previous.            *)
(*                                                                            *)
(* A component is a sequence of blocks.  A script's members are TypeScript    *)
(* nodes; those of any other block are elements, texts and blank lines.       *)
EXTENDS AstChunks

CONSTANTS
  VueDepth,   \* _VUE_MAX_DEPTH
  MinSpan     \* _VUE_MIN_SPAN

BlockName(n) == IF n.type \in {"template", "style"} THEN n.type ELSE ""

(* A short run of markup is folded into the chunk before it, when that is a  *)
(* whole block chunk of the same name and has room.                          *)
ExtendsPrevious(chunks, units, name) ==
  /\ chunks # <<>> /\ Cardinality(units) < MinSpan
  /\ LET prev == Last(chunks)
     IN  /\ prev.name = name /\ prev.kind = "block" /\ ~prev.split
         /\ prev.end <= Min(units)
         /\ Cardinality(prev.units) + Cardinality(units) <= MaxUnits

Extended(chunks, units) ==
  LET prev == Last(chunks)
  IN  Append(Front(chunks),
             Chunk(prev.units \cup units, prev.start, Max(units), prev.name, prev.kind))

EmitSpan(chunks, lo, hi, name, blanks) ==
  LET units == Strip(lo .. hi, blanks)
  IN  IF units = {} THEN chunks
      ELSE IF ExtendsPrevious(chunks, units, name) THEN Extended(chunks, units)
      ELSE Append(chunks, LineChunk(units, name, "block"))

(* Broken variant: what precedes a child that is cut in turn is left out.    *)
TakeChildForgetting(acc, c, inner) ==
  IF c.hi - acc.pack + 1 <= MaxUnits THEN acc
  ELSE [pack |-> c.hi + 1, spans |-> acc.spans \o inner[c][c.lo]]

(* Children are packed together until the next one does not fit; one that    *)
(* does not fit alone is cut in turn.  A short run of markup before it goes  *)
(* with it.                                                                  *)
TakeChild(acc, c, inner) ==
  LET opened == IF c.lo - acc.pack >= MinSpan
                  THEN [pack |-> c.lo, spans |-> Append(acc.spans, <<acc.pack, c.lo - 1>>)]
                  ELSE acc
  IN  IF c.hi - acc.pack + 1 <= MaxUnits THEN acc
      ELSE IF c.hi - opened.pack + 1 <= MaxUnits THEN opened
      ELSE [pack |-> c.hi + 1, spans |-> opened.spans \o inner[c][opened.pack]]

(* The spans of an element from a line on: it is cut at its children, whose  *)
(* own spans inner gives.                                                    *)
CutElement(n, from, inner) ==
  LET kids == OfType(n.kids, {"element"})
      packed[k \in 0 .. Len(kids)] ==
        IF k = 0 THEN [pack |-> from, spans |-> <<>>] ELSE TakeChild(packed[k - 1], kids[k], inner)
      all == packed[Len(kids)]
  IN  Append(all.spans, <<all.pack, n.hi>>)

(* An element that is too long is cut, down to VueDepth.                     *)
Cuts(element, start) ==
  LET cuts[left \in 0 .. VueDepth] ==
        [n \in Nodes |-> [from \in Nat |->
           IF left = 0 \/ n.hi - from + 1 <= MaxUnits THEN <<<<from, n.hi>>>>
           ELSE CutElement(n, from, cuts[left - 1])]]
  IN  cuts[VueDepth][element][start]

EmitElement(chunks, n, name, blanks) ==
  LET spans == Cuts(n, n.head)
      emitted[k \in 0 .. Len(spans)] ==
        IF k = 0 THEN chunks ELSE EmitSpan(emitted[k - 1], spans[k][1], spans[k][2], name, blanks)
  IN  emitted[Len(spans)]

-----------------------------------------------------------------------------
ShiftedText(text, by) == [i \in DOMAIN text |-> IF text[i] = NoLine THEN NoLine ELSE text[i] + by]

(* Broken variant: line 1 of the script is taken for the line behind the tag. *)
RebaseBehindTag(chunks, tag) ==
  [k \in DOMAIN chunks |->
     [chunks[k] EXCEPT !.start = @ + tag, !.end = @ + tag,
                       !.text = ShiftedText(@, tag - 1), !.units = {u + tag - 1 : u \in @}]]

(* Line 1 of the script is the rest of the line of its tag.                  *)
Rebase(chunks, tag) ==
  [k \in DOMAIN chunks |->
     [chunks[k] EXCEPT !.start = @ + tag - 1, !.end = @ + tag - 1,
                       !.text = ShiftedText(@, tag - 1), !.units = {u + tag - 1 : u \in @}]]

(* A script without anything the TypeScript walk takes is kept as markup.    *)
VueBlock(chunks, n, blanks) ==
  LET script == IF n.type = "script" THEN TsSource(n.kids) ELSE <<>>
      name == IF n.type = "script" THEN "script" ELSE BlockName(n)
  IN  IF script # <<>> THEN chunks \o Rebase(script, n.head)
      ELSE EmitElement(chunks, n, name, blanks)

VueChunksOf(file) ==
  LET made[k \in 0 .. Len(file.text)] ==
        IF k = 0 THEN <<>> ELSE VueBlock(made[k - 1], file.text[k], file.blanks)
  IN  OrFallback(file, made[Len(file.text)])
=============================================================================
