------------------------------- MODULE BladeChunks -------------------------------
(* Blade templates: chunker.py, _chunk_blade, _blade_parse_blocks,            *)
(* _blade_close, _blade_opens_block, _blade_emit and _blade_emit_markup.      *)
(*                                                                            *)
(* A template is a sequence of units, each on a line of its own: "blank",     *)
(* "text" or a directive with its argument list.  args is how many arguments  *)
(* there are (0: no parentheses), and spans how many of the units behind it   *)
(* are written inside the parentheses.                                        *)
EXTENDS Chunks

CONSTANT BladeDepth   \* _BLADE_MAX_DEPTH

(* Of the 33 openers, one of each behaviour: @if and @hassection share their *)
(* closer, @section has several and may be inline, @php has a body only when *)
(* it has no arguments and @empty only when it has some.                     *)
BladeClosers ==
  [ if |-> {"endif"}, hassection |-> {"endif"}, auth |-> {"endauth"}, php |-> {"endphp"},
    empty |-> {"endempty"}, section |-> {"endsection", "stop"}, verbatim |-> {"endverbatim"} ]
Openers == DOMAIN BladeClosers
Inline == {"section"}
Named == {"section"}

Directive(unit) == unit.name \notin {"blank", "text"}
BladeBlanks(text) == {p \in DOMAIN text : text[p].name = "blank"}

OpensBlock(unit) ==
  /\ unit.name \in Openers
  /\ unit.name = "php" => unit.args = 0
  /\ unit.name = "empty" => unit.args > 0
  /\ unit.name \in Inline => unit.args < 2

Block(unit, start, end, parent) ==
  [ name |-> unit.name, start |-> start, end |-> end, parent |-> parent,
    label |-> IF unit.name \in Named /\ unit.args > 0 THEN unit.name ELSE "" ]

-----------------------------------------------------------------------------
(* The scan: where it goes on (pos), the blocks in the order they open, and  *)
(* the stack of those still open.                                            *)
Innermost(st) == IF st.stack = <<>> THEN 0 ELSE Last(st.stack)
After(text, p) == p + 1 + text[p].spans

Closable(st, unit) ==
  {d \in DOMAIN st.stack : unit.name \in BladeClosers[st.blocks[st.stack[d]].name]}

(* Broken variant: the outermost of the blocks it could end is ended.        *)
CloseOutermost(st, text, p) ==
  LET d == Min(Closable(st, text[p]))
  IN  [ pos |-> p + 1,
        stack |-> SubSeq(st.stack, 1, d - 1),
        blocks |-> [b \in DOMAIN st.blocks |->
                      IF b \in {st.stack[e] : e \in d .. Len(st.stack)}
                        THEN [st.blocks[b] EXCEPT !.end = After(text, p)]
                      ELSE st.blocks[b]] ]

(* The innermost block the directive terminates ends behind it, and so does  *)
(* every block left open inside.  The scan goes on behind the directive's    *)
(* name, not behind its arguments.                                           *)
Close(st, text, p) ==
  LET d == Max(Closable(st, text[p]))
      closed == {st.stack[e] : e \in d .. Len(st.stack)}
  IN  [ pos |-> p + 1,
        stack |-> SubSeq(st.stack, 1, d - 1),
        blocks |-> [b \in DOMAIN st.blocks |->
                      IF b \in closed THEN [st.blocks[b] EXCEPT !.end = After(text, p)]
                      ELSE st.blocks[b]] ]

(* Blocks still open at the end of the file are closed there.                *)
Open(st, text, p) ==
  [ pos |-> After(text, p),
    stack |-> Append(st.stack, Len(st.blocks) + 1),
    blocks |-> Append(st.blocks, Block(text[p], p, Len(text) + 1, Innermost(st))) ]

(* Nothing is a directive between @verbatim and @endverbatim.                *)
Verbatim(st, text, p) ==
  LET ends == {q \in After(text, p) .. Len(text) : text[q].name = "endverbatim"}
      end == IF ends = {} THEN Len(text) + 1 ELSE Min(ends) + 1
  IN  [st EXCEPT !.pos = end, !.blocks = Append(@, Block(text[p], p, end, Innermost(st)))]

Scan(text) ==
  LET step(st, p) ==
        IF p < st.pos \/ ~Directive(text[p]) THEN st
        ELSE IF text[p].name = "verbatim" THEN Verbatim(st, text, p)
        ELSE IF Closable(st, text[p]) # {} THEN Close(st, text, p)
        ELSE IF OpensBlock(text[p]) THEN Open(st, text, p)
        ELSE [st EXCEPT !.pos = After(text, p)]
      after[p \in 0 .. Len(text)] ==
        IF p = 0 THEN [pos |-> 1, stack |-> <<>>, blocks |-> <<>>] ELSE step(after[p - 1], p)
  IN  after[Len(text)]

Blocks(text) == Scan(text).blocks

(* The blocks directly inside block b (0: the template), in source order.    *)
Inside(blocks, b) ==
  Ordered({c \in DOMAIN blocks : blocks[c].parent = b})

-----------------------------------------------------------------------------
(* A run of markup up to, not including, hi.                                 *)
Markup(text, lo, hi, name) ==
  LET units == Strip(lo .. hi - 1, BladeBlanks(text))
  IN  IfAny(units, LineChunk(units, name, "block"))

WholeBlock(text, block, name) ==
  LET span == block.start .. block.end - 1
      kind == IF block.label # "" THEN "section" ELSE "block"
  IN  Chunk(Strip(span, BladeBlanks(text)), block.start, Max(span), name, kind)

Descends(blocks, b, left) ==
  /\ blocks[b].end - blocks[b].start > MaxUnits
  /\ left > 0
  /\ Inside(blocks, b) # <<>>

(* The span of a block, cut at the blocks inside; block 0 is the template.   *)
SpanStart(blocks, b) == IF b = 0 THEN 1 ELSE blocks[b].start
SpanEnd(text, blocks, b) == IF b = 0 THEN Len(text) + 1 ELSE blocks[b].end

(* An oversized block with structure is cut in turn (inner), and its         *)
(* directives fall into the markup around the blocks in it.                  *)
CutBlock(text, blocks, b, inherited, left, inner) ==
  LET kids == Inside(blocks, b)
      cursor(k) == IF k = 1 THEN SpanStart(blocks, b) ELSE blocks[kids[k - 1]].end
      name(c) == IF blocks[c].label # "" THEN blocks[c].label ELSE inherited
      piece(k) ==
        Markup(text, cursor(k), blocks[kids[k]].start, inherited)
          \o IF Descends(blocks, kids[k], left) THEN inner[kids[k]][name(kids[k])]
             ELSE <<WholeBlock(text, blocks[kids[k]], name(kids[k]))>>
  IN  FlattenSeq([k \in DOMAIN kids |-> piece(k)])
        \o Markup(text, cursor(Len(kids) + 1), SpanEnd(text, blocks, b), inherited)

(* The chunks of the blocks when the blocks in them are cut to a depth.      *)
Emit(text, blocks) ==
  LET emitted[left \in 0 .. BladeDepth] ==
        [b \in 0 .. Len(blocks) |-> [inherited \in Named \cup {""} |->
           CutBlock(text, blocks, b, inherited, left, IF left = 0 THEN <<>> ELSE emitted[left - 1])]]
  IN  emitted[BladeDepth]

BladeChunksOf(text) == Emit(text, Blocks(text))[0][""]
=============================================================================
