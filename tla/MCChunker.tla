-------------------------------- MODULE MCChunker --------------------------------
(* Small files of every format, and chunks too long for one sub-chunk.        *)
EXTENDS Chunker, SubChunks

CONSTANTS
  MaxLines,     \* lines of a file of flat text
  MaxNodes,     \* top-level nodes of a tree
  MaxHeight,    \* lines of a tree
  MaxChunks,    \* chunks of a file
  MaxText,      \* lines of the text of a chunk
  MaxLongLines  \* lines of a chunk that is split

-----------------------------------------------------------------------------
(* A node is written with the lines of its decorators or docblock (lead),    *)
(* its members and, where the language has braces, a closing line (tail), as *)
(* if it were at line 1, and moved to where it is.                           *)
Moved(n, by, Below(_, _)) ==
  [n EXCEPT !.lo = @ + by, !.head = @ + by, !.hi = @ + by,
            !.kids = IF n.type = "script" THEN @ ELSE [k \in DOMAIN n.kids |-> Below(n.kids[k], by)]]
Moved1(n, by) == Moved(n, by, LAMBDA kid, d : kid)
Moved2(n, by) == Moved(n, by, Moved1)
Moved3(n, by) == Moved(n, by, Moved2)
Moved4(n, by) == Moved(n, by, Moved3)

(* One behind the other, the first at line.                                  *)
PlacedFrom(nodes, line) ==
  LET ends[j \in 0 .. Len(nodes)] == IF j = 0 THEN line - 1 ELSE nodes[j].hi + ends[j - 1]
  IN  [k \in DOMAIN nodes |-> Moved4(nodes[k], ends[k - 1])]

(* The members of an inline node are on its line.  A script has a text of    *)
(* its own, in which the rest of the line of its tag is line 1.              *)
N(type, lead, tail, brief, inline, kids) ==
  LET head == lead + 1
      placed == PlacedFrom(kids, IF inline THEN head ELSE IF type = "script" THEN 2 ELSE head + 1)
      last == IF inline \/ kids = <<>> THEN head ELSE Last(placed).hi + (IF type = "script" THEN lead ELSE 0)
  IN  [ type |-> type, brief |-> brief, exported |-> FALSE, inline |-> inline,
        lo |-> 1, head |-> head, hi |-> last + (IF inline THEN 0 ELSE tail),
        kids |-> IF inline THEN [k \in DOMAIN kids |-> Moved1(kids[k], head - 1)] ELSE placed ]

-----------------------------------------------------------------------------
SeqsUpTo(S, n) == UNION {[1 .. m -> S] : m \in 0 .. n}
FileOf(format, texts) ==
  [format : {format}, text : texts \ {<<>>}, errors : {0}, nodes : {10}]

U(name, args, spans) == [name |-> name, args |-> args, spans |-> spans]
BladeUnits ==
  { U("blank", 0, 0), U("text", 0, 0), U("if", 1, 0), U("endif", 0, 0), U("php", 0, 0),
    U("php", 1, 0), U("endphp", 0, 0), U("section", 1, 0), U("section", 2, 0),
    U("stop", 0, 0), U("endsection", 0, 0), U("verbatim", 0, 0), U("endverbatim", 0, 0) }
BladeCore == {u \in BladeUnits : u.name \in {"text", "if", "endif", "section", "stop"} /\ u.args < 2}

(* Oversized blocks around whatever comes; a closing directive whose         *)
(* arguments hold directives.                                                *)
BladeTexts ==
  SeqsUpTo(BladeUnits, 3) \cup SeqsUpTo(BladeCore, MaxLines)
    \cup {<<U("if", 1, 0), U("section", 1, 0)>> \o s \o <<U("stop", 0, 0), U("endif", 0, 0)>> :
            s \in SeqsUpTo(BladeCore, MaxLines - 1)}
    \cup {<<U("if", 1, 0), U("section", 1, 0), U("endsection", 1, 2), U("php", 0, 0), u, v>> :
            u \in BladeUnits, v \in BladeUnits}

(* A long node does not fit a chunk.                                         *)
Leaf(type) == N(type, 0, 0, FALSE, FALSE, <<>>)
Led(type) == N(type, 1, 0, FALSE, FALSE, <<>>)
Long(type) == N(type, 0, MaxUnits, FALSE, FALSE, <<>>)
Brief(type) == N(type, 0, 0, TRUE, FALSE, <<>>)
Exported(n) == [n EXCEPT !.exported = TRUE]

PyMembers ==
  {Leaf(t) : t \in {"doc", "expr", "other", "function"}}
    \cup {Led("function"), Long("function"), N("class", 0, 0, FALSE, FALSE, <<Leaf("function")>>)}
PyNodes ==
  {Leaf(t) : t \in {"other", "expr", "function"}} \cup {Long(t) : t \in {"other", "function"}}
    \cup {Brief("expr"), Led("function")}
    \cup {N("class", 1, 0, FALSE, FALSE, ks) : ks \in SeqsUpTo(PyMembers, 2) \ {<<>>}}
    \cup {N("class", 0, 0, FALSE, TRUE, <<Leaf(t)>>) : t \in {"expr", "other"}}

TsShort == {Leaf(t) : t \in {"method", "field", "other"}}
TsMembersOf == TsShort \cup {Long(t) : t \in {"method", "other"}}
Props == {Leaf(t) : t \in {"value", "arrow", "method"}} \cup {Long(t) : t \in {"value", "method"}}
Objects == {N("object", 0, 1, FALSE, FALSE, ks) : ks \in SeqsUpTo(Props, 2)}
Nested ==
  {N("object", 0, 1, FALSE, FALSE, <<a, b>>) :
     a \in {Leaf(t) : t \in {"value", "arrow", "method"}}, b \in Objects}
TsNodes ==
  {Leaf(t) : t \in {"function", "statement"}} \cup {Exported(Leaf(t)) : t \in {"lexical", "bare"}}
    \cup {N("class", 0, 0, FALSE, TRUE, ks) : ks \in SeqsUpTo(TsShort, 2)}
    \cup {N("class", 0, 1, FALSE, FALSE, ks) : ks \in SeqsUpTo(TsMembersOf, 2)}
    \cup {Exported(n) : n \in Objects \cup Nested}

PhpMembersOf ==
  {Leaf("method")} \cup {Led(t) : t \in {"method", "constant"}} \cup {Long(t) : t \in {"method", "constant"}}
PhpNodes ==
  {Led("html")} \cup {Long(t) : t \in {"html", "statement", "function"}}
    \cup {Leaf(t) : t \in {"statement", "html"}} \cup {Brief("statement"), Led("function")}
    \cup {N("class", l, 1, FALSE, FALSE, ks) : l \in {0, 1}, ks \in SeqsUpTo(PhpMembersOf, 2)}

Element(kids) == N("element", 0, 1, FALSE, FALSE, kids)
Small == {Leaf("text"), Element(<<>>), Element(<<Leaf("text")>>)}
Medium == {Element(ks) : ks \in SeqsUpTo(Small, 2)} \cup {Leaf(t) : t \in {"blank", "text"}}
Templates(n) == {N("template", 0, 1, FALSE, FALSE, ks) : ks \in SeqsUpTo(Medium, n)}
Blocks1 ==
  Templates(2)
    \cup {N(t, 0, 1, FALSE, FALSE, <<Leaf("text")>>) : t \in {"style", "custom"}}
Others ==
  {N(t, 0, 1, FALSE, FALSE, <<Leaf("text")>>) : t \in {"style", "custom"}}
    \cup {N("script", 0, 1, FALSE, FALSE, ks) :
            ks \in {<<>>, <<Leaf("statement")>>, <<Exported(Leaf("style"))>>,
                   <<Leaf("function"), Exported(Leaf("bare"))>>}}
(* Blocks on one line.                                                       *)
OneLine == {N(t, 0, 0, FALSE, TRUE, <<>>) : t \in {"style", "custom"}}
Components ==
  {<<a>> \o s : a \in Blocks1, s \in SeqsUpTo(Others \cup OneLine, 1)}
    \cup {<<a>> \o s : a \in Templates(1), s \in SeqsUpTo(Others \cup OneLine, 2)}

Members(nodes) == UNION {Range(nodes[k].kids) : k \in DOMAIN nodes}
TreeFile(format, first, text, errors) ==
  LET placed == PlacedFrom(text, first)
  IN  [ format |-> format, text |-> placed, errors |-> errors, nodes |-> 10,
        blanks |-> UNION {LinesOf(n) : n \in {m \in Members(placed) : m.type = "blank"}} ]

(* An object that starts on the line on which the function before it ends.   *)
OnOneLine ==
  [ format |-> "typescript", errors |-> 0, nodes |-> 10, blanks |-> {},
    text |-> <<Leaf("function"), Exported(N("object", 0, 1, FALSE, FALSE, <<Leaf("value"), Leaf("arrow")>>))>> ]

TsCore ==
  { Leaf("function"), Exported(Leaf("bare")), N("class", 0, 1, FALSE, FALSE, <<Leaf("method")>>),
    Exported(N("object", 0, 1, FALSE, FALSE, <<Leaf("value"), Leaf("arrow")>>)) }
TsTexts ==
  SeqsUpTo(TsNodes, 1) \cup {<<a, b>> : a \in TsNodes, b \in TsCore}
    \cup {<<a, b>> : a \in TsCore, b \in TsNodes}

(* Texts with something before the first definition.                         *)
Prefixed(texts) ==
  {s \in texts : s # <<>> /\ s[1].type \in {"other", "expr", "statement", "html"}}

(* Python and PHP behind a blank line, with as many errors as are tolerated, *)
(* and with more.                                                            *)
MCTrees ==
  {TreeFile(x[1], x[2], x[3], x[4]) :
     x \in ({"python"} \X {1} \X (SeqsUpTo(PyNodes, MaxNodes) \ {<<>>}) \X {0})
       \cup ({"python"} \X {2} \X Prefixed(SeqsUpTo(PyNodes, MaxNodes)) \X {0})
       \cup ({"php"} \X {1} \X (SeqsUpTo(PhpNodes, MaxNodes) \ {<<>>}) \X {0})
       \cup ({"php"} \X {2} \X Prefixed(SeqsUpTo(PhpNodes, MaxNodes)) \X {0})
       \cup ({"python"} \X {1} \X (SeqsUpTo(PyNodes, 1) \ {<<>>}) \X {1, 2})
       \cup ({"php"} \X {1} \X (SeqsUpTo(PhpNodes, 1) \ {<<>>}) \X {1, 2})
       \cup ({"typescript"} \X {1} \X (TsTexts \ {<<>>}) \X {0})
       \cup ({"vue"} \X {1} \X Components \X {0})}
    \cup {OnOneLine}

MCFiles ==
  FileOf("markdown", SeqsUpTo({"blank", "text", "heading", "fence", "long", "tilde"}, MaxLines))
    \cup FileOf("text", SeqsUpTo({"blank", "text"}, MaxLines + 1))
    \cup FileOf("bash", SeqsUpTo({"blank", "text", "function"}, MaxLines))
    \cup FileOf("prose", SeqsUpTo([gap : {0, 1, 2}, inner : {0, 1}, size : {1, 4}], 3))
    \cup FileOf("pdf", SeqsUpTo([size : {0, 2, 3, 9}], 4))
    \cup FileOf("blade", BladeTexts)
    \cup MCTrees

(* The nodes of these trees wherever they are in a text of MaxHeight lines.  *)
Top == PyNodes \cup TsNodes \cup PhpNodes \cup Blocks1 \cup Others \cup OneLine
Parts(n) == {n} \cup Range(n.kids)
Parts2(n) == {n} \cup UNION {Parts(kid) : kid \in Range(n.kids)}
Parts3(n) == {n} \cup UNION {Parts2(kid) : kid \in Range(n.kids)}
Written == UNION {Parts3(n) : n \in Top}
Anywhere == {Moved4(w, l - 1) : w \in Written, l \in 1 .. MaxHeight}
MCNodes == {n \in Anywhere : n.hi <= MaxHeight}

(* Windows of the same width all along, with and without an overlap.         *)
Windowed(width, step, n) ==
  LET count == 1 + (IF n <= width THEN 0 ELSE (n - width + step - 1) \div step)
  IN  [k \in 1 .. count |->
         [from |-> 1 + (k - 1) * step, to |-> IF k = count THEN n ELSE (k - 1) * step + width]]
MCCuttings ==
  {[k \in 1 .. MaxChunks |-> [n \in 1 .. MaxText |-> Windowed(x[1], x[2], n)]] :
     x \in {<<1, 1>>, <<3, 2>>}}

-----------------------------------------------------------------------------
L(size, parens, opens, closes, stops) ==
  [size |-> size, parens |-> parens, opens |-> opens, closes |-> closes, stops |-> stops]

LongLines == { L(2, 0, FALSE, FALSE, FALSE),  \* a statement
               L(7, 0, FALSE, FALSE, FALSE),  \* a long one
               L(2, 1, FALSE, FALSE, FALSE),  \* def f(
               L(2, -1, TRUE, TRUE, FALSE),   \* ):
               L(0, 0, FALSE, FALSE, TRUE) }  \* a blank line

MCChunks == SeqsUpTo(LongLines, MaxLongLines) \ {<<>>}

(* A file is chunked, or a chunk is split: one of the two per behaviour.     *)
OneFile == CHOOSE f \in Files : TRUE
OneChunk == CHOOSE c \in Chunks : TRUE

MCInit ==
  \/ lines = OneChunk /\ Init /\ ChunkerInit
  \/ file = OneFile /\ ChunkerInit /\ Init
MCNext ==
  \/ lines = OneChunk /\ ChunkFile /\ UNCHANGED vars
  \/ file = OneFile /\ ~done /\ Next /\ UNCHANGED chunkerVars

MCSpec == MCInit /\ [][MCNext]_<<chunkerVars, vars>>
=============================================================================
