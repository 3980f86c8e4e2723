-------------------------------- MODULE AstChunks --------------------------------
(* The chunkers that walk a syntax tree: chunker.py, _chunk_python,           *)
(* _chunk_ts_source, _chunk_php and what they call.                           *)
(*                                                                            *)
(* A node has the lines from lo, where its decorators or its docblock start,  *)
(* to hi, a header line (head) and its members (kids).  A node that is inline *)
(* has all of them on its header line.  A statement is brief when it is no    *)
(* longer than _MIN_BLOCK_CHARS.  Lines of no node are blank.                 *)
EXTENDS TextChunks

CONSTANTS
  ObjectDepth,   \* _TS_OBJECT_MAX_DEPTH
  Nodes          \* the nodes of the trees

(* What is left of a node when its text is stripped: the lines before the    *)
(* header of a run of HTML are blank.                                        *)
InkOf(n) == (IF n.type = "html" THEN n.head ELSE n.lo) .. n.hi

(* One behind the other; the next may start on the line where one ends,      *)
(* unless it starts with blanks: such HTML is before all of the code.        *)
Successive(nodes) ==
  \A k \in DOMAIN nodes : \A j \in 1 .. k - 1 :
    nodes[j].hi <= nodes[k].lo /\ (nodes[j].hi = nodes[k].lo => nodes[k].lo \in InkOf(nodes[k]))

(* Members are within their node, in the order of the text.  Those of a      *)
(* script are of a text of their own, whose first line is the rest of the    *)
(* line of the tag.                                                          *)
ASSUME NodesAssumption ==
  /\ ObjectDepth \in Nat
  /\ \A n \in Nodes :
       /\ n.type \in STRING
       /\ {n.lo, n.head, n.hi} \subseteq Nat \ {0} /\ n.lo <= n.head /\ n.head <= n.hi
       /\ n.kids \in Seq(Nodes) /\ Successive(n.kids)
       /\ \A k \in DOMAIN n.kids :
            IF n.type = "script" THEN n.head + n.kids[k].hi - 1 <= n.hi
            ELSE n.head <= n.kids[k].lo /\ n.kids[k].hi <= n.hi

LinesOf(node) == node.lo .. node.hi
LinesOfAll(nodes) == UNION {LinesOf(nodes[k]) : k \in DOMAIN nodes}
OfType(nodes, types) == Picked(nodes, {k \in DOMAIN nodes : nodes[k].type \in types})
LinesNotOf(nodes, types) == UNION {LinesOf(nodes[k]) : k \in {j \in DOMAIN nodes : nodes[j].type \notin types}}
ChunksOfAll(Of(_), nodes) == FlattenSeq([k \in DOMAIN nodes |-> Of(nodes[k])])
NodeChunk(n, kind) == LineChunk(LinesOf(n), n.type, kind)

(* The lines of nodes that are not blank.                                    *)
InkOfAll(nodes) == UNION {InkOf(nodes[k]) : k \in DOMAIN nodes}

(* The lines of the nodes one after the other.                               *)
TextOfAll(nodes) == FlattenSeq([k \in DOMAIN nodes |-> Ordered(LinesOf(nodes[k]))])
NotOfType(nodes, types) == Picked(nodes, {k \in DOMAIN nodes : nodes[k].type \notin types})

(* More than a tenth of the named nodes are errors.                          *)
TooBroken(file) == 10 * file.errors > file.nodes

TextHeight(nodes) == Max({0} \cup LinesOfAll(nodes))

(* No chunks, or too broken a tree: the text as it is.                       *)
OrFallback(file, chunks) ==
  IF TooBroken(file) \/ chunks = <<>>
    THEN FallbackChunks([l \in 1 .. TextHeight(file.text) |-> "text"])
    ELSE chunks

(* What precedes the first definition, unless it is one brief statement.  It *)
(* is stripped of the blank lines around it but claims all of the lines.     *)
Preamble(nodes, types) ==
  LET defs == OfType(nodes, types)
      before == IF defs = <<>> THEN {} ELSE 1 .. defs[1].lo - 1
      units == Strip(before, before \ InkOfAll(nodes))
      noise == Len(nodes) > 0 /\ units = InkOf(nodes[1]) /\ nodes[1].brief
  IN  IF noise THEN <<>> ELSE IfAny(units, Chunk(units, 1, Max(before), "", "module"))

-----------------------------------------------------------------------------
(* Python.  "expr" is an assignment or another expression statement, "doc" a *)
(* string alone, "other" what the walk does not look at.                     *)
Expressions == {"expr", "doc"}

(* _build_py_class_shell: the header unless the body is on the same line,    *)
(* the docstring, and every expression statement but the first statement.    *)
PyShell(n) ==
  LET first == IF n.kids = <<>> THEN {} ELSE {1}
      doc == {k \in first : n.kids[k].type = "doc"}
      vars_ == {k \in DOMAIN n.kids \ first : n.kids[k].type \in Expressions}
  IN  (IF n.inline THEN <<>> ELSE <<n.head>>) \o TextOfAll(Picked(n.kids, doc \cup vars_))

PyClass(n) ==
  (IF PyShell(n) = <<>> THEN <<>> ELSE <<Shell(PyShell(n), n.lo, n.hi, n.type, "shell")>>)
    \o ChunksOfAll(LAMBDA m : <<NodeChunk(m, "method")>>, OfType(n.kids, {"function"}))

PyNode(n) ==
  IF n.type = "class" THEN PyClass(n)
  ELSE IF n.type = "function" THEN <<NodeChunk(n, "function")>>
  ELSE IF n.type \in Expressions /\ ~n.brief THEN <<NodeChunk(n, "module")>>
  ELSE <<>>

PyChunks(file) ==
  OrFallback(file, Preamble(file.text, {"class", "function"}) \o ChunksOfAll(PyNode, file.text))

-----------------------------------------------------------------------------
(* TypeScript.  A class is a shell and its members; an object with functions *)
(* in it likewise, down to ObjectDepth.                                      *)
TsMembers == {"method", "field"}
TsDeclarations == {"function", "class", "lexical", "interface"}

(* _build_class_shell: from the docblock (here: the header) to the opening   *)
(* brace, the members that get no chunk of their own, and a closing brace.   *)
TsShell(n) == <<n.head>> \o TextOfAll(NotOfType(n.kids, TsMembers)) \o <<NoLine>>

TsClass(n) ==
  <<Shell(TsShell(n), n.head, n.hi, n.type, "shell")>>
    \o ChunksOfAll(LAMBDA m : <<NodeChunk(m, "method")>>, OfType(n.kids, TsMembers))

OwnChunk == {"method", "arrow", "object"}

WholeObject(o) == IF o.kids = <<>> THEN <<>> ELSE <<NodeChunk(o, "block")>>

(* An object with functions in it, or too long a one, is cut; inner gives    *)
(* the chunks of the objects in it.                                          *)
CutObject(o, inner) ==
  LET shell == NotOfType(o.kids, OwnChunk)
      member(m) == IF m.type = "object" THEN inner[m] ELSE <<NodeChunk(m, "method")>>
  IN  IF OfType(o.kids, {"method", "arrow"}) = <<>> /\ ~NodeChunk(o, "block").split THEN WholeObject(o)
      ELSE (IF shell = <<>> THEN <<>>
            ELSE <<Shell(TextOfAll(shell), o.head, o.hi, o.type, "block")>>)
             \o ChunksOfAll(member, OfType(o.kids, OwnChunk))

(* The chunks of an object when objects in it are cut down to ObjectDepth.   *)
TsObject(n) ==
  LET chunks[left \in 0 .. ObjectDepth] ==
        [o \in Nodes |-> IF left = 0 THEN WholeObject(o) ELSE CutObject(o, chunks[left - 1])]
  IN  chunks[ObjectDepth][n]

(* Statements that are neither declarations nor exported are passed over.    *)
TsNode(n) ==
  IF ~n.exported /\ n.type \notin TsDeclarations THEN <<>>
  ELSE IF n.type = "class" THEN TsClass(n)
  ELSE IF n.type = "object" THEN TsObject(n)
  ELSE <<NodeChunk(n, IF n.type = "function" THEN "function" ELSE "block")>>

TsSource(nodes) == ChunksOfAll(TsNode, nodes)

TsChunks(file) == OrFallback(file, TsSource(file.text))

-----------------------------------------------------------------------------
(* PHP.  The docblock of a node is the comment before it.                    *)
PhpDefinitions == {"class", "function"}

(* Comments are members of the body, so the shell has every docblock.        *)
PhpShell(n) ==
  LET member(m) == m.lo .. (IF m.type = "method" THEN m.head - 1 ELSE m.hi)
  IN  Ordered(n.lo .. n.head)
        \o FlattenSeq([k \in DOMAIN n.kids |-> Ordered(member(n.kids[k]))])
        \o <<NoLine>>

PhpNode(n) ==
  IF n.type = "class"
    THEN <<Shell(PhpShell(n), n.lo, n.hi, n.type, "shell")>>
           \o ChunksOfAll(LAMBDA m : <<NodeChunk(m, "method")>>, OfType(n.kids, {"method"}))
  ELSE IF n.type = "function" THEN <<NodeChunk(n, "function")>>
  ELSE IF n.type = "html" \/ ~n.brief
    THEN <<Chunk(InkOf(n), n.lo, n.hi, n.type, "block")>>
  ELSE <<>>

(* What starts before the first definition is in the preamble.               *)
PhpRest(nodes) ==
  LET defs == OfType(nodes, PhpDefinitions)
  IN  IF defs = <<>> THEN nodes
      ELSE Picked(nodes, {k \in DOMAIN nodes : nodes[k].head >= defs[1].lo})

PhpChunks(file) ==
  OrFallback(file, Preamble(file.text, PhpDefinitions) \o ChunksOfAll(PhpNode, PhpRest(file.text)))
=============================================================================
