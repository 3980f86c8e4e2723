--------------------------------- MODULE Chunker ---------------------------------
(* chunk_file and chunk_pdf of chunker.py: a file goes to the chunker of its  *)
(* format, and references are attributed to its chunks by line.               *)
EXTENDS BladeChunks, VueChunks

CONSTANTS
  Files,     \* files: format, text, named nodes and error nodes of the tree
  Cuttings,  \* windows that chunks which are too long are cut into
  Nesting    \* how many levels of objects are looked into for definitions

Tree == {"python", "typescript", "php", "vue"}

(* What the formats are made of.  The blocks of a component are one behind   *)
(* the other, and but for the scripts nothing documents them.  A class of    *)
(* Python starts on a line of its own.                                       *)
ASSUME FilesAssumption ==
  /\ {MaxUnits, MinSpan, VueDepth, BladeDepth, Nesting} \subseteq Nat
  /\ \A f \in Files :
       /\ f.format \in {"markdown", "text", "bash"} => f.text \in Seq(STRING)
       /\ f.format = "prose" => f.text \in Seq([gap : Nat, inner : Nat, size : Nat])
       /\ f.format = "pdf" => f.text \in Seq([size : Nat])
       /\ f.format = "blade" => f.text \in Seq([name : STRING, args : Nat, spans : Nat])
       /\ f.format \in Tree => f.text \in Seq(Nodes) /\ Successive(f.text)
       /\ f.format = "python" =>
            \A k \in DOMAIN f.text : f.text[k].type = "class" =>
              \A j \in 1 .. k - 1 : f.text[j].hi < f.text[k].lo
       /\ f.format = "vue" =>
            \A k \in DOMAIN f.text :
              /\ f.text[k].lo = f.text[k].head
              /\ \A j \in 1 .. k - 1 : f.text[j].hi < f.text[k].lo

VARIABLES
  file,     \* the file
  added,    \* the chunks that its chunker adds
  chunks,   \* the chunks and sub-chunks stored for them
  done

chunkerVars == <<file, added, chunks, done>>

(* Where the windows of a chunk end depends on the length of its lines: it   *)
(* may be cut in any way that SubChunks can cut a text (NothingDropped).     *)
Allows(cutting, result) ==
  \A k \in DOMAIN result :
    LET n == Len(result[k].text)
    IN  result[k].split =>
          cutting[k][n] \in Seq([from : Nat, to : Nat]) /\ IsCutting(cutting[k][n], n)

ChunkWith(format, result) ==
  /\ ~done /\ file.format = format
  /\ added' = result
  /\ \E cutting \in Cuttings : Allows(cutting, result) /\ chunks' = Stored(result, cutting)
  /\ done' = TRUE
  /\ UNCHANGED file

ChunkerInit == file \in Files /\ added = <<>> /\ chunks = <<>> /\ done = FALSE

ChunkBlade ==
  ChunkWith("blade",
    LET made == BladeChunksOf(file.text)
    IN  IF DOMAIN file.text = BladeBlanks(file.text) THEN <<>>
        ELSE IF made = <<>> THEN FallbackChunks([l \in DOMAIN file.text |-> "text"]) ELSE made)
ChunkTypescript == ChunkWith("typescript", TsChunks(file))
ChunkPython == ChunkWith("python", PyChunks(file))
ChunkPhp == ChunkWith("php", PhpChunks(file))
ChunkVue == ChunkWith("vue", VueChunksOf(file))
ChunkBash == ChunkWith("bash", BashChunks(file.text))
ChunkMarkdown == ChunkWith("markdown", MarkdownChunks(file.text))
ChunkProse == ChunkWith("prose", ProseChunks(file.text))
ChunkText == ChunkWith("text", FallbackChunks(file.text))
ChunkPdf == ChunkWith("pdf", PdfChunks(file.text))

ChunkFile ==
  \/ ChunkBlade \/ ChunkTypescript \/ ChunkPython \/ ChunkPhp \/ ChunkVue
  \/ ChunkBash \/ ChunkMarkdown \/ ChunkProse \/ ChunkText \/ ChunkPdf

ChunkerSpec == ChunkerInit /\ [][ChunkFile]_chunkerVars

-----------------------------------------------------------------------------
(* The chunks in which a unit is, sub-chunks of one chunk counted once.      *)
Owners(u) == {c.parent : c \in {d \in Range(chunks) : u \in d.units}}

(* The units that hold text which no format passes over on purpose: in a     *)
(* component all blocks but the scripts, in a PDF the pages within the caps. *)
TextUnits ==
  CASE file.format \in {"markdown", "text", "bash"} -> Ink(file.text)
    [] file.format = "blade" -> DOMAIN file.text \ BladeBlanks(file.text)
    [] file.format = "prose" -> DOMAIN file.text
    [] file.format = "pdf" -> PagesRead(file.text)
    [] file.format = "vue" ->
         LinesNotOf(file.text, {"script"}) \ file.blanks
    [] OTHER -> {}

(* A directive that ends a block has directives in its arguments: the scan,  *)
(* which goes on behind its name, finds them again.                          *)
ClosesWithArguments ==
  file.format = "blade" /\ \E u \in DOMAIN file.text : file.text[u].spans > 0

(* However a text is cut, packed and folded together, all of it is in what   *)
(* is stored for one chunk, and none of it in what is stored for two         *)
(* (_blade_emit: "no source text is dropped").                               *)
TextKept ==
  done => \A u \in TextUnits :
    Owners(u) # {} /\ (Cardinality(Owners(u)) = 1 \/ ClosesWithArguments)

(* The exceptions to SpansHold, where white space before the text shifts it. *)
StartsBlank == file.format \in {"markdown", "text", "bash"} /\ file.text[1] = "blank"
SentenceOnNewLine ==
  file.format = "prose" /\ \E k \in DOMAIN file.text : file.text[k].gap > 0

UnitFirst(u) == IF file.format = "prose" THEN FirstLine(file.text, u) ELSE u
UnitLast(u) == IF file.format = "prose" THEN LastLine(file.text, u) ELSE u

(* The line span a stored chunk claims holds all of its text, whatever was   *)
(* stripped from it or folded into it, wherever the text starts in its file  *)
(* and in its chunk.  The exceptions are the sub-chunks of a text that is    *)
(* not one of successive lines or is stripped at the top: a shell, a cut     *)
(* object, a preamble or a run of HTML behind blank lines.                   *)
SpansHold ==
  (done /\ ~StartsBlank /\ ~SentenceOnNewLine) =>
    \A c \in Range(chunks) : \A u \in c.units :
      \/ c.start <= UnitFirst(u) /\ UnitLast(u) <= c.end
      \/ Displaced(added[c.parent])

(* An object and the objects in it.                                          *)
ObjectsIn(object) ==
  LET found[left \in 0 .. Nesting] ==
        [n \in Nodes |->
           {n} \cup IF left = 0 THEN {}
                    ELSE UNION {found[left - 1][o] : o \in {m \in Range(n.kids) : m.type = "object"}}]
  IN  found[Nesting][object]

(* The trees of a file: that of its text, or those of its scripts.           *)
Trees ==
  IF file.format # "vue" THEN {file.text}
  ELSE {n.kids : n \in {m \in Range(file.text) : m.type = "script"}}

(* Functions and methods: at the top, of a class at the top, of an object    *)
(* that is exported.                                                         *)
DefinitionsOf(n, format) ==
  CASE n.type = "function" -> {n}
    [] n.type = "class" ->
         {m \in Range(n.kids) : m.type = IF format = "python" THEN "function" ELSE "method"}
    [] n.type = "object" /\ n.exported /\ format \in {"typescript", "vue"} ->
         UNION {{m \in Range(o.kids) : m.type \in {"method", "arrow"}} : o \in ObjectsIn(n)}
    [] OTHER -> {}

Definitions(nodes, format) == UNION {DefinitionsOf(n, format) : n \in Range(nodes)}

(* Their lines in the file.                                                  *)
AllDefinitions ==
  IF file.format # "vue" THEN {LinesOf(d) : d \in Definitions(file.text, file.format)}
  ELSE UNION {{{n.head + l - 1 : l \in LinesOf(d)} : d \in Definitions(n.kids, "vue")} :
                n \in {m \in Range(file.text) : m.type = "script"}}

(* The exception to DefinitionsAttributed: the line on which an object       *)
(* starts goes to its shell, also when what precedes the object ends on it.  *)
ObjectsApart(nodes) ==
  \A k \in DOMAIN nodes : nodes[k].type = "object" =>
    \A j \in 1 .. k - 1 : nodes[j].hi < nodes[k].lo
AllApart(nodes) ==
  /\ ObjectsApart(nodes)
  /\ \A n \in Range(nodes) : n.type = "object" => \A o \in ObjectsIn(n) : ObjectsApart(o.kids)
Crowded == \E nodes \in Trees : ~AllApart(nodes)

(* Another exception: the sub-chunks of a shell claim lines of the methods,  *)
(* and of the chunks that start at a line or before it the last is taken.    *)
TakenByShell(l) ==
  Starting(chunks, l) # {} /\ Displaced(added[chunks[LastStarted(chunks, l)].parent])

(* A function or a method is whole in what is stored for one chunk, with its *)
(* decorators or its docblock, and a reference on any of its lines goes to a *)
(* chunk that has the line, also when shells and blocks start on the same    *)
(* line, when the function is cut and when the script is a part of a         *)
(* component.                                                                *)
DefinitionsAttributed ==
  (done /\ file.format \in Tree) =>
    \A d \in AllDefinitions :
      /\ \E p \in DOMAIN added : \A l \in d : p \in Owners(l)
      /\ \A l \in d :
           l \in chunks[Lookup(chunks, l)].units \/ Crowded \/ TakenByShell(l)

(* Directives that match in pairs, each within the pair around it: then each *)
(* block of the parse is one pair, from the opener to behind the closer.     *)
Opening(u) == OpensBlock(file.text[u]) /\ file.text[u].name # "verbatim"
Closing(u) == \E n \in Openers : file.text[u].name \in BladeClosers[n]
Level(u) == Cardinality({v \in 1 .. u : Opening(v)}) - Cardinality({v \in 1 .. u : Closing(v)})
Partner(u) == Min({v \in u .. Len(file.text) : Level(v) < Level(u)} \cup {Len(file.text) + 1})

Balanced ==
  /\ \A u \in DOMAIN file.text :
       file.text[u].name \notin {"verbatim", "endverbatim"} /\ file.text[u].spans = 0
  /\ \A u \in DOMAIN file.text : Level(u) >= 0
  /\ \A u \in DOMAIN file.text : Opening(u) =>
       Partner(u) \in DOMAIN file.text
       /\ file.text[Partner(u)].name \in BladeClosers[file.text[u].name]

(* What the scripts of a component declare.                                  *)
Declared == {n.type : n \in UNION {Range(b.kids) : b \in {c \in Range(file.text) : c.type = "script"}}}

(* A block is what the source says it is.  In a template whose directives    *)
(* balance, the blocks of the parse are the pairs.  A chunk of a component   *)
(* is of one block: a short run is folded into the chunk before it only when *)
(* that one "is theirs to extend".  That is told by its name alone: blocks   *)
(* without one (custom blocks, bare exports of a script) are all taken for   *)
(* one, and what a script declares as template or style for that block.      *)
BlocksKeptApart ==
  /\ (done /\ file.format = "blade" /\ Balanced) =>
       {<<b.start, b.end>> : b \in Range(Blocks(file.text))}
         = {<<u, Partner(u) + 1>> : u \in {v \in DOMAIN file.text : Opening(v)}}
  /\ (done /\ file.format = "vue" /\ ~TooBroken(file)) =>
       \A c \in Range(chunks) :
         LET blocks == {j \in DOMAIN file.text : c.units \cap LinesOf(file.text[j]) # {}}
         IN  \/ c.name \in {""} \cup (Declared \cap {"template", "style"})
             \/ Cardinality({file.text[j].type : j \in blocks}) <= 1
=============================================================================
