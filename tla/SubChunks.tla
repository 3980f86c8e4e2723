------------------------------- MODULE SubChunks -------------------------------
(* How a chunk that is too long is cut into windows of lines that overlap:    *)
(* _add_chunk, _split_into_sub_chunks and _extract_signature of chunker.py.   *)
(*                                                                            *)
(* A line is its length and what the signature scan looks at.  Both loops     *)
(* take one step per line, as the code does.  Lines count from 1.             *)
EXTENDS Arrangements

CONSTANTS
  Chunks,     \* the chunks that may be split
  MaxChars,   \* max_chars
  MinWindow,  \* 500, the least that is left for lines beside the signature
  Overlap,    \* _SUB_CHUNK_OVERLAP
  SigScan     \* 5, the lines in which the signature is looked for

Line == [ size   : Nat,      \* its length without the newline
          parens : Int,      \* "(" less ")"
          opens  : BOOLEAN,  \* ends with ":" or "{"
          closes : BOOLEAN,  \* ends with one of these, "=>", ")" or "->"
          stops  : BOOLEAN ] \* is blank or starts a docstring

ASSUME ChunksAssumption == Chunks \subseteq Seq(Line) \ {<<>>}
ASSUME LimitsAssumption ==
  MaxChars \in Nat /\ MinWindow \in Nat /\ Overlap \in Nat /\ SigScan \in Nat \ {0}

VARIABLES
  lines,    \* the chunk
  at,       \* "signature", "lines" or "done"
  sig,      \* how many lines the signature has so far
  sigLen,   \* its length, each line with a newline
  depth,    \* parentheses open after the last line looked at
  next,     \* i, the line to look at
  from,     \* start_i
  taken,    \* char_count of from .. next - 1
  windows   \* the sub-chunks emitted, each with the length of its text

vars == <<lines, at, sig, sigLen, depth, next, from, taken, windows>>

Width(k) == lines[k].size + 1

LargerOf(a, b) == IF a < b THEN b ELSE a
SmallerOf(a, b) == IF a < b THEN a ELSE b

Init ==
  /\ lines \in Chunks
  /\ at = "signature"
  /\ sig = 1
  /\ sigLen = Width(1)
  /\ depth = lines[1].parens
  /\ next = 1
  /\ from = 1
  /\ taken = 0
  /\ windows = <<>>

-----------------------------------------------------------------------------
(* _extract_signature: a parameter list that is still open is taken, then    *)
(* the line that closes the declaration.                                     *)
InHeader == sig > 1 \/ ~(depth <= 0 /\ lines[1].opens)
InScan == sig + 1 <= Len(lines) /\ sig + 1 <= SigScan

DepthWithNext == depth + lines[sig + 1].parens

AddsToSignature ==
  /\ InHeader /\ InScan
  /\ ~lines[sig + 1].stops
  /\ DepthWithNext > 0 \/ lines[sig + 1].closes

ExtendSignature ==
  /\ at = "signature"
  /\ AddsToSignature
  /\ sig' = sig + 1
  /\ sigLen' = sigLen + Width(sig + 1)
  /\ depth' = DepthWithNext
  /\ at' = IF DepthWithNext > 0 THEN "signature" ELSE "lines"
  /\ UNCHANGED <<lines, next, from, taken, windows>>

EndSignature ==
  /\ at = "signature"
  /\ ~AddsToSignature
  /\ at' = "lines"
  /\ UNCHANGED <<lines, sig, sigLen, depth, next, from, taken, windows>>

-----------------------------------------------------------------------------
EffectiveMax == LargerOf(MinWindow, MaxChars - sigLen)

Fits == next <= Len(lines) /\ taken + Width(next) <= EffectiveMax

TakeLine ==
  /\ at = "lines"
  /\ Fits
  /\ next' = next + 1
  /\ taken' = taken + Width(next)
  /\ UNCHANGED <<lines, at, sig, sigLen, depth, from, windows>>

(* The line after the last of the window: at least one is taken, whether it  *)
(* fits or not.                                                              *)
Stop == IF next = from THEN next + 1 ELSE next

(* The text: the lines joined, after the first window behind the signature   *)
(* and a blank line.                                                         *)
TextSize ==
  (IF next = from THEN Width(next) ELSE taken) - 1
    + (IF windows = <<>> THEN 0 ELSE sigLen + 1)

(* Broken variant: the guard is not capped at the lines consumed.            *)
RewoundPastSignature == LargerOf(LargerOf(from + 1, sig + 1), Stop - Overlap)

(* Lines are 0-based in the code: sig_guard is min(sig_line_count, i), here  *)
(* one more, and the rewind stays behind from.                               *)
Rewound ==
  LET guard == SmallerOf(sig + 1, Stop)
  IN  LargerOf(LargerOf(from + 1, guard), Stop - Overlap)

EmitWindow ==
  /\ at = "lines"
  /\ ~Fits
  /\ windows' = Append(windows, [from |-> from, to |-> Stop - 1, size |-> TextSize])
  /\ taken' = 0
  /\ next' = IF Stop <= Len(lines) THEN Rewound ELSE Stop
  /\ from' = next'
  /\ at' = IF next' <= Len(lines) THEN "lines" ELSE "done"
  /\ UNCHANGED <<lines, sig, sigLen, depth>>

Next == ExtendSignature \/ EndSignature \/ TakeLine \/ EmitWindow

Spec == Init /\ [][Next]_vars
-----------------------------------------------------------------------------
LineNumbers == 1 .. Len(lines)
Window == [from : LineNumbers, to : LineNumbers, size : Nat]
Windows == {windows[k] : k \in DOMAIN windows}
Holds(w, l) == w.from <= l /\ l <= w.to

TypeOK ==
  /\ lines \in Chunks
  /\ at \in {"signature", "lines", "done"}
  /\ sig \in LineNumbers /\ sigLen \in Nat /\ depth \in Int
  /\ next \in 1 .. Len(lines) + 1 /\ from \in 1 .. next
  /\ taken \in Nat
  /\ windows \in Seq(Window)

(* When the function returns, the windows start one behind the other and     *)
(* every line is in one: the rewind always makes progress and never jumps    *)
(* forward over lines that no window has ("silently dropping ... the         *)
(* intervening source lines").                                               *)
NothingDropped == at = "done" => IsCutting(windows, Len(lines))

(* A line of the signature is in one window only: behind the first one it is *)
(* there as the prefix ("overlap rewind never crosses back into the          *)
(* signature area").                                                         *)
SignatureOnce ==
  \A j, k \in DOMAIN windows, l \in 1 .. sig :
    Holds(windows[j], l) /\ Holds(windows[k], l) => j = k

(* A window's text is within max_chars, unless it is one line that does not  *)
(* fit or the signature leaves less than MinWindow characters.               *)
WithinLimit ==
  \A w \in Windows :
    w.size <= MaxChars \/ w.from = w.to \/ MaxChars - sigLen < MinWindow

=============================================================================
