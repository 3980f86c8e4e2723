------------------------------ MODULE Arrangements ------------------------------
(* Lists made from positions: what a comprehension with a condition keeps and *)
(* what sorted makes of a list; and lists cut into windows.                   *)
EXTENDS Integers, Sequences, FiniteSets

(* The elements of s at the positions P, each where its place among them is. *)
Arranged(s, P, before) ==
  LET place(i) == 1 + Cardinality({j \in P : <<j, i>> \in before})
  IN  [n \in 1 .. Cardinality(P) |-> s[CHOOSE i \in P : place(i) = n]]

Ascending(S) == {p \in S \X S : p[1] < p[2]}

(* The numbers of S in order, and the elements of s at the positions P.      *)
Ordered(S) == Arranged([x \in S |-> x], S, Ascending(S))
Picked(s, P) == Arranged(s, P, Ascending(P))

(* Windows of a list of n elements: they start one behind the other and none *)
(* starts behind an element that no window before it has.                    *)
IsCutting(windows, n) ==
  /\ windows # <<>> /\ windows[1].from = 1 /\ windows[Len(windows)].to = n
  /\ \A k \in DOMAIN windows :
       windows[k].from \in 1 .. n /\ windows[k].to \in windows[k].from .. n
  /\ \A k \in 2 .. Len(windows) :
       windows[k].from \in windows[k - 1].from + 1 .. windows[k - 1].to + 1
=============================================================================
