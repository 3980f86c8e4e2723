-------------------------------- MODULE MCStore --------------------------------
(* An index under refreshes, a swap under its readers, and the ranking of     *)
(* small sets of chunks: one of the three per behaviour.                      *)
EXTENDS IndexStore, AtomicSwap, Retrieval

CONSTANTS file1, file2, textX, textY, chunkA, chunkB, chunkC

(* One file with two chunks, and one that holds the same text twice.         *)
MCVersions == {<<textX>>, <<textY, textX>>, <<textX, textX>>}

All == {chunkA, chunkB, chunkC}
Lists(S, n) == {s \in UNION {[1 .. m -> S] : m \in 0 .. n} : Cardinality(Range(s)) = Len(s)}

Question ==
  [ matches |-> <<>>, nearest |-> <<>>, named |-> <<>>, chunks |-> All, bm25 |-> 40,
    quality |-> [e \in All |-> "ast"], labels |-> [e \in All |-> {"main"}], branch |-> "main",
    k |-> 3, expand |-> FALSE, reranker |-> "none",
    refs |-> [e \in All |-> <<>>], definitions |-> <<>> ]

Qualities == [All -> {"ast", "text"}]
Names == {<<>>, <<chunkA>>, <<chunkB>>, <<chunkA, chunkA>>, <<chunkA, chunkB>>}
Merged ==
  { [Question EXCEPT !.matches = m, !.nearest = n, !.named = s, !.quality = q] :
      m \in Lists(All, 3), n \in Lists(All, 3), s \in Names, q \in Qualities }
TextOnly ==
  { [Question EXCEPT !.matches = m, !.named = s, !.quality = q, !.bm25 = 120] :
      m \in Lists(All, 3), s \in Names, q \in Qualities }
Filtered ==
  { [Question EXCEPT !.matches = m, !.nearest = n, !.named = <<chunkC>>, !.labels = l, !.k = k,
                     !.branch = br, !.reranker = r] :
      m \in Lists(All, 2), n \in Lists(All, 2), k \in 1 .. 2, br \in {"", "main"},
      l \in [All -> {{"main"}, {"other"}}] \cup {[e \in All |-> {}]}, r \in {"none", "works"} }
Gone ==
  { [Question EXCEPT !.matches = m, !.nearest = n, !.k = k, !.chunks = {chunkA, chunkB}] :
      m \in Lists({chunkA, chunkB}, 2), n \in Lists(All, 3), k \in 1 .. 2 }
(* chunkA refers to two names, each with some definitions. *)
Expanding ==
  { [Question EXCEPT !.matches = m, !.nearest = n, !.k = k, !.expand = TRUE, !.quality = q,
                     !.refs[chunkA] = r, !.definitions = d] :
      m \in Lists({chunkA, chunkB}, 2), n \in Lists({chunkA}, 1), k \in 1 .. 3,
      q \in {p \in Qualities : p[chunkA] = "ast"},
      r \in {<<"p", "q">>, <<"q", "p", "q">>}, d \in [{"p", "q"} -> Lists({chunkB, chunkC}, 2)] }

MCQuestions == Merged \cup TextOnly \cup Filtered \cup Gone \cup Expanding

(* The store and the swap run while one question is left unanswered.         *)
Unasked == asked = Question /\ ~answered

MCInit == StoreInit /\ SwapInit /\ RetrievalInit
MCNext ==
  \/ Unasked /\ SwapInit /\ StoreNext /\ UNCHANGED <<swapVars, retrievalVars>>
  \/ Unasked /\ StoreInit /\ SwapNext /\ UNCHANGED <<storeVars, retrievalVars>>
  \/ StoreInit /\ SwapInit /\ Answer /\ UNCHANGED <<storeVars, swapVars>>

MCSpec == MCInit /\ [][MCNext]_<<storeVars, swapVars, retrievalVars>>
=============================================================================
