-------------------------------- MODULE Retrieval --------------------------------
(* How a query ranks chunks: querier.py, _run_query, _rrf_merge,              *)
(* _filter_by_branch and _graph_expand, over the searches of store.py.        *)
(*                                                                            *)
(* A question is given by what it finds: the chunks the full-text index       *)
(* matches, best first, those nearest to its vector (some of them gone from   *)
(* the index), and those whose name it mentions.  Scores are whole numbers:   *)
(* multiples of 1 / Scale.                                                    *)
EXTENDS Arrangements, SequencesExt, FiniteSetsExt

CONSTANTS
  Questions,    \* the questions asked
  Limit,        \* limit of fts_search and top_k of search_vectors
  ExpandFrom,   \* top results that are expanded
  PerName,      \* _GRAPH_LOOKUP_LIMIT
  MaxExpanded   \* slots of the expansion

(* Matches and names come joined with the chunks, a match with a score above *)
(* zero; what a vector or a definition stands for may be gone.               *)
ASSUME QuestionsAssumption ==
  /\ {Limit, ExpandFrom, PerName, MaxExpanded} \subseteq Nat
  /\ \A q \in Questions :
       LET known == DOMAIN q.quality
       IN  /\ q.chunks \subseteq known
           /\ q.matches \in Seq(q.chunks)
           /\ q.nearest \in Seq(known)
           /\ q.named \in Seq(q.chunks)
           /\ q.quality \in [known -> {"ast", "regex", "text"}]
           /\ q.bm25 \in Nat /\ q.bm25 > Limit
           /\ q.k \in Nat /\ q.expand \in BOOLEAN
           /\ \A c \in known : q.refs[c] \in Seq(DOMAIN q.definitions)
           /\ \A n \in DOMAIN q.definitions : q.definitions[n] \in Seq(known)

VARIABLES
  asked,    \* the question
  answer,   \* its results: chunk, match reasons, score
  answered

retrievalVars == <<asked, answer, answered>>

RrfK == 15
Scale == 16 * 17 * 18 * 19
Share(rank) == Scale \div (RrfK + rank)

Multiplier(quality) ==
  CASE quality = "ast" -> 100 [] quality = "regex" -> 85 [] quality = "text" -> 70
Strength(quality) == CASE quality = "ast" -> 2 [] quality = "regex" -> 1 [] quality = "text" -> 0

Prefix(s, n) == SubSeq(s, 1, IF n < Len(s) THEN n ELSE Len(s))
RankIn(s, e) == CHOOSE k \in DOMAIN s : s[k] = e /\ \A j \in 1 .. k - 1 : s[j] # e

(* What a condition or dict.fromkeys leaves of a list.                       *)
Earlier(s) == {p \in (DOMAIN s) \X (DOMAIN s) : p[1] < p[2]}
Only(s, S) == Arranged(s, {i \in DOMAIN s : s[i] \in S}, Earlier(s))
Distinct(s) == Arranged(s, {i \in DOMAIN s : \A j \in 1 .. i - 1 : s[j] # s[i]}, Earlier(s))

(* sorted(..., reverse=True): stable.                                        *)
Better(s, score) ==
  {p \in (DOMAIN s) \X (DOMAIN s) :
     \/ score[s[p[1]]] > score[s[p[2]]]
     \/ score[s[p[1]]] = score[s[p[2]]] /\ p[1] < p[2]}
Ranked(s, score) == Arranged(s, DOMAIN s, Better(s, score))

-----------------------------------------------------------------------------
(* The searches.  The limit is on the matches; the join with the chunks      *)
(* comes before it for the full text and after it for the vectors, which     *)
(* therefore fetch three times as many.                                      *)
FtsSearch(q) == Prefix(q.matches, Limit)
SearchVectors(q) == Only(Prefix(q.nearest, 3 * Limit), q.chunks)

OfBranch(q, c) == q.branch = "" \/ q.labels[c] = {} \/ q.branch \in q.labels[c]
FilterByBranch(q, found) == Only(found, {c \in ToSet(found) : OfBranch(q, c)})

Found(q) ==
  [ fts |-> FilterByBranch(q, FtsSearch(q)),
    vec |-> FilterByBranch(q, SearchVectors(q)),
    sym |-> FilterByBranch(q, q.named) ]

Candidates(f) == Distinct(f.fts \o f.vec \o f.sym)
Times(s, c) == Cardinality({k \in DOMAIN s : s[k] = c})
RrfShare(s, c) == IF Contains(s, c) THEN Share(RankIn(s, c)) ELSE 0

(* Broken variant: the bonus replaces the score. *)
HybridScoreReplaced(q, f, c) ==
  (IF Contains(f.sym, c) THEN Times(f.sym, c) * Share(1) ELSE RrfShare(f.fts, c) + RrfShare(f.vec, c))
    * Multiplier(q.quality[c])

(* With vectors: _rrf_merge, a bonus for every mention of the name, and the  *)
(* quality of the chunk.                                                     *)
HybridScore(q, f, c) ==
  (RrfShare(f.fts, c) + RrfShare(f.vec, c) + Times(f.sym, c) * Share(1)) * Multiplier(q.quality[c])

(* Without: the better of BM25 and the score of an exact name.               *)
SymbolScore == 100
Bm25(q, f, c) == IF Contains(f.fts, c) THEN q.bm25 - RankIn(f.fts, c) ELSE 0
NameWins(q, f, c) == Contains(f.sym, c) /\ SymbolScore > Bm25(q, f, c)
FtsScore(q, f, c) ==
  (IF NameWins(q, f, c) THEN SymbolScore ELSE Bm25(q, f, c)) * Multiplier(q.quality[c])

Hybrid(f) == f.vec # <<>>
Score(q, f, c) == IF Hybrid(f) THEN HybridScore(q, f, c) ELSE FtsScore(q, f, c)

Reasons(q, f, c) ==
  {r \in {"bm25", "vector", "symbol"} :
     \/ r = "bm25" /\ Contains(f.fts, c)
     \/ r = "vector" /\ Contains(f.vec, c)
     \/ r = "symbol" /\ Contains(f.sym, c) /\ (Hybrid(f) \/ NameWins(q, f, c))}

(* The reranker orders three times as many as are wanted, and drops the      *)
(* rest; when it fails the order stays.                                      *)
Reranks(q, ranked) == q.reranker = "works" /\ ranked # <<>>
Reranked(q, ranked) ==
  IF Reranks(q, ranked) THEN Reverse(Prefix(ranked, 3 * q.k)) ELSE ranked

(* lookup_symbols: the definitions of each name in the order of the names,   *)
(* the strongest of them when there are too many.                            *)
LookupSymbols(q, names) ==
  LET strength == [c \in q.chunks |-> Strength(q.quality[c])]
      Of(n) == LET defs == Only(q.definitions[n], q.chunks)
               IN  IF Len(defs) > PerName THEN Prefix(Ranked(defs, strength), PerName) ELSE defs
      unique == Distinct(names)
  IN  FlattenSeq([k \in DOMAIN unique |-> Of(unique[k])])

(* Broken variant: what is found already is expanded again. *)
GraphExpandAnything(q, f, ranked) ==
  LET top == Prefix(ranked, ExpandFrom)
      names == FlattenSeq([k \in DOMAIN top |-> q.refs[top[k]]])
  IN  Prefix(Distinct(LookupSymbols(q, names)), MaxExpanded)

(* _graph_expand: the definitions of what the top results refer to, whatever *)
(* branch they are of.                                                       *)
GraphExpand(q, f, ranked) ==
  LET top == Prefix(ranked, ExpandFrom)
      names == FlattenSeq([k \in DOMAIN top |-> q.refs[top[k]]])
      fresh == Only(LookupSymbols(q, names), q.chunks \ ToSet(Candidates(f)))
  IN  Prefix(Distinct(fresh), MaxExpanded)

RunQuery(q) ==
  LET f == Found(q)
      merged == Ranked(Candidates(f), [c \in ToSet(Candidates(f)) |-> Score(q, f, c)])
      ranked == Reranked(q, merged)
      first == Prefix(ranked, q.k)
      more == Prefix(IF q.expand THEN GraphExpand(q, f, ranked) ELSE <<>>, q.k - Len(first))
      also == IF Reranks(q, merged) THEN {"reranked"} ELSE {}
  IN  [k \in DOMAIN first |->
         [ chunk |-> first[k], reasons |-> Reasons(q, f, first[k]) \cup also ]]
        \o [k \in DOMAIN more |-> [chunk |-> more[k], reasons |-> {"graph_expansion"}]]

RetrievalInit == asked \in Questions /\ answer = <<>> /\ answered = FALSE

Answer ==
  /\ ~answered /\ answered' = TRUE
  /\ answer' = RunQuery(asked)
  /\ UNCHANGED asked

RetrievalSpec == RetrievalInit /\ [][Answer]_retrievalVars

-----------------------------------------------------------------------------
AnswerChunks == {answer[k].chunk : k \in DOMAIN answer}
Expanded == {k \in DOMAIN answer : answer[k].reasons = {"graph_expansion"}}

(* At most top_k results, none of them twice, none of a chunk that is gone,  *)
(* and those of the graph only in the places nothing else wants              *)
(* ("Expansion fills remaining slots up to k; never exceeds k").  What is     *)
(* found is of the branch asked for, or of an index without branches; what   *)
(* the graph adds is not filtered.                                           *)
AnswerBounded ==
  answered =>
    /\ \A k \in DOMAIN answer \ Expanded : OfBranch(asked, answer[k].chunk)
    /\ Len(answer) <= asked.k /\ Cardinality(AnswerChunks) = Len(answer) /\ AnswerChunks \subseteq asked.chunks
    /\ \A k \in Expanded : \A j \in k .. Len(answer) : j \in Expanded
    /\ Expanded # {} => \A c \in ToSet(Candidates(Found(asked))) :
                          c \in AnswerChunks \/ asked.reranker = "works"

(* a is found at least as well as b by every search, and is of a quality at  *)
(* least as good.                                                            *)
Precedes(s, a, b) == Contains(s, b) => (Contains(s, a) /\ RankIn(s, a) < RankIn(s, b))
Dominates(f, a, b) ==
  /\ Precedes(f.fts, a, b) /\ Precedes(f.vec, a, b) /\ Times(f.sym, a) >= Times(f.sym, b)
  /\ Strength(asked.quality[a]) >= Strength(asked.quality[b])
  /\ Contains(f.fts \o f.vec, b)

(* Merging ranks, bonus and quality never turns around what all of them      *)
(* agree on: a chunk that is better everywhere is not ranked behind, with    *)
(* vectors and without, unless the reranker says so.                         *)
AgreementKept ==
  (answered /\ asked.reranker # "works") =>
    LET f == Found(asked)
    IN  \A j \in DOMAIN answer \ Expanded : \A a \in ToSet(Candidates(f)) :
          Dominates(f, a, answer[j].chunk) =>
            \E i \in 1 .. j - 1 : answer[i].chunk = a
=============================================================================
