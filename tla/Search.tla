------------------------------- MODULE Search -------------------------------
(***************************************************************************)
(* Searching the memories (store/sqlite.go, store/entity_search.go): by    *)
(* the trigram index, by LIKE with weighted keywords, by both with their   *)
(* ranks fused, and with an expansion by frequent terms; and the search of *)
(* the agent library, which scores every memory.                           *)
(*                                                                         *)
(* A text is the set of the patterns it contains: keywords, and the        *)
(* shorter prefixes of those in Chinese characters.  The index has the     *)
(* texts of the memories (MemoryStore says when).  No text has a quotation *)
(* mark.  Scores are in thousandths.                                       *)
(***************************************************************************)
EXTENDS Integers, Sequences, FiniteSets, SequencesExt, FiniteSetsExt

CONSTANTS
    Pattern,
    Long,         \* patterns of three characters or more, which the index can look up
    PrefixesOf,   \* pattern -> its prefixes of two characters or more, longest first, if it
                  \*   has Chinese characters; none otherwise
    Term,         \* patterns extractFrequentTerms may take from a text: <<t1, t2, ...>>
    Quoted,       \* a keyword in quotation marks: a pattern without prefixes, in no text
    Idf,          \* Idf[n][c] is the larger of log(n / c) and 0.1
    Shape,        \* what a memory may be: [has, often, phase, source, superseded, project,
                  \*   tags, reads]
    Query,        \* sequences of keywords, as splitQueryKeywords makes them
    Filters,      \* [phase, project, tags, exclude]: "" or {} where there is none
    Strategy,     \* search.strategy of the configuration
    MaxMemories   \* bound

Phases == {"organized", "processed", "inbox"}

\* A memory is of one phase, has each of its patterns so often, and was read so often.  A text
\* that has a keyword has its prefixes.  No text has a quotation mark.  A rarer pattern weighs
\* more; beyond ten memories the commonest would weigh the same, and the scores below would be
\* too coarse.
ASSUME SearchAssumption ==
    /\ MaxMemories \in 0 .. 10
    /\ \A m \in Shape :
         m.phase \in Phases /\ m.often \in [m.has -> Nat \ {0}] /\ m.reads \in Nat
    /\ PrefixesOf \in [Pattern -> Seq(Pattern)]
    /\ Term \in Seq(Pattern) /\ Query \subseteq Seq(Pattern)
    /\ \A m \in Shape, k \in Pattern : k \in m.has =>
         \A n \in DOMAIN PrefixesOf[k] : PrefixesOf[k][n] \in m.has
    /\ Quoted \in Pattern /\ PrefixesOf[Quoted] = <<>> /\ \A m \in Shape : Quoted \notin m.has
    /\ \A n \in 1 .. MaxMemories : \A c \in 1 .. n :
         Idf[n][c] \in Nat \ {0} /\ \A d \in 1 .. n : c < d => Idf[n][c] > Idf[n][d]
    /\ Strategy \subseteq {"idf", "bm25", "hybrid"}

VARIABLES
    memories,  \* the table memories, in order of creation
    search     \* the last search: what was asked, and the indices it found in their order

searchVars == <<memories, search>>

NoSearch == [by |-> "none"]

SearchInit == memories = <<>> /\ search = NoSearch

Ids == DOMAIN memories
Has(i, p) == p \in memories[i].has
Count(p) == Cardinality({i \in Ids : Has(i, p)})

\* The elements of a set in an order, which names those ahead of each.
InOrder(is, ahead) ==
    [n \in 1 .. Cardinality(is) |-> CHOOSE i \in is : Cardinality(ahead[i]) = n - 1]

\* By score; of equal ones the newest first, or the oldest.
Ahead(is, score, newest) ==
    [i \in is |->
       {j \in is : \/ score[j] > score[i]
                   \/ score[j] = score[i] /\ IF newest THEN j > i ELSE j < i}]

Sorted(is, score, newest) == InOrder(is, Ahead(is, score, newest))

NewestFirst(is) == Sorted(is, [i \in is |-> 0], TRUE)
OldestFirst(is) == Sorted(is, [i \in is |-> 0], FALSE)

\* What a list has at some of its places.
Only(list, places) ==
    LET order == OldestFirst(places) IN [n \in DOMAIN order |-> list[order[n]]]

\* filterSearch
HasTags(i, f) == f.tags \subseteq memories[i].tags
filterSearch(is, f) == {i \in is : HasTags(i, f)}

-----------------------------------------------------------------------------
(* SearchLike *)

Weight(p) == IF Count(p) = 0 THEN 0 ELSE Idf[Len(memories)][Count(p)]

\* The longest prefix some memory has, or the keyword itself.
Fallback(k) ==
    LET known == {n \in DOMAIN PrefixesOf[k] : Count(PrefixesOf[k][n]) > 0}
    IN  IF known = {} THEN k ELSE PrefixesOf[k][Min(known)]

\* Mutant: without the keyword itself the prefix is not looked for.
KeywordScoreOnly(i, k) == IF Has(i, k) THEN Weight(k) ELSE 0

KeywordScore(i, k) ==
    IF Has(i, k) THEN Weight(k) ELSE IF Has(i, Fallback(k)) THEN Weight(Fallback(k)) ELSE 0

\* The first keyword counts twice.
Score(i, query) ==
    LET upto[n \in 0 .. Len(query)] ==
          IF n = 0 THEN 0
          ELSE upto[n - 1] + (IF n = 1 THEN 2 ELSE 1) * KeywordScore(i, query[n])
    IN  upto[Len(query)]

\* A stable sort of the newest first.
Ranked(is, query) == Sorted(is, [i \in is |-> Score(i, query)], TRUE)

\* Of the filters phase, sources and tags are looked at, the project is not.
FoundLike(query, f) ==
    LET candidates == {i \in Ids :
          /\ \E n \in DOMAIN query : Has(i, query[n]) \/ Has(i, Fallback(query[n]))
          /\ f.phase # "" => memories[i].phase = f.phase
          /\ memories[i].source \notin f.exclude}
    IN  filterSearch({i \in candidates : Score(i, query) > 0}, f)

SearchLike(query, f) == Ranked(FoundLike(query, f), query)

-----------------------------------------------------------------------------
(* Search *)

Matches(query, f) ==
    {i \in Ids :
       /\ \E n \in DOMAIN query : Has(i, query[n])
       /\ f.phase # "" => memories[i].phase = f.phase
       /\ f.project # "" => memories[i].project = f.project}

\* The MATCH expression puts every keyword in quotation marks.
InMatchSyntax(query) == [n \in DOMAIN query |-> Quoted]

\* Of equal scores, what comes in no order that the code fixes: two of the orders are taken.
AnyOrder(is, score) == {Sorted(is, score, newest) : newest \in BOOLEAN}

\* What searchFTS may return.  The order by rank is that of a subquery, and binds nobody.
\* Without a match, SearchLike is given the MATCH expression.
searchFTS(query, f, ranked) ==
    LET hits == Matches(query, f)
        kept == filterSearch(hits, f)
    IN  IF hits = {} THEN {SearchLike(InMatchSyntax(query), f)}
        ELSE IF ranked THEN AnyOrder(kept, [i \in kept |-> 0])
        ELSE {NewestFirst(kept)}

\* 1 / (60 + rank), times a common multiple for the ranks up to 4.
RankScore(rank) == (61 * 62 * 63 * 64) \div (60 + rank)

RankIn(list, i) ==
    IF i \in ToSet(list) THEN RankScore(CHOOSE n \in DOMAIN list : list[n] = i) ELSE 0

FusedScore(a, b, i) == RankIn(a, i) + RankIn(b, i)

\* Equal scores come in the order of a map.
Fusions(a, b) ==
    LET all == ToSet(a) \cup ToSet(b) IN AnyOrder(all, [i \in all |-> FusedScore(a, b, i)])

searchHybrid(query, f) ==
    UNION {Fusions(fts, SearchLike(query, f)) : fts \in searchFTS(query, f, TRUE)}

\* What Search may return.  A keyword that the index cannot look up keeps all from it.
SearchResults(query, f, strategy) ==
    IF ~(ToSet(query) \subseteq Long) THEN {SearchLike(query, f)}
    ELSE IF strategy = "hybrid" THEN searchHybrid(query, f)
    ELSE searchFTS(query, f, strategy = "bm25")

-----------------------------------------------------------------------------
(* SearchWithExpansion *)

\* Terms of half the memories and of three at least; of the most frequent, the five that are
\* taken are all there are here.
frequentTerms(found) ==
    LET Freq(n) == Cardinality({i \in ToSet(found) : Has(i, Term[n])})
        frequent == {n \in DOMAIN Term : Freq(n) >= Max({3, Len(found) \div 2})}
        order == Sorted(frequent, [n \in frequent |-> Freq(n)], FALSE)
    IN  [n \in DOMAIN order |-> Term[order[n]]]

Superseded(i) == memories[i].superseded

\* sortBySupersedeOnly, a stable sort
CurrentFirst(is) ==
    LET current == [n \in DOMAIN is |-> IF Superseded(is[n]) THEN 0 ELSE 1]
        order == Sorted(DOMAIN is, current, FALSE)
    IN  [n \in DOMAIN is |-> is[order[n]]]

\* Without terms to expand by, the order is that of creation.
SearchWithExpansion(query, f) ==
    LET first == SearchLike(query, f)
        terms == frequentTerms(first)
    IN  IF terms = <<>> THEN NewestFirst(ToSet(first))
        ELSE CurrentFirst(first \o Ranked(FoundLike(terms, f) \ ToSet(first), terms))

-----------------------------------------------------------------------------
(* memory_smart_search of the agent library *)

\* What recency multiplies a score by, times 2520: each memory is a week older than the next.
Recency(i) == 2520 + 2520 \div (1 + Len(memories) - i)

\* Tokens that the text has so often.
Repeated(i, query, times) == {t \in ToSet(query) : Has(i, t) /\ memories[i].often[t] >= times}

\* What the tokens are worth, in halves: one point each, half a point more from two times on,
\* half more again from three, and one more from five; and one more for a tag.
Worth(i, query) ==
    LET Told(times) == Cardinality(Repeated(i, query, times))
    IN  2 * Told(1) + Told(2) + Told(3) + 2 * Told(5)
        + 2 * Cardinality(Repeated(i, query, 1) \cap memories[i].tags)

\* What having been read multiplies by, in tenths: twofold at most.
Readership(i) == 10 + Min({memories[i].reads, 10})

SmartScore(i, query) == Recency(i) * Readership(i) * Worth(i, query)

\* Every memory of the list is scored; the ten that are returned are all there are here.
SmartSearch(query, f) ==
    LET listed == {i \in Ids : f.phase \in {"", memories[i].phase} /\ HasTags(i, f)}
        found == {i \in listed : SmartScore(i, query) > 0}
    IN  AnyOrder(found, [i \in found |-> SmartScore(i, query)])

-----------------------------------------------------------------------------

Insert(m) ==
    /\ Len(memories) < MaxMemories
    /\ memories' = Append(memories, m)
    /\ search' = NoSearch

Find(by, query, f, found) ==
    /\ search = NoSearch
    /\ search' = [by |-> by, query |-> query, filters |-> f, found |-> found]
    /\ UNCHANGED memories

SearchNext ==
    \/ \E m \in Shape : Insert(m)
    \/ \E q \in Query, f \in Filters :
         \/ Find("like", q, f, SearchLike(q, f))
         \/ \E s \in Strategy : \E found \in SearchResults(q, f, s) : Find(s, q, f, found)
         \/ Find("expansion", q, f, SearchWithExpansion(q, f))
         \/ \E found \in SmartSearch(q, f) : Find("smart", q, f, found)

SearchSpec == SearchInit /\ [][SearchNext]_searchVars

-----------------------------------------------------------------------------
(* Properties *)

SearchTypeOK ==
    /\ Len(memories) <= MaxMemories /\ ToSet(memories) \subseteq Shape
    /\ search # NoSearch =>
         ToSet(search.found) \subseteq Ids /\ IsInjective(search.found)

\* What a search may not miss, whatever the strategy and whatever path it takes: the
\* memories that pass the filters and have a keyword; and, where SearchLike is asked, "the
\* prefix fallback below is exactly what recovers the match" (sqlite.go:953), those that
\* have but the longest known prefix of a keyword.  And what it may not bring: memories of
\* another phase or without the tags, or from a source that SearchLike was to leave out.
Finds(by, q, f, found) ==
    /\ \A i \in Ids :
         /\ \E n \in DOMAIN q :
              Has(i, q[n]) \/ (by \in {"like", "expansion"} /\ Has(i, Fallback(q[n])))
         /\ f.phase \in {"", memories[i].phase} /\ f.project \in {"", memories[i].project}
         /\ HasTags(i, f) /\ memories[i].source \notin f.exclude
         => Contains(found, i)
    /\ \A i \in ToSet(found) :
         /\ f.phase \in {"", memories[i].phase} /\ HasTags(i, f)
         /\ by \in {"like", "expansion"} => memories[i].source \notin f.exclude

\* The order: by LIKE, a memory that has all another has of what was asked for, and more or
\* else is newer, comes before it (up to ten memories, every rarer pattern weighs more);
\* fused, one that both searches found comes before one that only one found (in lists of up to
\* 61, as 2 / (60 + 61) > 1 / 61); scored, one that has all another has, as often, tags as well,
\* was read as often and is newer comes before it; expanded, "superseded
\* memories are pushed to the back" (entity_search.go:19), if there were terms to expand by.
Ranks(by, q, f, found) ==
    LET asked == ToSet(q) \cup {Fallback(q[n]) : n \in DOMAIN q}
        Told(i) == memories[i].has \cap asked
        Tagged(i) == memories[i].tags \cap asked
        AsOften(i, j) ==
          /\ \A t \in Told(j) : memories[i].often[t] >= memories[j].often[t]
          /\ memories[i].reads >= memories[j].reads
        both == Matches(q, f) \cap ToSet(SearchLike(q, f))
        expanded == frequentTerms(SearchLike(q, f)) # <<>>
        Leads(i, j) ==
          CASE by = "like" -> Told(j) \subseteq Told(i) /\ (i > j \/ Told(i) # Told(j))
            [] by = "smart" ->
                 /\ Told(j) \subseteq Told(i) /\ Tagged(j) \subseteq Tagged(i) /\ AsOften(i, j)
                 /\ i > j
            [] by = "hybrid" -> ToSet(q) \subseteq Long /\ i \in both /\ j \notin both
            [] by = "expansion" -> ~Superseded(i) /\ Superseded(j) /\ expanded
            [] OTHER -> FALSE
    IN  \A m, n \in DOMAIN found : Leads(found[m], found[n]) => m < n

SearchFinds ==
    search # NoSearch =>
      /\ Finds(search.by, search.query, search.filters, search.found)
      /\ Ranks(search.by, search.query, search.filters, search.found)
=============================================================================
