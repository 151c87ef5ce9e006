----------------------------- MODULE Grounding -----------------------------
(***************************************************************************)
(* Searching the corpus and assembling the grounding block of a prompt     *)
(* (internal/rag index.go, lexical.go, service.go).                        *)
(*                                                                         *)
(* A collection is [name, kind, embedder, dim, chunks]; a chunk of a       *)
(* collection also carries `vec', the embedder that made its vector and    *)
(* the vector's length, and `subject', the profile that owns a memory.     *)
(* Scores are in hundredths.  Sim and Lex give the similarity of a query   *)
(* to a paragraph by vectors and by words.                                 *)
(***************************************************************************)
EXTENDS Corpus

CONSTANTS Sim, Lex,
          Routes,    \* the collections whose keywords a query contains
          Builtin    \* the collections embedded in the binary

MemoryCollectionName == "memory"
DefaultMaxChunksInjected == 4
DefaultMaxBytesInjected == 8000
DefaultThreshold == 30
DefaultStrictThreshold == 45
MaxSearchResults == 64
MaxWebSectionBytes == 3000

(* The bytes of a hit's rendering around its text, of the truncation mark,    *)
(* and around a memory item.                                                  *)
HitHeader == 60
TruncationMark == 40
MemoryHeader == 50

-----------------------------------------------------------------------------
(* The injection budget: an operator's pin, the defaults for an unknown       *)
(* window, or a fifth of the window at three bytes a token within the caps.   *)
groundingBudget(ctx, pin) ==
    LET b == Min({49152, Max({1200, (ctx \div 5) * 3})})
    IN IF pin > 0 THEN [chunks |-> pin, bytes |-> Max({pin * 2000, DefaultMaxBytesInjected})]
       ELSE IF ctx <= 0 THEN [chunks |-> DefaultMaxChunksInjected, bytes |-> DefaultMaxBytesInjected]
       ELSE [chunks |-> Min({24, Max({1, b \div 2000})}), bytes |-> b]

boundedSearchK(requested, fallback) ==
    Min({MaxSearchResults, IF requested > 0 THEN requested
                           ELSE IF fallback > 0 THEN fallback ELSE DefaultMaxChunksInjected})

-----------------------------------------------------------------------------
isMemoryCollection(c) == c.kind = "memory" \/ c.name = MemoryCollectionName

(* A filter is a sequence of names; the empty one selects every collection.   *)
Selects(filter, c) == filter = <<>> \/ c.name \in ToSet(filter)

HasDocuments(index, filter) ==
    \E c \in index : /\ Selects(filter, c)
                     /\ ~isMemoryCollection(c)
                     /\ c.chunks # <<>>

EmbedderIDs(index) == {c.embedder : c \in {d \in index : ~isMemoryCollection(d) /\ d.embedder # None}}

(* The embedder of a query: the one asked for, that of the first routed       *)
(* collection, the only registered one of the corpus, the only one.           *)
pickEmbedder(index, embedders, id, filter) ==
    LET of(name) == {c.embedder : c \in {d \in index : d.name = name /\ ~isMemoryCollection(d)}} \cap embedders
        routed == SelectSeq(filter, LAMBDA name : of(name) # {})
        corpus == EmbedderIDs(index) \cap embedders
        only(s) == CHOOSE e \in s : TRUE
    IN IF id # None THEN (IF id \in embedders THEN id ELSE None)
       ELSE IF routed # <<>> THEN only(of(Head(routed)))
       ELSE IF Cardinality(corpus) = 1 THEN only(corpus)
       ELSE IF Cardinality(embedders) = 1 THEN only(embedders) ELSE None

-----------------------------------------------------------------------------
Score(table, q, ch) == Max({table[q][ch.body[i].par] : i \in DOMAIN ch.body})

Hit(name, ch, score) == [collection |-> name, chunk |-> ch, score |-> score]

(* Stable by score: a hit comes after the ones before it that score as well.  *)
insertRanked(s, h) == InsertAt(s, 1 + Cardinality({i \in DOMAIN s : s[i].score >= h.score}), h)

Ranked(hits) == FoldLeft(insertRanked, <<>>, hits)

(* A set is taken in some order, the same one every time.                     *)
Listed(S) == FoldSet(LAMBDA x, acc : Append(acc, x), <<>>, S)

(* The sequences f gives, one after the other.                                *)
Concat(f) == FoldSet(LAMBDA c, acc : acc \o f[c], <<>>, DOMAIN f)

(* The elements of a sequence that are in a set.                              *)
Only(s, S) == FoldLeft(LAMBDA acc, x : IF x \in S THEN Append(acc, x) ELSE acc, <<>>, s)

Take(s, k) == SubSeq(s, 1, Min({k, Len(s)}))

Scored(table, q, c) == [i \in DOMAIN c.chunks |-> Hit(c.name, c.chunks[i], Score(table, q, c.chunks[i]))]

(* The best chunks of a collection whose vectors have the query's length.     *)
topKInCollection(c, q, len, cap, threshold) ==
    LET hits == Scored(Sim, q, c)
    IN Take(Ranked(Only(hits, {h \in ToSet(hits) : h.chunk.vec.len = len /\ h.score >= threshold})), cap)

(* Mutant: collections of another embedder are searched too.                  *)
IndexSearchAnySpace(index, q, vec, filter, k, cap, threshold) ==
    LET targets == {c \in index : Selects(filter, c) /\ c.dim = vec.len}
    IN Take(Ranked(Concat([c \in targets |-> topKInCollection(c, q, vec.len, cap, threshold)])), k)

(* Only document collections made by the query's embedder with vectors of its *)
(* length are searched, the memory collection never.                          *)
IndexSearch(index, q, vec, filter, k, cap, threshold) ==
    LET targets == {c \in index : /\ Selects(filter, c)
                                  /\ ~isMemoryCollection(c)
                                  /\ c.embedder = vec.by
                                  /\ c.dim = vec.len}
    IN Take(Ranked(Concat([c \in targets |-> topKInCollection(c, q, vec.len, cap, threshold)])), k)

(* The words of the query against the embedded corpus.                        *)
LexicalSearch(q, filter, k) ==
    LET hits == Concat([c \in {d \in Builtin : Selects(filter, d)} |-> Scored(Lex, q, c)])
    IN Take(Ranked(Only(hits, {h \in ToSet(hits) : h.score > 0})), k)

(* One slot for the same passage found twice: its vector is kept, its score   *)
(* is the chance that either is right.                                        *)
searchResultKey(h) == <<h.collection, h.chunk.heading, h.chunk.body, h.chunk.over>>

clampUnitScore(n) == Max({0, Min({n, 100})})

EitherScore(a, b) == 100 - ((100 - clampUnitScore(a)) * (100 - clampUnitScore(b))) \div 100

mergeHit(s, h) ==
    LET i == SelectInSeq(s, LAMBDA x : searchResultKey(x) = searchResultKey(h))
    IN IF i = 0 THEN Append(s, Hit(h.collection, h.chunk, clampUnitScore(h.score)))
       ELSE LET kept == IF s[i].chunk.vec = None THEN h ELSE s[i]
            IN [s EXCEPT ![i] = Hit(kept.collection, kept.chunk, EitherScore(s[i].score, h.score))]

fuseSearchResults(k, dense, lexical) == Take(Ranked(FoldLeft(mergeHit, <<>>, dense \o lexical)), k)

-----------------------------------------------------------------------------
confidenceBand(docs, mem) ==
    LET top == Max({0} \cup {docs[i].score : i \in DOMAIN docs} \cup {mem[i].score : i \in DOMAIN mem})
    IN IF top >= 50 THEN "high" ELSE IF top >= 35 THEN "medium" ELSE "low"

renderHit(h) == HitHeader + TextLen(h.chunk) + 2

renderMemoryHit(h) == MemoryHeader + h.row.size

(* A fragment cut to the budget with a mark; nothing if the mark fills it.    *)
trimFragment(size, budget) == IF budget <= TruncationMark THEN 0 ELSE budget

(* Mutant: a fragment that is too long is left out instead of cut.            *)
docSectionWhole(hits, budget) ==
    LET add(s, h) == IF s.done \/ s.n >= budget.chunks \/ s.left < renderHit(h)
                     THEN [s EXCEPT !.done = TRUE]
                     ELSE [s EXCEPT !.n = @ + 1, !.left = @ - renderHit(h), !.parts = Append(@, renderHit(h))]
    IN FoldLeft(add, [n |-> 0, left |-> budget.bytes, seen |-> <<>>, parts |-> <<>>, done |-> FALSE], hits)

(* A fragment is added while there is room, at most two of a section; the     *)
(* first is cut rather than dropped.                                          *)
SectionOf(h) == <<h.chunk.source, h.chunk.heading>>

addFragment(s, h, chunks) ==
    LET size == renderHit(h)
        fits == s.left >= size
        part == IF fits THEN size ELSE trimFragment(size, s.left)
    IN IF s.done \/ s.n >= chunks THEN [s EXCEPT !.done = TRUE]
       ELSE IF Cardinality({i \in DOMAIN s.seen : s.seen[i] = SectionOf(h)}) >= 2 THEN s
       ELSE IF ~fits /\ (s.n > 0 \/ s.left <= 0) THEN [s EXCEPT !.done = TRUE]
       ELSE [s EXCEPT !.n = @ + 1, !.seen = Append(@, SectionOf(h)),
                      !.left = @ - part, !.parts = Append(@, part)]

(* The documentation of a block: as many ranked fragments as fit.             *)
docSection(hits, budget) ==
    FoldLeft(LAMBDA s, h : addFragment(s, h, budget.chunks),
             [n |-> 0, left |-> budget.bytes, seen |-> <<>>, parts |-> <<>>, done |-> FALSE], hits)

(* Fragments of the given sizes while they fit: the bytes they take.          *)
fitFragment(s, n) ==
    IF s.done \/ s.left < n THEN [s EXCEPT !.done = TRUE] ELSE [s EXCEPT !.left = @ - n, !.used = @ + n]

Fitting(sizes, left) == FoldLeft(fitFragment, [left |-> left, used |-> 0, done |-> FALSE], sizes).used

(* The block: documentation, then memory, then library documentation of       *)
(* c7 bytes, then the web's fragments, each from what the ones before left.   *)
Assemble(docs, mem, c7, webHits, budget) ==
    LET doc == docSection(docs, budget)
        m == Fitting([i \in DOMAIN mem |-> renderMemoryHit(mem[i])], doc.left)
        lib == IF doc.left - m > 0 /\ c7 <= doc.left - m THEN c7 ELSE 0
        left == doc.left - m - lib
        w == IF left > 0 THEN Fitting(webHits, Min({left, budget.bytes, MaxWebSectionBytes})) ELSE 0
    IN [band |-> confidenceBand(docs, mem), parts |-> doc.parts, hits |-> Len(docs),
        memory |-> m, library |-> lib, web |-> w, budget |-> budget]
=============================================================================
