------------------------------- MODULE Corpus -------------------------------
(***************************************************************************)
(* The document corpus of internal/rag: cutting Markdown into chunks       *)
(* (chunker.go), the structural graph over chunks (graph.go, entities.go)  *)
(* and the names the collections may have (store.go).                      *)
(*                                                                         *)
(* A document is a sequence of blocks: a heading line, or a paragraph with *)
(* a name and a length in characters; one blank line, two characters,      *)
(* stands between two paragraphs.  A chunk's body is a sequence of pieces, *)
(* a piece being the characters `from' to `to' of a paragraph, and `over'  *)
(* counts the characters copied from the chunk that follows.               *)
(***************************************************************************)
EXTENDS Integers, Sequences, SequencesExt, FiniteSets, FiniteSetsExt

CONSTANTS None,
          Entities,  \* the entities extractEntities finds in a paragraph
          Tokens     \* the topical tokens of a heading

(* Characters a chunk may hold, and the overlap (DefaultChunkOptions).         *)
MaxChars == 3000
OverlapChars == 300

Heading(level, name) == [level |-> level, name |-> name, len |-> 0]

Paragraph(name, len) == [level |-> 0, name |-> name, len |-> len]

Piece(p, from, to) == [par |-> p.name, from |-> from, to |-> to]

Whole(p) == Piece(p, 1, p.len)

SumLen(pieces) == FoldLeft(LAMBDA n, x : n + x.to - x.from + 1, 0, pieces)

(* The length of pieces joined by blank lines.                                *)
Chars(pieces) == SumLen(pieces) + (IF pieces = <<>> THEN 0 ELSE 2 * (Len(pieces) - 1))

TextLen(c) == Chars(c.body) + (IF c.over = 0 THEN 0 ELSE 2 + c.over)

-----------------------------------------------------------------------------
(* A heading of one to three #'s ends the section before it; a section with   *)
(* no text is dropped together with its heading.  Deeper headings are text.   *)
flushSection(s) ==
    IF s.body = <<>> THEN s.out ELSE Append(s.out, [heading |-> s.heading, body |-> s.body])

addLine(s, b) ==
    IF b.level \in 1..3 THEN [out |-> flushSection(s), heading |-> b.name, body |-> <<>>]
    ELSE [s EXCEPT !.body = Append(@, b)]

splitByHeadings(doc) ==
    flushSection(FoldLeft(addLine, [out |-> <<>>, heading |-> "", body |-> <<>>], doc))

(* A paragraph longer than a chunk is cut at every MaxChars characters.       *)
hardSplit(p) ==
    [i \in 1..((p.len + MaxChars - 1) \div MaxChars) |->
        <<Piece(p, (i - 1) * MaxChars + 1, Min({i * MaxChars, p.len}))>>]

(* Paragraphs are packed while they fit; a paragraph that fits no chunk is    *)
(* cut on its own.                                                           *)
flushChunk(s) == IF s.cur = <<>> THEN s.out ELSE Append(s.out, s.cur)

packParagraph(s, p) ==
    IF Chars(Append(s.cur, Whole(p))) <= MaxChars THEN [s EXCEPT !.cur = Append(@, Whole(p))]
    ELSE IF p.len > MaxChars THEN [out |-> flushChunk(s) \o hardSplit(p), cur |-> <<>>]
    ELSE [out |-> flushChunk(s), cur |-> <<Whole(p)>>]

Packed(pars) == FoldLeft(packParagraph, [out |-> <<>>, cur |-> <<>>], pars)

Unsplit(pars) == [i \in DOMAIN pars |-> Whole(pars[i])]

(* Mutant: the last chunk is not flushed.                                     *)
splitBySizeUnflushed(pars) ==
    IF Chars(Unsplit(pars)) <= MaxChars THEN <<Unsplit(pars)>> ELSE Packed(pars).out

splitBySize(pars) ==
    IF Chars(Unsplit(pars)) <= MaxChars THEN <<Unsplit(pars)>> ELSE flushChunk(Packed(pars))

(* The start of every chunk is copied to the end of the one before it.        *)
applyOverlap(chunks) ==
    [i \in DOMAIN chunks |->
        IF i = Len(chunks) THEN chunks[i]
        ELSE [chunks[i] EXCEPT !.over = Min({OverlapChars, Chars(chunks[i + 1].body)})]]

ChunksOf(source, section) ==
    LET bodies == splitBySize(section.body)
    IN [i \in DOMAIN bodies |->
           [source |-> source, heading |-> section.heading, ordinal |-> i - 1,
            body |-> bodies[i], over |-> 0]]

SplitMarkdown(source, doc) ==
    LET sections == splitByHeadings(doc)
    IN applyOverlap(FlattenSeq([i \in DOMAIN sections |-> ChunksOf(source, sections[i])]))

(* What the chunks of a document must be: short enough, and together every    *)
(* character of its text, in order.                                           *)
addText(s, b) == IF b.level \in 1..3 THEN s ELSE Append(s, Whole(b))

Text(doc) == FoldLeft(addText, <<>>, doc)

(* Pieces of one paragraph that follow each other are one piece.              *)
joinPiece(s, x) ==
    IF s # <<>> /\ Last(s).par = x.par /\ Last(s).to + 1 = x.from
    THEN Append(Front(s), [Last(s) EXCEPT !.to = x.to])
    ELSE Append(s, x)

Joined(pieces) == FoldLeft(joinPiece, <<>>, pieces)

Covers(chunks, doc) ==
    /\ \A i \in DOMAIN chunks : Chars(chunks[i].body) <= MaxChars
    /\ Joined(FlattenSeq([i \in DOMAIN chunks |-> chunks[i].body])) = Text(doc)

-----------------------------------------------------------------------------
(* The graph.  A node is [collection, chunk]: the identity of a chunk is a    *)
(* digest of its content.  Chunks of one source are neighbours when they      *)
(* follow each other by ordinal, siblings under one heading; chunks of any    *)
(* sources are linked by an entity, chunks of two sources by a heading token, *)
(* that few enough chunks share.                                              *)
maxGraphExpand == 5
minEntityChunks == 2
maxEntityChunks == 64
maxTopicChunks == 12

Mentions(ch) == UNION {Entities[ch.body[i].par] : i \in DOMAIN ch.body}

addEntityEdges(nodes) ==
    LET members(e) == {n \in nodes : e \in Mentions(n.chunk)}
        shared == {e \in UNION {Mentions(n.chunk) : n \in nodes} :
                      Cardinality(members(e)) \in minEntityChunks..maxEntityChunks}
    IN UNION {{p \in members(e) \X members(e) : p[1] # p[2]} : e \in shared}

addHeadingTopicEdges(nodes) ==
    LET members(t) == {n \in nodes : t \in Tokens[n.chunk.heading]}
        shared == {t \in UNION {Tokens[n.chunk.heading] : n \in nodes} :
                      Cardinality(members(t)) \in 2..maxTopicChunks}
    IN UNION {{p \in members(t) \X members(t) : p[1].chunk.source # p[2].chunk.source} : t \in shared}

(* The chunks of a source in ascending ordinal; a section starts again at 0.  *)
ByOrdinal(chunks) ==
    LET n == Len(chunks)
    IN FlattenSeq([o \in 1..n |-> SelectSeq(chunks, LAMBDA c : c.ordinal = o - 1)])

structuralEdges(name, chunks) ==
    LET node(c) == [collection |-> name, chunk |-> c]
        edges(src) ==
            LET own == ByOrdinal(SelectSeq(chunks, LAMBDA c : c.source = src))
                near == {p \in (DOMAIN own) \X (DOMAIN own) :
                            \/ p[2] = p[1] + 1
                            \/ p[1] < p[2] /\ own[p[1]].heading = own[p[2]].heading
                               /\ own[p[1]].heading # ""}
            IN UNION {{<<node(own[p[1]]), node(own[p[2]])>>, <<node(own[p[2]]), node(own[p[1]])>>} : p \in near}
    IN UNION {edges(src) : src \in {chunks[i].source : i \in DOMAIN chunks}}

BuildGraph(collections) ==
    LET docs == {c \in collections : c.kind # "memory"}
        nodes == UNION {{[collection |-> c.name, chunk |-> c.chunks[i]] : i \in DOMAIN c.chunks} : c \in docs}
    IN [nodes |-> nodes,
        edges |-> {e \in UNION {structuralEdges(c.name, c.chunks) : c \in docs} : e[1] # e[2]}
                  \cup addEntityEdges(nodes) \cup addHeadingTopicEdges(nodes)]

(* The nodes within one to three hops of the seeds, nearest first; of the     *)
(* last layer that does not fit, any part.                                    *)
Expand(g, seeds, hops) ==
    LET near(s) == {n \in g.nodes : \E m \in s : <<m, n>> \in g.edges}
        layers == [h \in 1..3 |->
                      LET one == seeds \cup near(seeds)
                          two == one \cup near(one)
                      IN CASE h = 1 -> one [] h = 2 -> two [] OTHER -> two \cup near(two)]
        reach == layers[Max({1, Min({hops, 3})})] \ seeds
    IN {s \in SUBSET reach :
           /\ Cardinality(s) = Min({maxGraphExpand, Cardinality(reach)})
           /\ \A h \in 1..2 : (layers[h] \cap reach) \subseteq s \/ s \subseteq layers[h]}
=============================================================================
