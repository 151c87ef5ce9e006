---------------------------- MODULE MCRetrieval ----------------------------
(***************************************************************************)
(* Instances of Retrieval: two profiles, two embedders (one that announces *)
(* its dimension, one that learns it and may change it), a legacy memory   *)
(* file with a memory of each profile, and source trees with a section     *)
(* packed into one chunk and a half, a paragraph too long for a chunk and  *)
(* a heading without text.                                                 *)
(***************************************************************************)
EXTENDS Retrieval

MCProfiles == {"ada", "bob"}
MCEmbedders == {"e1", "e2"}
MCDeclared == [e1 |-> 2, e2 |-> 0]
MCLengths == [e1 |-> {2}, e2 |-> {2, 3}]

MCManual == <<[source |-> "a.md",
               doc |-> <<Heading(1, "intro"), Paragraph("p1", 1200), Paragraph("p2", 2500), Heading(2, "empty"),
                         Heading(2, "usage"), Paragraph("p3", 3700)>>]>>
MCTrees == {<<>>, MCManual}

MCEntities == [p1 |-> {"sql"}, p2 |-> {}, p3 |-> {}, p4 |-> {"sql"}, l1 |-> {"sql"}, l2 |-> {}]
MCTokens == [intro |-> {}, empty |-> {}, usage |-> {}] @@ ("" :> {}) @@ ("fact" :> {})

Chunk(source, heading, par, len, vec, subject) ==
    [source |-> source, heading |-> heading, ordinal |-> 0, body |-> <<Piece([name |-> par], 1, len)>>,
     over |-> 0, vec |-> vec, subject |-> subject]

Collection(name, kind, e, dim, chunks) ==
    [name |-> name, kind |-> kind, embedder |-> e, dim |-> dim, chunks |-> chunks]

Cut(heading, ordinal, par, from, to, over, vec) ==
    [source |-> "a.md", heading |-> heading, ordinal |-> ordinal, body |-> <<Piece([name |-> par], from, to)>>,
     over |-> over, vec |-> vec, subject |-> None]

(* The chunks of the manual.                                                  *)
Manual(vec) == <<Cut("intro", 0, "p1", 1, 1200, 300, vec), Cut("intro", 1, "p2", 1, 2500, 300, vec),
                 Cut("usage", 0, "p3", 1, 3000, 300, vec), Cut("usage", 1, "p3", 3001, 3700, 0, vec)>>

(* The binary carries a passage that is also ingested into c1.                *)
MCBuiltin == {Collection("c1", "", None, 0, <<Manual(None)[1],
                                             Chunk("b.md", "", "p4", 400, None, None)>>)}

MCSim == [q1 |-> [p1 |-> 60, p2 |-> 40, p3 |-> 35, p4 |-> 32, l1 |-> 50, l2 |-> 50, n1 |-> 70, n2 |-> 20],
          q2 |-> [p1 |-> 40, p2 |-> 40, p3 |-> 50, p4 |-> 60, l1 |-> 20, l2 |-> 40, n1 |-> 40, n2 |-> 70]]
MCLex == [q1 |-> [p1 |-> 40, p2 |-> 0, p3 |-> 0, p4 |-> 55, l1 |-> 0, l2 |-> 0],
          q2 |-> [p1 |-> 0, p2 |-> 0, p3 |-> 0, p4 |-> 0, l1 |-> 0, l2 |-> 0]]
MCRoutes == [q1 |-> <<"c1", "c2">>, q2 |-> <<>>]

MCWrites == {[kind |-> "project_fact", instruction |-> FALSE, size |-> 90, importance |-> 0],
             [kind |-> "project_fact", instruction |-> TRUE, size |-> 90, importance |-> 0]}
MCNewIds == <<"n1", "n2", "n3">>

OfE1 == [by |-> "e1", len |-> 2]
Legacy == Collection("memory", "", "e1", 2,
                     <<Chunk("user-input", "fact", "l1", 80, OfE1, "ada"),
                       Chunk("user-input", "fact", "l2", 80, OfE1, "bob")>>)
Ingested(name, e) == Collection(name, "docs", e, 2, Manual([by |-> e, len |-> 2]))
MCDisks == {[c1 |-> Ingested("c1", "e1"), c2 |-> None, memory |-> Legacy],
            [c1 |-> Ingested("c1", "e1"), c2 |-> Ingested("c2", "e2"), memory |-> None]}

MCFlags == {[embedders |-> {"e1", "e2"}, memory |-> "e1", ctx |-> 2048, pin |-> 0],
            [embedders |-> {"e1", "e2"}, memory |-> "e2", ctx |-> 0, pin |-> 0]}
SlotSymmetry == Permutations(Slots)

MCExternals == {[library |-> 0, web |-> <<>>], [library |-> 900, web |-> <<700, 700>>]}
=============================================================================
