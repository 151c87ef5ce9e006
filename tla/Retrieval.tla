----------------------------- MODULE Retrieval -----------------------------
(***************************************************************************)
(* The retrieval service of internal/rag and internal/convomem as the      *)
(* programs run it: one server that answers requests, and `--ingest'       *)
(* commands, other processes that replace collection files.  Both open the *)
(* same directory and both import a legacy memory file into the memory     *)
(* database when they start.                                               *)
(*                                                                         *)
(* Between two steps a process waits for an embedding backend or for the   *)
(* database.  The index a server searches is the one it loaded at start.   *)
(***************************************************************************)
EXTENDS Grounding

CONSTANTS Profiles, Queries, Writes, Slots, Ingesters,
          DocNames,      \* the collections an operator ingests
          Trees,         \* source trees: sequences of [source, doc]
          Flags,         \* how the server may be started
          Embedders,
          IngestBy,      \* the embedders ingest commands are given
          Declared,      \* the dimension an embedder announces, 0 if it learns it
          Lengths,       \* the lengths its vectors may have
          Disks,         \* collection files at the beginning
          Externals,     \* what Context7 and the web may answer, in bytes
          NewIds,        \* ids of the memories written, in order
          MaxStarts, MaxIngests, MaxRequests

(* The embedded corpus: documents without vectors.                            *)
ASSUME BuiltinAssumption ==
    /\ IsFiniteSet(Builtin)
    /\ \A c \in Builtin :
          /\ c.chunks \in Seq(ToSet(c.chunks))
          /\ \A ch \in ToSet(c.chunks) : ch.vec = None /\ ch.subject = None /\ TextLen(ch) \in Nat

(* Source trees are sequences of files with different paths, files sequences  *)
(* of blocks; a block of text has some.                                       *)
ASSUME TreesAssumption ==
    \A tree \in Trees :
        /\ tree \in Seq(ToSet(tree))
        /\ \A i, j \in DOMAIN tree : tree[i].source = tree[j].source => i = j
        /\ \A f \in ToSet(tree) :
              /\ f.doc \in Seq(ToSet(f.doc))
              /\ \A b \in ToSet(f.doc) : b.len \in Nat /\ (b.level \notin 1..3 => b.len > 0)

(* Embedders make vectors of a positive length; no value stands for nothing.  *)
ASSUME EmbedderAssumption ==
    \A e \in Embedders :
        /\ Lengths[e] \subseteq Nat \ {0}
        /\ \A n \in Lengths[e] : None # [id |-> e, dim |-> n]

ASSUME FlagsAssumption ==
    \A f \in Flags :
        /\ f = [embedders |-> f.embedders, memory |-> f.memory, ctx |-> f.ctx, pin |-> f.pin]
        /\ f.embedders \subseteq Embedders /\ f.ctx \in Int /\ f.pin \in Int

ASSUME InputAssumption ==
    /\ \A w \in Writes : w.size \in Nat
    /\ \A x \in Externals : x.library \in Nat /\ x.web \in Seq(Nat)

ASSUME NameAssumption == MemoryCollectionName \notin DocNames /\ "server" \notin Ingesters /\ None \notin Slots

(* A collection file as the programs write it: only the memory file holds     *)
(* memories, and their vectors are of its embedder and dimension.             *)
WellFormed(name, f) ==
    /\ f = [name |-> name, kind |-> f.kind, embedder |-> f.embedder, dim |-> f.dim, chunks |-> f.chunks]
    /\ f.chunks \in Seq(ToSet(f.chunks))
    /\ \A c \in ToSet(f.chunks) :
          /\ TextLen(c) \in Nat
          /\ c.vec = None \/ c.vec.by = f.embedder
          /\ \/ c.subject = None
             \/ /\ f.kind = "memory" \/ (f.kind = "" /\ name = MemoryCollectionName)
                /\ c.vec = [by |-> f.embedder, len |-> f.dim]

(* The chunks of a source tree: the whole text of each of its files.          *)
addFrom(src, s, c) == IF c.source = src THEN Append(s, c) ELSE s

FromSource(chunks, src) == FoldLeft(LAMBDA s, c : addFrom(src, s, c), <<>>, chunks)

Snapshot(chunks, tree) ==
    /\ {c.source : c \in ToSet(chunks)} \subseteq {f.source : f \in ToSet(tree)}
    /\ \A f \in ToSet(tree) : Covers(FromSource(chunks, f.source), f.doc)

ASSUME DisksAssumption ==
    \A d \in Disks :
        /\ IsFiniteSet(DOMAIN d) /\ DocNames \cup {MemoryCollectionName} \subseteq DOMAIN d
        /\ d = [n \in DOMAIN d |-> d[n]]
        /\ \A n \in DOMAIN d : d[n] # None => WellFormed(n, d[n])
        /\ \A n \in DocNames : d[n] # None => \E tree \in Trees : Snapshot(d[n].chunks, tree)
        /\ d[MemoryCollectionName] # None =>
              None # [id |-> d[MemoryCollectionName].embedder, dim |-> d[MemoryCollectionName].dim]

VARIABLES disk,       \* name -> collection file, or None
          rows,       \* the memory table
          meta,       \* the pinned embedder and dimension, or None
          turns,      \* the conversation table
          proc,       \* process -> where it is
          srv,        \* what the running server holds in memory
          ing,        \* ingest command -> what it is ingesting
          req,        \* slot -> the request in it
          mutex,      \* memoryMu: the slot that holds it, or None
          resp,       \* the answer on its way to a caller, or None
          starts, ingests, requests

files == <<disk>>
memory == <<rows, meta>>
bounds == <<starts, ingests, requests>>
vars == <<disk, rows, meta, turns, proc, srv, ing, req, mutex, resp, starts, ingests, requests>>

Server == "server"
Procs == {Server} \cup Ingesters

Idle == [pc |-> "idle"]

Init ==
    /\ disk \in Disks
    /\ rows = {} /\ meta = None /\ turns = {}
    /\ proc = [p \in Procs |-> [pc |-> "off", mig |-> <<>>]]
    /\ srv = None
    /\ ing = [i \in Ingesters |-> None]
    /\ req = [r \in Slots |-> Idle]
    /\ mutex = None /\ resp = None /\ starts = 0 /\ ingests = 0 /\ requests = 0

-----------------------------------------------------------------------------
(* Collection files.                                                         *)

(* A file without a kind is memory if it has memory's name.                   *)
Load(name) ==
    IF disk[name] = None \/ disk[name].kind # "" THEN disk[name]
    ELSE [disk[name] EXCEPT !.kind = IF name = MemoryCollectionName THEN "memory" ELSE "docs"]

LoadAll == {Load(n) : n \in {m \in DOMAIN disk : disk[m] # None}}

(* A temporary file renamed over the old one.                                 *)
Save(c) == disk' = [disk EXCEPT ![c.name] = c]

(* The chunks of a source tree, each with its vector.                         *)
Chunked(tree, e, len) ==
    LET cut(f) == SplitMarkdown(f.source, f.doc)
        chunks == FlattenSeq([i \in DOMAIN tree |-> cut(tree[i])])
    IN [i \in DOMAIN chunks |->
           [source |-> chunks[i].source, heading |-> chunks[i].heading, ordinal |-> chunks[i].ordinal,
            body |-> chunks[i].body, over |-> chunks[i].over,
            vec |-> [by |-> e, len |-> len], subject |-> None]]

-----------------------------------------------------------------------------
(* Starting, importing the legacy memory, stopping.                           *)

Goto(p, pc) == proc' = [proc EXCEPT ![p].pc = pc]

(* The operator's pin of the number of fragments is clamped.                  *)
buildRAG(f) == [f EXCEPT !.pin = Min({@, 64})]

(* Conversation memory has the configured embedder or the only one; none      *)
(* disables it.                                                               *)
pickConvoEmbedder(f) ==
    IF f.memory # None THEN (IF f.memory \in f.embedders THEN f.memory ELSE None)
    ELSE IF Cardinality(f.embedders) = 1 THEN CHOOSE e \in f.embedders : TRUE ELSE None

(* The dimension of some stored turn, 0 if there is none.                     *)
OpenDim == IF turns = {} THEN {0} ELSE {t.len : t \in turns}

ServerStart ==
    /\ proc[Server].pc = "off" /\ starts < MaxStarts
    /\ starts' = starts + 1
    /\ \E f \in Flags, d \in OpenDim :
          srv' = [flags |-> buildRAG(f), index |-> LoadAll, graph |-> None,
                  convo |-> pickConvoEmbedder(f), dim |-> d]
    /\ Goto(Server, "count")
    /\ UNCHANGED <<resp, files, memory, turns, ing, req, mutex, ingests, requests>>

IngestStart(i) ==
    /\ proc[i].pc = "off" /\ ingests < MaxIngests
    /\ ingests' = ingests + 1
    /\ \E e \in IngestBy : ing' = [ing EXCEPT ![i] = [by |-> e]]
    /\ Goto(i, "count")
    /\ UNCHANGED <<resp, files, memory, turns, srv, req, mutex, starts, requests>>

(* Only an empty table is filled, with the chunks that have an owner.         *)
MigrateCount(p) ==
    /\ proc[p].pc = "count"
    /\ LET legacy == Load(MemoryCollectionName)
       IN proc' = [proc EXCEPT ![p] =
              IF rows # {} \/ disk[MemoryCollectionName] = None THEN [pc |-> "ready", mig |-> <<>>]
              ELSE [pc |-> "pin", mig |-> Only(legacy.chunks, {c \in ToSet(legacy.chunks) : c.subject # None})]]
    /\ UNCHANGED <<resp, files, memory, turns, srv, ing, req, mutex, bounds>>

(* SetEmbedder: what is pinned must be what is asked for.                     *)
Agrees(id, len) == meta = None \/ (meta.id = id /\ meta.dim = len)

MigratePin(p) ==
    /\ proc[p].pc = "pin"
    /\ LET legacy == Load(MemoryCollectionName)
       IN IF ~Agrees(legacy.embedder, legacy.dim)
          THEN Goto(p, "ready") /\ UNCHANGED meta
          ELSE Goto(p, "import") /\ meta' = [id |-> legacy.embedder, dim |-> legacy.dim]
    /\ UNCHANGED <<resp, files, rows, turns, srv, ing, req, mutex, bounds>>

Row(id, subject, vec, size, importance) ==
    [id |-> id, subject |-> subject, vec |-> vec, size |-> size, importance |-> importance]

MigratePut(p) ==
    /\ proc[p].pc = "import"
    /\ IF proc[p].mig = <<>>
       THEN Goto(p, "ready") /\ UNCHANGED rows
       ELSE LET c == Head(proc[p].mig)
            IN /\ rows' = {r \in rows : r.id # c.body[1].par}
                          \cup {Row(c.body[1].par, c.subject, c.vec, TextLen(c), 0)}
               /\ proc' = [proc EXCEPT ![p].mig = Tail(@)]
    /\ UNCHANGED <<resp, files, meta, turns, srv, ing, req, mutex, bounds>>

Crash(p) ==
    /\ proc[p].pc # "off"
    /\ proc' = [proc EXCEPT ![p] = [pc |-> "off", mig |-> <<>>]]
    /\ IF p = Server
       THEN srv' = None /\ req' = [r \in Slots |-> Idle] /\ mutex' = None /\ UNCHANGED ing
       ELSE ing' = [ing EXCEPT ![p] = None] /\ UNCHANGED <<srv, req, mutex>>
    /\ UNCHANGED <<resp, files, memory, turns, bounds>>

-----------------------------------------------------------------------------
(* Ingest: read the tree and the file that is there, embed, replace the file. *)

IngestRefuses(i, existing) ==
    existing # None /\ (isMemoryCollection(existing) \/ existing.embedder # ing[i].by)

IngestRead(i) ==
    /\ proc[i].pc = "ready"
    /\ \E name \in DocNames, tree \in Trees :
          LET existing == Load(name)
          IN IF IngestRefuses(i, existing)
             THEN Goto(i, "off") /\ ing' = [ing EXCEPT ![i] = None]
             ELSE /\ Goto(i, "embed")
                  /\ ing' = [ing EXCEPT ![i] = [by |-> ing[i].by, name |-> name, tree |-> tree,
                                                dim |-> IF existing = None THEN 0 ELSE existing.dim]]
    /\ UNCHANGED <<resp, files, memory, turns, srv, req, mutex, bounds>>

(* A known dimension must be that of the file read before the embedding.      *)
Ingest(i) ==
    /\ proc[i].pc = "embed"
    /\ \E len \in Lengths[ing[i].by] :
          LET chunks == Chunked(ing[i].tree, ing[i].by, len)
              learned == IF chunks = <<>> THEN 0 ELSE len
              dim == IF Declared[ing[i].by] # 0 THEN Declared[ing[i].by]
                     ELSE IF learned # 0 THEN learned ELSE ing[i].dim
          IN IF ing[i].dim # 0 /\ dim # 0 /\ ing[i].dim # dim
             THEN UNCHANGED disk
             ELSE Save([name |-> ing[i].name, kind |-> "docs", embedder |-> ing[i].by,
                        dim |-> dim, chunks |-> chunks])
    /\ Goto(i, "off")
    /\ ing' = [ing EXCEPT ![i] = None]
    /\ UNCHANGED <<resp, memory, turns, srv, req, mutex, bounds>>

-----------------------------------------------------------------------------
(* Documents.                                                                *)

Ready == proc[Server].pc = "ready"

(* A request is taken up, within the bound on requests.                      *)
Accept == Ready /\ requests < MaxRequests /\ requests' = requests + 1

Answer(kind, to, docs, mem, by, block) ==
    [kind |-> kind, to |-> to, docs |-> docs, mem |-> mem, by |-> by, block |-> block]

(* Topic routing narrows the vectors searched, an explicit filter also the    *)
(* words.  The query's vector has length len, 0 if the backend fails.         *)
Routed(q, filter) == IF filter # <<>> THEN filter ELSE Routes[q]

QueryEmbedder(q, filter) ==
    IF HasDocuments(srv.index, Routed(q, filter))
    THEN pickEmbedder(srv.index, srv.flags.embedders, None, Routed(q, filter)) ELSE None

VectorLengths(e) == {0} \cup (IF e = None THEN {} ELSE Lengths[e])

Search(q, requested, filter, len) ==
    LET k == boundedSearchK(requested, groundingBudget(0, srv.flags.pin).chunks)
        threshold == IF Routed(q, filter) = <<>> THEN DefaultStrictThreshold ELSE DefaultThreshold
        candidates == Min({2 * k, MaxSearchResults})
        vec == [by |-> QueryEmbedder(q, filter), len |-> len]
        dense == IF len = 0 THEN <<>>
                 ELSE IndexSearch(srv.index, q, vec, Routed(q, filter), candidates, k, threshold)
    IN fuseSearchResults(k, dense, LexicalSearch(q, filter, candidates))

SearchDocs(q, k, filter) ==
    /\ Accept
    /\ \E len \in VectorLengths(QueryEmbedder(q, filter)) :
          resp' = Answer("search", None, Search(q, k, filter, len), <<>>, None, None)
    /\ UNCHANGED <<files, memory, turns, proc, srv, ing, req, mutex, starts, ingests>>

(* Any caller may search, and name any collection.                            *)
handleRAGSearch(q, filter) == SearchDocs(q, 0, filter)

defaultRAGSearchResults == 5

ragSearchExecute(q, filter) == SearchDocs(q, defaultRAGSearchResults, filter)

(* The graph is that of the files at the first call.                          *)
graphIndex == IF srv.graph = None THEN LoadAll ELSE srv.graph

ExpandGraph(g, seeds, hops) ==
    \E found \in Expand(g, seeds, hops) :
        resp' = Answer("graph", None, Listed({Hit(n.collection, n.chunk, 0) : n \in found}), <<>>, None, None)

graphExpandExecute ==
    /\ Accept
    /\ srv' = [srv EXCEPT !.graph = graphIndex]
    /\ \E g \in {BuildGraph(graphIndex \cup Builtin)} :
          \E seed \in g.nodes, hops \in {1, 2} : ExpandGraph(g, {seed}, hops)
    /\ UNCHANGED <<files, memory, turns, proc, ing, req, mutex, starts, ingests>>

-----------------------------------------------------------------------------
(* Profile memory.                                                           *)

(* The pinned embedder, which a configured one must agree with; before there  *)
(* is one, the configured or the only embedder.                               *)
pickAnyEmbedder ==
    LET f == srv.flags
        registered(e) == IF e \in f.embedders THEN e ELSE None
    IN IF meta # None
       THEN IF f.memory # None /\ f.memory # meta.id THEN None ELSE registered(meta.id)
       ELSE IF f.memory # None THEN registered(f.memory)
       ELSE IF Cardinality(f.embedders) = 1 THEN CHOOSE e \in f.embedders : TRUE ELSE None

(* A kind of memory, and no instruction to the model except in a correction.  *)
Storable(w) ==
    /\ w.kind \in {"preference", "project_fact", "decision", "correction"}
    /\ w.instruction => w.kind = "correction"

(* In hundredths.                                                             *)
defaultImportance(kind) ==
    CASE kind = "correction" -> 80 [] kind = "decision" -> 60 [] kind = "preference" -> 50 [] OTHER -> 40

Release(r) == req' = [req EXCEPT ![r] = Idle] /\ mutex' = None

Remember(r, p, w) ==
    /\ Accept /\ req[r] = Idle /\ mutex = None
    /\ Storable(w)
    /\ pickAnyEmbedder # None
    /\ req' = [req EXCEPT ![r] = [pc |-> "embed", to |-> p, w |-> w,
                                  vec |-> [by |-> pickAnyEmbedder, len |-> 0]]]
    /\ mutex' = r
    /\ UNCHANGED <<resp, files, memory, turns, proc, srv, ing, starts, ingests>>

handleRAGRemember(r) == \E p \in Profiles, w \in Writes : Remember(r, p, w)

(* A correction quotes the wrong answer, whatever it says.                    *)
handleRAGCorrection(r) ==
    \E p \in Profiles :
        Remember(r, p, [kind |-> "correction", instruction |-> TRUE, size |-> 150, importance |-> 90])

(* The vector arrives; SetEmbedder looks at what is pinned.                   *)
RememberEmbed(r) ==
    /\ req[r].pc = "embed"
    /\ \E len \in Lengths[req[r].vec.by] :
          IF Agrees(req[r].vec.by, len)
          THEN /\ req' = [req EXCEPT ![r].pc = IF meta = None THEN "pin" ELSE "put", ![r].vec.len = len]
               /\ UNCHANGED mutex
          ELSE Release(r)
    /\ UNCHANGED <<resp, files, memory, turns, proc, srv, ing, bounds>>

RememberPin(r) ==
    /\ req[r].pc = "pin"
    /\ meta' = [id |-> req[r].vec.by, dim |-> req[r].vec.len]
    /\ req' = [req EXCEPT ![r].pc = "put"]
    /\ UNCHANGED <<resp, files, rows, turns, proc, srv, ing, mutex, bounds>>

(* A new row; its id is a digest of the text and of the time.                 *)
RememberPut(r) ==
    /\ req[r].pc = "put"
    /\ LET used == {x.id : x \in rows}
           id == SelectSeq(NewIds, LAMBDA n : n \notin used)[1]
           w == req[r].w
           importance == IF w.importance > 0 THEN w.importance ELSE defaultImportance(w.kind)
       IN rows' = rows \cup {Row(id, req[r].to, req[r].vec, w.size, importance)}
    /\ Release(r)
    /\ UNCHANGED <<resp, files, meta, turns, proc, srv, ing, bounds>>

(* The backend fails or the client goes: what was pinned stays pinned.        *)
RememberFails(r) ==
    /\ req[r].pc \in {"embed", "pin", "put"}
    /\ Release(r)
    /\ UNCHANGED <<resp, files, memory, turns, proc, srv, ing, bounds>>

(* The row of that id and that owner.                                         *)
Forget(p, x) ==
    /\ Accept /\ mutex = None
    /\ x.subject = p
    /\ rows' = rows \ {x}
    /\ UNCHANGED <<resp, files, meta, turns, proc, srv, ing, req, mutex, starts, ingests>>

handleRAGForget(p) == \E x \in rows : Forget(p, x)

(* Mutant: the query forgets the owner.                                       *)
CandidatesAll(p) == rows

Candidates(p) == {x \in rows : x.subject = p}

MemoryHit(x, score) == [row |-> x, score |-> score]

ListMemory(p) == Listed({MemoryHit(x, 0) : x \in Candidates(p)})

handleRAGMemory(p) ==
    /\ Accept
    /\ resp' = Answer("list", p, <<>>, ListMemory(p), None, None)
    /\ UNCHANGED <<files, memory, turns, proc, srv, ing, req, mutex, starts, ingests>>

(* The rows of the query's length that are similar enough, the best k by      *)
(* similarity and importance; what age adds, at most 5, is left out.          *)
Relevant(cands, q, len, k) ==
    LET pool == {x \in cands : x.vec.len = len /\ Sim[q][x.id] >= DefaultThreshold}
    IN Take(Ranked(Listed({MemoryHit(x, Sim[q][x.id] + x.importance \div 10) : x \in pool})), k)

-----------------------------------------------------------------------------
(* The grounding block of a prompt.  The rows of the profile are read before  *)
(* the embedder of the memory query is chosen.                                *)

Augment(r) ==
    /\ Accept /\ req[r] = Idle
    /\ \E p \in Profiles, q \in Queries :
          req' = [req EXCEPT ![r] = [pc |-> "augment", to |-> p, q |-> q, cands |-> Candidates(p)]]
    /\ UNCHANGED <<resp, files, memory, turns, proc, srv, ing, mutex, starts, ingests>>

AugmentAssemble(r) ==
    /\ req[r].pc = "augment"
    /\ LET f == srv.flags
           budget == groundingBudget(f.ctx, f.pin)
           wide == IF f.ctx > 0 /\ f.pin = 0 THEN 24 ELSE budget.chunks
           e == IF req[r].cands = {} THEN None ELSE pickAnyEmbedder
           mem(len) == IF len = 0 THEN <<>>
                       ELSE Relevant(req[r].cands, req[r].q, len, groundingBudget(0, f.pin).chunks)
       IN \E d \in {Search(req[r].q, wide, <<>>, len) : len \in VectorLengths(QueryEmbedder(req[r].q, <<>>))},
             m \in {mem(len) : len \in VectorLengths(e)}, x \in Externals :
             resp' = Answer("prompt", req[r].to, d, m, e, Assemble(d, m, x.library, x.web, budget))
    /\ req' = [req EXCEPT ![r] = Idle]
    /\ UNCHANGED <<files, memory, turns, proc, srv, ing, mutex, bounds>>

-----------------------------------------------------------------------------
(* Conversation memory: the user's message and the answer of a turn.          *)

rememberTurn(r) ==
    /\ Accept /\ req[r] = Idle
    /\ srv.convo # None
    /\ \E p \in Profiles :
          req' = [req EXCEPT ![r] = [pc |-> "turn", to |-> p, left |-> <<"user", "assistant">>]]
    /\ UNCHANGED <<resp, files, memory, turns, proc, srv, ing, mutex, starts, ingests>>

NextRole(r) == req' = [req EXCEPT ![r] = IF Len(req[r].left) = 1 THEN Idle ELSE [req[r] EXCEPT !.left = Tail(req[r].left)]]

(* The first vector fixes the store's dimension, before it is inserted.       *)
TurnDim(len) == IF srv.dim = 0 THEN len ELSE srv.dim

Add(r) ==
    /\ req[r].pc = "turn"
    /\ \E len \in Lengths[srv.convo], inserted \in BOOLEAN :
          /\ srv' = [srv EXCEPT !.dim = TurnDim(len)]
          /\ turns' = IF inserted /\ len = TurnDim(len)
                      THEN turns \cup {[subject |-> req[r].to, role |-> Head(req[r].left),
                                        by |-> srv.convo, len |-> len]}
                      ELSE turns
    /\ NextRole(r)
    /\ UNCHANGED <<resp, files, memory, proc, ing, mutex, bounds>>

AddFails(r) ==
    /\ req[r].pc = "turn"
    /\ NextRole(r)
    /\ UNCHANGED <<resp, files, memory, turns, proc, srv, ing, mutex, bounds>>

(* The profile's turns of the store's dimension; which three of them are      *)
(* similar enough is left out.                                                *)
Recall(p) == Listed({MemoryHit(t, 0) : t \in {u \in turns : u.subject = p /\ u.len = srv.dim}})

(* A query vector of another dimension recalls nothing.                       *)
recallConvo(p) ==
    /\ Accept
    /\ srv.convo # None /\ srv.dim \in Lengths[srv.convo]
    /\ resp' = Answer("recall", p, <<>>, Recall(p), None, None)
    /\ UNCHANGED <<files, memory, turns, proc, srv, ing, req, mutex, starts, ingests>>

-----------------------------------------------------------------------------
Deliver ==
    /\ resp # None
    /\ resp' = None
    /\ UNCHANGED <<files, memory, turns, proc, srv, ing, req, mutex, bounds>>

Step ==
    \/ ServerStart
    \/ \E p \in Procs : MigrateCount(p) \/ MigratePin(p) \/ MigratePut(p) \/ Crash(p)
    \/ \E i \in Ingesters : IngestStart(i) \/ IngestRead(i) \/ Ingest(i)
    \/ \E q \in Queries, f \in {<<>>, <<MemoryCollectionName>>} : handleRAGSearch(q, f) \/ ragSearchExecute(q, f)
    \/ graphExpandExecute
    \/ \E p \in Profiles : handleRAGForget(p) \/ handleRAGMemory(p) \/ recallConvo(p)
    \/ \E r \in Slots : \/ handleRAGRemember(r) \/ handleRAGCorrection(r) \/ RememberEmbed(r) \/ RememberPin(r) \/ RememberPut(r) \/ RememberFails(r)
                        \/ Augment(r) \/ AugmentAssemble(r)
                        \/ rememberTurn(r) \/ Add(r) \/ AddFails(r)

(* An answer is delivered before the next step.                               *)
Next == Deliver \/ (resp = None /\ Step)

Spec == Init /\ [][Next]_vars

-----------------------------------------------------------------------------
(* No answer shows a memory, of the legacy file or of the database, to anyone *)
(* but its owner, and no document search, graph walk or documentation section *)
(* shows any: the legacy file is a collection the server loads like the       *)
(* others, and every path has to leave it out.                                *)
PrivateMemory ==
    resp # None =>
        /\ \A i \in DOMAIN resp.mem : resp.mem[i].row.subject = resp.to
        /\ \A i \in DOMAIN resp.docs : resp.docs[i].chunk.subject = None

(* Vectors that are compared were made by one embedder: every memory has the  *)
(* pinned embedder and dimension, through imports, failed writes and restarts *)
(* with another configuration, and the query of a prompt is embedded by it;   *)
(* the documents a search ranks by vector are in the space of one embedder;   *)
(* the turns of the conversation store have one length.                       *)
OneSpace ==
    /\ \A x \in rows : meta # None /\ x.vec = [by |-> meta.id, len |-> meta.dim]
    /\ resp # None =>
          /\ resp.kind = "prompt" =>
                \A i \in DOMAIN resp.mem : resp.mem[i].row.vec.by = resp.by
          /\ resp.kind # "graph" =>
                Cardinality({resp.docs[i].chunk.vec.by : i \in {j \in DOMAIN resp.docs : resp.docs[j].chunk.vec # None}}) <= 1
    /\ \A t, u \in turns : t.len = u.len

(* What retrieval found reaches the model whatever the window: the fragments  *)
(* of a grounding block take no more than its budget, and when a document was *)
(* found the block holds some of its text.                                    *)
GroundingSurvives ==
    resp # None /\ resp.kind = "prompt" =>
        LET b == resp.block
        IN /\ Len(b.parts) <= b.budget.chunks
           /\ FoldLeft(+, 0, b.parts) + b.memory + b.library + b.web <= b.budget.bytes
           /\ b.hits > 0 => b.parts # <<>> /\ b.parts[1] > HitHeader

(* The chunks of every collection file are the whole text of one source tree, *)
(* in order, in chunks that are short enough for the embedder.                *)
SnapshotWhole ==
    \A n \in DocNames : disk[n] # None => \E tree \in Trees : Snapshot(disk[n].chunks, tree)

=============================================================================
