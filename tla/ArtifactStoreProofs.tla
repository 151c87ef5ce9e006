------------------------- MODULE ArtifactStoreProofs -------------------------
(***************************************************************************)
(* Theorems about the artifact custody of internal/research/store, for any *)
(* sets of artifacts, contents, keys, approvals and readers, any retention *)
(* and any number of crashes and failing calls.                            *)
(***************************************************************************)
EXTENDS ArtifactStore, TLAPS

-----------------------------------------------------------------------------
(* The inductive invariant. *)

\* No artifact that is not tombstoned has the content c.
NoRefs(c) == \A a \in Artifacts : Active(a) => row[a].content # c

\* What the holder of artifactMu knows between the steps of its call.
HolderKnows ==
    /\ op.pc = "none" => op = NoOp
    /\ op.pc # "none" => op.content \in Contents /\ \A r \in Readers : reader[r] = None
    /\ op.pc = "meta" => /\ proc = "encrypt" /\ op.content \in todo
                         /\ blob[op.content] = ring.active
    /\ op.pc = "insert" => /\ proc = "up" /\ op.art \in Artifacts
                           /\ row[op.art] = None
                           /\ blob[op.content] # None /\ Readable(op.content)
                           /\ ring.active # Plain => blob[op.content] # Plain
    /\ op.pc = "count" => proc = "up"
    /\ op.pc \in {"unlink", "mark"} => proc \in {"purge", "up"} /\ NoRefs(op.content)

\* What the stages of openStore have left to do.
StageWork ==
    /\ ring.active \in ring.keys \cup {Plain}
    /\ proc = "encrypt" => todo \subseteq Contents
    /\ proc = "retain" => \A a \in todo : a \in Artifacts /\ row[a] # None
    /\ proc = "purge" => \A c \in todo : c \in Contents /\ NoRefs(c)

\* The metadata of an active artifact agrees with its bytes from the moment the
\* encryption stage has processed them until the process ends.
Agreed(a) ==
    LET b == blob[row[a].content]
    IN  /\ proc = "encrypt" =>
             row[a].content \in todo \/ (b = ring.active /\ row[a].enc = ring.active)
        /\ proc \in {"retain", "purge"} => b = ring.active /\ row[a].enc = ring.active
        /\ proc = "up" => /\ row[a].enc = b /\ Readable(row[a].content)
                          /\ ring.active # Plain => b # Plain

CustodyInv == \A a \in Artifacts : Active(a) => Agreed(a)

\* A stream is open only in a running process, over an active artifact.
StreamsStand ==
    \A r \in Readers : reader[r] # None => proc = "up" /\ Active(reader[r])

\* Without interrupted calls a blob without a reference belongs to the call in
\* progress.
NoOrphans ==
    faults = 0 =>
        \A c \in Contents :
            blob[c] # None /\ NoRefs(c) =>
                proc = "up" /\ op.content = c /\ op.pc \in {"insert", "count", "unlink"}

StoreInv ==
    /\ TypeOK /\ HolderKnows /\ StageWork
    /\ ActiveHasBlob /\ CustodyInv /\ StreamsStand /\ NoOrphans

-----------------------------------------------------------------------------
(* Facts about references. *)

\* The reference count of the code is zero exactly when no active row has the
\* content.
LEMMA RefsEmpty == \A c : Refs(c) = {} <=> NoRefs(c)
  BY DEF Refs, Rows, NoRefs, Active

\* A step that neither tombstones nor adds a row keeps every reference.
LEMMA SameRefs ==
    ASSUME \A a \in Artifacts : /\ Active(a)' <=> Active(a)
                                /\ Active(a) => row'[a].content = row[a].content
    PROVE  \A c : NoRefs(c)' <=> NoRefs(c)
<1>. SUFFICES ASSUME NEW c PROVE NoRefs(c)' <=> NoRefs(c)
  OBVIOUS
<1>1. NoRefs(c) <=> \A a \in Artifacts : Active(a) => row[a].content # c
  BY Zenon DEF NoRefs
<1>2. NoRefs(c)' <=> \A a \in Artifacts : Active(a)' => row'[a].content # c
  BY Zenon DEF NoRefs
<1>. QED  BY <1>1, <1>2, Zenon

-----------------------------------------------------------------------------
(* Every action preserves the invariant. *)

\* openStore starts: nothing but the keyring is new, and every referenced
\* blob is still to be processed.
LEMMA OpenStep ==
    ASSUME StoreInv, Open
    PROVE  StoreInv'
<1>. USE ArtifactStoreAssumption, RowAssumption DEF StoreInv, Open, Keyrings, listArtifactBlobs
<1>1. TypeOK'
  <2>1. PICK r \in Keyrings : ring' = r /\ kept' = kept \cup r.keys
    OBVIOUS
  <2>2. r \in [active : Keys \cup {Plain}, keys : SUBSET Keys]
    BY DEF Keyrings
  <2>. QED  BY <2>1, <2>2 DEF TypeOK
<1>2. HolderKnows'
  BY RefsEmpty DEF TypeOK, NoOp, HolderKnows, StageWork, Readable, NoRefs, Active
<1>3. StageWork'
  BY RefsEmpty DEF TypeOK, NoOp, HolderKnows, StageWork, NoRefs, Active
<1>4. ActiveHasBlob'
  BY DEF TypeOK, ActiveHasBlob, HolderKnows, Active, NoRefs, Row
<1>5. CustodyInv'
  BY RefsEmpty DEF TypeOK, CustodyInv, Agreed, HolderKnows, StageWork, Active, NoRefs, Readable, NoOp, Row, ActiveHasBlob
<1>6. StreamsStand'
  BY DEF TypeOK, StreamsStand, HolderKnows, Active, NoOp
<1>7. NoOrphans'
  BY DEF TypeOK, NoOrphans, HolderKnows, StageWork, Active, NoRefs, NoOp
<1>. QED  BY <1>1, <1>2, <1>3, <1>4, <1>5, <1>6, <1>7

\* migrateArtifactEncryption stops.
LEMMA EncryptRefusedStep ==
    ASSUME StoreInv, NEW c \in Contents, EncryptRefused(c)
    PROVE  StoreInv'
<1>. USE ArtifactStoreAssumption, RowAssumption DEF StoreInv, EncryptRefused, Refuse
<1>1. TypeOK'
  BY DEF TypeOK, NoOp, HolderKnows, StageWork, Row
<1>2. HolderKnows'
  BY RefsEmpty DEF TypeOK, NoOp, HolderKnows, StageWork, Readable, NoRefs, Active
<1>3. StageWork'
  BY RefsEmpty DEF TypeOK, NoOp, HolderKnows, StageWork, NoRefs, Active
<1>4. ActiveHasBlob'
  BY DEF TypeOK, ActiveHasBlob, HolderKnows, Active, NoRefs, Row
<1>5. CustodyInv'
  BY RefsEmpty DEF TypeOK, CustodyInv, Agreed, HolderKnows, StageWork, Active, NoRefs, Readable, NoOp, Row, ActiveHasBlob
<1>6. StreamsStand'
  BY DEF TypeOK, StreamsStand, HolderKnows, Active, NoOp
<1>7. NoOrphans'
  BY DEF TypeOK, NoOrphans, HolderKnows, StageWork, Active, NoRefs, NoOp
<1>. QED  BY <1>1, <1>2, <1>3, <1>4, <1>5, <1>6, <1>7

\* The rotated blob stays on the list until its rows are updated.
LEMMA RotateStep ==
    ASSUME StoreInv, NEW c \in Contents, Rotate(c)
    PROVE  StoreInv'
<1>. USE ArtifactStoreAssumption, RowAssumption DEF StoreInv, Rotate
<1>1. TypeOK'
  BY DEF TypeOK, NoOp, HolderKnows, StageWork, Row
<1>2. HolderKnows'
  <2>1. /\ op' = [pc |-> "meta", art |-> None, content |-> c, at |-> 0]
        /\ blob'[c] = ring.active
    BY DEF NoOp, TypeOK
  <2>2. \A r \in Readers : reader[r] = None
    BY DEF StreamsStand
  <2>. QED  BY <2>1, <2>2 DEF HolderKnows
<1>3. StageWork'
  BY RefsEmpty DEF TypeOK, NoOp, HolderKnows, StageWork, NoRefs, Active
<1>4. ActiveHasBlob'
  BY DEF TypeOK, ActiveHasBlob, HolderKnows, Active, NoRefs, Row
<1>5. CustodyInv'
  BY RefsEmpty DEF TypeOK, CustodyInv, Agreed, HolderKnows, StageWork, Active, NoRefs, Readable, NoOp, Row, ActiveHasBlob
<1>6. StreamsStand'
  BY DEF TypeOK, StreamsStand, HolderKnows, Active, NoOp
<1>7. NoOrphans'
  <2>1. \A x : NoRefs(x)' <=> NoRefs(x)
    BY DEF NoRefs, Active
  <2>2. blob[c] # None /\ \A x \in Contents : x # c => blob'[x] = blob[x]
    BY DEF Readable, TypeOK
  <2>3. faults = 0 => \A x \in Contents : blob[x] # None => ~NoRefs(x)
    BY DEF NoOrphans
  <2>. QED  BY <2>1, <2>2, <2>3 DEF NoOrphans
<1>. QED  BY <1>1, <1>2, <1>3, <1>4, <1>5, <1>6, <1>7

\* completeApprovedArtifactPurges takes the next content without references.
LEMMA ResumePurgeStep ==
    ASSUME StoreInv, NEW c \in Contents, ResumePurge(c)
    PROVE  StoreInv'
<1>. USE ArtifactStoreAssumption, RowAssumption DEF StoreInv, ResumePurge
<1>1. TypeOK'
  BY DEF TypeOK, NoOp, HolderKnows, StageWork, Row
<1>2. HolderKnows'
  <2>1. op' = [pc |-> "unlink", art |-> None, content |-> c, at |-> 0]
    BY DEF NoOp
  <2>2. \A r \in Readers : reader[r] = None
    BY DEF StreamsStand
  <2>3. NoRefs(c) /\ (NoRefs(c) => NoRefs(c)')
    BY DEF StageWork, NoRefs, Active
  <2>. QED  BY <2>1, <2>2, <2>3 DEF HolderKnows
<1>3. StageWork'
  BY RefsEmpty DEF TypeOK, NoOp, HolderKnows, StageWork, NoRefs, Active
<1>4. ActiveHasBlob'
  BY DEF TypeOK, ActiveHasBlob, HolderKnows, Active, NoRefs, Row
<1>5. CustodyInv'
  BY RefsEmpty DEF TypeOK, CustodyInv, Agreed, HolderKnows, StageWork, Active, NoRefs, Readable, NoOp, Row, ActiveHasBlob
<1>6. StreamsStand'
  BY DEF TypeOK, StreamsStand, HolderKnows, Active, NoOp
<1>7. NoOrphans'
  BY DEF TypeOK, NoOrphans, HolderKnows, StageWork, Active, NoRefs, NoOp
<1>. QED  BY <1>1, <1>2, <1>3, <1>4, <1>5, <1>6, <1>7

\* Rows and bytes agree on the active key once the UPDATE is done.
LEMMA RotateMetaStep ==
    ASSUME StoreInv, RotateMeta
    PROVE  StoreInv'
<1>. USE ArtifactStoreAssumption, RowAssumption DEF StoreInv, RotateMeta, Rows
<1>1. TypeOK'
  BY DEF TypeOK, NoOp, HolderKnows, StageWork, Row
<1>2. HolderKnows'
  BY RefsEmpty DEF TypeOK, NoOp, HolderKnows, StageWork, Readable, NoRefs, Active
<1>3. StageWork'
  BY RefsEmpty DEF TypeOK, NoOp, HolderKnows, StageWork, NoRefs, Active
<1>4. ActiveHasBlob'
  BY DEF TypeOK, ActiveHasBlob, HolderKnows, Active, NoRefs, Row
<1>5. CustodyInv'
  BY RefsEmpty DEF TypeOK, CustodyInv, Agreed, HolderKnows, StageWork, Active, NoRefs, Readable, NoOp, Row, ActiveHasBlob
<1>6. StreamsStand'
  BY DEF TypeOK, StreamsStand, HolderKnows, Active, NoOp
<1>7. NoOrphans'
  <2>1. \A a \in Artifacts : /\ Active(a)' <=> Active(a)
                             /\ Active(a) => row'[a].content = row[a].content
    BY <1>1 DEF TypeOK, Row, Active
  <2>2. \A x : NoRefs(x)' <=> NoRefs(x)
    BY <2>1, SameRefs
  <2>. QED  BY <2>2 DEF NoOrphans, HolderKnows
<1>. QED  BY <1>1, <1>2, <1>3, <1>4, <1>5, <1>6, <1>7

\* With an empty list every active artifact is under the active key.
LEMMA EncryptedStep ==
    ASSUME StoreInv, Encrypted
    PROVE  StoreInv'
<1>. USE ArtifactStoreAssumption, RowAssumption DEF StoreInv, Encrypted
<1>1. TypeOK'
  BY DEF TypeOK, NoOp, HolderKnows, StageWork, Row
<1>2. HolderKnows'
  BY RefsEmpty DEF TypeOK, NoOp, HolderKnows, StageWork, Readable, NoRefs, Active
<1>3. StageWork'
  BY RefsEmpty DEF TypeOK, NoOp, HolderKnows, StageWork, NoRefs, Active
<1>4. ActiveHasBlob'
  BY DEF TypeOK, ActiveHasBlob, HolderKnows, Active, NoRefs, Row
<1>5. CustodyInv'
  BY RefsEmpty DEF TypeOK, CustodyInv, Agreed, HolderKnows, StageWork, Active, NoRefs, Readable, NoOp, Row, ActiveHasBlob
<1>6. StreamsStand'
  BY DEF TypeOK, StreamsStand, HolderKnows, Active, NoOp
<1>7. NoOrphans'
  BY DEF TypeOK, NoOrphans, HolderKnows, StageWork, Active, NoRefs, NoOp
<1>. QED  BY <1>1, <1>2, <1>3, <1>4, <1>5, <1>6, <1>7

\* Only contents without references are listed for removal.
LEMMA BackfilledStep ==
    ASSUME StoreInv, Backfilled
    PROVE  StoreInv'
<1>. USE ArtifactStoreAssumption, RowAssumption DEF StoreInv, Backfilled, approvedPurges, AllPurged
<1>1. TypeOK'
  BY DEF TypeOK, NoOp, HolderKnows, StageWork, Row
<1>2. HolderKnows'
  BY RefsEmpty DEF TypeOK, NoOp, HolderKnows, StageWork, Readable, NoRefs, Active
<1>3. StageWork'
  BY RefsEmpty DEF TypeOK, NoOp, HolderKnows, StageWork, NoRefs, Active
<1>4. ActiveHasBlob'
  BY DEF TypeOK, ActiveHasBlob, HolderKnows, Active, NoRefs, Row
<1>5. CustodyInv'
  BY RefsEmpty DEF TypeOK, CustodyInv, Agreed, HolderKnows, StageWork, Active, NoRefs, Readable, NoOp, Row, ActiveHasBlob
<1>6. StreamsStand'
  BY DEF TypeOK, StreamsStand, HolderKnows, Active, NoOp
<1>7. NoOrphans'
  BY DEF TypeOK, NoOrphans, HolderKnows, StageWork, Active, NoRefs, NoOp
<1>. QED  BY <1>1, <1>2, <1>3, <1>4, <1>5, <1>6, <1>7

\* A purge at startup that cannot read its blob ends the process; without
\* interrupted calls there is no such blob.
LEMMA ResumeRefusedStep ==
    ASSUME StoreInv, ResumeRefused
    PROVE  StoreInv'
<1>. USE ArtifactStoreAssumption, RowAssumption DEF StoreInv, ResumeRefused, Refuse
<1>1. TypeOK'
  BY DEF TypeOK, NoOp, HolderKnows, StageWork, Row
<1>2. HolderKnows'
  BY RefsEmpty DEF TypeOK, NoOp, HolderKnows, StageWork, Readable, NoRefs, Active
<1>3. StageWork'
  BY RefsEmpty DEF TypeOK, NoOp, HolderKnows, StageWork, NoRefs, Active
<1>4. ActiveHasBlob'
  BY DEF TypeOK, ActiveHasBlob, HolderKnows, Active, NoRefs, Row
<1>5. CustodyInv'
  BY RefsEmpty DEF TypeOK, CustodyInv, Agreed, HolderKnows, StageWork, Active, NoRefs, Readable, NoOp, Row, ActiveHasBlob
<1>6. StreamsStand'
  BY DEF TypeOK, StreamsStand, HolderKnows, Active, NoOp
<1>7. NoOrphans'
  BY DEF TypeOK, NoOrphans, HolderKnows, StageWork, Active, NoRefs, NoOp
<1>. QED  BY <1>1, <1>2, <1>3, <1>4, <1>5, <1>6, <1>7

\* The process serves with the custody its startup established.
LEMMA OpenedStep ==
    ASSUME StoreInv, Opened
    PROVE  StoreInv'
<1>. USE ArtifactStoreAssumption, RowAssumption DEF StoreInv, Opened
<1>1. TypeOK'
  BY DEF TypeOK, NoOp, HolderKnows, StageWork, Row
<1>2. HolderKnows'
  BY RefsEmpty DEF TypeOK, NoOp, HolderKnows, StageWork, Readable, NoRefs, Active
<1>3. StageWork'
  BY RefsEmpty DEF TypeOK, NoOp, HolderKnows, StageWork, NoRefs, Active
<1>4. ActiveHasBlob'
  BY DEF TypeOK, ActiveHasBlob, HolderKnows, Active, NoRefs, Row
<1>5. CustodyInv'
  BY RefsEmpty DEF TypeOK, CustodyInv, Agreed, HolderKnows, StageWork, Active, NoRefs, Readable, NoOp, Row, ActiveHasBlob
<1>6. StreamsStand'
  BY DEF TypeOK, StreamsStand, HolderKnows, Active, NoOp
<1>7. NoOrphans'
  BY DEF TypeOK, NoOrphans, HolderKnows, StageWork, Active, NoRefs, NoOp
<1>. QED  BY <1>1, <1>2, <1>3, <1>4, <1>5, <1>6, <1>7

\* A deadline changes no reference.
LEMMA BackfillStep ==
    ASSUME StoreInv, NEW x \in Artifacts, Backfill(x)
    PROVE  StoreInv'
<1>. USE ArtifactStoreAssumption, RowAssumption DEF StoreInv, Backfill
<1>1. TypeOK'
  BY DEF TypeOK, NoOp, HolderKnows, StageWork, Row
<1>2. HolderKnows'
  BY RefsEmpty DEF TypeOK, NoOp, HolderKnows, StageWork, Readable, NoRefs, Active
<1>3. StageWork'
  BY RefsEmpty DEF TypeOK, NoOp, HolderKnows, StageWork, NoRefs, Active
<1>0. \A a \in Artifacts : /\ Active(a)' <=> Active(a)
                           /\ Active(a) => row'[a].content = row[a].content
  BY <1>1 DEF TypeOK, Row, Active, StageWork
<1>4. ActiveHasBlob'
  <2>. SUFFICES ASSUME NEW a \in Artifacts, Active(a)'
                PROVE  blob'[row'[a].content] # None
    BY Zenon DEF ActiveHasBlob
  <2>. QED  BY <1>0 DEF ActiveHasBlob
<1>5. CustodyInv'
  BY RefsEmpty DEF TypeOK, CustodyInv, Agreed, HolderKnows, StageWork, Active, NoRefs, Readable, NoOp, Row, ActiveHasBlob
<1>6. StreamsStand'
  BY DEF TypeOK, StreamsStand, HolderKnows, Active, NoOp
<1>7. NoOrphans'
  BY <1>0, SameRefs DEF NoOrphans, HolderKnows
<1>. QED  BY <1>1, <1>2, <1>3, <1>4, <1>5, <1>6, <1>7

\* BlobDeletedAt is set on tombstones only.
LEMMA MarkStep ==
    ASSUME StoreInv, NEW x \in Artifacts, Mark(x)
    PROVE  StoreInv'
<1>. USE ArtifactStoreAssumption, RowAssumption DEF StoreInv, Mark, Rows
<1>1. TypeOK'
  <2>1. row[x] \in Row
    BY DEF TypeOK, Rows
  <2>2. [row[x] EXCEPT !.gone = TRUE] \in Row
    BY <2>1 DEF Row
  <2>. QED  BY <2>2 DEF TypeOK
<1>2. HolderKnows'
  BY RefsEmpty DEF TypeOK, NoOp, HolderKnows, StageWork, Readable, NoRefs, Active
<1>3. StageWork'
  BY RefsEmpty DEF TypeOK, NoOp, HolderKnows, StageWork, NoRefs, Active
<1>4. ActiveHasBlob'
  BY DEF TypeOK, ActiveHasBlob, HolderKnows, Active, NoRefs, Row
<1>5. CustodyInv'
  BY RefsEmpty DEF TypeOK, CustodyInv, Agreed, HolderKnows, StageWork, Active, NoRefs, Readable, NoOp, Row, ActiveHasBlob
<1>6. StreamsStand'
  BY DEF TypeOK, StreamsStand, HolderKnows, Active, NoOp
<1>7. NoOrphans'
  BY DEF TypeOK, NoOrphans, HolderKnows, StageWork, Active, NoRefs, NoOp
<1>. QED  BY <1>1, <1>2, <1>3, <1>4, <1>5, <1>6, <1>7

\* The row is written with the encryption the blob was found to have.
LEMMA PutRowStep ==
    ASSUME StoreInv, PutRow
    PROVE  StoreInv'
<1>. USE ArtifactStoreAssumption, RowAssumption DEF StoreInv, PutRow
<1>1. TypeOK'
  BY DEF TypeOK, NoOp, HolderKnows, StageWork, Row
<1>2. HolderKnows'
  BY RefsEmpty DEF TypeOK, NoOp, HolderKnows, StageWork, Readable, NoRefs, Active
<1>3. StageWork'
  BY RefsEmpty DEF TypeOK, NoOp, HolderKnows, StageWork, NoRefs, Active
<1>4. ActiveHasBlob'
  BY DEF TypeOK, ActiveHasBlob, HolderKnows, Active, NoRefs, Row
<1>5. CustodyInv'
  BY RefsEmpty DEF TypeOK, CustodyInv, Agreed, HolderKnows, StageWork, Active, NoRefs, Readable, NoOp, Row, ActiveHasBlob
<1>6. StreamsStand'
  BY DEF TypeOK, StreamsStand, HolderKnows, Active, NoOp
<1>7. NoOrphans'
  <2>. PICK x \in Artifacts, y \in Contents : x = op.art /\ y = op.content
    BY DEF HolderKnows
  <2>1. Active(x)' /\ row'[x].content = y
    <3>1. row'[x] \in Row /\ row'[x].purge = None /\ row'[x].content = y
      BY DEF HolderKnows, TypeOK, Row
    <3>. QED  BY <3>1 DEF Active
  <2>2. \A a \in Artifacts : Active(a) =>
             Active(a)' /\ row'[a].content = row[a].content
    BY DEF HolderKnows, Active, TypeOK
  <2>3. ~NoRefs(y)'
    BY <2>1 DEF NoRefs
  <2>4. \A z : NoRefs(z)' => NoRefs(z)
    BY <2>2 DEF NoRefs, Active
  <2>. QED  BY <2>3, <2>4 DEF NoOrphans
<1>. QED  BY <1>1, <1>2, <1>3, <1>4, <1>5, <1>6, <1>7

\* Only a count of zero lets the call go on to the file.
LEMMA PurgeCountStep ==
    ASSUME StoreInv, PurgeCount
    PROVE  StoreInv'
<1>. USE ArtifactStoreAssumption, RowAssumption DEF StoreInv, PurgeCount
<1>1. TypeOK'
  BY DEF TypeOK, NoOp, HolderKnows, StageWork, Row
<1>2. HolderKnows'
  BY RefsEmpty DEF TypeOK, NoOp, HolderKnows, StageWork, Readable, NoRefs, Active
<1>3. StageWork'
  BY RefsEmpty DEF TypeOK, NoOp, HolderKnows, StageWork, NoRefs, Active
<1>4. ActiveHasBlob'
  BY DEF TypeOK, ActiveHasBlob, HolderKnows, Active, NoRefs, Row
<1>5. CustodyInv'
  BY RefsEmpty DEF TypeOK, CustodyInv, Agreed, HolderKnows, StageWork, Active, NoRefs, Readable, NoOp, Row, ActiveHasBlob
<1>6. StreamsStand'
  BY DEF TypeOK, StreamsStand, HolderKnows, Active, NoOp
<1>7. NoOrphans'
  <2>1. \A x : NoRefs(x)' <=> NoRefs(x)
    BY DEF NoRefs, Active
  <2>2. op.content' = (IF NoRefs(op.content) THEN op.content ELSE None)
    BY RefsEmpty DEF NoOp, TypeOK
  <2>3. op.pc' = (IF NoRefs(op.content) THEN "unlink" ELSE "none")
    BY RefsEmpty DEF NoOp, TypeOK
  <2>. QED  BY <2>1, <2>2, <2>3 DEF NoOrphans, HolderKnows
<1>. QED  BY <1>1, <1>2, <1>3, <1>4, <1>5, <1>6, <1>7

\* The file removed has no active reference.
LEMMA UnlinkStep ==
    ASSUME StoreInv, Unlink
    PROVE  StoreInv'
<1>. USE ArtifactStoreAssumption, RowAssumption DEF StoreInv, Unlink
<1>1. TypeOK'
  BY DEF TypeOK, NoOp, HolderKnows, StageWork, Row
<1>2. HolderKnows'
  BY RefsEmpty DEF TypeOK, NoOp, HolderKnows, StageWork, Readable, NoRefs, Active
<1>3. StageWork'
  BY RefsEmpty DEF TypeOK, NoOp, HolderKnows, StageWork, NoRefs, Active
<1>4. ActiveHasBlob'
  BY DEF TypeOK, ActiveHasBlob, HolderKnows, Active, NoRefs, Row
<1>5. CustodyInv'
  BY RefsEmpty DEF TypeOK, CustodyInv, Agreed, HolderKnows, StageWork, Active, NoRefs, Readable, NoOp, Row, ActiveHasBlob
<1>6. StreamsStand'
  BY DEF TypeOK, StreamsStand, HolderKnows, Active, NoOp
<1>7. NoOrphans'
  BY DEF TypeOK, NoOrphans, HolderKnows, StageWork, Active, NoRefs, NoOp
<1>. QED  BY <1>1, <1>2, <1>3, <1>4, <1>5, <1>6, <1>7

\* The call returns; no file is left without a reference.
LEMMA MarkedStep ==
    ASSUME StoreInv, Marked
    PROVE  StoreInv'
<1>. USE ArtifactStoreAssumption, RowAssumption DEF StoreInv, Marked
<1>1. TypeOK'
  BY DEF TypeOK, NoOp, HolderKnows, StageWork, Row
<1>2. HolderKnows'
  BY RefsEmpty DEF TypeOK, NoOp, HolderKnows, StageWork, Readable, NoRefs, Active
<1>3. StageWork'
  BY RefsEmpty DEF TypeOK, NoOp, HolderKnows, StageWork, NoRefs, Active
<1>4. ActiveHasBlob'
  BY DEF TypeOK, ActiveHasBlob, HolderKnows, Active, NoRefs, Row
<1>5. CustodyInv'
  BY RefsEmpty DEF TypeOK, CustodyInv, Agreed, HolderKnows, StageWork, Active, NoRefs, Readable, NoOp, Row, ActiveHasBlob
<1>6. StreamsStand'
  BY DEF TypeOK, StreamsStand, HolderKnows, Active, NoOp
<1>7. NoOrphans'
  BY DEF TypeOK, NoOrphans, HolderKnows, StageWork, Active, NoRefs, NoOp
<1>. QED  BY <1>1, <1>2, <1>3, <1>4, <1>5, <1>6, <1>7

\* A call that fails part way leaves at worst a file without references.
LEMMA AbortStep ==
    ASSUME StoreInv, Abort
    PROVE  StoreInv'
<1>. USE ArtifactStoreAssumption, RowAssumption DEF StoreInv, Abort
<1>1. TypeOK'
  BY DEF TypeOK, NoOp, HolderKnows, StageWork, Row
<1>2. HolderKnows'
  BY RefsEmpty DEF TypeOK, NoOp, HolderKnows, StageWork, Readable, NoRefs, Active
<1>3. StageWork'
  BY RefsEmpty DEF TypeOK, NoOp, HolderKnows, StageWork, NoRefs, Active
<1>4. ActiveHasBlob'
  BY DEF TypeOK, ActiveHasBlob, HolderKnows, Active, NoRefs, Row
<1>5. CustodyInv'
  BY RefsEmpty DEF TypeOK, CustodyInv, Agreed, HolderKnows, StageWork, Active, NoRefs, Readable, NoOp, Row, ActiveHasBlob
<1>6. StreamsStand'
  BY DEF TypeOK, StreamsStand, HolderKnows, Active, NoOp
<1>7. NoOrphans'
  BY DEF TypeOK, NoOrphans, HolderKnows, StageWork, Active, NoRefs, NoOp
<1>. QED  BY <1>1, <1>2, <1>3, <1>4, <1>5, <1>6, <1>7

\* A crash loses the process state and nothing of the store.
LEMMA CrashStep ==
    ASSUME StoreInv, Crash
    PROVE  StoreInv'
<1>. USE ArtifactStoreAssumption, RowAssumption DEF StoreInv, Crash
<1>1. TypeOK'
  <2>1. faults' \in 0 .. MaxFaults /\ NoOp.at \in 0 .. MaxTime
    BY DEF TypeOK, NoOp
  <2>. QED  BY <2>1 DEF TypeOK, NoOp
<1>2. HolderKnows'
  BY RefsEmpty DEF TypeOK, NoOp, HolderKnows, StageWork, Readable, NoRefs, Active
<1>3. StageWork'
  BY RefsEmpty DEF TypeOK, NoOp, HolderKnows, StageWork, NoRefs, Active
<1>4. ActiveHasBlob'
  BY DEF TypeOK, ActiveHasBlob, HolderKnows, Active, NoRefs, Row
<1>5. CustodyInv'
  BY RefsEmpty DEF TypeOK, CustodyInv, Agreed, HolderKnows, StageWork, Active, NoRefs, Readable, NoOp, Row, ActiveHasBlob
<1>6. StreamsStand'
  BY DEF TypeOK, StreamsStand, HolderKnows, Active, NoOp
<1>7. NoOrphans'
  BY DEF TypeOK, NoOrphans, HolderKnows, StageWork, Active, NoRefs, NoOp
<1>. QED  BY <1>1, <1>2, <1>3, <1>4, <1>5, <1>6, <1>7

\* An orderly stop leaves the store as VerifyIntegrity wants it.
LEMMA CloseStep ==
    ASSUME StoreInv, Close
    PROVE  StoreInv'
<1>. USE ArtifactStoreAssumption, RowAssumption DEF StoreInv, Close, Unlocked
<1>1. TypeOK'
  BY DEF TypeOK, NoOp, HolderKnows, StageWork, Row
<1>2. HolderKnows'
  BY RefsEmpty DEF TypeOK, NoOp, HolderKnows, StageWork, Readable, NoRefs, Active
<1>3. StageWork'
  BY RefsEmpty DEF TypeOK, NoOp, HolderKnows, StageWork, NoRefs, Active
<1>4. ActiveHasBlob'
  BY DEF TypeOK, ActiveHasBlob, HolderKnows, Active, NoRefs, Row
<1>5. CustodyInv'
  BY RefsEmpty DEF TypeOK, CustodyInv, Agreed, HolderKnows, StageWork, Active, NoRefs, Readable, NoOp, Row, ActiveHasBlob
<1>6. StreamsStand'
  BY DEF TypeOK, StreamsStand, HolderKnows, Active, NoOp
<1>7. NoOrphans'
  BY DEF TypeOK, NoOrphans, HolderKnows, StageWork, Active, NoRefs, NoOp
<1>. QED  BY <1>1, <1>2, <1>3, <1>4, <1>5, <1>6, <1>7

\* Time passes.
LEMMA TickStep ==
    ASSUME StoreInv, Tick
    PROVE  StoreInv'
<1>. USE ArtifactStoreAssumption, RowAssumption DEF StoreInv, Tick
<1>1. TypeOK'
  BY DEF TypeOK, NoOp, HolderKnows, StageWork, Row
<1>2. HolderKnows'
  BY RefsEmpty DEF TypeOK, NoOp, HolderKnows, StageWork, Readable, NoRefs, Active
<1>3. StageWork'
  BY RefsEmpty DEF TypeOK, NoOp, HolderKnows, StageWork, NoRefs, Active
<1>4. ActiveHasBlob'
  BY DEF TypeOK, ActiveHasBlob, HolderKnows, Active, NoRefs, Row
<1>5. CustodyInv'
  BY RefsEmpty DEF TypeOK, CustodyInv, Agreed, HolderKnows, StageWork, Active, NoRefs, Readable, NoOp, Row, ActiveHasBlob
<1>6. StreamsStand'
  BY DEF TypeOK, StreamsStand, HolderKnows, Active, NoOp
<1>7. NoOrphans'
  BY DEF TypeOK, NoOrphans, HolderKnows, StageWork, Active, NoRefs, NoOp
<1>. QED  BY <1>1, <1>2, <1>3, <1>4, <1>5, <1>6, <1>7

\* A blob put in place, or shared, is readable and not plain under a key.
LEMMA PutBlobStep ==
    ASSUME StoreInv, NEW c \in Contents, NEW x \in Artifacts, PutBlob(x, c)
    PROVE  StoreInv'
<1>. USE ArtifactStoreAssumption, RowAssumption DEF StoreInv, PutBlob, Unlocked
<1>1. TypeOK'
  BY DEF TypeOK, NoOp, HolderKnows, StageWork, Row
<1>2. HolderKnows'
  BY RefsEmpty DEF TypeOK, NoOp, HolderKnows, StageWork, Readable, NoRefs, Active
<1>3. StageWork'
  BY RefsEmpty DEF TypeOK, NoOp, HolderKnows, StageWork, NoRefs, Active
<1>4. ActiveHasBlob'
  BY DEF TypeOK, ActiveHasBlob, HolderKnows, Active, NoRefs, Row
<1>5. CustodyInv'
  BY RefsEmpty DEF TypeOK, CustodyInv, Agreed, HolderKnows, StageWork, Active, NoRefs, Readable, NoOp, Row, ActiveHasBlob
<1>6. StreamsStand'
  BY DEF TypeOK, StreamsStand, HolderKnows, Active, NoOp
<1>7. NoOrphans'
  BY DEF TypeOK, NoOrphans, HolderKnows, StageWork, Active, NoRefs, NoOp
<1>. QED  BY <1>1, <1>2, <1>3, <1>4, <1>5, <1>6, <1>7

\* A tombstone removes a reference, never bytes; the lock excludes streams.
LEMMA PurgeTombstoneStep ==
    ASSUME StoreInv, NEW x \in Artifacts, NEW d \in Approvals, PurgeTombstone(x, d)
    PROVE  StoreInv'
<1>. USE ArtifactStoreAssumption, RowAssumption DEF StoreInv, PurgeTombstone, Unlocked
<1>1. TypeOK'
  <2>1. row[x] \in Row /\ row[x].content \in Contents
    BY DEF TypeOK, Row
  <2>2. [row[x] EXCEPT !.purge = d] \in Row
    BY <2>1 DEF Row
  <2>3. row' \in [Artifacts -> Row \cup {None}]
    BY <2>2 DEF TypeOK
  <2>. QED  BY <2>1, <2>3 DEF TypeOK, NoOp
<1>2. HolderKnows'
  <2>1. op' = [pc |-> "count", art |-> x, content |-> row[x].content, at |-> 0]
    BY DEF NoOp
  <2>2. row[x].content \in Contents
    BY DEF TypeOK, Row
  <2>. QED  BY <2>1, <2>2 DEF HolderKnows
<1>3. StageWork'
  BY RefsEmpty DEF TypeOK, NoOp, HolderKnows, StageWork, NoRefs, Active
<1>4. ActiveHasBlob'
  BY DEF TypeOK, ActiveHasBlob, HolderKnows, Active, NoRefs, Row
<1>5. CustodyInv'
  BY RefsEmpty DEF TypeOK, CustodyInv, Agreed, HolderKnows, StageWork, Active, NoRefs, Readable, NoOp, Row, ActiveHasBlob
<1>6. StreamsStand'
  BY DEF TypeOK, StreamsStand, HolderKnows, Active, NoOp
<1>7. NoOrphans'
  BY DEF TypeOK, NoOrphans, HolderKnows, StageWork, Active, NoRefs, NoOp
<1>. QED  BY <1>1, <1>2, <1>3, <1>4, <1>5, <1>6, <1>7

\* A stream is opened under the read lock, over an active artifact.
LEMMA OpenArtifactStep ==
    ASSUME StoreInv, NEW x \in Artifacts, NEW s \in Readers, OpenArtifact(s, x)
    PROVE  StoreInv'
<1>. USE ArtifactStoreAssumption, RowAssumption DEF StoreInv, OpenArtifact
<1>1. TypeOK'
  BY DEF TypeOK, NoOp, HolderKnows, StageWork, Row
<1>2. HolderKnows'
  BY RefsEmpty DEF TypeOK, NoOp, HolderKnows, StageWork, Readable, NoRefs, Active
<1>3. StageWork'
  BY RefsEmpty DEF TypeOK, NoOp, HolderKnows, StageWork, NoRefs, Active
<1>4. ActiveHasBlob'
  BY DEF TypeOK, ActiveHasBlob, HolderKnows, Active, NoRefs, Row
<1>5. CustodyInv'
  BY RefsEmpty DEF TypeOK, CustodyInv, Agreed, HolderKnows, StageWork, Active, NoRefs, Readable, NoOp, Row, ActiveHasBlob
<1>6. StreamsStand'
  BY DEF TypeOK, StreamsStand, HolderKnows, Active, NoOp
<1>7. NoOrphans'
  BY DEF TypeOK, NoOrphans, HolderKnows, StageWork, Active, NoRefs, NoOp
<1>. QED  BY <1>1, <1>2, <1>3, <1>4, <1>5, <1>6, <1>7

\* The stream is closed.
LEMMA CloseReaderStep ==
    ASSUME StoreInv, NEW s \in Readers, CloseReader(s)
    PROVE  StoreInv'
<1>. USE ArtifactStoreAssumption, RowAssumption DEF StoreInv, CloseReader
<1>1. TypeOK'
  BY DEF TypeOK, NoOp, HolderKnows, StageWork, Row
<1>2. HolderKnows'
  BY RefsEmpty DEF TypeOK, NoOp, HolderKnows, StageWork, Readable, NoRefs, Active
<1>3. StageWork'
  BY RefsEmpty DEF TypeOK, NoOp, HolderKnows, StageWork, NoRefs, Active
<1>4. ActiveHasBlob'
  BY DEF TypeOK, ActiveHasBlob, HolderKnows, Active, NoRefs, Row
<1>5. CustodyInv'
  BY RefsEmpty DEF TypeOK, CustodyInv, Agreed, HolderKnows, StageWork, Active, NoRefs, Readable, NoOp, Row, ActiveHasBlob
<1>6. StreamsStand'
  BY DEF TypeOK, StreamsStand, HolderKnows, Active, NoOp
<1>7. NoOrphans'
  BY DEF TypeOK, NoOrphans, HolderKnows, StageWork, Active, NoRefs, NoOp
<1>. QED  BY <1>1, <1>2, <1>3, <1>4, <1>5, <1>6, <1>7

-----------------------------------------------------------------------------
(* The theorems. *)

\* The files of an older release are plaintext with one row each.
LEMMA StoreInit == Init => StoreInv
<1>. SUFFICES ASSUME Init PROVE StoreInv
  OBVIOUS
<1>. USE ArtifactStoreAssumption, RowAssumption
<1>1. PICK old \in [Artifacts -> Contents \cup {None}] :
        /\ row = [a \in Artifacts |->
                    IF old[a] = None THEN None ELSE Legacy(old[a])]
        /\ blob = [c \in Contents |->
                     IF \E a \in Artifacts : old[a] = c THEN Plain ELSE None]
  BY DEF Init
<1>2. \A c \in Contents : Legacy(c) \in Row
  BY DEF Legacy, Row
<1>3. row \in [Artifacts -> Row \cup {None}]
  BY <1>1, <1>2
<1>4. \A a \in Artifacts : Active(a) => /\ old[a] \in Contents
                                         /\ row[a].content = old[a]
  BY <1>1 DEF Active, Legacy
<1>5. TypeOK
  <2>1. blob \in [Contents -> Keys \cup {Plain, None}]
    BY <1>1
  <2>2. clock \in 0 .. MaxTime /\ faults \in 0 .. MaxFaults /\ NoOp.at \in 0 .. MaxTime
    BY DEF Init, NoOp
  <2>3. ring \in [active : Keys \cup {Plain}, keys : SUBSET Keys]
    BY DEF Init
  <2>. QED  BY <1>3, <2>1, <2>2, <2>3 DEF Init, TypeOK, NoOp
<1>6. HolderKnows /\ StageWork /\ CustodyInv /\ StreamsStand
  BY DEF Init, HolderKnows, StageWork, CustodyInv, Agreed, StreamsStand, NoOp
<1>7. ActiveHasBlob
  BY <1>1, <1>4 DEF ActiveHasBlob
<1>8. NoOrphans
  <2>. SUFFICES ASSUME NEW c \in Contents, blob[c] # None PROVE ~NoRefs(c)
    BY DEF NoOrphans
  <2>1. PICK a \in Artifacts : old[a] = c
    BY <1>1
  <2>2. row[a] = Legacy(c)
    BY <1>1, <2>1
  <2>3. Active(a) /\ row[a].content = c
    BY <2>2, <1>2 DEF Active, Legacy
  <2>. QED  BY <2>3 DEF NoRefs
<1>. QED  BY <1>5, <1>6, <1>7, <1>8 DEF StoreInv

LEMMA StoreUnchanged == StoreInv /\ UNCHANGED vars => StoreInv'
<1>. SUFFICES ASSUME StoreInv, UNCHANGED vars PROVE StoreInv'
  OBVIOUS
<1>. USE DEF StoreInv, vars
<1>1. TypeOK' /\ StageWork' /\ ActiveHasBlob'
  BY DEF TypeOK, StageWork, ActiveHasBlob, NoRefs, Active
<1>2. HolderKnows' /\ StreamsStand'
  BY DEF HolderKnows, StreamsStand, NoRefs, Active, Readable
<1>3. CustodyInv' /\ NoOrphans'
  BY DEF CustodyInv, Agreed, NoOrphans, NoRefs, Active, Readable
<1>. QED  BY <1>1, <1>2, <1>3

\* Every step of the specification is one of the actions above.
LEMMA StoreNext == StoreInv /\ [Next]_vars => StoreInv'
<1>. SUFFICES ASSUME StoreInv, [Next]_vars PROVE StoreInv'
  OBVIOUS
<1>1. CASE StoreStep
  BY <1>1, EncryptRefusedStep, RotateStep, ResumePurgeStep, RotateMetaStep,
     EncryptedStep, BackfilledStep, ResumeRefusedStep, OpenedStep, BackfillStep,
     MarkStep, PutRowStep, PurgeCountStep, UnlinkStep, MarkedStep DEF StoreStep
<1>2. CASE \E a \in Artifacts, c \in Contents : PutBlob(a, c)
  BY <1>2, PutBlobStep
<1>3. CASE \E a \in Artifacts, d \in Approvals : PurgeTombstone(a, d)
  BY <1>3, PurgeTombstoneStep
<1>4. CASE \E r \in Readers, a \in Artifacts : OpenArtifact(r, a)
  BY <1>4, OpenArtifactStep
<1>5. CASE \E r \in Readers : CloseReader(r)
  BY <1>5, CloseReaderStep
<1>6. CASE Open \/ Abort \/ Crash \/ Close \/ Tick
  BY <1>6, OpenStep, AbortStep, CrashStep, CloseStep, TickStep
<1>7. CASE UNCHANGED vars
  BY <1>7, StoreUnchanged
<1>. QED  BY <1>1, <1>2, <1>3, <1>4, <1>5, <1>6, <1>7 DEF Next

LEMMA StoreAlways == Spec => []StoreInv
<1>. QED  BY StoreInit, StoreNext, PTL DEF Spec

\* Every variable of the store keeps its type.
THEOREM StoreTyped == Spec => []TypeOK
<1>1. StoreInv => TypeOK
  BY DEF StoreInv
<1>. QED  BY <1>1, StoreAlways, PTL

\* Bytes that are referred to are on disk: whatever crashed, failed or was
\* purged meanwhile, an artifact that no approved purge has tombstoned still has
\* its bytes, also when it shares them with purged artifacts (PutArtifact,
\* PurgeArtifact, completeApprovedArtifactPurges), and an open stream of
\* OpenArtifact reads one of them, under a key of the keyring.
THEOREM BytesKept == Spec => []BytesHeld
<1>1. StoreInv => BytesHeld
  BY DEF StoreInv, TypeOK, StreamsStand, CustodyInv, Agreed, StreamReads, BytesHeld
<1>. QED  BY <1>1, StoreAlways, PTL

\* While the server runs with a key configured, no active artifact is plaintext
\* on disk, whatever an earlier process without a key left there
\* (migrateArtifactEncryption, and the check of an existing blob in PutArtifact).
THEOREM EncryptedAtRest == Spec => []NoPlaintextCustody
<1>1. StoreInv => NoPlaintextCustody
  BY DEF StoreInv, CustodyInv, Agreed, NoPlaintextCustody
<1>. QED  BY <1>1, StoreAlways, PTL

\* While the server runs, the key id in the row of an active artifact is the one
\* its bytes are encrypted under, through rotations interrupted between the file
\* and the row; and VerifyIntegrity accepts a store whose calls all ran to their
\* end.
THEOREM MetadataTrue == Spec => []CustodyAgrees
<1>1. StoreInv => CustodyAgrees
  <2>. SUFFICES ASSUME StoreInv, proc = "up" PROVE CustodyAgrees
    BY DEF CustodyAgrees
  <2>1. \A a \in Artifacts : Active(a) =>
            row[a].enc = blob[row[a].content] /\ Readable(row[a].content)
    BY DEF StoreInv, CustodyInv, Agreed
  <2>2. ASSUME op = NoOp, faults = 0, NEW c \in Contents, blob[c] # None
        PROVE  Refs(c) # {}
    BY <2>2, RefsEmpty DEF StoreInv, NoOrphans, NoOp
  <2>. QED  BY <2>1, <2>2 DEF CustodyAgrees, VerifyIntegrity
<1>. QED  BY <1>1, StoreAlways, PTL
=============================================================================
