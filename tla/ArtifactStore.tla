---------------------------- MODULE ArtifactStore ----------------------------
(***************************************************************************)
(* Artifact custody of internal/research/store: content-addressed blobs on *)
(* disk, artifact rows in SQLite, the lock artifactMu between them,        *)
(* encryption and key rotation at startup, retention, and the two-phase    *)
(* purge that a restart completes.                                         *)
(*                                                                         *)
(* A content stands for its SHA-256 identity.  A blob is described by the  *)
(* key it is encrypted under (Plain: none).  One process holds the custody *)
(* directory (.custody.lock).                                              *)
(***************************************************************************)
EXTENDS Integers, FiniteSets

CONSTANTS
    Artifacts,    \* artifact ids; PutArtifact always draws a new one
    Contents,
    Keys,         \* custody keys
    Approvals,    \* purge decisions (approval and reason)
    Readers,      \* callers that hold an OpenArtifact stream
    Retention,    \* Config.ArtifactRetention, in ticks
    MaxTime,      \* bound: the clock
    MaxFaults,    \* bound: crashes and calls that fail part way
    Plain,        \* the encryption of an unencrypted blob
    None          \* no blob, no row, no decision, no deadline

ASSUME ArtifactStoreAssumption ==
    /\ Retention \in Nat \ {0}
    /\ MaxTime \in Nat
    /\ MaxFaults \in Nat
    /\ Plain \notin Keys /\ None \notin Keys \cup {Plain}
    /\ None \notin Artifacts \cup Contents \cup Approvals

VARIABLES
    proc,     \* down, the stages of openStore (encrypt, retain, purge), or up
    ring,     \* Store.artifactKeys, and activeArtifactKeyID
    kept,     \* the keys the operator has to keep, as the README has it
    refused,  \* the last openStore failed although those keys were given
    clock,
    faults,
    blob,     \* the encryption of each content's file, None when absent
    row,      \* the artifacts table
    todo,     \* what the current stage of openStore has still to process
    op,       \* the call that holds artifactMu for writing
    reader    \* the artifact each open stream reads, under artifactMu.RLock

vars == <<proc, ring, kept, refused, clock, faults, blob, row, todo, op, reader>>

-----------------------------------------------------------------------------
NoOp == [pc |-> "none", art |-> None, content |-> None, at |-> 0]

Row == [content : Contents,
        enc     : Keys \cup {Plain},           \* Encryption, EncryptionKeyID
        retain  : (0 .. MaxTime + Retention) \cup {None},
        purge   : Approvals \cup {None},       \* PurgedAt, PurgeApprovalID
        gone    : BOOLEAN]                     \* BlobDeletedAt

\* The absence of a row is no row.
ASSUME RowAssumption == None \notin Row

Rows(c)      == {a \in Artifacts : row[a] # None /\ row[a].content = c}
Active(a)    == row[a] # None /\ row[a].purge = None
\* Rows of a content that no purge has tombstoned.
Refs(c)      == {a \in Rows(c) : row[a].purge = None}
AllPurged(c) == Rows(c) # {} /\ Refs(c) = {}

\* verifyArtifactFile: the file is there and its key is in the keyring.
Readable(c) == blob[c] = Plain \/ blob[c] \in ring.keys

Unlocked == op = NoOp /\ \A r \in Readers : reader[r] = None

\* The database and the files as an older release left them: plaintext blobs,
\* rows without a retention deadline.
Legacy(c) == [content |-> c, enc |-> Plain, retain |-> None, purge |-> None,
              gone |-> FALSE]

Init ==
    /\ proc = "down" /\ ring = [active |-> Plain, keys |-> {}]
    /\ kept = {} /\ refused = FALSE /\ clock = 0 /\ faults = 0
    /\ \E old \in [Artifacts -> Contents \cup {None}] :
         /\ Cardinality({a \in Artifacts : old[a] # None}) <= 1
         /\ row = [a \in Artifacts |->
                     IF old[a] = None THEN None ELSE Legacy(old[a])]
         /\ blob = [c \in Contents |->
                     IF \E a \in Artifacts : old[a] = c THEN Plain ELSE None]
    /\ todo = {} /\ op = NoOp
    /\ reader = [r \in Readers |-> None]

-----------------------------------------------------------------------------
(* openStore. *)

\* The keyrings an operator may configure: the active key first, and, "remove
\* an old key only after a successful restart has migrated and verified the
\* complete store", the keys still to keep.
Keyrings ==
    {r \in [active : Keys \cup {Plain}, keys : SUBSET Keys] :
        \/ kept = {} /\ r.active = Plain /\ r.keys = {}
        \/ r.active \in r.keys /\ kept \subseteq r.keys}

\* listArtifactBlobs: only blobs with an untombstoned row.
listArtifactBlobs == {c \in Contents : Refs(c) # {}}

\* Mutant: a content with a tombstone marked deleted is taken to be finished.
approvedPurgesUnmarked ==
    {c \in Contents : AllPurged(c) /\ \A a \in Rows(c) : ~row[a].gone}

\* completeApprovedArtifactPurges: contents all of whose rows are tombstoned.
approvedPurges == {c \in Contents : AllPurged(c)}

Open ==
    /\ proc = "down"
    /\ \E r \in Keyrings : ring' = r /\ kept' = kept \cup r.keys
    /\ proc' = "encrypt" /\ refused' = FALSE
    /\ todo' = listArtifactBlobs
    /\ UNCHANGED <<clock, faults, blob, row, op, reader>>

\* openStore returns an error and the process ends.
Refuse ==
    /\ proc' = "down" /\ refused' = TRUE
    /\ todo' = {} /\ op' = NoOp
    /\ UNCHANGED <<ring, kept, clock, faults, blob, row, reader>>

\* migrateArtifactEncryption stops at a blob it cannot read.
EncryptRefused(c) ==
    /\ proc = "encrypt" /\ c \in todo /\ op = NoOp
    /\ ~Readable(c)
    /\ Refuse

\* Mutant: the metadata is only written for a blob that was just rotated.
RotateSkipsCurrent(c) ==
    /\ proc = "encrypt" /\ c \in todo /\ op = NoOp
    /\ Readable(c)
    /\ blob' = [blob EXCEPT ![c] = ring.active]
    /\ IF blob[c] = ring.active
         THEN todo' = todo \ {c} /\ op' = op
         ELSE op' = [NoOp EXCEPT !.pc = "meta", !.content = c] /\ todo' = todo
    /\ UNCHANGED <<proc, ring, kept, refused, clock, faults, row, reader>>

\* rotateArtifactBlob: the re-encrypted file replaces the old one by rename.
\* Without an active key every readable blob is plain already.
Rotate(c) ==
    /\ proc = "encrypt" /\ c \in todo /\ op = NoOp
    /\ Readable(c)
    /\ blob' = [blob EXCEPT ![c] = ring.active]
    /\ op' = [NoOp EXCEPT !.pc = "meta", !.content = c]
    /\ UNCHANGED <<proc, ring, kept, refused, clock, faults, row, todo, reader>>

\* The UPDATE of encryption and encryption_key_id, tombstones included.
RotateMeta ==
    /\ op.pc = "meta"
    /\ row' = [a \in Artifacts |->
                 IF a \in Rows(op.content) THEN [row[a] EXCEPT !.enc = ring.active]
                                           ELSE row[a]]
    /\ todo' = todo \ {op.content} /\ op' = NoOp
    /\ UNCHANGED <<proc, ring, kept, refused, clock, faults, blob, reader>>

Encrypted ==
    /\ proc = "encrypt" /\ todo = {} /\ op = NoOp
    /\ proc' = "retain"
    /\ todo' = {a \in Artifacts : row[a] # None /\ row[a].retain = None}
    /\ UNCHANGED <<ring, kept, refused, clock, faults, blob, row, op, reader>>

\* migrateArtifactRetention, row by row; no tombstone lacks a deadline, since
\* PurgeArtifact refuses an artifact without one.
Backfill(a) ==
    /\ proc = "retain" /\ a \in todo
    /\ row' = [row EXCEPT ![a].retain = clock + Retention]
    /\ todo' = todo \ {a}
    /\ UNCHANGED <<proc, ring, kept, refused, clock, faults, blob, op, reader>>

Backfilled ==
    /\ proc = "retain" /\ todo = {}
    /\ proc' = "purge" /\ todo' = approvedPurges
    /\ UNCHANGED <<ring, kept, refused, clock, faults, blob, row, op, reader>>

ResumePurge(c) ==
    /\ proc = "purge" /\ c \in todo /\ op = NoOp
    /\ op' = [NoOp EXCEPT !.pc = "unlink", !.content = c]
    /\ todo' = todo \ {c}
    /\ UNCHANGED <<proc, ring, kept, refused, clock, faults, blob, row, reader>>

ResumeRefused ==
    /\ proc = "purge" /\ op.pc = "unlink"
    /\ blob[op.content] # None /\ ~Readable(op.content)
    /\ Refuse

\* From here on the README lets the operator remove the older keys.
Opened ==
    /\ proc = "purge" /\ todo = {} /\ op = NoOp
    /\ proc' = "up"
    /\ kept' = {ring.active} \ {Plain}
    /\ UNCHANGED <<ring, refused, clock, faults, blob, row, todo, op, reader>>

-----------------------------------------------------------------------------
(* PutArtifact. *)

\* Mutant: an existing plaintext blob is taken over although a key is active.
PutBlobTakesPlain(a, c) ==
    /\ proc = "up" /\ Unlocked
    /\ row[a] = None
    /\ blob[c] # None => Readable(c)
    /\ blob' = [blob EXCEPT ![c] = IF @ = None THEN ring.active ELSE @]
    /\ op' = [pc |-> "insert", art |-> a, content |-> c, at |-> clock]
    /\ UNCHANGED <<proc, ring, kept, refused, clock, faults, row, todo, reader>>

\* The blob is renamed into place, or an existing one is verified and shared.
\* An unreadable blob, or a plain one under an active key, is an error that
\* changes nothing.
PutBlob(a, c) ==
    /\ proc = "up" /\ Unlocked
    /\ row[a] = None
    /\ blob[c] # None => Readable(c) /\ (ring.active # Plain => blob[c] # Plain)
    /\ blob' = [blob EXCEPT ![c] = IF @ = None THEN ring.active ELSE @]
    /\ op' = [pc |-> "insert", art |-> a, content |-> c, at |-> clock]
    /\ UNCHANGED <<proc, ring, kept, refused, clock, faults, row, todo, reader>>

\* The INSERT, with the deadline taken at the start of the call and the
\* encryption the blob really has.
PutRow ==
    /\ op.pc = "insert"
    /\ row' = [row EXCEPT ![op.art] =
          [content |-> op.content, enc |-> blob[op.content],
           retain |-> op.at + Retention, purge |-> None, gone |-> FALSE]]
    /\ op' = NoOp
    /\ UNCHANGED <<proc, ring, kept, refused, clock, faults, blob, todo, reader>>

-----------------------------------------------------------------------------
(* OpenArtifact and the Close of its stream. *)

OpenArtifact(r, a) ==
    /\ proc = "up" /\ op = NoOp
    /\ reader[r] = None
    /\ Active(a) /\ Readable(row[a].content)
    /\ reader' = [reader EXCEPT ![r] = a]
    /\ UNCHANGED <<proc, ring, kept, refused, clock, faults, blob, row, todo, op>>

CloseReader(r) ==
    /\ reader[r] # None
    /\ reader' = [reader EXCEPT ![r] = None]
    /\ UNCHANGED <<proc, ring, kept, refused, clock, faults, blob, row, todo, op>>

-----------------------------------------------------------------------------
(* PurgeArtifact. *)

\* Mutant: only writers exclude each other.
PurgeTombstoneUnderReaders(a, d) ==
    /\ proc = "up" /\ op = NoOp
    /\ row[a] # None /\ row[a].retain <= clock
    /\ \/ /\ row[a].purge = None /\ Readable(row[a].content)
          /\ row' = [row EXCEPT ![a].purge = d]
       \/ row[a].purge = d /\ UNCHANGED row
    /\ op' = [NoOp EXCEPT !.pc = "count", !.art = a, !.content = row[a].content]
    /\ UNCHANGED <<proc, ring, kept, refused, clock, faults, blob, todo, reader>>

\* Past its deadline and with its bytes verified, the artifact is tombstoned.
\* A repeated call goes on only with the recorded decision.
PurgeTombstone(a, d) ==
    /\ proc = "up" /\ Unlocked
    /\ row[a] # None /\ row[a].retain <= clock
    /\ \/ /\ row[a].purge = None /\ Readable(row[a].content)
          /\ row' = [row EXCEPT ![a].purge = d]
       \/ row[a].purge = d /\ UNCHANGED row
    /\ op' = [NoOp EXCEPT !.pc = "count", !.art = a, !.content = row[a].content]
    /\ UNCHANGED <<proc, ring, kept, refused, clock, faults, blob, todo, reader>>

\* Mutant: the references that remain are not counted.
PurgeCountIgnored ==
    /\ op.pc = "count"
    /\ op' = [op EXCEPT !.pc = "unlink"]
    /\ UNCHANGED <<proc, ring, kept, refused, clock, faults, blob, row, todo, reader>>

\* The count of active references decides whether the blob goes as well.
PurgeCount ==
    /\ op.pc = "count"
    /\ op' = (IF Refs(op.content) = {} THEN [op EXCEPT !.pc = "unlink"] ELSE NoOp)
    /\ UNCHANGED <<proc, ring, kept, refused, clock, faults, blob, row, todo, reader>>

\* finishArtifactBlobPurge: verify and remove the file, if it is still there.
Unlink ==
    /\ op.pc = "unlink"
    /\ blob[op.content] # None => Readable(op.content)
    /\ blob' = [blob EXCEPT ![op.content] = None]
    /\ op' = [op EXCEPT !.pc = "mark"]
    /\ UNCHANGED <<proc, ring, kept, refused, clock, faults, row, todo, reader>>

\* BlobDeletedAt is set row by row ...
Mark(a) ==
    /\ op.pc = "mark" /\ a \in Rows(op.content) /\ ~row[a].gone
    /\ Refs(op.content) = {}
    /\ row' = [row EXCEPT ![a].gone = TRUE]
    /\ UNCHANGED <<proc, ring, kept, refused, clock, faults, blob, todo, op, reader>>

\* ... until every tombstone of the content has it.
Marked ==
    /\ op.pc = "mark"
    /\ \A a \in Rows(op.content) : row[a].gone \/ Refs(op.content) # {}
    /\ op' = NoOp
    /\ UNCHANGED <<proc, ring, kept, refused, clock, faults, blob, row, todo, reader>>

-----------------------------------------------------------------------------
(* Failures and the environment. *)

\* The caller's context ends, or a file or database call fails: the deferred
\* unlock runs and what was done stays.
Abort ==
    /\ proc = "up" /\ op # NoOp
    /\ faults < MaxFaults /\ faults' = faults + 1
    /\ op' = NoOp
    /\ UNCHANGED <<proc, ring, kept, refused, clock, blob, row, todo, reader>>

Crash ==
    /\ proc # "down"
    /\ faults < MaxFaults /\ faults' = faults + 1
    /\ proc' = "down" /\ refused' = FALSE /\ todo' = {} /\ op' = NoOp
    /\ reader' = [r \in Readers |-> None]
    /\ UNCHANGED <<ring, kept, clock, blob, row>>

\* Server.Close, with no request in flight.
Close ==
    /\ proc = "up" /\ Unlocked
    /\ proc' = "down"
    /\ UNCHANGED <<ring, kept, refused, clock, faults, blob, row, todo, op, reader>>

Tick ==
    /\ clock < MaxTime /\ clock' = clock + 1
    /\ UNCHANGED <<proc, ring, kept, refused, faults, blob, row, todo, op, reader>>

-----------------------------------------------------------------------------
StoreStep ==
    \/ \E c \in Contents : EncryptRefused(c) \/ Rotate(c) \/ ResumePurge(c)
    \/ RotateMeta \/ Encrypted \/ Backfilled \/ ResumeRefused \/ Opened
    \/ \E a \in Artifacts : Backfill(a) \/ Mark(a)
    \/ PutRow \/ PurgeCount \/ Unlink \/ Marked

Next ==
    \/ Open \/ StoreStep \/ Abort \/ Crash \/ Close \/ Tick
    \/ \E a \in Artifacts, c \in Contents : PutBlob(a, c)
    \/ \E a \in Artifacts, d \in Approvals : PurgeTombstone(a, d)
    \/ \E r \in Readers, a \in Artifacts : OpenArtifact(r, a)
    \/ \E r \in Readers : CloseReader(r)

\* A call that holds the lock runs on, and a stopped server is started again.
Fairness == WF_vars(Open) /\ WF_vars(StoreStep)

Spec == Init /\ [][Next]_vars /\ Fairness

-----------------------------------------------------------------------------
(* Properties. *)

TypeOK ==
    /\ proc \in {"down", "encrypt", "retain", "purge", "up"}
    /\ ring \in [active : Keys \cup {Plain}, keys : SUBSET Keys]
    /\ kept \in SUBSET Keys
    /\ refused \in BOOLEAN
    /\ clock \in 0 .. MaxTime
    /\ faults \in 0 .. MaxFaults
    /\ blob \in [Contents -> Keys \cup {Plain, None}]
    /\ row \in [Artifacts -> Row \cup {None}]
    /\ todo \in SUBSET (Artifacts \cup Contents)
    /\ op \in [pc : {"none", "meta", "insert", "count", "unlink", "mark"},
               art : Artifacts \cup {None}, content : Contents \cup {None},
               at : 0 .. MaxTime]
    /\ reader \in [Readers -> Artifacts \cup {None}]

\* Custody: whatever crashed or failed, an artifact that no approved purge has
\* tombstoned still has its bytes, also when it shares them with purged ones.
ActiveHasBlob == \A a \in Artifacts : Active(a) => blob[row[a].content] # None

\* With a key configured no active artifact is in plaintext, also when an
\* interrupted upload from before left its bytes behind.
NoPlaintextCustody ==
    proc = "up" /\ ring.active # Plain =>
        \A a \in Artifacts : Active(a) => blob[row[a].content] # Plain

\* VerifyIntegrity: all active artifacts are readable and every blob belongs to
\* one.
VerifyIntegrity ==
    /\ \A a \in Artifacts : Active(a) => Readable(row[a].content)
    /\ \A c \in Contents : blob[c] # None => Refs(c) # {}

\* The key id in the metadata of an active artifact is the one its bytes are
\* encrypted under, although rotation changes the two in separate steps, and
\* VerifyIntegrity accepts a store in which no call was ever interrupted.
CustodyAgrees ==
    proc = "up" =>
        /\ \A a \in Artifacts : Active(a) /\ op.pc # "insert" => row[a].enc = blob[row[a].content]
        /\ op = NoOp /\ faults = 0 => VerifyIntegrity

\* As long as a stream of OpenArtifact is open its artifact is not tombstoned,
\* its bytes are there and their key is in the keyring: the stream keeps the
\* read lock until it is closed.
StreamReads ==
    \A r \in Readers : reader[r] # None =>
        Active(reader[r]) /\ Readable(row[reader[r]].content)

\* What is referred to is there: the bytes of every active artifact
\* (ActiveHasBlob), and those a client is still reading, under a purge or a
\* shutdown that begins meanwhile (StreamReads).
BytesHeld == ActiveHasBlob /\ StreamReads

\* Approved purges are retried at startup until they are done: once the process
\* is down, bytes that only tombstones refer to are eventually gone and recorded
\* so, or uploaded anew, or startup reports that it cannot read them.
PurgeCompletes ==
    \A c \in Contents :
        AllPurged(c) /\ proc # "up" ~>
            \/ \A a \in Rows(c) : row[a].gone
            \/ Refs(c) # {} \/ refused
=============================================================================
