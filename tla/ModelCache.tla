----------------------------- MODULE ModelCache -----------------------------
(***************************************************************************)
(* Downloads of model files: internal/llm/llamacpp/download.go.  Processes *)
(* share one models directory.  EnsureArtifacts uses the pinned manifest   *)
(* when every file of it verifies, else resolves the repository, pins the  *)
(* manifest, and fetches the missing files into private stages which it    *)
(* renames to their final names once all of them verify.  The directory    *)
(* and the commit are protected by file locks, in this order; a process    *)
(* may die anywhere.                                                       *)
(***************************************************************************)
EXTENDS Sizing, FiniteSets

CONSTANTS
    Procs,      \* processes that share the models directory
    Repos,      \* repositories
    Commits,    \* commits a branch may point to
    Listing,    \* [Repos -> [Commits -> set of files the hub lists]]
    Ref,        \* [Repos -> selector: file, quant and projector asked for]
    FirstCommit, \* commit the branches point to at first
    MaxMoves,   \* bound: times the branch of a repository moves
    None

(* A listing names every file once, with its size.                            *)
ASSUME CacheAssumption ==
    /\ FirstCommit \in Commits /\ None \notin Procs
    /\ \A r \in Repos, c \in Commits :
          /\ IsFiniteSet(Listing[r][c])
          /\ \A f, g \in Listing[r][c] : f.size \in Nat /\ (f.name = g.name => f = g)

VARIABLES
    head,    \* commit the branch of each repository points to
    moves,
    pin,     \* cached manifest of each repository, or None
    final,   \* content at the final path of each file
    part,    \* content of the resumable .part of each file
    stage,   \* content of each process' private stage of each file
    acq,     \* holder of the acquisition lock of the models directory
    man,     \* holder of the lock of each commit's cache directory
    dl       \* the EnsureArtifacts call of each process

cacheVars == <<head, moves, pin, final, part, stage, acq, man, dl>>

(* A file is absent, a prefix of the right bytes, as long as it should be    *)
(* but wrong, or right.                                                      *)
Content == {"none", "prefix", "wrong", "good"}

Dirs == Repos \X Commits
Names == UNION {{f.name : f \in Listing[d[1]][d[2]]} : d \in Dirs}
Paths == Repos \X Commits \X Names

-----------------------------------------------------------------------------
(* The choice of files.  A listed file is [name, kind, base, shard, total,   *)
(* quant, size, sha]; total = 0 for a file that is not split.                *)

groupMatchesQuant(g, quant) == quant # Unset /\ \A f \in g : f.quant = quant

selectedQuant(quant) == IF quant = Unset THEN "Q4_K_M" ELSE quant

manifestQuant(ref) ==
    IF ref.quant # Unset THEN ref.quant ELSE IF ref.file # Unset THEN Unset ELSE "Q4_K_M"

Siblings(files, f) ==
    IF f.total = 0 THEN {f} ELSE {g \in files : g.total = f.total /\ g.base = f.base}

CompleteGroup(g) ==
    \A f \in g : f.total = 0 \/ ({h.shard : h \in g} = 1..f.total /\ Cardinality(g) = f.total)

(* The groups of model files, or None when a split set misses a shard.       *)
groupModels(files) ==
    LET groups == {Siblings(files, f) : f \in files}
    IN IF \A g \in groups : CompleteGroup(g) THEN groups ELSE None

(* The one group the selector names; None when it names none or several.     *)
selectModelGroup(groups, ref) ==
    LET named == {g \in groups : \E f \in g : f.name = ref.file}
        matching == {g \in groups : groupMatchesQuant(g, selectedQuant(ref.quant))}
        ok == IF ref.file # Unset
              THEN {g \in named : ref.quant = Unset \/ groupMatchesQuant(g, ref.quant)}
              ELSE matching
    IN IF Cardinality(ok) = 1 THEN CHOOSE g \in ok : TRUE ELSE None

selectProjector(files, ref) ==
    LET asked == {f \in files : f.name = ref.mmproj}
    IN IF ref.mmproj # Unset THEN IF asked = {} THEN None ELSE asked
       ELSE IF Cardinality(files) > 1 THEN None ELSE files

selectArtifacts(ref, listing) ==
    LET groups == groupModels({f \in listing : f.kind = "model"})
        models == IF groups = None THEN None ELSE selectModelGroup(groups, ref)
        projector == selectProjector({f \in listing : f.kind = "mmproj"}, ref)
    IN IF models = None \/ projector = None THEN None ELSE [models |-> models, mmproj |-> projector]

(* An artifact needs a size and a digest from the hub to be trusted.         *)
manifestArtifact(f) == f.size > 0 /\ f.sha

ResolveManifest(repo) ==
    LET chosen == selectArtifacts(Ref[repo], Listing[repo][head[repo]])
    IN IF chosen = None \/ \E f \in chosen.models \cup chosen.mmproj : ~manifestArtifact(f) THEN None
       ELSE [repo |-> repo, commit |-> head[repo], models |-> chosen.models,
             mmproj |-> chosen.mmproj, quant |-> manifestQuant(Ref[repo])]

Artifacts(m) == m.models \cup m.mmproj

TotalSize(files) == SumFunctionOnSet([f \in files |-> f.size], files)

Path(m, f) == <<m.repo, m.commit, f.name>>

manifestDir(m) == <<m.repo, m.commit>>

(* What a cached manifest must satisfy to stand for the selector.            *)
validateCachedManifestSelection(ref, m) ==
    /\ IF ref.file # Unset
       THEN /\ \E f \in m.models : f.name = ref.file
            /\ m.quant = ref.quant
       ELSE /\ m.quant = selectedQuant(ref.quant)
            /\ \E f \in m.models : groupMatchesQuant({f}, m.quant)
    /\ ref.mmproj # Unset => \E f \in m.mmproj : f.name = ref.mmproj

validateCachedArtifact(m) == \A f \in Artifacts(m) : manifestArtifact(f)

loadCachedManifest(repo) ==
    LET m == pin[repo]
    IN IF /\ m # None /\ m.repo = repo /\ m.models # {}
          /\ validateCachedManifestSelection(Ref[repo], m)
          /\ validateCachedArtifact(m)
       THEN m ELSE None

verifyArtifact(content) == content = "good"

validCached(m) == {f \in Artifacts(m) : verifyArtifact(final[Path(m, f)])}

allArtifactsValid(m) == m.models # {} /\ validCached(m) = Artifacts(m)

(* The estimate before a download: with the context of the runtime, but      *)
(* neither its KV cache type nor its accelerator.                            *)
planManifest(p, m, host) ==
    EstimateFitWithPolicy(host,
        [model |-> TotalSize(m.models), mmproj |-> TotalSize(m.mmproj),
         download |-> TotalSize(Artifacts(m) \ validCached(m)),
         ctx |-> dl[p].ctx, parallel |-> 1, layers |-> 0, vram |-> 0, unified |-> FALSE,
         kv |-> Unset, reclaimable |-> 0])

-----------------------------------------------------------------------------
Idle == [pc |-> "idle", repo |-> None, ctx |-> 0, m |-> None, todo |-> {}, file |-> None, report |-> None]

CacheInit ==
    /\ head = [r \in Repos |-> FirstCommit]
    /\ moves = 0
    /\ pin = [r \in Repos |-> None]
    /\ final = [x \in Paths |-> "none"]
    /\ part = [x \in Paths |-> "none"]
    /\ stage = [p \in Procs |-> [x \in Paths |-> "none"]]
    /\ acq = None
    /\ man = [d \in Dirs |-> None]
    /\ dl = [p \in Procs |-> Idle]

HubMoves(r) ==
    /\ moves < MaxMoves
    /\ moves' = moves + 1
    /\ \E c \in Commits \ {head[r]} : head' = [head EXCEPT ![r] = c]
    /\ UNCHANGED <<pin, final, part, stage, acq, man, dl>>

EnsureCall(p, repo, ctx) ==
    /\ dl[p].pc = "idle"
    /\ dl' = [dl EXCEPT ![p] = [Idle EXCEPT !.pc = IF loadCachedManifest(repo) = None THEN "resolve" ELSE "cached",
                                            !.repo = repo, !.ctx = ctx, !.m = loadCachedManifest(repo)]]
    /\ UNCHANGED <<head, moves, pin, final, part, stage, acq, man>>

(* The cached path takes only the lock of the manifest's directory, plans    *)
(* and releases it.                                                          *)
CachedPlan(p, host) ==
    /\ dl[p].pc = "cached"
    /\ man[manifestDir(dl[p].m)] = None
    /\ LET m == dl[p].m
           report == planManifest(p, m, host)
       IN dl' = [dl EXCEPT ![p].pc = IF ~allArtifactsValid(m) THEN "resolve"
                                     ELSE IF report.fits THEN "got" ELSE "refused",
                           ![p].report = report]
    /\ UNCHANGED <<head, moves, pin, final, part, stage, acq, man>>

(* The hub answers, or it cannot be reached and the pinned manifest serves.   *)
Resolve(p) ==
    /\ dl[p].pc = "resolve"
    /\ \E m \in {ResolveManifest(dl[p].repo), None} :
         LET used == IF m # None THEN m ELSE loadCachedManifest(dl[p].repo)
         IN dl' = [dl EXCEPT ![p].pc = IF used = None THEN "failed" ELSE "acquire",
                             ![p].m = used, ![p].todo = IF m = None THEN {} ELSE {"pin"}]
    /\ UNCHANGED <<head, moves, pin, final, part, stage, acq, man>>

AcquireModelsDir(p) ==
    /\ dl[p].pc = "acquire"
    /\ acq = None
    /\ acq' = p
    /\ dl' = [dl EXCEPT ![p].pc = "acquireManifest"]
    /\ UNCHANGED <<head, moves, pin, final, part, stage, man>>

(* A manifest resolved from the hub is pinned before anything is fetched.    *)
acquireManifestLock(p) ==
    /\ dl[p].pc = "acquireManifest"
    /\ man[manifestDir(dl[p].m)] = None
    /\ man' = [man EXCEPT ![manifestDir(dl[p].m)] = p]
    /\ pin' = IF "pin" \in dl[p].todo THEN [pin EXCEPT ![dl[p].repo] = dl[p].m] ELSE pin
    /\ dl' = [dl EXCEPT ![p].pc = "plan", ![p].todo = {}]
    /\ UNCHANGED <<head, moves, final, part, stage, acq>>

ReleaseLocks(p) ==
    /\ acq' = IF acq = p THEN None ELSE acq
    /\ man' = [d \in Dirs |-> IF man[d] = p THEN None ELSE man[d]]

Plan(p, host) ==
    /\ dl[p].pc = "plan"
    /\ LET m == dl[p].m
           report == planManifest(p, m, host)
       IN dl' = [dl EXCEPT ![p].pc = IF ~report.fits THEN "refused"
                                     ELSE IF allArtifactsValid(m) THEN "commit" ELSE "claim",
                           ![p].report = report,
                           ![p].todo = Artifacts(m) \ validCached(m)]
    /\ IF dl'[p].pc = "refused" THEN ReleaseLocks(p) ELSE UNCHANGED <<acq, man>>
    /\ UNCHANGED <<head, moves, pin, final, part, stage>>

Unstaged == [x \in Paths |-> "none"]

(* The partial of the next file, or an empty file, becomes the private stage. *)
claimPartial(p) ==
    /\ dl[p].pc = "claim"
    /\ \E f \in dl[p].todo : LET x == Path(dl[p].m, f) IN
         /\ stage' = [stage EXCEPT ![p][x] = IF part[x] = "none" THEN "prefix" ELSE part[x]]
         /\ part' = [part EXCEPT ![x] = "none"]
         /\ dl' = [dl EXCEPT ![p].pc = "fetch", ![p].file = f]
    /\ UNCHANGED <<head, moves, pin, final, acq, man>>

\* Mutant: only the stage of the file that failed is given back.
restoreFailed(staged, x) == [part EXCEPT ![x] = staged[x]]

(* When the call fails every stage is renamed back to its stable name, unless *)
(* a file is there.                                                           *)
restorePartial(staged, x) ==
    [y \in Paths |-> IF staged[y] # "none" /\ part[y] = "none" THEN staged[y] ELSE part[y]]

\* Mutant: a body of the right length is accepted without its digest.
acceptLength(c) == c \in {"wrong", "good"}

(* Whether downloadArtifact is content with the bytes it has.                *)
acceptDownload(c) == verifyArtifact(c)

(* A transfer: the stage was complete already, is completed by the rest of    *)
(* the file or by a full body, or the answer is refused or cut off.  Bytes    *)
(* with the wrong digest are removed.                                         *)
downloadArtifact(p) ==
    /\ dl[p].pc = "fetch"
    /\ LET x == Path(dl[p].m, dl[p].file) IN
       \E got \in IF stage[p][x] = "good" THEN {"good"} ELSE {"prefix", "wrong", "good"} :
         LET staged == [stage[p] EXCEPT ![x] = IF got = "wrong" /\ ~acceptDownload(got) THEN "none" ELSE got]
         IN IF acceptDownload(got)
            THEN /\ stage' = [stage EXCEPT ![p] = staged]
                 /\ dl' = [dl EXCEPT ![p].todo = @ \ {dl[p].file}, ![p].file = None,
                                     ![p].pc = IF dl[p].todo = {dl[p].file} THEN "commit" ELSE "claim"]
                 /\ UNCHANGED <<part, acq, man>>
            ELSE /\ part' = restorePartial(staged, x)
                 /\ stage' = [stage EXCEPT ![p] = Unstaged]
                 /\ dl' = [dl EXCEPT ![p].pc = "failed", ![p].file = None]
                 /\ ReleaseLocks(p)
    /\ UNCHANGED <<head, moves, pin, final>>

(* Once every file is staged they are renamed one after the other.           *)
commitStagedFile(p) ==
    /\ dl[p].pc = "commit"
    /\ \E x \in Paths :
         /\ stage[p][x] # "none"
         /\ final' = [final EXCEPT ![x] = stage[p][x]]
         /\ stage' = [stage EXCEPT ![p][x] = "none"]
    /\ UNCHANGED <<head, moves, pin, part, acq, man, dl>>

verifyManifestDirectory(p) ==
    /\ dl[p].pc = "commit"
    /\ stage[p] = Unstaged
    /\ dl' = [dl EXCEPT ![p].pc = IF allArtifactsValid(dl[p].m) THEN "got" ELSE "failed"]
    /\ ReleaseLocks(p)
    /\ UNCHANGED <<head, moves, pin, final, part, stage>>

(* The caller's context ends while the call waits for the hub or a lock.      *)
EnsureCancelled(p) ==
    /\ dl[p].pc \in {"cached", "resolve", "acquire", "acquireManifest"}
    /\ dl' = [dl EXCEPT ![p].pc = "failed"]
    /\ ReleaseLocks(p)
    /\ UNCHANGED <<head, moves, pin, final, part, stage>>

(* The process dies: the system drops its locks; its stages keep names that   *)
(* nobody looks for.                                                          *)
CacheCrash(p) ==
    /\ dl' = [dl EXCEPT ![p] = Idle]
    /\ stage' = [stage EXCEPT ![p] = Unstaged]
    /\ ReleaseLocks(p)
    /\ UNCHANGED <<head, moves, pin, final, part>>

CacheStep(p) ==
    \/ Resolve(p) \/ AcquireModelsDir(p) \/ acquireManifestLock(p) \/ claimPartial(p)
    \/ downloadArtifact(p) \/ commitStagedFile(p) \/ verifyManifestDirectory(p)

-----------------------------------------------------------------------------
(* What stands at a final path is complete and has the digest of its          *)
(* manifest, whatever attempt failed or died before: no partial file becomes  *)
(* visible (EnsureArtifacts, "nothing becomes visible at its final path until *)
(* ... hash-validated").                                                      *)
FinalsVerified == \A x \in Paths : final[x] \in {"none", "good"}

Verified(x) == final[x] = "good" \/ part[x] = "good" \/ \E p \in Procs : stage[p][x] = "good"
=============================================================================
