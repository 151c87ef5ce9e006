----------------------------- MODULE Workspace -----------------------------
(***************************************************************************)
(* The file tools of internal/tools/builtin (file_read, read_dir,          *)
(* file_write, file_edit) over a file system: a function from paths to     *)
(* files, directories and symbolic links.  A path is a sequence of names;  *)
(* Root is the folder that is open.  A tool is an operator on the file     *)
(* system: its result, and for one that changes it the file system after.  *)
(***************************************************************************)
EXTENDS Providers

CONSTANT Root \* the opened folder

File(body) == [kind |-> "file", body |-> body, to |-> <<>>]
Dir == [kind |-> "dir", body |-> <<>>, to |-> <<>>]
Link(to) == [kind |-> "link", body |-> <<>>, to |-> to]

(* filepath.Clean of a join: ".." takes the last name away.                   *)
Clean(path) ==
    FoldLeft(LAMBDA acc, n : IF n = "." THEN acc
                             ELSE IF n = ".." THEN (IF acc = <<>> THEN <<>> ELSE Front(acc))
                             ELSE Append(acc, n), <<>>, path)

insideRoot(abs, root) == IsPrefix(root, abs)

(* EvalSymlinks: the link on the way is followed (a path of the model has at  *)
(* most one, and it leads to a path without); None if nothing is there.       *)
EvalSymlinks(fs, path) ==
    LET links == {n \in DOMAIN path : SubSeq(path, 1, n) \in DOMAIN fs /\ fs[SubSeq(path, 1, n)].kind = "link"}
        real == IF links = {} THEN path
                ELSE LET n == CHOOSE n \in links : TRUE
                     IN fs[SubSeq(path, 1, n)].to \o SubSeq(path, n + 1, Len(path))
    IN IF real \in DOMAIN fs THEN real ELSE None

Err == [err |-> TRUE, body |-> <<"error">>]
Ok(body) == [err |-> FALSE, body |-> body]

(* A path the tools may read: inside the root, also after its links, if it    *)
(* resolves at all.                                                           *)
readable(fs, abs) ==
    /\ insideRoot(abs, Root)
    /\ LET real == EvalSymlinks(fs, abs) IN real # None => insideRoot(real, Root)

(* file_read, without a pattern: the first bytes and a note of the rest.      *)
FileRead(fs, path, cap) ==
    LET abs == Clean(Root \o path)
        real == EvalSymlinks(fs, abs)
    IN IF path = <<>> \/ ~readable(fs, abs) \/ real = None THEN Err
       ELSE IF fs[real].kind = "dir" THEN Err
       ELSE Ok(IF Len(fs[real].body) > cap THEN Append(SubSeq(fs[real].body, 1, cap), "truncated") ELSE fs[real].body)

(* read_dir: the files below the folder in one fixed order, links that lead   *)
(* out skipped, until one does not fit the budget.                            *)
WalkDir(fs, abs) == SetToSeq({p \in DOMAIN fs : IsStrictPrefix(abs, p) /\ fs[p].kind # "dir"})

readCappedFile(fs, p) ==
    LET real == EvalSymlinks(fs, p)
    IN IF real = None \/ ~insideRoot(real, Root) \/ fs[real].kind = "dir" THEN None ELSE fs[real].body

ReadDir(fs, path, budget) ==
    LET abs == Clean(Root \o path)
        real == EvalSymlinks(fs, abs)
        files == SelectSeq(WalkDir(fs, abs), LAMBDA p : readCappedFile(fs, p) # None)
        packed(n) == FlattenSeq([k \in 1..n |-> readCappedFile(fs, files[k])])
        fits(n) == Len(packed(n)) <= budget
    IN IF ~insideRoot(abs, Root) \/ real = None THEN Err
       ELSE IF fs[real].kind # "dir" THEN Err
       ELSE LET n == CHOOSE n \in 0..Len(files) : fits(n) /\ (n < Len(files) => ~fits(n + 1))
            IN Ok(IF packed(n) = <<>> THEN <<"no files">> ELSE packed(n))

-----------------------------------------------------------------------------
(* The target of a change: inside the root, its nearest existing ancestor     *)
(* inside the root after its links, and a regular file if it exists.          *)

Ancestor(fs, abs) ==
    LET known(n) == SubSeq(abs, 1, n) \in DOMAIN fs \/ EvalSymlinks(fs, SubSeq(abs, 1, n)) # None
    IN SubSeq(abs, 1, CHOOSE n \in DOMAIN abs : known(n) /\ \A k \in (n + 1)..Len(abs) : ~known(k))

(* Mutant: the path is judged before its links are resolved.                  *)
resolveWorkspaceTargetLexical(fs, path) ==
    LET abs == Clean(Root \o path) IN IF insideRoot(abs, Root) THEN abs ELSE None

resolveWorkspaceTarget(fs, path) ==
    LET abs == Clean(Root \o path)
        real == EvalSymlinks(fs, Ancestor(fs, abs))
        there == abs \in DOMAIN fs
        through == EvalSymlinks(fs, abs)
    IN IF /\ path # <<>>
          /\ insideRoot(abs, Root)
          /\ real # None => insideRoot(real, Root)
          /\ there => fs[abs].kind = "file"
          /\ through # None => fs[through].kind = "file"
       THEN abs ELSE None

(* A temporary file beside the target and a rename: the folder must exist.    *)
(* The system follows links on the way to the folder.                         *)
atomicWrite(fs, abs, body) ==
    LET dir == EvalSymlinks(fs, Front(abs))
    IN IF dir = None THEN None
       ELSE IF fs[dir].kind # "dir" THEN None
       ELSE Append(dir, Last(abs)) :> File(body) @@ fs

(* The changing tools, given the target their path resolves to.               *)
Write(fs, abs, body, cap) ==
    LET after == atomicWrite(fs, abs, body)
    IN IF Len(body) > cap \/ abs = None THEN [res |-> Err, fs |-> fs]
       ELSE IF after = None THEN [res |-> Err, fs |-> fs]
       ELSE [res |-> Ok(<<"written">>), fs |-> after]

FileWrite(fs, path, body, cap) == {Write(fs, abs, body, cap) : abs \in {resolveWorkspaceTarget(fs, path)}}

(* file_edit: the old passage must occur exactly once.                        *)
Edit(fs, abs, old, new, cap) ==
    LET real == IF abs = None THEN None ELSE EvalSymlinks(fs, abs)
        at == IF real = None THEN {} ELSE {i \in DOMAIN fs[real].body : fs[real].body[i] = old}
    IN IF old = new \/ Cardinality(at) # 1 THEN [res |-> Err, fs |-> fs]
       ELSE Write(fs, abs, [fs[real].body EXCEPT ![CHOOSE i \in at : TRUE] = new], cap)

FileEdit(fs, path, old, new, cap) == {Edit(fs, abs, old, new, cap) : abs \in {resolveWorkspaceTarget(fs, path)}}
=============================================================================
