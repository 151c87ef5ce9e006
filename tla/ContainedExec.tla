--------------------------- MODULE ContainedExec ---------------------------
(***************************************************************************)
(* The run tool of internal/tools/builtin/exec.go: which requests it       *)
(* turns into a container, what the container may touch, and what the      *)
(* model reads of its output.                                              *)
(***************************************************************************)
EXTENDS Workspace

CONSTANTS
    Home,        \* the user's home folder
    ImagePin     \* "none", "valid" or "malformed": the configured image digest

execOperations == {"build", "fuzz", "reproduce", "triage"}

(* The root of the file system and the home folder are too broad to mount.    *)
validateWorkspaceRoot(fs) ==
    LET real == EvalSymlinks(fs, Root)
    IN IF real = None THEN FALSE ELSE fs[real].kind = "dir" /\ real \notin {<<>>, Home}

(* An input is a regular file of the workspace, and no link.                  *)
workspaceRel(fs, path) ==
    LET abs == Clean(Root \o path)
    IN /\ path # <<>> /\ readable(fs, abs)
       /\ abs \in DOMAIN fs
       /\ fs[abs].kind = "file"

buildSpec(fs, a) ==
    /\ ImagePin # "malformed"
    /\ a.op \in {"fuzz", "reproduce"} => a.surface
    /\ a.op = "reproduce" => workspaceRel(fs, a.path)

(* What Execute makes of its arguments: an error, the hint that build is not  *)
(* for the container, or a container.                                         *)
Plan(fs, a) ==
    IF a.op \notin execOperations \/ ~validateWorkspaceRoot(fs) THEN "error"
    ELSE IF a.op = "build" THEN "hint"
    ELSE IF buildSpec(fs, a) THEN "run" ELSE "error"

-----------------------------------------------------------------------------
(* The container sees the workspace, read-only, and a scratch folder of its   *)
(* own; its root is read-only too.  Nothing else of the host is mounted.      *)
buildDockerArgs == {[host |-> Root, writable |-> FALSE]}

(* What a run may leave on the host: any file of a writable mount changed,    *)
(* also through the links inside it (external: the container runtime).        *)
Effects(fs) ==
    {fs} \cup {[fs EXCEPT ![p] = File(<<"overwritten">>)] :
                 p \in {q \in DOMAIN fs : /\ fs[q].kind = "file"
                                          /\ \E m \in buildDockerArgs : m.writable /\ insideRoot(q, m.host)}}

-----------------------------------------------------------------------------
(* The output is kept up to a cap, the rest counted.                          *)
capWriter(out, cap) == SubSeq(out, 1, IF Len(out) < cap THEN Len(out) ELSE cap)

sanitizerHit(out) == Contains(out, "asan")

(* The model reads the status, whether something was dropped, whether what    *)
(* was kept holds a report, and what was kept.                                *)
formatResult(status, out, cap) ==
    LET kept == capWriter(out, cap)
    IN <<status>> \o (IF Len(kept) < Len(out) THEN <<"truncated">> ELSE <<>>)
       \o (IF sanitizerHit(kept) THEN <<"report">> ELSE <<"no report">>) \o kept
=============================================================================
