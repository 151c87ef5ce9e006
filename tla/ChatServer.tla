----------------------------- MODULE ChatServer -----------------------------
(***************************************************************************)
(* POST /v1/chat/completions (internal/server): the request is checked, a  *)
(* provider is resolved, an agent with its tools is built for this request *)
(* alone, and either the loop streams its answer or the refinement loop    *)
(* streams its rounds and then its result.                                 *)
(***************************************************************************)
EXTENDS Refine

CONSTANTS
    Requests,        \* the requests a client may send
    Registered,      \* providers the server has
    DefaultProvider, \* the configured default
    RagOn, GraphExpand, ServerAgentic, WorkspaceOpen, AllowExec,
    HasJudge,        \* {TRUE}, {FALSE} or both: whether a judge is configured
    Files            \* the file system at the start

VARIABLES
    h,         \* the handler: idle, stream, refine, drain, closing or ended
    delivered  \* the refinement result shown to the client

vars == <<agentVars, rf, h, delivered>>

Init ==
    /\ AgentInit /\ fs = Files
    /\ rf = NoRefine /\ h = "idle" /\ delivered = None

-----------------------------------------------------------------------------
(* The provider of a request: the one it names, or the cluster, the default,  *)
(* any other.                                                                 *)
fallbackProvider ==
    IF "cluster" \in Registered THEN "cluster"
    ELSE IF DefaultProvider \in Registered THEN DefaultProvider
    ELSE CHOOSE p \in Registered : TRUE

resolveProviderModel(named) == IF named \in Registered THEN named ELSE fallbackProvider

shouldAgentic(asked) == RagOn /\ IF asked = None THEN ServerAgentic ELSE asked

(* The tools of one request.                                                  *)
NewDefaultRegistryWithExec ==
    {"file_read", "read_dir"}
        \cup (IF WorkspaceOpen THEN {"file_write", "file_edit"} ELSE {})
        \cup (IF WorkspaceOpen /\ AllowExec THEN {"run"} ELSE {})

newAgent(prov) ==
    [NoAgent EXCEPT !.prov = prov, !.rag = RagOn,
                    !.tools = NewDefaultRegistryWithExec
                                \cup (IF RagOn THEN {"rag_search"} ELSE {})
                                \cup (IF RagOn /\ GraphExpand THEN {"graph_expand"} ELSE {}),
                    !.compactor = (prov = "llamacpp" /\ "openai" \in Registered)]

(* The last message must be the user's.                                       *)
splitHistory(msgs) ==
    IF msgs = <<>> THEN None
    ELSE IF Last(msgs).role # "user" THEN None
    ELSE [history |-> Front(msgs), last |-> Last(msgs)]

clampRefineIters(n) == IF n > MaxRefineIters THEN MaxRefineIters ELSE n

handleChatCompletions ==
    /\ h = "idle"
    /\ \E r \in Requests :
         LET prov == resolveProviderModel(r.provider)
             split == splitHistory(r.messages)
             agent == [newAgent(prov) EXCEPT !.agentic = shouldAgentic(r.agentic)]
         IN \/ /\ ~r.stream \/ r.messages = <<>> \/ Registered = {}
               /\ h' = "ended"
               /\ UNCHANGED <<agentVars, rf>>
            \/ /\ r.stream /\ r.messages # <<>> /\ Registered # {} /\ split = None
               /\ h' = "ended" /\ sse' = <<"stop", "done">>
               /\ UNCHANGED <<ag, session, prods, box, fs, cache, memory, gone, ctx, seen, rf>>
            \/ /\ r.stream /\ r.messages # <<>> /\ Registered # {} /\ split # None
               /\ IF r.refine
                  THEN \/ /\ TRUE \in HasJudge
                          /\ h' = "refine"
                          /\ rf' = [NoRefine EXCEPT !.pc = "next", !.task = split.last.body,
                                                    !.iters = withDefaults(clampRefineIters(r.iters))]
                          /\ ag' = [agent EXCEPT !.pc = "returned"]
                          /\ UNCHANGED <<session, seen, sse>>
                       \/ /\ FALSE \in HasJudge
                          /\ h' = "ended" /\ sse' = <<"error", "done">>
                          /\ UNCHANGED <<rf, ag, session, seen>>
                  ELSE /\ h' = "stream"
                       /\ ag' = [agent EXCEPT !.pc = "begin", !.streaming = TRUE, !.user = split.last.body]
                       /\ session' = split.history
                       /\ seen' = UNION {Range(split.history[i].body) : i \in DOMAIN split.history}
                       /\ UNCHANGED <<rf, sse>>
               /\ UNCHANGED <<prods, box, fs, cache, memory, gone, ctx>>
    /\ UNCHANGED delivered

(* The stream is over: an error frame if the loop failed, and the terminator. *)
FinishStream ==
    /\ h = "stream" /\ ag.pc = "returned"
    /\ sse' = sse \o (IF ag.ok THEN <<"done">> ELSE <<"error", "done">>)
    /\ h' = "ended"
    /\ UNCHANGED <<ag, session, prods, box, fs, cache, memory, gone, ctx, seen, rf, delivered>>

-----------------------------------------------------------------------------
(* streamRefine: rounds are shown as they come, until the outcome arrives or  *)
(* the client has left.                                                       *)

emitRefineRound ==
    /\ h \in {"refine", "drain"} /\ rf.chan # <<>>
    /\ rf' = [rf EXCEPT !.chan = Tail(@)]
    /\ UNCHANGED <<agentVars, h, delivered>>

RefineOutcome ==
    /\ h = "refine" /\ rf.out # None
    /\ h' = "drain"
    /\ UNCHANGED <<agentVars, rf, delivered>>

RefineLeft ==
    /\ h = "refine" /\ ctx # "live"
    /\ h' = "ended"
    /\ UNCHANGED <<agentVars, rf, delivered>>

(* The status goes before the answer.                                         *)
FinishRefine ==
    /\ h = "drain" /\ rf.chan = <<>>
    /\ h' = "ended"
    /\ IF rf.out = "error"
       THEN sse' = sse \o <<"error", "done">> /\ UNCHANGED delivered
       ELSE /\ sse' = sse \o <<"summary", "content", "stop", "done">>
            /\ delivered' = [usable |-> rf.usable, answer |-> rf.final]
    /\ UNCHANGED <<ag, session, prods, box, fs, cache, memory, gone, ctx, seen, rf>>

-----------------------------------------------------------------------------
(* The goroutines: the one that runs the agent (in a refinement not the       *)
(* handler's), the handler of a refinement, those of the streams.             *)
Runner ==
    \/ Loop /\ UNCHANGED <<rf, h, delivered>>
    \/ RefineLoop /\ UNCHANGED <<h, delivered>>
    \/ FinishStream

RefineHandler == emitRefineRound \/ RefineOutcome \/ RefineLeft \/ FinishRefine

Producers == (\E i \in 1..MaxIters : Producer(i)) /\ UNCHANGED <<rf, h, delivered>>

Noticed == Notice /\ UNCHANGED <<rf, h, delivered>>

Next ==
    \/ handleChatCompletions \/ Runner \/ RefineHandler \/ Producers \/ Noticed
    \/ Leave /\ UNCHANGED <<rf, h, delivered>>
    \/ (RefineDeadline \/ RefinePanic) /\ UNCHANGED <<h, delivered>>

(* Every goroutine keeps running; a provider, the judge and the container     *)
(* answer or fail in the end.                                                 *)
Fairness == WF_vars(Runner) /\ WF_vars(RefineHandler) /\ WF_vars(Producers) /\ WF_vars(Noticed)

Spec == Init /\ [][Next]_vars /\ Fairness

-----------------------------------------------------------------------------
(* What the provider is sent is within the budget, or cannot be made smaller: *)
(* every message that may be rewritten has been cut to its head, its tail and *)
(* the summary.  And nothing is lost: a passage that is no longer in the      *)
(* session can be searched, so context_search is among the tools              *)
(* (compactSession, agent.go).                                                *)
PromptFaithful ==
    ag.pc = "call" =>
        /\ ag.compactor /\ totalMessageTokens(session) > MaxTotalTokens =>
             \A i \in DOMAIN session : compactableMsg(session[i]) \/ session[i].role = "tool" =>
                 Len(session[i].body) <= HeadTokens + TailTokens + 2
        /\ LET lost == seen \ UNION {Range(session[i].body) : i \in DOMAIN session}
           IN lost # {} => lost \subseteq ag.idx /\ "context_search" \in ag.reg

(* What the provider is sent, in its own format, pairs every tool call with   *)
(* one result, in order and at once; and the calls of a streamed round are    *)
(* those its fragments spell, each once and whole, a stream of the openai     *)
(* protocol having had its terminator (buildRequest, consumeRound).           *)
PairedMessages(msgs) ==
    \A i \in DOMAIN msgs : LET n == Len(msgs[i].calls)
                           IN n > 0 =>
                                /\ \A k \in 1..n : /\ i + k <= Len(msgs)
                                                   /\ msgs[i + k].role = "tool"
                                                   /\ msgs[i + k].id = msgs[i].calls[k].id
                                /\ i + n + 1 <= Len(msgs) => msgs[i + n + 1].role # "tool"

PairedTurns(turns) ==
    \A i \in DOMAIN turns :
        LET uses == SelectSeq(turns[i].blocks, LAMBDA b : b.type = "tool_use")
            results == IF i = Len(turns) THEN <<>>
                       ELSE SelectSeq(turns[i + 1].blocks, LAMBDA b : b.type = "tool_result")
        IN uses # <<>> => [k \in DOMAIN uses |-> uses[k].id] = [k \in DOMAIN results |-> results[k].id]

CallsAnswered ==
    /\ ag.pc = "call" =>
         CASE Protocol(ag.prov) = "anthropic" -> PairedTurns(anthropicRequest(session))
           [] Protocol(ag.prov) = "ollama" -> PairedMessages(ollamaRequest(session))
           [] OTHER -> PairedMessages(openaiRequest(session))
    /\ ag.pc = "dispatch" /\ ag.streaming /\ ctx = "live" /\ Last(session).calls # <<>> =>
         LET calls == Last(session).calls
             p == prods[ag.iter]
         IN /\ [k \in DOMAIN calls |-> [name |-> calls[k].name, args |-> calls[k].args]] = Spoken(ag.prov, p.script)
            /\ Protocol(ag.prov) = "openai" => Last(p.script).kind = "end"

(* A refinement that is shown as usable shows the very answer the judge       *)
(* passed; one that is not shows, of the answers that were judged, one with   *)
(* the fewest failure modes, and no round passed (Run, refine/loop.go).       *)
Judged == {rf.rounds[i] : i \in {n \in DOMAIN rf.rounds : rf.rounds[n].answer # None}}

RefineHonest ==
    delivered # None =>
        IF delivered.usable
        THEN Last(rf.rounds).verdict.usable /\ Last(rf.rounds).answer = delivered.answer
        ELSE /\ \A r \in Judged : ~r.verdict.usable
             /\ \E r \in Judged : /\ r.answer = delivered.answer
                                  /\ \A q \in Judged : Len(r.verdict.modes) <= Len(q.verdict.modes)

(* A request ends, and in the end nothing of it is left: no goroutine that    *)
(* fills a stream, no refinement loop, and no container but one whose request *)
(* was cancelled or whose reaper failed (RunStreamMessage, SendChunk,         *)
(* streamRefine, runContainer).                                               *)
NothingLeft ==
    /\ h = "ended" /\ rf.pc = "off" /\ box # "up"
    /\ \A i \in 1..MaxIters : prods[i].st # "run"

RequestEnds == h # "idle" ~> NothingLeft

(* What the model's tool calls change is inside the folder that is open,      *)
(* through whatever links lead out, and the container changes nothing at all  *)
(* (resolveWorkspaceTarget, atomicWrite, buildDockerArgs).                    *)
OutsideUntouched ==
    [][/\ ag.pc = "exec" => fs' = fs
       /\ \A p \in DOMAIN fs' : p \notin DOMAIN fs => insideRoot(p, Root)
       /\ \A p \in DOMAIN fs : fs'[p] # fs[p] => insideRoot(p, Root)]_fs
=============================================================================
