----------------------------- MODULE AgentLoop -----------------------------
(***************************************************************************)
(* The agent loop of internal/agent (Run and RunStreamMessage), with the   *)
(* compaction of the session (internal/compact), the dispatch of tool      *)
(* calls (internal/tools) and the contained run tool (builtin/exec.go).    *)
(*                                                                         *)
(* Run asks the provider for whole replies, RunStreamMessage reads a       *)
(* stream that a goroutine of the provider fills through a bounded         *)
(* channel.  The client may leave, and a deadline pass, between any two    *)
(* steps.                                                                  *)
(***************************************************************************)
EXTENDS ContainedExec

CONSTANTS
    MaxIters,        \* rounds of one loop
    Cap,             \* capacity of the stream channel
    HeadTokens, TailTokens, TriggerTokens, MaxTotalTokens, MinForceTokens,
    CacheMax,        \* entries of the summary cache
    MinRemember,     \* shortest text worth remembering
    Scripts,         \* [protocol -> the streams a provider may send]
    Replies,         \* whole replies a provider may give
    Parsed,          \* the arguments that decode, as a function to their fields
    Passages,        \* what a retrieval tool may answer
    Outputs,         \* what a container may print
    MaxOutput, MaxFile, MaxDir \* caps of the tools

ASSUME AgentAssumption ==
    /\ MaxIters \in Nat \ {0} /\ Cap \in Nat \ {0} /\ CacheMax \in Nat \ {0}
    /\ HeadTokens \in Nat /\ TailTokens \in Nat /\ MinForceTokens \in Nat

VARIABLES
    ag,       \* the agent of the request and the loop it is in
    session,  \* its messages
    prods,    \* the goroutines that fill the streams, one per round
    box,      \* the container of the run tool
    fs,       \* the file system
    cache,    \* summaries, oldest first
    memory,   \* turns that are remembered
    gone,     \* the client has left
    ctx,      \* the context of the request
    sse,      \* frames that end something: summary, content, stop, error, done
    seen      \* passages that have ever been in the session

agentVars == <<ag, session, prods, box, fs, cache, memory, gone, ctx, sse, seen>>

NoProducer == [st |-> "none", script |-> <<>>, pos |-> 1, buf |-> <<>>, todo |-> <<>>,
               last |-> FALSE, live |-> FALSE, chan |-> <<>>]

NoRound == [content |-> <<>>, calls |-> <<>>, order |-> <<>>]

NoAgent == [pc |-> "idle", streaming |-> FALSE, prov |-> None, tools |-> {}, compactor |-> FALSE,
            agentic |-> FALSE, rag |-> FALSE, user |-> None, iter |-> 0, used |-> FALSE, reg |-> {},
            idx |-> {}, tried |-> {}, round |-> NoRound, pend |-> <<>>, ok |-> FALSE, answer |-> <<>>,
            deadline |-> FALSE]

AgentInit ==
    /\ ag = NoAgent /\ session = <<>> /\ box = "none"
    /\ prods = [i \in 1..MaxIters |-> NoProducer]
    /\ cache = <<>> /\ memory = {} /\ gone = FALSE /\ ctx = "live" /\ sse = <<>> /\ seen = {}

(* The context the loop works under: the request's, or a deadline set on it.  *)
LoopCtx == IF ctx = "live" /\ ag.deadline THEN "deadline" ELSE ctx

-----------------------------------------------------------------------------
(* Compaction.  A body is one token estimate per passage.                     *)

EstimateTokens(body) == Len(body)

splitHeadTail(body) ==
    LET n == Len(body)
    IN IF HeadTokens + TailTokens >= n THEN [head |-> body, tail |-> <<>>]
       ELSE [head |-> SubSeq(body, 1, HeadTokens), tail |-> SubSeq(body, n - TailTokens + 1, n)]

cachePut(c, key) ==
    IF Contains(c, key) THEN c
    ELSE Append(IF Len(c) >= CacheMax THEN Tail(c) ELSE c, key)

(* Head, notice, summary if there is one, tail.  The index of a compaction    *)
(* holds every passage of what it replaces.                                   *)
compacted(body, summarized) ==
    LET parts == splitHeadTail(body)
    IN parts.head \o <<"notice">> \o (IF summarized THEN <<"summary">> ELSE <<>>) \o parts.tail

compactableMsg(m) == m.role \in {"user", "tool"} \/ (m.role = "assistant" /\ m.calls = <<>>)

totalMessageTokens(msgs) == FoldLeft(LAMBDA t, m : t + EstimateTokens(m.body), 0, msgs)

SummarizerUp == IF LoopCtx = "live" THEN BOOLEAN ELSE {FALSE}

(* Mutant: the indexes of bodies replaced before are dropped.                 *)
IndexedFresh(prior, body) == Range(body)

(* The indexes of the turn, after one more body is replaced.                  *)
Indexed(prior, body) == prior \cup Range(body)

(* Replace message i; the summarizer answers or not.                          *)
ApplyCompaction(i) ==
    LET body == session[i].body
    IN /\ \E up \in SummarizerUp :
            /\ session' = [session EXCEPT ![i].body = compacted(body, up \/ Contains(cache, body))]
            /\ cache' = IF up THEN cachePut(cache, body) ELSE cache
       /\ ag' = [ag EXCEPT !.tried = @ \cup {i}, !.idx = Indexed(@, body)]

Untried == {i \in DOMAIN session : i \notin ag.tried /\ compactableMsg(session[i]) /\ session[i].body # <<>>}

(* The first pass, one message a step: those at or over the trigger.          *)
Oversized == {i \in Untried : ag.compactor /\ EstimateTokens(session[i].body) >= TriggerTokens}

CompactMessage ==
    /\ ag.pc = "compact"
    /\ \E i \in Oversized : (\A j \in Oversized : i <= j) /\ ApplyCompaction(i)
    /\ UNCHANGED <<prods, box, fs, memory, gone, ctx, sse, seen>>

compactSession ==
    /\ ag.pc = "compact" /\ Oversized = {}
    /\ ag' = [ag EXCEPT !.pc = "fit", !.tried = {}]
    /\ UNCHANGED <<session, cache, prods, box, fs, memory, gone, ctx, sse, seen>>

(* The second pass, one message a step: the largest one not tried yet, while  *)
(* the whole prompt is over the budget; a short one is tried and kept.        *)
OverBudget == ag.compactor /\ MaxTotalTokens > 0 /\ totalMessageTokens(session) > MaxTotalTokens

CompactForce ==
    /\ ag.pc = "fit" /\ OverBudget
    /\ \E i \in Untried :
         LET size == EstimateTokens(session[i].body)
         IN /\ \A j \in Untried : \/ EstimateTokens(session[j].body) < size
                                  \/ EstimateTokens(session[j].body) = size /\ i <= j
            /\ IF size >= MinForceTokens
               THEN ApplyCompaction(i)
               ELSE ag' = [ag EXCEPT !.tried = @ \cup {i}] /\ UNCHANGED <<session, cache>>
    /\ UNCHANGED <<prods, box, fs, memory, gone, ctx, sse, seen>>

(* The tools of the round: those of the request, and context_search over all  *)
(* that has been replaced in this turn.                                       *)
With(tools, idx) == tools \cup (IF idx = {} THEN {} ELSE {"context_search"})

ComposeRequest ==
    /\ ag.pc = "fit" /\ ~(OverBudget /\ Untried # {})
    /\ ag' = [ag EXCEPT !.pc = "call", !.tried = {}, !.reg = With(ag.tools, ag.idx)]
    /\ UNCHANGED <<session, prods, box, fs, cache, memory, gone, ctx, sse, seen>>

-----------------------------------------------------------------------------
(* The start of a turn.                                                       *)

Appended(m) == session' = Append(session, m) /\ seen' = seen \cup Range(m.body)

(* Append the user's message; what is recalled of earlier conversations only  *)
(* joins the system prompt.                                                   *)
BeginTurn ==
    /\ ag.pc = "begin"
    /\ Appended(Message("user", ag.user, <<>>, ""))
    /\ ag' = [ag EXCEPT !.pc = "compact", !.iter = 1, !.used = FALSE, !.idx = {}, !.pend = <<>>]
    /\ UNCHANGED <<prods, box, fs, cache, memory, gone, ctx, sse>>

Returned(ok, answer) == [ag EXCEPT !.pc = "returned", !.ok = ok, !.answer = answer, !.round = NoRound]

rememberTurn(user, answer) ==
    memory' = memory \cup {<<"user", b>> : b \in {x \in {user} : Len(x) >= MinRemember}}
                     \cup {<<"assistant", b>> : b \in {x \in {answer} : Len(x) >= MinRemember}}

(* A frame reaches the encoder; whether a write fails shows once the client   *)
(* has left.                                                                  *)
Emitted == IF gone THEN BOOLEAN ELSE {TRUE}

-----------------------------------------------------------------------------
(* One whole reply (Run).                                                     *)

Answering(m) ==
    /\ Appended(m)
    /\ ag' = [ag EXCEPT !.pc = IF m.calls = <<>> THEN "answer" ELSE "dispatch", !.pend = m.calls,
                        !.answer = m.body, !.round = NoRound]

ChatCall ==
    /\ ag.pc = "call" /\ ~ag.streaming
    /\ \/ /\ ag' = Returned(FALSE, <<>>)
          /\ UNCHANGED <<session, seen>>
       \/ /\ LoopCtx = "live"
          /\ \E reply \in Replies : Answering(Chat(ag.prov, reply))
    /\ UNCHANGED <<prods, box, fs, cache, memory, gone, ctx, sse>>

(* An agentic turn that never retrieved is answered once more, grounded, over *)
(* the conversation without its answer.                                       *)
needsFallback == ag.agentic /\ ag.rag /\ ~ag.used

classicFallback ==
    {ag.answer} \cup (IF LoopCtx = "live" THEN {r.text : r \in {x \in Replies : x.text # <<>>}} ELSE {})

AnswerRun ==
    /\ ag.pc = "answer" /\ ~ag.streaming
    /\ \E final \in IF needsFallback THEN classicFallback ELSE {ag.answer} :
         /\ rememberTurn(ag.user, final)
         /\ ag' = Returned(TRUE, final)
    /\ UNCHANGED <<session, prods, box, fs, cache, gone, ctx, sse, seen>>

-----------------------------------------------------------------------------
(* One streamed reply: the goroutine of the provider.                         *)

ChatStream ==
    /\ ag.pc = "call" /\ ag.streaming
    /\ \/ /\ ag' = Returned(FALSE, <<>>)
          /\ sse' = Append(sse, "error")
          /\ UNCHANGED prods
       \/ /\ LoopCtx = "live"
          /\ \E script \in Scripts[Protocol(ag.prov)] :
               prods' = [prods EXCEPT ![ag.iter] = [NoProducer EXCEPT !.st = "run", !.script = script, !.live = TRUE]]
          /\ ag' = [ag EXCEPT !.pc = "round", !.round = NoRound]
          /\ UNCHANGED sse
    /\ UNCHANGED <<session, box, fs, cache, memory, gone, ctx, seen>>

(* The context of the round ends with the round or with the request.          *)
RoundLive(i) == prods[i].live /\ ctx = "live"

(* Read one event; a cancelled context fails the read.                        *)
ProducerRead(i) ==
    /\ prods[i].st = "run" /\ prods[i].todo = <<>> /\ ~prods[i].last
    /\ LET p == prods[i]
           ev == p.script[p.pos]
           got == Fragments(ag.prov, p.buf, ev.text, ev.frags)
       IN \/ /\ RoundLive(i) /\ ev.kind = "data"
             /\ prods' = [prods EXCEPT ![i].pos = p.pos + 1, ![i].buf = got.buf, ![i].todo = got.chunks]
          \/ /\ RoundLive(i) /\ ev.kind # "data"
             /\ prods' = [prods EXCEPT ![i].last = TRUE, ![i].todo = <<EndChunk(ag.prov, ev.kind)>>]
          \/ /\ ~RoundLive(i)
             /\ prods' = [prods EXCEPT ![i].last = TRUE, ![i].todo = <<ErrChunk>>]
    /\ UNCHANGED <<ag, session, box, fs, cache, memory, gone, ctx, sse, seen>>

(* Mutant: the send does not look at the context.                             *)
SendChunkAlways(i) ==
    /\ prods[i].st = "run" /\ prods[i].todo # <<>> /\ Len(prods[i].chan) < Cap
    /\ prods' = [prods EXCEPT ![i].chan = Append(@, Head(prods[i].todo)), ![i].todo = Tail(@),
                              ![i].st = IF prods[i].last THEN "gone" ELSE @]
    /\ UNCHANGED <<ag, session, box, fs, cache, memory, gone, ctx, sse, seen>>

(* Send the next chunk, or give up when the context is done; the goroutine    *)
(* closes the channel as it ends.                                             *)
SendChunk(i) ==
    /\ prods[i].st = "run" /\ prods[i].todo # <<>>
    /\ \/ /\ Len(prods[i].chan) < Cap
          /\ prods' = [prods EXCEPT ![i].chan = Append(@, Head(prods[i].todo)), ![i].todo = Tail(@),
                                    ![i].st = IF prods[i].last THEN "gone" ELSE @]
       \/ /\ ~RoundLive(i)
          /\ prods' = [prods EXCEPT ![i].todo = <<>>, ![i].st = "gone"]
    /\ UNCHANGED <<ag, session, box, fs, cache, memory, gone, ctx, sse, seen>>

-----------------------------------------------------------------------------
(* consumeRound: the loop reads its round's stream.                           *)

Reading == ag.pc = "round"
Cancelled(i) == [prods EXCEPT ![i].live = FALSE]
Received(i) == [prods EXCEPT ![i].chan = Tail(@)]

(* A call is keyed by its id, or by its turn if it has none.                  *)
callKey(r, call) == IF call.id = "" THEN "anon-" \o ToString(Len(r.order)) ELSE call.id

mergeCall(r, call) ==
    LET key == callKey(r, call)
        old == IF key \in DOMAIN r.calls THEN r.calls[key] ELSE NoCall
        new == ToolCall(IF call.id # "" THEN call.id ELSE old.id,
                        IF call.name # "" THEN call.name ELSE old.name, call.args)
    IN [r EXCEPT !.calls = key :> new @@ @,
                 !.order = IF key \in DOMAIN r.calls THEN @ ELSE Append(@, key)]

roundMessage(r) ==
    Message("assistant", r.content, [k \in DOMAIN r.order |-> r.calls[r.order[k]]], "")

(* The round's message is complete once the end of each call is emitted.      *)
Finalized ==
    \E sent \in IF ag.round.order = <<>> THEN {TRUE} ELSE Emitted :
        IF sent THEN Answering(roundMessage(ag.round))
        ELSE ag' = Returned(FALSE, <<>>) /\ UNCHANGED <<session, seen>>

consumeChunk ==
    /\ Reading /\ prods[ag.iter].chan # <<>>
    /\ LET i == ag.iter
           chunk == Head(prods[i].chan)
       IN \/ /\ chunk.kind \in {"delta", "call"}
             /\ \E sent \in Emitted :
                  IF sent
                  THEN /\ ag' = [ag EXCEPT !.round = IF chunk.kind = "call" THEN mergeCall(@, chunk.call)
                                                     ELSE [@ EXCEPT !.content = @ \o chunk.text]]
                       /\ prods' = Received(i)
                  ELSE ag' = Returned(FALSE, <<>>) /\ prods' = Cancelled(i)
             /\ UNCHANGED <<session, sse, seen>>
          \/ /\ chunk.kind = "err"
             /\ ag' = Returned(FALSE, <<>>) /\ prods' = Cancelled(i)
             /\ sse' = Append(sse, "error")
             /\ UNCHANGED <<session, seen>>
          \/ /\ chunk.kind = "done"
             /\ Finalized /\ prods' = Cancelled(i)
             /\ UNCHANGED sse
    /\ UNCHANGED <<box, fs, cache, memory, gone, ctx>>

(* The channel is closed and empty: the round ends with what has come.        *)
consumeClosed ==
    /\ Reading /\ prods[ag.iter].chan = <<>> /\ prods[ag.iter].st = "gone"
    /\ Finalized /\ prods' = Cancelled(ag.iter)
    /\ UNCHANGED <<box, fs, cache, memory, gone, ctx, sse>>

consumeCancelled ==
    /\ Reading /\ ctx # "live"
    /\ ag' = Returned(FALSE, <<>>) /\ prods' = Cancelled(ag.iter)
    /\ UNCHANGED <<session, box, fs, cache, memory, gone, ctx, sse, seen>>

(* The verifier may add a note; it fails soft.                                *)
verifyNote(answer) == IF answer = <<>> THEN {<<>>} ELSE {<<>>, <<"note">>}

(* The answer of a stream: the advisory note, the end of the stream, and only *)
(* then the memory of the turn.                                               *)
AnswerStream ==
    /\ ag.pc = "answer" /\ ag.streaming
    /\ \E note \in verifyNote(ag.answer), sent \in Emitted :
         IF sent
         THEN /\ sse' = Append(sse, "stop")
              /\ rememberTurn(ag.user, ag.answer)
              /\ ag' = Returned(TRUE, ag.answer \o note)
         ELSE ag' = Returned(FALSE, <<>>) /\ UNCHANGED <<sse, memory>>
    /\ UNCHANGED <<session, prods, box, fs, cache, gone, ctx, seen>>

-----------------------------------------------------------------------------
(* Dispatch.                                                                  *)

isRetrievalTool(name) == name \in {"rag_search", "graph_expand"}

(* context_search over the replaced passages, and the search tools over the   *)
(* corpora, which the model leaves open.                                      *)
ContextSearch(idx, query) ==
    IF query = <<>> THEN {Err} ELSE {Ok(<<p>>) : p \in idx} \cup {Ok(<<"no match">>)}

RAGSearch(query) == IF query = <<>> THEN {Err} ELSE {Ok(s) : s \in Passages}

(* What a tool answers, and the file system after it.                         *)
Executed(name, a) ==
    LET same(res) == [res |-> res, fs |-> fs]
    IN CASE name = "file_read" -> {same(FileRead(fs, a.path, MaxFile))}
         [] name = "read_dir" -> {same(ReadDir(fs, a.path, MaxDir))}
         [] name = "file_write" -> FileWrite(fs, a.path, a.body, MaxFile)
         [] name = "file_edit" -> FileEdit(fs, a.path, a.old, a.new, MaxFile)
         [] name = "context_search" -> {same(r) : r \in ContextSearch(ag.idx, a.query)}
         [] OTHER -> {same(r) : r \in RAGSearch(a.query)}

(* The result becomes a tool message and an event; after the last one the     *)
(* next round begins, or the loop has had its rounds.                         *)
NextRound(a) ==
    IF a.pend # <<>> THEN [a EXCEPT !.pc = "dispatch"]
    ELSE IF a.iter < MaxIters THEN [a EXCEPT !.pc = "compact", !.iter = @ + 1]
    ELSE [a EXCEPT !.pc = "returned", !.ok = FALSE, !.answer = <<>>]

Answered(res) ==
    LET call == Head(ag.pend)
        next == NextRound([ag EXCEPT !.pend = Tail(@), !.used = @ \/ isRetrievalTool(call.name)])
    IN /\ Appended(Message("tool", res.body, <<>>, call.id))
       /\ \E sent \in IF ag.streaming THEN Emitted ELSE {TRUE} :
            IF sent THEN /\ ag' = next
                         /\ sse' = IF next.pc = "returned" /\ ag.streaming THEN Append(sse, "error") ELSE sse
            ELSE ag' = Returned(FALSE, <<>>) /\ UNCHANGED sse

dispatch ==
    /\ ag.pc = "dispatch" /\ ag.pend # <<>>
    /\ LET call == Head(ag.pend)
           known == call.name \in ag.reg /\ call.args \in DOMAIN Parsed
       IN \/ /\ ~known
             /\ Answered(Err) /\ UNCHANGED fs
          \/ /\ known /\ call.name # "run"
             /\ \E r \in Executed(call.name, Parsed[call.args]) : Answered(r.res) /\ fs' = r.fs
    /\ UNCHANGED <<prods, box, cache, memory, gone, ctx>>

-----------------------------------------------------------------------------
(* The run tool: a container started by a docker client under a deadline.     *)

RunCall == ag.pc = "dispatch" /\ ag.pend # <<>> /\ Head(ag.pend).name = "run" /\ "run" \in ag.reg
           /\ Head(ag.pend).args \in DOMAIN Parsed

RunPlan == Plan(fs, Parsed[Head(ag.pend).args])

ExecRefuse ==
    /\ RunCall /\ RunPlan # "run"
    /\ Answered(IF RunPlan = "hint" THEN Ok(<<"hint">>) ELSE Err)
    /\ UNCHANGED <<prods, box, fs, cache, memory, gone, ctx>>

ExecStart ==
    /\ RunCall /\ RunPlan = "run" /\ LoopCtx = "live"
    /\ box' = "up"
    /\ ag' = [ag EXCEPT !.pc = "exec"]
    /\ UNCHANGED <<session, prods, fs, cache, memory, gone, ctx, sse, seen>>

(* A context that is done keeps the client from being started.                *)
ExecUnstarted ==
    /\ RunCall /\ RunPlan = "run" /\ LoopCtx # "live"
    /\ Answered(Ok(formatResult("unstarted", <<>>, MaxOutput)))
    /\ UNCHANGED <<prods, box, fs, cache, memory, gone, ctx>>

(* The container ends and is removed with its client.                         *)
ExecExit ==
    /\ ag.pc = "exec"
    /\ box' = "none" /\ fs' \in Effects(fs)
    /\ \E out \in Outputs : Answered(Ok(formatResult("exit", out, MaxOutput)))
    /\ UNCHANGED <<prods, cache, memory, gone, ctx>>

(* The client of the container is killed.  A passed deadline reaps the        *)
(* container, which may fail; a cancelled request leaves it alone.            *)
runContainer == IF ctx = "cancelled" THEN {"abandoned"} ELSE {"none", "unreaped"}

ExecKilled ==
    /\ ag.pc = "exec"
    /\ box' \in runContainer /\ fs' \in Effects(fs)
    /\ Answered(Ok(formatResult("killed", <<>>, MaxOutput)))
    /\ UNCHANGED <<prods, cache, memory, gone, ctx>>

-----------------------------------------------------------------------------
(* The client leaves; the server notices and cancels the request.             *)

Leave ==
    /\ ~gone /\ ag.pc # "idle"
    /\ gone' = TRUE
    /\ UNCHANGED <<ag, session, prods, box, fs, cache, memory, ctx, sse, seen>>

Notice ==
    /\ gone /\ ctx = "live"
    /\ ctx' = "cancelled"
    /\ UNCHANGED <<ag, session, prods, box, fs, cache, memory, gone, sse, seen>>

Producer(i) == ProducerRead(i) \/ SendChunk(i)

Loop ==
    \/ BeginTurn \/ CompactMessage \/ compactSession \/ CompactForce \/ ComposeRequest
    \/ ChatCall \/ AnswerRun \/ ChatStream
    \/ consumeChunk \/ consumeClosed \/ consumeCancelled \/ AnswerStream
    \/ dispatch \/ ExecRefuse \/ ExecStart \/ ExecUnstarted \/ ExecExit \/ ExecKilled
=============================================================================
