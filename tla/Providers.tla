----------------------------- MODULE Providers -----------------------------
(***************************************************************************)
(* The chat providers of internal/llm: how a conversation becomes a wire   *)
(* request, how a whole reply is decoded, and how the events of a streamed *)
(* reply become chunks (openai, anthropic and ollama; llamacpp speaks the  *)
(* openai protocol).                                                       *)
(*                                                                         *)
(* A body is a sequence of passages, a passage standing for a fixed number *)
(* of tokens.  The arguments of a tool call are a sequence of fragments.   *)
(***************************************************************************)
EXTENDS Naturals, Sequences, SequencesExt, FiniteSets, TLC

CONSTANT None

(* The streaming protocol a provider speaks.                                 *)
Protocol(prov) == IF prov \in {"anthropic", "ollama"} THEN prov ELSE "openai"

-----------------------------------------------------------------------------
Message(role, body, calls, id) == [role |-> role, body |-> body, calls |-> calls, id |-> id]

ToolCall(id, name, args) == [id |-> id, name |-> name, args |-> args]

EmptyObject == <<"{}">>

OrEmptyObject(args) == IF args = <<>> THEN EmptyObject ELSE args

-----------------------------------------------------------------------------
(* Requests.  OpenAI and Ollama take the messages one by one; Ollama knows    *)
(* neither the ids of calls nor the calls that results belong to.             *)

openaiRequest(msgs) == msgs

ollamaRequest(msgs) ==
    [i \in DOMAIN msgs |->
        [msgs[i] EXCEPT !.id = "",
                        !.calls = [k \in DOMAIN @ |-> ToolCall("", @[k].name, OrEmptyObject(@[k].args))]]]

(* Anthropic takes the system parts apart and turns made of blocks.  A tool   *)
(* result joins the user turn before it, if there is one.                     *)
Block(type, id, body) == [type |-> type, id |-> id, body |-> body]

turnOf(m) ==
    [role |-> IF m.role = "assistant" THEN "assistant" ELSE "user",
     blocks |-> (IF m.body = <<>> THEN <<>> ELSE <<Block("text", "", m.body)>>)
                \o [k \in DOMAIN m.calls |-> Block("tool_use", m.calls[k].id, OrEmptyObject(m.calls[k].args))]]

anthropicRequest(msgs) ==
    FoldLeft(LAMBDA turns, m :
        IF m.role = "system" THEN turns
        ELSE IF m.role # "tool" THEN Append(turns, turnOf(m))
        ELSE LET result == Block("tool_result", m.id, m.body)
             IN IF turns # <<>> /\ Last(turns).role = "user"
                THEN Front(turns) \o <<[Last(turns) EXCEPT !.blocks = Append(@, result)]>>
                ELSE Append(turns, [role |-> "user", blocks |-> <<result>>]),
        <<>>, msgs)

-----------------------------------------------------------------------------
(* A whole reply: [text, calls], or None for an HTTP error, an undecodable    *)
(* body, no choice (openai) or a reply not marked done (ollama).              *)

openaiChat(reply) ==
    Message("assistant", reply.text, reply.calls, "")

anthropicChat(reply) ==
    Message("assistant", reply.text,
            [k \in DOMAIN reply.calls |-> [reply.calls[k] EXCEPT !.args = OrEmptyObject(@)]], "")

ollamaChat(reply) ==
    Message("assistant", reply.text, [k \in DOMAIN reply.calls |-> [reply.calls[k] EXCEPT !.id = ""]], "")

Chat(prov, reply) ==
    CASE Protocol(prov) = "anthropic" -> anthropicChat(reply)
      [] Protocol(prov) = "ollama" -> ollamaChat(reply)
      [] OTHER -> openaiChat(reply)

-----------------------------------------------------------------------------
(* A streamed reply is a sequence of events.  A "data" event carries text and *)
(* fragments of tool calls; "end" is the terminator of the protocol, "eof"    *)
(* the end of the body without it, "broken" a failed read or an undecodable   *)
(* event.  A fragment has the index of its call, an id and a name if they     *)
(* are sent, and a piece of the arguments.                                    *)

Data(text, frags) == [kind |-> "data", text |-> text, frags |-> frags]
Ending(kind) == [kind |-> kind, text |-> <<>>, frags |-> <<>>]
Fragment(index, id, name, args) == [index |-> index, id |-> id, name |-> name, args |-> args]

Delta(text) == [kind |-> "delta", text |-> text, call |-> None]
CallDelta(call) == [kind |-> "call", text |-> <<>>, call |-> call]
DoneChunk == [kind |-> "done", text |-> <<>>, call |-> None]
ErrChunk == [kind |-> "err", text |-> <<>>, call |-> None]

NoCall == ToolCall("", "", <<>>)
Held(buf, index) == IF index \in DOMAIN buf THEN buf[index] ELSE NoCall

(* Mutant: a call that never got an id is passed on without one.              *)
openaiSnapshotBare(index, call) == call

(* openai: the id, the name and the arguments gather under the index; a       *)
(* snapshot of a call that never got an id is known by its index.             *)
openaiSnapshot(index, call) == IF call.id = "" THEN [call EXCEPT !.id = "idx-" \o ToString(index)] ELSE call

openaiFragment(st, f) ==
    LET old == Held(st.buf, f.index)
        call == ToolCall(IF f.id # "" THEN f.id ELSE old.id, IF f.name # "" THEN f.name ELSE old.name,
                         old.args \o f.args)
    IN [buf |-> f.index :> call @@ st.buf, chunks |-> Append(st.chunks, CallDelta(openaiSnapshot(f.index, call)))]

(* anthropic: a named fragment opens its block, the others add arguments.     *)
anthropicFragment(st, f) ==
    LET call == IF f.name # "" THEN ToolCall(f.id, f.name, <<>>)
                ELSE [Held(st.buf, f.index) EXCEPT !.args = @ \o f.args]
    IN [buf |-> f.index :> call @@ st.buf, chunks |-> Append(st.chunks, CallDelta(call))]

(* ollama: every call comes whole and has no id.                              *)
ollamaFragment(st, f) ==
    [st EXCEPT !.chunks = Append(@, CallDelta(ToolCall("", f.name, f.args)))]

Fragments(prov, buf, text, frags) ==
    LET start == [buf |-> buf, chunks |-> IF text = <<>> THEN <<>> ELSE <<Delta(text)>>]
        op(st, f) == CASE Protocol(prov) = "anthropic" -> anthropicFragment(st, f)
                       [] Protocol(prov) = "ollama" -> ollamaFragment(st, f)
                       [] OTHER -> openaiFragment(st, f)
    IN FoldLeft(op, start, frags)

(* What ends a stream: openai insists on its terminator, the others take the  *)
(* end of the body for it.                                                    *)
EndChunk(prov, kind) ==
    IF kind = "end" \/ (kind = "eof" /\ Protocol(prov) # "openai") THEN DoneChunk ELSE ErrChunk

(* The calls a script of events spells out, by the index of their fragments.  *)
Spoken(prov, script) ==
    LET all == FlattenSeq([i \in DOMAIN script |-> script[i].frags])
        firsts == SelectSeq([i \in DOMAIN all |-> i],
                            LAMBDA i : Protocol(prov) = "ollama" \/ \A j \in 1..(i - 1) : all[j].index # all[i].index)
        rest(i) == SelectSeq([j \in DOMAIN all |-> j],
                             LAMBDA j : j = i \/ (Protocol(prov) # "ollama" /\ all[j].index = all[i].index))
    IN [k \in DOMAIN firsts |->
          [name |-> all[firsts[k]].name,
           args |-> FlattenSeq([n \in DOMAIN rest(firsts[k]) |-> all[rest(firsts[k])[n]].args])]]
=============================================================================
