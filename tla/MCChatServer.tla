---------------------------- MODULE MCChatServer ----------------------------
(* An open folder with a long file, a short one and a link that leads out.    *)
EXTENDS ChatServer

MCRoot == <<"ws">>
MCFiles ==
    <<"ws">> :> Dir @@ <<"etc">> :> Dir @@ <<"etc", "x">> :> File(<<"e">>)
        @@ <<"ws", "big">> :> File(<<"b1", "b2", "b3", "b4", "b5", "b6", "b7">>)
        @@ <<"ws", "in">> :> File(<<"i">>)
        @@ <<"ws", "out">> :> Link(<<"etc">>)

NoFields == [path |-> <<>>, old |-> None, new |-> None, body |-> <<>>, op |-> "build", surface |-> FALSE,
             query |-> <<>>]
MCParsed ==
    <<"bi", "g">> :> [NoFields EXCEPT !.path = <<"big">>]
        @@ <<"out">> :> [NoFields EXCEPT !.path = <<"out", "y">>, !.body = <<"n">>]
        @@ <<"ed", "it">> :> [NoFields EXCEPT !.path = <<"in">>, !.old = "i", !.new = "j"]
        @@ <<"up">> :> [NoFields EXCEPT !.path = <<"..", "etc", "x">>]
        @@ <<"fuzz">> :> [NoFields EXCEPT !.op = "fuzz", !.surface = TRUE]
        @@ <<"repro">> :> [NoFields EXCEPT !.op = "reproduce", !.surface = TRUE, !.path = <<"in">>]
        @@ <<"{}">> :> NoFields
        @@ <<"q">> :> [NoFields EXCEPT !.query = <<"q">>]

Text == Data(<<"t">>, <<>>)
End == Ending("end")
(* Two interleaved calls, the second one in two pieces without an id.         *)
Interleaved(id) ==
    Data(<<>>, <<Fragment(0, id, "file_read", <<"bi">>), Fragment(1, id, "file_edit", <<"ed">>)>>)
MCScripts ==
    [openai |-> {<<Text, End>>, <<Text, Ending("eof")>>,
                 <<Interleaved(""), Data(<<>>, <<Fragment(1, "", "", <<"it">>), Fragment(0, "", "", <<"g">>)>>), End>>,
                 <<Data(<<>>, <<Fragment(0, "c", "context_search", <<"q">>)>>), End>>,
                 <<Data(<<"t">>, <<Fragment(0, "c", "run", <<"fuzz">>)>>), End>>},
     anthropic |-> {<<Text, End>>,
                    <<Data(<<>>, <<Fragment(0, "c", "file_write", <<>>)>>),
                      Data(<<>>, <<Fragment(1, "d", "read_dir", <<>>)>>),
                      Data(<<>>, <<Fragment(0, "", "", <<"out">>)>>), End>>,
                    <<Data(<<"t">>, <<Fragment(0, "c", "run", <<>>)>>),
                      Data(<<>>, <<Fragment(0, "", "", <<"repro">>)>>), Ending("eof")>>},
     ollama |-> {<<Text, Ending("eof")>>, <<Text, Ending("broken")>>,
                 <<Data(<<>>, <<Fragment(0, "", "run", <<"{}">>), Fragment(0, "", "rag_search", <<"q">>),
                              Fragment(0, "", "file_read", <<"up">>)>>), End>>}]

MCReplies == {[text |-> <<"a">>, calls |-> <<>>], [text |-> <<"b", "c">>, calls |-> <<>>],
              [text |-> <<>>, calls |-> <<ToolCall("c", "graph_expand", <<"q">>)>>]}
MCPassages == {<<"k">>, <<"l", "m">>}
MCOutputs == {<<"o">>, <<"o", "asan">>}
MCHome == <<"home">>
MCJudgeReplies ==
    {<<Line("VERDICT", <<"USABLE">>)>>,
     <<Line("VERDICT", <<"NOT_USABLE">>), Line("FAILURE_MODES", <<"m1", "m2">>)>>,
     <<Line("FAILURE_MODES", <<"m1">>)>>}

Request(prov, msgs) == [provider |-> prov, messages |-> msgs, stream |-> TRUE, agentic |-> None,
                        refine |-> FALSE, iters |-> 0]
User(body) == Message("user", body, <<>>, "")
Earlier == <<User(<<"u1", "u2", "u3", "u4">>), Message("assistant", <<"v1", "v2">>, <<>>, "")>>
MCRequests ==
    {Request("llamacpp", Earlier \o <<User(<<"w">>)>>), Request("anthropic", <<User(<<"w">>)>>),
     Request("ollama", <<User(<<"w">>)>>), Request("none", Earlier),
     [Request("none", <<>>) EXCEPT !.stream = FALSE],
     [Request("openai", <<User(<<"w">>)>>) EXCEPT !.refine = TRUE, !.agentic = TRUE, !.iters = 3]}
=============================================================================
