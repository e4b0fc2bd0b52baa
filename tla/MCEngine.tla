------------------------------ MODULE MCEngine ------------------------------
(* Events, contents and settings for model checking the engine.             *)
EXTENDS Engine

Str(f, i, t) == [field |-> f, index |-> i, text |-> t]
Ev(f, type, i, strings) ==
    [family |-> f, type |-> type, index |-> i, finish |-> FALSE, strings |-> strings, defect |-> "none"]
Broken(e, d) == [e EXCEPT !.defect = d]

Chat == {Ev("chat", "chunk", 0, <<Str("content", 0, <<"a">>)>>),
         Ev("chat", "chunk", 0, <<Str("content", 0, <<"b">>), Str("content", 1, <<"b">>)>>),
         Ev("chat", "chunk", 0, <<Str("content", 0, <<"x", "s">>)>>),
         Ev("chat", "chunk", 0, <<Str("content", 0, <<"t">>), Str("role", 0, <<"a">>)>>),
         Ev("chat", "chunk", 0, <<Str("content", 0, <<"b">>), Str("content", 0, <<"a">>)>>),
         Ev("chat", "chunk", 0, <<Str("arguments", 0, <<"{", "a">>)>>),
         Ev("chat", "chunk", 0, <<Str("arguments", 0, <<"b", "}">>)>>),
         Ev("chat", "chunk", 0, <<Str("arguments", 0, <<"b", "a">>)>>)}

Responses == {Ev("responses", "part_added", 0, <<Str("text", 0, <<"a">>)>>),
              Ev("responses", "text_delta", 0, <<Str("delta", 0, <<"b">>)>>),
              Ev("responses", "refusal_delta", 0, <<Str("delta", 0, <<"b">>)>>),
              Ev("responses", "item_added", 0, <<Str("arguments", 0, <<"{">>)>>),
              Ev("responses", "arguments_delta", 0, <<Str("delta", 0, <<"a", "b", "}">>)>>),
              Ev("responses", "arguments_done", 0, <<Str("arguments", 0, <<"{", "a", "b", "}">>)>>),
              Ev("responses", "completed", 0, <<>>)}

Anthropic == {Ev("anthropic", "ping", 0, <<>>),
              Ev("anthropic", "message_start", 0, <<>>),
              Ev("anthropic", "block_start", 0, <<Str("text", 0, <<"a">>)>>),
              Ev("anthropic", "block_start", 1, <<Str("thinking", 0, <<"a">>)>>),
              Ev("anthropic", "block_delta", 0, <<Str("text", 0, <<"b">>)>>),
              Ev("anthropic", "block_delta", 1, <<Str("thinking", 0, <<"b">>)>>),
              Ev("anthropic", "block_stop", 0, <<>>),
              Ev("anthropic", "block_stop", 1, <<>>),
              Ev("anthropic", "message_stop", 0, <<>>)}

Gemini == {Ev("gemini", "chunk", 0, <<Str("text", 0, <<"a">>), Str("text", 1, <<"b">>)>>),
           Ev("gemini", "chunk", 1, <<Str("text", 0, <<"b">>)>>),
           [Ev("gemini", "chunk", 0, <<Str("text", 0, <<"b">>)>>) EXCEPT !.finish = TRUE],
           [Ev("gemini", "chunk", 1, <<>>) EXCEPT !.finish = TRUE],
           Ev("gemini", "usage", 0, <<>>)}

Mcp == {Ev("mcp", "result", 0, <<Str("content", 0, <<"a">>), Str("content", 1, <<"b">>)>>),
        Ev("mcp", "result", 0, <<Str("message", 0, <<"b">>)>>)}

Plain == Ev("chat", "chunk", 0, <<Str("content", 0, <<"x">>)>>)

MCEvents ==
    Chat \cup Responses \cup Anthropic \cup Gemini \cup Mcp
    \cup {Ev("comment", "", 0, <<>>), Ev("done", "", 0, <<>>)}
    \cup {Broken(Plain, d) : d \in Defects \ {"none"}}

MCMark == <<"R", "R", "R">>

MCContents ==
    {[field |-> <<"x">>, resource |-> <<"r">>, redactable |-> FALSE],
     [field |-> <<"a", "b", "x">>, resource |-> <<"r">>, redactable |-> TRUE],
     [field |-> <<"a", "b">>, resource |-> <<"r">>, redactable |-> FALSE],
     [field |-> <<"x">>, resource |-> <<"a", "b">>, redactable |-> TRUE]}

MCSettings ==
    {[tool |-> "block", route |-> "redact", global |-> "redact"],
     [tool |-> "unset", route |-> "redact", global |-> "block"]}

MCTexts == {<<"x">>, <<"x", "a", "b", "a", "b">>, <<"s", "t">>}

=============================================================================
