-------------------------- MODULE MCGatewayRecords --------------------------
(***************************************************************************)
(* Instances of GatewayRecords for TLC.                                    *)
(***************************************************************************)
EXTENDS GatewayRecords

Hosts == ("api.openai.com" :> "api.openai.com" @@ "api.anthropic.com" :> "api.anthropic.com"
          @@ "Gateway.Local" :> "gateway.local" @@ "gateway.local" :> "gateway.local"
          @@ "localhost" :> "localhost" @@ "127.0.0.1" :> "127.0.0.1"
          @@ "127.Example.com" :> "127.example.com" @@ "127.example.com" :> "127.example.com"
          @@ "elsewhere" :> "elsewhere")
Begins == {"127.0.0.1", "127.example.com"}
Here == {"localhost", "127.0.0.1"}

TwoRequests == {1, 2}

\* Headers a client sends, with and without a conversation, and what a provider
\* echoes of them.
Plain == Headers(By("client", {"content-type", "authorization", "accept-encoding"}), {})
Naming == Headers(By("client", {"authorization", "x-periskop-session", "connection"}),
                  {"authorization"})
Echo == Headers(By("provider", {"content-type", "authorization", "x-periskop-degraded",
                                "x-periskop-masked-entities"}), {})

\* Conversations: two openings whose words run together to the same, one opening
\* written twice, a later turn, a system prompt alone.
Says(system, turns) == [system |-> system, turns |-> turns]
User(words) == Turn("user", Text(words))
AB_C == Says(Text(<<"a", "b">>), <<User(<<"c">>)>>)
A_BC == Says(NoText, <<Turn("system", Blocks(<<<<"a">>, NoText>>)), User(<<"b", "c">>)>>)
A_BC2 == Says(Text(<<"a">>), <<User(<<"b", "c">>), Turn("assistant", Text(<<"d">>)),
                               User(<<"e">>)>>)
Alone == Says(Text(<<"a">>), <<>>)
Odd == Says(Neither, <<Turn("user", Blocks(<<<<"b">>, <<"c">>>>))>>)

Body(kind, conversation, tools) == [kind |-> kind, conversation |-> conversation, tools |-> tools]
Json(conversation, tools) == Body("json", conversation, tools)
Line(method, path, headers, session, body) ==
  [method |-> method, path |-> path, headers |-> headers, session |-> session, body |-> body]

Chat == <<"v1", "chat", "completions">>
Messages == <<"anthropic", "v1", "messages">>
None == Body("empty", NoText, FALSE)

\* For the questions about records.
FewLines ==
  { Line("GET", <<"admin", "metrics", "">>, Plain, "", None),
    Line("POST", Chat, Plain, "", Json(AB_C, TRUE)),
    Line("POST", <<"v1", "responses", "x">>, Naming, "n", Json(A_BC, FALSE)) }

\* For the questions about one or two requests.
ManyLines ==
  FewLines \cup
  { Line("POST", <<"v1", "embeddings">>, Plain, "", Json(Alone, TRUE)) } \cup
  { Line(m, p, Plain, "", None) :
      m \in {"GET", "POST"},
      p \in {<<"_periskop", "health">>, <<"_periskop", "session">>, <<"_periskop", "session", "s">>,
             <<"_periskop", "session", "s", "t">>, <<"admin">>, <<"admin", "policy", "x">>,
             <<"admin", "policy">>, <<"v1", "messages">>, <<"v1", "models">>,
             <<"anthropic", "v1", "models", "">>, <<"v1", "audio", "x">>, <<"v1">>, <<"">>} }
  \cup { Line("POST", Messages, h, "", Json(c, FALSE)) :
           h \in {Plain}, c \in {AB_C, A_BC, A_BC2, Alone, Odd} }
  \cup { Line("POST", Chat, Naming, "n", Json(A_BC, FALSE)),
         Line("POST", Chat, Naming, "m", Json(A_BC, TRUE)),
         Line("GET", <<"v1", "models", "">>, Plain, "", Json(AB_C, FALSE)),
         Line("GET", <<"anthropic", "v1", "models">>, Plain, "", Json(AB_C, TRUE)),
         Line("POST", Chat, Plain, "", Body("broken", NoText, FALSE)),
         Line("POST", <<"v1", "threads">>, Plain, "", None) }

From(kind, status, coded, truncated, tampered) ==
  [kind |-> kind, status |-> status, coded |-> coded, truncated |-> truncated,
   tampered |-> tampered, headers |-> Echo]
SomeAnswers ==
  { From("stream", 200, FALSE, TRUE, FALSE), From("json", 429, TRUE, FALSE, FALSE),
    From("json", 200, FALSE, FALSE, TRUE) }
TwoFaults == {"vault_record_tamper", "no_entropy"}

Both == {"api.openai.com", "api.anthropic.com"}
Setup(allow, configured, policy) ==
  [allow |-> allow, configured |-> configured, tool_policy |-> policy]
Stock == Setup(Both, <<>>, "pass_through")
Local(scheme, host, port) == ("anthropic" :> BaseUrl(scheme, FALSE, host, port, FALSE))
Configured ==
  { Stock, Setup(Both, <<>>, "reject"), Setup({"api.openai.com"}, <<>>, "pass_through"),
    Setup({"localhost", "Gateway.Local"}, Local("http", "localhost", "9"), "pass_through"),
    Setup({"localhost", "Gateway.Local"}, Local("https", "gateway.local", ""), "pass_through"),
    Setup({"Gateway.Local"}, Local("http", "gateway.local", ""), "pass_through"),
    Setup({"127.0.0.1", "127.example.com"}, Local("http", "127.Example.com", ""), "pass_through"),
    Setup(Both, Local("https", "elsewhere", ""), "pass_through") }
=============================================================================
