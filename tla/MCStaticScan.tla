---------------------------- MODULE MCStaticScan ----------------------------
(***************************************************************************)
(* Instances of StaticScan for TLC: the ways four languages bring two or   *)
(* three vendors into a file, everything two functions may do with them in *)
(* a few statements, and a tree with one entry of every awkward kind.      *)
(***************************************************************************)
EXTENDS StaticScan

OpenAI    == <<"openai">>
Anthropic == <<"anthropic">>
Genai     == <<"google", "genai">>
Wrapper   == <<"wrapper">>
Jdk       == <<"java", "util">>

PackageNames == (OpenAI :> "openai" @@ Anthropic :> "anthropic")
JavaPlatform == {Jdk}
OwnModules == {Jdk}
Fields == {"self.client", "this.client"}

Detectors ==
  UNION {{Rule("openai", lang, "openai", OpenAI, {"OpenAI", "default", "NewClient"},
               {"create", "parse"}, TRUE),
          Rule("anthropic", lang, "anthropic", Anthropic, {"Anthropic", "default", "NewClient"},
               {"create"}, TRUE)} : lang \in Languages}
  \cup {Rule("genai", "python", "google", Genai, {"Client"}, {"create"}, FALSE)}

Functions2 == {"f", "g"}

\* What two functions may do with one name and some constructors.
Words(target, makes, methods) ==
  {Make(s, target, m[1], m[2], m[3]) : s \in Functions2, m \in makes}
  \cup {CallOn(s, target, FALSE, x) : s \in Functions2, x \in methods}

Source(lang, imports, words) == [lang |-> lang, imports |-> imports, words |-> words]

Named == {<<"OpenAI", "", "absent">>, <<"Anthropic", "", "absent">>}
Qualified == {<<"openai", "OpenAI", "absent">>, <<"anthropic", "Anthropic", "absent">>}
Of(form, module, symbol, local) == Import(form, module, symbol, local)
FromOpenAI    == Of("name", OpenAI, "OpenAI", "OpenAI")
FromAnthropic == Of("name", Anthropic, "Anthropic", "Anthropic")
AllOf(module) == Of("star", module, "", "")
Package(module) == Of("module", module, "", "")

PythonSources ==
  { Source("python", <<FromOpenAI, FromAnthropic>>,
           Words("client", Named, {"create", "parse"})),
    Source("python", <<AllOf(OpenAI), FromAnthropic>>, Words("client", Named, {"create"})),
    Source("python", <<AllOf(OpenAI), AllOf(Anthropic)>>, Words("client", Named, {"create"})),
    Source("python", <<Package(OpenAI), Package(Anthropic)>>,
           Words("self.client", Qualified, {"create"})),
    Source("python", <<Of("name", <<"google">>, "genai", "genai"),
                       Of("name", Wrapper, "OpenAI", "OpenAI")>>,
           Words("client", {<<"genai", "Client", "absent">>, <<"OpenAI", "", "absent">>},
                 {"create"})),
    Source("python", <<FromOpenAI>>,
           Words("client", {<<"OpenAI", "", u>> : u \in {"literal", "dynamic"}}, {"create"})
           \cup {CallOn("f", "OpenAI", TRUE, "create")}) }

\* A default export and a name, two namespaces, two require calls.
TypeScriptSources ==
  { Source("typescript", <<Of("default", OpenAI, "", "OpenAI"), FromAnthropic>>,
           Words("this.client", Named, {"create"}) \cup {CallOn("f", "OpenAI", TRUE, "create")}),
    Source("typescript", <<Of("namespace", OpenAI, "", "openai"),
                           Of("namespace", Anthropic, "", "anthropic")>>,
           Words("client", Qualified, {"create"})),
    Source("typescript", <<Of("require", OpenAI, "", "OpenAI"),
                           Of("require", Anthropic, "", "Anthropic")>>,
           Words("client", Named, {"create", "parse"})) }

\* By the name of the package, by an alias, for the effect.
GoSources ==
  { Source("go", <<Package(OpenAI), Of("alias", Anthropic, "", "claude"),
                   Of("effect", Wrapper, "", "")>>,
           Words("client", {<<"openai", "NewClient", "absent">>,
                            <<"claude", "NewClient", "absent">>}, {"create"})) }

\* Classes, and one star beside the platform's.
JavaSources ==
  { Source("java", <<FromOpenAI, FromAnthropic>>, Words("client", Named, {"create"})),
    Source("java", <<AllOf(Jdk), AllOf(OpenAI), FromAnthropic>>,
           Words("client", Named, {"create"})) }

Sources == PythonSources \cup TypeScriptSources \cup GoSources \cup JavaSources

AllRules == [loaded |-> Detectors, usable |-> Detectors, broken |-> FALSE]
OpenAIOnly == {r \in Detectors : r.id = "openai"}
PythonOnly == {r \in Detectors : r.family = "python"}
RuleSets ==
  { [loaded |-> PythonOnly, usable |-> PythonOnly, broken |-> FALSE],
    [loaded |-> PythonOnly, usable |-> OpenAIOnly \cap PythonOnly, broken |-> FALSE],
    [loaded |-> OpenAIOnly, usable |-> OpenAIOnly, broken |-> TRUE],
    [loaded |-> {}, usable |-> {}, broken |-> FALSE] }

Awkward == {"linked code", "linked directory", "linked text", "unreadable", "locked directory",
            "foreign", "large", "binary", "misnamed", "garbled"}

\* A file somebody writes from nothing.
Written(s) == ("a" :> Code(s, <<>>) @@ "b" :> Other("gone"))

\* A file that calls, beside something awkward or a file in another language.
Calling ==
  Code(Source("python", <<FromOpenAI>>, {}),
       <<Make("f", "client", "OpenAI", "", "absent"), CallOn("f", "client", FALSE, "create"),
         CallOn("f", "client", FALSE, "create")>>)
InGo == Code(Source("go", <<Package(OpenAI)>>, {}), <<>>)
Beside == {("a" :> Calling @@ "b" :> e) : e \in {Other(k) : k \in Awkward} \cup {InGo, Calling}}

Paths == <<"a", "b">>
Runs ==
  {[tree |-> Written(s), rules |-> AllRules, limit |-> NoLimit] : s \in Sources}
  \cup {[tree |-> t, rules |-> r, limit |-> l] :
          t \in Beside, r \in RuleSets \cup {AllRules}, l \in {NoLimit, 0, 5000}}
=============================================================================
