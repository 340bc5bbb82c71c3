----------------------------- MODULE MCRequests -----------------------------
(* One image per way a family resolves a task, sizes a context or reads     *)
(* media, scaled to a context of four tokens, and callers of every route.   *)
EXTENDS Requests

MCPromptTokens(key) == IF key = Bare("query") THEN 1 ELSE 2

T(base) == {<<base, "query">>, <<base, "passage">>}

Plain ==
  [family |-> "embeddings-v2", runtime |-> "sentence_transformer",
   verb |-> "embed", multimodal |-> FALSE, enum |-> {}, prompts |-> {},
   configTasks |-> {}, takesTask |-> FALSE, takes |-> {}, context |-> 4,
   dim |-> 3, vectors |-> FALSE, acceptsImages |-> FALSE]

V5Enum == T("retrieval") \cup {Bare("text-matching"), Bare("clustering"),
                               Bare("classification")}

CodeBases == {"nl2code", "qa", "code2code", "code2nl", "code2completion"}

MCImages ==
  {Plain,
   [Plain EXCEPT !.family = "embeddings-v3", !.runtime = "embeddings_v3",
      !.enum = T("retrieval") \cup {Bare("text-matching"),
                 Bare("classification"), Bare("separation")},
      !.prompts = T("retrieval"), !.takesTask = TRUE,
      !.takes = {"late_chunking"}],
   [Plain EXCEPT !.family = "embeddings-v4", !.runtime = "embeddings_v4",
      !.multimodal = TRUE,
      !.enum = T("retrieval") \cup T("code") \cup {Bare("text-matching")},
      !.prompts = {Bare("query"), Bare("passage")},
      !.configTasks = {"retrieval", "text-matching", "code"},
      !.takesTask = TRUE, !.takes = {"return_multivector"}],
   [Plain EXCEPT !.family = "embeddings-v5", !.runtime = "embeddings_v5_text",
      !.enum = V5Enum, !.takesTask = TRUE],
   [Plain EXCEPT !.family = "embeddings-v5", !.runtime = "embeddings_v5_omni",
      !.multimodal = TRUE, !.enum = V5Enum,
      !.prompts = {Bare("query"), Bare("document")}],
   [Plain EXCEPT !.family = "code-embeddings",
      !.enum = UNION {T(base) : base \in CodeBases},
      !.prompts = CodeBases \X {"_query", "_document"},
      !.takesTask = TRUE],
   [Plain EXCEPT !.family = "clip", !.multimodal = TRUE,
      !.enum = {<<"retrieval", "query">>},
      !.prompts = {<<"retrieval", "query">>}, !.takesTask = TRUE],
   [Plain EXCEPT !.family = "reranker", !.runtime = "cross_encoder",
      !.verb = "rerank", !.multimodal = TRUE, !.dim = 0],
   [Plain EXCEPT !.family = "reranker", !.runtime = "jina_ranking",
      !.verb = "rerank", !.vectors = TRUE, !.dim = 0],
   [Plain EXCEPT !.family = "vlm", !.runtime = "vlm", !.verb = "generate",
      !.multimodal = TRUE, !.acceptsImages = TRUE, !.dim = 0],
   [Plain EXCEPT !.family = "reader-lm", !.runtime = "text_chat",
      !.verb = "generate", !.dim = 0]}

----------------------------------------------------------------------------
(* Parts.  Two tokens of a text of any length are the tokenizer's: a text   *)
(* of three fits the context without them only.                             *)

Inline64 == [at |-> "data", hops |-> <<>>, answers |-> TRUE, big |-> FALSE,
             base64 |-> TRUE, mime |-> "image", whole |-> TRUE]

Txt(n) == [type |-> "none", keys |-> {"text"}, n |-> n, words |-> 1, est |-> n + 2,
           load |-> Inline64]
Pic(type, keys, load) ==
  [type |-> type, keys |-> keys, n |-> 0, words |-> 0, est |-> 0, load |-> load]

Png    == Pic("image_url", {"url"}, Inline64)
NoUrl  == Pic("image_url", {}, Inline64)
Linked == Pic("image_url", {"url"}, [Inline64 EXCEPT !.at = "http"])
Elastic == Pic("image", {"base64", "value", "image"}, Inline64)
NoValue == Pic("image", {"base64", "image"}, Inline64)
Blob   == Pic("none", {"inlineData"}, [Inline64 EXCEPT !.mime = "unknown",
                                                    !.whole = FALSE])
Bare64 == [Blob EXCEPT !.keys = {"inlineData", "bare"}]
Nested(part, keys) == [part EXCEPT !.keys = @ \cup keys]
Both   == [Txt(1) EXCEPT !.keys = {"text", "inlineData"}]
Captioned == [Png EXCEPT !.keys = {"url", "text"}, !.n = 1]
Odd    == Pic("file", {}, Inline64)
NoObject == Pic("not a dict", {}, Inline64)

(* Loads that fail, each in its own way.                                    *)
BadLoads == {[Inline64 EXCEPT !.at = "file"],
             [Inline64 EXCEPT !.at = "http", !.hops = <<"http", "ftp">>],
             [Inline64 EXCEPT !.at = "http", !.hops = <<"http", "http">>],
             [Inline64 EXCEPT !.at = "http", !.answers = FALSE],
             [Inline64 EXCEPT !.big = TRUE],
             [Inline64 EXCEPT !.base64 = FALSE],
             [Inline64 EXCEPT !.whole = FALSE]}

Str(n)       == [shape |-> "string", parts |-> <<Txt(n)>>]
One(part)    == [shape |-> "part", parts |-> <<part>>]
Block(parts) == [shape |-> "content", parts |-> parts]
Ids          == [shape |-> "token ids", parts |-> <<>>]
Other        == [shape |-> "other", parts |-> <<>>]

----------------------------------------------------------------------------
(* Requests *)

W == [inputType |-> None, task |-> None, dims |-> 0, truncate |-> "unset",
      kwargs |-> {}, type |-> "float", dtype |-> "none", maxTokens |-> 0]

Call(route, inputs, want) ==
  [route |-> route, named |-> {}, inputs |-> inputs, wants |-> <<want>>,
   form |-> "texts", stream |-> FALSE, docs |-> <<>>, topN |-> 0, clip |-> 0,
   vectors |-> FALSE, untrimmed |-> FALSE, echo |-> TRUE]

Fuse  == Block(<<Txt(1), Png, Txt(2)>>)
Mixed == {<<Str(1), Str(2)>>, <<Fuse, Str(2)>>, <<One(Png), Str(1), Str(2)>>}

Words == DOMAIN InputTypeRoles \cup {<<"nl2code", "query">>, Bare("serch_query"),
                                     Bare("text-matching"), None}
TypeWords == DOMAIN TaskTypeRoles \cup {<<"retrieval", "passage">>,
                                        Bare("RETREIVAL"), None}

JinaCalls ==
  {Call("jina", <<Str(1), Str(2)>>, [W EXCEPT !.inputType = w]) : w \in Words}
  \cup {Call("jina", <<Str(1)>>, [W EXCEPT !.task = w]) : w \in TypeWords}
  \cup {Call("jina", <<Str(n), Str(1)>>, [W EXCEPT !.truncate = t]) :
          n \in {3, 6}, t \in {"yes", "unset"}}
  \cup {Call("jina", in, [W EXCEPT !.dims = d]) : in \in Mixed, d \in {0, 2, 5}}
  \cup {Call("jina", <<Str(1), One(p)>>, W) :
          p \in {Txt(2), Png, NoUrl, Linked, Elastic, NoValue, Blob, Bare64, Both, Odd,
               NoObject}}
  \cup {Call("jina", <<One([Png EXCEPT !.load = l])>>, W) : l \in BadLoads}
  \cup {Call("jina", <<Str(1)>>, [W EXCEPT !.kwargs = k, !.dims = d]) :
          k \in {{"late_chunking"}, {"return_multivector"},
                 {"return_tokenized_input"},
                 {"return_tokenized_input", "return_multivector"}},
          d \in {0, 2}}
  \cup {Call("jina", <<Str(1)>>, [W EXCEPT !.type = t, !.dtype = d]) :
          t \in {"base64", "several"}, d \in {"none", "binary"}}
  \cup {Call("jina", in, W) : in \in {<<>>, <<Ids>>, <<Other>>, <<Block(<<>>)>>,
                                      <<Block(<<Txt(1), NoObject>>)>>}}
  \cup {[Call("jina", <<Str(1)>>, W) EXCEPT !.named = {"foreign"}]}

CohereCalls ==
  {Call("cohere", <<Str(n), Str(1)>>,
        [W EXCEPT !.inputType = Bare("search_document"), !.truncate = t,
                  !.maxTokens = m]) :
     n \in {1, 3, 6}, t \in {"END", "START"}, m \in {0, 2}}
  \cup {Call("cohere", <<Str(n)>>, [W EXCEPT !.inputType = Bare("search_query"),
                                             !.truncate = "NONE"]) : n \in {1, 3, 6}}
  \cup {[Call("cohere", in, [W EXCEPT !.inputType = Bare("image"),
                                      !.type = "base64"]) EXCEPT !.form = f] :
          f \in {"inputs", "images"},
          in \in {<<One(Png), One(Linked)>>, <<One(NoUrl)>>}}
  \cup {Call("cohere", <<>>, [W EXCEPT !.dims = d]) : d \in {0, 5}}
  \cup {[Call("cohere", <<Block(<<>>), Fuse>>,
              [W EXCEPT !.inputType = w]) EXCEPT !.form = "inputs"] :
          w \in Words}

VoyageCalls ==
  {Call("voyage", in, [W EXCEPT !.inputType = w, !.truncate = t]) :
     in \in {<<Block(<<Txt(3)>>)>>, <<Block(<<Txt(1), Blob>>), Block(<<Txt(2)>>)>>},
     w \in {Bare("query"), None}, t \in {"yes", "no"}}

GeminiItems == {Block(<<Txt(1), Txt(1), NoObject>>), Block(<<Txt(1), Blob>>),
                Block(<<Captioned>>), Block(<<Both>>), Block(<<Txt(2), Odd>>),
                Block(<<Nested(Linked, {"content"})>>),
                Block(<<Nested(Png, {"content", "media"})>>)}
GeminiCalls ==
  {Call("gemini", <<i>>, W) : i \in GeminiItems}
  \cup {Call("gemini", <<Block(<<Txt(3)>>)>>, [W EXCEPT !.task = w, !.truncate = t]) :
          w \in TypeWords, t \in {"unset", "no"}}
  \cup {Call("gemini", <<Block(<<Txt(1)>>)>>, [W EXCEPT !.dims = -1])}

(* Batches of three: wishes that differ in task, width and truncation, with *)
(* the first and the last the same, over texts of three lengths.            *)
SubWants == {[W EXCEPT !.task = w, !.dims = d] :
               w \in {Bare("RETRIEVAL_QUERY"), Bare("RETRIEVAL_DOCUMENT")},
               d \in {0, 2}}
             \cup {[W EXCEPT !.truncate = "no"]}
BatchCalls ==
  {[Call("batch", <<i, Block(<<Txt(2)>>), j>>, W) EXCEPT !.wants = <<a, b, a>>] :
     i \in {Block(<<Txt(1)>>), Block(<<Txt(1), Blob>>)},
     j \in {Block(<<Txt(4)>>), Block(<<Blob, Txt(3), Txt(2)>>)},
     a \in SubWants, b \in SubWants}
  \cup {[Call("batch", <<>>, W) EXCEPT !.named = n] : n \in {{}, {"foreign"}}}

ChatCalls ==
  {[Call("chat", in, W) EXCEPT !.stream = s] :
     in \in {<<Str(1), Block(<<[Txt(1) EXCEPT !.type = "text"], NoObject>>)>>,
             <<Block(<<[Txt(1) EXCEPT !.type = "text"], Png>>)>>,
             <<Block(<<Elastic>>)>>, <<Block(<<Txt(1)>>)>>, <<Other>>, <<>>},
     s \in BOOLEAN}

Docs == <<[n |-> 1, words |-> 1, est |-> 3], [n |-> 3, words |-> 1, est |-> 5],
          [n |-> 2, words |-> 1, est |-> 4]>>
RankCalls ==
  {[Call("rerank", <<q>>, W) EXCEPT !.docs = Docs, !.topN = k, !.clip = c,
                                    !.untrimmed = u, !.vectors = v] :
     q \in {Str(1), One(Elastic), One(NoValue), One(Odd)},
     k \in {0, 2}, c \in {0, 2}, u \in BOOLEAN, v \in BOOLEAN}
  \cup {[Call("cohereRerank", <<Str(1)>>, W) EXCEPT !.docs = Docs, !.clip = 2,
                                                    !.echo = FALSE]}

(* The lists of Requests are the ones of the community modules.             *)
ASSUME KeptSelects ==
  \A n \in 0..4 : \A s \in [1..n -> 1..3], S \in SUBSET (1..3) :
    Kept(s, S) = SelectSeq(s, LAMBDA x : x \in S)
ASSUME ArrangedSorts ==
  \A I \in SUBSET (1..5) : Ascending(I) = SetToSortSeq(I, <)
ASSUME TotalAdds ==
  \A n \in 0..4 : \A s \in [1..n -> 0..2] :
    Total(s) = FoldLeft(LAMBDA sum, x : sum + x, 0, s)

MCCalls == JinaCalls \cup CohereCalls \cup VoyageCalls \cup GeminiCalls
           \cup BatchCalls \cup ChatCalls \cup RankCalls
=============================================================================
