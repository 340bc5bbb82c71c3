------------------------------ MODULE Requests ------------------------------
(* One request on its way through a handler of src/server/adapters to the   *)
(* loaded model and back: which vendor's envelope it came in, what its      *)
(* fields ask for, what is refused, what is decoded, and what each row of   *)
(* the answer is an encoding of.  The rows of a forward are computed here   *)
(* in one step; module Batcher has how they share forwards.                 *)
(*                                                                          *)
(* A handler is a program, a sequence of stages run in order; every stage   *)
(* may end the request with a status, and the last one answers it.          *)
EXTENDS Tasks, Media, Integers, FiniteSets

CONSTANTS Images,     \* the images of the catalog a container may be
          Calls,      \* the requests a caller may send
          Specials,   \* special tokens the tokenizer adds to a text
          PromptTokens(_), \* tokens of the prompt a key names
          Scores      \* what a reranker may score a document

VARIABLES image,     \* the image this container is
          tok,       \* its tokenizer loaded on its own
          req,       \* the request
          step,      \* the stage of its program it has reached
          at,        \* the input, message or sub-request being parsed
          rows,      \* the inputs parsed so far
          tasks,     \* the task each row is to be encoded with
          ordered,   \* the encoding of each row, NotYet before its forward
          ranking,   \* what a reranker answered
          touched,   \* the parts a connection or a decoder was opened for
          status     \* 0 while the request is being worked on

vars == <<image, tok, req, step, at, rows, tasks, ordered, ranking, touched,
          status>>

Gemini == {"gemini", "batch"}
Ranks  == {"rerank", "cohereRerank"}
Embeds == {"jina", "cohere", "voyage"} \cup Gemini

Program ==
  [jina   |-> <<"validate", "model", "verb", "gate", "parse", "task",
                "kwargs", "embed">>,
   cohere |-> <<"model", "task", "gate", "parse", "trim", "embed">>,
   voyage |-> <<"model", "gate", "parse", "task", "embed">>,
   gemini |-> <<"model", "parse", "task", "embed">>,
   batch  |-> <<"model", "parse", "embed">>,
   chat   |-> <<"verb", "model", "stream", "parse", "generate">>,
   rerank |-> <<"model", "parse", "rank">>,
   cohereRerank |-> <<"model", "parse", "rank">>]

(* Every request is for a route there is, lists its inputs, and Cohere's    *)
(* texts are strings: anything else comes in its other two fields.          *)
ASSUME CallAssumption ==
  \A call \in Calls :
    /\ call.route \in DOMAIN Program
    /\ call.inputs \in Seq(Members(call.inputs))
    /\ call.route = "cohere" =>
         \/ call.form \in {"inputs", "images"}
         \/ \A i \in DOMAIN call.inputs : call.inputs[i].shape = "string"

(* An input is its parts, a string is one; texts and counts have a length.  *)
ASSUME ContentAssumption ==
  \A call \in Calls :
    /\ \A i \in DOMAIN call.inputs :
         /\ call.inputs[i].parts \in Seq(Members(call.inputs[i].parts))
         /\ call.inputs[i].shape = "string" => call.inputs[i].parts # <<>>
         /\ \A part \in Members(call.inputs[i].parts) :
              /\ part.n \in Nat /\ part.words \in Nat /\ part.est \in Nat
              /\ part.load.mime \in {"image", "stream", "unknown"}
    /\ call.docs \in Seq(Members(call.docs))
    /\ \A doc \in Members(call.docs) : doc.n \in Nat
    /\ call.topN \in Nat /\ call.clip \in Nat

(* What the schemas of the routes let a caller write: one wish, or one for  *)
(* each sub-request, with its width, limit and form.                        *)
Dtypes == {"float", "int8", "uint8", "binary", "ubinary"}
Types == [jina   |-> {"float", "base64", "binary", "ubinary", "several"},
          cohere |-> Dtypes \cup {"base64"},
          voyage |-> {"float", "base64"}]
ASSUME WantAssumption ==
  \A call \in Calls :
    /\ call.wants \in Seq(Members(call.wants)) /\ call.wants # <<>>
    /\ call.route = "batch" => Len(call.inputs) <= Len(call.wants)
    /\ \A w \in Members(call.wants) :
         /\ w.dims \in Int /\ w.maxTokens \in Nat
         /\ w.dtype \in Dtypes \cup {"none"}
         /\ call.route \in DOMAIN Types => w.type \in Types[call.route]
         /\ call.route \in Gemini => w.inputType = None
         /\ call.route \in {"cohere", "voyage"} => w.task = None

(* An embedding model has a width, and a context of 0 is one without limit. *)
ASSUME ImageAssumption ==
  /\ Specials \in Nat /\ Scores \subseteq Int
  /\ \A m \in Images : /\ m.context \in Nat /\ m.dim \in Nat
                       /\ m.verb = "embed" => m.dim # 0
                       /\ \A key \in m.prompts : PromptTokens(key) \in Nat

(* The tasks of an embedding model and the keys of its prompts.  A model    *)
(* without an enum has no prompts.  No task is spelled like a vendor's word *)
(* but two, which mean what they say; the families a vendor's query may be  *)
(* fitted to name their tasks by role.  Prompts are keyed by task (v3, and  *)
(* clip, which has the query side alone), by role (v4, v5-omni) or by base  *)
(* and role (code-embeddings), the last two for models with both roles of   *)
(* every such family.                                                       *)
VendorWords == DOMAIN InputTypeRoles \cup DOMAIN TaskTypeRoles
Searches    == {"retrieval", "qa", "nl2code", "code"}
TaskKeyed(m) ==
  LET roles == {t \in m.enum : Role(t) # "none"}
  IN  /\ roles \subseteq m.prompts /\ m.prompts \subseteq m.enum
      /\ Bases(roles) \subseteq {"retrieval"} /\ Role(DefaultTask(m)) = "none"
RoleKeyed(m) ==
  /\ \/ m.prompts \in {{Bare("query"), Bare(key)} : key \in {"passage", "document"}}
     \/ m.prompts = Bases(m.enum) \X {"_query", "_document"}
  /\ \A f \in Searches \cap Bases(m.enum) :
       {<<f, "query">>, <<f, "passage">>} \subseteq m.enum
ASSUME VocabularyAssumption ==
  \A m \in {i \in Images : i.verb = "embed"} :
    /\ m.enum = {} => m.prompts = {}
    /\ m.enum \subseteq STRING \X {"none", "query", "passage"}
    /\ m.enum \cap (VendorWords \cup {None, Refusal, Bare("passage")})
         \subseteq {Bare("classification"), Bare("clustering")}
    /\ m.enum \cap {Bare(f) : f \in Searches} = {}
    /\ m.prompts = {} \/ TaskKeyed(m) \/ RoleKeyed(m)

(* What a handler may list: the members of S by a strict order on them, a   *)
(* set of pairs, and those members of the sequence s that are in S.         *)
Arranged(S, before) ==
  [k \in 1..Cardinality(S) |->
     CHOOSE x \in S : Cardinality({y \in S : <<y, x>> \in before}) = k - 1]
Ascending(I) == Arranged(I, {e \in I \X I : e[1] < e[2]})
Kept(s, S) ==
  LET I == {i \in DOMAIN s : s[i] \in S}
  IN  [k \in 1..Cardinality(I) |-> s[Ascending(I)[k]]]

At(stage) ==
  /\ status = 0
  /\ step \in DOMAIN Program[req.route]
  /\ Program[req.route][step] = stage

Refuse(s) ==
  /\ status' = s
  /\ UNCHANGED <<step, at, rows, tasks, ordered, ranking>>

(* A stage that only lets the request pass or ends it.                      *)
Check(stage, refused, s) ==
  /\ At(stage)
  /\ IF refused
     THEN Refuse(s)
     ELSE step' = step + 1
          /\ UNCHANGED <<at, rows, tasks, ordered, ranking, status>>
  /\ UNCHANGED <<image, tok, req, touched>>

----------------------------------------------------------------------------
(* What is asked of row p *)

Want(p) == IF req.route = "batch" THEN req.wants[p] ELSE req.wants[1]

(* The native field is off unless set; elsewhere only an explicit no counts,*)
(* and Cohere's own directive has been applied before the engine is called. *)
Truncates(p) ==
  CASE req.route = "jina"   -> Want(p).truncate = "yes"
    [] req.route = "cohere" -> TRUE
    [] OTHER                -> Want(p).truncate # "no"

TaskOf(p) ==
  CASE req.route = "jina" ->
         NativeTask(image, Want(p).inputType, Want(p).task)
    [] req.route \in {"cohere", "voyage"} ->
         InputTypeTask(image, Want(p).inputType)
    [] req.route \in Gemini -> TaskTypeTask(image, Want(p).task)

(* The numbers of an embedding and how they are written down: the native    *)
(* field names both at once, output_dtype the numbers alone.                *)
NativeTypes == [float |-> <<"float", FALSE>>, base64 |-> <<"float", TRUE>>,
                binary |-> <<"binary", FALSE>>, ubinary |-> <<"ubinary", FALSE>>]
Buffer(dtype) == CASE dtype = "float" -> "<f4"
                   [] dtype \in {"int8", "binary"} -> "int8"
                   [] dtype \in {"uint8", "ubinary"} -> "uint8"
EncodeVector(dtype, as64) ==
  [numbers |-> dtype, wire |-> IF as64 THEN Buffer(dtype) ELSE "list"]
Form(p) ==
  LET w == Want(p)
  IN  CASE req.route = "jina" ->
             EncodeVector(IF w.dtype # "none" THEN w.dtype
                                          ELSE NativeTypes[w.type][1],
                          NativeTypes[w.type][2])
        [] req.route = "cohere" ->
             IF w.type = "base64" THEN EncodeVector("float", TRUE)
                                  ELSE EncodeVector(w.type, FALSE)
        [] req.route = "voyage" -> EncodeVector("float", w.type = "base64")
        [] req.route \in Gemini -> EncodeVector("float", FALSE)

----------------------------------------------------------------------------
(* Stages that check *)

(* The validators of EmbeddingsRequest.                                     *)
Validate ==
  Check("validate",
        \/ req.inputs = <<>>
        \/ \E i \in DOMAIN req.inputs : req.inputs[i].shape = "token ids"
        \/ Want(1).type = "several"
        \/ "return_multivector" \in Want(1).kwargs /\ Want(1).dims # 0
        \/ /\ "return_tokenized_input" \in Want(1).kwargs
           /\ "return_multivector" \notin Want(1).kwargs,
        422)

(* The model of the request, and of every sub-request of a batch, must be   *)
(* this image's or be left out.                                             *)
RejectForeignModel == Check("model", "foreign" \in req.named, 400)

RequireVerb ==
  Check("verb",
        image.verb # IF req.route = "chat" THEN "generate" ELSE "embed", 400)

Stream == Check("stream", req.stream \/ req.inputs = <<>>, 400)

(* The request is refused on a text-only model before any of it is decoded. *)
NeedsMultimodal ==
  CASE req.route = "jina"   -> \E i \in DOMAIN req.inputs : IsMedia(req.inputs[i])
    [] req.route = "cohere" -> req.form \in {"inputs", "images"}
    [] OTHER                -> TRUE

RequireMultimodal == Check("gate", NeedsMultimodal /\ ~image.multimodal, 400)

InferenceKwargs ==
  Check("kwargs", \/ "return_tokenized_input" \in Want(1).kwargs
                  \/ ~ Want(1).kwargs \subseteq image.takes, 400)

ResolveTasks ==
  /\ At("task")
  /\ IF TaskOf(1) = Refusal
     THEN Refuse(400)
     ELSE /\ tasks' = [p \in DOMAIN req.inputs |-> TaskOf(1)]
          /\ step' = step + 1
          /\ UNCHANGED <<at, rows, ordered, ranking, status>>
  /\ UNCHANGED <<image, tok, req, touched>>

----------------------------------------------------------------------------
(* Parsing the inputs, in order *)

ChatLoads(part) ==
  \/ part.type = "image_url" /\ "url" \in part.keys
  \/ part.type = "image" /\ "base64" \in part.keys

ChatPart(part) ==
  IF part.type = "text" THEN Answer(200, "text")
  ELSE IF ChatLoads(part) THEN Input(FromUrlOrData(part.load), part.load)
  ELSE Bad

(* A rerank query is a text, or an object with a text or an image key.      *)
QueryPart(part) ==
  IF "text" \in part.keys THEN Answer(200, "text")
  ELSE IF "image" \in part.keys THEN ParseContentPart(part)
  ELSE Bad

(* Gemini takes a part with a text and no inlineData for that text.         *)
GeminiText(part) == "text" \in part.keys /\ "inlineData" \notin part.keys

Reading(part) ==
  CASE req.route = "chat"    -> ChatPart(part)
    [] req.route \in Ranks   -> QueryPart(part)
    [] req.route \in Gemini  -> IF GeminiText(part) THEN Answer(200, "text")
                                ELSE ParseContentPart(part)
    [] OTHER                 -> ParseContentPart(part)

Loads(part) ==
  CASE req.route = "chat"    -> ChatLoads(part)
    [] req.route \in Ranks   -> "text" \notin part.keys /\ "image" \in part.keys
                                /\ Touches(part)
    [] req.route \in Gemini  -> ~GeminiText(part) /\ Touches(part)
    [] OTHER                 -> Touches(part)

(* Chat and Gemini pass over a part that is not an object.                  *)
PartsOf(item) ==
  IF req.route \in Gemini \cup {"chat"}
  THEN Kept(item.parts, {part \in Members(item.parts) : IsDict(part)})
  ELSE item.parts

(* Routes without a gate of their own look at each input as they come to it.*)
ItemNeedsMultimodal(item) ==
  /\ item.shape # "string"   \* "other" is neither a string nor an object
  /\ CASE req.route = "chat" ->
            \E part \in Members(PartsOf(item)) : ChatLoads(part)
       [] req.route \in Ranks ->
            \E part \in Members(item.parts) :
              "text" \notin part.keys /\ "image" \in part.keys
       [] req.route \in Gemini ->
            \E part \in Members(PartsOf(item)) : IsMediaByItself(part)
       [] OTHER -> FALSE

Piece(part) ==
  [as |-> Reading(part).as, n |-> part.n, words |-> part.words,
   est |-> part.est, from |-> 1, to |-> part.n]

TextPiece(n, words, est) ==
  [as |-> "text", n |-> n, words |-> words, est |-> est, from |-> 1, to |-> n]

Total(counts) ==
  LET sum[i \in 0..Len(counts)] ==
        IF i = 0 THEN 0 ELSE sum[i - 1] + counts[i]
  IN  sum[Len(counts)]

(* One string for the texts of a Gemini content; nothing at all is an empty *)
(* text wherever parts are fused.                                           *)
Joined(pieces) ==
  IF req.route \in Gemini /\ \A i \in DOMAIN pieces : pieces[i].as = "text"
  THEN <<TextPiece(Total([i \in DOMAIN pieces |-> pieces[i].n]),
                   Total([i \in DOMAIN pieces |-> pieces[i].words]),
                   Total([i \in DOMAIN pieces |-> pieces[i].est]))>>
  ELSE IF pieces = <<>> /\ req.route # "jina" THEN <<TextPiece(0, 0, 0)>>
  ELSE pieces

Row(p) ==
  LET item == req.inputs[p]
  IN  IF item.shape = "string"
      THEN <<TextPiece(item.parts[1].n, item.parts[1].words, item.parts[1].est)>>
      ELSE Joined([i \in DOMAIN PartsOf(item) |-> Piece(PartsOf(item)[i])])

Failing(item) ==
  IF item.shape = "string" THEN {}
  ELSE {i \in DOMAIN PartsOf(item) : Reading(PartsOf(item)[i]).status # 200}

(* The parts reached before one of them fails.                              *)
LoadedFrom(item) ==
  IF item.shape = "string" THEN {}
  ELSE {part \in Members(PartsOf(item)) :
          /\ Loads(part)
          /\ Failing(item) = {} \/
             \E i \in 1..FirstOf(Failing(item)) : PartsOf(item)[i] = part}

ParseInput ==
  /\ At("parse") /\ at <= Len(req.inputs)
  /\ LET item   == req.inputs[at]
         asked  == IF req.route = "batch" THEN TaskOf(at) ELSE None
     IN  IF \/ asked = Refusal \/ item.shape = "other"
            \/ ItemNeedsMultimodal(item) /\ ~image.multimodal
         THEN Refuse(400) /\ UNCHANGED touched
         ELSE /\ touched' = touched \cup LoadedFrom(item)
              /\ IF Failing(item) # {}
                 THEN Refuse(Reading(PartsOf(item)[FirstOf(Failing(item))]).status)
                 ELSE /\ rows' = Append(rows, Row(at))
                      /\ tasks' = IF req.route = "batch" THEN Append(tasks, asked)
                                                         ELSE tasks
                      /\ at' = at + 1
                      /\ UNCHANGED <<step, ordered, ranking, status>>
  /\ UNCHANGED <<image, tok, req>>

AllParsed ==
  /\ At("parse") /\ at > Len(req.inputs)
  /\ step' = step + 1
  /\ UNCHANGED <<image, tok, req, at, rows, tasks, ordered, ranking, touched,
                 status>>

----------------------------------------------------------------------------
(* Counting tokens *)

TokenLength_Bare(text) == IF tok THEN text.to - text.from + 1 ELSE text.est
TokenLength(text) ==
  IF tok THEN text.to - text.from + 1 + Specials ELSE text.est

IsText(piece)  == piece.as = "text"
IsString(row)  == Len(row) = 1 /\ IsText(row[1])
TextsOf(row)   == Kept(row, {x \in Members(row) : IsText(x)})
OverLength(texts) ==
  image.context # 0
  /\ \E i \in DOMAIN texts : TokenLength(texts[i]) > image.context

(* Cohere's directive, applied to its texts before the engine counts them:  *)
(* the ids it counts are without the special ones.  Without a tokenizer it  *)
(* counts words and can only refuse.                                        *)
TrimLimit == IF Want(1).maxTokens # 0 THEN Want(1).maxTokens ELSE image.context
IdsOf(text) == IF tok THEN text.n ELSE text.words
Trimmed(text) ==
  IF TrimLimit = 0 \/ IdsOf(text) <= TrimLimit \/ ~tok THEN text
  ELSE IF Want(1).truncate = "START"
       THEN [text EXCEPT !.from = text.n - TrimLimit + 1]
       ELSE [text EXCEPT !.to = TrimLimit]

TruncateTexts ==
  /\ At("trim")
  /\ IF /\ req.form = "texts" /\ TrimLimit # 0 /\ Want(1).truncate = "NONE"
        /\ \E p \in DOMAIN rows : IdsOf(rows[p][1]) > TrimLimit
     THEN Refuse(400)
     ELSE /\ rows' = IF req.form = "texts"
                     THEN [p \in DOMAIN rows |-> <<Trimmed(rows[p][1])>>]
                     ELSE rows
          /\ step' = step + 1
          /\ UNCHANGED <<at, tasks, ordered, ranking, status>>
  /\ UNCHANGED <<image, tok, req, touched>>

----------------------------------------------------------------------------
(* The engine: embed *)

NotYet == [of |-> 0]

(* The status of the first check that fails, or 200.                        *)
Verdict(checks) ==
  LET failed == {i \in DOMAIN checks : checks[i][1]}
  IN  IF failed = {} THEN 200 ELSE checks[FirstOf(failed)][2]

(* The rows of one call of the engine: those that share task, dimensions    *)
(* and truncation with the first row that has no encoding yet.              *)
KeyOf_TaskAlone(p) == <<tasks[p], 0, FALSE>>
KeyOf(p) == <<tasks[p], Want(p).dims, Truncates(p)>>
Group ==
  LET left == {p \in DOMAIN rows : ordered[p] = NotYet}
  IN  IF left = {} THEN <<>>
      ELSE Ascending({p \in left : KeyOf(p) = KeyOf(FirstOf(left))})

(* The texts of the first k rows of a call, one after the other.            *)
TextsUpTo(group, k) == FlattenSeq([i \in 1..k |-> TextsOf(rows[group[i]])])

EmbedChecks(p, task, texts) ==
  Verdict(<< <<image.verb # "embed", 400>>,
             <<~CheckTask(image, task), 400>>,
             <<image.dim # 0 /\ Want(p).dims > image.dim, 422>>,
             <<~ Want(p).kwargs \subseteq image.takes, 400>>,
             <<~Truncates(p) /\ OverLength(texts), 400>> >>)
EmbedVerdict(group) ==
  EmbedChecks(group[1], tasks[group[1]], TextsUpTo(group, Len(group)))

(* Parts that are not text come first in a fused row.                       *)
Fused(row) == Kept(row, {x \in Members(row) : ~IsText(x)}) \o TextsOf(row)

(* The packing weight of each row of a call, read off one pass over all its *)
(* texts with a cursor: a fused row moves it by its texts, media by none.   *)
Weight(group, i) ==
  LET texts  == TextsUpTo(group, Len(group))
      cursor == Len(TextsUpTo(group, i - 1))
      length == TokenLength(texts[cursor + 1])
  IN  IF ~IsString(rows[group[i]])
      THEN IF image.context # 0 THEN image.context ELSE 512
      ELSE IF image.context # 0 /\ length > image.context THEN image.context
      ELSE length

(* The model reads no more of a text than its context has room for, which   *)
(* the special tokens and the prompt before the text take their part of.    *)
Prefix(prompt) == IF prompt = None THEN 0 ELSE PromptTokens(prompt)
Room(prompt) ==
  LET taken == Specials + Prefix(prompt)
  IN  IF image.context > taken THEN image.context - taken ELSE 0
Read(piece, prompt) ==
  IF \/ ~IsText(piece) \/ image.context = 0
     \/ piece.to - piece.from + 1 <= Room(prompt)
  THEN piece
  ELSE [piece EXCEPT !.to = piece.from + Room(prompt) - 1]

(* The columns left of an embedding; Gemini's schema has no lower bound,    *)
(* and a slice below zero counts from the end.                              *)
Width(dims) ==
  CASE dims = 0 \/ dims > image.dim     -> image.dim
    [] dims \in 1..image.dim            -> dims
    [] dims < 0 /\ image.dim + dims > 0 -> image.dim + dims
    [] OTHER                            -> 0

(* A prompt is put before the texts of a call that has nothing but texts.   *)
Vector(group, i) ==
  LET p      == group[i]
      how    == ResolveTask(image, tasks[group[1]])
      all    == \A j \in DOMAIN group : IsString(rows[group[j]])
      prompt == IF all THEN how.prompt ELSE None
  IN  [of      |-> p,
       pieces  |-> LET row == Fused(rows[p])
                   IN  [k \in DOMAIN row |-> Read(row[k], prompt)],
       adapter |-> Adapter(image, how.adapter),
       prompt  |-> prompt,
       width   |-> Width(Want(group[1]).dims),
       weight  |-> Weight(group, i),
       form    |-> Form(p)]

(* What the forward may come back with, and the status each is answered by: *)
(* a ValueError, out of memory, a worker that is gone, anything else.       *)
ForwardFails_Proxied == {400, 413, 500, 502, 503}
ForwardFails == {400, 413, 500, 503}

PositionIn(group, p) == CHOOSE i \in DOMAIN group : group[i] = p

Embed ==
  /\ At("embed") /\ Group # <<>>
  /\ IF EmbedVerdict(Group) # 200
     THEN Refuse(EmbedVerdict(Group))
     ELSE \/ \E s \in ForwardFails : Refuse(s)
          \/ LET group   == Group
                 vectors == [i \in DOMAIN group |-> Vector(group, i)]
             IN  /\ ordered' =
                      [p \in DOMAIN ordered |->
                         IF p \in Members(group)
                         THEN vectors[PositionIn(group, p)] ELSE ordered[p]]
                 /\ UNCHANGED <<step, at, rows, tasks, ranking, status>>
  /\ UNCHANGED <<image, tok, req, touched>>

(* A handler that groups nothing calls the engine for no input as well.     *)
AsksForNothing == rows = <<>> /\ req.route # "batch"

EmbedAnswers ==
  /\ At("embed") /\ Group = <<>>
  /\ IF ~AsksForNothing THEN status' = 200
     ELSE IF EmbedChecks(1, TaskOf(1), <<>>) # 200
     THEN status' = EmbedChecks(1, TaskOf(1), <<>>)
     ELSE status' \in {200} \cup ForwardFails
  /\ UNCHANGED <<image, tok, req, step, at, rows, tasks, ordered, ranking,
                 touched>>

----------------------------------------------------------------------------
(* The engine: rerank and generate *)

(* What a document's score is computed from: at most so many of its tokens. *)
Clip(text) == IF req.clip # 0 /\ text.n > req.clip
              THEN [text EXCEPT !.to = req.clip] ELSE text

Scored == [i \in DOMAIN req.docs |->
             Clip(TextPiece(req.docs[i].n, req.docs[i].words, req.docs[i].est))]

RankVerdict ==
  Verdict(<< <<image.verb # "rerank", 400>>,
             <<req.vectors /\ ~image.vectors, 400>>,
             <<req.clip # 0 /\ ~tok, 400>>,
             <<req.untrimmed /\ OverLength(rows[1] \o Scored), 400>>,
             <<~IsString(rows[1]), 500>> >>)    \* only texts can be counted

(* Best first, the first sent before the later at the same score.           *)
Better(score) ==
  {e \in (DOMAIN score) \X (DOMAIN score) :
     \/ score[e[1]] > score[e[2]]
     \/ score[e[1]] = score[e[2]] /\ e[1] < e[2]}
Ranked_SliceFirst(score) ==
  Arranged(IF req.topN = 0 THEN DOMAIN score
                           ELSE {i \in DOMAIN score : i <= req.topN},
           Better(score))
Ranked(score) ==
  LET best == Arranged(DOMAIN score, Better(score))
  IN  IF req.topN = 0 \/ req.topN > Len(best) THEN best
                                              ELSE SubSeq(best, 1, req.topN)

(* The document echoed is the caller's, whatever was scored.                *)
Rerank ==
  /\ At("rank")
  /\ IF RankVerdict # 200
     THEN Refuse(RankVerdict)
     ELSE \/ Refuse(500)
          \/ \E score \in [DOMAIN req.docs -> Scores] :
               /\ ranking' =
                    [score |-> score, scored |-> Scored,
                     results |->
                       [k \in DOMAIN Ranked(score) |->
                          [index |-> Ranked(score)[k],
                           score |-> score[Ranked(score)[k]],
                           echo  |-> IF req.echo THEN <<req.docs[Ranked(score)[k]]>>
                                                ELSE <<>>]]]
               /\ status' = 200
               /\ UNCHANGED <<step, at, rows, tasks, ordered>>
  /\ UNCHANGED <<image, tok, req, touched>>

Generate ==
  /\ At("generate")
  /\ IF /\ ~image.acceptsImages
        /\ \E m \in DOMAIN rows : \E i \in DOMAIN rows[m] : ~IsText(rows[m][i])
     THEN Refuse(400)
     ELSE \/ Refuse(500)
          \/ /\ image.acceptsImages \/ tok   \* text chat templates with it
             /\ Refuse(200)
  /\ UNCHANGED <<image, tok, req, touched>>

----------------------------------------------------------------------------
NoRanking == [results |-> <<>>]

Init ==
  /\ image \in Images /\ tok \in BOOLEAN /\ req \in Calls
  /\ step = 1 /\ at = 1 /\ rows = <<>> /\ tasks = <<>>
  /\ ordered = [p \in DOMAIN req.inputs |-> NotYet]
  /\ ranking = NoRanking /\ touched = {} /\ status = 0

Answered == status # 0 /\ UNCHANGED vars

Next ==
  \/ Validate \/ RejectForeignModel \/ RequireVerb \/ Stream
  \/ RequireMultimodal \/ InferenceKwargs \/ ResolveTasks
  \/ ParseInput \/ AllParsed \/ TruncateTexts
  \/ Embed \/ EmbedAnswers \/ Rerank \/ Generate
  \/ Answered

Spec == Init /\ [][Next]_vars

----------------------------------------------------------------------------
(* What the handlers promise *)

Statuses == {0, 200, 400, 413, 422, 500, 503}
EmbedsNow == status = 200 /\ req.route \in Embeds

(* TypeOK: the shape of the state.  One row is parsed per input passed, a   *)
(* batch names one task per row, and what was opened came with the request. *)
TypeOK ==
  /\ image \in Images /\ tok \in BOOLEAN /\ req \in Calls
  /\ step \in Nat \ {0} /\ at \in Nat \ {0} /\ status \in Statuses
  /\ Len(rows) = at - 1 /\ at <= Len(req.inputs) + 1
  /\ DOMAIN ordered = DOMAIN req.inputs
  /\ req.route = "batch" => Len(tasks) = at - 1
  /\ touched \subseteq UNION {Members(req.inputs[i].parts) :
                                i \in DOMAIN req.inputs}

(* NoDecodeOnTextModel: a text-only model never opens a connection or runs  *)
(* a decoder for anything a caller attached, whichever envelope it came in  *)
(* and however the part is spelled, save for the parts RefusedBeforeDecoded *)
(* is about: Gemini's with a list of their own under `content`.  The        *)
(* refusal is decided on the shape of an input (is_media, parse_message,    *)
(* query_text) and the decoding on its fields (_parse_content_part), in     *)
(* different files and in another order on every route.                     *)
NoDecodeOnTextModel ==
  \A part \in touched :
    image.multimodal \/ (req.route \in Gemini /\ "content" \in part.keys)

(* RefusedBeforeDecoded: what openai.py and media.py say, "a text-only      *)
(* model must never run the image decoder on a caller's bytes", and the     *)
(* comment at Gemini's gate, "Decided before any part is decoded".          *)
RefusedBeforeDecoded == touched # {} => image.multimodal

(* EachRowAsAsked: an embedding answer has, at each position, the encoding  *)
(* of the input sent at that position, with the adapter, the width and the  *)
(* form this input asked for and the packing weight its own text has.  In a *)
(* Gemini batch these differ from row to row, the rows are encoded group by *)
(* group and scattered back, and the weights are read off one flat list of  *)
(* texts that does not line up with the rows.                               *)
OwnWeight(p) ==
  LET full == IF image.context # 0 THEN image.context ELSE 512
      own  == TokenLength(rows[p][1])
  IN  IF ~IsString(rows[p]) THEN full
      ELSE IF image.context # 0 /\ own > image.context THEN image.context ELSE own

AsAsked(v, p) ==
  LET w == Want(p)
  IN  /\ v.of = p
      /\ {<<x.as, x.n>> : x \in Members(v.pieces)}
           = {<<x.as, x.n>> : x \in Members(Row(p))}
      /\ v.adapter = Adapter(image, ResolveTask(image, TaskOf(p)).adapter)
      /\ w.dims >= 0 => v.width = IF w.dims = 0 THEN image.dim ELSE w.dims
      /\ v.weight = OwnWeight(p)
      /\ req.route = "jina" /\ w.dtype # "none" => v.form.numbers = w.dtype
      /\ v.form.wire # "list" <=> req.route \notin Gemini /\ w.type = "base64"

EachRowAsAsked ==
  EmbedsNow => \A p \in DOMAIN req.inputs : AsAsked(ordered[p], p)

(* RefusedNotShortened: a caller who turned truncation off gets the whole   *)
(* of every text encoded or a refusal, never a shortened text with a 200,   *)
(* as long as the tokenizer that counts is the model's and no prompt is put *)
(* before the text.  The check does not count a prompt: a text it precedes  *)
(* may lose at its end what the prompt takes, and no more.                  *)
ReadWhole(v) ==
  \A k \in DOMAIN v.pieces : v.pieces[k].n - v.pieces[k].to <= Prefix(v.prompt)

RefusedNotShortened ==
  EmbedsNow /\ tok =>
    \A p \in DOMAIN ordered : ~Truncates(p) => ReadWhole(ordered[p])

(* TaskSurvives: a task this image serves reaches the model unchanged       *)
(* through every vendor's field, and a vendor's word for a query or for a   *)
(* document is never answered with the prompt of the other role, nor        *)
(* without its own prompt when the model has one and the call is all text.  *)
QueryWords == {Bare(w) : w \in {"query", "search_query", "RETRIEVAL_QUERY",
                                "QUESTION_ANSWERING", "FACT_VERIFICATION",
                                "CODE_RETRIEVAL_QUERY"}}
PassageWords == {Bare(w) : w \in {"document", "search_document",
                                  "RETRIEVAL_DOCUMENT"}}
QueryPrompt(key)   == key = Bare("query") \/ Role(key) \in {"query", "_query"}
PassagePrompt(key) == \/ key \in {Bare("passage"), Bare("document")}
                      \/ Role(key) \in {"passage", "_document"}
WordOf(p) == IF Want(p).inputType # None THEN Want(p).inputType ELSE Want(p).task
RoleKept(p, Words, Own(_), Other(_)) ==
  WordOf(p) \in Words =>
    /\ ~Other(ordered[p].prompt)
    /\ (/\ \E key \in image.prompts : Own(key)
        /\ \A q \in DOMAIN rows : IsString(rows[q]))
       => Own(ordered[p].prompt)
TaskSurvives ==
  /\ image.verb = "embed" => \A name \in image.enum :
       /\ NativeTask(image, None, name) = name
       /\ InputTypeTask(image, name) = name
       /\ TaskTypeTask(image, name) = name
  /\ EmbedsNow => \A p \in DOMAIN ordered :
       /\ RoleKept(p, QueryWords, QueryPrompt, PassagePrompt)
       /\ RoleKept(p, PassageWords, PassagePrompt, QueryPrompt)

(* RankedAsSent: a rerank answer lists distinct documents, best first, with *)
(* none left out that scored higher than one listed; each echoes the        *)
(* caller's document in full although only its first tokens were scored.    *)
RankedAsSent ==
  LET list == ranking.results
      in   == {list[k].index : k \in DOMAIN list}
  IN  ranking # NoRanking =>
        /\ Cardinality(in) = Len(list)
        /\ \A j, k \in DOMAIN list : j < k => list[j].score >= list[k].score
        /\ \A k \in DOMAIN list : list[k].score = ranking.score[list[k].index]
        /\ \A out \in DOMAIN req.docs \ in, k \in DOMAIN list :
             ranking.score[out] <= list[k].score
        /\ req.echo => \A k \in DOMAIN list : list[k].echo = <<req.docs[list[k].index]>>
        /\ req.clip # 0 => \A i \in DOMAIN req.docs : ranking.scored[i].to <= req.clip

(* CohereDirective: what truncate_texts says of itself, "`truncate` says    *)
(* which end to drop" and "`NONE` means refuse rather than shorten": with   *)
(* the tokenizer loaded, an answered text was read whole under NONE and to  *)
(* its end under START.                                                     *)
CohereDirective ==
  EmbedsNow /\ tok /\ req.route = "cohere" /\ req.form = "texts" =>
    \A p \in DOMAIN ordered :
      Want(p).truncate \in {"NONE", "START"} =>
        ordered[p].pieces[1].to = ordered[p].pieces[1].n
=============================================================================
