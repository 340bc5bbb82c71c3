------------------------------- MODULE Tasks -------------------------------
(* How the word a caller uses for the purpose of a text becomes the adapter *)
(* and the prompt the loaded model runs with: src/server/tasks.py, the task *)
(* part of src/server/engine.py and of src/server/families.                 *)
(*                                                                          *)
(* A name is a pair.  For a task it is its base and its role, "nl2code" and *)
(* "query" for nl2code.query; for a vendor's word, or a bare task, the role *)
(* is "none".  A prompt key is the pair of the same halves, with "_query"   *)
(* and "_document" for the keys code-embeddings joins by an underscore.     *)
(*                                                                          *)
(* An image m is the record of what one container serves: its family and    *)
(* runtime, the task enum of the catalog, the prompts that have a text, the *)
(* task names of its own configuration, and whether encode takes a task.    *)
EXTENDS Naturals, Sequences, SequencesExt

None    == <<"none", "none">>    \* no task, no prompt, no answer
Refusal == <<"refused", "none">> \* the caller gets a 400

Bare(name) == <<name, "none">>
Base(task) == task[1]
Role(task) == task[2]

(* The least of a set of numbers, and the first member of the sequence s    *)
(* that is in the set S, or otherwise when none is.                         *)
FirstOf(S) == CHOOSE i \in S : \A j \in S : i <= j
FirstIn(s, S, otherwise) ==
  LET hits == {i \in DOMAIN s : s[i] \in S}
  IN  IF hits = {} THEN otherwise ELSE s[FirstOf(hits)]

----------------------------------------------------------------------------
(* src/server/tasks.py *)

DefaultTask(m) ==
  CASE m.family \in {"embeddings-v4", "embeddings-v5"} -> Bare("text-matching")
    [] m.family = "code-embeddings"                    -> <<"nl2code", "query">>
    [] OTHER                                           -> Bare("retrieval")

V5Tasks == {Bare("retrieval"), <<"retrieval", "query">>,
            <<"retrieval", "passage">>, Bare("text-matching"),
            Bare("classification"), Bare("clustering")}

V5Task(task) == IF task \in V5Tasks THEN Bare(Base(task)) ELSE task

MapPromptName_NoPassage(task, prompts) ==
  LET keys == IF Role(task) = "query"
              THEN << task, <<Base(task), "_query">>, Bare("query") >>
              ELSE << task, <<Base(task), "_document">>, Bare("document"),
                      Bare("query") >>
  IN  IF task = None THEN None ELSE FirstIn(keys, prompts, None)

MapPromptName(task, prompts) ==
  LET keys == CASE Role(task) = "query" ->
                     << task, <<Base(task), "_query">>, Bare("query") >>
                [] Role(task) = "passage" ->
                     << task, <<Base(task), "_document">>, Bare("document"),
                        Bare("passage") >>
                [] OTHER -> << task, Bare("document"), Bare("query") >>
  IN  IF task = None THEN None ELSE FirstIn(keys, prompts, None)

Wish(families, role) == [families |-> families, role |-> role]

(* Cohere's and Voyage's input_type.                                        *)
InputTypes == {"query", "search_query", "document", "search_document",
               "classification", "clustering", "image"}
InputTypeRoles ==
  [w \in {Bare(name) : name \in InputTypes} |->
     CASE Base(w) \in {"query", "search_query"} ->
            Wish(<<"retrieval">>, "query")
       [] Base(w) \in {"document", "search_document"} ->
            Wish(<<"retrieval">>, "passage")
       [] Base(w) = "classification" -> Wish(<<"classification">>, "none")
       [] Base(w) = "clustering" -> Wish(<<"clustering", "separation">>, "none")
       [] Base(w) = "image" -> Wish(<<>>, "none")]

(* Gemini's taskType.                                                       *)
TaskTypes == {"TASK_TYPE_UNSPECIFIED", "RETRIEVAL_QUERY", "FACT_VERIFICATION",
              "RETRIEVAL_DOCUMENT", "SEMANTIC_SIMILARITY", "CLASSIFICATION",
              "CLUSTERING", "QUESTION_ANSWERING", "CODE_RETRIEVAL_QUERY"}
TaskTypeRoles ==
  [w \in {Bare(name) : name \in TaskTypes} |->
     CASE Base(w) = "TASK_TYPE_UNSPECIFIED" -> Wish(<<>>, "none")
       [] Base(w) \in {"RETRIEVAL_QUERY", "FACT_VERIFICATION"} ->
            Wish(<<"retrieval">>, "query")
       [] Base(w) = "RETRIEVAL_DOCUMENT"  -> Wish(<<"retrieval">>, "passage")
       [] Base(w) = "SEMANTIC_SIMILARITY" -> Wish(<<"text-matching">>, "none")
       [] Base(w) = "CLASSIFICATION" -> Wish(<<"classification">>, "none")
       [] Base(w) = "CLUSTERING" -> Wish(<<"clustering", "separation">>, "none")
       [] Base(w) = "QUESTION_ANSWERING" -> Wish(<<"qa", "retrieval">>, "query")
       [] Base(w) = "CODE_RETRIEVAL_QUERY" ->
            Wish(<<"nl2code", "code", "retrieval">>, "query")]

----------------------------------------------------------------------------
(* src/server/families: what the loaded model says of itself *)

Bases(names) == {Base(n) : n \in names}

KnownTasks(m) ==
  CASE m.runtime = "embeddings_v3" -> Bases(m.enum)
    [] m.runtime \in {"embeddings_v5_text", "embeddings_v5_omni"} ->
         Bases(V5Tasks)
    [] OTHER -> m.configTasks
                \cup (Bases(m.prompts) \ {"query", "passage", "document"})

(* The adapter the model runs and the prompt put before each text.          *)
ResolveTask(m, asked) ==
  LET task == IF asked = None THEN DefaultTask(m) ELSE asked
      how  == CASE m.runtime = "embeddings_v4" -> Bare(Base(task))
                [] m.runtime \in {"embeddings_v5_text", "embeddings_v5_omni"} ->
                     V5Task(task)
                [] OTHER -> task
  IN  IF m.runtime = "embeddings_v3" /\ asked = None
      THEN [adapter |-> None, prompt |-> None]
      ELSE [adapter |-> how, prompt |-> MapPromptName(task, m.prompts)]

(* What encode is really called with: a model whose encode declares no task *)
(* never sees one, and the omni models read theirs off a module attribute.  *)
Adapter(m, resolved) ==
  IF m.takesTask \/ m.runtime = "embeddings_v5_omni" THEN resolved ELSE None

----------------------------------------------------------------------------
(* src/server/engine.py: other vendors' words *)

CheckTask(m, task) == task = None \/ m.enum = {} \/ task \in m.enum

FitWithoutEnum(m, wish) ==
  LET base == FirstIn(wish.families, KnownTasks(m), "none")
  IN  IF base # "none" THEN <<base, wish.role>>
      ELSE IF wish.role # "none" /\ wish.families # <<>>
           THEN <<Base(DefaultTask(m)), wish.role>>
           ELSE None

FitTask(m, wish) ==
  LET served   == {f \in ToSet(wish.families) :
                     {<<f, wish.role>>, Bare(f)} \cap m.enum # {}}
      family   == FirstIn(wish.families, served, "none")
      fallback == <<Base(DefaultTask(m)), wish.role>>
  IN  IF m.verb # "embed" THEN Refusal
      ELSE IF m.enum = {} THEN FitWithoutEnum(m, wish)
      ELSE IF family # "none"
           THEN IF <<family, wish.role>> \in m.enum THEN <<family, wish.role>>
                                                  ELSE Bare(family)
      ELSE IF \/ ToSet(wish.families) \cap Bases(m.enum) # {}
              \/ wish.families = <<>>
           THEN None
      ELSE IF wish.role # "none" /\ fallback \in m.enum THEN fallback
      ELSE Refusal

NamedTask(m, name) ==
  IF m.verb = "embed" /\ (m.enum = {} \/ name \in m.enum)
  THEN name ELSE Refusal

InputTypeTask(m, word) ==
  IF word = None THEN None
  ELSE IF word \in DOMAIN InputTypeRoles
       THEN FitTask(m, InputTypeRoles[word])
       ELSE NamedTask(m, word)

(* Gemini's taskType; an unknown word must be one of the model's own tasks. *)
TaskTypeTask(m, word) ==
  IF word = None THEN None
  ELSE IF word \in DOMAIN TaskTypeRoles
       THEN FitTask(m, TaskTypeRoles[word])
       ELSE NamedTask(m, word)

(* The native field: input_type first, then task, which may hold one of     *)
(* Gemini's words.  Anything else is left to CheckTask.                     *)
NativeTask(m, inputType, word) ==
  IF inputType # None THEN InputTypeTask(m, inputType)
  ELSE IF word \in DOMAIN TaskTypeRoles
       THEN FitTask(m, TaskTypeRoles[word])
       ELSE word
=============================================================================
