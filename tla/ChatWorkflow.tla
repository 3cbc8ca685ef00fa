---------------------------- MODULE ChatWorkflow ----------------------------
(***************************************************************************)
(* How questions are answered from the knowledge base.  The server answers  *)
(*   /api/search   by lexical search          (app/routes.py),              *)
(*   /api/chat     by policy, search, threshold and citations (app/agent.py),*)
(*   the agent     by the deterministic model, whose tool searches hybridly  *)
(*                 (app/model_provider.py, app/tools.py, app/retrieval.py),  *)
(* while the script app/build_vector_index.py may replace the vector index   *)
(* at any time.  A search that wants the embedding of its question waits for *)
(* a service that may not answer in the time the agent gives its tools; the  *)
(* index it uses is the one it loaded.                                       *)
(***************************************************************************)
EXTENDS Retrieval

CONSTANTS
    Questions,      \* the texts that are asked
    Contexts,       \* the contexts that come with them
    Rules,          \* RULES of the question policy: a sequence
    Similarity,     \* from a question to the cosines of the documents, in 1 / 100000
    InitialIndexes, \* what earlier builds may have left
    NoIndex, Torn,  \* no file; a file that is not whole
    NoRequest, NoReply,
    BatchSize,      \* the 20 documents of one embedding call
    ChatLimit,      \* the 8 results run_agent asks for
    CitationLimit,  \* the 4 results an answer shows
    ToolLimit,      \* the 5 results the model's tool asks for
    ToolResultMaxChars,
    Found           \* what each search finds, as a table

Larger(a, b) == IF a >= b THEN a ELSE b

Limits == {ToolLimit, ChatLimit, Larger(ToolLimit, FetchLimit), Len(Documents)}

Searches ==
    [q \in Questions |-> [c \in Contexts |->
        [n \in Limits |-> [v \in DOMAIN Presets |-> SearchDocuments(q, c, n, v)]]]]

\* Searches do not change the knowledge base: a model evaluates each once.
ASSUME FoundAssumption == Found = Searches

ASSUME BatchSizeAssumption == BatchSize \in Nat \ {0}

ASSUME LimitsAssumption ==
    /\ ToolLimit \in Nat /\ ChatLimit \in Nat /\ CitationLimit \in Nat \ {0}
    /\ ToolLimit <= ChatLimit

ASSUME QuestionsAssumption ==
    \A q \in Questions :
        /\ q \in Seq(ToSet(q))
        /\ \A id \in DocumentIds : Similarity[q][id] \in Int

\* A context has some of the fields that are compared; the agent searches without one.
ASSUME ContextsAssumption ==
    /\ {} \in Contexts
    /\ \A c \in Contexts : IsFiniteSet(c) /\ \A t \in c : t[1] \in DOMAIN ContextWeight

VARIABLES
    settings,   \* rag_retrieval_version and rag_enable_semantic_search
    index,      \* the file embedding_index_path: the documents it has rows for
    draft,      \* the temporary file next to it
    builder,    \* the script that builds an index
    request,    \* the agent's question: embedded or searched for
    reply       \* the reply that is on its way

vars == <<settings, index, draft, builder, request, reply>>

Idle == [phase |-> "idle", rows |-> 0]

Init ==
    /\ settings \in [version : DOMAIN Presets, semantic : BOOLEAN]
    /\ index \in InitialIndexes
    /\ draft = NoIndex
    /\ builder = Idle
    /\ request = NoRequest
    /\ reply = NoReply

----------------------------------------------------------------------------
(* Policy, model and answer.                                                *)

\* The code of the first rule the question falls under.
AssessQuestion(question) ==
    LET applies(rule) == \E p \in rule.phrases : Occurs(p, question)
        first == SelectInSeq(Rules, applies)
    IN IF first = 0 THEN "ALLOWED" ELSE Rules[first].code

MinSupportedScore == 16000  \* 4.0

Ids(items) == [i \in DOMAIN items |-> items[i].id]

Supported(results) == SelectSeq(results, LAMBDA r : r.score >= MinSupportedScore)

\* run_agent
ChatAnswer(question, results) ==
    LET policy == AssessQuestion(question)
        blocked == policy \notin {"ALLOWED", "OUT_OF_SCOPE"}
        chosen == FirstOf(Supported(results), CitationLimit)
        current == {i \in DOMAIN chosen : DocumentOf(chosen[i].id).current}
    IN IF blocked THEN [status |-> "policy_blocked", sources |-> <<>>, confident |-> FALSE]
       ELSE IF \A i \in DOMAIN results : results[i].score < MinSupportedScore
            THEN [status |-> "insufficient_evidence", sources |-> <<>>, confident |-> FALSE]
            ELSE [status |-> "grounded", sources |-> Ids(chosen),
                  confident |-> Cardinality(current) >= 2]

\* Mutant: covering the question is evidence enough.
HasCoveringEvidence(item) == item.coverage >= 3000 \/ item.semantic >= 7200

\* _has_strong_evidence
HasStrongEvidence(item) ==
    \/ item.lexical >= 16000 /\ item.coverage >= 3000
    \/ item.semantic >= 7200

\* The length of a tool result as JSON, which grows with all it quotes.
ResultChars(results) ==
    MapThenSumSet(LAMBDA i : 1 + Cardinality(results[i].matched)
                               + (IF results[i].preview = 0 THEN 0 ELSE 4),
                  DOMAIN results)

\* _bound_tool_result: a result that is too long reaches the model as a text
\* in which it finds no results.
FitsContext(results) == ResultChars(results) <= ToolResultMaxChars

BoundToolResult(results) == IF FitsContext(results) THEN results ELSE <<>>

\* DeterministicModel.decide on the result of its search.
Decide(question, results) ==
    LET strong == SelectSeq(results, HasStrongEvidence)
    IN IF AssessQuestion(question) # "ALLOWED"
       THEN [status |-> "policy_blocked", sources |-> <<>>]
       ELSE IF \A i \in DOMAIN results : ~HasStrongEvidence(results[i])
            THEN [status |-> "insufficient_evidence", sources |-> <<>>]
            ELSE [status |-> "grounded", sources |-> Ids(FirstOf(strong, CitationLimit))]

----------------------------------------------------------------------------
(* The server.                                                              *)

LexicalCandidates(question, version) ==
    Found[question][{}][Larger(ToolLimit, FetchLimit)][version]

Free == request = NoRequest /\ reply = NoReply

Chat(question, context) ==
    /\ Free
    /\ \E results \in {Found[question][context][ChatLimit]["v4"]} :
          reply' = [route |-> "chat", question |-> question, context |-> context,
                    results |-> results, answer |-> ChatAnswer(question, results)]
    /\ UNCHANGED <<settings, index, draft, builder, request>>

Search(question, context) ==
    /\ Free
    /\ reply' = [route |-> "search", question |-> question, context |-> context,
                 results |-> Found[question][context][ToolLimit]["v4"]]
    /\ UNCHANGED <<settings, index, draft, builder, request>>

\* The agent's tool: hybrid_search_documents up to the call of the embedding
\* service.  A file that is not whole raises.
Ask(question) ==
    /\ Free
    /\ request' = [question |-> question, results |-> NoReply,
                   lexical |-> LexicalCandidates(question, settings.version),
                   mode |-> IF ~settings.semantic THEN "lexical"
                            ELSE IF index = NoIndex THEN "index_missing"
                            ELSE IF index = Torn THEN "raised" ELSE "embedding",
                   rows |-> IF settings.semantic /\ index \notin {NoIndex, Torn}
                            THEN index ELSE {}]
    /\ UNCHANGED <<settings, index, draft, builder, reply>>

Searching(modes) ==
    /\ request # NoRequest
    /\ request.mode \in modes
    /\ request.results = NoReply

SimilarityIn(rows, question) == [id \in rows |-> Similarity[question][id]]

EmbeddingArrives ==
    /\ Searching({"embedding"})
    /\ request' = [request EXCEPT
                      !.mode = "hybrid",
                      !.results = MergeSemanticResults(request.lexical,
                                     SimilarityIn(request.rows, request.question), ToolLimit)]
    /\ UNCHANGED <<settings, index, draft, builder, reply>>

\* Mutant: a fallback returns all it fetched.
FallBackUncut ==
    /\ Searching({"lexical", "index_missing", "embedding"})
    /\ request' = [request EXCEPT
                      !.mode = IF @ = "embedding" THEN "embedding_unavailable" ELSE @,
                      !.results = request.lexical]
    /\ UNCHANGED <<settings, index, draft, builder, reply>>

\* No index, or the embedding service answers with an error within the tool's time.
FallBack ==
    /\ Searching({"lexical", "index_missing", "embedding"})
    /\ request' = [request EXCEPT
                      !.mode = IF @ = "embedding" THEN "embedding_unavailable" ELSE @,
                      !.results = FirstOf(request.lexical, ToolLimit)]
    /\ UNCHANGED <<settings, index, draft, builder, reply>>

\* The index is not whole, or the rows of the service's answer lack a field, which is
\* neither an HTTPError nor a ValueError: the runtime records a failed call, in which
\* the model finds no results.
SearchRaises ==
    /\ Searching({"raised", "embedding"})
    /\ request' = [request EXCEPT !.mode = "raised", !.results = <<>>]
    /\ UNCHANGED <<settings, index, draft, builder, reply>>

\* The service hangs: the agent gives a tool less time than the client gives the
\* service, and the call is cancelled before it can fall back.
ToolTimesOut ==
    /\ Searching({"embedding"})
    /\ request' = [request EXCEPT !.mode = "timed_out", !.results = <<>>]
    /\ UNCHANGED <<settings, index, draft, builder, reply>>

AgentAnswers ==
    /\ request # NoRequest
    /\ request.results # NoReply
    /\ reply' = [route |-> "agent", question |-> request.question, mode |-> request.mode,
                 answer |-> Decide(request.question, BoundToolResult(request.results))]
    /\ request' = NoRequest
    /\ UNCHANGED <<settings, index, draft, builder>>

ReplyTaken ==
    /\ reply # NoReply
    /\ reply' = NoReply
    /\ UNCHANGED <<settings, index, draft, builder, request>>

----------------------------------------------------------------------------
(* The script that builds the index.                                        *)

Rows(n) == {Documents[i].id : i \in 1 .. n}

EmbedBatch ==
    /\ builder.phase \in {"idle", "embedding"}
    /\ builder.rows < Len(Documents)
    /\ builder' = [phase |-> "embedding",
                   rows |-> Smaller(builder.rows + BatchSize, Len(Documents))]
    /\ UNCHANGED <<settings, index, draft, request, reply>>

\* Mutant: the index is written where it is read.
OpenInPlace ==
    /\ builder.phase = "embedding"
    /\ builder.rows = Len(Documents)
    /\ index' = Torn
    /\ builder' = [builder EXCEPT !.phase = "writing"]
    /\ UNCHANGED <<settings, draft, request, reply>>

OpenDraft ==
    /\ builder.phase = "embedding"
    /\ builder.rows = Len(Documents)
    /\ draft' = Torn
    /\ builder' = [builder EXCEPT !.phase = "writing"]
    /\ UNCHANGED <<settings, index, request, reply>>

WriteDraft ==
    /\ builder.phase = "writing"
    /\ draft' = Rows(builder.rows)
    /\ builder' = [builder EXCEPT !.phase = "replacing"]
    /\ UNCHANGED <<settings, index, request, reply>>

ReplaceIndex ==
    /\ builder.phase = "replacing"
    /\ index' = draft
    /\ draft' = NoIndex
    /\ builder' = Idle
    /\ UNCHANGED <<settings, request, reply>>

\* An embedding call raises, or the script is stopped, wherever it is.
BuildEnds ==
    /\ builder.phase # "idle"
    /\ builder' = Idle
    /\ UNCHANGED <<settings, index, draft, request, reply>>

ServerStep ==
    \/ \E q \in Questions, c \in Contexts : Chat(q, c) \/ Search(q, c)
    \/ \E q \in Questions : Ask(q)
    \/ EmbeddingArrives \/ FallBack \/ SearchRaises \/ ToolTimesOut \/ AgentAnswers \/ ReplyTaken

BuilderStep == EmbedBatch \/ OpenDraft \/ WriteDraft \/ ReplaceIndex \/ BuildEnds

Next == ServerStep \/ BuilderStep

Spec == Init /\ [][Next]_vars

----------------------------------------------------------------------------
(* What must hold.                                                          *)

Answered(routes) == reply # NoReply /\ reply.route \in routes

SearchEnded(modes) ==
    request # NoRequest /\ request.results # NoReply /\ request.mode \in modes

\* The coverage reported with a result counts exactly the characters of the
\* focused question that lie in a pair of neighbours the document contains: the
\* order of the window sizes and the skipped windows of _query_coverage lose
\* nothing, and no pair is found across the joint of two fields.
CoverageIsExact ==
    Answered({"search"}) =>
        LET focus == Focus(reply.question)
            pairs(doc) == {i \in 1 .. Len(focus) - 1 :
                              \E text \in {doc.important, doc.body} \cup ToSet(doc.chunks) :
                                  Occurs(Window(focus, i, 2), text)}
            marked(doc) == pairs(doc) \cup {i + 1 : i \in pairs(doc)}
        IN \A n \in DOMAIN reply.results :
               LET item == reply.results[n]
               IN item.coverage =
                      IF focus = <<>> THEN 0
                      ELSE (10000 * Cardinality(marked(DocumentOf(item.id)))) \div Len(focus)

\* The two answering paths share a knowledge base but not a rule: what the
\* lexical agent answers from evidence, /api/chat never refuses.
AgentNeverBolderThanChat ==
    (/\ Answered({"agent"})
     /\ settings.version = "v4"
     /\ reply.mode # "hybrid"
     /\ reply.answer.status = "grounded")
        => \A results \in {Found[reply.question][{}][ChatLimit]["v4"]} :
               ChatAnswer(reply.question, results).status = "grounded"

\* A search that falls back returns what a lexical search for as many documents
\* returns, though it fetched more ("safely fall back to lexical search",
\* app/retrieval.py).  The agent of a server whose search fell back answers as without
\* semantic search; where the call failed or ran out of time instead, it has nothing to
\* cite, whatever the plain search would have found.
FallbackLosesNothing ==
    LET plain(question) == Found[question][{}][ToolLimit][settings.version]
        fellBack == {"lexical", "index_missing", "embedding_unavailable"}
    IN /\ SearchEnded(fellBack) => request.results = plain(request.question)
       /\ (Answered({"agent"}) /\ reply.mode \in fellBack) =>
              reply.answer = Decide(reply.question, BoundToolResult(plain(reply.question)))
       /\ (Answered({"agent"}) /\ reply.mode \in {"raised", "timed_out"}) =>
              reply.answer.sources = <<>>

\* How alike a question and a document are by the rows of an index, 0 if it has no row.
Vector(q, rows, id) == IF id \in rows THEN Larger(0, Similarity[q][id]) ELSE 0

\* What a document has matched in words, 0 if the lexical search did not return it.
Words(lexical, id) ==
    LET i == SelectInSeq(lexical, LAMBDA r : r.id = id)
    IN IF i = 0 THEN 0 ELSE Smaller(80000, lexical[i].lexical)

Candidates(q, rows, lexical) ==
    ToSet(Ids(lexical)) \cup {id \in DocumentIds : Vector(q, rows, id) > 0}

\* A difference that the fourth decimal of the blend shows, in words and in vectors:
\* less of it may be lost when the blend is rounded.
Discernible == [words |-> 15, vector |-> 29]

Better(q, rows, lexical, a, b) ==
    /\ Words(lexical, a) >= Words(lexical, b) /\ Vector(q, rows, a) >= Vector(q, rows, b)
    /\ \/ Words(lexical, a) >= Words(lexical, b) + Discernible.words
       \/ Vector(q, rows, a) >= Vector(q, rows, b) + Discernible.vector

\* A hybrid result list names documents of the knowledge base, each once, and no
\* candidate that is better in words and vector stands behind another or is cut
\* off, unless the fourth decimal of their blends does not tell them apart; the
\* similarities are those of the index that was loaded before the wait,
\* also when the script has replaced it meanwhile.
HybridKeepsTheBest ==
    SearchEnded({"hybrid"}) =>
        LET ids == Ids(request.results)
            candidates == Candidates(request.question, request.rows, request.lexical)
        IN /\ IsInjective(ids)
           /\ ToSet(ids) \subseteq candidates
           /\ Len(ids) = Smaller(ToolLimit, Cardinality(candidates))
           /\ \A n \in DOMAIN ids, a \in candidates :
                  Better(request.question, request.rows, request.lexical, a, ids[n])
                      => \E k \in 1 .. n - 1 : ids[k] = a

\* The index changes only to a complete one, wherever the script that builds it
\* fails or is stopped, and whatever an earlier one left in the temporary file
\* ("atomically after a complete build", app/embeddings.py).
IndexChangesWhole == [][index' # index => index' = DocumentIds]_index

(***************************************************************************)
(* Why these hold: the parts of the invariant of the proofs.                *)
(***************************************************************************)
SettingsTypeOK == settings \in [version : DOMAIN Presets, semantic : BOOLEAN]

\* What the script is about to put in place is complete.
BuilderConsistent ==
    /\ builder \in [phase : {"idle", "embedding", "writing", "replacing"},
                    rows : 0 .. Len(Documents)]
    /\ builder.phase \in {"writing", "replacing"} => builder.rows = Len(Documents)
    /\ builder.phase = "replacing" => draft = DocumentIds

\* A question carries what the lexical search found for it; it falls back to that, or
\* merges it with what the rows it has loaded are like.
RequestConsistent ==
    request # NoRequest =>
        /\ DOMAIN request = {"question", "results", "lexical", "mode", "rows"}
        /\ request.question \in Questions
        /\ request.mode \in {"lexical", "index_missing", "embedding",
                             "embedding_unavailable", "hybrid", "raised", "timed_out"}
        /\ request.lexical = LexicalCandidates(request.question, settings.version)
        /\ SearchEnded({"lexical", "index_missing", "embedding_unavailable"}) =>
               request.results = FirstOf(request.lexical, ToolLimit)
        /\ SearchEnded({"hybrid"}) =>
               request.results = MergeSemanticResults(request.lexical,
                                     SimilarityIn(request.rows, request.question), ToolLimit)
        /\ SearchEnded({"raised", "timed_out"}) => request.results = <<>>
        /\ ~SearchEnded({"embedding"})

\* What the agent answers without vectors, it decides on the plain search or on nothing;
\* what a search answers, it has found.
ReplyConsistent ==
    /\ (Answered({"agent"}) /\ reply.mode # "hybrid") =>
          /\ reply.question \in Questions
          /\ reply.answer =
                 Decide(reply.question,
                        IF reply.mode \in {"raised", "timed_out"} THEN <<>>
                        ELSE BoundToolResult(
                                 Found[reply.question][{}][ToolLimit][settings.version]))
    /\ Answered({"search"}) =>
          /\ reply.question \in Questions
          /\ \E context \in Contexts :
                 reply.results = Found[reply.question][context][ToolLimit]["v4"]
=============================================================================
