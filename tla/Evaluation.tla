----------------------------- MODULE Evaluation -----------------------------
(***************************************************************************)
(* The offline evaluation (app/evaluate.py): for each version it puts every *)
(* case through the hybrid search, judges the results as the deterministic  *)
(* model would, and tallies what it finds.  It is a process of its own, which*)
(* shares only the vector index with the script that builds it: a behaviour *)
(* is one of the server or one of the evaluation, and the script may run in *)
(* either.  Latencies and topics are left out.                              *)
(***************************************************************************)
EXTENDS ChatWorkflow

CONSTANTS
    Cases,      \* evaluation_cases.json: a sequence of cases
    Plans       \* what may be asked for: sequences of [version, semantic]

\* The reciprocal rank of a report is a mean over its answerable cases.
ASSUME CasesAssumption ==
    /\ Cases \in Seq(ToSet(Cases))
    /\ \E n \in DOMAIN Cases : Cases[n].expected # {}
    /\ \A n \in DOMAIN Cases : Cases[n].question \in Questions

\* The versions asked for, then perhaps the hybrid one (main).
ASSUME PlansAssumption ==
    \A plan \in Plans :
        /\ plan \in Seq([version : DOMAIN Presets, semantic : BOOLEAN]) \ {<<>>}
        /\ \A i \in DOMAIN plan : plan[i].semantic => plan[i].version = "v4"

VARIABLES
    evaluation, \* the state of evaluate.main
    detail      \* the case it has judged last

allVars == <<vars, evaluation, detail>>

NoDetail == [question |-> NoRequest]

NoTally == [answerable |-> 0, hit1 |-> 0, hit5 |-> 0, ranks |-> <<>>,
            refusals |-> 0, refusalOk |-> 0, passed |-> {}, modes |-> <<>>]

EvalInit ==
    /\ Init
    /\ detail = NoDetail
    /\ \/ evaluation = [phase |-> "off"]
       \/ /\ settings = [version |-> "v4", semantic |-> FALSE]
          /\ \E plan \in Plans :
                evaluation = [phase |-> "running", plan |-> plan, case |-> 1,
                              tally |-> NoTally, reports |-> <<>>]

----------------------------------------------------------------------------
(* One case.                                                                *)

\* Mutant: without an embedding nothing is found.
OutcomesWithoutFallback(question, semantic, lexical) ==
    {[mode |-> IF semantic THEN "embedding_unavailable" ELSE "lexical",
      results |-> IF semantic THEN <<>> ELSE FirstOf(lexical, ToolLimit)]}

\* hybrid_search_documents: the ways in which it may come out, given the index.
Outcomes(question, semantic, lexical) ==
    LET plain(mode) == [mode |-> mode, results |-> FirstOf(lexical, ToolLimit)]
    IN IF ~semantic THEN {plain("lexical")}
       ELSE IF index = NoIndex THEN {plain("index_missing")}
       ELSE {plain("embedding_unavailable"),
             [mode |-> "hybrid",
              results |-> MergeSemanticResults(lexical, SimilarityIn(index, question),
                                               ToolLimit)]}

\* The position of the first expected document, 0 if none is found.
RankOf(case, results) ==
    SelectInSeq(results, LAMBDA r : r.id \in case.expected)

\* What the results quote of their documents, and the terms they matched.
Quotes(item, word) ==
    LET doc == DocumentOf(item.id)
    IN \/ Occurs(word, doc.important) \/ Occurs(word, doc.body)
       \/ item.preview # 0 /\ Occurs(word, doc.chunks[item.preview])
       \/ word \in item.matched

\* Mutant: the policy has no say.
RefusedForEvidence(question, results) ==
    \A n \in DOMAIN results : ~HasStrongEvidence(results[n])

Refused(question, results) ==
    \/ AssessQuestion(question) # "ALLOWED"
    \/ \A n \in DOMAIN results : ~HasStrongEvidence(results[n])

Passed(case, results) ==
    /\ IF case.expected # {} THEN RankOf(case, results) # 0
       ELSE Refused(case.question, results)
    /\ Refused(case.question, results) = case.shouldRefuse
    /\ \A w \in case.keywords : \E n \in DOMAIN results : Quotes(results[n], w)
    /\ case.tool = "search_documents"

\* Reciprocal ranks are in units of 1 / 60.
Reciprocal(rank) == IF rank = 0 THEN 0 ELSE 60 \div rank

Count(condition) == IF condition THEN 1 ELSE 0

Tallied(tally, case, outcome) ==
    LET rank == RankOf(case, outcome.results)
        refused == Refused(case.question, outcome.results)
    IN [tally EXCEPT
           !.answerable = @ + Count(case.expected # {}),
           !.hit1 = @ + Count(rank = 1),
           !.hit5 = @ + Count(rank # 0),
           !.ranks = IF case.expected = {} THEN @ ELSE Append(@, Reciprocal(rank)),
           !.refusals = @ + Count(case.shouldRefuse),
           !.refusalOk = @ + Count(refused = case.shouldRefuse),
           !.passed = IF Passed(case, outcome.results) THEN @ \cup {case.question} ELSE @,
           !.modes = Append(@, outcome.mode)]

JudgeCase ==
    /\ evaluation.phase = "running"
    /\ evaluation.case <= Len(Cases)
    /\ ~(Head(evaluation.plan).semantic /\ index = Torn)
    /\ LET case == Cases[evaluation.case]
           setting == Head(evaluation.plan)
       IN \E lexical \in {LexicalCandidates(case.question, setting.version)} :
          \E outcome \in Outcomes(case.question, setting.semantic, lexical) :
             /\ evaluation' = [evaluation EXCEPT
                                   !.case = @ + 1,
                                   !.tally = Tallied(@, case, outcome)]
             /\ detail' = [question |-> case.question, results |-> outcome.results,
                           refused |-> Refused(case.question, outcome.results)]

\* load_vector_index raises, or an answer of the embedding service that is not as
\* expected: the script ends without a report.  Nothing limits the time of its calls
\* but the client, whose timeout is a fallback.
EvaluationRaises ==
    /\ evaluation.phase = "running"
    /\ evaluation.case <= Len(Cases)
    /\ Head(evaluation.plan).semantic
    /\ index # NoIndex
    /\ evaluation' = [phase |-> "raised"]
    /\ detail' = NoDetail

Report(version, tally) ==
    [version |-> version, mode |-> Head(tally.modes), modes |-> ToSet(tally.modes),
     hit1 |-> tally.hit1, hit5 |-> tally.hit5, answerable |-> tally.answerable,
     ranks |-> tally.ranks, refusalOk |-> tally.refusalOk, passed |-> tally.passed]

FinishVersion ==
    /\ evaluation.phase = "running"
    /\ evaluation.case > Len(Cases)
    /\ LET setting == Head(evaluation.plan)
           name == IF setting.semantic THEN "v5-hybrid" ELSE setting.version
           left == Tail(evaluation.plan)
           reports == Append(evaluation.reports, Report(name, evaluation.tally))
       IN evaluation' = IF left = <<>> THEN [phase |-> "done", reports |-> reports]
                        ELSE [phase |-> "running", plan |-> left, case |-> 1,
                              tally |-> NoTally, reports |-> reports]
    /\ UNCHANGED detail

\* comparison_summary
Comparison(reports) ==
    [n \in DOMAIN reports |->
        [improved |-> IF n = 1 THEN {} ELSE reports[n].passed \ reports[n - 1].passed,
         regressed |-> IF n = 1 THEN {} ELSE reports[n - 1].passed \ reports[n].passed]]

EvaluationStep == (JudgeCase \/ EvaluationRaises \/ FinishVersion) /\ UNCHANGED vars

EvalNext ==
    \/ evaluation.phase = "off" /\ ServerStep /\ UNCHANGED <<evaluation, detail>>
    \/ BuilderStep /\ UNCHANGED <<evaluation, detail>>
    \/ EvaluationStep

EvalSpec == EvalInit /\ [][EvalNext]_allVars

----------------------------------------------------------------------------
(* What must hold.                                                          *)

\* The refusals the evaluation counts are those of the agent it stands for: it
\* judges the same results by the same policy and thresholds, without running the
\* agent (evaluate.py against model_provider.py).  On the same results, only their
\* being too long for the model's context makes the agent refuse where the evaluation
\* does not; a tool call that gives the agent no results is not compared.
EvaluationRefusesAsAgent ==
    detail # NoDetail =>
        LET agent(results) == Decide(detail.question, results).status # "grounded"
        IN /\ detail.refused = agent(detail.results)
           /\ agent(BoundToolResult(detail.results)) # detail.refused =>
                  ~FitsContext(detail.results)

\* Measured without its index or its embedding service, the hybrid version neither
\* improves nor regresses against the version it falls back to.
UnavailableHybridChangesNothing ==
    evaluation.phase = "done" =>
        \A n \in DOMAIN evaluation.reports \ {1} :
            (/\ evaluation.reports[n].version = "v5-hybrid"
             /\ "hybrid" \notin evaluation.reports[n].modes
             /\ evaluation.reports[n - 1].version = "v4")
                => /\ Comparison(evaluation.reports)[n] = [improved |-> {}, regressed |-> {}]
                   /\ evaluation.reports[n].ranks = evaluation.reports[n - 1].ranks

(***************************************************************************)
(* Why these hold: the parts of the invariant of the proofs.                *)
(***************************************************************************)

\* What a report is compared by, collected from the plain search alone: the n-th
\* entry is what the first n cases add up to.
PlainCourse(version) ==
    LET course[n \in 0 .. Len(Cases)] ==
            IF n = 0 THEN [ranks |-> <<>>, passed |-> {}]
            ELSE LET case == Cases[n]
                     results == FirstOf(LexicalCandidates(case.question, version), ToolLimit)
                 IN [ranks |-> IF case.expected = {} THEN course[n - 1].ranks
                               ELSE Append(course[n - 1].ranks,
                                           Reciprocal(RankOf(case, results))),
                     passed |-> IF Passed(case, results)
                                THEN course[n - 1].passed \cup {case.question}
                                ELSE course[n - 1].passed]
    IN course

\* Nothing but hybrid results tells a measurement from that of the plain search.
MeasuredLike(measured, modes, version, cases) ==
    "hybrid" \notin modes =>
        /\ measured.ranks = PlainCourse(version)[cases].ranks
        /\ measured.passed = PlainCourse(version)[cases].passed

ReportsConsistent(reports) ==
    /\ reports \in Seq(ToSet(reports))
    /\ \A n \in DOMAIN reports :
          /\ reports[n].version # "v5-hybrid" => "hybrid" \notin reports[n].modes
          /\ MeasuredLike(reports[n], reports[n].modes,
                          IF reports[n].version = "v5-hybrid" THEN "v4" ELSE reports[n].version,
                          Len(Cases))

Modes == {"lexical", "index_missing", "embedding_unavailable", "hybrid"}

EvaluationConsistent ==
    /\ evaluation.phase \in {"off", "running", "raised", "done"}
    /\ evaluation.phase = "running" =>
          /\ DOMAIN evaluation = {"phase", "plan", "case", "tally", "reports"}
          /\ evaluation.plan \in Seq([version : DOMAIN Presets, semantic : BOOLEAN]) \ {<<>>}
          /\ \A i \in DOMAIN evaluation.plan :
                evaluation.plan[i].semantic => evaluation.plan[i].version = "v4"
          /\ evaluation.case \in 1 .. Len(Cases) + 1
          /\ DOMAIN evaluation.tally = DOMAIN NoTally
          /\ evaluation.tally.modes \in Seq(Modes)
          /\ ~Head(evaluation.plan).semantic => "hybrid" \notin ToSet(evaluation.tally.modes)
          /\ MeasuredLike(evaluation.tally, ToSet(evaluation.tally.modes),
                          Head(evaluation.plan).version, evaluation.case - 1)
    /\ evaluation.phase \in {"running", "done"} => ReportsConsistent(evaluation.reports)

\* What is judged is judged by the results it was given.
DetailConsistent ==
    detail # NoDetail => detail.refused = Refused(detail.question, detail.results)

EvalIInv ==
    /\ SettingsTypeOK
    /\ BuilderConsistent
    /\ RequestConsistent
    /\ ReplyConsistent
    /\ EvaluationConsistent
    /\ DetailConsistent
=============================================================================
