---------------------------- MODULE MCEvaluation ----------------------------
(***************************************************************************)
(* A knowledge base of five documents over six characters, questions that   *)
(* hit titles, bodies, evidence, synonyms, stop words and policy rules, and  *)
(* six cases evaluated in one to three versions.                            *)
(***************************************************************************)
EXTENDS Evaluation

Doc(id, important, body, chunks, tags, date, parsed, current) ==
    [id |-> id, important |-> important, body |-> body, chunks |-> chunks, tags |-> tags,
     date |-> date, parsed |-> parsed, current |-> current]

MCDocuments == <<
    Doc("d1", <<"a", "b", "c">>, <<"d", "e">>,
        << <<"a", "b", ".", "e", "f">>, <<"c", "d", "e", "f">> >>,
        {<<"category", "c1">>, <<"year", "y1">>}, 2, TRUE, TRUE),
    Doc("d2", <<"a", "b", ".", "e", "f">>, <<"c", "d">>, <<>>,
        {<<"level", "l1">>}, 1, FALSE, TRUE),
    Doc("d3", <<"d", "a">>, <<"b", "c", "d">>, << <<"a", "c">> >>,
        {<<"year", "y1">>, <<"college", "k1">>}, 1, TRUE, FALSE),
    Doc("d4", <<"e", "f">>, <<"f", "a">>, << <<"b", "a", "b", "c">> >>,
        {<<"category", "c1">>}, 3, TRUE, TRUE),
    Doc("d5", <<"f", "f">>, <<"e">>, << <<"f", "c">>, <<"d", "d", "c", "b">> >>,
        {}, 3, TRUE, FALSE) >>

\* 1000 * ln(6 / (count + 1))
MCLogRatio == [c \in 0 .. 5 |-> <<1792, 1099, 693, 405, 182, 0>>[c + 1]]

MCStopWords == {<<"q", "r">>, <<"c", "d">>}

MCIntentPhrases == << <<"q", "r">>, <<"q">> >>

MCSynonyms == [s \in {<<"f", "f">>} |-> {<<"e", "f">>, <<"b", "c">>}]

MCRules == << [phrases |-> {<<"x", "x">>, <<"x", "y">>}, code |-> "UNSAFE_REQUEST"],
              [phrases |-> {<<"o", "o">>}, code |-> "OUT_OF_SCOPE"] >>

MCQuestions == {
    <<"a", "b">>, <<"a", "b", "c">>, <<"a", "b", "c", "d", "e">>, <<"c", "d">>, <<"e", "f">>,
    <<"a", "b", ".", "c", "d">>, <<"q", "r">>, <<"a", "b", "q", "r", "c", "d">>,
    <<"f", "c">>, <<"c", "b">>, <<"f", "f">>, <<"z", "z">>, <<"d", "c">>, <<"z", "z", "b", "c">>,
    <<"x", "x", "a", "b">>, <<"o", "o", ".", "a", "b">>, <<"b", "c", "z", "a", "b">>, <<"f", "q">>}

MCContexts == {{}, {<<"category", "c1">>}, {<<"year", "y1">>, <<"college", "k1">>}}

Number == [a |-> 1, b |-> 2, c |-> 3, d |-> 4, e |-> 5, f |-> 6, o |-> 3, q |-> 2, r |-> 1, x |-> 5, z |-> 4]

\* From -0.36 to 0.99, with neighbours that the fourth decimal of the blend does not
\* tell apart and some that the rounded similarity lifts to the threshold of 0.72.
MCSimilarity ==
    [question \in MCQuestions |-> [id \in {"d1", "d2", "d3", "d4", "d5", "gone"} |->
        LET n == [d1 |-> 0, d2 |-> 1, d3 |-> 2, d4 |-> 3, d5 |-> 4, gone |-> 5][id]
        IN 27000 * ((Number[question[1]] + Number[question[2]] * n + Len(question)) % 6)
               - 36003 + 4 * n]]

MCFound == Searches

MCInitialIndexes == {NoIndex, Torn, {"d1", "d4", "gone"}}

Case(question, expected, keywords, refuse) ==
    [question |-> question, expected |-> expected, keywords |-> keywords,
     shouldRefuse |-> refuse, tool |-> "search_documents"]

MCCases == <<
    Case(<<"a", "b", "c">>, {"d1"}, {<<"b", "c">>}, FALSE),
    Case(<<"f", "c">>, {"d5", "d4"}, {<<"f", "c">>}, FALSE),
    Case(<<"b", "c", "z", "a", "b">>, {"d3", "d2"}, {}, FALSE),
    Case(<<"x", "x", "a", "b">>, {}, {}, TRUE),
    Case(<<"z", "z", "b", "c">>, {}, {}, TRUE),
    Case(<<"a", "b", "q", "r", "c", "d">>, {"d2"}, {<<"c", "d">>}, FALSE) >>

Lexical(version) == [version |-> version, semantic |-> FALSE]

Hybrid == [version |-> "v4", semantic |-> TRUE]

MCPlans == { <<Lexical("v4"), Lexical("v1"), Lexical("v3")>>, <<Lexical("v4"), Hybrid>>,
             <<Lexical("v2"), Lexical("v4"), Hybrid>> }
=============================================================================
