------------------------------ MODULE Retrieval ------------------------------
(***************************************************************************)
(* Lexical and hybrid search over the knowledge base                        *)
(* (app/retrieval.py), as operators on texts.  A text is a sequence of      *)
(* Chinese characters and of Mark, which stands for everything the code     *)
(* treats as a gap between words: spaces, punctuation, the joints between   *)
(* the fields of a document.  Scores are natural numbers, in units of       *)
(* 1 / 4000, so that every weight of the code is exact.  Words of Latin     *)
(* letters or digits are left out.                                          *)
(***************************************************************************)
EXTENDS Integers, Sequences, FiniteSets, SequencesExt

CONSTANTS
    Mark,           \* a gap between words
    Documents,      \* the knowledge base: a sequence of documents
    StopWords,      \* STOP_WORDS
    IntentPhrases,  \* INTENT_PHRASES, a sequence
    Synonyms,       \* QUERY_SYNONYMS, from a phrase to a set of terms
    LogRatio,       \* from a count to 1000 * ln((documents + 1) / (count + 1))
    FetchLimit      \* the 20 documents a hybrid search takes from the lexical one

ASSUME DocumentsAssumption ==
    /\ Documents \in Seq(ToSet(Documents))
    /\ \A i, j \in DOMAIN Documents : Documents[i].id = Documents[j].id => i = j
    /\ \A i \in DOMAIN Documents :
          /\ Documents[i].date \in Int
          /\ Documents[i].important \in Seq(ToSet(Documents[i].important))
          /\ Documents[i].body \in Seq(ToSet(Documents[i].body))
          /\ Documents[i].chunks \in Seq(ToSet(Documents[i].chunks))
          /\ \A chunk \in ToSet(Documents[i].chunks) : chunk \in Seq(ToSet(chunk))
ASSUME IntentPhrasesAssumption ==
    /\ IntentPhrases \in Seq(ToSet(IntentPhrases))
    /\ \A phrase \in ToSet(IntentPhrases) : phrase \in Seq(ToSet(phrase))
ASSUME SynonymsAssumption ==
    IsFiniteSet(DOMAIN Synonyms) /\ \A s \in DOMAIN Synonyms : IsFiniteSet(Synonyms[s])
ASSUME LogRatioAssumption == LogRatio \in [0 .. Len(Documents) -> Nat]
ASSUME FetchLimitAssumption == FetchLimit \in Nat \ {0}

Smaller(a, b) == IF a <= b THEN a ELSE b

\* s[i:i + n], which ends with s.
Window(s, i, n) == SubSeq(s, i, Smaller(i + n - 1, Len(s)))

Occurs(term, text) ==
    \E i \in 1 .. Len(text) - Len(term) + 1 : Window(text, i, Len(term)) = term

Joined(texts) == FlattenSeq([i \in DOMAIN texts |-> <<Mark>> \o texts[i]])

DocumentIds == {Documents[i].id : i \in DOMAIN Documents}

DocumentOf(id) == CHOOSE d \in ToSet(Documents) : d.id = id

Evidence(doc) == Joined(doc.chunks)

Corpus(doc) == Joined(<<doc.important, doc.body, Evidence(doc)>>)

----------------------------------------------------------------------------
(* The question.                                                            *)

\* The longest stretches without a gap.
Runs(text) ==
    {r \in {SubSeq(text, i, j) : i, j \in DOMAIN text} :
        /\ Mark \notin ToSet(r)
        /\ Occurs(<<Mark>> \o r \o <<Mark>>, <<Mark>> \o text \o <<Mark>>)}

\* Whole runs of at least two characters, and their pieces of two to four.
Terms(query, removeIntent) ==
    LET pieces == {Window(query, i, n) : i \in DOMAIN query, n \in 2 .. 4}
        terms == {t \in pieces \cup Runs(query) : Len(t) > 1 /\ Mark \notin ToSet(t)}
        same == UNION {Synonyms[s] : s \in {s \in DOMAIN Synonyms : Occurs(s, query)}}
    IN {t \in terms \cup same : ~(removeIntent /\ t \in StopWords)}

\* str.replace(phrase, ""): from left to right, without overlaps.
Without(text, phrase) ==
    FoldLeft(LAMBDA acc, i :
                 IF i < acc.next THEN acc
                 ELSE IF Window(text, i, Len(phrase)) = phrase
                      THEN [acc EXCEPT !.next = i + Len(phrase)]
                      ELSE [acc EXCEPT !.kept = Append(@, text[i])],
             [kept |-> <<>>, next |-> 1],
             [i \in DOMAIN text |-> i]).kept

Focus(query) ==
    FoldLeft(LAMBDA kept, c : IF c = Mark THEN kept ELSE Append(kept, c), <<>>,
             FoldLeft(Without, query, IntentPhrases))

\* Mutant: a window is skipped as soon as it is covered in part.
CoverWindowSkippingOverlaps(covered, focus, text, start, size) ==
    LET window == start .. start + size - 1
    IN IF window \cap covered = {} /\ Occurs(Window(focus, start, size), text)
       THEN covered \cup window ELSE covered

CoverWindow(covered, focus, text, start, size) ==
    LET window == start .. start + size - 1
    IN IF ~(window \subseteq covered) /\ Occurs(Window(focus, start, size), text)
       THEN covered \cup window ELSE covered

\* The positions of the focus that _query_coverage marks, longest pieces first.
Covered(focus, text) ==
    LET sized(size, covered) ==
            FoldLeft(LAMBDA c, i : CoverWindow(c, focus, text, i, size),
                     covered, [i \in 1 .. Len(focus) - size + 1 |-> i])
    IN sized(2, sized(3, sized(4, {})))

\* In units of 1 / 10000.
QueryCoverage(query, text) ==
    LET focus == Focus(query)
    IN IF focus = <<>> THEN 0
       ELSE (10000 * Cardinality(Covered(focus, text))) \div Len(focus)

----------------------------------------------------------------------------
(* The score of a document.                                                 *)

\* RETRIEVAL_PRESETS; weights in quarters.
Presets ==
    [v1 |-> [intent |-> FALSE, important |-> 4,  body |-> 4, evidence |-> 0, quality |-> FALSE],
     v2 |-> [intent |-> TRUE,  important |-> 4,  body |-> 4, evidence |-> 0, quality |-> FALSE],
     v3 |-> [intent |-> TRUE,  important |-> 16, body |-> 6, evidence |-> 0, quality |-> FALSE],
     v4 |-> [intent |-> TRUE,  important |-> 16, body |-> 6, evidence |-> 3, quality |-> TRUE]]

\* In units of 1 / 1000.
InverseDocumentFrequency(term) ==
    1000 + LogRatio[Cardinality({i \in DOMAIN Documents : Occurs(term, Corpus(Documents[i]))})]

TermWeight(version, term) ==
    IF version = "v4" THEN InverseDocumentFrequency(term) ELSE 1000

ContextWeight == [category |-> 5, year |-> 2, level |-> 2, college |-> 1]

Weight(version, terms) == MapThenSumSet(LAMBDA t : TermWeight(version, t), terms)

\* A context is a set of pairs of a field and its value, as are the tags of a
\* document it is compared with.
ContextBonus(doc, context) ==
    4000 * MapThenSumSet(LAMBDA t : ContextWeight[t[1]], context \cap doc.tags)

QualityBonus(doc) ==
    (IF doc.parsed THEN 2000 ELSE 0) + (IF doc.current THEN 1000 ELSE 0)

\* The chunk that explains the match best, 0 if none does.
BestEvidencePreview(doc, query, matched) ==
    LET found(i) == {t \in matched : Occurs(t, doc.chunks[i])}
        value(i) == QueryCoverage(Focus(query), doc.chunks[i])
                        + 100 * MapThenSumSet(LAMBDA t : Len(t) * Len(t), found(i))
        better(i, j) == \/ value(i) > value(j)
                        \/ value(i) = value(j) /\ Len(doc.chunks[i]) < Len(doc.chunks[j])
        best == CHOOSE i \in DOMAIN doc.chunks :
                    \A j \in DOMAIN doc.chunks \ {i} :
                        better(i, j) \/ (~better(j, i) /\ i < j)
    IN IF doc.chunks = <<>> \/ matched = {} THEN 0
       ELSE IF value(best) > 0 THEN best ELSE 0

\* _score_document_lexically and _build_search_result.  The preview, which the
\* code adds to the results it selects, depends on nothing but the document.
Scored(place, query, context, version) ==
    LET doc == Documents[place]
        preset == Presets[version]
        terms == Terms(query, preset.intent)
        title == {t \in terms : Occurs(t, doc.important)}
        body == {t \in terms \ title : Occurs(t, doc.body)}
        evidence == {t \in terms \ (title \cup body) : Occurs(t, Evidence(doc))}
        lexical == preset.important * Weight(version, title)
                       + preset.body * Weight(version, body)
                       + preset.evidence * Weight(version, evidence)
        metadata == ContextBonus(doc, context)
        matched == title \cup body \cup evidence
        quality == IF lexical > 0 /\ preset.quality THEN QualityBonus(doc) ELSE 0
    IN [id |-> doc.id, date |-> doc.date, place |-> place, score |-> lexical + metadata + quality,
        lexical |-> lexical, metadata |-> metadata, semantic |-> 0,
        coverage |-> QueryCoverage(query, Corpus(doc)),
        matched |-> matched, preview |-> BestEvidencePreview(doc, query, matched)]

----------------------------------------------------------------------------
(* The ranking.                                                             *)

FirstOf(s, limit) == SubSeq(s, 1, Smaller(limit, Len(s)))

\* The elements of a finite set in their order: the n-th has n - 1 before it.
Sorted(set, before(_, _)) ==
    [n \in 1 .. Cardinality(set) |->
        CHOOSE x \in set : Cardinality({y \in set : before(y, x)}) = n - 1]

\* Mutant: the blend does not decide.
ByLexical(a, b) == a.lexical > b.lexical \/ (a.lexical = b.lexical /\ a.place < b.place)

\* Python sorts are stable: equal keys keep their places.
ByScore(a, b) == a.score > b.score \/ (a.score = b.score /\ a.place < b.place)

ByScoreAndDate(a, b) ==
    \/ a.score > b.score
    \/ a.score = b.score /\ a.date < b.date
    \/ a.score = b.score /\ a.date = b.date /\ a.place < b.place

Ranking(query, context, version) ==
    Sorted({r \in {Scored(i, query, context, version) : i \in DOMAIN Documents} : r.score > 0},
           ByScoreAndDate)

SearchDocuments(query, context, limit, version) ==
    FirstOf(Ranking(query, context, version), limit)

----------------------------------------------------------------------------
(* Hybrid search.  similarity maps the documents of the index to            *)
(* cosines in units of 1 / 100000; the index may lack documents and know     *)
(* some that are gone.                                                       *)

Unmatched(place) ==
    [id |-> Documents[place].id, date |-> Documents[place].date, place |-> 0, score |-> 0,
     lexical |-> 0, metadata |-> 0, semantic |-> 0, coverage |-> 10000, matched |-> {},
     preview |-> 0]

\* round(..., 4), with so many units to the fourth decimal.  A half is rounded up; the
\* code rounds it to where its binary fraction lies.
Rounded(number, units) == (number + units \div 2) \div units

\* 0.55, 0.35 and 0.10 of the parts, each at most 1, in units of 1 / 8000000 before
\* they are rounded; place is the order of insertion into by_id.
Blended(item, semantic, place) ==
    [item EXCEPT
        !.place = place,
        !.semantic = Rounded(semantic, 10),
        !.score = Rounded(55 * Smaller(item.lexical, 80000) + 28 * semantic
                              + 20 * Smaller(item.metadata, 40000), 800)]

\* The documents of the lexical search come first, then those the index adds.
MergeSemanticResults(lexical, similarity, limit) ==
    LET semantic(id) ==
            IF id \in DOMAIN similarity /\ similarity[id] > 0 THEN similarity[id] ELSE 0
        found == {lexical[i].id : i \in DOMAIN lexical}
        added == {i \in DOMAIN Documents :
                     Documents[i].id \notin found /\ semantic(Documents[i].id) > 0}
        items == {Blended(lexical[i], semantic(lexical[i].id), i) : i \in DOMAIN lexical}
                     \cup {Blended(Unmatched(i), semantic(Documents[i].id), Len(lexical) + i) :
                              i \in added}
    IN FirstOf(Sorted(items, ByScore), limit)
=============================================================================
