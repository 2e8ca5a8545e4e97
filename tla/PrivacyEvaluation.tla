-------------------------- MODULE PrivacyEvaluation --------------------------
(***************************************************************************)
(* How good the privacy layer is (privacy/evaluation.py): documents with   *)
(* labelled PII are built from templates, the detector of the pipeline     *)
(* (Sanitizer's Detect, merged spans) is run on them, and its spans are    *)
(* paired with the labels one to one. What the report says of a document   *)
(* is compared with what the judge would have seen of it.                  *)
(***************************************************************************)
EXTENDS Sanitizer

CONSTANTS
    Markers,    \* the tokens that stand for a slot in a template
    Templates   \* [words : sequence of tokens and markers, slots : ...]

Slot == [name : Markers, value : Seq(Token) \ {<<>>}, type : EntityTypes]
Template == [words : Seq(Token \cup Markers), slots : Seq(Slot)]

Index(words, marker) == SelectInSeq(words, LAMBDA w : w = marker)

\* The markers are in the template, the slots in the order of their markers.
ASSUME TemplateAssumption ==
    /\ IsFiniteSet(EntityTypes)
    /\ Markers \cap Token = {}
    /\ Templates \subseteq Template
    /\ \A t \in Templates : \A n \in DOMAIN t.slots :
        /\ t.slots[n].name \in ToSet(t.words)
        /\ \A m \in 1..(n - 1) :
              Index(t.words, t.slots[m].name) < Index(t.words, t.slots[n].name)

(***************************************************************************)
(* The labelled documents (_Template.build): one slot after the other is   *)
(* replaced by its value, and its span noted where the value went.         *)
(***************************************************************************)

\* Mutant: the span has the length of the marker.
SpanOfMarker(index, slot) ==
    [start |-> index - 1, end |-> index, type |-> slot.type, score |-> 0]

LabelOf(index, slot) ==
    [start |-> index - 1, end |-> index - 1 + Len(slot.value),
     type |-> slot.type, score |-> 0]

Fill(document, slot) ==
    LET i == Index(document.text, slot.name) IN
    [text |-> SubSeq(document.text, 1, i - 1) \o slot.value
              \o SubSeq(document.text, i + 1, Len(document.text)),
     spans |-> Append(document.spans, LabelOf(i, slot))]

Build(template) ==
    LET filled == FoldLeft(Fill, [text |-> template.words, spans |-> <<>>],
                           template.slots)
    IN  [text |-> filled.text, spans |-> Ordered(filled.spans, DOMAIN filled.spans)]

labeled_corpus == [t \in Templates |-> Build(t)]

(***************************************************************************)
(* match_spans, evaluate_detection and detection_misses.                   *)
(***************************************************************************)

overlaps(a, b) == a.start < b.end /\ b.start < a.end

Pairs(candidate, target, typed) ==
    overlaps(candidate, target) /\ (typed => candidate.type = target.type)

\* The first label that is not matched yet, if the candidate hits one.
Match(result, candidate, typed) ==
    LET hits == {i \in DOMAIN result.missed :
                    Pairs(candidate, result.missed[i], typed)}
        i == Min(hits)
    IN  IF hits = {}
        THEN [result EXCEPT !.spurious = Append(@, candidate)]
        ELSE [result EXCEPT
                !.matched = Append(@, <<result.missed[i], candidate>>),
                !.missed = RemoveAt(@, i)]

match_spans(expected, candidates, typed) ==
    LET match(result, candidate) == Match(result, candidate, typed)
    IN  FoldLeft(match, [matched |-> <<>>, missed |-> expected,
                         spurious |-> <<>>], candidates)

\* The row of an entity type: caught and missed spans count under the type of
\* the label, spurious ones under that of the detector.
Row(result, type) ==
    [tp |-> Cardinality({n \in DOMAIN result.matched : result.matched[n][1].type = type}),
     fp |-> Cardinality({n \in DOMAIN result.spurious : result.spurious[n].type = type}),
     fn |-> Cardinality({n \in DOMAIN result.missed : result.missed[n].type = type})]

\* The row of everything.
ALL(result) ==
    [tp |-> Len(result.matched), fp |-> Len(result.spurious),
     fn |-> Len(result.missed)]

\* The texts the report lists as missed; typed matching is not used here.
detection_misses(document, candidates) ==
    LET missed == match_spans(document.spans, candidates, FALSE).missed
    IN  [n \in DOMAIN missed |-> Original(document.text, missed[n])]

(***************************************************************************)
(* Properties: over every labelled document and whatever the analyzer      *)
(* found in it, as soon as its detection is over.                          *)
(***************************************************************************)

Evaluated(document) == document.text = texts[1]

\* The most labels that can be paired with a detection of their own.
BestMatching(expected, candidates, typed) ==
    LET edges == {e \in (DOMAIN expected) \X (DOMAIN candidates) :
                     Pairs(candidates[e[2]], expected[e[1]], typed)}
        matchings == {m \in SUBSET edges : \A e, f \in m :
                         e # f => e[1] # f[1] /\ e[2] # f[2]}
    IN  Max({Cardinality(m) : m \in matchings})

\* match_spans is greedy, the docstring of evaluate_detection promises a table
\* that can be checked: recall is not understated by the order in which spans
\* are paired, as no other pairing catches more; and for every type the caught
\* and the missed spans are its labels, over all types the rows add up to ALL.
TableIsRight ==
    Len(detected) = 1 => \A template \in Templates, typed \in BOOLEAN :
        LET d == labeled_corpus[template]
            result == match_spans(d.spans, detected[1], typed)
        IN  Evaluated(d) =>
            /\ ALL(result).tp = BestMatching(d.spans, detected[1], typed)
            /\ \A t \in EntityTypes :
                  Row(result, t).tp + Row(result, t).fn
                      = Cardinality({n \in DOMAIN d.spans : d.spans[n].type = t})
            /\ SumFunction([t \in EntityTypes |-> Row(result, t).tp]) = ALL(result).tp
            /\ SumFunction([t \in EntityTypes |-> Row(result, t).fp]) = ALL(result).fp
            /\ ALL(result).tp + ALL(result).fp = Len(detected[1])

Positions(span) == (span.start + 1)..span.end

\* "A missed span is PII that left the machine": every label of which nothing
\* was masked is missed, and its text as the report shows it is the value that
\* was put into the template. The other way round it holds of a missed label
\* unless one merged span masks parts of it and was counted for another label.
MissesAreExposed ==
    Len(detected) = 1 => \A template \in Templates :
        LET d == labeled_corpus[template]
            result == match_spans(d.spans, detected[1], FALSE)
            safe == Covered(1, ToSet(detected[1]))
            missed == ToSet(result.missed)
            values == {template.slots[k].value : k \in DOMAIN template.slots}
        IN  Evaluated(d) =>
            /\ \A n \in DOMAIN d.spans :
                  Positions(d.spans[n]) \cap safe = {} => d.spans[n] \in missed
            /\ \A s \in missed :
                  \/ Positions(s) \cap safe = {}
                  \/ \E p \in ToSet(result.matched) :
                         p[1] # s /\ overlaps(p[2], s)
            /\ ToSet(detection_misses(d, detected[1])) \subseteq values
=============================================================================
