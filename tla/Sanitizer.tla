------------------------------ MODULE Sanitizer ------------------------------
(***************************************************************************)
(* The privacy layer around one evaluation: the texts of a request are     *)
(* scanned by the analyzer, its overlapping findings are merged, every     *)
(* distinct original gets one placeholder for the whole batch, the judge   *)
(* sees the masked texts, and placeholders in what it writes are restored. *)
(*                                                                         *)
(* A text is a sequence of tokens, a span the half-open interval           *)
(* start..end of the source (start counted from 0). A placeholder is one   *)
(* token, <type, number>; a text may already contain such a token. That is *)
(* what the substring tests of the code see: a placeholder starts with its *)
(* only "<" and ends with its only ">", so none can overlap another.       *)
(***************************************************************************)
EXTENDS Integers, SequencesExt, Functions

CONSTANTS
    Batches,      \* the batches of texts that may be masked
    Words,        \* the tokens that are not placeholders
    EntityTypes,  \* entity types after _safe_entity_type
    Findings(_)   \* Findings(text): span lists the analyzer may return

Placeholder == EntityTypes \X Nat
Token == Words \cup Placeholder
Span == [start : Int, end : Int, type : EntityTypes, score : Nat]

ASSUME SanitizerAssumption ==
    /\ Batches \subseteq Seq(Seq(Token))
    /\ Words \cap Placeholder = {}
    /\ \A batch \in Batches : \A i \in DOMAIN batch :
           Findings(batch[i]) \subseteq Seq(Span)

VARIABLES
    texts,     \* the batch, as it came
    found,     \* found[i]: what the analyzer returned for text i (history)
    detected,  \* detected[i]: the spans to mask in text i
    counters,  \* counters[t]: the number last tried for type t
    original_to_placeholder,
    next,      \* the text and the span whose placeholder is due
    masked     \* the texts the judge gets

vars == <<texts, found, detected, counters, original_to_placeholder, next,
          masked>>

Init ==
    /\ texts \in Batches
    /\ found = <<>>
    /\ detected = <<>>
    /\ counters = [t \in EntityTypes |-> 0]
    /\ original_to_placeholder = <<>>
    /\ next = [text |-> 1, span |-> 1]
    /\ masked = <<>>

(***************************************************************************)
(* _detect and _merge_overlapping_spans.                                   *)
(***************************************************************************)

\* The findings that lie in the text; the others are ignored.
InText(spans, text) ==
    {n \in DOMAIN spans : /\ 0 <= spans[n].start
                          /\ spans[n].start < spans[n].end
                          /\ spans[n].end <= Len(text)}

Earlier(spans, i, j) ==
    \/ spans[i].start < spans[j].start
    \/ /\ spans[i].start = spans[j].start
       /\ \/ spans[i].end < spans[j].end
          \/ spans[i].end = spans[j].end /\ i < j

\* sorted by (start, end), equal ones in the order in which they came: the
\* n-th of the spans at the given positions is the one after n - 1 others.
Ordered(spans, positions) ==
    LET before(i) == Cardinality({j \in positions : Earlier(spans, j, i)})
    IN  [n \in 1..Cardinality(positions) |->
            spans[CHOOSE i \in positions : before(i) = n - 1]]

\* The span that stands for two overlapping ones: all they cover, under the
\* type of the one the analyzer trusts more.
Union2(current, candidate) ==
    LET preferred == IF candidate.score > current.score THEN candidate
                                                         ELSE current
    IN  [start |-> current.start,
         end |-> IF candidate.end > current.end THEN candidate.end
                                                ELSE current.end,
         type |-> preferred.type, score |-> preferred.score]

\* Mutant: overlapping spans are not merged.
Unmerged(ordered) == ordered

Extend(merged, candidate) ==
    IF merged = <<>> \/ candidate.start >= Last(merged).end
    THEN Append(merged, candidate)
    ELSE Append(Front(merged), Union2(Last(merged), candidate))

Merge(ordered) == FoldLeft(Extend, <<>>, ordered)

Detect ==
    /\ Len(detected) < Len(texts)
    /\ LET text == texts[Len(detected) + 1] IN
       \E spans \in (IF text = <<>> THEN {<<>>} ELSE Findings(text)) :
          /\ found' = Append(found, spans)
          /\ detected' = Append(detected,
                               Merge(Ordered(spans, InText(spans, text))))
    /\ UNCHANGED <<texts, counters, original_to_placeholder, next, masked>>

(***************************************************************************)
(* sanitize: one placeholder for every distinct original.                  *)
(***************************************************************************)

Original(text, span) == SubSeq(text, span.start + 1, span.end)

Occupied == UNION {ToSet(texts[i]) : i \in DOMAIN texts}

Issued == Range(original_to_placeholder)

\* Mutant: a placeholder only has to differ from those issued before.
NextUnissued(type) ==
    CHOOSE n \in (counters[type] + 1)..(counters[type] + Cardinality(Issued) + 1) :
        /\ <<type, n>> \notin Issued
        /\ \A m \in (counters[type] + 1)..(n - 1) : <<type, m>> \in Issued

\* The first number after the last one tried whose placeholder neither occurs
\* in the batch nor was issued before.
NextNumber(type) ==
    LET taken == Occupied \cup Issued IN
    CHOOSE n \in (counters[type] + 1)..(counters[type] + Cardinality(taken) + 1) :
        /\ <<type, n>> \notin taken
        /\ \A m \in (counters[type] + 1)..(n - 1) : <<type, m>> \in taken

Due == next.text <= Len(texts) /\ Len(detected) = Len(texts)

\* No span is left in this text.
NextText ==
    /\ Due
    /\ next.span > Len(detected[next.text])
    /\ next' = [text |-> next.text + 1, span |-> 1]
    /\ UNCHANGED <<texts, found, detected, counters, original_to_placeholder,
                   masked>>

Unmapped(original) == original \notin DOMAIN original_to_placeholder

Assign ==
    /\ Due
    /\ next.span <= Len(detected[next.text])
    /\ LET span == detected[next.text][next.span]
           original == Original(texts[next.text], span)
           number == NextNumber(span.type)
       IN \/ /\ Unmapped(original)
             /\ counters' = [counters EXCEPT ![span.type] = number]
             /\ original_to_placeholder' =
                    [o \in DOMAIN original_to_placeholder \cup {original} |->
                        IF o = original THEN <<span.type, number>>
                                        ELSE original_to_placeholder[o]]
          \/ /\ ~Unmapped(original)
             /\ UNCHANGED <<counters, original_to_placeholder>>
    /\ next' = [next EXCEPT !.span = @ + 1]
    /\ UNCHANGED <<texts, found, detected, masked>>

\* Mutant: the spans are replaced from the first to the last.
FirstToLast(spans) == spans

\* From the last to the first, so that the positions of the others stay right.
LastToFirst(spans) == Reverse(spans)

Replace(text, sanitized, span) ==
    SubSeq(sanitized, 1, span.start)
    \o <<original_to_placeholder[Original(text, span)]>>
    \o SubSeq(sanitized, span.end + 1, Len(sanitized))

MaskedText(text, spans) ==
    LET replace(sanitized, span) == Replace(text, sanitized, span)
    IN  FoldLeft(replace, text, LastToFirst(spans))

Mask ==
    /\ next.text > Len(texts)
    /\ Len(masked) < Len(texts)
    /\ LET i == Len(masked) + 1
       IN  masked' = Append(masked, MaskedText(texts[i], detected[i]))
    /\ UNCHANGED <<texts, found, detected, counters, original_to_placeholder,
                   next>>

(***************************************************************************)
(* What the judge wrote, restored for the caller.                          *)
(***************************************************************************)
mapping == Inverse(original_to_placeholder, DOMAIN original_to_placeholder,
                   Issued)

\* One pass: what a placeholder stands for is not looked at again.
restore(text) ==
    FlattenSeq([i \in DOMAIN text |->
        IF text[i] \in Issued THEN mapping[text[i]] ELSE <<text[i]>>])

------------------------------------------------------------------------------
Next == Detect \/ NextText \/ Assign \/ Mask

Spec == Init /\ [][Next]_vars

------------------------------------------------------------------------------
(***************************************************************************)
(* Properties.                                                             *)
(***************************************************************************)

\* The positions of text i that some of the spans covers (counted from 1).
Covered(i, spans) ==
    {p \in DOMAIN texts[i] : \E s \in spans : s.start < p /\ p <= s.end}

\* The tokens at some positions of a text, in its order.
Kept(text, positions) ==
    FlattenSeq([p \in DOMAIN text |->
                   IF p \in positions THEN <<text[p]>> ELSE <<>>])

\* Where a masked text has no placeholder of this batch.
Said(text) == {p \in DOMAIN text : text[p] \notin Issued}

\* The tokens of text i the analyzer did not object to.
Clean(i) ==
    LET named == {found[i][n] : n \in InText(found[i], texts[i])}
    IN  DOMAIN texts[i] \ Covered(i, named)

\* "Merge overlaps so a lower-priority overlap cannot leave part of PII
\* exposed": the judge sees of a text exactly the tokens the analyzer did not object
\* to, and one placeholder for each span.
NothingFoundSurvives ==
    \A i \in DOMAIN masked :
        /\ Kept(masked[i], Said(masked[i])) = Kept(texts[i], Clean(i))
        /\ Len(masked[i]) = Cardinality(Clean(i)) + Len(detected[i])

\* Placeholders are stable over the batch and stand for one original each,
\* and none can be taken for something the batch said itself.
PlaceholdersAreUnambiguous ==
    /\ IsInjective(original_to_placeholder)
    /\ Issued \cap Occupied = {}

\* Restoring the masked texts gives back the originals, token by token.
RestoreInverts == \A i \in DOMAIN masked : restore(masked[i]) = texts[i]
=============================================================================
