---------------------------- MODULE MCSanitizer ----------------------------
\* An instance of Sanitizer for TLC.
EXTENDS PrivacyEvaluation

CONSTANTS x, A, B, m1, m2, m3

\* Every labelling of the text x x x: the template has a word or a marker for
\* each piece, the slots come in the order of the text.
Labellings ==
    LET marker(n) == <<m1, m2, m3>>[n]
        template(kinds) ==
            [words |-> [n \in DOMAIN kinds |->
                           IF kinds[n].type = "none" THEN x ELSE marker(n)],
             slots |-> SelectSeq([n \in DOMAIN kinds |->
                           [name |-> marker(n), type |-> kinds[n].type,
                            value |-> [k \in 1..kinds[n].size |-> x]]],
                           LAMBDA s : s.type # "none")]
        piece == {[type |-> "none", size |-> 1]}
                 \cup [type : {A, B}, size : 1..3]
        size(kinds) == FoldLeft(LAMBDA a, k : a + k.size, 0, kinds)
    IN  {template(kinds) : kinds \in
            {k \in UNION {[1..n -> piece] : n \in 1..3} : size(k) = 3}}

\* Two texts over a word and a token that looks like a placeholder.
SmallBatches ==
    LET tokens == {x, <<A, 1>>}
        long == [1..3 -> tokens]
        short == {<<>>} \cup [1..1 -> tokens]
    IN  {<<s, t>> : s \in long, t \in short}

\* Up to two findings per text, of two types; B is trusted as much as A or
\* less, and some findings of B lie outside of the text.
SmallFindings(text) ==
    LET spans == [start : 0..(Len(text) - 1), end : 1..Len(text),
                  type : {A}, score : {2}]
                 \cup [start : 0..(Len(text) - 1), end : 1..(Len(text) + 1),
                       type : {B}, score : {1, 2}]
        some == {s \in spans : s.start < s.end}
    IN  {<<>>} \cup [1..1 -> some]
        \cup (IF Len(text) = 3 THEN [1..2 -> some] ELSE {})
=============================================================================
