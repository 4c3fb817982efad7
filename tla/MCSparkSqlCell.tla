---------------------------- MODULE MCSparkSqlCell ----------------------------
(***************************************************************************)
(* TLC instance of SparkSqlCell: option lines of every kind, and all texts *)
(* of up to MaxFragments fragments; a reference is one fragment, so that   *)
(* two statements with one fit, and braces come alone too.                 *)
(***************************************************************************)
EXTENDS SparkSqlCell

CONSTANT MaxFragments

MCLines == {<<>>, <<"word">>, <<"--explain", "mode">>, <<"--explain", "word">>,
            <<"-s", "word", "-e", "-c">>, <<"-v", "word", "-q">>, <<"-l50">>, <<"-s">>,
            <<"word", "word">>, <<"-?">>, <<"-s", "-?", "-s", "word">>}

Fragments == {<<t>> : t \in SqlTok} \cup {<<"lb", "id", "rb">>}

\* The lexer makes one token of two words without a blank between them.
Lexes(s) == \A i \in 1..(Len(s) - 1) : ~({s[i], s[i + 1]} \subseteq {"id", "BEGIN", "mark"})

MCCells == {s \in {FlattenSeq(f) : f \in BoundedSeq(Fragments, MaxFragments)} : Lexes(s)}

\* The text of a view, which has two lines.
MCViews == {<<"x", "ws", "id">>}

\* InOrder, CodeOf and Gather, which the proofs can reason about, are the library's
\* sorting, selection and concatenation.
ASSUME InOrderSorts == \A S \in SUBSET (0..4) : InOrder(S) = SetToSortSeq(S, <)

ASSUME CodeOfSelects == \A s \in MCCells : CodeOf(s) = SelectSeq(s, IsCode)

ASSUME GatherConcatenates ==
    \A f \in BoundedSeq({<<>>, <<"x">>, <<"id", "ws">>}, 3) :
        Gather(Len(f), [k \in 1..Len(f) |-> [put |-> f[k], next |-> k + 1]])[1]
            = FlattenSeq(f)
=============================================================================
