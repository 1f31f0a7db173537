----------------------------- MODULE TemplateMC -----------------------------
(* Templates of up to six pieces, the last one text, built of text,          *)
(* conditions that hold or do not hold, Else and EndIf, with a stack two deep; *)
(* all templates of up to three pieces that may be any tag or scrap of a tag;  *)
(* and files of up to two of those.  The map has room for all operators, or     *)
(* for all but one, or (shorter templates) for one or none.  The application    *)
(* knows "v" both as a condition and as a string, "n" as a condition only,      *)
(* "_" as a string (so "_title" is taken for it), and "u" not at all.           *)
EXTENDS Template

MCWord == <<"word1", "word2", "word3", "word4", "word5", "word6">>

MCHash(key) == Len(key) % 2

MCTruth == (<<"v">> :> TRUE) @@ (<<"n">> :> FALSE)
MCValue == (<<"v">> :> <<"V">>) @@ (<<"_">> :> <<"U">>)

MCMarks == {"_"}

Kind(kind) == [kind |-> kind]
Named(kind, name) == [kind |-> kind, name |-> name, rest |-> <<>>]
Marked(kind, rest) == [kind |-> kind, name |-> "_", rest |-> rest]
Scrap(atoms) == [kind |-> "scrap", atoms |-> atoms]

Nesting == {Kind("text"), Kind("else"), Kind("endif"), Named("if", "v"), Named("if", "n")}

AnyPiece ==
    Nesting
    \cup {Named("if", "u"), Named("show", "v"), Named("show", "u"), Named("bare", "v"), Named("bare", "n")}
    \cup {Marked("show", <<"title">>), Marked("bare", <<"head">>)}
    \cup {Scrap(<<"%">>), Scrap(<<"<", "%">>), Scrap(<<"<">>), Scrap(<<"<", "%", "If">>), Scrap(<<"%", ">">>)}

(* No EndIf or Else comes before its If. *)
Matched(p) ==
    \A i \in DOMAIN p : p[i].kind \in {"else", "endif"} =>
        Cardinality({j \in 1..(i - 1) : p[j].kind = "if"})
            > Cardinality({j \in 1..(i - 1) : p[j].kind = "endif"})

Nested == {Append(p, Kind("text")) : p \in {q \in SeqOf(Nesting, 5) : Matched(q)}}

AllButOne == {OperatorNames \ {name} : name \in OperatorNames}

MCCalls ==
    [source : {"buffer"}, args : {TRUE}, pieces : Nested,
     operators : {OperatorNames} \cup AllButOne]
    \cup [source : {"buffer"}, args : {TRUE}, pieces : SeqOf(AnyPiece, 3),
          operators : {OperatorNames}]
    \cup [source : {"file", "buffer"}, args : BOOLEAN, pieces : SeqOf(AnyPiece, 2),
          operators : SUBSET OperatorNames]
=============================================================================
