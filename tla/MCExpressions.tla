--------------------------- MODULE MCExpressions ---------------------------
\* Alphabets for operators and precedence, for methods and their arguments, and for
\* spelling: spaces, dots, quotes and words of several parts.
EXTENDS ExpressionMeaning

Lex(class, name) == [class |-> class, name |-> name]
Of(classes) == {Lex(c, c) : c \in classes}

Alphabet(lexemes, max) == [lexemes |-> lexemes \cup {Lex("DIGIT", "1")}, max |-> max]

MCAlphabets == {
  Alphabet(Of({"MINUS", "PLUS", "LESS", "MORE", "AND"}), 7),
  Alphabet(Of({"MINUS", "PLUS", "CMP", "OR", "LEFT", "RIGHT"}), 7),
  Alphabet(Of({"LESS", "MORE", "CMP", "AND", "OR"}), 5),
  Alphabet({Lex("ALPHA", "two")} \cup Of({"PLUS", "LEFT", "RIGHT", "COMMA"}), 8),
  Alphabet({Lex("ALPHA", "none"), Lex("ALPHA", "one")} \cup Of({"PLUS", "LEFT", "RIGHT"}), 6),
  Alphabet({Lex("ALPHA", "x"), Lex("ALPHA", "True"), Lex("ALPHA", "gone"), Lex("ODD", "&"),
            Lex("DOT", ".")} \cup Of({"SPACE", "QUOTE", "LEFT", "MINUS"}), 5) }

MCMethods ==
  (<<"none">> :> [arity |-> 0, type |-> "none"]) @@
  (<<"one">> :> [arity |-> 1, type |-> "number"]) @@
  (<<"two">> :> [arity |-> 2, type |-> "string"])
MCUndefined == {<<"gone">>}
MCReserved == <<"True">> :> "bool"
=============================================================================
