------------------------- MODULE ExpressionMeaning -------------------------
(***************************************************************************)
(* What a text means, top down: the loosest operator outside parentheses   *)
(* and quotes is the root of its tree, and the last of them where there are*)
(* several.  The properties of Expressions compare the compiler and the    *)
(* interpreter, which go through the text and the queue once, with it.     *)
(***************************************************************************)
EXTENDS Expressions

-----------------------------------------------------------------------------
\* Which texts have a meaning here: the spelling the transitions ask for.

Opens(s, i) == s[i].class = "QUOTE" /\ ~IsQuoted(s, i)

IsUnary(s, i) ==
  ~IsQuoted(s, i) /\ s[i].class = "MINUS" /\ ClassAt(s, i - 1) = "LEFT"

\* A string opens after a space, a parenthesis or a comma, a unary minus stands right
\* in front of its number or parenthesis, and no space splits a number.
Tidy(s) ==
  /\ ~IsQuoted(s, Len(s) + 1)
  /\ \A i \in DOMAIN s :
       /\ Opens(s, i) => ClassAt(s, i - 1) \in {"EDGE", "SPACE", "LEFT", "COMMA"}
       /\ IsUnary(s, i) => ClassAt(s, i + 1) \in {"DIGIT", "LEFT"}
       /\ ~IsQuoted(s, i) /\ s[i].class = "SPACE"
            => ~\E h \in 1 .. i - 1, j \in i + 1 .. Len(s) :
                  /\ s[h].class \in {"DIGIT", "DOT"}
                  /\ s[j].class \in {"DIGIT", "DOT", "ALPHA"}
                  /\ \A k \in h + 1 .. j - 1 : s[k].class = "SPACE"

\* Its lexemes without the spaces between them, and with the unary minus told apart.
Lexemes(s) ==
  LET kept == SelectSeq([i \in DOMAIN s |-> i],
                        LAMBDA i : IsQuoted(s, i) \/ s[i].class # "SPACE")
  IN [k \in DOMAIN kept |-> IF IsUnary(s, kept[k]) THEN [s[kept[k]] EXCEPT !.class = "UNARY"]
                            ELSE s[kept[k]]]

-----------------------------------------------------------------------------
\* Trees: [item, args].

Node(item, args) == [item |-> item, args |-> args]
NamesOf(s) == [i \in DOMAIN s |-> s[i].name]
AllOf(s, classes) == \A i \in DOMAIN s : s[i].class \in classes

Outside(s, classes) ==
  {i \in DOMAIN s : s[i].class \in classes /\ ~IsQuoted(s, i) /\ Depth(s, i) = 0}

\* The pieces of s between its commas.
Pieces(s) ==
  LET commas == Outside(s, {"COMMA"})
      cuts == <<0>> \o SelectSeq([i \in DOMAIN s |-> i], LAMBDA i : i \in commas)
                \o <<Len(s) + 1>>
  IN IF s = << >> THEN << >>
     ELSE [k \in 1 .. Len(cuts) - 1 |-> SubSeq(s, cuts[k] + 1, cuts[k + 1] - 1)]

\* A number, a word (a method without arguments needs no parentheses) or a string.
Leaves(s) ==
  LET n == NamesOf(s)
      inner == SubSeq(n, 2, Len(n) - 1)
  IN IF s[1].class = "DIGIT" /\ AllOf(s, {"DIGIT", "DOT"}) /\ IsNumeral(n)
       THEN {Node(Operand("number", n), << >>)}
     ELSE IF s[1].class = "ALPHA" /\ AllOf(s, {"ALPHA", "DIGIT", "DOT"})
       THEN CASE n \in DOMAIN Reserved -> {Node(Operand(Reserved[n], n), << >>)}
              [] n \in DOMAIN Methods ->
                   IF Methods[n].arity = 0 THEN {Node(Item("METHOD", n), << >>)} ELSE {}
              [] n \in Undefined -> {}
              [] OTHER -> {Node(Operand("string", n), << >>)}
     ELSE IF Len(s) > 1 /\ {i \in DOMAIN s : s[i].class = "QUOTE"} = {1, Len(s)}
       THEN {Node(Operand("string", inner), << >>)}
     ELSE {}

\* The sequence of the trees, when there is one in every set of the sequence.
Each(trees) ==
  UNION {IF \E k \in DOMAIN sets : sets[k] = {} THEN {}
         ELSE {[k \in DOMAIN sets |-> CHOOSE t \in sets[k] : TRUE]} : sets \in {trees}}

\* "Operator precedence is same as in C" (command_parser.h:29): the tightest first, and
\* those of one level from left to right.
InC == <<{"PLUS", "MINUS"}, {"LESS", "MORE"}, {"CMP"}, {"AND"}, {"OR"}>>
LevelInC(class) == CHOOSE k \in DOMAIN InC : class \in InC[k]

RECURSIVE Trees(_)

Binary(s, tops) ==
  LET loosest == Max({LevelInC(s[i].class) : i \in tops})
  IN UNION {{Node(Operator(s[root].class), args) :
               args \in Each(<<Trees(SubSeq(s, 1, root - 1)), Trees(SubSeq(s, root + 1, Len(s)))>>)} :
            root \in {Max({i \in tops : LevelInC(s[i].class) = loosest})}}

Call(s) ==
  LET left == Min({i \in DOMAIN s : s[i].class = "LEFT"})
      name == NamesOf(SubSeq(s, 1, left - 1))
      pieces == Pieces(SubSeq(s, left + 1, Len(s) - 1))
  IN IF name \in DOMAIN Methods /\ Methods[name].arity = Len(pieces)
       THEN {Node(Item("METHOD", name), args) :
               args \in Each([k \in DOMAIN pieces |-> Trees(pieces[k])])}
       ELSE {}

\* At most one tree: the empty set for what is no expression.
Trees(s) ==
  LET tops == Outside(s, BinaryOps)
  IN CASE s = << >> -> {}
       [] tops # {} -> Binary(s, tops)
       [] s # << >> /\ tops = {} ->
            CASE s[1].class = "UNARY" ->
                   {Node(Operator("UNARY"), args) : args \in Each(<<Trees(Tail(s))>>)}
              [] s[1].class = "LEFT" ->
                   IF s[Len(s)].class = "RIGHT" THEN Trees(SubSeq(s, 2, Len(s) - 1)) ELSE {}
              [] s[1].class = "ALPHA" /\ s[Len(s)].class = "RIGHT" ->
                   IF \E i \in DOMAIN s : s[i].class = "LEFT" THEN Call(s) ELSE {}
              [] OTHER -> Leaves(s)

Readings(s) == IF Tidy(s) THEN Trees(Lexemes(s)) ELSE {}

-----------------------------------------------------------------------------
\* What a tree stands for.

RECURSIVE Postorder(_), Value(_), CallsOf(_)
Postorder(t) ==
  FlattenSeq([k \in DOMAIN t.args |-> Postorder(t.args[k])]) \o <<t.item>>

\* The value of a tree, when every value it is made of is there.
Value(t) ==
  IF IsOperand(t.item) THEN {Constant(t.item)}
  ELSE UNION {Applied(t.item, args) :
                args \in Each([k \in DOMAIN t.args |-> Value(t.args[k])])}

\* The calls it takes to evaluate t; its last one may be the one that returns nothing.
CallsOf(t) ==
  LET inner == FlattenSeq([k \in DOMAIN t.args |-> CallsOf(t.args[k])])
      own == {<<t.item.name, args>> : args \in Each([k \in DOMAIN t.args |-> Value(t.args[k])])}
  IN IF t.item.kind = "METHOD" THEN inner \o SetToSeq(own) ELSE inner

Complete(t) == Value(t) # {}

-----------------------------------------------------------------------------
\* Where the program departs from C: + and > have levels of their own there, below - and
\* below <.  A - that follows a + of the same sum, or a < that follows a > of the same
\* comparison, takes the operand between them: 1 + 2 - 3 is read as 1 + (2 - 3).
Regrouped(s) ==
  \E i, j \in DOMAIN s :
    /\ i < j /\ Depth(s, i) = Depth(s, j) /\ ~IsQuoted(s, i) /\ ~IsQuoted(s, j)
    /\ <<s[i].class, s[j].class>> \in {<<"PLUS", "MINUS">>, <<"MORE", "LESS">>}
    /\ \A k \in i .. j : ~IsQuoted(s, k) =>
         /\ Depth(s, k) >= Depth(s, i)
         /\ Depth(s, k) = Depth(s, i) /\ s[k].class \in BinaryOps
              => LevelInC(s[k].class) <= LevelInC(s[i].class)

\* A text that is an expression compiles, to the postorder of the tree it has in C, but
\* for those that are grouped otherwise, and these never do.  Executing it returns its
\* value, or nothing when a value it is made of is missing: precedence, parentheses, the
\* arguments of methods and their order.
MeansWhatItSays ==
  status # "parsing" => \A t \in Readings(text) :
    /\ status \notin {"failed", "overrun"}
    /\ status \in {"running", "done"} => (queue = Postorder(t) <=> ~Regrouped(Lexemes(text)))
    /\ status = "done" /\ ~Regrouped(Lexemes(text)) => result = Value(t)

\* Methods are called in the order the text gives, each with its own arguments and no
\* other, as long as every value is there, and with the same exception.
CallsAsWritten ==
  status \in {"running", "done"} /\ ~Regrouped(Lexemes(text))
    => \A t \in Readings(text) : Complete(t) =>
         /\ IsPrefix(calls, CallsOf(t))
         /\ status = "done" => calls = CallsOf(t)
=============================================================================
