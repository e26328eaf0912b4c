---------------------------- MODULE Expressions ----------------------------
(***************************************************************************)
(* The expression compiler and its interpreter: parser_dfa.c (the states   *)
(* and the table of transitions), command_parser.c (what entering a state  *)
(* does to the operator stack and the operand queue, and the evaluation of *)
(* the queue) and the argument counts of operator.c.                       *)
(*                                                                         *)
(* A text is read lexeme by lexeme: [class, name], class being the token    *)
(* parser_dfa_get_token gives it.  A word stands for its letters: the       *)
(* states they run through are one.  Values are terms [type, op, args], so  *)
(* that two of them are equal only when they were computed in the same way. *)
(***************************************************************************)
EXTENDS Integers, SequencesExt

CONSTANTS
  Alphabets,  \* [lexemes, max]: a text is written with these, and has max at most (bound)
  Methods,    \* methods of devices and services: [arity, type], by their name
  Undefined,  \* names of methods that a known service does not have
  Reserved    \* reserved words and registered symbols, by name: their type

\* The tokens; "ODD" is a character that starts none, "EOL" the end of the text.
BinaryOps == {"AND", "OR", "PLUS", "MINUS", "CMP", "LESS", "MORE"}
Classes == BinaryOps \cup
  {"ALPHA", "DIGIT", "DOT", "SPACE", "LEFT", "RIGHT", "COMMA", "QUOTE", "EOL", "ODD"}

ASSUME ExpressionsAssumption ==
  /\ \A a \in Alphabets : a.max \in Nat /\ \A lex \in a.lexemes : lex.class \in Classes \ {"EOL"}
  /\ \A n \in DOMAIN Methods : Methods[n].arity \in Nat
  /\ (DOMAIN Methods \cap DOMAIN Reserved) \cup (DOMAIN Methods \cap Undefined) = {}

VARIABLES
  alphabet,  \* the alphabet this text is written in
  text,      \* history: the lexemes read
  state,     \* state_context.current_state
  buf,       \* current_data_buf: the names gathered for the operand being read
  ops,       \* operator_stack, the front first
  queue,     \* operand_queue: the compiled expression
  status,    \* parsing, failed, overrun, then running, done
  pc,        \* the items of the queue executed
  work,      \* work_stack of an execution, the front first
  calls,     \* history: the methods called, with their arguments
  result     \* what an execution returned: a set of at most one term

parserVars == <<text, state, buf, ops, queue>>
runVars == <<pc, work, calls, result>>
vars == <<alphabet, parserVars, status, runVars>>

-----------------------------------------------------------------------------
\* parser_dfa.c

\* dfa_transitions: the tokens each state goes on with.
Accepts(s) ==
  CASE s = "START" -> Classes \ {"DOT", "ODD"}
    [] s = "ALPHA" -> Classes \ {"QUOTE", "ODD"}
    [] s = "DIGIT" -> Classes \ {"LEFT", "QUOTE", "ODD"}
    [] s = "LEFT" -> {"ALPHA", "DIGIT", "RIGHT", "LEFT", "SPACE", "MINUS", "QUOTE"}
    [] s = "RIGHT" -> BinaryOps \cup {"RIGHT", "COMMA", "EOL", "SPACE"}
    [] s = "COMMA" -> {"ALPHA", "DIGIT", "LEFT", "QUOTE", "SPACE"}
    [] s = "UNARY" -> {"DIGIT", "LEFT"}
    [] s \in BinaryOps -> {"ALPHA", "DIGIT", "LEFT", "SPACE"}
    [] s = "CAPTURE" -> Classes

\* A character that starts no token is part of a quoted string, and an error elsewhere.
Target(s, c) ==
  IF c \notin Accepts(s) THEN "INVALID"
  ELSE IF s = "CAPTURE" THEN IF c = "QUOTE" THEN "START" ELSE "CAPTURE"
  ELSE CASE c = "QUOTE" -> "CAPTURE"
         [] c = "EOL" -> "END"
         [] c = "DOT" -> s
         [] c = "SPACE" -> IF s = "ALPHA" THEN "ALPHA" ELSE "START"
         [] c = "DIGIT" /\ s = "ALPHA" -> "ALPHA"
         [] c = "MINUS" /\ s = "LEFT" -> "UNARY"
         [] OTHER -> c

-----------------------------------------------------------------------------
\* command_parser.c: the two stacks

\* OperatorType, in its order: what is smaller binds tighter.
Types == <<"FUNCTION", "METHOD", "LEFT", "RIGHT", "UNARY", "MINUS", "PLUS",
           "LESS", "MORE", "CMP", "AND", "OR">>
Level(kind) == CHOOSE k \in DOMAIN Types : Types[k] = kind

Item(kind, name) == [kind |-> kind, name |-> name]
Operand(type, name) == [kind |-> type, name |-> name]
Operator(kind) == Item(kind, <<kind>>)

\* How many items come off the front of s before one at the positions in stops.
Leading(s, stops) == IF stops = {} THEN Len(s) ELSE Min(stops) - 1

\* The first n items of the operator stack move to the end of the queue.
Moved(p, n) ==
  [p EXCEPT !.ops = SubSeq(@, n + 1, Len(@)), !.queue = @ \o SubSeq(p.ops, 1, n)]

Lefts(list) == {i \in DOMAIN list : list[i].kind = "LEFT"}

\* process_operator_token: every operator has a level of its own.
ProcessOperator_Strict(p, kind) ==
  LET stays == {i \in DOMAIN p.ops : Level(kind) <= Level(p.ops[i].kind)}
  IN [Moved(p, Leading(p.ops, Lefts(p.ops) \cup stays)) EXCEPT !.ops = <<Operator(kind)>> \o @]

ProcessOperator(p, kind) ==
  LET stays == {i \in DOMAIN p.ops : Level(kind) < Level(p.ops[i].kind)}
  IN [Moved(p, Leading(p.ops, Lefts(p.ops) \cup stays)) EXCEPT !.ops = <<Operator(kind)>> \o @]

\* process_comma_token
ProcessComma(p) ==
  LET n == Leading(p.ops, Lefts(p.ops)) IN [Moved(p, n) EXCEPT !.ok = n < Len(p.ops)]

\* process_parenthesis_token for a right parenthesis: the left one goes, and a
\* method in front of it is called.
ProcessRight_Unchecked(p) ==
  LET q == Moved(p, Leading(p.ops, Lefts(p.ops)))
      r == [q EXCEPT !.ops = IF @ = << >> THEN @ ELSE Tail(@)]
  IN IF r.ops # << >> /\ r.ops[1].kind = "METHOD" THEN Moved(r, 1) ELSE r

ProcessRight(p) ==
  LET q == Moved(p, Leading(p.ops, Lefts(p.ops)))
      r == [q EXCEPT !.ops = Tail(@)]
  IN IF q.ops = << >> THEN [q EXCEPT !.ok = FALSE]
     ELSE IF r.ops # << >> /\ r.ops[1].kind = "METHOD" THEN Moved(r, 1)
     ELSE r

\* process_string_token
ProcessWord(p) ==
  LET n == p.buf
      Queued(item) == [p EXCEPT !.queue = Append(@, item), !.buf = << >>]
  IN CASE n \in DOMAIN Reserved -> Queued(Operand(Reserved[n], n))
       [] n \in DOMAIN Methods ->
            [p EXCEPT !.ops = <<Item("METHOD", n)>> \o @, !.buf = << >>]
       [] n \in Undefined -> [p EXCEPT !.ok = FALSE, !.buf = << >>]
       [] OTHER -> Queued(Operand("string", n))

\* process_digit_token: what strtold does not read to its end stays in the buffer.
IsNumeral(n) == Cardinality({i \in DOMAIN n : n[i] = "."}) <= 1
ProcessDigits(p) ==
  IF IsNumeral(p.buf)
    THEN [p EXCEPT !.queue = Append(@, Operand("number", p.buf)), !.buf = << >>]
    ELSE p

\* process_state_transition: what the state that is left has gathered.
Processed(p) ==
  CASE state = "CAPTURE" ->
         [p EXCEPT !.queue = Append(@, Operand("string", p.buf)), !.buf = << >>]
    [] state = "ALPHA" -> ProcessWord(p)
    [] state = "DIGIT" -> ProcessDigits(p)
    [] state = "LEFT" -> [p EXCEPT !.ops = <<Operator("LEFT")>> \o @]
    [] state = "RIGHT" -> ProcessRight(p)
    [] state = "COMMA" -> ProcessComma(p)
    [] state \in BinaryOps \cup {"UNARY"} -> ProcessOperator(p, state)
    [] OTHER -> p

\* The callbacks of these states process nothing when they are entered from themselves.
Lasting == {"START", "ALPHA", "DIGIT", "CAPTURE"}

Parser == [ops |-> ops, queue |-> queue, buf |-> buf, ok |-> TRUE]
Entered(s) == IF s = state /\ s \in Lasting THEN Parser ELSE Processed(Parser)

\* state_alpha and state_digit add what they read, but for spaces; state_capture_string
\* adds everything but the quote that opens it.
Adds(s, lex) ==
  \/ s \in {"ALPHA", "DIGIT"} /\ lex.class # "SPACE"
  \/ s = "CAPTURE" /\ state = "CAPTURE"

\* state_end: operators go to the queue, and left parentheses are dropped.
Flushed(p) ==
  [p EXCEPT !.ops = << >>, !.queue = @ \o SelectSeq(p.ops, LAMBDA item : item.kind # "LEFT")]

Take(p) == /\ ops' = p.ops /\ queue' = p.queue

-----------------------------------------------------------------------------
EndOfText == [class |-> "EOL", name |-> "end"]

Init ==
  /\ alphabet \in Alphabets
  /\ text = << >> /\ state = "START" /\ buf = << >> /\ ops = << >> /\ queue = << >>
  /\ status = "parsing"
  /\ pc = 0 /\ work = << >> /\ calls = << >> /\ result = {}

\* A callback reads the next token, and the state it leads to is entered.  state_digit
\* alone does not ask whether the state it comes from could be processed.
ReadLexeme(lex) ==
  LET s == Target(state, lex.class)
      p == Entered(s)
  IN /\ status = "parsing" /\ Len(text) < alphabet.max
     /\ text' = Append(text, lex)
     /\ IF s = "INVALID" \/ (~p.ok /\ s # "DIGIT")
          THEN status' = "failed" /\ UNCHANGED <<state, buf, ops, queue>>
          ELSE /\ state' = s
               /\ buf' = IF Adds(s, lex) THEN Append(p.buf, lex.name) ELSE p.buf
               /\ Take(p)
               /\ UNCHANGED status
     /\ UNCHANGED <<alphabet, runVars>>

\* A string is open, and the end of the text is one of its characters: the reader
\* goes on behind it.
ReadsOn == state = "CAPTURE"

ReadEnd ==
  LET s == Target(state, "EOL")
      p == Entered(s)
  IN /\ status = "parsing"
     /\ IF ReadsOn THEN status' = "overrun" /\ UNCHANGED <<state, buf, ops, queue>>
        ELSE IF s = "INVALID" THEN status' = "failed" /\ UNCHANGED <<state, buf, ops, queue>>
        ELSE /\ status' = IF p.ok THEN "running" ELSE "failed"
             /\ state' = "END" /\ buf' = p.buf
             /\ Take(Flushed(p))
     /\ UNCHANGED <<alphabet, text, runVars>>

-----------------------------------------------------------------------------
\* command_parser_execute_expression

Arity(item) ==
  CASE item.kind = "METHOD" -> Methods[item.name].arity
    [] item.kind = "UNARY" -> 1
    [] OTHER -> 2

\* The type of what an operator or a method returns; "none" is NULL (variant_add,
\* variant_subtract, a method without a value).
ResultType(item, args) ==
  CASE item.kind = "METHOD" -> Methods[item.name].type
    [] item.kind = "UNARY" -> "number"
    [] item.kind = "PLUS" -> IF args[1].type = "bool" /\ args[2].type # "string" THEN "none"
                             ELSE IF "string" \in {args[1].type, args[2].type} THEN "string"
                             ELSE "number"
    [] item.kind = "MINUS" -> IF args[1].type = "number" THEN "number" ELSE "none"
    [] OTHER -> "bool"

Applied(item, args) ==
  LET t == ResultType(item, args)
  IN IF t = "none" THEN {} ELSE {[type |-> t, op |-> item.name, args |-> args]}

Constant(item) == [type |-> item.kind, op |-> item.name, args |-> << >>]
IsOperand(item) == item.kind \in {"string", "number", "bool"}

\* The arguments are popped from the last to the first.
Arguments_Reversed(w, n) == SubSeq(w, 1, n)
Arguments(w, n) == Reverse(SubSeq(w, 1, n))

Pushed(value, w) == SetToSeq(value) \o w

Execute ==
  /\ status = "running" /\ pc < Len(queue)
  /\ LET item == queue[pc + 1]
         n == IF IsOperand(item) THEN 0 ELSE Arity(item)
         args == Arguments(work, n)
     IN IF IsOperand(item)
          THEN work' = <<Constant(item)>> \o work /\ UNCHANGED <<status, calls>>
        ELSE IF n > Len(work) \/ n > 4
          THEN status' = "done" /\ UNCHANGED <<work, calls>>
        ELSE /\ work' = Pushed(Applied(item, args), SubSeq(work, n + 1, Len(work)))
             /\ calls' = IF item.kind = "METHOD" THEN Append(calls, <<item.name, args>>)
                         ELSE calls
             /\ UNCHANGED status
  /\ pc' = pc + 1
  /\ UNCHANGED <<alphabet, parserVars, result>>

\* There is a result when exactly one value is left.
Left(w) == IF Len(w) = 1 THEN w ELSE << >>

Return ==
  /\ status = "running" /\ pc = Len(queue)
  /\ status' = "done" /\ result' = ToSet(Left(work))
  /\ UNCHANGED <<alphabet, parserVars, pc, work, calls>>

Next ==
  \/ \E lex \in alphabet.lexemes : ReadLexeme(lex)
  \/ ReadEnd
  \/ Execute
  \/ Return

Spec == Init /\ [][Next]_vars

-----------------------------------------------------------------------------
\* Where strings and parentheses are open in a text.

IsQuoted(s, i) == Cardinality({k \in 1 .. i - 1 : s[k].class = "QUOTE"}) % 2 = 1
ClassAt(s, i) == IF i \in DOMAIN s THEN s[i].class ELSE "EDGE"

Depth(s, i) ==
  Cardinality({k \in 1 .. i - 1 : s[k].class = "LEFT" /\ ~IsQuoted(s, k)})
    - Cardinality({k \in 1 .. i - 1 : s[k].class = "RIGHT" /\ ~IsQuoted(s, k)})

\* What compiles has no right parenthesis without its left one, no comma outside
\* parentheses but one right in front of a number, and no open string.
AcceptsOnlyClosed ==
  status \in {"running", "done"} =>
    /\ ~IsQuoted(text, Len(text) + 1)
    /\ \A i \in DOMAIN text : ~IsQuoted(text, i) =>
         /\ text[i].class = "RIGHT" => Depth(text, i) > 0
         /\ text[i].class = "COMMA" /\ ClassAt(text, i + 1) # "DIGIT" => Depth(text, i) > 0
=============================================================================
