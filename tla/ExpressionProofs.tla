-------------------------- MODULE ExpressionProofs --------------------------
(***************************************************************************)
(* Proofs about the expression compiler: what it accepts is closed.  The   *)
(* operator stack has as many left parentheses as are open in the text     *)
(* that was read, but for the one the current state has still to process;  *)
(* a string is being captured exactly when the quotes before are odd.      *)
(***************************************************************************)
EXTENDS Expressions, FiniteSetTheorems, SequenceTheorems, WellFoundedInduction, TLAPS

-----------------------------------------------------------------------------
\* The least of a set of numbers.
LEMMA LeastNat ==
  ASSUME NEW S \in SUBSET Nat, S # {}
  PROVE  Min(S) \in S /\ \A m \in S : Min(S) <= m
<1> DEFINE R == {ss \in Nat \X Nat : ss[1] < ss[2]}
<1>1. IsWellFoundedOn(R, Nat)
  BY NatLessThanWellFounded DEF OpToRel
<1>2. PICK x \in S : \A y \in S : ~(<<y, x>> \in R)
  <2> HIDE DEF R
  <2> QED
    BY <1>1, WFMin
<1>3. ASSUME NEW m \in S PROVE x <= m
  <2>1. <<m, x>> \in Nat \X Nat /\ <<m, x>>[1] = m /\ <<m, x>>[2] = x
    OBVIOUS
  <2>2. ~(m < x)
    BY <1>2, <2>1
  <2> QED
    BY <2>2
<1> QED
  BY <1>3 DEF Min

\* A set of numbers, moved along.
LEMMA MovedSet ==
  ASSUME NEW S \in SUBSET Int, IsFiniteSet(S), NEW d \in Int
  PROVE  IsFiniteSet({i + d : i \in S}) /\ Cardinality({i + d : i \in S}) = Cardinality(S)
<1> DEFINE T == {i + d : i \in S}
           f == [i \in S |-> i + d]
<1>1. f \in [S -> T]
  OBVIOUS
<1>2. \A i, j \in S : f[i] = f[j] => i = j
  OBVIOUS
<1>3. \A t \in T : \E i \in S : f[i] = t
  OBVIOUS
<1>4. f \in Bijection(S, T)
  BY <1>1, <1>2, <1>3 DEF Bijection, Injection, Surjection, IsInjective
<1>5. ExistsBijection(S, T)
  BY <1>4 DEF ExistsBijection
<1> QED
  BY <1>5, FS_Bijection

-----------------------------------------------------------------------------
\* The left parentheses of a list of items.
Open(list) == Cardinality(Lefts(list))

LEMMA OpenIs ==
  ASSUME NEW S, NEW list \in Seq(S)
  PROVE  /\ IsFiniteSet(Lefts(list)) /\ Open(list) \in Nat
         /\ Lefts(list) \subseteq 1 .. Len(list)
         /\ Open(list) = 0 <=> Lefts(list) = {}
<1>1. Lefts(list) \subseteq 1 .. Len(list) /\ Len(list) \in Nat
  BY DEF Lefts
<1>2. IsFiniteSet(Lefts(list))
  <2>1. IsFiniteSet(1 .. Len(list))
    BY <1>1, FS_Interval
  <2> QED
    BY <1>1, <2>1, FS_Subset
<1> QED
  BY <1>1, <1>2, FS_CardinalityType, FS_EmptySet DEF Open

\* An item in front.
LEMMA OpenFront ==
  ASSUME NEW S, NEW list \in Seq(S), NEW x \in S
  PROVE  /\ <<x>> \o list \in Seq(S)
         /\ Open(<<x>> \o list) = IF x.kind = "LEFT" THEN Open(list) + 1 ELSE Open(list)
<1> DEFINE longer == <<x>> \o list
           after == {i + 1 : i \in Lefts(list)}
<1>1. /\ longer \in Seq(S) /\ Len(longer) = Len(list) + 1 /\ Len(list) \in Nat
      /\ longer[1] = x /\ \A i \in 1 .. Len(list) : longer[i + 1] = list[i]
  <2>1. <<x>> \in Seq(S) /\ Len(<<x>>) = 1 /\ <<x>>[1] = x
    OBVIOUS
  <2>2. /\ longer \in Seq(S) /\ Len(longer) = 1 + Len(list)
        /\ \A i \in 1 .. 1 + Len(list) : longer[i] = IF i <= 1 THEN <<x>>[i] ELSE list[i - 1]
    BY <2>1, ConcatProperties
  <2> HIDE DEF longer
  <2> QED
    BY <2>1, <2>2
<1> HIDE DEF longer
<1>2. Lefts(longer) = IF x.kind = "LEFT" THEN after \cup {1} ELSE after
  <2>1. Lefts(list) = {i \in 1 .. Len(list) : list[i].kind = "LEFT"}
        /\ Lefts(longer) = {i \in 1 .. Len(list) + 1 : longer[i].kind = "LEFT"}
    BY <1>1 DEF Lefts
  <2>2. ASSUME NEW i \in 2 .. Len(list) + 1 PROVE i \in Lefts(longer) <=> i \in after
    <3>1. i - 1 \in 1 .. Len(list) /\ longer[i] = list[i - 1] /\ i = (i - 1) + 1
      BY <1>1
    <3>2. ASSUME NEW j \in Lefts(list), i = j + 1 PROVE j = i - 1
      BY <2>1, <3>2
    <3> QED
      BY <2>1, <3>1, <3>2
  <2>3. 1 \notin after /\ after \subseteq 2 .. Len(list) + 1
    BY <2>1
  <2>4. 1 \in Lefts(longer) <=> x.kind = "LEFT"
    BY <1>1, <2>1
  <2>5. \A i : i \in Lefts(longer) => i = 1 \/ i \in 2 .. Len(list) + 1
    BY <1>1, <2>1
  <2> HIDE DEF after
  <2>6. \A i : i \in after => i \in 2 .. Len(list) + 1
    BY <2>3
  <2>7. CASE x.kind = "LEFT"
    <3>1. \A i : i \in Lefts(longer) <=> i \in after \/ i = 1
      BY <2>2, <2>4, <2>5, <2>6, <2>7
    <3> QED
      BY <2>7, <3>1
  <2>8. CASE x.kind # "LEFT"
    <3>1. \A i : i \in Lefts(longer) <=> i \in after
      BY <2>2, <2>4, <2>5, <2>6, <2>8
    <3> QED
      BY <2>8, <3>1
  <2> QED
    BY <2>7, <2>8
<1>3. IsFiniteSet(Lefts(list)) /\ Lefts(list) \in SUBSET Int /\ Open(list) \in Nat /\ 1 \notin after
  <2>1. Lefts(list) \subseteq 1 .. Len(list)
    BY OpenIs
  <2> QED
    BY <1>1, <2>1, OpenIs
<1>4. IsFiniteSet(after) /\ Cardinality(after) = Open(list)
  <2>1. 1 \in Int
    OBVIOUS
  <2> HIDE DEF after
  <2> QED
    BY <1>3, <2>1, MovedSet DEF Open, after
<1> HIDE DEF after
<1>5. Cardinality(after \cup {1}) = Open(list) + 1
  BY <1>3, <1>4, FS_AddElement
<1> QED
  BY <1>1, <1>2, <1>4, <1>5 DEF Open, longer

\* Items before a left parenthesis go from the front.
LEMMA OpenBehind ==
  ASSUME NEW S, NEW list \in Seq(S), NEW n \in 0 .. Len(list)
  PROVE  LET rest == SubSeq(list, n + 1, Len(list))
         IN /\ rest \in Seq(S) /\ Len(rest) = Len(list) - n
            /\ \A i \in 1 .. Len(rest) : rest[i] = list[n + i]
            /\ (\A i \in Lefts(list) : i > n) => Open(rest) = Open(list)
<1> DEFINE rest == SubSeq(list, n + 1, Len(list))
<1>1. Len(list) \in Nat /\ n \in Nat /\ n <= Len(list) /\ \A i \in n + 1 .. Len(list) : list[i] \in S
  OBVIOUS
<1>2. /\ rest \in Seq(S) /\ Len(rest) = Len(list) - n
      /\ \A i \in 1 .. Len(list) - n : rest[i] = list[n + i]
  <2>1. n + 1 \in Int /\ Len(list) \in Int
    BY <1>1
  <2>2. /\ rest \in Seq(S) /\ Len(rest) = IF n + 1 <= Len(list) THEN Len(list) - (n + 1) + 1 ELSE 0
        /\ \A i \in 1 .. Len(list) - (n + 1) + 1 : rest[i] = list[(n + 1) + i - 1]
    BY <1>1, <2>1, SubSeqProperties
  <2>3. ASSUME NEW i \in 1 .. Len(list) - n PROVE rest[i] = list[n + i]
    <3>1. i \in 1 .. Len(list) - (n + 1) + 1 /\ (n + 1) + i - 1 = n + i
      BY <1>1
    <3> HIDE DEF rest
    <3> QED
      BY <2>2, <3>1
  <2> HIDE DEF rest
  <2> QED
    BY <1>1, <2>2, <2>3
<1>3. ASSUME \A i \in Lefts(list) : i > n PROVE Open(rest) = Open(list)
  <2> DEFINE moved == {i + (-n) : i \in Lefts(list)}
  <2> HIDE DEF rest
  <2>1. Lefts(list) = {i \in 1 .. Len(list) : list[i].kind = "LEFT"}
        /\ Lefts(rest) = {i \in 1 .. Len(list) - n : rest[i].kind = "LEFT"}
    BY <1>2 DEF Lefts
  <2>2. Lefts(rest) = moved
    <3>1. ASSUME NEW i \in Lefts(rest) PROVE i \in moved
      <4>1. i \in 1 .. Len(list) - n /\ n + i \in 1 .. Len(list) /\ rest[i] = list[n + i]
        BY <1>1, <1>2, <2>1
      <4>2. n + i \in Lefts(list) /\ i = (n + i) + (-n)
        BY <1>1, <2>1, <4>1
      <4> QED
        BY <4>2
    <3>2. ASSUME NEW i \in Lefts(list) PROVE i + (-n) \in Lefts(rest)
      <4>1. i \in 1 .. Len(list) /\ i > n
        BY <1>3, <2>1
      <4>2. i + (-n) \in 1 .. Len(list) - n /\ n + (i + (-n)) = i
        BY <1>1, <4>1
      <4> QED
        BY <1>2, <2>1, <4>2
    <3> QED
      BY <3>1, <3>2
  <2>3. Lefts(list) \in SUBSET Int /\ -n \in Int /\ IsFiniteSet(Lefts(list))
    <3>1. IsFiniteSet(Lefts(list)) /\ Lefts(list) \subseteq 1 .. Len(list)
      BY OpenIs
    <3> QED
      BY <1>1, <3>1
  <2> HIDE DEF moved
  <2>4. Cardinality(moved) = Cardinality(Lefts(list))
    BY <2>3, MovedSet DEF moved
  <2> QED
    BY <2>2, <2>4 DEF Open
<1> QED
  BY <1>2, <1>3

\* How far the items before a stop go.
LEMMA LeadingIs ==
  ASSUME NEW S, NEW list \in Seq(S), NEW stops \in SUBSET (1 .. Len(list))
  PROVE  /\ Leading(list, stops) \in 0 .. Len(list)
         /\ \A i \in stops : i > Leading(list, stops)
         /\ Leading(list, stops) < Len(list) => Leading(list, stops) + 1 \in stops
         /\ stops = {} <=> Leading(list, stops) = Len(list)
<1>1. Len(list) \in Nat
  OBVIOUS
<1>2. CASE stops = {}
  BY <1>1, <1>2 DEF Leading
<1>3. CASE stops # {}
  <2>1. stops \in SUBSET Nat
    BY <1>1
  <2>2. Min(stops) \in stops /\ \A i \in stops : Min(stops) <= i
    BY <1>3, <2>1, LeastNat
  <2>3. Min(stops) \in 1 .. Len(list)
    BY <2>2
  <2>4. Leading(list, stops) = Min(stops) - 1
    BY <1>3 DEF Leading
  <2> QED
    BY <1>1, <1>3, <2>1, <2>2, <2>3, <2>4
<1> QED
  BY <1>2, <1>3

-----------------------------------------------------------------------------
\* What processing a state does to the left parentheses on the stack.
States == BinaryOps \cup {"START", "ALPHA", "DIGIT", "LEFT", "RIGHT", "COMMA", "UNARY", "CAPTURE"}

Effect(p) ==
  /\ \E S : p.ops \in Seq(S)
  /\ state = "LEFT" => p.ok /\ Open(p.ops) = Open(ops) + 1
  /\ state = "RIGHT" /\ p.ok => Open(ops) > 0 /\ Open(p.ops) = Open(ops) - 1
  /\ state = "COMMA" /\ p.ok => Open(ops) > 0
  /\ state \notin {"LEFT", "RIGHT"} => Open(p.ops) = Open(ops)

LEMMA ParserIs ==
  /\ Parser.ops = ops /\ Parser.ok
  /\ \A n : /\ Moved(Parser, n).ops = SubSeq(ops, n + 1, Len(ops)) /\ Moved(Parser, n).ok
            /\ DOMAIN Moved(Parser, n) = {"ops", "queue", "buf", "ok"}
BY DEF Parser, Moved

LEMMA MovedOpen ==
  ASSUME NEW S, ops \in Seq(S), NEW stops \in SUBSET (1 .. Len(ops)), Lefts(ops) \subseteq stops
  PROVE  LET n == Leading(ops, stops)
             q == SubSeq(ops, n + 1, Len(ops))
         IN /\ q \in Seq(S) /\ Len(q) = Len(ops) - n /\ Open(q) = Open(ops)
            /\ n < Len(ops) => n + 1 \in stops /\ q[1] = ops[n + 1]
            /\ stops = {} => q = << >>
            /\ stops = {} <=> n = Len(ops)
            /\ n \in 0 .. Len(ops)
<1> DEFINE n == Leading(ops, stops)
           q == SubSeq(ops, n + 1, Len(ops))
<1>1. /\ n \in 0 .. Len(ops) /\ \A i \in stops : i > n
      /\ n < Len(ops) => n + 1 \in stops
      /\ stops = {} <=> n = Len(ops)
  BY LeadingIs
<1> HIDE DEF n
<1>2. /\ q \in Seq(S) /\ Len(q) = Len(ops) - n
      /\ \A i \in 1 .. Len(q) : q[i] = ops[n + i]
      /\ Open(q) = Open(ops)
  BY <1>1, OpenBehind
<1> HIDE DEF q
<1>3. Len(ops) \in Nat
  OBVIOUS
<1>4. n < Len(ops) => q[1] = ops[n + 1]
  BY <1>1, <1>2, <1>3
<1>5. stops = {} => q = << >>
  BY <1>1, <1>2, <1>3
<1> QED
  BY <1>1, <1>2, <1>4, <1>5 DEF n, q

LEMMA OperatorEffect ==
  ASSUME NEW S, ops \in Seq(S), NEW kind, kind # "LEFT"
  PROVE  LET p == ProcessOperator(Parser, kind)
         IN (\E T : p.ops \in Seq(T)) /\ Open(p.ops) = Open(ops)
<1> DEFINE stays == {i \in DOMAIN ops : Level(kind) < Level(ops[i].kind)}
           stops == Lefts(ops) \cup stays
           n == Leading(ops, stops)
           q == SubSeq(ops, n + 1, Len(ops))
           p == ProcessOperator(Parser, kind)
           T == S \cup {Operator(kind)}
<1>1. stops \in SUBSET (1 .. Len(ops)) /\ Lefts(ops) \subseteq stops
  <2>1. Lefts(ops) \subseteq 1 .. Len(ops)
    BY OpenIs
  <2>2. stays \subseteq 1 .. Len(ops)
    OBVIOUS
  <2> HIDE DEF stays
  <2> QED
    BY <2>1, <2>2
<1>2. p.ops = <<Operator(kind)>> \o q
  BY ParserIs DEF ProcessOperator, Parser, Moved
<1> HIDE DEF stops, p
<1>3. q \in Seq(S) /\ Open(q) = Open(ops)
  BY <1>1, MovedOpen
<1> HIDE DEF n, q
<1>4. q \in Seq(T) /\ Operator(kind) \in T
  BY <1>3, SeqMonotonic
<1>5. Operator(kind).kind # "LEFT"
  BY DEF Operator, Item
<1>6. p.ops \in Seq(T) /\ Open(p.ops) = Open(ops)
  <2> HIDE DEF T
  <2> QED
    BY <1>2, <1>3, <1>4, <1>5, OpenFront
<1> QED
  BY <1>6 DEF p

LEMMA CommaEffect ==
  ASSUME NEW S, ops \in Seq(S)
  PROVE  LET p == ProcessComma(Parser)
         IN p.ops \in Seq(S) /\ Open(p.ops) = Open(ops) /\ (p.ok => Open(ops) > 0)
<1> DEFINE n == Leading(ops, Lefts(ops))
           q == SubSeq(ops, n + 1, Len(ops))
           p == ProcessComma(Parser)
<1>1. Lefts(ops) \in SUBSET (1 .. Len(ops))
  BY OpenIs
<1>2. p.ops = q /\ (p.ok <=> n < Len(ops))
  BY ParserIs DEF ProcessComma, Parser, Moved
<1>3. /\ q \in Seq(S) /\ Open(q) = Open(ops)
      /\ n \in 0 .. Len(ops) /\ (Lefts(ops) = {} <=> n = Len(ops))
  BY <1>1, MovedOpen
<1> HIDE DEF n, q, p
<1>4. p.ok => Open(ops) > 0
  <2>1. Open(ops) \in Nat /\ (Open(ops) = 0 <=> Lefts(ops) = {})
    BY OpenIs
  <2>2. Len(ops) \in Nat
    OBVIOUS
  <2> QED
    BY <1>2, <1>3, <2>1, <2>2
<1> QED
  BY <1>2, <1>3, <1>4 DEF p

LEMMA RightEffect ==
  ASSUME NEW S, ops \in Seq(S), ProcessRight(Parser).ok
  PROVE  LET p == ProcessRight(Parser)
         IN p.ops \in Seq(S) /\ Open(ops) > 0 /\ Open(p.ops) = Open(ops) - 1
<1> DEFINE n == Leading(ops, Lefts(ops))
           q == SubSeq(ops, n + 1, Len(ops))
           rest == Tail(q)
           p == ProcessRight(Parser)
<1>1. Lefts(ops) \in SUBSET (1 .. Len(ops))
  BY OpenIs
<1>2. q # << >> /\ p.ops = IF rest # << >> /\ rest[1].kind = "METHOD" THEN SubSeq(rest, 2, Len(rest)) ELSE rest
  <2> DEFINE m == Moved(Parser, n)
             r == [m EXCEPT !.ops = Tail(@)]
  <2>1. m.ops = q /\ DOMAIN m = {"ops", "queue", "buf", "ok"}
    BY ParserIs
  <2>2. ProcessRight(Parser) = IF m.ops = << >> THEN [m EXCEPT !.ok = FALSE]
                               ELSE IF r.ops # << >> /\ r.ops[1].kind = "METHOD" THEN Moved(r, 1)
                               ELSE r
    BY ParserIs DEF ProcessRight
  <2> HIDE DEF m, q
  <2>3. r.ops = rest /\ Moved(r, 1).ops = SubSeq(rest, 2, Len(rest))
    BY <2>1 DEF Moved
  <2>4. m.ops = << >> => ~ProcessRight(Parser).ok
    BY <2>1, <2>2
  <2>5. m.ops # << >>
    BY <2>4
  <2> HIDE DEF r
  <2> QED
    BY <2>1, <2>2, <2>3, <2>5
<1>3. /\ q \in Seq(S) /\ Open(q) = Open(ops) /\ Len(q) = Len(ops) - n
      /\ n \in 0 .. Len(ops) /\ (Lefts(ops) = {} => q = << >>)
      /\ n < Len(ops) => n + 1 \in Lefts(ops) /\ q[1] = ops[n + 1]
  BY <1>1, MovedOpen
<1> HIDE DEF n, q, p
<1>4. q[1].kind = "LEFT" /\ Len(q) \in Nat \ {0} /\ Lefts(ops) # {}
  <2>1. Len(q) \in Nat /\ Len(q) # 0 /\ Len(ops) \in Nat
    BY <1>2, <1>3
  <2>2. n < Len(ops)
    BY <1>3, <2>1
  <2> QED
    BY <1>2, <1>3, <2>1, <2>2 DEF Lefts
<1>5. rest \in Seq(S) /\ Open(rest) = Open(ops) - 1 /\ q[1] \in S /\ q = <<q[1]>> \o rest
  <2>1. q[1] \in S /\ rest \in Seq(S) /\ q = <<q[1]>> \o rest
    BY <1>3, <1>4
  <2>2. Open(q) = Open(rest) + 1
    BY <1>4, <2>1, OpenFront
  <2>3. Open(rest) \in Nat
    BY <2>1, OpenIs
  <2> QED
    BY <1>3, <2>1, <2>2, <2>3
<1>6. Open(ops) \in Nat /\ Open(ops) # 0
  BY <1>4, OpenIs
<1> HIDE DEF rest
<1>7. ASSUME rest # << >>, rest[1].kind = "METHOD"
      PROVE  SubSeq(rest, 2, Len(rest)) \in Seq(S) /\ Open(SubSeq(rest, 2, Len(rest))) = Open(rest)
  <2>1. 1 \in 0 .. Len(rest) /\ 1 + 1 = 2
    BY <1>5, <1>7
  <2>2. \A i \in Lefts(rest) : i > 1
    BY <1>5, <1>7 DEF Lefts
  <2> QED
    BY <1>5, <2>1, <2>2, OpenBehind
<1>8. p.ops \in Seq(S) /\ Open(p.ops) = Open(ops) - 1
  BY <1>2, <1>5, <1>7
<1> QED
  BY <1>6, <1>8 DEF p

LEMMA WordEffect ==
  ASSUME NEW S, ops \in Seq(S)
  PROVE  LET p == ProcessWord(Parser)
         IN (\E T : p.ops \in Seq(T)) /\ Open(p.ops) = Open(ops)
<1> DEFINE p == ProcessWord(Parser)
           x == Item("METHOD", buf)
           T == S \cup {x}
<1>1. p.ops = ops \/ p.ops = <<x>> \o ops
  BY ParserIs DEF ProcessWord, Parser
<1>2. ops \in Seq(T) /\ x \in T /\ x.kind # "LEFT"
  BY SeqMonotonic DEF Item
<1> HIDE DEF p, x, T
<1>3. <<x>> \o ops \in Seq(T) /\ Open(<<x>> \o ops) = Open(ops)
  BY <1>2, OpenFront
<1>4. p.ops \in Seq(T) /\ Open(p.ops) = Open(ops)
  BY <1>1, <1>2, <1>3
<1> QED
  BY <1>4 DEF p

LEMMA ProcessedEffect ==
  ASSUME NEW S, ops \in Seq(S), state \in States
  PROVE  Effect(Processed(Parser))
<1> DEFINE p == Processed(Parser)
<1>0. Open(ops) \in Nat
  BY OpenIs
<1>1. CASE state = "LEFT"
  <2> DEFINE x == Operator("LEFT")
             T == S \cup {x}
  <2>1. p.ops = <<x>> \o ops /\ p.ok
    BY <1>1, ParserIs DEF Processed, Parser, BinaryOps
  <2>2. ops \in Seq(T) /\ x \in T /\ x.kind = "LEFT"
    BY SeqMonotonic DEF Operator, Item
  <2> HIDE DEF p, x, T
  <2>3. p.ops \in Seq(T) /\ Open(p.ops) = Open(ops) + 1
    BY <2>1, <2>2, OpenFront
  <2>4. Effect(p)
    BY <1>1, <2>1, <2>3 DEF Effect
  <2> QED
    BY <2>4 DEF p
<1>2. CASE state = "RIGHT"
  <2>1. p = ProcessRight(Parser)
    BY <1>2 DEF Processed, BinaryOps
  <2>2. p.ok => p.ops \in Seq(S) /\ Open(ops) > 0 /\ Open(p.ops) = Open(ops) - 1
    BY <2>1, RightEffect
  <2>3. ~p.ok => \E T : p.ops \in Seq(T)
    <3> DEFINE n == Leading(ops, Lefts(ops))
               q == SubSeq(ops, n + 1, Len(ops))
    <3>1. Lefts(ops) \in SUBSET (1 .. Len(ops))
      BY OpenIs
    <3>2. q \in Seq(S)
      BY <3>1, MovedOpen
    <3>3. Moved(Parser, n).ops = q /\ Moved(Parser, n).ok /\ DOMAIN Moved(Parser, n) = {"ops", "queue", "buf", "ok"}
      BY ParserIs
    <3> DEFINE m == Moved(Parser, n)
               r == [m EXCEPT !.ops = Tail(@)]
    <3>a. ProcessRight(Parser) = IF m.ops = << >> THEN [m EXCEPT !.ok = FALSE]
                                 ELSE IF r.ops # << >> /\ r.ops[1].kind = "METHOD" THEN Moved(r, 1)
                                 ELSE r
      BY ParserIs DEF ProcessRight
    <3>4. p = IF m.ops = << >> THEN [m EXCEPT !.ok = FALSE]
              ELSE IF r.ops # << >> /\ r.ops[1].kind = "METHOD" THEN Moved(r, 1)
              ELSE r
      <4> HIDE DEF m, r, p
      <4> QED
        BY <2>1, <3>a
    <3>5. m.ops = q /\ m.ok
      BY <3>3
    <3> HIDE DEF m, q, p
    <3>6. r.ok /\ Moved(r, 1).ok
      BY <3>3, <3>5 DEF Moved, m
    <3>7. [m EXCEPT !.ok = FALSE].ops = q
      BY <3>3, <3>5 DEF m
    <3> HIDE DEF r
    <3> QED
      BY <3>2, <3>4, <3>5, <3>6, <3>7
  <2> HIDE DEF p
  <2>4. Effect(p)
    BY <1>2, <2>2, <2>3 DEF Effect
  <2> QED
    BY <2>4 DEF p
<1>3. CASE state = "COMMA"
  <2>1. p = ProcessComma(Parser)
    BY <1>3 DEF Processed, BinaryOps
  <2>2. p.ops \in Seq(S) /\ Open(p.ops) = Open(ops) /\ (p.ok => Open(ops) > 0)
    BY <2>1, CommaEffect
  <2> HIDE DEF p
  <2>3. Effect(p)
    BY <1>3, <2>2 DEF Effect
  <2> QED
    BY <2>3 DEF p
<1>4. CASE state \notin {"LEFT", "RIGHT", "COMMA"}
  <2>1. (\E T : p.ops \in Seq(T)) /\ Open(p.ops) = Open(ops) => Effect(p)
    <3> HIDE DEF p
    <3> QED
      BY <1>4 DEF Effect
  <2>2. CASE state = "ALPHA"
    <3>1. p = ProcessWord(Parser)
      BY <2>2 DEF Processed, BinaryOps
    <3> QED
      BY <2>1, <3>1, WordEffect
  <2>3. CASE state \in BinaryOps \cup {"UNARY"}
    <3>1. p = ProcessOperator(Parser, state)
      BY <2>3 DEF Processed, BinaryOps
    <3> QED
      BY <1>4, <2>1, <3>1, OperatorEffect
  <2>4. CASE state \in {"CAPTURE", "DIGIT", "START"}
    <3>1. p.ops = ops
      BY <2>4 DEF Processed, ProcessDigits, Parser, BinaryOps
    <3> HIDE DEF p
    <3>2. (\E T : p.ops \in Seq(T)) /\ Open(p.ops) = Open(ops)
      BY <3>1
    <3> QED
      BY <2>1, <3>2 DEF p
  <2> QED
    BY <1>4, <2>2, <2>3, <2>4 DEF States
<1> QED
  BY <1>1, <1>2, <1>3, <1>4

LEMMA EnteredEffect ==
  ASSUME NEW S, ops \in Seq(S), state \in States, NEW s
  PROVE  Effect(Entered(s))
<1>1. CASE s = state /\ s \in Lasting
  <2>1. Entered(s) = Parser
    BY <1>1 DEF Entered
  <2>2. Effect(Parser)
    BY <1>1, ParserIs DEF Effect, Lasting
  <2> QED
    BY <2>1, <2>2
<1>2. CASE ~(s = state /\ s \in Lasting)
  BY <1>2, ProcessedEffect DEF Entered
<1> QED
  BY <1>1, <1>2

-----------------------------------------------------------------------------
\* Quotes and parentheses of a text that goes on.
Quotes(s, i) == {k \in 1 .. i - 1 : s[k].class = "QUOTE"}
Unquoted(s, i, class) == {k \in 1 .. i - 1 : s[k].class = class /\ ~IsQuoted(s, k)}

LEMMA Counted ==
  ASSUME NEW s, NEW i \in Nat, NEW class
  PROVE  /\ IsFiniteSet(Quotes(s, i)) /\ Cardinality(Quotes(s, i)) \in Nat
         /\ IsFiniteSet(Unquoted(s, i, class)) /\ Cardinality(Unquoted(s, i, class)) \in Nat
<1>1. IsFiniteSet(1 .. i - 1)
  BY FS_Interval
<1>2. Quotes(s, i) \in SUBSET (1 .. i - 1) /\ Unquoted(s, i, class) \in SUBSET (1 .. i - 1)
  BY DEF Quotes, Unquoted
<1> QED
  BY <1>1, <1>2, FS_Subset, FS_CardinalityType

LEMMA NextQuoted ==
  ASSUME NEW s, NEW i \in Nat \ {0}
  PROVE  IsQuoted(s, i + 1) <=> (IsQuoted(s, i) <=> s[i].class # "QUOTE")
<1> DEFINE c == Cardinality(Quotes(s, i))
           d == Cardinality(Quotes(s, i + 1))
<1>1. (IsQuoted(s, i) <=> c % 2 = 1) /\ (IsQuoted(s, i + 1) <=> d % 2 = 1)
  BY DEF IsQuoted, Quotes
<1>2. c \in Nat /\ IsFiniteSet(Quotes(s, i)) /\ i \notin Quotes(s, i)
  BY Counted DEF Quotes
<1>3. Quotes(s, i + 1) = IF s[i].class = "QUOTE" THEN Quotes(s, i) \cup {i} ELSE Quotes(s, i)
  <2>1. (i + 1) - 1 = i /\ 1 .. i = (1 .. i - 1) \cup {i}
    OBVIOUS
  <2> QED
    BY <2>1 DEF Quotes
<1>4. d = IF s[i].class = "QUOTE" THEN c + 1 ELSE c
  BY <1>2, <1>3, FS_AddElement
<1> HIDE DEF c, d
<1>5. (c + 1) % 2 = 1 <=> c % 2 # 1
  BY <1>2
<1> QED
  BY <1>1, <1>4, <1>5

LEMMA NextDepth ==
  ASSUME NEW s, NEW i \in Nat \ {0}
  PROVE  /\ Depth(s, i) \in Int
         /\ Depth(s, i + 1) = IF IsQuoted(s, i) THEN Depth(s, i)
                              ELSE IF s[i].class = "LEFT" THEN Depth(s, i) + 1
                              ELSE IF s[i].class = "RIGHT" THEN Depth(s, i) - 1
                              ELSE Depth(s, i)
<1> DEFINE U(j, class) == Unquoted(s, j, class)
<1>1. \A j : Depth(s, j) = Cardinality(U(j, "LEFT")) - Cardinality(U(j, "RIGHT"))
  BY DEF Depth, Unquoted
<1>2. ASSUME NEW class
      PROVE  /\ Cardinality(U(i, class)) \in Nat
             /\ Cardinality(U(i + 1, class)) =
                  IF s[i].class = class /\ ~IsQuoted(s, i) THEN Cardinality(U(i, class)) + 1
                  ELSE Cardinality(U(i, class))
  <2>1. IsFiniteSet(U(i, class)) /\ Cardinality(U(i, class)) \in Nat /\ i \notin U(i, class)
    <3>1. i \in Nat /\ i \notin 1 .. i - 1
      OBVIOUS
    <3>2. i \notin U(i, class)
      BY <3>1 DEF Unquoted
    <3> QED
      BY <3>1, <3>2, Counted
  <2>2. U(i + 1, class) = IF s[i].class = class /\ ~IsQuoted(s, i) THEN U(i, class) \cup {i} ELSE U(i, class)
    <3>1. (i + 1) - 1 = i /\ 1 .. i = (1 .. i - 1) \cup {i}
      OBVIOUS
    <3> QED
      BY <3>1 DEF Unquoted
  <2> HIDE DEF U
  <2> QED
    BY <2>1, <2>2, FS_AddElement
<1> HIDE DEF U
<1> QED
  BY <1>1, <1>2

\* What was read before stays as it was.
LEMMA SameBefore ==
  ASSUME NEW S, NEW s \in Seq(S), NEW lex, NEW i \in 0 .. Len(s) + 1
  PROVE  IsQuoted(Append(s, lex), i) <=> IsQuoted(s, i)
<1>1. \A k \in 1 .. i - 1 : k \in 1 .. Len(s) /\ Append(s, lex)[k] = s[k]
  OBVIOUS
<1>2. {k \in 1 .. i - 1 : Append(s, lex)[k].class = "QUOTE"} = {k \in 1 .. i - 1 : s[k].class = "QUOTE"}
  BY <1>1
<1> QED
  BY <1>2 DEF IsQuoted

LEMMA SameDepth ==
  ASSUME NEW S, NEW s \in Seq(S), NEW lex, NEW i \in 0 .. Len(s) + 1
  PROVE  Depth(Append(s, lex), i) = Depth(s, i)
<1>1. \A k \in 1 .. i - 1 :
        k \in 1 .. Len(s) /\ Append(s, lex)[k] = s[k] /\ (IsQuoted(Append(s, lex), k) <=> IsQuoted(s, k))
  <2>1. ASSUME NEW k \in 1 .. i - 1 PROVE k \in 1 .. Len(s) /\ k \in 0 .. Len(s) + 1
    OBVIOUS
  <2> QED
    BY <2>1, SameBefore
<1>2. \A class : {k \in 1 .. i - 1 : Append(s, lex)[k].class = class /\ ~IsQuoted(Append(s, lex), k)}
                 = {k \in 1 .. i - 1 : s[k].class = class /\ ~IsQuoted(s, k)}
  BY <1>1
<1> QED
  BY <1>2 DEF Depth

-----------------------------------------------------------------------------
\* While a text is read.  What the state has still to process is the last lexeme.
Pending(st) == IF st = "LEFT" THEN 1 ELSE IF st = "RIGHT" THEN -1 ELSE 0

ClosedAt(s, st, i) ==
  ~IsQuoted(s, i) =>
    /\ s[i].class = "RIGHT" => Depth(s, i) > 0 \/ (i = Len(s) /\ st = "RIGHT")
    /\ s[i].class = "COMMA" /\ ClassAt(s, i + 1) # "DIGIT" =>
         Depth(s, i) > 0 \/ (i = Len(s) /\ st = "COMMA")

Lexemes == UNION {a.lexemes : a \in Alphabets}

Reading ==
  /\ state \in States /\ ops \in Seq(ToSet(ops))
  /\ state = "CAPTURE" <=> IsQuoted(text, Len(text) + 1)
  /\ Depth(text, Len(text) + 1) = Open(ops) + Pending(state)
  /\ state \in {"RIGHT", "COMMA"} =>
       text # << >> /\ text[Len(text)].class = state /\ ~IsQuoted(text, Len(text))
  /\ \A i \in 1 .. Len(text) : ClosedAt(text, state, i)

ParseInv ==
  /\ alphabet \in Alphabets
  /\ text \in Seq(Lexemes)
  /\ AcceptsOnlyClosed
  /\ status = "parsing" => Reading

LEMMA OfItself == ASSUME NEW S, NEW list \in Seq(S) PROVE list \in Seq(ToSet(list))
<1>1. list \in [1 .. Len(list) -> ToSet(list)] /\ Len(list) \in Nat
  <2>1. \A i \in 1 .. Len(list) : list[i] \in ToSet(list)
    BY DEF ToSet
  <2> QED
    BY <2>1
<1> QED
  BY <1>1, SeqDef

LEMMA ParseInit == Init => ParseInv
<1> SUFFICES ASSUME Init PROVE ParseInv
  OBVIOUS
<1>1. text = << >> /\ ops = << >> /\ state = "START" /\ status = "parsing" /\ alphabet \in Alphabets
  BY DEF Init
<1>2. Len(<< >>) = 0 /\ << >> \in Seq(Lexemes) /\ << >> \in Seq(ToSet(<< >>))
  BY EmptySeq
<1>3. ~IsQuoted(<< >>, 0 + 1)
  <2>1. {k \in 1 .. 0 + 1 - 1 : << >>[k].class = "QUOTE"} = {}
    OBVIOUS
  <2> QED
    BY <2>1, FS_EmptySet DEF IsQuoted
<1>4. Depth(<< >>, 0 + 1) = 0
  <2>1. \A class : {k \in 1 .. 0 + 1 - 1 : << >>[k].class = class /\ ~IsQuoted(<< >>, k)} = {}
    OBVIOUS
  <2> QED
    BY <2>1, FS_EmptySet DEF Depth
<1>5. Open(<< >>) = 0
  <2>1. Lefts(<< >>) = {}
    BY <1>2 DEF Lefts
  <2> QED
    BY <2>1, FS_EmptySet DEF Open
<1>6. AcceptsOnlyClosed
  BY <1>1 DEF AcceptsOnlyClosed
<1> QED
  BY <1>1, <1>2, <1>3, <1>4, <1>5, <1>6 DEF ParseInv, Reading, Pending, States

\* The states a transition leads to.
LEMMA TargetIs ==
  ASSUME NEW s \in States, NEW c \in Classes \ {"EOL"}
  PROVE  LET t == Target(s, c)
         IN t # "INVALID" =>
              /\ t \in States
              /\ t = "CAPTURE" <=> (s = "CAPTURE" <=> c # "QUOTE")
              /\ t \in {"LEFT", "RIGHT", "COMMA"} => c = t /\ s # "CAPTURE"
              /\ c \in {"LEFT", "RIGHT", "COMMA"} /\ s # "CAPTURE" => t = c
              /\ s \in {"RIGHT", "COMMA"} /\ t = "DIGIT" => c = "DIGIT" /\ s = "COMMA"
<1> QED
  BY DEF Target, Accepts, States, Classes, BinaryOps

\* A parenthesis or a comma that could be processed had a left one before it.
LEMMA ProcessedIsInside ==
  ASSUME text \in Seq(Lexemes), Reading, state \in {"RIGHT", "COMMA"}, NEW p, Effect(p), p.ok
  PROVE  Depth(text, Len(text)) > 0
<1> DEFINE n == Len(text)
<1>1. n \in Nat \ {0} /\ text[n].class = state /\ ~IsQuoted(text, n)
  BY EmptySeq DEF Reading
<1>2. Open(ops) > 0 /\ Open(ops) \in Nat
  BY OpenIs DEF Effect, Reading
<1>3. Depth(text, n + 1) = Open(ops) + Pending(state)
  BY DEF Reading
<1> HIDE DEF n
<1>4. /\ Depth(text, n) \in Int
      /\ Depth(text, n + 1) = IF state = "RIGHT" THEN Depth(text, n) - 1 ELSE Depth(text, n)
  BY <1>1, NextDepth
<1>5. Depth(text, n) = Open(ops)
  BY <1>2, <1>3, <1>4 DEF Pending
<1> QED
  BY <1>2, <1>5 DEF n

LEMMA ReadKeepsReading ==
  ASSUME text \in Seq(Lexemes), Reading, NEW lex \in Lexemes, lex.class \in Classes \ {"EOL"},
         Target(state, lex.class) # "INVALID",
         Entered(Target(state, lex.class)).ok \/ Target(state, lex.class) = "DIGIT",
         state' = Target(state, lex.class), text' = Append(text, lex),
         ops' = Entered(Target(state, lex.class)).ops
  PROVE  Reading'
<1> DEFINE n == Len(text)
           c == lex.class
           t == Target(state, c)
           p == Entered(t)
           next == Append(text, lex)
<1>1. /\ t \in States
      /\ t = "CAPTURE" <=> (state = "CAPTURE" <=> c # "QUOTE")
      /\ t \in {"LEFT", "RIGHT", "COMMA"} => c = t /\ state # "CAPTURE"
      /\ c \in {"LEFT", "RIGHT", "COMMA"} /\ state # "CAPTURE" => t = c
      /\ state \in {"RIGHT", "COMMA"} /\ t = "DIGIT" => c = "DIGIT" /\ state = "COMMA"
  BY TargetIs DEF Reading
<1>2. Effect(p)
  BY EnteredEffect DEF Reading
<1>3. p.ok \/ t = "DIGIT"
  OBVIOUS
<1>4. n \in Nat /\ Len(next) = n + 1 /\ next[n + 1] = lex /\ next # << >>
      /\ next \in Seq(Lexemes) /\ \A i \in 1 .. n : next[i] = text[i]
  BY EmptySeq
<1>5. state' = t /\ text' = next /\ ops' = p.ops
  OBVIOUS
<1>6. \A i \in 0 .. n + 1 : (IsQuoted(next, i) <=> IsQuoted(text, i)) /\ Depth(next, i) = Depth(text, i)
  BY SameBefore, SameDepth
<1>7. Open(ops) \in Nat
  BY OpenIs DEF Reading
<1> HIDE DEF c, t, p, next
<1>8. (IsQuoted(next, n + 1) <=> state = "CAPTURE") /\ Depth(next, n + 1) = Open(ops) + Pending(state)
  BY <1>4, <1>6 DEF Reading
<1>a. ops' \in Seq(ToSet(ops'))
  BY <1>2, <1>5, OfItself DEF Effect
<1>b. t = "CAPTURE" <=> IsQuoted(next, n + 2)
  <2>1. IsQuoted(next, (n + 1) + 1) <=> (IsQuoted(next, n + 1) <=> c # "QUOTE")
    BY <1>4, NextQuoted DEF c
  <2>2. (n + 1) + 1 = n + 2
    BY <1>4
  <2> QED
    BY <1>1, <1>8, <2>1, <2>2
<1>c. Depth(next, n + 2) = Open(p.ops) + Pending(t)
  <2>1. Depth(next, (n + 1) + 1) = IF IsQuoted(next, n + 1) THEN Depth(next, n + 1)
                                   ELSE IF c = "LEFT" THEN Depth(next, n + 1) + 1
                                   ELSE IF c = "RIGHT" THEN Depth(next, n + 1) - 1
                                   ELSE Depth(next, n + 1)
    <3>1. n + 1 \in Nat \ {0} /\ next[n + 1].class = c
      BY <1>4 DEF c
    <3> HIDE DEF n
    <3>2. ASSUME NEW k \in Nat \ {0}, next[k].class = c
          PROVE  Depth(next, k + 1) = IF IsQuoted(next, k) THEN Depth(next, k)
                                      ELSE IF c = "LEFT" THEN Depth(next, k) + 1
                                      ELSE IF c = "RIGHT" THEN Depth(next, k) - 1
                                      ELSE Depth(next, k)
      BY <3>2, NextDepth
    <3> QED
      BY <3>1, <3>2
  <2>2. (n + 1) + 1 = n + 2
    BY <1>4
  <2>3. Depth(next, n + 2) = Depth(next, n + 1) + Pending(t)
    BY <1>1, <1>7, <1>8, <2>1, <2>2 DEF Pending
  <2>4. Open(p.ops) = Open(ops) + Pending(state)
    BY <1>1, <1>2, <1>3, <1>7 DEF Effect, Pending
  <2> QED
    BY <1>7, <1>8, <2>3, <2>4
<1>d. t \in {"RIGHT", "COMMA"} => next # << >> /\ next[n + 1].class = t /\ ~IsQuoted(next, n + 1)
  BY <1>1, <1>4, <1>8 DEF c
<1>e. ASSUME NEW i \in 1 .. n + 1 PROVE ClosedAt(next, t, i)
  <2>1. CASE i = n + 1
    BY <1>1, <1>4, <1>8, <2>1 DEF ClosedAt, c
  <2>2. CASE i # n + 1
    <3>1. i \in 1 .. n /\ i \in 0 .. n + 1 /\ i + 1 \in 1 .. n + 1
      BY <1>4, <2>2
    <3>2. ClosedAt(text, state, i)
      BY <3>1 DEF Reading
    <3>3. /\ next[i] = text[i] /\ (IsQuoted(next, i) <=> IsQuoted(text, i))
          /\ Depth(next, i) = Depth(text, i)
      BY <1>4, <1>6, <3>1
    <3>4. ClassAt(next, i + 1) = next[i + 1].class
      BY <1>4, <3>1 DEF ClassAt
    <3>5. CASE i # n
      <4>1. i + 1 \in 1 .. n
        BY <3>1, <3>5
      <4>2. ClassAt(text, i + 1) = text[i + 1].class /\ next[i + 1] = text[i + 1]
        BY <1>4, <4>1 DEF ClassAt
      <4> QED
        BY <3>2, <3>3, <3>4, <3>5, <4>2 DEF ClosedAt
    <3>6. CASE i = n
      <4>1. ClassAt(next, i + 1) = c /\ ClassAt(text, i + 1) # "DIGIT"
        BY <1>4, <3>4, <3>6 DEF ClassAt, c
      <4>2. state \in {"RIGHT", "COMMA"} /\ p.ok => Depth(text, i) > 0
        BY <1>2, <3>6, ProcessedIsInside
      <4>3. state = "RIGHT" => p.ok
        BY <1>1, <1>3
      <4>4. state = "COMMA" /\ c # "DIGIT" => p.ok
        BY <1>1, <1>3
      <4> QED
        BY <3>2, <3>3, <4>1, <4>2, <4>3, <4>4 DEF ClosedAt
    <3> QED
      BY <3>5, <3>6
  <2> QED
    BY <2>1, <2>2
<1>f. Len(next) + 1 = n + 2
  BY <1>4
<1> HIDE DEF n
<1> QED
  BY <1>1, <1>4, <1>5, <1>a, <1>b, <1>c, <1>d, <1>e, <1>f DEF Reading

LEMMA ReadLexemeStep ==
  ASSUME ParseInv, NEW lex \in alphabet.lexemes, ReadLexeme(lex)
  PROVE  ParseInv'
<1> DEFINE t == Target(state, lex.class)
           p == Entered(t)
<1>1. status = "parsing" /\ text' = Append(text, lex) /\ alphabet' = alphabet
  BY DEF ReadLexeme
<1>2. alphabet \in Alphabets /\ lex \in Lexemes /\ lex.class \in Classes \ {"EOL"}
  BY ExpressionsAssumption DEF ParseInv, Lexemes
<1>3. text' \in Seq(Lexemes)
  BY <1>1, <1>2 DEF ParseInv
<1>4. CASE t = "INVALID" \/ (~p.ok /\ t # "DIGIT")
  <2>1. status' = "failed"
    BY <1>4 DEF ReadLexeme
  <2> QED
    BY <1>1, <1>2, <1>3, <2>1 DEF ParseInv, AcceptsOnlyClosed
<1>5. CASE ~(t = "INVALID" \/ (~p.ok /\ t # "DIGIT"))
  <2>1. state' = t /\ ops' = p.ops /\ status' = "parsing"
    BY <1>1, <1>5 DEF ReadLexeme, Take
  <2>2. Reading'
    BY <1>1, <1>2, <1>5, <2>1, ReadKeepsReading DEF ParseInv
  <2> QED
    BY <1>1, <1>2, <1>3, <2>1, <2>2 DEF ParseInv, AcceptsOnlyClosed
<1> QED
  BY <1>4, <1>5

LEMMA ReadEndStep ==
  ASSUME ParseInv, ReadEnd
  PROVE  ParseInv'
<1> DEFINE t == Target(state, "EOL")
           p == Entered(t)
           n == Len(text)
<1>1. status = "parsing" /\ text' = text /\ alphabet' = alphabet
  BY DEF ReadEnd
<1>2. Reading /\ text \in Seq(Lexemes) /\ alphabet \in Alphabets
  BY <1>1 DEF ParseInv
<1>3. CASE status' \in {"overrun", "failed"}
  BY <1>1, <1>2, <1>3 DEF ParseInv, AcceptsOnlyClosed
<1>4. CASE status' \notin {"overrun", "failed"}
  <2>1. state # "CAPTURE" /\ t # "INVALID" /\ p.ok /\ status' = "running"
    BY <1>4 DEF ReadEnd, ReadsOn
  <2>2. state # "COMMA"
    BY <2>1 DEF Target, Accepts, BinaryOps
  <2>3. Effect(p)
    BY <1>2, EnteredEffect DEF Reading
  <2> HIDE DEF p, t
  <2>4. state = "RIGHT" => Depth(text, n) > 0
    BY <1>2, <2>1, <2>3, ProcessedIsInside
  <2>5. ~IsQuoted(text, n + 1)
    BY <1>2, <2>1 DEF Reading
  <2>6. ASSUME NEW i \in DOMAIN text, ~IsQuoted(text, i)
        PROVE  /\ text[i].class = "RIGHT" => Depth(text, i) > 0
               /\ text[i].class = "COMMA" /\ ClassAt(text, i + 1) # "DIGIT" => Depth(text, i) > 0
    <3>1. ClosedAt(text, state, i)
      BY <1>2 DEF Reading
    <3> QED
      BY <2>2, <2>4, <2>6, <3>1 DEF ClosedAt
  <2>7. AcceptsOnlyClosed'
    BY <1>1, <2>5, <2>6 DEF AcceptsOnlyClosed
  <2> QED
    BY <1>1, <1>2, <2>1, <2>7 DEF ParseInv
<1> QED
  BY <1>3, <1>4

LEMMA ParseStep == ParseInv /\ [Next]_vars => ParseInv'
<1> SUFFICES ASSUME ParseInv, [Next]_vars PROVE ParseInv'
  OBVIOUS
<1>1. ASSUME NEW lex \in alphabet.lexemes, ReadLexeme(lex) PROVE ParseInv'
  BY <1>1, ReadLexemeStep
<1>2. CASE ReadEnd
  BY <1>2, ReadEndStep
<1>3. CASE Execute \/ Return
  <2>1. /\ alphabet' = alphabet /\ text' = text
        /\ status = "running" /\ status' \in {"running", "done"}
    BY <1>3 DEF Execute, Return, parserVars
  <2>2. AcceptsOnlyClosed'
    BY <2>1 DEF ParseInv, AcceptsOnlyClosed
  <2> QED
    BY <2>1, <2>2 DEF ParseInv
<1>4. CASE UNCHANGED vars
  <2>1. alphabet' = alphabet /\ text' = text /\ status' = status /\ state' = state /\ ops' = ops
    BY <1>4 DEF vars, parserVars
  <2>2. (Reading' <=> Reading) /\ (AcceptsOnlyClosed' <=> AcceptsOnlyClosed)
    BY <2>1 DEF Reading, AcceptsOnlyClosed
  <2> QED
    BY <2>1, <2>2 DEF ParseInv
<1> QED
  BY <1>1, <1>2, <1>3, <1>4 DEF Next

\* What compiles is closed, whatever is written: every right parenthesis and, but in
\* front of a number, every comma has a left parenthesis open before it, and no string
\* is left open (the callbacks of command_parser.c against the texts of parser_dfa.c).
THEOREM WhatCompilesIsClosed == Spec => []AcceptsOnlyClosed
<1>1. ParseInv => AcceptsOnlyClosed
  BY DEF ParseInv
<1> QED
  BY <1>1, ParseInit, ParseStep, PTL DEF Spec
=============================================================================
