------------------------- MODULE CommandLineProofs --------------------------
(***************************************************************************)
(* Proofs about the command line: the line that the editor shows is the    *)
(* one it has, whatever keys come; and what a line runs is what was typed, *)
(* whatever commands were installed.                                       *)
(***************************************************************************)
EXTENDS LineEditor, Console, FiniteSetTheorems, SequenceTheorems, WellFoundedInduction, TLAPS

-----------------------------------------------------------------------------
\* The least of a set of numbers.
LEMMA LeastNat ==
  ASSUME NEW S \in SUBSET Nat, S # {}
  PROVE  Min(S) \in S /\ \A m \in S : Min(S) <= m
<1> DEFINE R == {ss \in Nat \X Nat : ss[1] < ss[2]}
<1>1. IsWellFoundedOn(R, Nat)
  BY NatLessThanWellFounded DEF OpToRel
<1>2. PICK x \in S : \A y \in S : ~(<<y, x>> \in R)
  <2> HIDE DEF R
  <2> QED
    BY <1>1, WFMin
<1>3. ASSUME NEW m \in S PROVE x <= m
  <2>1. <<m, x>> \in Nat \X Nat /\ <<m, x>>[1] = m /\ <<m, x>>[2] = x
    OBVIOUS
  <2>2. ~(m < x)
    BY <1>2, <2>1
  <2> QED
    BY <2>2
<1> QED
  BY <1>3 DEF Min

\* The greatest of a set of numbers up to some number.
LEMMA GreatestNat ==
  ASSUME NEW n \in Nat, NEW S \in SUBSET (0 .. n), S # {}
  PROVE  Max(S) \in S /\ \A m \in S : Max(S) >= m
<1> DEFINE T == {n - m : m \in S}
<1>0. ASSUME NEW m \in S PROVE m \in Nat /\ n - m \in Nat
  <2>1. m \in 0 .. n
    OBVIOUS
  <2> QED
    BY <2>1
<1>1. T \in SUBSET Nat /\ T # {}
  BY <1>0
<1>2. PICK l \in T : \A m \in T : l <= m
  BY <1>1, LeastNat
<1>3. PICK x \in S : l = n - x
  BY <1>2
<1>4. ASSUME NEW m \in S PROVE x >= m
  <2>1. l <= n - m /\ l = n - x
    BY <1>2, <1>3
  <2>2. x \in Nat /\ m \in Nat
    BY <1>0
  <2> HIDE DEF T
  <2> QED
    BY <2>1, <2>2
<1> QED
  BY <1>4 DEF Max

\* Induction for a predicate that is a set of numbers.
LEMMA Induction ==
  ASSUME NEW L \in Nat, NEW P, 0 \in P, \A n \in 1 .. L : n - 1 \in P => n \in P
  PROVE  \A n \in 0 .. L : n \in P
<1> DEFINE Bad == {n \in 0 .. L : n \notin P}
<1> SUFFICES ASSUME Bad # {} PROVE FALSE
  OBVIOUS
<1>1. PICK m \in Bad : \A l \in Bad : m <= l
  <2>1. Bad \in SUBSET Nat
    OBVIOUS
  <2> HIDE DEF Bad
  <2> QED
    BY <2>1, LeastNat
<1>2. m \in 1 .. L /\ m - 1 \in 0 .. L /\ ~(m <= m - 1)
  BY <1>1
<1>3. m - 1 \in P
  BY <1>1, <1>2
<1> QED
  BY <1>1, <1>2, <1>3

\* A function is iterated on a set that it does not lead out of.
Iterates(g, S, a, F, L) ==
  g \in [0 .. L -> S] /\ g[0] = a /\ \A n \in 1 .. L : g[n] = F[n][g[n - 1]]

LEMMA Iteration ==
  ASSUME NEW S, NEW a \in S, NEW F \in [Nat -> [S -> S]], NEW L \in Nat
  PROVE  \E g : Iterates(g, S, a, F, L)
<1> DEFINE Is(g, m) == g \in [0 .. m -> S] /\ g[0] = a /\ \A n \in 1 .. m : g[n] = F[n][g[n - 1]]
           P == {m \in Nat : \E g : Is(g, m)}
<1>1. 0 \in P
  <2>1. Is([n \in 0 .. 0 |-> a], 0)
    OBVIOUS
  <2> QED
    BY <2>1
<1>2. ASSUME NEW m \in 1 .. L, m - 1 \in P PROVE m \in P
  <2>1. PICK g : Is(g, m - 1)
    BY <1>2
  <2> DEFINE h == [n \in 0 .. m |-> IF n = m THEN F[m][g[m - 1]] ELSE g[n]]
  <2>2. m - 1 \in 0 .. m - 1 /\ m \in Nat /\ 0 # m /\ 0 \in 0 .. m
    OBVIOUS
  <2>3. g[m - 1] \in S /\ F[m] \in [S -> S]
    BY <2>1, <2>2
  <2>4. ASSUME NEW n \in 0 .. m PROVE h[n] \in S
    <3>1. n # m => n \in 0 .. m - 1
      BY <2>2
    <3> QED
      BY <2>1, <2>3, <3>1
  <2>5. ASSUME NEW n \in 1 .. m PROVE h[n] = F[n][h[n - 1]]
    <3>1. n - 1 \in 0 .. m /\ n - 1 # m /\ n \in 0 .. m /\ (n # m => n \in 1 .. m - 1)
      BY <2>2
    <3> QED
      BY <2>1, <3>1
  <2>6. h \in [0 .. m -> S]
    BY <2>4
  <2>7. h[0] = a
    BY <2>1, <2>2
  <2>8. Is(h, m)
    BY <2>5, <2>6, <2>7
  <2> QED
    BY <2>2, <2>8
<1>3. L \in P
  <2> HIDE DEF P
  <2>1. \A m \in 0 .. L : m \in P
    BY <1>1, <1>2, Induction
  <2> QED
    BY <2>1
<1> QED
  BY <1>3 DEF Iterates

-----------------------------------------------------------------------------
\* The line editor.  What the keys and the keywords may leave in a line.
Bytes == (UNION {ToSet(word) : word \in Reads \cup Keywords}) \cup {" ", "end", "exit"}
Lines == Seq(Bytes)

Screens == [line : Lines, cursor : Nat, row : Lines, column : Nat, history : Seq(Lines), back : Int,
            escape : BOOLEAN, got : BOOLEAN, mixed : BOOLEAN, format : BOOLEAN, lost : BOOLEAN,
            stop : BOOLEAN]

\* Between two bytes the row is the line, and the columns are the same; where the row was
\* drawn from a line with a '%', and is not followed, the line has one still.
Shows(s) ==
  /\ s \in Screens /\ ~s.got /\ ~s.stop
  /\ s.row = s.line /\ s.column = s.cursor /\ s.cursor <= Len(s.line)
  /\ s.format => HasFormat(s.line)

\* After a byte that ends a read: unless the line was received, or bytes went where the cursor
\* is not.
Ends(s) ==
  /\ s \in Screens /\ s.cursor <= Len(s.line)
  /\ ~s.got /\ ~s.mixed => s.row = s.line /\ s.column = s.cursor
  /\ ~s.got /\ s.format => HasFormat(s.line)
  /\ ~s.stop => Shows(s)

\* Reads and keywords are lines.
LEMMA ReadsAreLines ==
  /\ \A word \in Reads \cup Keywords : word \in Lines /\ Len(word) \in Nat
  /\ \A word \in Reads \cup Keywords : \A i \in 1 .. Len(word) : word[i] \in Bytes
  /\ " " \in Bytes /\ << >> \in Lines /\ <<"end">> \in Lines /\ <<"exit">> \in Lines
<1>1. ASSUME NEW word \in Reads \cup Keywords
      PROVE  word \in Lines /\ Len(word) \in Nat /\ \A i \in 1 .. Len(word) : word[i] \in Bytes
  <2>1. word \in Seq(ToSet(word))
    BY EditorAssumption
  <2>2. ToSet(word) \subseteq Bytes
    BY DEF Bytes
  <2>3. word \in Lines
    BY <2>1, <2>2, SeqMonotonic DEF Lines
  <2> QED
    BY <2>3 DEF Lines
<1>2. " " \in Bytes /\ "end" \in Bytes /\ "exit" \in Bytes
  BY DEF Bytes
<1>3. <<"end">> \in Lines /\ <<"exit">> \in Lines
  <2>1. ASSUME NEW b \in Bytes PROVE <<b>> \in Seq(Bytes)
    OBVIOUS
  <2> QED
    BY <1>2, <2>1 DEF Lines
<1> QED
  BY <1>1, <1>2, <1>3, EmptySeq DEF Lines

LEMMA LineFacts ==
  ASSUME NEW s \in Screens
  PROVE  /\ s.line \in Lines /\ Len(s.line) \in Nat /\ s.cursor \in Nat /\ s.row \in Lines /\ s.column \in Nat
         /\ s.history \in Seq(Lines) /\ s.back \in Int /\ s.mixed \in BOOLEAN /\ s.got \in BOOLEAN
         /\ s.escape \in BOOLEAN /\ s.lost \in BOOLEAN /\ s.stop \in BOOLEAN
         /\ s.format \in BOOLEAN
<1>1. s.line \in Lines
  BY DEF Screens
<1>2. Len(s.line) \in Nat
  BY <1>1 DEF Lines
<1> QED
  BY <1>1, <1>2 DEF Screens

\* What an editing of the line and of its row changes.
Drawn(s, line, cursor, row, column) ==
  [s EXCEPT !.line = line, !.cursor = cursor, !.row = row, !.column = column]

LEMMA DrawnIs ==
  ASSUME NEW s \in Screens, NEW line \in Lines, NEW cursor \in Nat, NEW row \in Lines, NEW column \in Nat
  PROVE  LET t == Drawn(s, line, cursor, row, column)
         IN /\ t \in Screens
            /\ t.line = line /\ t.cursor = cursor /\ t.row = row /\ t.column = column
            /\ t.got = s.got /\ t.stop = s.stop /\ t.mixed = s.mixed /\ t.format = s.format
<1> DEFINE t == Drawn(s, line, cursor, row, column)
<1>1. t \in Screens
  BY DEF Drawn, Screens
<1>2. t.line = line /\ t.cursor = cursor /\ t.row = row /\ t.column = column
  BY DEF Drawn, Screens
<1>3. t.got = s.got /\ t.stop = s.stop /\ t.mixed = s.mixed /\ t.format = s.format
  BY DEF Drawn, Screens
<1> QED
  BY <1>1, <1>2, <1>3

LEMMA DrawnShows ==
  ASSUME NEW s \in Screens, ~s.got, ~s.stop, NEW line \in Lines, NEW cursor \in 0 .. Len(line),
         s.format => HasFormat(line)
  PROVE  LET t == Drawn(s, line, cursor, line, cursor)
         IN Shows(t) /\ t.line = line /\ t.cursor = cursor /\ t.mixed = s.mixed
<1>1. cursor \in Nat /\ cursor <= Len(line)
  BY DEF Lines
<1> DEFINE t == Drawn(s, line, cursor, line, cursor)
<1>2. /\ t \in Screens
      /\ t.line = line /\ t.cursor = cursor /\ t.row = line /\ t.column = cursor
      /\ t.got = s.got /\ t.stop = s.stop /\ t.mixed = s.mixed /\ t.format = s.format
  BY <1>1, DrawnIs
<1> HIDE DEF t
<1>3. Shows(t)
  BY <1>1, <1>2 DEF Shows
<1> QED
  BY <1>2, <1>3 DEF t

\* A line that is written anew, on a row that was erased.
LEMMA RedisplayShows ==
  ASSUME NEW s \in Screens, ~s.got, ~s.stop, NEW line \in Lines
  PROVE  /\ Shows(Redisplayed(s, line))
         /\ Redisplayed(s, line).line = line /\ Redisplayed(s, line).cursor = Len(line)
<1> DEFINE h == HasFormat(line)
           u == [s EXCEPT !.mixed = FALSE, !.format = h]
           t == [s EXCEPT !.row = << >>, !.column = 0, !.line = line, !.cursor = Len(line),
                          !.mixed = FALSE, !.format = h]
           row == SubSeq(<< >>, 1, 0) \o line \o SubSeq(<< >>, 0 + Len(line) + 1, 0)
<1>0. Len(line) \in Nat /\ << >> \in Lines /\ Len(<< >>) = 0 /\ Len(line) \in 0 .. Len(line)
  BY DEF Lines
<1>1. row = line
  <2>1. SubSeq(<< >>, 1, 0) = << >> /\ SubSeq(<< >>, 0 + Len(line) + 1, 0) = << >>
    BY <1>0, SubSeqEmpty
  <2> QED
    BY <2>1, ConcatEmptySeq DEF Lines
<1>a. h \in BOOLEAN
  BY DEF HasFormat
<1>b. Redisplayed(s, line) = Written(t, line)
  BY DEF Redisplayed
<1> HIDE DEF h
<1>2. t.row = << >> /\ t.column = 0
  BY DEF Screens
<1>3. Written(t, line) = [t EXCEPT !.row = row, !.column = 0 + Len(line)]
  BY <1>0, <1>2 DEF Written
<1>4. Redisplayed(s, line) = [t EXCEPT !.row = line, !.column = Len(line)]
  <2>1. 0 + Len(line) = Len(line)
    BY <1>0
  <2> HIDE DEF row, t
  <2> QED
    BY <1>1, <1>3, <1>b, <2>1
<1>5. [t EXCEPT !.row = line, !.column = Len(line)] = Drawn(u, line, Len(line), line, Len(line))
  BY DEF Drawn, Screens
<1>6. u \in Screens /\ ~u.got /\ ~u.stop /\ u.format = h
  BY <1>a DEF Screens
<1> HIDE DEF u, t
<1>7. u.format => HasFormat(line)
  BY <1>6 DEF h
<1>8. LET d == Drawn(u, line, Len(line), line, Len(line))
      IN Shows(d) /\ d.line = line /\ d.cursor = Len(line)
  BY <1>0, <1>6, <1>7, DrawnShows
<1>9. Redisplayed(s, line) = Drawn(u, line, Len(line), line, Len(line))
  BY <1>4, <1>5
<1> QED
  BY <1>8, <1>9

\* The cursors move together.
LEMMA CursorShows ==
  ASSUME NEW s, Shows(s), NEW position \in 0 .. Len(s.line)
  PROVE  Shows(CursorAt(s, position)) /\ CursorAt(s, position).line = s.line
         /\ CursorAt(s, position).cursor = position /\ CursorAt(s, position).mixed = s.mixed
<1>1. s \in Screens /\ s.row = s.line /\ s.column = s.cursor /\ ~s.got /\ ~s.stop
      /\ (s.format => HasFormat(s.line))
  BY DEF Shows
<1>2. CursorAt(s, position) = [s EXCEPT !.cursor = position, !.column = position]
  <2>1. s.column + position - s.cursor = position
    BY <1>1, LineFacts
  <2> QED
    BY <1>1, <2>1 DEF CursorAt, Screens
<1>3. [s EXCEPT !.cursor = position, !.column = position] = Drawn(s, s.line, position, s.line, position)
  BY <1>1 DEF Drawn, Screens
<1> QED
  BY <1>1, <1>2, <1>3, DrawnShows, LineFacts

\* A '%' stays in a line that grows.
LEMMA FormatStays ==
  ASSUME NEW front \in Lines, NEW back \in Lines, HasFormat(front)
  PROVE  HasFormat(front \o back)
<1>1. PICK i \in 1 .. Len(front) : front[i] = Percent
  BY DEF HasFormat, ToSet, Lines
<1>2. i \in DOMAIN (front \o back) /\ (front \o back)[i] = Percent
  BY <1>1, ConcatProperties DEF Lines
<1> QED
  BY <1>2 DEF HasFormat, ToSet

\* Characters at the end of the line.
LEMMA WriteShows ==
  ASSUME NEW s, Shows(s), NEW text \in Lines, s.cursor = Len(s.line)
  PROVE  LET t == Written([s EXCEPT !.line = @ \o text, !.cursor = Len(s.line) + Len(text)], text)
         IN Shows(t) /\ t.line = s.line \o text /\ t.mixed = s.mixed
<1> DEFINE u == [s EXCEPT !.line = @ \o text, !.cursor = Len(s.line) + Len(text)]
           t == Written(u, text)
           n == Len(s.line)
           row == SubSeq(s.line, 1, n) \o text \o SubSeq(s.line, n + Len(text) + 1, n)
<1>1. s \in Screens /\ s.row = s.line /\ s.column = n /\ ~s.got /\ ~s.stop
  BY DEF Shows
<1>2. s.line \in Lines /\ n \in Nat /\ Len(text) \in Nat
  BY <1>1, LineFacts DEF Lines
<1>3. s.line \o text \in Lines /\ n + Len(text) \in 0 .. Len(s.line \o text) /\ n + Len(text) = Len(s.line \o text)
  BY <1>2, ConcatProperties DEF Lines
<1>4. u.row = s.line /\ u.column = n
  BY <1>1 DEF Screens
<1>5. t = [u EXCEPT !.row = row, !.column = n + Len(text)]
  BY <1>4 DEF Written
<1>6. row = s.line \o text
  <2>1. SubSeq(s.line, 1, n) = s.line
    BY <1>2, SubSeqFull DEF Lines
  <2>2. SubSeq(s.line, n + Len(text) + 1, n) = << >>
    BY <1>2, SubSeqEmpty
  <2> QED
    BY <1>2, <1>3, <2>1, <2>2, ConcatEmptySeq DEF Lines
<1> HIDE DEF row, n
<1>7. [u EXCEPT !.row = s.line \o text, !.column = n + Len(text)]
      = Drawn(s, s.line \o text, n + Len(text), s.line \o text, n + Len(text))
  BY <1>1 DEF Drawn, Screens, n
<1>8. t = Drawn(s, s.line \o text, n + Len(text), s.line \o text, n + Len(text))
  BY <1>5, <1>6, <1>7
<1> HIDE DEF t
<1>f. s.format => HasFormat(s.line \o text)
  BY <1>2, FormatStays DEF Shows
<1>9. Shows(t) /\ t.line = s.line \o text /\ t.mixed = s.mixed
  BY <1>1, <1>3, <1>8, <1>f, DrawnShows
<1> QED
  BY <1>9 DEF t, n

\* Parts of lines are lines.
LEMMA PartIsLine ==
  ASSUME NEW line \in Lines, NEW m \in Nat \ {0}, NEW n \in Int, n <= Len(line)
  PROVE  SubSeq(line, m, n) \in Lines /\ Len(SubSeq(line, m, n)) = IF m <= n THEN n - m + 1 ELSE 0
<1>1. \A i \in m .. n : line[i] \in Bytes
  BY DEF Lines
<1> QED
  BY <1>1, SubSeqProperties DEF Lines

LEMMA JoinIsLine ==
  ASSUME NEW front \in Lines, NEW back \in Lines
  PROVE  front \o back \in Lines /\ Len(front \o back) = Len(front) + Len(back)
BY ConcatProperties DEF Lines

LEMMA InsertIsLine ==
  ASSUME NEW line \in Lines, NEW c \in 0 .. Len(line), NEW char \in Bytes
  PROVE  InsertAt(line, c + 1, char) \in Lines /\ Len(InsertAt(line, c + 1, char)) = Len(line) + 1
<1>0. Len(line) \in Nat /\ c \in Nat /\ c + 1 \in Nat \ {0} /\ c + 1 - 1 = c /\ c <= Len(line)
  BY DEF Lines
<1> DEFINE front == SubSeq(line, 1, c)
           back == SubSeq(line, c + 1, Len(line))
<1>1. front \in Lines /\ Len(front) = c
  BY <1>0, PartIsLine
<1>2. back \in Lines /\ Len(back) = Len(line) - c
  BY <1>0, PartIsLine
<1>3. <<char>> \in Lines /\ Len(<<char>>) = 1
  BY DEF Lines
<1>4. InsertAt(line, c + 1, char) = front \o <<char>> \o back
  <2>1. InsertAt(line, c + 1, char) = SubSeq(line, 1, (c + 1) - 1) \o <<char>> \o back
    BY DEF InsertAt
  <2>2. (c + 1) - 1 = c
    BY <1>0
  <2> HIDE DEF back
  <2> QED
    BY <2>1, <2>2
<1> HIDE DEF front, back
<1>5. front \o <<char>> \in Lines /\ Len(front \o <<char>>) = c + 1
  BY <1>1, <1>3, JoinIsLine
<1>6. front \o <<char>> \o back \in Lines /\ Len(front \o <<char>> \o back) = Len(line) + 1
  <2>1. front \o <<char>> \o back \in Lines /\ Len(front \o <<char>> \o back) = c + 1 + (Len(line) - c)
    BY <1>2, <1>5, JoinIsLine
  <2> QED
    BY <1>0, <2>1
<1> QED
  BY <1>4, <1>6

\* Insertions, where the cursor is and at the end of the line, and removals.
LEMMA InsertShows ==
  ASSUME NEW s, Shows(s), NEW char \in Bytes
  PROVE  Shows(Inserted(s, char))
<1>1. s \in Screens /\ s.line \in Lines /\ s.cursor \in Nat /\ Len(s.line) \in Nat /\ LineSize \in Nat
      /\ s.cursor <= Len(s.line) /\ ~s.got /\ ~s.stop /\ <<char>> \in Lines /\ Len(<<char>>) = 1
  BY EditorAssumption, LineFacts DEF Shows, Lines
<1>2. CASE s.cursor < Len(s.line)
  <2> DEFINE line == InsertAt(s.line, s.cursor + 1, char)
             t == CursorAt(Redisplayed(s, line), s.cursor + 1)
  <2>1. s.cursor \in 0 .. Len(s.line)
    BY <1>1
  <2>2. line \in Lines /\ Len(line) = Len(s.line) + 1
    BY <1>1, <2>1, InsertIsLine
  <2> HIDE DEF line
  <2>3. Shows(Redisplayed(s, line)) /\ Redisplayed(s, line).line = line
    BY <1>1, <2>2, RedisplayShows
  <2>4. s.cursor + 1 \in 0 .. Len(line)
    BY <1>1, <2>2
  <2>5. Shows(t)
    BY <2>3, <2>4, CursorShows
  <2> HIDE DEF t
  <2>6. Shows([t EXCEPT !.lost = Len(line) = LineSize])
    BY <2>5 DEF Shows, Screens
  <2> QED
    BY <1>2, <2>6 DEF Inserted, line, t
<1>3. CASE ~(s.cursor < Len(s.line))
  <2> DEFINE t == Written([s EXCEPT !.line = Append(@, char), !.cursor = @ + 1], <<char>>)
  <2>1. s.cursor = Len(s.line)
    BY <1>1, <1>3
  <2>2. [s EXCEPT !.line = Append(@, char), !.cursor = @ + 1]
        = [s EXCEPT !.line = @ \o <<char>>, !.cursor = Len(s.line) + Len(<<char>>)]
    <3>1. Append(s.line, char) = s.line \o <<char>>
      BY <1>1, AppendIsConcat DEF Lines
    <3> QED
      BY <1>1, <2>1, <3>1 DEF Screens
  <2>3. Shows(t)
    BY <1>1, <2>1, <2>2, WriteShows
  <2> HIDE DEF t
  <2>4. Shows([t EXCEPT !.lost = Len(s.line) + 1 = LineSize])
    BY <2>3 DEF Shows, Screens
  <2> QED
    BY <1>3, <2>4 DEF Inserted, t
<1> QED
  BY <1>2, <1>3

LEMMA RemoveIsLine ==
  ASSUME NEW line \in Lines, NEW i \in 1 .. Len(line)
  PROVE  RemoveAt(line, i) \in Lines /\ Len(RemoveAt(line, i)) = Len(line) - 1
<1>1. SubSeq(line, 1, i - 1) \in Lines /\ Len(SubSeq(line, 1, i - 1)) = i - 1
  BY PartIsLine DEF Lines
<1>2. SubSeq(line, i + 1, Len(line)) \in Lines /\ Len(SubSeq(line, i + 1, Len(line))) = Len(line) - i
  BY PartIsLine DEF Lines
<1> QED
  <2>1. Len(line) \in Nat /\ (i - 1) + (Len(line) - i) = Len(line) - 1
    BY DEF Lines
  <2> QED
    BY <1>1, <1>2, <2>1, JoinIsLine DEF RemoveAt

LEMMA EraseShows ==
  ASSUME NEW s, Shows(s)
  PROVE  Shows(Erased(s)) /\ Len(Erased(s).line) <= Len(s.line)
<1>1. s \in Screens /\ s.line \in Lines /\ s.cursor \in Nat /\ Len(s.line) \in Nat
      /\ s.cursor <= Len(s.line) /\ ~s.got /\ ~s.stop
  BY LineFacts DEF Shows
<1>2. CASE s.cursor # 0
  <2> DEFINE line == RemoveAt(s.line, s.cursor)
  <2>1. line \in Lines /\ Len(line) = Len(s.line) - 1
    BY <1>1, <1>2, RemoveIsLine
  <2> HIDE DEF line
  <2>2. Shows(Redisplayed(s, line)) /\ Redisplayed(s, line).line = line
    BY <1>1, <2>1, RedisplayShows
  <2>3. s.cursor - 1 \in 0 .. Len(line)
    BY <1>1, <1>2, <2>1
  <2>4. Shows(CursorAt(Redisplayed(s, line), s.cursor - 1))
        /\ CursorAt(Redisplayed(s, line), s.cursor - 1).line = line
    BY <2>2, <2>3, CursorShows
  <2> QED
    BY <1>1, <1>2, <2>1, <2>4 DEF Erased, line
<1> QED
  BY <1>1, <1>2 DEF Erased

LEMMA DeleteShows ==
  ASSUME NEW s, Shows(s)
  PROVE  Shows(Deleted(s))
<1>1. s \in Screens /\ s.line \in Lines /\ s.cursor \in Nat /\ Len(s.line) \in Nat
      /\ s.cursor <= Len(s.line) /\ ~s.got /\ ~s.stop
  BY LineFacts DEF Shows
<1>2. CASE s.cursor # Len(s.line)
  <2> DEFINE line == RemoveAt(s.line, s.cursor + 1)
  <2>1. line \in Lines /\ Len(line) = Len(s.line) - 1
    BY <1>1, <1>2, RemoveIsLine
  <2> HIDE DEF line
  <2>2. Shows(Redisplayed(s, line)) /\ Redisplayed(s, line).line = line
    BY <1>1, <2>1, RedisplayShows
  <2>3. s.cursor \in 0 .. Len(line)
    BY <1>1, <1>2, <2>1
  <2>4. Shows(CursorAt(Redisplayed(s, line), s.cursor))
    BY <2>2, <2>3, CursorShows
  <2> QED
    BY <1>2, <2>4 DEF Deleted, line
<1> QED
  BY <1>2 DEF Deleted

\* Characters that are appended: what is shown is right if the cursor is at the end.
LEMMA AppendShows ==
  ASSUME NEW s, Shows(s), NEW text \in Lines, s.cursor = Len(s.line)
  PROVE  Shows(Appended(s, text))
<1>1. Shows([s EXCEPT !.lost = TRUE])
  BY DEF Shows, Screens
<1> QED
  BY <1>1, WriteShows DEF Appended

LEMMA AppendStays ==
  ASSUME NEW s, Shows(s), NEW text \in Lines
  PROVE  LET t == Appended(s, text)
         IN t \in Screens /\ t.cursor <= Len(t.line) /\ t.got = s.got /\ t.stop = s.stop
            /\ (t.format => HasFormat(t.line)) /\ t.mixed \in BOOLEAN
<1> DEFINE u == [s EXCEPT !.line = @ \o text, !.cursor = Len(s.line) + Len(text)]
           n == Len(s.line)
           shown == SubSeq(s.line, 1, s.cursor) \o text \o SubSeq(s.line, s.cursor + Len(text) + 1, n)
           t == Drawn(s, s.line \o text, n + Len(text), shown, s.cursor + Len(text))
<1>1. s \in Screens /\ s.row = s.line /\ s.column = s.cursor /\ s.cursor <= n
  BY DEF Shows
<1>2. s.line \in Lines /\ n \in Nat /\ Len(text) \in Nat /\ s.cursor \in Nat
  BY <1>1, LineFacts DEF Lines
<1>3. s.line \o text \in Lines /\ n + Len(text) = Len(s.line \o text) /\ n + Len(text) \in Nat
      /\ s.cursor + Len(text) \in Nat
  BY <1>2, JoinIsLine
<1>4. shown \in Lines
  <2>1. SubSeq(s.line, 1, s.cursor) \in Lines
    BY <1>1, <1>2, PartIsLine
  <2>2. SubSeq(s.line, s.cursor + Len(text) + 1, n) \in Lines
    <3>1. s.cursor + Len(text) + 1 \in Nat \ {0} /\ n \in Int /\ n <= Len(s.line)
      BY <1>2
    <3> QED
      BY <1>2, <3>1, PartIsLine
  <2> QED
    BY <2>1, <2>2, JoinIsLine
<1>5. u.row = s.line /\ u.column = s.cursor
  BY <1>1 DEF Screens
<1>6. Written(u, text) = [u EXCEPT !.row = shown, !.column = s.cursor + Len(text)]
  BY <1>5 DEF Written
<1> HIDE DEF shown, n
<1>7. [u EXCEPT !.row = shown, !.column = s.cursor + Len(text)] = t
  BY <1>1 DEF Drawn, Screens, n
<1>8. t \in Screens /\ t.cursor <= Len(t.line) /\ t.got = s.got /\ t.stop = s.stop
      /\ (t.format => HasFormat(t.line))
  <2>1. /\ t \in Screens /\ t.line = s.line \o text /\ t.cursor = n + Len(text)
        /\ t.got = s.got /\ t.stop = s.stop /\ t.format = s.format
    <3> DEFINE whole == s.line \o text
               end == n + Len(text)
               after == s.cursor + Len(text)
    <3>1. whole \in Lines /\ end \in Nat /\ after \in Nat /\ t = Drawn(s, whole, end, shown, after)
      BY <1>3
    <3> HIDE DEF t, whole, end, after
    <3> DEFINE d == Drawn(s, whole, end, shown, after)
    <3>2. s \in Screens
      BY <1>1
    <3>3. /\ d \in Screens /\ d.line = whole /\ d.cursor = end
          /\ d.got = s.got /\ d.stop = s.stop /\ d.format = s.format
      BY <1>4, <3>1, <3>2 DEF Drawn, Screens
    <3> HIDE DEF d
    <3> QED
      BY <3>1, <3>3 DEF whole, end, d
  <2>2. s.format => HasFormat(s.line \o text)
    BY <1>2, FormatStays DEF Shows
  <2> HIDE DEF t
  <2> QED
    BY ONLY <1>3, <2>1, <2>2
<1> DEFINE l == [s EXCEPT !.lost = TRUE]
<1>9. Appended(s, text) \in {s, t, l}
  BY <1>6, <1>7 DEF Appended, n
<1>10. /\ l \in Screens /\ l.cursor <= Len(l.line) /\ l.got = s.got /\ l.stop = s.stop
       /\ (l.format => HasFormat(l.line))
  BY <1>1 DEF Shows, Screens, n
<1>11. s.format => HasFormat(s.line)
  BY DEF Shows
<1> HIDE DEF t, l
<1>12. \A v \in Screens : v.mixed \in BOOLEAN
  BY LineFacts
<1>13. /\ Appended(s, text) \in Screens /\ Appended(s, text).cursor <= Len(Appended(s, text).line)
       /\ Appended(s, text).got = s.got /\ Appended(s, text).stop = s.stop
       /\ (Appended(s, text).format => HasFormat(Appended(s, text).line))
  <2>1. CASE Appended(s, text) = s
    BY <1>1, <1>11, <2>1 DEF n
  <2>2. CASE Appended(s, text) = t
    BY <1>8, <2>2
  <2>3. CASE Appended(s, text) = l
    BY <1>10, <2>3
  <2> QED
    BY <1>9, <2>1, <2>2, <2>3
<1> QED
  BY <1>12, <1>13

\* The history.
LEMMA IndexedIsLine ==
  ASSUME NEW s, Shows(s), NEW index \in Int
  PROVE  AtIndex(s, index) \subseteq Lines
<1>1. s.history \in Seq(Lines)
  BY LineFacts DEF Shows
<1>2. ASSUME index > None, index < Len(s.history) PROVE s.history[index + 1] \in Lines
  BY <1>1, <1>2 DEF None
<1> QED
  BY <1>2 DEF AtIndex

LEMMA HistoryShows ==
  ASSUME NEW s, Shows(s)
  PROVE  Shows(Up(s)) /\ Shows(Down(s))
<1>1. s \in Screens /\ ~s.got /\ ~s.stop /\ s.back \in Int /\ Len(s.history) \in Nat
  BY LineFacts DEF Shows
<1>2. Older(s) \in Int /\ Newer(s) \in Int
  BY <1>1 DEF Older, Newer, None
<1>3. ASSUME NEW index \in Int
      PROVE  Shows([s EXCEPT !.back = index, !.escape = FALSE])
  BY <1>1 DEF Shows, Screens
<1>4. ASSUME NEW index \in Int, NEW line \in Lines
      PROVE  Shows(Redisplayed([s EXCEPT !.back = index, !.escape = FALSE], line))
  BY <1>3, RedisplayShows DEF Shows
<1>5. AtIndex(s, Older(s)) \subseteq Lines /\ AtIndex(s, Newer(s)) \subseteq Lines
  BY <1>2, IndexedIsLine
<1>6. Shows(Up(s))
  BY <1>2, <1>3, <1>4, <1>5 DEF Up
<1>7. Shows(Down(s))
  <2>1. << >> \in Lines
    BY ReadsAreLines
  <2> QED
    BY <1>2, <1>4, <1>5, <2>1 DEF Down
<1> QED
  BY <1>6, <1>7

\* A line that is received joins the history.
LEMMA ReceiveEnds ==
  ASSUME NEW s, Shows(s)
  PROVE  /\ Ends(Received(Remembered(s)))
         /\ \A command \in Lines : Ends(Instead(s, command))
<1>1. s \in Screens /\ s.cursor <= Len(s.line)
  BY DEF Shows
<1>2. PICK h : Remembered(s) = [s EXCEPT !.back = None, !.history = h] /\ h \in Seq(Lines)
  <2> DEFINE added == <<s.line>> \o s.history
             h == IF s.line = << >> \/ (s.history # << >> /\ s.history[1] = s.line) THEN s.history
                  ELSE SubSeq(added, 1, IF Len(added) > vtySize THEN Len(added) - 1 ELSE Len(added))
  <2>1. added \in Seq(Lines) /\ Len(added) \in Nat /\ s.history \in Seq(Lines)
    BY <1>1, LineFacts
  <2> HIDE DEF added
  <2>2. ASSUME NEW n \in Int, n <= Len(added) PROVE SubSeq(added, 1, n) \in Seq(Lines)
    <3>1. \A i \in 1 .. n : added[i] \in Lines
      BY <2>1, <2>2
    <3> QED
      BY <2>2, <3>1, SubSeqProperties
  <2>3. h \in Seq(Lines)
    BY <2>1, <2>2
  <2>4. Remembered(s) = [s EXCEPT !.back = None, !.history = h]
    BY DEF Remembered, added
  <2> QED
    BY <2>3, <2>4
<1>3. ASSUME NEW t \in Screens, t.cursor <= Len(t.line), t.got, t.stop PROVE Ends(t)
  BY <1>3 DEF Ends
<1>4. Ends(Received(Remembered(s)))
  <2> DEFINE t == [s EXCEPT !.back = None, !.history = h, !.got = TRUE, !.stop = TRUE]
  <2>1. t \in Screens
    <3>1. None \in Int
      BY DEF None
    <3> QED
      BY <1>1, <1>2, <3>1 DEF Screens
  <2>2. t.cursor <= Len(t.line) /\ t.got /\ t.stop
    BY <1>1 DEF Screens
  <2>3. Received(Remembered(s)) = t
    BY <1>1, <1>2 DEF Received, Screens
  <2> HIDE DEF t
  <2> QED
    BY <1>3, <2>1, <2>2, <2>3
<1>5. ASSUME NEW command \in Lines PROVE Ends(Instead(s, command))
  <2> DEFINE n == Len(command)
             t == [s EXCEPT !.line = command, !.cursor = n, !.got = TRUE, !.stop = TRUE]
  <2>1. n \in Nat
    BY DEF Lines
  <2>2. Instead(s, command) = t
    BY <1>1 DEF Received, Instead, Screens
  <2> HIDE DEF n
  <2>3. t \in Screens
    BY <1>1, <2>1 DEF Screens
  <2>4. t.line = command /\ t.cursor = n /\ t.got /\ t.stop
    BY <1>1 DEF Screens
  <2> HIDE DEF t
  <2> QED
    BY <1>3, <2>1, <2>2, <2>3, <2>4 DEF n
<1> QED
  BY <1>4, <1>5

\* The last word of a line, and what is common to the words it may become.
LEMMA LastWordIs ==
  ASSUME NEW line \in Lines
  PROVE  LastWord(line) \in Lines /\ Len(LastWord(line)) \in Nat
<1> DEFINE spaces == {0} \cup {i \in DOMAIN line : line[i] = " "}
<1>1. Len(line) \in Nat /\ \A i \in spaces : i \in 0 .. Len(line)
  <2>1. Len(line) \in Nat /\ DOMAIN line = 1 .. Len(line)
    BY DEF Lines
  <2>2. ASSUME NEW i \in spaces PROVE i \in 0 .. Len(line)
    <3>1. i = 0 \/ i \in 1 .. Len(line)
      BY <2>1
    <3> HIDE DEF spaces
    <3> QED
      BY <2>1, <3>1
  <2> QED
    BY <2>1, <2>2
<1>2. Max(spaces) \in spaces
  <2>1. spaces \in SUBSET (0 .. Len(line)) /\ spaces # {}
    BY <1>1
  <2> HIDE DEF spaces
  <2> QED
    BY <1>1, <2>1, GreatestNat
<1> DEFINE m == Max(spaces) + 1
<1>3. m \in Nat \ {0}
  <2>1. Max(spaces) \in 0 .. Len(line)
    <3> HIDE DEF spaces
    <3> QED
      BY <1>1, <1>2
  <2> HIDE DEF spaces
  <2> QED
    BY <1>1, <2>1
<1>4. LastWord(line) = SubSeq(line, m, Len(line))
  BY DEF LastWord
<1> HIDE DEF m, spaces
<1>5. SubSeq(line, m, Len(line)) \in Lines
  BY <1>1, <1>3, PartIsLine
<1> QED
  BY <1>4, <1>5 DEF Lines

LEMMA CommonIsLine ==
  ASSUME NEW words \in SUBSET Keywords, words # {}
  PROVE  CommonPrefix(words) \in Lines
<1> DEFINE word == CHOOSE w \in words : TRUE
           common == {n \in 0 .. Len(word) : \A w \in words : IsPrefix(SubSeq(word, 1, n), w)}
<1>1. word \in words
  OBVIOUS
<1> HIDE DEF word
<1>2. word \in Lines /\ Len(word) \in Nat
  BY <1>1, ReadsAreLines
<1>3. 0 \in common
  <2>1. ASSUME NEW w \in words PROVE IsPrefix(SubSeq(word, 1, 0), w)
    <3>0. w \in Keywords
      OBVIOUS
    <3>1. Len(w) \in Nat /\ SubSeq(word, 1, 0) = << >> /\ Len(<< >>) = 0
      <4>1. Len(w) \in Nat
        BY <3>0, ReadsAreLines
      <4>2. SubSeq(word, 1, 0) = << >>
        BY SubSeqEmpty
      <4> QED
        BY <4>1, <4>2
    <3>2. SubSeq(w, 1, 0) = << >> /\ SubSeq(<< >>, 1, 0) = << >>
      BY SubSeqEmpty
    <3> QED
      BY <3>1, <3>2 DEF IsPrefix
  <2> QED
    BY <1>2, <2>1
<1>4. Max(common) \in 0 .. Len(word)
  <2>1. common \in SUBSET (0 .. Len(word)) /\ common # {}
    BY <1>3
  <2> HIDE DEF common
  <2>2. Max(common) \in common
    BY <1>2, <2>1, GreatestNat
  <2> QED
    BY <2>1, <2>2
<1>5. CommonPrefix(words) = SubSeq(word, 1, Max(common))
  BY DEF CommonPrefix, word
<1> HIDE DEF common
<1> QED
  BY <1>2, <1>4, <1>5, PartIsLine

\* Several characters are erased one after the other.
LEMMA EraseAll ==
  ASSUME NEW s, Shows(s), NEW L \in Nat
  PROVE  Shows((CHOOSE g : g = [n \in 0 .. L |-> IF n = 0 THEN s ELSE Erased(g[n - 1])])[L])
<1> DEFINE Is(g) == g = [n \in 0 .. L |-> IF n = 0 THEN s ELSE Erased(g[n - 1])]
           E == CHOOSE g : Is(g)
           Screen == {t \in Screens : Shows(t)}
           F == [n \in Nat |-> [t \in Screen |-> Erased(t)]]
           P == {n \in Nat : E[n] \in Screen}
<1>1. ASSUME NEW t \in Screen PROVE Erased(t) \in Screen
  BY <1>1, EraseShows DEF Shows
<1>2. F \in [Nat -> [Screen -> Screen]] /\ s \in Screen
  BY <1>1 DEF Shows
<1>3. PICK g \in [0 .. L -> Screen] : g[0] = s /\ \A n \in 1 .. L : g[n] = F[n][g[n - 1]]
  <2> HIDE DEF F, Screen
  <2>1. \E g : Iterates(g, Screen, s, F, L)
    BY <1>2, Iteration
  <2> QED
    BY <2>1 DEF Iterates
<1>4. Is(g)
  <2>1. ASSUME NEW n \in 0 .. L PROVE g[n] = IF n = 0 THEN s ELSE Erased(g[n - 1])
    <3>1. n # 0 => n \in 1 .. L /\ n - 1 \in 0 .. L /\ n \in Nat
      OBVIOUS
    <3>2. n # 0 => g[n - 1] \in Screen
      BY <3>1
    <3> QED
      BY <1>3, <3>1, <3>2
  <2> QED
    BY <2>1
<1>5. Is(E)
  <2> HIDE DEF Is
  <2> QED
    BY <1>4
<1> HIDE DEF E, Screen
<1>6. \A n \in 0 .. L : n \in P
  <2>1. 0 \in P
    <3>1. E[0] = s
      BY <1>5
    <3> QED
      BY <1>2, <3>1
  <2>2. ASSUME NEW n \in 1 .. L, n - 1 \in P PROVE n \in P
    <3>1. E[n] = Erased(E[n - 1])
      BY <1>5
    <3> QED
      BY <1>1, <2>2, <3>1
  <2> HIDE DEF P
  <2> QED
    BY <2>1, <2>2, Induction
<1>7. E[L] \in Screen
  BY <1>6
<1> QED
  BY <1>7 DEF E, Screen

LEMMA CompleteShows ==
  ASSUME NEW s, Shows(s)
  PROVE  Shows(Completed(s))
<1> DEFINE offers == Offers(s.line)
           L == Len(LastWord(s.line))
           e == (CHOOSE g : g = [n \in 0 .. L |-> IF n = 0 THEN s ELSE Erased(g[n - 1])])[L]
           before == SubSeq(s.line, 1, Len(s.line) - L)
           words == before \o CommonPrefix(offers)
           word == Appended(CursorEnd(e), CHOOSE w \in offers : TRUE)
<1>1. s \in Screens /\ s.line \in Lines /\ Len(s.line) \in Nat /\ ~s.got /\ ~s.stop
  BY LineFacts DEF Shows
<1>2. L \in Nat /\ offers \in SUBSET Keywords
  BY <1>1, LastWordIs DEF Offers
<1>3. Completed(s) = IF offers = {} THEN s
                     ELSE IF Cardinality(offers) = 1
                          THEN IF Len(word.line) < LineSize THEN Inserted(word, " ") ELSE word
                     ELSE [Redisplayed(s, words) EXCEPT !.lost = Len(words) >= LineSize - 1]
  BY DEF Completed
<1>4. Shows(e)
  <2> HIDE DEF L
  <2> QED
    BY <1>2, EraseAll
<1> HIDE DEF L, offers, e
<1>5. ASSUME offers # {} PROVE Shows(word) /\ Shows(Inserted(word, " "))
  <2>1. Len(e.line) \in 0 .. Len(e.line)
    BY <1>4, LineFacts DEF Shows
  <2>2. Shows(CursorEnd(e)) /\ CursorEnd(e).cursor = Len(CursorEnd(e).line)
    BY <1>4, <2>1, CursorShows DEF CursorEnd
  <2>3. (CHOOSE w \in offers : TRUE) \in Keywords
    BY <1>2, <1>5
  <2>4. (CHOOSE w \in offers : TRUE) \in Lines
    BY <2>3, ReadsAreLines
  <2>5. Shows(word)
    BY <2>2, <2>4, AppendShows
  <2> HIDE DEF word
  <2> QED
    BY <2>5, InsertShows, ReadsAreLines
<1>6. ASSUME offers # {} 
      PROVE  Shows([Redisplayed(s, words) EXCEPT !.lost = Len(words) >= LineSize - 1])
  <2>1. before \in Lines
    <3>1. Len(s.line) - L \in Int /\ Len(s.line) - L <= Len(s.line)
      BY <1>1, <1>2
    <3> QED
      BY <1>1, <3>1, PartIsLine
  <2>2. CommonPrefix(offers) \in Lines
    BY <1>2, <1>6, CommonIsLine
  <2>3. words \in Lines
    BY <2>1, <2>2, JoinIsLine
  <2> HIDE DEF words
  <2>4. Shows(Redisplayed(s, words))
    BY <1>1, <2>3, RedisplayShows
  <2>5. (Len(words) >= LineSize - 1) \in BOOLEAN
    OBVIOUS
  <2> QED
    BY <2>4, <2>5 DEF Shows, Screens
<1> HIDE DEF word, words
<1> QED
  BY <1>3, <1>5, <1>6

LEMMA TabShows ==
  ASSUME NEW s, Shows(s)
  PROVE  Shows(Tab(s))
<1>1. Len(s.line) \in 0 .. Len(s.line)
  BY LineFacts DEF Shows
<1>2. Shows(CursorEnd(s))
  BY <1>1, CursorShows DEF CursorEnd
<1>3. Shows(Erased(CursorEnd(s)))
  BY <1>2, EraseShows
<1> QED
  BY <1>3, CompleteShows DEF Tab

\* The keys after an escape.
LEMMA EscapeShows ==
  ASSUME NEW s, Shows(s), NEW byte
  PROVE  Shows(Escaped(s, byte))
<1> DEFINE t == [s EXCEPT !.escape = FALSE]
<1>1. s \in Screens /\ s.cursor \in Nat /\ Len(s.line) \in Nat /\ s.cursor <= Len(s.line)
  BY LineFacts DEF Shows
<1>2. Shows(t) /\ t.line = s.line
  BY DEF Shows, Screens
<1>3. Max({s.cursor - 1, 0}) \in 0 .. Len(s.line)
  <2>1. CASE s.cursor = 0
    <3>1. Max({s.cursor - 1, 0}) = 0
      BY <2>1 DEF Max
    <3> QED
      BY <1>1, <3>1
  <2>2. CASE s.cursor # 0
    <3>1. s.cursor - 1 \in 0 .. Len(s.line) /\ 0 \in 0 .. Len(s.line)
      BY <1>1, <2>2
    <3>2. {s.cursor - 1, 0} \in SUBSET (0 .. Len(s.line)) /\ {s.cursor - 1, 0} # {}
      BY <3>1
    <3>3. Max({s.cursor - 1, 0}) \in {s.cursor - 1, 0}
      BY <1>1, <3>2, GreatestNat
    <3> QED
      BY <3>1, <3>3
  <2> QED
    BY <2>1, <2>2
<1>4. Min({s.cursor + 1, Len(s.line)}) \in 0 .. Len(s.line)
  <2>1. {s.cursor + 1, Len(s.line)} \in SUBSET Nat /\ {s.cursor + 1, Len(s.line)} # {}
    BY <1>1
  <2>2. Min({s.cursor + 1, Len(s.line)}) \in {s.cursor + 1, Len(s.line)}
        /\ Min({s.cursor + 1, Len(s.line)}) <= Len(s.line)
    BY <2>1, LeastNat
  <2> QED
    BY <1>1, <2>2
<1> HIDE DEF t
<1>5. /\ Shows(CursorAt(t, Max({s.cursor - 1, 0})))
      /\ Shows(CursorAt(t, Min({s.cursor + 1, Len(s.line)})))
      /\ Shows(Deleted(t)) /\ Shows(Up(s)) /\ Shows(Down(s))
  <2>1. Shows(CursorAt(t, Max({s.cursor - 1, 0})))
    BY <1>2, <1>3, CursorShows
  <2>2. Shows(CursorAt(t, Min({s.cursor + 1, Len(s.line)})))
    BY <1>2, <1>4, CursorShows
  <2> QED
    BY <1>2, <2>1, <2>2, DeleteShows, HistoryShows
<1> QED
  BY <1>5 DEF Escaped, t

\* One byte, and those after it if it takes them along.
LEMMA ByteEnds ==
  ASSUME NEW s, Shows(s), NEW rest \in Lines, rest # << >>, NEW known \in BOOLEAN
  PROVE  Ends(OneByte(s, rest, known))
<1> DEFINE byte == rest[1]
           t == [Appended(s, rest) EXCEPT
                   !.stop = TRUE,
                   !.mixed = @ \/ s.cursor < Len(s.line) \/ ~(ToSet(rest) \subseteq Letters)]
<1>1. byte \in Bytes
  BY DEF Lines
<1>2. \A u : Shows(u) => Ends(u)
  BY DEF Ends, Shows
<1>3. /\ Ends(Received(Remembered(s))) /\ Ends(Instead(s, << >>))
      /\ Ends(Instead(s, <<"end">>)) /\ Ends(Instead(s, <<"exit">>))
  BY ReceiveEnds, ReadsAreLines
<1>d. Ends(Described(s, known))
  <2>1. Shows(Redisplayed(s, s.line))
    BY RedisplayShows, LineFacts DEF Shows
  <2> QED
    BY <1>2, <2>1 DEF Described
<1>4. Ends(Tab(s)) /\ Ends(Erased(s)) /\ Ends(Escaped(s, byte)) /\ Ends(Inserted(s, byte))
  <2>1. Shows(Inserted(s, byte))
    BY <1>1, InsertShows
  <2> QED
    BY <1>2, <2>1, TabShows, EraseShows, EscapeShows
<1>5. Ends([s EXCEPT !.escape = TRUE])
  <2>1. Shows([s EXCEPT !.escape = TRUE])
    BY DEF Shows, Screens
  <2> QED
    BY <1>2, <2>1
<1>6. Ends(t)
  <2> DEFINE u == Appended(s, rest)
  <2>1. u \in Screens /\ u.cursor <= Len(u.line) /\ u.mixed \in BOOLEAN
        /\ (u.format => HasFormat(u.line))
    BY AppendStays
  <2>2. s.cursor = Len(s.line) => u.row = u.line /\ u.column = u.cursor
    BY AppendShows DEF Shows
  <2>3. s.cursor \in Nat /\ Len(s.line) \in Nat /\ s.cursor <= Len(s.line)
    BY LineFacts DEF Shows
  <2> HIDE DEF u
  <2> DEFINE b == u.mixed \/ s.cursor < Len(s.line) \/ ~(ToSet(rest) \subseteq Letters)
             v == [u EXCEPT !.stop = TRUE, !.mixed = b]
  <2>4. v \in Screens
    <3>1. b \in BOOLEAN
      OBVIOUS
    <3> HIDE DEF b
    <3> QED
      BY <2>1, <3>1 DEF Screens
  <2>5. v.line = u.line /\ v.cursor = u.cursor /\ v.row = u.row /\ v.column = u.column /\ v.stop /\ v.mixed = b
        /\ v.format = u.format
    <3> HIDE DEF b
    <3> QED
      BY <2>1 DEF Screens
  <2>6. t = v
    BY DEF u
  <2>7. ~b => s.cursor = Len(s.line)
    BY <2>3
  <2> HIDE DEF t, v, b
  <2> QED
    BY <2>1, <2>2, <2>4, <2>5, <2>6, <2>7 DEF Ends
<1> HIDE DEF t
<1> QED
  BY <1>3, <1>4, <1>5, <1>6, <1>d DEF OneByte, t

\* All bytes of a read.
LEMMA BytesEnd ==
  ASSUME Shows(State), NEW bytes \in Reads, NEW known \in BOOLEAN
  PROVE  Ends(AfterBytes(bytes, known))
<1> DEFINE L == Len(bytes)
           after(t, n) == IF t.stop \/ t.lost THEN t ELSE OneByte(t, SubSeq(bytes, n, L), known)
           Is(g) == g = [n \in 0 .. L |-> IF n = 0 THEN State ELSE after(g[n - 1], n)]
           A == CHOOSE g : Is(g)
           Screen == {t \in Screens : Ends(t)}
           F == [n \in Nat |-> [t \in Screen |-> IF n \in 1 .. L THEN after(t, n) ELSE t]]
           P == {n \in Nat : A[n] \in Screen}
<1>0. bytes \in Lines /\ L \in Nat
  BY ReadsAreLines
<1>1. ASSUME NEW t \in Screen, NEW n \in 1 .. L PROVE after(t, n) \in Screen
  <2>1. SubSeq(bytes, n, L) \in Lines /\ SubSeq(bytes, n, L) # << >>
    <3>1. SubSeq(bytes, n, L) \in Lines /\ Len(SubSeq(bytes, n, L)) = L - n + 1
      BY <1>0, PartIsLine
    <3>2. L - n + 1 # 0 /\ Len(<< >>) = 0
      BY <1>0
    <3> HIDE DEF L
    <3> QED
      BY <3>1, <3>2
  <2>2. CASE ~t.stop
    <3>1. Ends(OneByte(t, SubSeq(bytes, n, L), known))
      BY <2>1, <2>2, ByteEnds DEF Ends
    <3> QED
      BY <3>1 DEF Ends
  <2>3. CASE t.stop
    BY <2>3
  <2> QED
    BY <2>2, <2>3
<1>2. State \in Screen
  BY DEF Ends, Shows
<1>3. F \in [Nat -> [Screen -> Screen]]
  <2> HIDE DEF after, Screen
  <2> QED
    BY <1>1
<1>4. PICK g : Iterates(g, Screen, State, F, L)
  <2> HIDE DEF F, Screen
  <2> QED
    BY <1>0, <1>2, <1>3, Iteration
<1> HIDE DEF after
<1>5. Is(g)
  <2>1. ASSUME NEW n \in 0 .. L PROVE g[n] = IF n = 0 THEN State ELSE after(g[n - 1], n)
    <3>1. n # 0 => n \in 1 .. L /\ n - 1 \in 0 .. L /\ n \in Nat
      BY <1>0
    <3>2. n # 0 => g[n - 1] \in Screen
      BY <1>4, <3>1 DEF Iterates
    <3> QED
      BY <1>4, <3>1, <3>2 DEF Iterates
  <2>2. DOMAIN g = 0 .. L /\ g = [n \in DOMAIN g |-> g[n]]
    BY <1>4 DEF Iterates
  <2> HIDE DEF F, Screen
  <2> QED
    BY <2>1, <2>2
<1>6. Is(A)
  <2> HIDE DEF Is
  <2> QED
    BY <1>5
<1> HIDE DEF A, Screen
<1>7. \A n \in 0 .. L : n \in P
  <2>1. 0 \in P
    <3>1. A[0] = State
      BY <1>0, <1>6
    <3> QED
      BY <1>2, <3>1
  <2>2. ASSUME NEW n \in 1 .. L, n - 1 \in P PROVE n \in P
    <3>1. A[n] = after(A[n - 1], n)
      BY <1>0, <1>6
    <3> QED
      BY <1>0, <1>1, <2>2, <3>1
  <2> HIDE DEF P
  <2> QED
    BY <1>0, <2>1, <2>2, Induction
<1>8. A[L] \in Screen
  BY <1>0, <1>7
<1>9. AfterBytes(bytes, known) = A[L]
  BY DEF AfterBytes, A, after
<1> QED
  BY <1>8, <1>9 DEF Screen

\* Between two reads.
EditInv ==
  /\ vtyLine \in Lines /\ vtyCursor \in 0 .. Len(vtyLine)
  /\ vtyRow = vtyLine /\ vtyColumn = vtyCursor
  /\ vtyHistory \in Seq(Lines) /\ vtyBack \in Int
  /\ vtyEscape \in BOOLEAN /\ vtyMixed \in BOOLEAN /\ vtyLost \in BOOLEAN /\ vtySize \in Nat
  /\ vtyFormat \in BOOLEAN /\ (vtyFormat => HasFormat(vtyLine))

LEMMA EditInitial == EditInit => EditInv
<1> SUFFICES ASSUME EditInit PROVE EditInv
  OBVIOUS
<1>1. << >> \in Lines /\ << >> \in Seq(Lines) /\ Len(<< >>) = 0
  BY ReadsAreLines, EmptySeq
<1>2. vtySize \in Nat /\ vtyBack \in Int
  BY EditorAssumption DEF EditInit, None
<1>3. vtyLine = << >> /\ vtyCursor = 0 /\ vtyRow = << >> /\ vtyColumn = 0 /\ vtyHistory = << >>
  BY DEF EditInit
<1>4. vtyLine \in Lines /\ vtyCursor \in 0 .. Len(vtyLine) /\ vtyHistory \in Seq(Lines)
  BY <1>1, <1>3
<1>5. vtyEscape \in BOOLEAN /\ vtyMixed \in BOOLEAN /\ vtyLost \in BOOLEAN /\ vtyFormat = FALSE
  BY DEF EditInit
<1> QED
  BY <1>2, <1>3, <1>4, <1>5 DEF EditInv

LEMMA TakesInKeeps ==
  ASSUME EditInv, NEW bytes \in Reads, NEW known \in BOOLEAN, TakesIn(bytes, known)
  PROVE  EditInv'
<1> DEFINE s == AfterBytes(bytes, known)
<1>1. Shows(State)
  <2>1. State \in Screens
    BY DEF EditInv, State, Screens, Lines
  <2> QED
    BY <2>1 DEF EditInv, State, Shows, Lines
<1>2. Ends(s)
  BY <1>1, BytesEnd
<1>3. /\ s \in Screens /\ s.cursor <= Len(s.line)
      /\ ~s.got /\ ~s.mixed => s.row = s.line /\ s.column = s.cursor
      /\ ~s.got /\ s.format => HasFormat(s.line)
  <2> HIDE DEF s
  <2> QED
    BY <1>2 DEF Ends
<1>4. /\ s.line \in Lines /\ s.cursor \in 0 .. Len(s.line) /\ s.history \in Seq(Lines) /\ s.back \in Int
      /\ s.escape \in BOOLEAN /\ s.mixed \in BOOLEAN /\ s.lost \in BOOLEAN /\ s.got \in BOOLEAN
      /\ s.format \in BOOLEAN
  <2> HIDE DEF s
  <2> QED
    BY <1>3, LineFacts
<1>5. << >> \in Lines /\ Len(<< >>) = 0
  BY ReadsAreLines
<1>6. /\ vtyLine' = (IF s.got THEN << >> ELSE s.line)
      /\ vtyCursor' = (IF s.got THEN 0 ELSE s.cursor)
      /\ vtyRow' = (IF s.got THEN << >> ELSE IF s.mixed \/ s.format THEN s.line ELSE s.row)
      /\ vtyColumn' = (IF s.got THEN 0 ELSE IF s.mixed \/ s.format THEN s.cursor ELSE s.column)
      /\ vtyHistory' = s.history /\ vtyBack' = s.back /\ vtyEscape' = s.escape
      /\ vtyMixed' = (s.mixed /\ ~s.got) /\ vtyLost' = s.lost /\ vtySize' = vtySize
      /\ vtyFormat' = (s.format /\ ~s.got)
  BY DEF TakesIn
<1> HIDE DEF s
<1>7. vtyLine' \in Lines /\ vtyCursor' \in 0 .. Len(vtyLine') /\ vtyRow' = vtyLine' /\ vtyColumn' = vtyCursor'
  BY <1>3, <1>4, <1>5, <1>6
<1>8. /\ vtyHistory' \in Seq(Lines) /\ vtyBack' \in Int /\ vtySize' \in Nat
      /\ vtyEscape' \in BOOLEAN /\ vtyMixed' \in BOOLEAN /\ vtyLost' \in BOOLEAN
  BY <1>4, <1>6 DEF EditInv
<1>9. vtyFormat' \in BOOLEAN /\ (vtyFormat' => HasFormat(vtyLine'))
  BY <1>3, <1>4, <1>6
<1> QED
  BY <1>7, <1>8, <1>9 DEF EditInv

LEMMA EditKeeps == EditInv /\ [EditNext]_editVars => EditInv'
<1> SUFFICES ASSUME EditInv, [EditNext]_editVars PROVE EditInv'
  OBVIOUS
<1>1. ASSUME NEW bytes \in Reads, NEW known \in BOOLEAN, TakesIn(bytes, known) PROVE EditInv'
  BY <1>1, TakesInKeeps
<1>2. ASSUME NEW size \in HistorySizes, SetHistorySize(size) PROVE EditInv'
  <2>1. size \in Nat
    BY EditorAssumption
  <2>2. vtyHistory' \in Seq(Lines)
    <3> DEFINE n == Min({size, Len(vtyHistory)})
    <3>1. n \in Nat /\ n <= Len(vtyHistory)
      <4>1. {size, Len(vtyHistory)} \in SUBSET Nat /\ {size, Len(vtyHistory)} # {}
        BY <2>1 DEF EditInv
      <4> QED
        BY <4>1, LeastNat
    <3>2. vtyHistory' = SubSeq(vtyHistory, 1, n)
      BY <1>2 DEF SetHistorySize
    <3> HIDE DEF n
    <3>3. \A i \in 1 .. n : vtyHistory[i] \in Lines
      BY <3>1 DEF EditInv
    <3> QED
      BY <3>1, <3>2, <3>3, SubSeqProperties
  <2> QED
    BY <1>2, <2>1, <2>2 DEF SetHistorySize, EditInv
<1>3. CASE ClearHistory
  BY <1>3 DEF ClearHistory, EditInv, None
<1>4. CASE UNCHANGED editVars
  BY <1>4 DEF editVars, EditInv
<1> QED
  BY <1>1, <1>2, <1>3, <1>4 DEF EditNext

\* Whatever keys come, in whatever reads that leave the buffer whole: what the screen shows is
\* what RETURN will run, but for characters that came several at a time while the cursor was
\* inside the line, and for lines with a '%' that were redrawn, until they are next redrawn.
THEOREM ScreenAlwaysShowsLine == EditSpec => []ScreenShowsLine
<1>1. EditInv => ScreenShowsLine
  BY DEF EditInv, ScreenShowsLine
<1> QED
  BY <1>1, EditInitial, EditKeeps, PTL DEF EditSpec

-----------------------------------------------------------------------------
\* The paths of commands.
Options == DOMAIN Kind

LEMMA SameInterval == ASSUME NEW m \in Nat, NEW n \in Nat, 1 .. m = 1 .. n PROVE m = n
<1>1. m # n => (m > n /\ m \in 1 .. m /\ m \notin 1 .. n) \/ (n > m /\ n \in 1 .. n /\ n \notin 1 .. m)
  OBVIOUS
<1> QED
  BY <1>1

LEMMA PathIs ==
  ASSUME NEW command \in Installed, NEW path \in Paths(command)
  PROVE  path \in Seq(Options) /\ path # << >> /\ Len(path) \in Nat \ {0} /\ path \in AllPaths
<1>1. command \in Seq(SUBSET Options) /\ command # << >>
  BY ConsoleAssumption DEF Options
<1>2. DOMAIN command = 1 .. Len(command) /\ Len(command) \in Nat \ {0}
  BY <1>1, EmptySeq
<1>3. /\ path \in [DOMAIN command -> UNION ToSet(command)]
      /\ \A i \in DOMAIN command : path[i] \in command[i]
  BY DEF Paths, PathsOf
<1>4. \A i \in 1 .. Len(command) : path[i] \in Options
  BY <1>1, <1>2, <1>3
<1>5. path \in [1 .. Len(command) -> Options]
  BY <1>2, <1>3, <1>4
<1>6. path \in Seq(Options) /\ Len(path) = Len(command)
  <2>1. path \in Seq(Options)
    BY <1>2, <1>5, SeqDef
  <2>2. DOMAIN path = 1 .. Len(path) /\ Len(path) \in Nat
    BY <2>1
  <2>3. 1 .. Len(path) = 1 .. Len(command)
    BY <1>5, <2>2
  <2>4. Len(path) = Len(command)
    BY <1>2, <2>2, <2>3, SameInterval
  <2> QED
    BY <2>1, <2>4
<1>7. path \in AllPaths
  BY DEF AllPaths
<1> QED
  BY <1>2, <1>6, <1>7, EmptySeq

\* What is on the way to a path.
LEMMA StartIs ==
  ASSUME NEW other \in Seq(Options), NEW path \in Starts(other)
  PROVE  /\ path \in Seq(Options) /\ Len(path) <= Len(other) /\ path = SubSeq(other, 1, Len(path))
         /\ \A i \in 1 .. Len(path) : path[i] = other[i]
<1>1. PICK n \in 0 .. Len(other) : path = SubSeq(other, 1, n)
  BY DEF Starts
<1> QED
  BY <1>1

LEMMA StartOf ==
  ASSUME NEW other \in Seq(Options), NEW n \in 0 .. Len(other)
  PROVE  SubSeq(other, 1, n) \in Starts(other) /\ other \in Starts(other)
<1>1. other = SubSeq(other, 1, Len(other)) /\ Len(other) \in 0 .. Len(other)
  OBVIOUS
<1> QED
  BY <1>1 DEF Starts

LEMMA StepOf ==
  ASSUME NEW other \in Seq(Options), NEW path \in Seq(Options), NEW option,
         Append(path, option) \in Starts(other)
  PROVE  /\ option \in Options /\ Len(path) + 1 \in 1 .. Len(other)
         /\ other[Len(path) + 1] = option /\ SubSeq(other, 1, Len(path)) = path
<1> DEFINE next == Append(path, option)
           n == Len(path)
<1>1. n \in Nat
  OBVIOUS
<1>2. PICK m \in 0 .. Len(other) : next = SubSeq(other, 1, m)
  BY DEF Starts
<1>3. Len(next) = m /\ next \in Seq(Options) /\ \A i \in 1 .. m : next[i] = other[i]
  BY <1>2
<1>4. DOMAIN next = 1 .. n + 1 /\ next[n + 1] = option /\ \A i \in 1 .. n : next[i] = path[i]
  OBVIOUS
<1>5. m = n + 1
  <2>1. 1 .. m = 1 .. n + 1 /\ m \in Nat
    BY <1>3, <1>4
  <2> QED
    BY <1>1, <2>1
<1>6. SubSeq(other, 1, n) = path
  <2>1. SubSeq(other, 1, n) \in Seq(Options) /\ Len(SubSeq(other, 1, n)) = n
    BY <1>2, <1>5
  <2>2. \A i \in 1 .. n : SubSeq(other, 1, n)[i] = path[i]
    BY <1>1, <1>3, <1>4, <1>5
  <2> QED
    BY <2>1, <2>2, SeqEqual
<1> QED
  BY <1>1, <1>2, <1>3, <1>4, <1>5, <1>6

-----------------------------------------------------------------------------
\* The tree: its nodes are on the way to the paths of what was installed, and the <cr> of a
\* path is of the first command that had the path or went over it.
Begun(done, path) == {i \in DOMAIN done : \E other \in Paths(done[i]) : path \in Starts(other)}

TreeInv ==
  /\ cliDone \in Seq(Installed)
  /\ cliNodes = {<< >>} \cup UNION {UNION {Starts(path) : path \in Paths(cliDone[i])} : i \in DOMAIN cliDone}
  /\ DOMAIN cliEnds = {path \in cliNodes \ {<< >>} : path \in Paths(cliDone[Min(Before(path))])}
  /\ \A path \in DOMAIN cliEnds : cliEnds[path] = cliDone[Min(Before(path))]

LEMMA BegunIs == \A path : Before(path) = Begun(cliDone, path)
BY DEF Before, Begun

\* The nodes of the tree.
LEMMA NodeIs ==
  ASSUME TreeInv
  PROVE  /\ cliNodes \subseteq Seq(Options)
         /\ \A path \in cliNodes \ {<< >>} : Before(path) # {}
         /\ \A path : Before(path) # {} => path \in cliNodes
         /\ \A path : Before(path) \in SUBSET Nat /\ Before(path) \in SUBSET (DOMAIN cliDone)
<1>1. \A i \in DOMAIN cliDone : i \in Nat /\ cliDone[i] \in Installed
  BY DEF TreeInv
<1>2. ASSUME NEW i \in DOMAIN cliDone, NEW other \in Paths(cliDone[i]), NEW path \in Starts(other)
      PROVE  path \in Seq(Options)
  <2>1. other \in Seq(Options)
    BY <1>1, PathIs
  <2> QED
    BY <2>1, StartIs
<1>3. cliNodes \subseteq Seq(Options)
  <2>1. << >> \in Seq(Options)
    BY EmptySeq
  <2>2. ASSUME NEW path \in cliNodes PROVE path \in Seq(Options)
    <3>1. \/ path = << >>
          \/ \E i \in DOMAIN cliDone : \E other \in Paths(cliDone[i]) : path \in Starts(other)
      BY DEF TreeInv
    <3> QED
      BY <1>2, <2>1, <3>1
  <2> QED
    BY <2>2
<1>4. \A path \in cliNodes \ {<< >>} : Before(path) # {}
  BY DEF TreeInv, Before
<1>5. ASSUME NEW path, Before(path) # {} PROVE path \in cliNodes
  BY <1>5 DEF TreeInv, Before
<1>6. \A path : Before(path) \in SUBSET (DOMAIN cliDone)
  BY DEF Before
<1> QED
  BY <1>1, <1>3, <1>4, <1>5, <1>6

\* What is installed later does not come before.
LEMMA BegunNext ==
  ASSUME NEW done \in Seq(Installed), NEW command \in Installed, NEW path
  PROVE  LET later == Begun(Append(done, command), path)
             n == Len(done) + 1
         IN /\ later = IF \E other \in Paths(command) : path \in Starts(other)
                         THEN Begun(done, path) \cup {n} ELSE Begun(done, path)
            /\ Begun(done, path) \in SUBSET (1 .. n - 1)
            /\ Begun(done, path) # {} => Min(later) = Min(Begun(done, path))
            /\ Begun(done, path) = {} /\ later # {} => Min(later) = n
<1> DEFINE b == Begun(done, path)
           n == Len(done) + 1
           next == Append(done, command)
           later == Begun(next, path)
<1>1. n \in Nat /\ DOMAIN done = 1 .. n - 1 /\ DOMAIN next = (1 .. n - 1) \cup {n}
      /\ next[n] = command /\ \A i \in 1 .. n - 1 : next[i] = done[i]
  OBVIOUS
<1>2. later = IF \E other \in Paths(command) : path \in Starts(other) THEN b \cup {n} ELSE b
  <2> HIDE DEF n, next
  <2> QED
    BY <1>1 DEF Begun
<1>3. b \in SUBSET (1 .. n - 1)
  <2> HIDE DEF n
  <2> QED
    BY <1>1 DEF Begun
<1> HIDE DEF n, b, later
<1>4. b \in SUBSET Nat /\ later \in SUBSET Nat /\ \A i \in b : i < n
  BY <1>1, <1>2, <1>3
<1>5. ASSUME b # {} PROVE Min(later) = Min(b)
  <2>1. Min(b) \in b /\ \A i \in b : Min(b) <= i
    BY <1>4, <1>5, LeastNat
  <2>2. later # {}
    BY <1>2, <1>5
  <2>3. Min(later) \in later /\ \A i \in later : Min(later) <= i
    BY <1>4, <2>2, LeastNat
  <2>4. Min(b) \in later /\ (Min(later) \in b \/ Min(later) = n)
    BY <1>2, <2>1, <2>3
  <2>5. Min(later) <= Min(b) /\ Min(b) \in Nat /\ Min(later) \in Nat /\ Min(b) < n
    BY <1>4, <2>1, <2>3, <2>4
  <2>6. CASE Min(later) \in b
    <3>1. Min(b) <= Min(later)
      BY <2>1, <2>6
    <3> QED
      BY <2>5, <3>1
  <2>7. CASE Min(later) = n
    BY <1>1, <2>5, <2>7
  <2> QED
    BY <2>4, <2>6, <2>7
<1>6. ASSUME b = {}, later # {} PROVE Min(later) = n
  <2>1. later = {n}
    BY <1>2, <1>6
  <2>2. Min(later) \in later
    BY <1>4, <1>6, LeastNat
  <2> QED
    BY <2>1, <2>2
<1> QED
  BY <1>2, <1>3, <1>5, <1>6 DEF n, b, later

LEMMA TreeInit == CliInit => TreeInv
<1> SUFFICES ASSUME CliInit PROVE TreeInv
  OBVIOUS
<1>1. cliNodes = {<< >>} /\ cliEnds = << >> /\ cliDone = << >>
  BY DEF CliInit
<1>2. DOMAIN << >> = {} /\ << >> \in Seq(Installed)
  BY EmptySeq
<1> QED
  BY <1>1, <1>2 DEF TreeInv

LEMMA TreeInstall ==
  ASSUME TreeInv, NEW command \in Installed, Install(command)
  PROVE  TreeInv'
<1> DEFINE n == Len(cliDone) + 1
           New(path) == \E other \in Paths(command) : path \in Starts(other)
<1>1. cliDone \in Seq(Installed) /\ cliDone' = Append(cliDone, command) /\ cliDone' \in Seq(Installed)
  BY DEF TreeInv, Install
<1>2. n \in Nat /\ DOMAIN cliDone = 1 .. n - 1 /\ DOMAIN cliDone' = (1 .. n - 1) \cup {n}
      /\ cliDone'[n] = command /\ \A i \in 1 .. n - 1 : cliDone'[i] = cliDone[i]
  BY <1>1
<1> HIDE DEF n
<1>3. cliNodes' = cliNodes \cup {path \in UNION {Starts(other) : other \in Paths(command)} : TRUE}
  BY DEF Install
<1>4. cliNodes' = {<< >>} \cup UNION {UNION {Starts(path) : path \in Paths(cliDone'[i])} : i \in DOMAIN cliDone'}
  BY <1>2, <1>3 DEF TreeInv
<1>5. \A path : Before(path)' = Begun(cliDone', path)
  BY DEF Before, Begun
<1>6. ASSUME NEW path
      PROVE  /\ Before(path) # {} => Min(Before(path)') = Min(Before(path)) /\ Min(Before(path)) \in 1 .. n - 1
             /\ Before(path) = {} /\ New(path) => Min(Before(path)') = n
  <2>1. Before(path) = Begun(cliDone, path)
    BY BegunIs
  <2>2. Before(path) # {} => Min(Before(path)) \in Before(path)
    <3>1. Before(path) \in SUBSET Nat
      BY NodeIs
    <3> QED
      BY <3>1, LeastNat
  <2> QED
    BY <1>1, <1>5, <2>1, <2>2, BegunNext DEF n
<1>7. \A path : path \in cliNodes' <=> path \in cliNodes \/ New(path)
  BY <1>3
<1>8. \A path : path # << >> => (path \in cliNodes <=> Before(path) # {})
  BY NodeIs
<1>9. /\ DOMAIN cliEnds' = DOMAIN cliEnds \cup NewEnds(command)
      /\ \A path \in DOMAIN cliEnds' :
           cliEnds'[path] = IF path \in NewEnds(command) THEN command ELSE cliEnds[path]
  BY DEF Install
<1>a. \A path \in Paths(command) : New(path) /\ path # << >>
  BY PathIs, StartOf
<1> HIDE DEF New
<1>b. ASSUME NEW path, path # << >>
      PROVE  /\ path \in cliNodes => (path \in DOMAIN cliEnds' <=> path \in DOMAIN cliEnds)
             /\ path \notin cliNodes => path \notin DOMAIN cliEnds
             /\ path \notin cliNodes => (path \in DOMAIN cliEnds' <=> path \in Paths(command))
  BY <1>9 DEF NewEnds, TreeInv
<1>c. << >> \notin DOMAIN cliEnds'
  BY <1>9, <1>a DEF NewEnds, TreeInv
<1>d. ASSUME NEW path, path # << >>
      PROVE  path \in DOMAIN cliEnds' <=> path \in cliNodes' /\ path \in Paths(cliDone'[Min(Before(path)')])
  <2>1. CASE path \in cliNodes
    <3>1. Min(Before(path)') = Min(Before(path)) /\ Min(Before(path)) \in 1 .. n - 1
      BY <1>6, <1>8, <1>d, <2>1
    <3>2. cliDone'[Min(Before(path)')] = cliDone[Min(Before(path))]
      BY <1>2, <3>1
    <3>3. path \in DOMAIN cliEnds <=> path \in Paths(cliDone[Min(Before(path))])
      BY <1>d, <2>1 DEF TreeInv
    <3> QED
      BY <1>7, <1>b, <1>d, <2>1, <3>2, <3>3
  <2>2. CASE path \notin cliNodes /\ New(path)
    <3>1. Min(Before(path)') = n /\ path \in cliNodes'
      BY <1>6, <1>7, <1>8, <1>d, <2>2
    <3> QED
      BY <1>2, <1>b, <1>d, <2>2, <3>1
  <2>3. CASE path \notin cliNodes /\ ~New(path)
    BY <1>7, <1>a, <1>b, <1>d, <2>3
  <2> QED
    BY <2>1, <2>2, <2>3
<1>e. ASSUME NEW path \in DOMAIN cliEnds' PROVE cliEnds'[path] = cliDone'[Min(Before(path)')]
  <2>1. path # << >>
    BY <1>c
  <2>2. CASE path \in cliNodes
    <3>1. Min(Before(path)') = Min(Before(path)) /\ Min(Before(path)) \in 1 .. n - 1
      BY <1>6, <1>8, <2>1, <2>2
    <3>2. path \in DOMAIN cliEnds /\ path \notin NewEnds(command)
      BY <1>b, <2>1, <2>2 DEF NewEnds
    <3> QED
      BY <1>2, <1>9, <3>1, <3>2 DEF TreeInv
  <2>3. CASE path \notin cliNodes
    <3>1. path \in NewEnds(command) /\ New(path)
      BY <1>a, <1>b, <2>1, <2>3 DEF NewEnds
    <3>2. Min(Before(path)') = n
      BY <1>6, <1>8, <2>1, <2>3, <3>1
    <3> QED
      BY <1>2, <1>9, <3>1, <3>2
  <2> QED
    BY <2>2, <2>3
<1>f. DOMAIN cliEnds' = {path \in cliNodes' \ {<< >>} : path \in Paths(cliDone'[Min(Before(path)')])}
  BY <1>c, <1>d
<1> QED
  BY <1>1, <1>4, <1>e, <1>f DEF TreeInv

LEMMA TreeStep == TreeInv /\ [CliNext]_cliVars => TreeInv'
<1> SUFFICES ASSUME TreeInv, [CliNext]_cliVars PROVE TreeInv'
  OBVIOUS
<1>1. ASSUME NEW command \in Installed, Install(command) PROVE TreeInv'
  BY <1>1, TreeInstall
<1>2. CASE UNCHANGED cliVars
  BY <1>2 DEF cliVars, TreeInv, Before
<1> QED
  BY <1>1, <1>2 DEF CliNext

-----------------------------------------------------------------------------
\* The search.
LEMMA MatchesAre ==
  ASSUME NEW path, NEW word
  PROVE  /\ Matches(path, word) \subseteq Children(path) /\ Matches(path, word) \subseteq Options
         /\ IsFiniteSet(Matches(path, word))
         /\ \A option \in Matches(path, word) : FitsWord(option, word)
         /\ OnlyMatch(path, word) \subseteq Matches(path, word)
         /\ \A option \in OnlyMatch(path, word) : Matches(path, word) = {option}
         /\ \A option : Matches(path, word) = {option} => OnlyMatch(path, word) = {option}
<1>1. /\ Matches(path, word) \subseteq Children(path)
      /\ \A option \in Matches(path, word) : FitsWord(option, word)
  BY DEF Matches
<1>2. Children(path) \subseteq Options
  BY DEF Children, Options
<1>3. IsFiniteSet(Matches(path, word))
  BY <1>1, <1>2, FS_Subset, ConsoleAssumption DEF Options
<1>4. Cardinality(Matches(path, word)) = 1 <=> \E x : Matches(path, word) = {x}
  BY <1>3, FS_Singleton
<1>5. OnlyMatch(path, word) \subseteq Matches(path, word)
  BY DEF OnlyMatch
<1>6. ASSUME NEW option \in OnlyMatch(path, word) PROVE Matches(path, word) = {option}
  <2>1. Cardinality(Matches(path, word)) = 1 /\ option \in Matches(path, word)
    BY DEF OnlyMatch
  <2> QED
    BY <1>4, <2>1
<1>7. ASSUME NEW option, Matches(path, word) = {option} PROVE OnlyMatch(path, word) = {option}
  BY <1>4, <1>7 DEF OnlyMatch
<1> QED
  BY <1>1, <1>2, <1>3, <1>5, <1>6, <1>7

\* A keyword in full, or what alone fits a word, is its only match.
LEMMA SoleMatch ==
  ASSUME NEW path, NEW word, NEW option \in Children(path), FitsWord(option, word),
         \/ Kind[option] = "key" /\ word = option
         \/ \A other \in Children(path) \ {option} : ~FitsWord(other, word)
  PROVE  Matches(path, word) = {option} /\ OnlyMatch(path, word) = {option}
<1>1. Matches(path, word) = {option}
  <2> DEFINE hits == {o \in Children(path) : FitsWord(o, word)}
  <2>1. option \in hits
    OBVIOUS
  <2>2. Matches(path, word) = IF word \in hits /\ Kind[word] = "key" THEN {word} ELSE hits
    BY DEF Matches
  <2>3. CASE Kind[option] = "key" /\ word = option
    BY <2>1, <2>2, <2>3
  <2>4. CASE \A other \in Children(path) \ {option} : ~FitsWord(other, word)
    <3>1. hits = {option}
      BY <2>4
    <3> QED
      BY <2>2, <3>1
  <2> QED
    BY <2>3, <2>4
<1> QED
  BY <1>1, MatchesAre

\* What the search does with its words, one after the other.
LEMMA NodesAtIs ==
  ASSUME NEW line, Len(line) \in Nat
  PROVE  /\ NodesAt(line)[0] = {<< >>}
         /\ \A n \in 1 .. Len(line) :
              NodesAt(line)[n] = UNION {LedTo(path, line[n]) : path \in NodesAt(line)[n - 1]}
         /\ \A n \in 0 .. Len(line) : NodesAt(line)[n] \subseteq Seq(Options)
<1> DEFINE L == Len(line)
           Next1(X, n) == UNION {LedTo(path, line[n]) : path \in X}
           Is(g) == g = [n \in 0 .. L |-> IF n = 0 THEN {<< >>} ELSE Next1(g[n - 1], n)]
           A == CHOOSE g : Is(g)
           S == SUBSET Seq(Options)
           F == [n \in Nat |-> [X \in S |-> Next1(X, n)]]
           P == {n \in Nat : A[n] \in S}
<1>1. ASSUME NEW X \in S, NEW n \in Nat PROVE Next1(X, n) \in S
  <2>1. ASSUME NEW path \in X, NEW next \in LedTo(path, line[n]) PROVE next \in Seq(Options)
    <3>1. PICK option \in OnlyMatch(path, line[n]) :
            next = IF Kind[option] = "line" THEN path ELSE Append(path, option)
      BY DEF LedTo
    <3>2. option \in Options
      BY MatchesAre
    <3> QED
      BY <3>1, <3>2
  <2> QED
    BY <2>1
<1>2. {<< >>} \in S
  BY EmptySeq
<1>3. F \in [Nat -> [S -> S]]
  <2> HIDE DEF Next1, S
  <2> QED
    BY <1>1
<1>4. PICK g : Iterates(g, S, {<< >>}, F, L)
  <2> HIDE DEF F, S
  <2> QED
    BY <1>2, <1>3, Iteration
<1> HIDE DEF Next1
<1>5. Is(g)
  <2>1. ASSUME NEW n \in 0 .. L PROVE g[n] = IF n = 0 THEN {<< >>} ELSE Next1(g[n - 1], n)
    <3>1. n # 0 => n \in 1 .. L /\ n - 1 \in 0 .. L /\ n \in Nat
      OBVIOUS
    <3>2. n # 0 => g[n - 1] \in S
      BY <1>4, <3>1 DEF Iterates
    <3> QED
      BY <1>4, <3>1, <3>2 DEF Iterates
  <2>2. DOMAIN g = 0 .. L /\ g = [n \in DOMAIN g |-> g[n]]
    BY <1>4 DEF Iterates
  <2> HIDE DEF F, S
  <2> QED
    BY <2>1, <2>2
<1>6. Is(A)
  <2> HIDE DEF Is
  <2> QED
    BY <1>5
<1>0. L \in Nat /\ \A n \in 1 .. L : n \in 0 .. L /\ n # 0
  OBVIOUS
<1> HIDE DEF A, S, L
<1>b. ASSUME NEW n \in 0 .. L PROVE A[n] = IF n = 0 THEN {<< >>} ELSE Next1(A[n - 1], n)
  BY <1>6
<1>8. A[0] = {<< >>} /\ \A n \in 1 .. L : A[n] = Next1(A[n - 1], n)
  BY <1>0, <1>b
<1>7. \A n \in 0 .. L : n \in P
  <2>1. 0 \in P
    <3>1. A[0] = {<< >>}
      BY <1>8
    <3> QED
      BY <1>2, <3>1
  <2>2. ASSUME NEW n \in 1 .. L, n - 1 \in P PROVE n \in P
    <3>1. A[n] = Next1(A[n - 1], n) /\ n \in Nat
      BY <1>0, <1>8
    <3> QED
      BY <1>1, <2>2, <3>1
  <2> HIDE DEF P
  <2> QED
    BY <1>0, <2>1, <2>2, Induction
<1>9. NodesAt(line) = A
  BY DEF NodesAt, A, Next1, L
<1>c. \A n \in 0 .. L : A[n] \subseteq Seq(Options)
  BY <1>7 DEF S
<1> HIDE DEF A
<1> QED
  BY <1>8, <1>9, <1>c DEF Next1, L

\* Nothing stands beside a LINE.
LEMMA LineIsAlone ==
  ASSUME TreeInv, NEW path \in Seq(Options), NEW option \in Children(path), Kind[option] = "line",
         NEW other \in Children(path)
  PROVE  other = option
<1> DEFINE k == Len(path) + 1
<1>1. k - 1 = Len(path) /\ k \in Nat
  OBVIOUS
<1>2. ASSUME NEW o \in Children(path)
      PROVE  \E q \in AllPaths : k \in DOMAIN q /\ q[k] = o /\ SubSeq(q, 1, k - 1) = path
  <2>1. Append(path, o) \in cliNodes /\ Append(path, o) # << >>
    BY DEF Children
  <2>2. PICK i \in DOMAIN cliDone : \E q \in Paths(cliDone[i]) : Append(path, o) \in Starts(q)
    BY <2>1 DEF TreeInv
  <2>3. PICK q \in Paths(cliDone[i]) : Append(path, o) \in Starts(q)
    BY <2>2
  <2>4. cliDone[i] \in Installed
    BY DEF TreeInv
  <2>5. q \in Seq(Options) /\ q \in AllPaths
    BY <2>4, PathIs
  <2>6. k \in 1 .. Len(q) /\ q[k] = o /\ SubSeq(q, 1, Len(path)) = path
    BY <2>3, <2>5, StepOf
  <2> QED
    BY <1>1, <2>5, <2>6
<1> HIDE DEF k
<1>3. PICK p \in AllPaths : k \in DOMAIN p /\ p[k] = option /\ SubSeq(p, 1, k - 1) = path
  BY <1>2
<1>4. PICK q \in AllPaths : k \in DOMAIN q /\ q[k] = other /\ SubSeq(q, 1, k - 1) = path
  BY <1>2
<1> QED
  BY <1>3, <1>4, ConsoleAssumption

LEMMA TypedIs ==
  ASSUME NEW line \in TypedLines
  PROVE  Len(line) \in Nat \ {0} /\ line \in Seq(ToSet(line))
<1>1. line \in Seq(ToSet(line)) /\ line # << >>
  BY ConsoleAssumption
<1> QED
  BY <1>1, EmptySeq

\* A node the search has come to: its options fit the words, and only a LINE takes several.
Reached(line, n, path) ==
  /\ path \in Seq(Options) /\ Len(path) <= n
  /\ \A i \in 1 .. Len(path) : FitsWord(path[i], line[i])
  /\ Len(path) < n => \E option \in Children(path) : Kind[option] = "line"

LEMMA SearchReaches ==
  ASSUME TreeInv, NEW line, Len(line) \in Nat
  PROVE  \A n \in 0 .. Len(line) :
           /\ \A path \in NodesAt(line)[n] : Reached(line, n, path)
           /\ \A path, other \in NodesAt(line)[n] : path = other
<1> DEFINE L == Len(line)
           A == NodesAt(line)
           P == {n \in Nat : /\ \A path \in A[n] : Reached(line, n, path)
                             /\ \A path, other \in A[n] : path = other}
<1>0. /\ A[0] = {<< >>}
      /\ \A n \in 1 .. L : A[n] = UNION {LedTo(path, line[n]) : path \in A[n - 1]}
  BY NodesAtIs
<1> HIDE DEF A
<1>1. 0 \in P
  <2>1. << >> \in Seq(Options) /\ Len(<< >>) = 0
    BY EmptySeq
  <2>2. Reached(line, 0, << >>)
    BY <2>1 DEF Reached
  <2> QED
    BY <1>0, <2>2
<1>2. ASSUME NEW n \in 1 .. L, n - 1 \in P PROVE n \in P
  <2>1. n \in Nat
    OBVIOUS
  <2>2. ASSUME NEW next \in A[n]
        PROVE  \E path \in A[n - 1] : \E option \in OnlyMatch(path, line[n]) :
                 next = IF Kind[option] = "line" THEN path ELSE Append(path, option)
    <3>1. PICK path \in A[n - 1] : next \in LedTo(path, line[n])
      BY <1>0
    <3> QED
      BY <3>1 DEF LedTo
  <2>3. ASSUME NEW next \in A[n] PROVE Reached(line, n, next)
    <3>0. PICK path \in A[n - 1] : \E option \in OnlyMatch(path, line[n]) :
            next = IF Kind[option] = "line" THEN path ELSE Append(path, option)
      BY <2>2
    <3>1. PICK option \in OnlyMatch(path, line[n]) :
            next = IF Kind[option] = "line" THEN path ELSE Append(path, option)
      BY <3>0
    <3>2. Reached(line, n - 1, path)
      BY <1>2
    <3>3. option \in Children(path) /\ option \in Options /\ FitsWord(option, line[n])
      BY MatchesAre
    <3>4. CASE Kind[option] = "line"
      BY <2>1, <3>1, <3>2, <3>3, <3>4 DEF Reached
    <3>5. CASE Kind[option] # "line"
      <4>1. next = Append(path, option) /\ path \in Seq(Options)
        BY <3>1, <3>2, <3>5 DEF Reached
      <4>2. Len(path) = n - 1
        <5>1. ASSUME Len(path) < n - 1 PROVE FALSE
          <6>1. PICK o \in Children(path) : Kind[o] = "line"
            BY <3>2, <5>1 DEF Reached
          <6>2. option = o
            BY <3>3, <4>1, <6>1, LineIsAlone
          <6> QED
            BY <3>5, <6>1, <6>2
        <5>2. Len(path) <= n - 1 /\ Len(path) \in Nat
          BY <3>2, <4>1 DEF Reached
        <5> QED
          BY <2>1, <5>1, <5>2
      <4>3. next \in Seq(Options) /\ Len(next) = n /\ next[n] = option
            /\ \A i \in 1 .. n - 1 : next[i] = path[i]
        BY <2>1, <3>3, <4>1, <4>2
      <4>4. ASSUME NEW i \in 1 .. n PROVE FitsWord(next[i], line[i])
        <5>1. i \in 1 .. n - 1 \/ i = n
          OBVIOUS
        <5> QED
          BY <3>2, <3>3, <4>2, <4>3, <5>1 DEF Reached
      <4> QED
        BY <2>1, <4>3, <4>4 DEF Reached
    <3> QED
      BY <3>4, <3>5
  <2>4. ASSUME NEW next \in A[n], NEW other \in A[n] PROVE next = other
    <3>a. PICK path \in A[n - 1] : \E option \in OnlyMatch(path, line[n]) :
            next = IF Kind[option] = "line" THEN path ELSE Append(path, option)
      BY <2>2
    <3>b. PICK path2 \in A[n - 1] : \E option2 \in OnlyMatch(path2, line[n]) :
            other = IF Kind[option2] = "line" THEN path2 ELSE Append(path2, option2)
      BY <2>2
    <3>1. PICK option \in OnlyMatch(path, line[n]) :
            next = IF Kind[option] = "line" THEN path ELSE Append(path, option)
      BY <3>a
    <3>2. PICK option2 \in OnlyMatch(path2, line[n]) :
            other = IF Kind[option2] = "line" THEN path2 ELSE Append(path2, option2)
      BY <3>b
    <3>3. path = path2
      BY <1>2
    <3>4. option = option2
      <4>1. Matches(path, line[n]) = {option} /\ Matches(path, line[n]) = {option2}
        BY <3>3, MatchesAre
      <4> QED
        BY <4>1
    <3> QED
      BY <3>1, <3>2, <3>3, <3>4
  <2> QED
    BY <2>1, <2>3, <2>4
<1>3. \A n \in 0 .. L : n \in P
  <2> HIDE DEF P
  <2> QED
    BY <1>1, <1>2, Induction
<1> QED
  BY <1>3 DEF A

\* What a line runs is a command that it gives.
LEMMA RunsWhatItGives ==
  ASSUME TreeInv, NEW line \in TypedLines, NEW command \in Executed(line)
  PROVE  \E path \in Paths(command) : Gives(line, path) /\ command = cliDone[Min(Before(path))]
<1> DEFINE L == Len(line)
<1>0. L \in Nat \ {0}
  BY TypedIs
<1>a. PICK path \in NodesAt(line)[L - 1] : \E option \in OnlyMatch(path, line[L]) :
            Append(path, option) \in DOMAIN cliEnds /\ command = cliEnds[Append(path, option)]
  BY DEF Executed, EndsAt
<1>1. PICK option \in OnlyMatch(path, line[L]) :
        Append(path, option) \in DOMAIN cliEnds /\ command = cliEnds[Append(path, option)]
  BY <1>a
<1> DEFINE next == Append(path, option)
<1>2. Reached(line, L - 1, path)
  BY <1>0, SearchReaches
<1>3. option \in Children(path) /\ option \in Options /\ FitsWord(option, line[L])
  BY MatchesAre
<1>4. next \in Paths(command) /\ command = cliDone[Min(Before(next))]
  BY <1>1 DEF TreeInv
<1> DEFINE k == Len(path) + 1
<1>5. path \in Seq(Options) /\ k - 1 \in Nat /\ k <= L
  BY <1>0, <1>2 DEF Reached
<1>6. next \in Seq(Options) /\ Len(next) = k /\ next[k] = option /\ Last(next) = option
      /\ DOMAIN next = 1 .. k /\ \A i \in 1 .. k - 1 : next[i] = path[i]
  BY <1>3, <1>5 DEF Last
<1>7. k < L => Kind[option] = "line"
  <2>1. SUFFICES ASSUME k < L PROVE Kind[option] = "line"
    OBVIOUS
  <2>2. PICK o \in Children(path) : Kind[o] = "line"
    BY <1>0, <1>2, <1>5, <2>1 DEF Reached
  <2> QED
    BY <1>3, <1>5, <2>2, LineIsAlone
<1>8. ASSUME NEW i \in 1 .. k PROVE FitsWord(next[i], line[i])
  <2>1. CASE i = k /\ k = L
    BY <1>3, <1>6, <2>1
  <2>2. CASE i = k /\ k # L
    <3>1. Kind[option] = "line"
      BY <1>0, <1>5, <1>7, <2>2
    <3> QED
      BY <1>6, <2>2, <3>1 DEF FitsWord
  <2>3. CASE i # k
    <3>1. i \in 1 .. Len(path) /\ i \in 1 .. k - 1
      BY <1>5, <2>3
    <3> QED
      BY <1>2, <1>6, <3>1 DEF Reached
  <2> QED
    BY <2>1, <2>2, <2>3
<1> HIDE DEF next, k
<1>9. Gives(line, next)
  BY <1>0, <1>5, <1>6, <1>7, <1>8 DEF Gives
<1> QED
  BY <1>4, <1>9

LEMMA SubSeqNext ==
  ASSUME NEW path \in Seq(Options), NEW k \in 1 .. Len(path)
  PROVE  Append(SubSeq(path, 1, k - 1), path[k]) = SubSeq(path, 1, k)
<1>1. k - 1 \in 0 .. Len(path) /\ k \in 0 .. Len(path)
  OBVIOUS
<1>2. /\ SubSeq(path, 1, k) \in Seq(Options) /\ Len(SubSeq(path, 1, k)) = k
      /\ \A j \in 1 .. k : SubSeq(path, 1, k)[j] = path[j]
  BY <1>1
<1>3. /\ SubSeq(path, 1, k - 1) \in Seq(Options) /\ Len(SubSeq(path, 1, k - 1)) = k - 1
      /\ \A j \in 1 .. k - 1 : SubSeq(path, 1, k - 1)[j] = path[j]
  BY <1>1
<1>4. path[k] \in Options
  OBVIOUS
<1> DEFINE a == SubSeq(path, 1, k)
           b == SubSeq(path, 1, k - 1)
<1> HIDE DEF a, b
<1>5. Append(b, path[k]) \in Seq(Options) /\ Len(Append(b, path[k])) = k
      /\ \A j \in 1 .. k : Append(b, path[k])[j] = path[j]
  <2>1. b \in Seq(Options) /\ Len(b) = k - 1 /\ \A j \in 1 .. k - 1 : b[j] = path[j]
    BY <1>3 DEF b
  <2> QED
    BY <1>4, <2>1
<1>6. a \in Seq(Options) /\ Len(a) = k /\ \A j \in 1 .. k : a[j] = path[j]
  BY <1>2 DEF a
<1>7. a = Append(b, path[k])
  BY <1>5, <1>6, SeqEqual
<1> QED
  BY <1>7 DEF a, b

\* Every step on the way to an installed path is a child.
LEMMA ChildOnTheWay ==
  ASSUME TreeInv, NEW i \in DOMAIN cliDone, NEW path \in Paths(cliDone[i]), NEW k \in 1 .. Len(path)
  PROVE  path[k] \in Children(SubSeq(path, 1, k - 1)) /\ path[k] \in Options
<1>1. cliDone[i] \in Installed
  BY DEF TreeInv
<1>2. path \in Seq(Options) /\ Len(path) \in Nat
  BY <1>1, PathIs
<1>3. SubSeq(path, 1, k) \in Starts(path)
  BY <1>2, StartOf
<1>4. SubSeq(path, 1, k) = Append(SubSeq(path, 1, k - 1), path[k])
  BY <1>2, SubSeqNext
<1>5. SubSeq(path, 1, k) \in cliNodes
  BY <1>3 DEF TreeInv
<1>6. path[k] \in Options
  BY <1>2
<1> QED
  BY <1>4, <1>5, <1>6 DEF Children, Options

\* A word of a path spelled out in full leads to the next node of the path.
LEMMA SpelledMatch ==
  ASSUME TreeInv, NEW line \in TypedLines, NEW i \in DOMAIN cliDone, NEW path \in Paths(cliDone[i]),
         Spells(line, path)
  PROVE  /\ \A k \in 1 .. Len(path) : OnlyMatch(SubSeq(path, 1, k - 1), line[k]) = {path[k]}
         /\ \A k \in 1 .. Len(path) - 1 : Kind[path[k]] # "line"
         /\ Kind[Last(path)] = "line" => \A m \in Len(path) .. Len(line) :
              OnlyMatch(SubSeq(path, 1, Len(path) - 1), line[m]) = {Last(path)}
         /\ Len(path) <= Len(line) /\ (Kind[Last(path)] # "line" => Len(path) = Len(line))
<1>0. cliDone[i] \in Installed
  BY DEF TreeInv
<1>1. path \in Seq(Options) /\ Len(path) \in Nat \ {0} /\ path \in AllPaths
  BY <1>0, PathIs
<1>2. DOMAIN path = 1 .. Len(path)
  BY <1>1
<1>3. ASSUME NEW k \in 1 .. Len(path)
      PROVE  OnlyMatch(SubSeq(path, 1, k - 1), line[k]) = {path[k]}
  <2>1. path[k] \in Children(SubSeq(path, 1, k - 1))
    BY ChildOnTheWay
  <2>2. FitsWord(path[k], line[k])
    BY <1>2 DEF Spells, Gives
  <2>3. \/ Kind[path[k]] = "key" /\ line[k] = path[k]
        \/ \A other \in Children(SubSeq(path, 1, k - 1)) \ {path[k]} : ~FitsWord(other, line[k])
    BY <1>2 DEF Spells
  <2> QED
    BY <2>1, <2>2, <2>3, SoleMatch
<1>4. ASSUME NEW k \in 1 .. Len(path) - 1 PROVE Kind[path[k]] # "line"
  <2>1. k \in 1 .. Len(path) /\ k # Len(path)
    BY <1>1
  <2> QED
    BY <1>1, <1>2, <2>1, ConsoleAssumption
<1>5. ASSUME Kind[Last(path)] = "line", NEW m \in Len(path) .. Len(line)
      PROVE  OnlyMatch(SubSeq(path, 1, Len(path) - 1), line[m]) = {Last(path)}
  <2>1. Last(path) = path[Len(path)] /\ Front(path) = SubSeq(path, 1, Len(path) - 1)
    BY DEF Last, Front
  <2>2. Last(path) \in Children(Front(path))
    <3>1. Len(path) \in 1 .. Len(path)
      BY <1>1
    <3> QED
      BY <2>1, <3>1, ChildOnTheWay
  <2>3. FitsWord(Last(path), line[m])
    BY <1>5 DEF FitsWord
  <2>4. \A option \in Children(Front(path)) \ {Last(path)} : ~FitsWord(option, line[m])
    BY <1>5 DEF Spells
  <2> QED
    BY <2>1, <2>2, <2>3, <2>4, SoleMatch
<1>6. Len(path) <= Len(line) /\ (Kind[Last(path)] # "line" => Len(path) = Len(line))
  <2>1. Len(line) >= Len(path) /\ Len(line) \in Nat
    BY TypedIs DEF Spells, Gives
  <2> QED
    BY <1>1, <2>1 DEF Spells, Gives
<1> QED
  BY <1>3, <1>4, <1>5, <1>6

LEMMA SpelledSearch ==
  ASSUME TreeInv, NEW line \in TypedLines, NEW i \in DOMAIN cliDone, NEW path \in Paths(cliDone[i]),
         Spells(line, path)
  PROVE  NodesAt(line)[Len(line) - 1] = {SubSeq(path, 1, Len(path) - 1)}
<1> DEFINE L == Len(line)
           K == Len(path)
           A == NodesAt(line)
           at(n) == SubSeq(path, 1, IF n < K THEN n ELSE K - 1)
           P == {n \in Nat : A[n] = {at(n)}}
<1>0. cliDone[i] \in Installed
  BY DEF TreeInv
<1>1. path \in Seq(Options) /\ K \in Nat \ {0} /\ L \in Nat \ {0}
  BY <1>0, PathIs, TypedIs
<1>2. /\ \A k \in 1 .. K : OnlyMatch(SubSeq(path, 1, k - 1), line[k]) = {path[k]}
      /\ \A k \in 1 .. K - 1 : Kind[path[k]] # "line"
      /\ Kind[Last(path)] = "line" => \A m \in K .. L :
           OnlyMatch(SubSeq(path, 1, K - 1), line[m]) = {Last(path)}
      /\ K <= L /\ (Kind[Last(path)] # "line" => K = L)
  BY SpelledMatch
<1>3. /\ A[0] = {<< >>}
      /\ \A n \in 1 .. L : A[n] = UNION {LedTo(p, line[n]) : p \in A[n - 1]}
  BY <1>1, NodesAtIs
<1>4. 0 \in P
  <2>1. SubSeq(path, 1, 0) = << >>
    BY <1>1
  <2>2. at(0) = << >>
    BY <1>1, <2>1
  <2> QED
    BY <1>3, <2>2
<1>5. ASSUME NEW n \in 1 .. L - 1, n - 1 \in P PROVE n \in P
  <2>0. n \in Nat \ {0} /\ n \in 1 .. L /\ n < L
    BY <1>1
  <2>1. A[n] = LedTo(at(n - 1), line[n])
    <3>1. A[n - 1] = {at(n - 1)}
      BY <1>5
    <3>2. A[n] = UNION {LedTo(p, line[n]) : p \in A[n - 1]}
      BY <1>3, <2>0
    <3> HIDE DEF at, A, L
    <3> QED
      BY <3>1, <3>2
  <2>2. CASE n < K
    <3>1. at(n - 1) = SubSeq(path, 1, n - 1) /\ at(n) = SubSeq(path, 1, n)
      BY <1>1, <2>0, <2>2
    <3>2. n \in 1 .. K /\ n \in 1 .. K - 1
      BY <1>1, <2>0, <2>2
    <3>3. OnlyMatch(at(n - 1), line[n]) = {path[n]} /\ Kind[path[n]] # "line"
      BY <1>2, <3>1, <3>2
    <3>4. LedTo(at(n - 1), line[n]) = {Append(at(n - 1), path[n])}
      <4> HIDE DEF at
      <4> QED
        BY <3>3 DEF LedTo
    <3>5. Append(SubSeq(path, 1, n - 1), path[n]) = SubSeq(path, 1, n)
      BY <1>1, <3>2, SubSeqNext
    <3>6. A[n] = {at(n)}
      BY <2>1, <3>1, <3>4, <3>5
    <3> QED
      BY <2>0, <3>6
  <2>3. CASE ~(n < K)
    <3>1. at(n - 1) = SubSeq(path, 1, K - 1) /\ at(n) = SubSeq(path, 1, K - 1)
      <4>1. n - 1 < K => n - 1 = K - 1
        BY <1>1, <2>0, <2>3
      <4> QED
        BY <2>3, <4>1
    <3>2. n \in K .. L /\ K # L
      BY <1>1, <2>0, <2>3
    <3>3. Kind[Last(path)] = "line" /\ OnlyMatch(at(n - 1), line[n]) = {Last(path)}
      BY <1>2, <3>1, <3>2
    <3>4. LedTo(at(n - 1), line[n]) = {at(n - 1)}
      <4> HIDE DEF at
      <4> QED
        BY <3>3 DEF LedTo
    <3>5. A[n] = {at(n)}
      BY <2>1, <3>1, <3>4
    <3> QED
      BY <2>0, <3>5
  <2> QED
    BY <2>2, <2>3
<1>6. L - 1 \in P
  <2>1. L - 1 \in Nat /\ L - 1 \in 0 .. L - 1
    BY <1>1
  <2> HIDE DEF P, L
  <2>2. \A n \in 0 .. L - 1 : n \in P
    BY <1>4, <1>5, <2>1, Induction
  <2> QED
    BY <2>1, <2>2
<1>7. at(L - 1) = SubSeq(path, 1, K - 1)
  <2>1. L - 1 < K => L - 1 = K - 1
    BY <1>1, <1>2
  <2> QED
    BY <2>1
<1> QED
  BY <1>6, <1>7

\* A path spelled out in full runs its command.
LEMMA RunsWhatIsSpelled ==
  ASSUME TreeInv, NEW line \in TypedLines, NEW i \in DOMAIN cliDone, NEW path \in Paths(cliDone[i]),
         Spells(line, path), Min(Before(path)) = i
  PROVE  Executed(line) = {cliDone[i]}
<1> DEFINE front == SubSeq(path, 1, Len(path) - 1)
<1>0. cliDone[i] \in Installed
  BY DEF TreeInv
<1>1. path \in Seq(Options) /\ path # << >> /\ Len(path) \in Nat \ {0} /\ Len(line) \in Nat \ {0}
  BY <1>0, PathIs, TypedIs
<1>2. NodesAt(line)[Len(line) - 1] = {front}
  BY SpelledSearch
<1>3. OnlyMatch(front, line[Len(line)]) = {Last(path)}
  <2>1. /\ \A k \in 1 .. Len(path) : OnlyMatch(SubSeq(path, 1, k - 1), line[k]) = {path[k]}
        /\ Kind[Last(path)] = "line" => \A m \in Len(path) .. Len(line) :
             OnlyMatch(front, line[m]) = {Last(path)}
        /\ Len(path) <= Len(line) /\ (Kind[Last(path)] # "line" => Len(path) = Len(line))
    BY SpelledMatch
  <2>2. Len(path) \in 1 .. Len(path) /\ Len(line) \in Len(path) .. Len(line)
    BY <1>1, <2>1
  <2>3. Last(path) = path[Len(path)]
    BY DEF Last
  <2> HIDE DEF front
  <2>4. CASE Kind[Last(path)] = "line"
    BY <2>1, <2>2, <2>4
  <2>5. CASE Kind[Last(path)] # "line"
    BY <2>1, <2>2, <2>3, <2>5 DEF front
  <2> QED
    BY <2>4, <2>5
<1>4. Append(front, Last(path)) = path
  <2>1. Len(path) \in 1 .. Len(path) /\ Last(path) = path[Len(path)]
    BY <1>1 DEF Last
  <2>2. SubSeq(path, 1, Len(path)) = path
    BY <1>1
  <2>3. Append(SubSeq(path, 1, Len(path) - 1), path[Len(path)]) = SubSeq(path, 1, Len(path))
    BY <1>1, <2>1, SubSeqNext
  <2> QED
    BY <2>1, <2>2, <2>3
<1>5. path \in DOMAIN cliEnds /\ cliEnds[path] = cliDone[i]
  <2>1. path \in cliNodes
    <3>1. path \in Starts(path)
      <4>1. 0 \in 0 .. Len(path)
        BY <1>1
      <4> QED
        BY <1>1, <4>1, StartOf
    <3> QED
      BY <3>1 DEF TreeInv
  <2> QED
    BY <1>1, <2>1 DEF TreeInv
<1> HIDE DEF front
<1>6. EndsAt(line, NodesAt(line)[Len(line) - 1]) = {path}
  BY <1>2, <1>3, <1>4 DEF EndsAt
<1> QED
  BY <1>5, <1>6 DEF Executed

\* The search depends on the words it has passed.
LEMMA SearchPassed ==
  ASSUME NEW line, NEW other, Len(line) \in Nat \ {0}, Len(other) = Len(line),
         \A n \in 1 .. Len(line) - 1 : other[n] = line[n]
  PROVE  NodesAt(other)[Len(line) - 1] = NodesAt(line)[Len(line) - 1]
<1> DEFINE L == Len(line)
           P == {n \in Nat : NodesAt(other)[n] = NodesAt(line)[n]}
<1>1. /\ NodesAt(line)[0] = {<< >>}
      /\ \A n \in 1 .. L : NodesAt(line)[n] = UNION {LedTo(path, line[n]) : path \in NodesAt(line)[n - 1]}
  BY NodesAtIs
<1>2. /\ NodesAt(other)[0] = {<< >>}
      /\ \A n \in 1 .. L : NodesAt(other)[n] = UNION {LedTo(path, other[n]) : path \in NodesAt(other)[n - 1]}
  BY NodesAtIs
<1>3. 0 \in P
  BY <1>1, <1>2
<1>4. ASSUME NEW n \in 1 .. L - 1, n - 1 \in P PROVE n \in P
  <2>1. n \in 1 .. L /\ n \in Nat /\ other[n] = line[n]
    OBVIOUS
  <2>2. NodesAt(other)[n - 1] = NodesAt(line)[n - 1]
    BY <1>4
  <2> HIDE DEF L
  <2>3. /\ NodesAt(line)[n] = UNION {LedTo(path, line[n]) : path \in NodesAt(line)[n - 1]}
        /\ NodesAt(other)[n] = UNION {LedTo(path, other[n]) : path \in NodesAt(other)[n - 1]}
    BY <1>1, <1>2, <2>1
  <2>4. NodesAt(other)[n] = NodesAt(line)[n]
    BY <2>1, <2>2, <2>3
  <2> QED
    BY <2>1, <2>4
<1>5. L - 1 \in Nat /\ L - 1 \in 0 .. L - 1
  OBVIOUS
<1>6. \A n \in 0 .. L - 1 : n \in P
  <2> HIDE DEF P, L
  <2> QED
    BY <1>3, <1>4, <1>5, Induction
<1> QED
  BY <1>5, <1>6

\* What TAB completes runs what it ran before.
LEMMA RunsWhatIsCompleted ==
  ASSUME TreeInv, NEW line \in TypedLines, NEW word \in Completions(line),
         Cardinality(Completions(line)) = 1
  PROVE  Executed(Append(Front(line), word)) = Executed(line)
<1> DEFINE L == Len(line)
           nodes == NodesAt(line)[L - 1]
           hits == UNION {Matches(path, line[L]) : path \in nodes}
           next == Append(Front(line), word)
<1>0. L \in Nat \ {0} /\ line \in Seq(ToSet(line))
  BY TypedIs
<1>1. \A path, other \in nodes : path = other
  BY <1>0, SearchReaches
<1>2. Len(next) = L /\ next[L] = word /\ \A n \in 1 .. L - 1 : next[n] = line[n]
  <2>1. Front(line) = SubSeq(line, 1, L - 1)
    BY DEF Front
  <2>2. Front(line) \in Seq(ToSet(line)) /\ Len(Front(line)) = L - 1
        /\ \A n \in 1 .. L - 1 : Front(line)[n] = line[n]
    <3>1. ASSUME NEW S, NEW s \in Seq(S), Len(s) # 0
          PROVE  /\ SubSeq(s, 1, Len(s) - 1) \in Seq(S) /\ Len(SubSeq(s, 1, Len(s) - 1)) = Len(s) - 1
                 /\ \A n \in 1 .. Len(s) - 1 : SubSeq(s, 1, Len(s) - 1)[n] = s[n]
      <4>1. Len(s) - 1 \in 0 .. Len(s)
        BY <3>1
      <4> DEFINE m == Len(s) - 1
      <4>2. m \in 0 .. Len(s) /\ s \in Seq(S)
        BY <3>1, <4>1
      <4> HIDE DEF m
      <4>3. SubSeq(s, 1, m) \in Seq(S) /\ Len(SubSeq(s, 1, m)) = m
        BY <4>2
      <4>4. \A n \in 1 .. m : SubSeq(s, 1, m)[n] = s[n]
        BY <4>2
      <4> QED
        BY <4>3, <4>4 DEF m
    <3>2. L # 0
      BY <1>0
    <3> QED
      BY <1>0, <2>1, <3>1, <3>2
  <2>3. Front(line) \in Seq(ToSet(line) \cup {word})
    BY <2>2, SeqMonotonic
  <2> QED
    BY <1>0, <2>2, <2>3
<1> HIDE DEF next, L
<1>3. NodesAt(next)[L - 1] = nodes
  BY <1>0, <1>2, SearchPassed DEF L
<1>4. Completions(line) = IF Cardinality(hits) = 1 /\ \E option \in hits : Kind[option] # "key"
                          THEN hits \cup {""} ELSE hits
  BY DEF Completions, L
<1>5. PICK path \in nodes : nodes = {path}
  <2>1. nodes # {}
    <3>1. CASE nodes = {}
      <4>1. hits = {}
        BY <3>1
      <4> HIDE DEF hits
      <4>2. Completions(line) = {}
        BY <1>4, <4>1
      <4> QED
        BY <4>2
    <3> QED
      BY <3>1
  <2> QED
    BY <1>1, <2>1
<1>6. hits = Matches(path, line[L])
  BY <1>5
<1> HIDE DEF hits, nodes
<1>7. IsFiniteSet(hits) /\ hits \subseteq Options /\ "" \notin hits
  BY <1>6, MatchesAre, ConsoleAssumption DEF Options
<1>8. hits = {word} /\ Kind[word] = "key"
  <2>1. PICK x : Completions(line) = {x}
    <3>1. IsFiniteSet({""}) /\ IsFiniteSet(hits \cup {""})
      BY <1>7, FS_Singleton, FS_Union
    <3>2. IsFiniteSet(Completions(line))
      BY <1>4, <1>7, <3>1
    <3> QED
      BY <3>2, FS_Singleton
  <2>2. CASE Cardinality(hits) = 1 /\ \E option \in hits : Kind[option] # "key"
    <3>1. hits \cup {""} = {x}
      BY <1>4, <2>1, <2>2
    <3>2. hits = {}
      BY <1>7, <3>1
    <3> QED
      BY <2>2, <3>2
  <2>3. CASE ~(Cardinality(hits) = 1 /\ \E option \in hits : Kind[option] # "key")
    <3>1. hits = Completions(line)
      BY <1>4, <2>3
    <3> QED
      BY <2>1, <2>3, <3>1
  <2> QED
    BY <2>2, <2>3
<1>9. OnlyMatch(path, line[L]) = {word} /\ word \in Children(path) /\ word \in Options
  <2>1. Matches(path, line[L]) = {word}
    BY <1>6, <1>8
  <2>2. \A option : Matches(path, line[L]) = {option} => OnlyMatch(path, line[L]) = {option}
    BY MatchesAre
  <2>3. Matches(path, line[L]) \subseteq Children(path) /\ Matches(path, line[L]) \subseteq Options
    BY MatchesAre
  <2> QED
    BY <2>1, <2>2, <2>3
<1>a. OnlyMatch(path, word) = {word}
  <2>1. FitsWord(word, word)
    BY <1>8, <1>9, ConsoleAssumption DEF FitsWord, Options
  <2> QED
    BY <1>8, <1>9, <2>1, SoleMatch
<1>b. EndsAt(line, nodes) = EndsAt(next, nodes)
  BY <1>2, <1>5, <1>9, <1>a DEF EndsAt, L
<1> QED
  BY <1>2, <1>3, <1>b DEF Executed, nodes, next, L

\* For every line that is typed, after any commands were installed in any order: what it
\* runs is a command that it gives, and the first installed with that path; a path spelled out
\* in full runs its command unless a longer one came before it; and what TAB completes runs
\* what it ran before (cli.c: cmd_create_tree against cmd_find_matches_worker).
THEOREM LinesRunWhatIsTyped == CliSpec => []RunsWhatIsTyped
<1>1. TreeInv => RunsWhatIsTyped
  BY RunsWhatItGives, RunsWhatIsSpelled, RunsWhatIsCompleted DEF RunsWhatIsTyped
<1> QED
  BY <1>1, TreeInit, TreeStep, PTL DEF CliSpec
=============================================================================
