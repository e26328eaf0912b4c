---------------------------- MODULE LineEditor -----------------------------
(***************************************************************************)
(* The line of a telnet session or of the standard input (libZaeUtil/vty.c,*)
(* with the screen controls of socket_io.c and vty_io.c): what the keys do *)
(* to the buffer, and what they leave on the row of the screen behind the  *)
(* prompt.  A read of the socket may bring several bytes at once.  Lines    *)
(* are written as formats, those with a '%' are written as something else. *)
(* Telnet negotiation, texts of several lines, the entry of passwords and  *)
(* rows wider than the screen are left out.                                *)
(***************************************************************************)
EXTENDS Integers, SequencesExt

CONSTANTS
  Letters,      \* characters of lines
  Reads,        \* what a read may bring: sequences of letters and keys
  Keywords,     \* words that TAB completes
  LineSize,     \* BUFSIZE
  HistorySizes  \* values of history_size

Percent == "%"
HasFormat(text) == Percent \in ToSet(text)

ASSUME EditorAssumption ==
  /\ LineSize \in Nat /\ HistorySizes \subseteq Nat
  /\ "A" \in Letters
  /\ \A word \in Keywords : Len(word) < LineSize /\ ~HasFormat(word)
  /\ \A bytes \in Reads \cup Keywords : bytes \in Seq(ToSet(bytes))

VARIABLES
  vtyLine,     \* buffer: its characters up to buf_size
  vtyCursor,   \* cursor_pos
  vtyRow,      \* history: the characters on the screen behind the prompt
  vtyColumn,   \* history: the column of the terminal's cursor, behind the prompt
  vtyHistory,  \* history, the newest line first
  vtySize,     \* history_size
  vtyBack,     \* history_index
  vtyEscape,   \* esc_sequence_started
  vtyMixed,    \* history: bytes of one read were appended that should not have been
  vtyFormat,   \* history: the row was last redrawn from a line with a '%'
  vtyLost      \* the buffer is full and has no end any more, or printf wrote into it

editVars == <<vtyLine, vtyCursor, vtyRow, vtyColumn, vtyHistory, vtySize, vtyBack, vtyEscape,
              vtyMixed, vtyFormat, vtyLost>>

None == -1    \* HISTORY_START

EditInit ==
  /\ vtyLine = << >> /\ vtyCursor = 0 /\ vtyRow = << >> /\ vtyColumn = 0 /\ vtyHistory = << >>
  /\ vtySize \in HistorySizes /\ vtyBack = None /\ vtyEscape = FALSE
  /\ vtyMixed = FALSE /\ vtyFormat = FALSE /\ vtyLost = FALSE

\* A vty between two bytes of a read.  "stop" is the break of the loop.
State == [line |-> vtyLine, cursor |-> vtyCursor, row |-> vtyRow, column |-> vtyColumn,
          history |-> vtyHistory, back |-> vtyBack, escape |-> vtyEscape, got |-> FALSE,
          mixed |-> vtyMixed, format |-> vtyFormat, lost |-> FALSE, stop |-> FALSE]

-----------------------------------------------------------------------------
\* The terminal writes over what is there.
Written(s, text) ==
  [s EXCEPT !.row = SubSeq(@, 1, s.column) \o text \o SubSeq(@, s.column + Len(text) + 1, Len(@)),
            !.column = @ + Len(text)]

\* vty_redisplay with the line erased, after which the cursors are at the end, unless printf
\* made something else of the line; and vty_restore_cursor, or the steps to the left of
\* vty_insert_char.
Redisplayed(s, line) ==
  Written([s EXCEPT !.row = << >>, !.column = 0, !.line = line, !.cursor = Len(line),
                    !.mixed = FALSE, !.format = HasFormat(line)], line)
CursorAt(s, position) == [s EXCEPT !.cursor = position, !.column = @ + position - s.cursor]
CursorEnd(s) == CursorAt(s, Len(s.line))

\* vty_insert_char: the last byte of the buffer can be taken, which was its end.
Inserted(s, char) ==
  IF s.cursor < Len(s.line)
  THEN LET line == InsertAt(s.line, s.cursor + 1, char)
       IN [CursorAt(Redisplayed(s, line), s.cursor + 1) EXCEPT !.lost = Len(line) = LineSize]
  ELSE [Written([s EXCEPT !.line = Append(@, char), !.cursor = @ + 1], <<char>>)
          EXCEPT !.lost = Len(s.line) + 1 = LineSize]

\* vty_append_size_string: to the end of the line, wherever the cursor is; and through
\* vsnprintf, without the arguments that a '%' asks for.
Appended(s, text) ==
  IF HasFormat(text) THEN [s EXCEPT !.lost = TRUE]
  ELSE IF Len(s.line) + Len(text) >= LineSize THEN s
  ELSE Written([s EXCEPT !.line = @ \o text, !.cursor = Len(s.line) + Len(text)], text)

\* vty_erase_char, and vty_delete_char
Erased(s) ==
  IF s.cursor = 0 THEN s
  ELSE CursorAt(Redisplayed(s, RemoveAt(s.line, s.cursor)), s.cursor - 1)

Deleted(s) ==
  IF s.cursor = Len(s.line) THEN s
  ELSE CursorAt(Redisplayed(s, RemoveAt(s.line, s.cursor + 1)), s.cursor)

Cleared(s) == [s EXCEPT !.line = << >>, !.cursor = 0]

-----------------------------------------------------------------------------
\* vty_add_history: a line that repeats the newest is not added.
Remembered(s) ==
  LET added == <<s.line>> \o s.history
  IN [s EXCEPT !.back = None,
               !.history = IF s.line = << >> \/ (@ # << >> /\ @[1] = s.line) THEN @
                           ELSE SubSeq(added, 1, IF Len(added) > vtySize THEN Len(added) - 1 ELSE Len(added))]

\* vty_get_history: the index may pass the oldest line by one.
Older(s) == IF s.back < Len(s.history) THEN s.back + 1 ELSE s.back
Newer(s) == IF s.back = None THEN None
            ELSE IF s.back > None THEN IF s.back = Len(s.history) THEN s.back - 2 ELSE s.back - 1
            ELSE s.back
AtIndex(s, index) == IF index > None /\ index < Len(s.history) THEN {s.history[index + 1]} ELSE {}

Up(s) ==
  LET shown == AtIndex(s, Older(s))
      moved == [s EXCEPT !.back = Older(s), !.escape = FALSE]
  IN IF shown = {} THEN moved ELSE Redisplayed(moved, CHOOSE line \in shown : TRUE)

Down_KeepsRow(s) ==
  LET shown == AtIndex(s, Newer(s))
      moved == [s EXCEPT !.back = Newer(s), !.escape = FALSE]
  IN IF shown = {} THEN Cleared(moved) ELSE Redisplayed(moved, CHOOSE line \in shown : TRUE)

Down(s) ==
  LET shown == AtIndex(s, Newer(s))
      moved == [s EXCEPT !.back = Newer(s), !.escape = FALSE]
  IN Redisplayed(moved, IF shown = {} THEN << >> ELSE CHOOSE line \in shown : TRUE)

-----------------------------------------------------------------------------
\* TAB: no completion costs the last character; a single one takes the place of as many
\* characters before the cursor as the last word has; several leave their common prefix,
\* with a space for a moment, for which the buffer may have no room.
LastWord(line) ==
  LET spaces == {0} \cup {i \in DOMAIN line : line[i] = " "} IN SubSeq(line, Max(spaces) + 1, Len(line))
Offers(line) == {word \in Keywords : IsPrefix(LastWord(line), word)}
CommonPrefix(words) ==
  LET word == CHOOSE w \in words : TRUE
  IN SubSeq(word, 1, Max({n \in 0 .. Len(word) : \A w \in words : IsPrefix(SubSeq(word, 1, n), w)}))

Completed(s) ==
  LET offers == Offers(s.line)
      erased[n \in 0 .. Len(LastWord(s.line))] == IF n = 0 THEN s ELSE Erased(erased[n - 1])
      before == SubSeq(s.line, 1, Len(s.line) - Len(LastWord(s.line)))
  IN IF offers = {} THEN s
     ELSE IF Cardinality(offers) = 1
          THEN LET word == Appended(CursorEnd(erased[Len(LastWord(s.line))]), CHOOSE w \in offers : TRUE)
               IN IF Len(word.line) < LineSize THEN Inserted(word, " ") ELSE word
     ELSE LET words == before \o CommonPrefix(offers)
          IN [Redisplayed(s, words) EXCEPT !.lost = Len(words) >= LineSize - 1]

Tab(s) == IF Offers(s.line) = {} THEN Completed(Erased(CursorEnd(s))) ELSE Completed(s)

\* A key after ESC: bytes that mean nothing are swallowed, until one that does.
Escaped(s, byte) ==
  CASE byte = "A" -> Up(s)
    [] byte = "B" -> Down(s)
    [] byte = "D" -> CursorAt([s EXCEPT !.escape = FALSE], Max({s.cursor - 1, 0}))
    [] byte = "C" -> CursorAt([s EXCEPT !.escape = FALSE], Min({s.cursor + 1, Len(s.line)}))
    [] byte = "~" -> Deleted([s EXCEPT !.escape = FALSE])
    [] OTHER -> s

Received(s) == [s EXCEPT !.got = TRUE, !.stop = TRUE]

\* Keys that put a command in the place of the line, or nothing; its echo is on the row that
\* is left behind.  "end" and "exit" are one character each here.
Instead(s, command) == Received([s EXCEPT !.line = command, !.cursor = Len(command)])

\* cli_command_describe_norl: when there is something to say of the line, that is written on
\* rows of its own and the line below.
Described(s, known) == IF known THEN Redisplayed(s, s.line) ELSE s

\* The loop of vty_read over what is left of a read, a newline at the end of which takes
\* everything before it for the newline.
OneByte(s, rest, known) ==
  LET byte == rest[1]
  IN CASE byte \in {"nl", "cr"} \/ Last(rest) = "nl" -> Received(Remembered(s))
       [] byte = "ctrl-z" -> Instead(s, <<"end">>)
       [] byte = "ctrl-d" -> Instead(s, <<"exit">>)
       [] byte = "ctrl-c" -> Instead(s, << >>)
       [] byte = "?" -> Described(s, known)
       [] byte = "tab" -> Tab(s)
       [] byte = "bs" -> Erased(s)
       [] byte = "esc" -> [s EXCEPT !.escape = TRUE]
       [] s.escape -> Escaped(s, byte)
       [] ~s.escape /\ Len(rest) = 1 /\ byte # "esc" -> Inserted(s, byte)
       [] OTHER -> [Appended(s, rest) EXCEPT
                      !.stop = TRUE,
                      !.mixed = @ \/ s.cursor < Len(s.line) \/ ~(ToSet(rest) \subseteq Letters)]

AfterBytes(bytes, known) ==
  LET after[n \in 0 .. Len(bytes)] ==
        IF n = 0 THEN State
        ELSE IF after[n - 1].stop \/ after[n - 1].lost THEN after[n - 1]
        ELSE OneByte(after[n - 1], SubSeq(bytes, n, Len(bytes)), known)
  IN after[Len(bytes)]

\* vty_read with the handler: a command that was received runs, and leaves a new row with
\* nothing behind its prompt; the buffer is cleared by the next read.  The row is not
\* followed any further while it differs from the line.
TakesIn(bytes, known) ==
  /\ ~vtyLost
  /\ LET s == AfterBytes(bytes, known)
         strays == s.mixed \/ s.format
     IN /\ vtyLine' = (IF s.got THEN << >> ELSE s.line)
        /\ vtyCursor' = (IF s.got THEN 0 ELSE s.cursor)
        /\ vtyRow' = (IF s.got THEN << >> ELSE IF strays THEN s.line ELSE s.row)
        /\ vtyColumn' = (IF s.got THEN 0 ELSE IF strays THEN s.cursor ELSE s.column)
        /\ vtyHistory' = s.history /\ vtyBack' = s.back /\ vtyEscape' = s.escape
        /\ vtyMixed' = (s.mixed /\ ~s.got) /\ vtyFormat' = (s.format /\ ~s.got)
        /\ vtyLost' = s.lost
  /\ UNCHANGED vtySize

\* cmd_set_history and cmd_clear_history
SetHistorySize(size) ==
  /\ ~vtyLost /\ vtyLine = << >> /\ vtySize' = size
  /\ vtyHistory' = SubSeq(vtyHistory, 1, Min({size, Len(vtyHistory)}))
  /\ UNCHANGED <<vtyLine, vtyCursor, vtyRow, vtyColumn, vtyBack, vtyEscape, vtyMixed,
                 vtyFormat, vtyLost>>

ClearHistory ==
  /\ ~vtyLost /\ vtyLine = << >> /\ vtyHistory' = << >> /\ vtyBack' = None
  /\ UNCHANGED <<vtyLine, vtyCursor, vtyRow, vtyColumn, vtySize, vtyEscape, vtyMixed,
                 vtyFormat, vtyLost>>

EditNext ==
  \/ \E bytes \in Reads : \E known \in (IF "?" \in ToSet(bytes) THEN BOOLEAN ELSE {FALSE}) :
       TakesIn(bytes, known)
  \/ \E size \in HistorySizes : SetHistorySize(size)
  \/ ClearHistory

EditSpec == EditInit /\ [][EditNext]_editVars

-----------------------------------------------------------------------------
\* What RETURN will run is what the screen shows, with the cursor where the next character
\* goes, after any keys in any reads that leave the buffer whole, but for two kinds of row,
\* which last until the line is next redrawn: characters that come several at a time are put
\* at the end of the line and shown at the cursor; and a line with a '%' that was redrawn is
\* not the one on the screen.  A line without a '%' is never shown as another for having had
\* one.
ScreenShowsLine ==
  ~vtyLost =>
    /\ vtyFormat => HasFormat(vtyLine)
    /\ ~vtyMixed /\ ~vtyFormat => vtyRow = vtyLine /\ vtyColumn = vtyCursor
=============================================================================
