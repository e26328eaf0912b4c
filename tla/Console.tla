------------------------------ MODULE Console -------------------------------
(***************************************************************************)
(* The commands of a node of the command line (libZaeUtil/cli.c): the tree *)
(* that the installed commands grow, the search of a typed line in it, and *)
(* its completion.  A line is given as its words.                          *)
(***************************************************************************)
EXTENDS Integers, SequencesExt

CONSTANTS
  Installed,   \* the commands to install: sequences of parts, a part being a set of options
  Kind,        \* for each option, its type: "key", "word", "line" or "int"
  Short,       \* for each keyword, the words that abbreviate it, itself included
  Numbers,     \* for each INT, the words that are numbers in its range
  TypedLines   \* lines that a user types, and on the way to which TAB is pressed

VARIABLES
  cliNodes,   \* the paths from the root of the tree
  cliEnds,    \* the command of the <cr> below a path
  cliDone     \* history: the commands installed, in their order

cliVars == <<cliNodes, cliEnds, cliDone>>

CliInit == cliNodes = {<< >>} /\ cliEnds = << >> /\ cliDone = << >>

-----------------------------------------------------------------------------
\* The paths of a command: one for each choice of its options.
PathsOf == [command \in Installed |->
  {path \in [DOMAIN command -> UNION ToSet(command)] : \A i \in DOMAIN command : path[i] \in command[i]}]
Paths(command) == PathsOf[command]
Starts(path) == {SubSeq(path, 1, n) : n \in 0 .. Len(path)}

AllPaths == UNION {Paths(command) : command \in Installed}

\* No command is empty, and a LINE ends its command and has nothing beside it: so it is in
\* every table of commands that the program installs.
ASSUME ConsoleAssumption ==
  /\ IsFiniteSet(DOMAIN Kind) /\ "" \notin DOMAIN Kind
  /\ \A option \in DOMAIN Kind : Kind[option] = "key" => option \in Short[option]
  /\ Installed \subseteq Seq(SUBSET DOMAIN Kind) \ {<< >>}
  /\ \A line \in TypedLines : line \in Seq(ToSet(line)) \ {<< >>}
  /\ \A path \in AllPaths : \A k \in DOMAIN path : Kind[path[k]] = "line" =>
       /\ k = Len(path)
       /\ \A other \in AllPaths :
            k \in DOMAIN other /\ SubSeq(other, 1, k - 1) = SubSeq(path, 1, k - 1) => other[k] = path[k]

\* cmd_create_tree with cmd_process_variadic_argument: a path that is there already, as one
\* of its own or on the way to a longer one, gets no <cr>.
NewEnds(command) == Paths(command) \ cliNodes

\* cli_install_node and cli_append_to_node
Install(command) ==
  /\ command \notin ToSet(cliDone) /\ cliDone' = Append(cliDone, command)
  /\ cliNodes' = cliNodes \cup UNION {Starts(path) : path \in Paths(command)}
  /\ cliEnds' = [path \in DOMAIN cliEnds \cup NewEnds(command) |->
                   IF path \in NewEnds(command) THEN command ELSE cliEnds[path]]

CliNext == \E command \in Installed : Install(command)

CliSpec == CliInit /\ [][CliNext]_cliVars

-----------------------------------------------------------------------------
FitsWord(option, word) ==
  CASE Kind[option] = "key" -> word \in Short[option]
    [] Kind[option] = "int" -> word \in Numbers[option]
    [] OTHER -> TRUE

Children(path) == {option \in DOMAIN Kind : Append(path, option) \in cliNodes}

\* cmd_find_matches_worker: a keyword in full drops the other matches.
Matches_AllPartial(path, word) == {option \in Children(path) : FitsWord(option, word)}

Matches(path, word) ==
  LET hits == {option \in Children(path) : FitsWord(option, word)}
  IN IF word \in hits /\ Kind[word] = "key" THEN {word} ELSE hits

\* A word leads on when it has a single match, to the node below it; but a LINE stays.
OnlyMatch(path, word) == {option \in Matches(path, word) : Cardinality(Matches(path, word)) = 1}
LedTo(path, word) ==
  {IF Kind[option] = "line" THEN path ELSE Append(path, option) : option \in OnlyMatch(path, word)}

\* Where the search looks for the next word after n words.
NodesAt(line) ==
  LET at[n \in 0 .. Len(line)] ==
        IF n = 0 THEN {<< >>} ELSE UNION {LedTo(path, line[n]) : path \in at[n - 1]}
  IN at

\* cli_get_custom_command: the command of CMD_FULL_MATCH, or nothing.
EndsAt(line, nodes) ==
  UNION {{Append(path, option) : option \in OnlyMatch(path, line[Len(line)])} : path \in nodes}
Executed(line) ==
  {cliEnds[path] : path \in EndsAt(line, NodesAt(line)[Len(line) - 1]) \cap DOMAIN cliEnds}

\* cmd_find_matches: what the last word may become.  A single option that is no keyword is
\* offered together with an empty string, so that it is not taken for the word.
Completions(line) ==
  LET hits == UNION {Matches(path, line[Len(line)]) : path \in NodesAt(line)[Len(line) - 1]}
  IN IF Cardinality(hits) = 1 /\ \E option \in hits : Kind[option] # "key" THEN hits \cup {""} ELSE hits

-----------------------------------------------------------------------------
\* The line gives a word for every part of the path, and any number for a LINE.
Gives(line, path) ==
  /\ Len(line) >= Len(path)
  /\ Kind[Last(path)] # "line" => Len(line) = Len(path)
  /\ \A i \in DOMAIN path : FitsWord(path[i], line[i])

\* The path the line spells out in full: its keywords are not abbreviated, and nothing that
\* stands beside one of its arguments fits the argument's word as well.
Spells(line, path) ==
  /\ Gives(line, path)
  /\ \A i \in DOMAIN path :
       LET beside == Children(SubSeq(path, 1, i - 1))
       IN IF Kind[path[i]] = "key" THEN line[i] = path[i]
          ELSE \A option \in beside \ {path[i]} : ~FitsWord(option, line[i])
  /\ Kind[Last(path)] = "line" =>
       \A i \in Len(path) .. Len(line) : \A option \in Children(Front(path)) \ {Last(path)} :
         ~FitsWord(option, line[i])

Before(path) == {i \in DOMAIN cliDone : \E other \in Paths(cliDone[i]) : path \in Starts(other)}

\* What a line runs is a command that it gives, and the first installed with that path; a
\* path spelled out in full runs its command, unless a longer command was installed before
\* it; and a word that TAB completes runs what it ran before.
RunsWhatIsTyped ==
  cliDone # << >> => \A line \in TypedLines :
    /\ \A command \in Executed(line) : \E path \in Paths(command) :
         Gives(line, path) /\ command = cliDone[Min(Before(path))]
    /\ \A i \in DOMAIN cliDone : \A path \in Paths(cliDone[i]) :
         Spells(line, path) /\ Min(Before(path)) = i => Executed(line) = {cliDone[i]}
    /\ \A word \in Completions(line) :
         Cardinality(Completions(line)) = 1 =>
           Executed(Append(Front(line), word)) = Executed(line)
=============================================================================
