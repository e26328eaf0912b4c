---------------------------- MODULE SceneConfig ----------------------------
(***************************************************************************)
(* The configuration of scenes (cli_scene.c, scene.c, scene_action.c) by   *)
(* several sessions, and how it lives on (cli_commands.c): it is saved as  *)
(* the commands that make it, and a start of the program types them again. *)
(* A node of the command line (root, scene, script, command) belongs to a  *)
(* session, but what was entered there is kept in the node, for all.       *)
(* A line is a command and its words; words typed within quotes hold blanks,*)
(* and are written without the quotes.                                     *)
(***************************************************************************)
EXTENDS ListWalk

CONSTANTS
  Editors,    \* sessions of the command line
  EditLines,  \* what they type: [cmd, args], args the words of each argument
  StartupFiles,  \* the startup-config files the program may begin with: sequences of lines
  MaxEdits,   \* bound: lines typed
  MaxSaves    \* bound: saves begun

\* The two commands that make an entry have their parts (cli_scene.c:94, 101).
HasParts(line) ==
  /\ line.cmd = "environment" => line.args = <<line.args[1], line.args[2]>>
  /\ line.cmd = "argument" => line.args = <<line.args[1], line.args[2], line.args[3]>>

ASSUME EditAssumption ==
  /\ MaxEdits \in Nat /\ MaxSaves \in Nat
  /\ \A line \in EditLines : HasParts(line)
  /\ \A file \in StartupFiles : file \in Seq(ToSet(file)) /\ \A line \in ToSet(file) : HasParts(line)

VARIABLES
  cfgUp,      \* the program runs
  cfgMade,    \* scene_table, and the context of the three nodes: see Blank
  cfgNode,    \* current_node of each session
  cfgFile,    \* startup-config: its lines
  cfgBackup,  \* startup-config.backup
  cfgSaved,   \* what the last save that was completed wrote
  cfgCut,     \* how many saves were cut short since
  cfgEdits, cfgSaves  \* counted for the bounds

cfgVars == <<cfgUp, cfgMade, cfgNode, cfgFile, cfgBackup, cfgSaved, cfgCut, cfgEdits, cfgSaves>>

-----------------------------------------------------------------------------
\* The lists of a scene. The paths of actions, conditions and names are sequences of words.
NewScene == [enabled |-> TRUE, sources |-> << >>, conditions |-> << >>, actions |-> << >>]
NoContext == << >>
Blank == [scenes |-> << >>, scene |-> NoContext, script |-> NoContext, command |-> NoContext]

\* What a command does: the scenes and contexts it leaves and the node it leads to, or a
\* crash, which is a use of a null pointer.
Crash == {}
Leads(made, node) == {[made |-> made, node |-> node]}

\* A command of the node scene, or below it: on the scene the node was last entered for.
Here(made) == made.scenes[made.scene]
OnScene(made, node, changed) ==
  IF made.scene \notin DOMAIN made.scenes THEN Crash
  ELSE Leads([made EXCEPT !.scenes[made.scene] = changed], node)

EnterScene(made, name) ==
  LET here == [made EXCEPT !.scene = name]
  IN Leads(IF name \in DOMAIN made.scenes THEN here
           ELSE [here EXCEPT !.scenes = [n \in DOMAIN @ \cup {name} |->
                                          IF n = name THEN NewScene ELSE @[n]]], "scene")

DelScene(made, name) ==
  Leads([made EXCEPT !.scenes = [n \in DOMAIN @ \ {name} |-> @[n]]], "root")

WithSource(list, source) == IF Contains(list, source) THEN list ELSE Append(list, source)

\* scene_add_action refuses a path the scene has, of whatever type.
WithAction(scene, type, path) ==
  IF \E i \in DOMAIN scene.actions : scene.actions[i].path = path THEN scene
  ELSE [scene EXCEPT !.actions = Append(@, [type |-> type, path |-> path, entries |-> << >>])]

\* No path is twice in a scene, so that scene_get_action_with_type is this too.
WithoutAction(scene, type, path) ==
  LET Same(i) == scene.actions[i].type = type /\ scene.actions[i].path = path
  IN [scene EXCEPT !.actions = WithoutFirst(@, {i \in DOMAIN @ : Same(i)})]

\* "action script" and "action command" take the action of that path, of any type.
EnterAction(made, type, path) ==
  OnScene([made EXCEPT ![type] = path], type, WithAction(Here(made), type, path))

\* An environment is <<name, value>>, an argument <<class, name, value>>; both kinds are in
\* one list of pointers, and a command that meets the other kind reads it as its own.
SameEntry(type, a, b) == a[1] = b[1] /\ (type = "command" => a[2] = b[2])
Entries(type, list, remove, add) ==
  WithoutFirst(list, {i \in DOMAIN list : SameEntry(type, list[i], remove)}) \o add

OnAction(made, type, remove, add) ==
  LET Changed(action) ==
        IF action.path # made[type] THEN action
        ELSE [action EXCEPT !.entries = Entries(type, @, remove, add)]
      changed == [Here(made) EXCEPT !.actions = [i \in DOMAIN @ |-> Changed(@[i])]]
  IN IF /\ made.scene \in DOMAIN made.scenes
        /\ \E i \in DOMAIN Here(made).actions : Here(made).actions[i].path = made[type]
     THEN OnScene(made, type, changed) ELSE Crash

\* "end", and "!": the context of the node that is left is forgotten, for every session.
Ends(made, node) ==
  IF node = "root" THEN Leads(made, node)
  ELSE Leads([made EXCEPT ![node] = NoContext], IF node = "scene" THEN "root" ELSE "scene")

-----------------------------------------------------------------------------
\* The commands of each node; a line that is none of them, or whose WORD is several
\* words, is an unknown command and changes nothing.
OneWord(line) == line.cmd \in {"source", "action script"} => Len(line.args) = 1

SceneCommand(made, line) ==
  LET arg == line.args
      scene == Here(made)
      changed ==
        CASE line.cmd = "enable" -> [scene EXCEPT !.enabled = TRUE]
          [] line.cmd = "no enable" -> [scene EXCEPT !.enabled = FALSE]
          [] line.cmd = "source" -> [scene EXCEPT !.sources = WithSource(@, arg)]
          [] line.cmd = "no source" -> [scene EXCEPT !.sources = WithoutFirst(@, Positions(@, arg))]
          [] line.cmd = "condition" -> [scene EXCEPT !.conditions = Append(@, arg)]
          [] line.cmd = "no condition" -> [scene EXCEPT !.conditions = WithoutFirst(@, Positions(@, arg))]
          [] line.cmd = "action scene" -> WithAction(scene, "scene", arg)
          [] line.cmd = "no action scene" -> WithoutAction(scene, "scene", arg)
          [] line.cmd = "action enable" -> WithAction(scene, "enable", arg)
          [] line.cmd = "no action enable" -> WithoutAction(scene, "enable", arg)
          [] line.cmd = "action disable" -> WithAction(scene, "disable", arg)
          [] line.cmd = "no action disable" -> WithoutAction(scene, "disable", arg)
          [] line.cmd = "no action script" -> WithoutAction(scene, "script", arg)
          [] line.cmd = "no action command" -> WithoutAction(scene, "command", arg)
  IN CASE line.cmd = "action script" -> EnterAction(made, "script", arg)
       [] line.cmd = "action command" -> EnterAction(made, "command", arg)
       [] OTHER -> OnScene(made, "scene", changed)

CommandsOf(node) ==
  CASE node = "root" -> {"scene", "no scene"}
    [] node = "scene" ->
         {"enable", "no enable", "source", "no source", "condition", "no condition",
          "action script", "action scene", "action command", "action enable", "action disable",
          "no action script", "no action scene", "no action command", "no action enable",
          "no action disable"}
    [] node = "script" -> {"environment", "no environment"}
    [] node = "command" -> {"argument", "no argument"}

Run(made, node, line, known) ==
  IF line.cmd = "end" THEN Ends(made, node)
  ELSE IF line.cmd \notin CommandsOf(node) \/ ~known THEN Leads(made, node)
  ELSE CASE line.cmd = "scene" -> EnterScene(made, line.args)
         [] line.cmd = "no scene" -> DelScene(made, line.args)
         [] line.cmd \in {"environment", "argument"} -> OnAction(made, node, line.args, <<line.args>>)
         [] line.cmd \in {"no environment", "no argument"} -> OnAction(made, node, line.args, << >>)
         [] OTHER -> SceneCommand(made, line)

-----------------------------------------------------------------------------
\* show_scene_helper: the lines that make a scene. An environment shown as an argument has
\* whatever the third field holds for its value.
Line(cmd, args) == [cmd |-> cmd, args |-> args]
Lines(cmd, list) == [i \in DOMAIN list |-> Line(cmd, list[i])]
End == Line("end", << >>)

EntryLine(type, entry) ==
  IF type = "script" THEN Line("environment", <<entry[1], entry[2]>>)
  ELSE Line("argument", IF Len(entry) = 3 THEN entry ELSE Append(entry, "garbage"))

ActionLine(action) ==
  Line([script |-> "action script", scene |-> "action scene", command |-> "action command",
        enable |-> "action enable", disable |-> "action disable"][action.type], action.path)

ShownAction_NoEnd(action) ==
  <<ActionLine(action)>> \o
  IF action.type \notin {"script", "command"} THEN << >>
  ELSE [i \in DOMAIN action.entries |-> EntryLine(action.type, action.entries[i])]

ShownAction(action) ==
  <<ActionLine(action)>> \o
  IF action.type \notin {"script", "command"} THEN << >>
  ELSE Append([i \in DOMAIN action.entries |-> EntryLine(action.type, action.entries[i])], End)

ShownScene(name, scene) ==
  <<Line("scene", name), Line(IF scene.enabled THEN "enable" ELSE "no enable", << >>)>>
  \o Lines("source", scene.sources) \o Lines("condition", scene.conditions)
  \o FlattenSeq([i \in DOMAIN scene.actions |-> ShownAction(scene.actions[i])]) \o <<End>>

Shown(scenes) ==
  LET names == SetToSeq(DOMAIN scenes)
  IN FlattenSeq([i \in DOMAIN names |-> ShownScene(names[i], scenes[names[i]])])

\* cli_load_config, in a program that has just been started. {} when it crashes.
Loaded(lines) ==
  LET at[n \in 0 .. Len(lines)] ==
        IF n = 0 THEN Leads(Blank, "root")
        ELSE UNION {Run(a.made, a.node, lines[n], OneWord(lines[n])) : a \in at[n - 1]}
  IN at[Len(lines)]

-----------------------------------------------------------------------------
CfgInit ==
  /\ cfgFile \in StartupFiles /\ cfgBackup = << >> /\ cfgSaved = cfgFile /\ cfgCut = 0
  /\ cfgUp = TRUE /\ cfgNode = [e \in Editors |-> "root"]
  /\ \E n \in Loaded(cfgFile) : cfgMade = n.made
  /\ cfgEdits = 0 /\ cfgSaves = 0

\* The program ends, and what it and its sessions held is gone.
Halts == cfgUp' = FALSE /\ cfgMade' = Blank /\ cfgNode' = [e \in Editors |-> "root"]

\* A session types a line.
Types(e, line) ==
  LET next == Run(cfgMade, cfgNode[e], line, TRUE)
  IN /\ cfgUp /\ cfgEdits < MaxEdits
     /\ line.cmd \in CommandsOf(cfgNode[e]) \cup {"end"}
     /\ IF next = Crash THEN Halts
        ELSE \E n \in next : /\ cfgMade' = n.made /\ cfgNode' = [cfgNode EXCEPT ![e] = n.node]
                             /\ UNCHANGED cfgUp
     /\ cfgEdits' = cfgEdits + 1
     /\ UNCHANGED <<cfgFile, cfgBackup, cfgSaved, cfgCut, cfgSaves>>

\* A command with a pipe, of a show: cli_set_vty puts the session back to the root.
TypesPipe(e) ==
  /\ cfgUp /\ cfgEdits < MaxEdits /\ cfgNode[e] # "root"
  /\ cfgNode' = [cfgNode EXCEPT ![e] = "root"] /\ cfgEdits' = cfgEdits + 1
  /\ UNCHANGED <<cfgUp, cfgMade, cfgFile, cfgBackup, cfgSaved, cfgCut, cfgSaves>>

\* cmd_save_running_config, from the root: the file becomes the backup, and is written anew;
\* the program may end before the last line is written.
Kept_NoRename(file, backup) == backup
Kept(file, backup) == file

Save(e) ==
  LET lines == Shown(cfgMade.scenes)
  IN /\ cfgUp /\ cfgSaves < MaxSaves /\ cfgNode[e] = "root"
     /\ cfgBackup' = Kept(cfgFile, cfgBackup)
     /\ \/ /\ cfgFile' = lines /\ cfgSaved' = lines /\ cfgCut' = 0
           /\ UNCHANGED <<cfgUp, cfgMade, cfgNode>>
        \/ \E n \in 0 .. Len(lines) - 1 :
             /\ cfgFile' = SubSeq(lines, 1, n) /\ cfgCut' = cfgCut + 1
             /\ Halts /\ UNCHANGED cfgSaved
     /\ cfgSaves' = cfgSaves + 1 /\ UNCHANGED cfgEdits

Ended == cfgUp /\ Halts /\ UNCHANGED <<cfgFile, cfgBackup, cfgSaved, cfgCut, cfgEdits, cfgSaves>>

\* The program starts again; the sessions connect anew. The backup is not looked at.
Restart ==
  /\ ~cfgUp
  /\ \E n \in Loaded(cfgFile) : cfgMade' = n.made
  /\ cfgUp' = TRUE /\ cfgNode' = [e \in Editors |-> "root"]
  /\ UNCHANGED <<cfgFile, cfgBackup, cfgSaved, cfgCut, cfgEdits, cfgSaves>>

CfgNext ==
  \/ \E e \in Editors : (\E line \in EditLines : Types(e, line)) \/ TypesPipe(e) \/ Save(e)
  \/ Ended \/ Restart

CfgSpec == CfgInit /\ [][CfgNext]_cfgVars
-----------------------------------------------------------------------------
\* A configuration that is written as it was typed: no source or script path was quoted,
\* and no action holds what was meant for an action of another type with its path, or two
\* entries of one name, which come about when it held such a thing between them.
WritableAction(action) ==
  LET fields == CASE action.type = "script" -> 2 [] action.type = "command" -> 3 [] OTHER -> 0
  IN /\ action.type = "script" => Len(action.path) = 1
     /\ \A j \in DOMAIN action.entries : Len(action.entries[j]) = fields
     /\ \A j, k \in DOMAIN action.entries :
          SameEntry(action.type, action.entries[j], action.entries[k]) => j = k

Writable(scenes) ==
  \A name \in DOMAIN scenes :
    /\ \A i \in DOMAIN scenes[name].sources : Len(scenes[name].sources[i]) = 1
    /\ \A i \in DOMAIN scenes[name].actions : WritableAction(scenes[name].actions[i])

\* Whatever the sessions typed, and however often the program was restarted on whatever part
\* of a file a save left: the scenes are those a start would make of what a save would
\* write now (show_scene_helper against the handlers of the same commands).
RestartKeepsScenes ==
  cfgUp /\ Writable(cfgMade.scenes) =>
    \E n \in Loaded(Shown(cfgMade.scenes)) : n.node = "root" /\ n.made.scenes = cfgMade.scenes

\* What the last completed save wrote is in startup-config, or, when one save was cut short
\* since, in the backup (cmd_save_running_config renames before it writes). A second cut
\* save loses it: the rename replaces the backup by the cut file.
LastSaveKept ==
  /\ cfgCut = 0 => cfgFile = cfgSaved
  /\ cfgCut = 1 => cfgBackup = cfgSaved
=============================================================================
