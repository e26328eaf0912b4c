----------------------------- MODULE MCServices -----------------------------
(***************************************************************************)
(* The parts that meet only through events and commands, checked in one    *)
(* run: a behaviour is one of one part, and the others keep still.         *)
(***************************************************************************)
EXTENDS TimerService, MCCron, WeatherCache, VirtualDevices, Surveillance, LinkedLists,
        Console, LineEditor, SceneConfig, ChildProcesses, CommandClasses, DataCallbacks,
        HashUse

VARIABLE part

Parts == {"timers", "cron", "weather", "devices", "station", "lists", "console", "editor", "config",
          "children", "commands", "callbacks", "hash"}

\* The initial values of a part that keeps still make no difference.
Init ==
  /\ part \in Parts
  /\ TimerInit /\ CronInit /\ WeatherInit /\ DeviceInit /\ SSInit /\ ListInit /\ CliInit
  /\ EditInit /\ CfgInit /\ CpInit /\ CcInit /\ ZcInit /\ HashInit
  /\ part # "weather" => /\ weatherSettings = CHOOSE s \in WeatherSettings : TRUE
                        /\ weatherTimeout = CHOOSE t \in CacheTimeouts : TRUE
  /\ part # "station" => ssSettings = CHOOSE s \in StationSettings : TRUE
  /\ part # "config" => cfgFile = << >>
  /\ part # "lists" => listIs = CHOOSE k \in {"stack", "vector"} : TRUE

\* Steps that change nothing are left out.
Next ==
  /\ UNCHANGED part
  /\ \/ /\ part = "timers" /\ TimerNext /\ timerVars' # timerVars
        /\ UNCHANGED <<cronVars, weatherVars, devVars, ssVars, listVars, cliVars,
                       editVars, cfgVars, cpVars, ccVars, zcVars, hashVars>>
     \/ /\ part = "cron" /\ CronNext /\ cronVars' # cronVars
        /\ UNCHANGED <<timerVars, weatherVars, devVars, ssVars, listVars, cliVars,
                       editVars, cfgVars, cpVars, ccVars, zcVars, hashVars>>
     \/ /\ part = "weather" /\ WeatherNext /\ weatherVars' # weatherVars
        /\ UNCHANGED <<timerVars, cronVars, devVars, ssVars, listVars, cliVars,
                       editVars, cfgVars, cpVars, ccVars, zcVars, hashVars>>
     \/ /\ part = "devices" /\ DeviceNext /\ devVars' # devVars
        /\ UNCHANGED <<timerVars, cronVars, weatherVars, ssVars, listVars, cliVars,
                       editVars, cfgVars, cpVars, ccVars, zcVars, hashVars>>
     \/ /\ part = "station" /\ SSNext /\ ssVars' # ssVars
        /\ UNCHANGED <<timerVars, cronVars, weatherVars, devVars, listVars, cliVars,
                       editVars, cfgVars, cpVars, ccVars, zcVars, hashVars>>
     \/ /\ part = "lists" /\ ListNext /\ listVars' # listVars
        /\ UNCHANGED <<timerVars, cronVars, weatherVars, devVars, ssVars, cliVars,
                       editVars, cfgVars, cpVars, ccVars, zcVars, hashVars>>
     \/ /\ part = "console" /\ CliNext /\ cliVars' # cliVars
        /\ UNCHANGED <<timerVars, cronVars, weatherVars, devVars, ssVars, listVars,
                       editVars, cfgVars, cpVars, ccVars, zcVars, hashVars>>
     \/ /\ part = "editor" /\ EditNext /\ editVars' # editVars
        /\ UNCHANGED <<timerVars, cronVars, weatherVars, devVars, ssVars, listVars,
                       cliVars, cfgVars, cpVars, ccVars, zcVars, hashVars>>
     \/ /\ part = "config" /\ CfgNext /\ cfgVars' # cfgVars
        /\ UNCHANGED <<timerVars, cronVars, weatherVars, devVars, ssVars, listVars,
                       cliVars, editVars, cpVars, ccVars, zcVars, hashVars>>
     \/ /\ part = "children" /\ CpNext /\ cpVars' # cpVars
        /\ UNCHANGED <<timerVars, cronVars, weatherVars, devVars, ssVars, listVars,
                       cliVars, editVars, cfgVars, ccVars, zcVars, hashVars>>
     \/ /\ part = "commands" /\ CcNext /\ ccVars' # ccVars
        /\ UNCHANGED <<timerVars, cronVars, weatherVars, devVars, ssVars, listVars,
                       cliVars, editVars, cfgVars, cpVars, zcVars, hashVars>>
     \/ /\ part = "callbacks" /\ ZcNext /\ zcVars' # zcVars
        /\ UNCHANGED <<timerVars, cronVars, weatherVars, devVars, ssVars, listVars,
                       cliVars, editVars, cfgVars, cpVars, ccVars, hashVars>>
     \/ /\ part = "hash" /\ HashNext /\ hashVars' # hashVars
        /\ UNCHANGED <<timerVars, cronVars, weatherVars, devVars, ssVars, listVars,
                       cliVars, editVars, cfgVars, cpVars, ccVars, zcVars>>

-----------------------------------------------------------------------------
MCTargets == {[name |-> "a", kind |-> "scene"], [name |-> "a", kind |-> "command"],
              [name |-> "b", kind |-> "scene"]}
MCCameras == {[id |-> 1, name |-> "n1"], [id |-> 2, name |-> "n2"], [id |-> 1, name |-> "n2"]}

\* Commands of the repository's kinds: one that another starts with, options, and arguments.
MCCommands ==
  { << {"show"}, {"scene"} >>, << {"show"}, {"scene"}, {"WORD"} >>,
    << {"source"}, {"VDEV", "Sensor", "WORD"} >>, << {"scene"}, {"LINE"} >>,
    << {"job"}, {"star", "INT"}, {"scene", "command"}, {"LINE"} >> }
MCKind == [option \in {"show", "scene", "source", "VDEV", "Sensor", "job", "star", "command",
                       "WORD", "LINE", "INT"} |->
  CASE option = "WORD" -> "word" [] option = "LINE" -> "line" [] option = "INT" -> "int"
    [] OTHER -> "key"]
MCShort == [option \in {o \in DOMAIN MCKind : MCKind[o] = "key"} |->
  CASE option \in {"show", "scene", "source"} -> {option, "s"}
    [] option = "VDEV" -> {option, "V"} [] OTHER -> {option}]
MCNumbers == [option \in {"INT"} |-> {"5"}]
MCLines ==
  UNION {[1 .. 2 -> {"s", "show", "scene", "5", "V", "VDEV", "source"}],
         {<<w>> : w \in {"s", "show", "source"}},
         {<<"show", "scene", w>> : w \in {"s", "5", "scene"}},
         {<<"job", w, v, "5">> : w \in {"star", "5", "V"}, v \in {"scene", "s"}},
         {<<"scene", "s", "show">>, <<"scene", "show", "scene", "5">>}}

\* Two keywords, one that the other starts with, and every kind of read the editor tells
\* apart.
MCLetters == {"a", "A", " ", "%"}
MCReads == {<<b>> : b \in {"a", "%", "cr", "bs", "tab", "ctrl-c", "ctrl-z", "ctrl-d", "?", "esc"}} \cup
  {<<"esc", "[", b>> : b \in {"A", "B", "C", "D"}} \cup
  {<<"esc", "[", "3", "~">>, <<"a", "a">>, <<"a", "nl">>, <<"a", "%">>}
MCKeywords == {<<"a">>, <<"a", "a">>}

OfEach(cmds, args) == {Line(c, args) : c \in cmds}
MCEditLines ==
  OfEach({"scene", "no scene"}, <<"x">>) \cup OfEach({"scene"}, <<"y">>)
  \cup OfEach({"end", "no enable", "enable"}, << >>)
  \cup OfEach({"source", "no source"}, <<"s">>) \cup OfEach({"condition", "no condition"}, <<"c">>)
  \cup OfEach({"action script", "no action script"}, <<"p">>)
  \cup OfEach({"action script", "action command", "no action command"}, <<"p", "q">>)
  \cup OfEach({"action scene", "no action scene", "action command"}, <<"p">>)
  \cup OfEach({"action enable", "action disable", "no action enable", "no action disable"}, <<"y">>)
  \cup OfEach({"environment"}, <<"n", "v">>) \cup OfEach({"no environment"}, <<"n">>)
  \cup OfEach({"argument"}, <<"k", "n", "v">>) \cup OfEach({"no argument"}, <<"k", "n">>)
MCStartupFiles ==
  {<< >>,
   <<Line("scene", <<"x">>), Line("enable", << >>), Line("source", <<"s">>), Line("condition", <<"c">>),
     Line("action script", <<"p">>), Line("environment", <<"n", "v">>), End,
     Line("action command", <<"p", "q">>), Line("argument", <<"k", "n", "v">>), End,
     Line("action disable", <<"y">>), End,
     Line("scene", <<"y">>), Line("no enable", << >>), End>>}

\* A method that asks and waits, one that reads and one that sends.
MCCalled == {<<"SwitchBinary", "Get">>, <<"Basic", "Get">>, <<"DoorLock", "Set">>}

\* The editing sessions are interchangeable.
Symmetry == Permutations(Editors)
=============================================================================
