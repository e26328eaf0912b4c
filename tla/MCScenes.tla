------------------------------ MODULE MCScenes ------------------------------
\* Three scenes: the command of "porch" waits for a device; "alarm" waits in its
\* condition and in an argument, executes "porch" from a command and as an action,
\* and uses the same argument stack; "cellar", added by hand, falls on the index
\* of "porch", so that the table grows.
EXTENDS Scenes

MCNames == {"porch", "alarm", "cellar"}
MCCrc == [n \in MCNames |-> CASE n = "porch" -> 12 [] n = "alarm" -> 20 [] n = "cellar" -> 19]
E1(op) == [op |-> op, target |-> "none"]
Exec(n) == [op |-> "exec", target |-> n]
Mail(v) == [stack |-> "Mail", name |-> "text", value |-> v]
Act(type, target, expr, env) == [type |-> type, target |-> target, expr |-> expr, env |-> env]

MCStartup ==
  << [ name |-> "porch", sources |-> <<"door", "Sensor">>, conds |-> <<E1("bad"), E1("event")>>,
       acts |-> << Act("command", "none", E1("device"), <<Mail(E1("event"))>>) >> ],
     [ name |-> "alarm", sources |-> <<"Sensor", "timer">>, conds |-> <<E1("device")>>,
       acts |-> << Act("command", "none", Exec("porch"), <<Mail(E1("device"))>>),
                   Act("scene", "porch", E1("bad"), << >>),
                   Act("script", "none", E1("bad"), <<Mail(E1("event"))>>),
                   Act("disable", "alarm", E1("bad"), << >>) >> ] >>

MCDeviceEvents == {[name |-> "door", class |-> "Sensor"]}
MCServices == {"timer"}
MCNewSources == {"door"}
MCNewConditions == {E1("event")}
MCNewActions == {Act("scene", "cellar", E1("bad"), << >>)}
MCNewArguments == {[stack |-> "List", name |-> "text", value |-> E1("event")]}
=============================================================================
