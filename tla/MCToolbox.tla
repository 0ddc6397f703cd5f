------------------------------- MODULE MCToolbox ------------------------------
(***************************************************************************)
(* Small instances of the toolbox, of the pool of objects and of the tree: *)
(* every behaviour exercises one part, and the others stay as they were    *)
(* constructed.                                                            *)
(***************************************************************************)
EXTENDS Toolbox, Pool

CONSTANTS Data, MaxNodes

VARIABLES part,        \* the part that this behaviour exercises
          nodes

Tree == INSTANCE NAryTree

\* Strings of up to two cells, and objects with members of both kinds.
SmallStrings == {<<>>, <<1>>, <<1, 2>>}
FourMembers == <<"string", "value", "string", "value">>
SmallObjects == {<<s, <<1>>, t, <<2>>>> : s, t \in SmallStrings}

logVars == <<_logFilename, _currentLevel, _logFile, failbit, logPc, failed, logRace>>
observableVars == <<_value, _subscriber, walks, shown, aborted, dangling>>
eventVars == <<_events, loops, moved>>
machineVars == <<_currentS, _states, _actions, _transitions, lambdas, overtaken, replaced>>
chronoVars == <<_timestamps, misused>>
bufferVars == <<bytes, _cursor, fields, lastRead, wild>>
snapVars == <<object, snapshot, snapCursor, saved, loaded>>
singleVars == <<_instance, made, fresh, userPc, held, overlapped>>
containers == <<vars, poolVars, nodes, bufferVars>>
patterns == <<observableVars, eventVars, machineVars, snapVars>>
tools == <<logVars, chronoVars, singleVars>>
toolboxVars == <<part, containers, patterns, tools>>

\* Only the part that is exercised starts from all of its initial states.
ToolboxInit ==
  /\ part \in {"ring", "pool", "tree", "log", "observable", "event", "machine",
               "chrono", "buffer", "snapshot", "singleton"}
  /\ Init /\ Tree!Init /\ Buffer!Init /\ Event!Init /\ Chrono!Init /\ Single!Init
  /\ PoolInit /\ (part # "pool" => size = 0)
  /\ Log!Init /\ (part # "log" => _logFilename = CHOOSE n \in Names : TRUE)
  /\ Observable!Init /\ (part # "observable" => _value = CHOOSE v \in Contents : TRUE)
  /\ Machine!Init /\ (part # "machine" => _currentS = CHOOSE s \in TState : TRUE)
  /\ Snap!Init /\ (part # "snapshot" => object = CHOOSE o \in Objects : TRUE)

ToolboxNext ==
  /\ UNCHANGED part
  /\ \/ /\ UNCHANGED <<patterns, tools>>
        /\ \/ part = "ring" /\ Next /\ UNCHANGED <<poolVars, nodes, bufferVars>>
           \/ part = "pool" /\ PoolNext /\ UNCHANGED <<vars, nodes, bufferVars>>
           \/ part = "tree" /\ Tree!Next /\ UNCHANGED <<vars, poolVars, bufferVars>>
           \/ part = "buffer" /\ Buffer!Next /\ UNCHANGED <<vars, poolVars, nodes>>
     \/ /\ UNCHANGED <<containers, tools>>
        /\ \/ /\ part = "observable" /\ Observable!Next
              /\ UNCHANGED <<eventVars, machineVars, snapVars>>
           \/ /\ part = "event" /\ Event!Next
              /\ UNCHANGED <<observableVars, machineVars, snapVars>>
           \/ /\ part = "machine" /\ Machine!Next
              /\ UNCHANGED <<observableVars, eventVars, snapVars>>
           \/ /\ part = "snapshot" /\ Snap!Next
              /\ UNCHANGED <<observableVars, eventVars, machineVars>>
     \/ /\ UNCHANGED <<containers, patterns>>
        /\ \/ part = "log" /\ Log!Next /\ UNCHANGED <<chronoVars, singleVars>>
           \/ part = "chrono" /\ Chrono!Next /\ UNCHANGED <<logVars, singleVars>>
           \/ part = "singleton" /\ Single!Next /\ UNCHANGED <<logVars, chronoVars>>

ToolboxSpec == ToolboxInit /\ [][ToolboxNext]_toolboxVars

\* The traversals visit every tree completely and in order, see NAryTree.
TraversalsAgree == Tree!TraversalsAgree
===============================================================================
