-------------------------- MODULE MCServiceManager --------------------------
(***************************************************************************)
(* Small configurations of ServiceManager.  Service a has a module m and a *)
(* module n the environment filters out; b depends on a's token and is in  *)
(* the profile with the filtered d; c is registered late, on the token of  *)
(* a under another name, and depends on b.                                 *)
(***************************************************************************)
EXTENDS ServiceManager

Services == {"a", "b", "c", "d", "m", "n"}
Tokens == {"A", "B", "M"}
Names == {"one", "two"}
ProfileServices == {"a", "b", "d"}

TokenTable == [s \in Services |-> CASE s \in {"a", "c"} -> "A"
                                    [] s \in {"b", "d"} -> "B"
                                    [] s \in {"m", "n"} -> "M"]
NameTable == [s \in Services |-> IF s \in {"c", "d", "n"} THEN "two" ELSE "one"]

\* m runs before its parent; a and b tie, and so do c and d.
PriorityTable == [s \in Services |-> CASE s \in {"m", "n"} -> 0
                                       [] s \in {"a", "b"} -> 1
                                       [] s \in {"c", "d"} -> 2]
PositionTable == [s \in Services |-> CASE s \in {"a", "m"} -> 1
                                       [] s \in {"b", "n"} -> 2
                                       [] s \in {"c", "d"} -> 3]
DependencyTable == [s \in Services |-> CASE s \in {"m", "b"} -> {"A"}
                                         [] s = "c" -> {"B"}
                                         [] OTHER -> {}]
\* b and c get by without anybody.
LooseTable == [s \in Services |-> IF s = "m" THEN {"A"} ELSE {}]
\* The modules depend on each other.
SiblingTable == [s \in Services |-> CASE s = "n" -> {"M"}
                                      [] OTHER -> DependencyTable[s]]
ModuleTable == [s \in Services |-> IF s = "a" THEN {"m", "n"} ELSE {}]
EnabledTable == [s \in Services |-> s \notin {"d", "n"}]
BothModulesTable == [s \in Services |-> s # "d"]

NoWaiters == {}
Waiters == {"w"}
InitWaiters == {"iw"}
WaitTokenTable == [w \in Waiters |-> "A"]
WaitNamesTable == [w \in Waiters |-> {"two"}]
NoWaitTable == [w \in NoWaiters |-> {}]

AnyHook == Hook
NoHook == {}
Failing == {"construct", "initialize"}

NoReentry == {}
\* Every callback but the constructor may do anything, except that
\* initialize() neither registers or unregisters a service nor starts the
\* manager.
OrderlyReentry ==
  ((Hook \ {"construct"}) \X Operation)
    \ ({"initialize"} \X {"register", "unregister", "start"})
\* Every callback but the constructor may do anything, except that
\* initialize() does not start the profile again.
CallbackReentry ==
  ((Hook \ {"construct"}) \X Operation) \ {<<"initialize", "initializeProfile">>}
=============================================================================
