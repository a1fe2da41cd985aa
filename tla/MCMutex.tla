------------------------------ MODULE MCMutex -------------------------------
(* Small instances of Mutex: three tasks of three priorities. *)
EXTENDS Mutex

CONSTANTS mutex, recursive      \* the two mutexes

MCTasks == {"low", "mid", "high"}
MCPriorities == [t \in MCTasks |-> CASE t = "low" -> 1
                                     [] t = "mid" -> 2
                                     [] t = "high" -> 3]

Program(mutexes, held, waits, priorities) ==
    [mutexes |-> mutexes, maxHeld |-> held, waits |-> waits,
     nested |-> {"none"}, priorities |-> priorities]

One == [t \in MCTasks |-> 1]
Some == [t \in MCTasks |-> IF t = "high" THEN 1 ELSE 2]

\* One mutex for all.
Single == Program({mutex}, One, WaitKinds, {})
\* Two mutexes, one of them recursive, that two tasks may hold together.
Both == Program({mutex, recursive}, Some, {"timed"}, {})
\* One mutex, and priorities that change.
Ranked == Program({mutex}, One, {"forever"}, {1, 4})

MCPrograms == {Single, Both, Ranked}
SinglePrograms == {Single}
=============================================================================
