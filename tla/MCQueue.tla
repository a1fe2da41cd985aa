------------------------------ MODULE MCQueue -------------------------------
(* Small instances of Queue. *)
EXTENDS Queue

MCTasks == {"one", "two", "high"}
MCPrio == [t \in MCTasks |-> IF t = "high" THEN 2 ELSE 1]
Program(n, one, two, high) ==
    [uxLength |-> n, calls |-> [t \in MCTasks |-> CASE t = "one" -> one
                                                    [] t = "two" -> two
                                                    [] t = "high" -> high]]

\* A producer and two consumers, one of higher priority.
Stream == Program(2, {"send"}, {"receive"}, {"receive"})
\* A mailbox: a queue of length one that a writer overwrites.
Mailbox == Program(1, {"overwrite"}, {"receive"}, {"peek"})
\* A task empties a queue of length one for two senders; interrupts receive.
Emptied == Program(1, {"send"}, {"reset"}, {"send"})
\* One consumer, and a task that aborts its delay and sends.
Aborted == Program(1, {"receive"}, {}, {"send", "abort"})

MCPrograms == {Stream, Mailbox, Emptied, Aborted}

\* A sender and a receiver of equal priority, which share the processor.
Peers == {"one", "two"}
PeersPrio == [t \in Peers |-> 1]
LivePrograms ==
    {[uxLength |-> 1, calls |-> [t \in Peers |-> IF t = "one" THEN {"send"} ELSE {"receive"}]]}
=============================================================================
