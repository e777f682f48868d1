---------------------------- MODULE MCHydraHead ----------------------------
(* Small instances of HydraHead for TLC. *)
EXTENDS HydraHead, TLC

\* Heads are closed and fanned out by both parties, and opened again.
Life == [opened |-> TRUE, heads |-> 2, commands |-> {"close", "fanout"}, faults |-> {"expire", "peer"}]

\* The same next to a node that is not always there, and not always synced.
Offline == [opened |-> TRUE, heads |-> 2, commands |-> {"close", "fanout"}, faults |-> {"drop", "unsynced"}]

\* Only the peer closes, and the client comes and goes.  With three heads the
\* list of a restarted client can begin in one of them and go on to the last.
Restarts == [opened |-> TRUE, heads |-> 3, commands |-> {"fanout"}, faults |-> {"drop", "crash", "expire", "peer"}]

\* Both parties deposit into an open head.
Funding == [opened |-> TRUE, heads |-> 2, commands |-> {"deposit", "recover"}, faults |-> {"expire", "deposit"}]

\* Only the client deposits, with requests and increments that fail.
Mirrored == [opened |-> TRUE, heads |-> 2, commands |-> {"deposit", "recover"},
             faults |-> {"drop", "fail", "expire", "mirror"}]

\* The peer closes the head and opens another while the client deposits.
Uprooted == [opened |-> TRUE, heads |-> 2, commands |-> {"deposit", "recover"}, faults |-> {"expire", "peer"}]

\* A head is opened and closed, and nobody fans out.
Opening == [opened |-> FALSE, heads |-> 2, commands |-> {"init", "closeonly"}, faults |-> {"drop", "expire", "unsynced"}]

HeadSetups == {Life, Offline, Restarts, Funding, Mirrored, Uprooted, Opening}

Threads == Permutations(Thread)
=============================================================================
