---------------------------- MODULE ResourceBudget ----------------------------
(***************************************************************************)
(* What ResourceAccount promises its callers (execution/resource.rs): a    *)
(* reservation is granted for every counter of the account's path in one   *)
(* step, and only when all of them have room, or it is not granted at all. *)
(***************************************************************************)
EXTENDS Integers, Sequences, FiniteSets

CONSTANTS Holders, Nodes, Accounts, Path, Cap, Requests, MaxWord

VARIABLES req, granted

OnPath(h, c) ==
    /\ c[1] = req[h].kind
    /\ \E i \in 1..Len(Path[req[h].account]) : Path[req[h].account][i] = c[2]

\* The bytes the holders of the set H have of counter c.
Bytes(H, c) ==
    Cardinality({u \in Holders \X (1..MaxWord) :
                    u[1] \in H /\ OnPath(u[1], c) /\ u[2] <= req[u[1]].bytes})

Counters == {"memory", "temp"} \X Nodes

Init == req \in [Holders -> Requests] /\ granted = {}

Grant(h) ==
    /\ h \notin granted
    /\ \A c \in Counters :
        OnPath(h, c) => Bytes(granted, c) + req[h].bytes <= Cap[c]
    /\ granted' = granted \cup {h}
    /\ UNCHANGED req

Release(h) ==
    /\ h \in granted
    /\ granted' = granted \ {h}
    /\ UNCHANGED req

Next == \E h \in Holders : Grant(h) \/ Release(h)

Spec == Init /\ [][Next]_<<req, granted>>

===============================================================================
