--------------------------- MODULE ResourceAccount ---------------------------
(***************************************************************************)
(* The hierarchical memory and temporary-storage budget of                 *)
(* execution/resource.rs.                                                  *)
(*                                                                         *)
(* An account is a path of counters from the root of the operation to      *)
(* itself, and a reservation charges every counter of that path.  Charging *)
(* is a transaction under the root's mutex, counter by counter, each with  *)
(* a load and a compare-and-exchange; a refusal rolls back what it had     *)
(* charged.  Dropping a reservation takes no lock: it subtracts from the   *)
(* counters one at a time, root first, while other transactions run.       *)
(*                                                                         *)
(* A holder is one place in the program that asks for a reservation, keeps *)
(* it and drops it, possibly several times.  Two reservations kept by one  *)
(* thread are two holders, which allows more interleavings than the code.  *)
(* A spurious failure of compare_exchange_weak re-reads the value it       *)
(* already had: it is a stuttering step.                                   *)
(***************************************************************************)
EXTENDS Integers, Sequences, FiniteSets

CONSTANTS
    Holders,        \* the places that make reservations
    NoHolder,       \* nobody holds the reservation lock
    Nodes,          \* one Counters struct each
    Accounts,       \* ResourceAccount values
    Path,           \* the counters of an account, root first
    Cap,            \* memory_cap and temp_cap of each node
    Requests,       \* what a holder may ask for: account, kind and bytes
    MaxWord,        \* u64::MAX
    MaxAttempts     \* bound: how often a holder calls try_new

Kinds == {"memory", "temp"}
Counters == Kinds \X Nodes

ASSUME HoldersAssumption == IsFiniteSet(Holders) /\ NoHolder \notin Holders

ASSUME PathAssumption ==
    \A a \in Accounts :
        /\ Path[a] \in Seq(Nodes)
        /\ Len(Path[a]) > 0
        /\ \A i, j \in 1..Len(Path[a]) : Path[a][i] = Path[a][j] => i = j

\* The accounts of one operation share its root, and with it one lock.
ASSUME RootAssumption == \A a, b \in Accounts : Path[a][1] = Path[b][1]

ASSUME WordAssumption ==
    /\ MaxWord \in Nat
    /\ Cap \in [Counters -> 0..MaxWord]
    /\ Requests \subseteq [account : Accounts, kind : Kinds, bytes : 0..MaxWord]
    /\ MaxAttempts \in Nat

VARIABLES
    used,       \* the memory and temp atomics of every node
    peak,       \* the peak_memory and peak_temp atomics
    lock,       \* the root's reservation_lock
    req,        \* the reservation each holder asks for
    pc,         \* where each holder is
    seen,       \* `current`, the value try_charge last observed
    hi,         \* how many counters of the path have been charged
    lo,         \* how many of those have been given back
    usage,      \* committed_usage
    raised,     \* how many peaks the commit has raised
    left        \* attempts a holder has left

vars == <<used, peak, lock, req, pc, seen, hi, lo, usage, raised, left>>

-----------------------------------------------------------------------------
Depth(h) == Len(Path[req[h].account])
CounterOf(h, i) == <<req[h].kind, Path[req[h].account][i]>>

\* The counter try_charge is working on: the first one not charged yet.
Target(h) == CounterOf(h, hi[h] + 1)

\* Mutant: the limit is compared with the usage before the charge.
FitsBeforeAdding(current, bytes, limit) == current <= limit

\* checked_add, then the comparison with the limit.
Fits(current, bytes, limit) == current + bytes <= MaxWord /\ current + bytes <= limit

\* fetch_sub wraps around.
FetchSub(a, b) == IF a >= b THEN a - b ELSE a - b + MaxWord + 1

FetchMax(a, b) == IF a >= b THEN a ELSE b

-----------------------------------------------------------------------------
Init ==
    /\ used = [c \in Counters |-> 0]
    /\ peak = [c \in Counters |-> 0]
    /\ lock = NoHolder
    /\ req \in [Holders -> Requests]
    /\ pc = [h \in Holders |-> "idle"]
    /\ seen = [h \in Holders |-> 0]
    /\ hi = [h \in Holders |-> 0]
    /\ lo = [h \in Holders |-> 0]
    /\ usage = [h \in Holders |-> <<>>]
    /\ raised = [h \in Holders |-> 0]
    /\ left = [h \in Holders |-> MaxAttempts]

\* try_reserve_memory or try_reserve_temp is called.
Begin(h) ==
    /\ pc[h] = "idle"
    /\ left[h] > 0
    /\ left' = [left EXCEPT ![h] = @ - 1]
    /\ pc' = [pc EXCEPT ![h] = "lock"]
    /\ UNCHANGED <<used, peak, lock, req, seen, hi, lo, usage, raised>>

\* Mutant: the transaction does not wait for the lock.
LockWithoutWaiting(h) ==
    /\ pc[h] = "lock"
    /\ lock' = h
    /\ pc' = [pc EXCEPT ![h] = "charge"]
    /\ UNCHANGED <<used, peak, req, seen, hi, lo, usage, raised, left>>

\* reservation_lock.lock(): a poisoned mutex is entered like any other.
Lock(h) ==
    /\ pc[h] = "lock"
    /\ lock = NoHolder
    /\ lock' = h
    /\ pc' = [pc EXCEPT ![h] = "charge"]
    /\ UNCHANGED <<used, peak, req, seen, hi, lo, usage, raised, left>>

\* The top of try_charge's loop with a value just read from the atomic.
Observe(h) ==
    LET current == used[Target(h)] IN
    /\ seen' = [seen EXCEPT ![h] = current]
    /\ pc' = [pc EXCEPT ![h] = IF Fits(current, req[h].bytes, Cap[Target(h)])
                               THEN "cas" ELSE "rollback"]
    /\ UNCHANGED <<used, peak, lock, req, hi, lo, usage, raised, left>>

Load(h) == pc[h] = "charge" /\ Observe(h)

\* compare_exchange_weak found another value and hands it back.
CasFailed(h) == pc[h] = "cas" /\ used[Target(h)] # seen[h] /\ Observe(h)

\* compare_exchange_weak succeeds: the counter is charged.
Charge(h) ==
    LET next == seen[h] + req[h].bytes IN
    /\ pc[h] = "cas"
    /\ used[Target(h)] = seen[h]
    /\ used' = [used EXCEPT ![Target(h)] = next]
    /\ usage' = [usage EXCEPT ![h] = Append(@, next)]
    /\ hi' = [hi EXCEPT ![h] = @ + 1]
    /\ pc' = [pc EXCEPT ![h] = IF hi[h] + 1 = Depth(h) THEN "peak" ELSE "charge"]
    /\ UNCHANGED <<peak, lock, req, seen, lo, raised, left>>

\* One fetch_sub of the rollback loop over nodes[..charged].
RollBack(h) ==
    LET c == CounterOf(h, lo[h] + 1) IN
    /\ pc[h] = "rollback"
    /\ lo[h] < hi[h]
    /\ used' = [used EXCEPT ![c] = FetchSub(@, req[h].bytes)]
    /\ lo' = [lo EXCEPT ![h] = @ + 1]
    /\ UNCHANGED <<peak, lock, req, pc, seen, hi, usage, raised, left>>

\* The locals of the attempt go out of scope.
Forget(h) ==
    /\ seen' = [seen EXCEPT ![h] = 0]
    /\ usage' = [usage EXCEPT ![h] = <<>>]
    /\ raised' = [raised EXCEPT ![h] = 0]

\* Mutant: the refusal returns with its charges still in place.
RefusedUncleaned(h) ==
    /\ pc[h] = "rollback"
    /\ lock' = NoHolder
    /\ pc' = [pc EXCEPT ![h] = "idle"]
    /\ hi' = [hi EXCEPT ![h] = 0]
    /\ lo' = [lo EXCEPT ![h] = 0]
    /\ Forget(h)
    /\ UNCHANGED <<used, peak, req, left>>

\* Mutant: the refusal returns with the lock taken.
RefusedLocked(h) ==
    /\ pc[h] = "rollback"
    /\ lo[h] = hi[h]
    /\ pc' = [pc EXCEPT ![h] = "idle"]
    /\ hi' = [hi EXCEPT ![h] = 0]
    /\ lo' = [lo EXCEPT ![h] = 0]
    /\ Forget(h)
    /\ UNCHANGED <<used, peak, lock, req, left>>

\* ResourceLimit is returned and the lock guard dropped.
Refused(h) ==
    /\ pc[h] = "rollback"
    /\ lo[h] = hi[h]
    /\ lock' = NoHolder
    /\ pc' = [pc EXCEPT ![h] = "idle"]
    /\ hi' = [hi EXCEPT ![h] = 0]
    /\ lo' = [lo EXCEPT ![h] = 0]
    /\ Forget(h)
    /\ UNCHANGED <<used, peak, req, left>>

\* One fetch_max with the usage the charge of this counter committed.
RaisePeak(h) ==
    LET c == CounterOf(h, raised[h] + 1) IN
    /\ pc[h] = "peak"
    /\ raised[h] < Depth(h)
    /\ peak' = [peak EXCEPT ![c] = FetchMax(@, usage[h][raised[h] + 1])]
    /\ raised' = [raised EXCEPT ![h] = @ + 1]
    /\ UNCHANGED <<used, lock, req, pc, seen, hi, lo, usage, left>>

\* Mutant: the commit does not wait for the peaks.
ReservedEarly(h) ==
    /\ pc[h] = "peak"
    /\ lock' = NoHolder
    /\ pc' = [pc EXCEPT ![h] = "held"]
    /\ Forget(h)
    /\ UNCHANGED <<used, peak, req, hi, lo, left>>

\* The reservation is returned and the lock guard dropped.
Reserved(h) ==
    /\ pc[h] = "peak"
    /\ raised[h] = Depth(h)
    /\ lock' = NoHolder
    /\ pc' = [pc EXCEPT ![h] = "held"]
    /\ Forget(h)
    /\ UNCHANGED <<used, peak, req, hi, lo, left>>

\* One fetch_sub of Reservation::drop, which takes no lock.
Drop(h) ==
    LET c == CounterOf(h, lo[h] + 1)
        last == lo[h] + 1 = hi[h]
    IN
    /\ pc[h] \in {"held", "drop"}
    /\ used' = [used EXCEPT ![c] = FetchSub(@, req[h].bytes)]
    /\ pc' = [pc EXCEPT ![h] = IF last THEN "idle" ELSE "drop"]
    /\ lo' = [lo EXCEPT ![h] = IF last THEN 0 ELSE @ + 1]
    /\ hi' = [hi EXCEPT ![h] = IF last THEN 0 ELSE @]
    /\ UNCHANGED <<peak, lock, req, seen, usage, raised, left>>

Step(h) ==
    \/ Lock(h)
    \/ Load(h)
    \/ CasFailed(h)
    \/ Charge(h)
    \/ RollBack(h)
    \/ Refused(h)
    \/ RaisePeak(h)
    \/ Reserved(h)
    \/ Drop(h)

Next == \E h \in Holders : Begin(h) \/ Step(h)

Spec == Init /\ [][Next]_vars

\* Threads are scheduled, the mutex is handed to one of its waiters, and what
\* is held is dropped when its scope ends.  A caller need not ask again.
FairSpec == Spec /\ \A h \in Holders : WF_vars(Step(h))

-----------------------------------------------------------------------------
States == {"idle", "lock", "charge", "cas", "rollback", "peak", "held", "drop"}

\* The states in which a holder is inside the transaction.
InTransaction(h) == pc[h] \in {"charge", "cas", "rollback", "peak"}

\* Holder h accounts for req[h].bytes of counter c: it has charged c and not
\* given the bytes back.
Charges(h, c) == \E i \in (lo[h] + 1)..hi[h] : CounterOf(h, i) = c

\* The bytes of counter c that some holder of the set H accounts for.
UnitsOf(H, c) ==
    {u \in Holders \X (1..MaxWord) :
        u[1] \in H /\ Charges(u[1], c) /\ u[2] <= req[u[1]].bytes}

\* Type invariant.
TypeOK ==
    /\ used \in [Counters -> 0..MaxWord]
    /\ peak \in [Counters -> 0..MaxWord]
    /\ lock \in Holders \cup {NoHolder}
    /\ req \in [Holders -> Requests]
    /\ pc \in [Holders -> States]
    /\ seen \in [Holders -> 0..MaxWord]
    /\ hi \in [Holders -> Nat]
    /\ lo \in [Holders -> Nat]
    /\ usage \in [Holders -> Seq(0..MaxWord)]
    /\ raised \in [Holders -> Nat]
    /\ left \in [Holders -> 0..MaxAttempts]

\* Nothing leaks and nothing is given back twice: a counter is at every
\* moment the sum of what transactions in flight, kept reservations and
\* reservations being dropped account for (Reservation::try_new and drop).
Conservation == \A c \in Counters : used[c] = Cardinality(UnitsOf(Holders, c))

\* No counter of the path ever exceeds its own limit, not even inside a
\* transaction that ends in a refusal (try_charge).
WithinLimit == \A c \in Counters : used[c] <= Cap[c]

\* Outside a transaction the recorded peak covers what is in use, although
\* the peaks are raised after the charges and drops run meanwhile (the
\* fetch_max loop of try_new).
PeakCoversUsage == lock = NoHolder => \A c \in Counters : used[c] <= peak[c]

\* A transaction that is charging or rolling back leaves every peak alone,
\* so an attempt that ends in ResourceLimit never shows up in
\* peak_memory_used or peak_temp_used.
RefusalLeavesPeaks ==
    [][\A h \in Holders : lock = h /\ pc[h] # "peak" => UNCHANGED peak]_vars

\* Holders whose reservation has been granted and not completely dropped.
Granted == {h \in Holders : pc[h] \in {"held", "drop"}}

\* A refusal is honest: the reservations already granted on the counter that
\* refuses do not leave room for the request.  Charges another attempt made
\* provisionally and will roll back never cause one, because transactions
\* hold the root's reservation_lock.
RefusalIsHonest ==
    [][\A h \in Holders :
        pc[h] \in {"charge", "cas"} /\ pc'[h] = "rollback" =>
            Cardinality(UnitsOf(Granted, Target(h))) + req[h].bytes > Cap[Target(h)]]_vars

\* Every attempt ends, granted or refused.
AttemptsEnd == \A h \in Holders : pc[h] = "lock" ~> pc[h] \in {"held", "idle"}

-----------------------------------------------------------------------------
\* The budget the accounts promise: a reservation is granted or refused as a
\* whole.  It counts as granted from the charge of its last counter until the
\* first counter is given back.
Budget == INSTANCE ResourceBudget WITH
    granted <- {h \in Holders : pc[h] \in {"peak", "held"}}

\* The lock, the charges counter by counter, the rollback and the drops
\* without a lock implement an atomic all-or-nothing grant.
ImplementsBudget == Budget!Spec

=============================================================================
