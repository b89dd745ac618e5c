----------------------------- MODULE Publication -----------------------------
(***************************************************************************)
(* Publishing one result under a path that several processes may want:     *)
(* accept_file with _write_new (python/proofframe/acceptance.py), which    *)
(* publishes one file, and review (python/proofframe/review.py), which     *)
(* publishes a directory of four files.  Both look at the path, take an    *)
(* exclusive lock file beside it, look again, build the result under a     *)
(* temporary name, look a third time and rename.  They differ in the order *)
(* of scan and lock, and in the name of the lock.                          *)
(*                                                                         *)
(* A process may be killed between any two steps.  It then leaves its lock *)
(* and its temporary, which nobody takes back but the operator, who has to *)
(* see that no publisher is running (docs/review.md, docs/acceptance.md).  *)
(*                                                                         *)
(* The content is the sequence of its parts and its size in bytes, a small *)
(* number.  A part that meets an error is left torn.                       *)
(***************************************************************************)
EXTENDS Integers, Sequences

CONSTANTS
    Accepters,      \* processes that call accept_file with this output
    Reviewers,      \* processes that call review with this output
    Sizes,          \* the bytes a part may have
    MaxBytes,       \* max_output_bytes
    Nobody

ASSUME PublicationAssumption ==
    /\ Accepters \cap Reviewers = {}
    /\ Nobody \notin Accepters \cup Reviewers
    /\ Sizes \subseteq Nat \ {0}
    /\ MaxBytes \in Nat \ {0}

Publishers == Accepters \cup Reviewers
Kinds == {"file", "directory"}
KindOf(p) == IF p \in Accepters THEN "file" ELSE "directory"

\* The parts of a result, in the order they are written.
PartsOf(kind) == IF kind = "file" THEN <<"bundle">>
                 ELSE <<"report.json", "evidence.json", "summary.md", "index.html">>

Torn == "torn"

VARIABLES
    pc,         \* the step each process takes next
    scan,       \* how its scan of the data ended
    staging,    \* its temporary: the parts in it, and their bytes
    mine,       \* whether it still has to remove the temporary
    remaining,  \* bytes it may still write
    result,     \* how its call ended
    locks,      \* who holds the lock of each kind
    target      \* what the path names

publication == <<pc, scan, staging, mine, remaining, result, locks, target>>

Steps == {"idle", "scan", "lock", "look_again", "stage", "write", "last_look",
          "rename", "discard", "unlock", "ended"}
Empty == [parts |-> <<>>, bytes |-> 0]
Nothing == [kind |-> "nothing", by |-> Nobody, content |-> Empty]

PublicationInit ==
    /\ pc = [p \in Publishers |-> "idle"]
    /\ scan = [p \in Publishers |-> "none"]
    /\ staging = [p \in Publishers |-> Empty]
    /\ mine = [p \in Publishers |-> FALSE]
    /\ remaining = [p \in Publishers |-> MaxBytes]
    /\ result = [p \in Publishers |-> "none"]
    /\ locks = [k \in Kinds |-> Nobody]
    /\ target = Nothing

Goto(p, step) == pc' = [pc EXCEPT ![p] = step]

\* An exception before the lock is taken: the call ends with nothing to undo.
Raise(p) == /\ Goto(p, "ended")
            /\ result' = [result EXCEPT ![p] = "raised"]

\* An exception under the lock: the finally block is next.
Unwind(p) == /\ Goto(p, "discard")
             /\ result' = [result EXCEPT ![p] = "raised"]

Exists == target.kind # "nothing"

-----------------------------------------------------------------------------

\* The call starts.  Its arguments and its policy are good, and os.path.lexists(output)
\* comes before anything else.
Look(p) ==
    /\ pc[p] = "idle"
    /\ IF Exists THEN Raise(p)
       ELSE /\ Goto(p, IF p \in Accepters THEN "scan" ELSE "lock")
            /\ UNCHANGED result
    /\ UNCHANGED <<scan, staging, mine, remaining, locks, target>>

\* _scan of accept_file: a failed scan is the decision `unknown` and goes on, a contract
\* error or an ambiguous column name is raised.  The bundle is then measured in memory.
AcceptScan(p) ==
    /\ pc[p] = "scan"
    /\ p \in Accepters
    /\ \E outcome \in {"complete", "failed", "refused"}, size \in Sizes :
        /\ scan' = [scan EXCEPT ![p] = outcome]
        /\ IF outcome = "refused" \/ size > MaxBytes
             THEN Raise(p) /\ UNCHANGED remaining
             ELSE /\ Goto(p, "lock")
                  /\ remaining' = [remaining EXCEPT ![p] = size]
                  /\ UNCHANGED result
    /\ UNCHANGED <<staging, mine, locks, target>>

\* Mutant: a review goes on after a failed scan, as an acceptance does.
ReviewAnyScan(p) ==
    /\ pc[p] = "scan"
    /\ p \in Reviewers
    /\ \E outcome \in {"complete", "failed"} : scan' = [scan EXCEPT ![p] = outcome]
    /\ Goto(p, "write")
    /\ UNCHANGED <<staging, mine, remaining, result, locks, target>>

\* check_with_evidence inside review: every failure of it is raised.
ReviewScan(p) ==
    /\ pc[p] = "scan"
    /\ p \in Reviewers
    /\ \E outcome \in {"complete", "failed"} :
        /\ scan' = [scan EXCEPT ![p] = outcome]
        /\ IF outcome = "failed" THEN Unwind(p)
           ELSE Goto(p, "write") /\ UNCHANGED result
    /\ UNCHANGED <<staging, mine, remaining, locks, target>>

\* Mutant: the lock file is opened without O_EXCL.
LockShared(p) ==
    /\ pc[p] = "lock"
    /\ locks' = [locks EXCEPT ![KindOf(p)] = p]
    /\ Goto(p, "look_again")
    /\ UNCHANGED <<scan, staging, mine, remaining, result, target>>

\* Mutant: the lock is opened inside the try block, so that a process which does not get
\* it removes the one of another process.
LockInsideTry(p) ==
    /\ pc[p] = "lock"
    /\ IF locks[KindOf(p)] # Nobody
         THEN Unwind(p) /\ UNCHANGED locks
         ELSE /\ locks' = [locks EXCEPT ![KindOf(p)] = p]
              /\ Goto(p, "look_again")
              /\ UNCHANGED result
    /\ UNCHANGED <<scan, staging, mine, remaining, target>>

\* os.open(lock, O_CREAT | O_EXCL).
Lock(p) ==
    /\ pc[p] = "lock"
    /\ IF locks[KindOf(p)] # Nobody
         THEN Raise(p) /\ UNCHANGED locks
         ELSE /\ locks' = [locks EXCEPT ![KindOf(p)] = p]
              /\ Goto(p, "look_again")
              /\ UNCHANGED result
    /\ UNCHANGED <<scan, staging, mine, remaining, target>>

\* Mutant: the second look comes before the try block.
LookAgainOutside(p) ==
    /\ pc[p] = "look_again"
    /\ IF Exists THEN Raise(p) ELSE Goto(p, "stage") /\ UNCHANGED result
    /\ UNCHANGED <<scan, staging, mine, remaining, locks, target>>

\* The second look, under the lock.
LookAgain(p) ==
    /\ pc[p] = "look_again"
    /\ IF Exists THEN Unwind(p) ELSE Goto(p, "stage") /\ UNCHANGED result
    /\ UNCHANGED <<scan, staging, mine, remaining, locks, target>>

\* NamedTemporaryFile, mkdtemp: a name nobody else has.
Stage(p) ==
    /\ pc[p] = "stage"
    /\ \/ /\ mine' = [mine EXCEPT ![p] = TRUE]
          /\ Goto(p, IF p \in Accepters THEN "write" ELSE "scan")
          /\ UNCHANGED result
       \/ Unwind(p) /\ UNCHANGED mine
    /\ UNCHANGED <<scan, staging, remaining, locks, target>>

\* A temporary with one part more.
Extended(content, part, size) ==
    [parts |-> Append(content.parts, part), bytes |-> content.bytes + size]

\* The next part, flushed and synced.  The bundle has been measured; a part of a review is
\* charged chunk by chunk, and one that does not fit has been written in part.
Write(p) ==
    /\ pc[p] = "write"
    /\ LET parts == PartsOf(KindOf(p))
           next == Len(staging[p].parts) + 1
       IN \/ \E size \in IF p \in Accepters THEN {remaining[p]} ELSE Sizes :
                /\ size <= remaining[p]
                /\ staging' = [staging EXCEPT ![p] = Extended(@, parts[next], size)]
                /\ remaining' = [remaining EXCEPT ![p] = @ - size]
                /\ Goto(p, IF next = Len(parts) THEN "last_look" ELSE "write")
                /\ UNCHANGED result
          \/ /\ staging' = [staging EXCEPT ![p] = Extended(@, Torn, 0)]
             /\ Unwind(p)
             /\ UNCHANGED remaining
    /\ UNCHANGED <<scan, mine, locks, target>>

\* The third look.
LastLook(p) ==
    /\ pc[p] = "last_look"
    /\ IF Exists THEN Unwind(p) ELSE Goto(p, "rename") /\ UNCHANGED result
    /\ UNCHANGED <<scan, staging, mine, remaining, locks, target>>

\* rename(2): a file replaces a file without a word; a directory that holds files is not
\* replaced, and neither kind replaces the other.
Renames(kind) == ~Exists \/ (kind = "file" /\ target.kind = "file")

\* Mutant: an error of rename is taken for a result that somebody else has published.
RenameIgnored(p) ==
    /\ pc[p] = "rename"
    /\ IF Renames(KindOf(p))
         THEN /\ target' = [kind |-> KindOf(p), by |-> p, content |-> staging[p]]
              /\ staging' = [staging EXCEPT ![p] = Empty]
              /\ mine' = [mine EXCEPT ![p] = FALSE]
         ELSE UNCHANGED <<target, staging, mine>>
    /\ Goto(p, "discard")
    /\ result' = [result EXCEPT ![p] = "returned"]
    /\ UNCHANGED <<scan, remaining, locks>>

\* temporary.rename(path); temporary = None.
Rename(p) ==
    /\ pc[p] = "rename"
    /\ IF Renames(KindOf(p))
         THEN /\ target' = [kind |-> KindOf(p), by |-> p, content |-> staging[p]]
              /\ staging' = [staging EXCEPT ![p] = Empty]
              /\ mine' = [mine EXCEPT ![p] = FALSE]
              /\ Goto(p, "discard")
              /\ result' = [result EXCEPT ![p] = "returned"]
         ELSE Unwind(p) /\ UNCHANGED <<target, staging, mine>>
    /\ UNCHANGED <<scan, remaining, locks>>

\* Mutant: the finally block only releases the lock.
DiscardNothing(p) ==
    /\ pc[p] = "discard"
    /\ Goto(p, "unlock")
    /\ UNCHANGED <<scan, staging, mine, remaining, result, locks, target>>

\* finally: the temporary, if it is still there, is removed.
Discard(p) ==
    /\ pc[p] = "discard"
    /\ Goto(p, "unlock")
    /\ mine' = [mine EXCEPT ![p] = FALSE]
    /\ staging' = [staging EXCEPT ![p] = Empty]
    /\ UNCHANGED <<scan, remaining, result, locks, target>>

\* finally: lock.unlink().
Unlock(p) ==
    /\ pc[p] = "unlock"
    /\ Goto(p, "ended")
    /\ locks' = [locks EXCEPT ![KindOf(p)] = Nobody]
    /\ UNCHANGED <<scan, staging, mine, remaining, result, target>>

\* finally: the temporary or the lock cannot be removed.  The error replaces the result,
\* and what was not reached stays.
CleanupFails(p) ==
    /\ \/ pc[p] = "discard" /\ mine[p]
       \/ pc[p] = "unlock"
    /\ Goto(p, "ended")
    /\ result' = [result EXCEPT ![p] = "stuck"]
    /\ UNCHANGED <<scan, staging, mine, remaining, locks, target>>

\* The process is killed.
Crash(p) ==
    /\ pc[p] \notin {"idle", "ended"}
    /\ Goto(p, "ended")
    /\ result' = [result EXCEPT ![p] = "killed"]
    /\ UNCHANGED <<scan, staging, mine, remaining, locks, target>>

\* The operator, after confirming that no publisher is running.
RemoveLock(kind) ==
    /\ locks[kind] # Nobody
    /\ \A p \in Publishers : pc[p] \in {"idle", "ended"}
    /\ locks' = [locks EXCEPT ![kind] = Nobody]
    /\ UNCHANGED <<pc, scan, staging, mine, remaining, result, target>>

-----------------------------------------------------------------------------

Step(p) ==
    \/ AcceptScan(p) \/ ReviewScan(p) \/ Lock(p) \/ LookAgain(p) \/ Stage(p)
    \/ Write(p) \/ LastLook(p) \/ Rename(p) \/ Discard(p) \/ Unlock(p) \/ CleanupFails(p)

PublicationNext ==
    \/ \E p \in Publishers : Look(p) \/ Step(p) \/ Crash(p)
    \/ \E kind \in Kinds : RemoveLock(kind)

PublicationSpec == PublicationInit /\ [][PublicationNext]_publication

\* A call that has started takes its next step: nothing in it waits for another process.
FairSpec == PublicationSpec /\ \A p \in Publishers : WF_publication(Step(p))

-----------------------------------------------------------------------------

\* Every value has its type, and a temporary never holds more parts than the result.
PublicationTypeOK ==
    /\ pc \in [Publishers -> Steps]
    /\ scan \in [Publishers -> {"none", "complete", "failed", "refused"}]
    /\ \A p \in Publishers : Len(staging[p].parts) <= Len(PartsOf(KindOf(p)))
    /\ mine \in [Publishers -> BOOLEAN]
    /\ remaining \in [Publishers -> 0..MaxBytes]
    /\ result \in [Publishers -> {"none", "returned", "raised", "stuck", "killed"}]
    /\ locks \in [Kinds -> Publishers \cup {Nobody}]
    /\ target.kind \in Kinds \cup {"nothing"}

\* What the path names is whole, whenever a process was killed or met an error: all parts
\* in their order, none torn, within max_output_bytes, and of a review only if its scan was
\* complete (docs/review.md: no final package on incomplete validation).
PublishedIsWhole ==
    Exists =>
        /\ target.content.parts = PartsOf(target.kind)
        /\ target.content.bytes <= MaxBytes
        /\ scan[target.by] \in IF target.kind = "file" THEN {"complete", "failed"} ELSE {"complete"}

\* A published result is never replaced, by publishers of either kind and across removals
\* of an abandoned lock, although rename would replace a file.
NeverReplaced == [][Exists => target' = target]_publication

\* The steps between the second look and the unlock; a review scans there.
Inside(p) == {"look_again", "stage", "write", "last_look", "rename", "discard", "unlock"}
             \cup IF p \in Reviewers THEN {"scan"} ELSE {}

\* Between its second look and its unlock a publisher holds the lock, and nobody else of
\* its kind is there: neither a failed call nor the operator takes it away.
OneWriter == \A p \in Publishers : pc[p] \in Inside(p) => locks[KindOf(p)] = p

\* A call that returns has published what it returns, and an exception means that nothing
\* of it is published, unless the cleanup after the rename was what failed.
ResultIsTrue ==
    \A p \in Publishers : pc[p] = "ended" =>
        /\ result[p] = "returned" => target.by = p
        /\ result[p] = "raised" => target.by # p

\* A call that ended by itself leaves neither a temporary nor a lock behind; what is left
\* is of a process that was killed or whose cleanup failed.
NothingLeftBehind ==
    \A p \in Publishers : pc[p] = "ended" /\ result[p] \in {"returned", "raised"} =>
        /\ staging[p] = Empty /\ ~mine[p]
        /\ locks[KindOf(p)] # p

\* A lock is given back, whoever else tries, unless its holder was killed or stuck: then
\* it stays until the operator removes it.
LocksAreReleased ==
    \A p \in Publishers :
        locks[KindOf(p)] = p ~> locks[KindOf(p)] # p \/ result[p] \in {"killed", "stuck"}

=============================================================================
