------------------------------- MODULE Outbox -------------------------------
(***************************************************************************)
(* The transactional outbox of core/eventbus/outbox and the relay job of   *)
(* internal/jobs/outboxrelay.                                              *)
(*                                                                         *)
(* Business transactions write rows; relays, on any number of instances,   *)
(* lock the oldest due rows, publish them one by one and mark them, all in *)
(* one database transaction; an operator redrives or discards what was     *)
(* given up.  A pass that ends before its commit leaves the rows as they   *)
(* were although some of its events are already on the bus, and so does a  *)
(* publish the bus took whose answer never came.                           *)
(***************************************************************************)
EXTENDS Naturals, FiniteSets

CONSTANTS
    Relays,       \* instances that run the relay job
    NEvents,      \* events, numbered in the order (created_at, id)
    Limit,        \* the batch limit of one pass
    MaxAttempts,  \* Policy.MaxAttempts
    Stalled,      \* events inside whose publish MaxRun always runs out
    MaxFaults,    \* bound on passes that crash or lose the database, and on lost answers
    MaxRepairs    \* bound on the operator's redrives and discards

Events == 1..NEvents

ASSUME OutboxAssumption ==
    /\ NEvents \in Nat
    /\ Limit \in Nat \ {0}
    /\ MaxAttempts \in Nat \ {0}
    /\ Stalled \subseteq Events
    /\ MaxFaults \in Nat
    /\ MaxRepairs \in Nat

VARIABLES
    row,       \* "absent", "pending", "published", "dead" or "deleted"
    attempts,  \* the attempts column
    due,       \* next_attempt_at <= now()
    sent,      \* history: how often the bus accepted the event from a relay
    errors,    \* history: failed publishes since the row was written or redriven
    pc,        \* what the relay does next
    locked,    \* the rows its transaction holds FOR UPDATE
    todo,      \* the events of its batch that it has not published yet
    staged,    \* its uncommitted marks
    outcome,   \* the outcome of the last finished run, as "gobit jobs" shows it
    faults,    \* passes that crashed or lost the database, answers of the bus that got lost
    repairs    \* redrives and discards so far

table == <<row, attempts, due>>
pass == <<pc, locked, todo, staged>>
vars == <<table, sent, errors, pass, outcome, faults, repairs>>

Clean == [e \in Events |-> "none"]

TypeOK ==
    /\ row \in [Events -> {"absent", "pending", "published", "dead", "deleted"}]
    /\ attempts \in [Events -> 0..MaxAttempts]
    /\ due \in [Events -> BOOLEAN]
    /\ sent \in [Events -> Nat]
    /\ errors \in [Events -> Nat]
    /\ pc \in [Relays -> {"idle", "publish", "orphan", "commit", "report"}]
    /\ locked \in [Relays -> SUBSET Events]
    /\ todo \in [Relays -> SUBSET Events]
    /\ staged \in [Relays -> [Events -> {"none", "published", "failed"}]]
    /\ outcome \in {"none", "ok", "failed"}
    /\ faults \in 0..MaxFaults
    /\ repairs \in 0..MaxRepairs

Init ==
    /\ row = [e \in Events |-> "absent"]
    /\ attempts = [e \in Events |-> 0]
    /\ due = [e \in Events |-> TRUE]
    /\ sent = [e \in Events |-> 0]
    /\ errors = [e \in Events |-> 0]
    /\ pc = [r \in Relays |-> "idle"]
    /\ locked = [r \in Relays |-> {}]
    /\ todo = [r \in Relays |-> {}]
    /\ staged = [r \in Relays |-> Clean]
    /\ outcome = "none"
    /\ faults = 0
    /\ repairs = 0

-----------------------------------------------------------------------------
(* The writers and the clock.                                              *)

\* Write, with the commit of the transaction it stands in; a repeated write
\* of an id that has a row is ON CONFLICT DO NOTHING
Write(e) ==
    /\ row[e] \in {"absent", "deleted"}
    /\ row' = [row EXCEPT ![e] = "pending"]
    /\ attempts' = [attempts EXCEPT ![e] = 0]
    /\ due' = [due EXCEPT ![e] = TRUE]
    /\ errors' = [errors EXCEPT ![e] = 0]
    /\ UNCHANGED <<sent, pass, outcome, faults, repairs>>

\* The backoff of a failed attempt has elapsed
BackoffEnds(e) ==
    /\ row[e] = "pending"
    /\ ~due[e]
    /\ due' = [due EXCEPT ![e] = TRUE]
    /\ UNCHANGED <<row, attempts, sent, errors, pass, outcome, faults, repairs>>

-----------------------------------------------------------------------------
(* Relay: one transaction per pass.                                        *)

\* Slip: FOR UPDATE without SKIP LOCKED's exclusion, a plain read
LockedByNobody(r) == {}

LockedByOthers(r) == UNION {locked[q] : q \in Relays \ {r}}

\* Slip: a row one failure short of the ceiling is no longer selected
DueShort(e) == row[e] = "pending" /\ due[e] /\ attempts[e] + 1 < MaxAttempts

\* The WHERE clause of selectDueSQL
Due(e) == row[e] = "pending" /\ due[e]

\* ORDER BY created_at, id LIMIT n
Oldest(S, n) == {e \in S : Cardinality({f \in S : f < e}) < n}

\* Begin and readDue
Select(r) ==
    LET batch == Oldest({e \in Events : Due(e)} \ LockedByOthers(r), Limit)
    IN  /\ pc[r] = "idle"
        /\ locked' = [locked EXCEPT ![r] = batch]
        /\ todo' = [todo EXCEPT ![r] = batch]
        /\ pc' = [pc EXCEPT ![r] = IF batch = {} THEN "commit" ELSE "publish"]
        /\ UNCHANGED <<table, sent, errors, staged, outcome, faults, repairs>>

Current(r) == CHOOSE e \in todo[r] : \A f \in todo[r] : e <= f

\* The mark of the current event, inside the transaction
Stage(r, mark) ==
    LET rest == todo[r] \ {Current(r)}
    IN  /\ staged' = [staged EXCEPT ![r][Current(r)] = mark]
        /\ todo' = [todo EXCEPT ![r] = rest]
        /\ pc' = [pc EXCEPT ![r] = IF rest = {} THEN "commit" ELSE "publish"]
        /\ UNCHANGED locked

PublishAccepted(r) ==
    /\ pc[r] = "publish"
    /\ Current(r) \notin Stalled
    /\ sent' = [sent EXCEPT ![Current(r)] = @ + 1]
    /\ Stage(r, "published")
    /\ UNCHANGED <<table, errors, outcome, faults, repairs>>

\* Slip: the refused publish falls through to markPublished
PublishRefusedUnnoticed(r) ==
    /\ pc[r] = "publish"
    /\ Current(r) \notin Stalled
    /\ errors' = [errors EXCEPT ![Current(r)] = @ + 1]
    /\ Stage(r, "published")
    /\ UNCHANGED <<table, sent, outcome, faults, repairs>>

\* recordFailure: an error counts as a failed attempt, whatever became of the event
PublishRefused(r) ==
    /\ pc[r] = "publish"
    /\ Current(r) \notin Stalled
    /\ errors' = [errors EXCEPT ![Current(r)] = @ + 1]
    /\ Stage(r, "failed")
    /\ UNCHANGED <<table, sent, outcome, faults, repairs>>

\* XADD took effect and its answer got lost: the client sends the command once
\* more, or the publish ends with an error or when MaxRun runs out
PublishUnanswered(r) ==
    /\ pc[r] \in {"publish", "orphan"}
    /\ faults < MaxFaults
    /\ faults' = faults + 1
    /\ sent' = [sent EXCEPT ![Current(r)] = @ + 1]
    /\ UNCHANGED <<table, errors, pass, outcome, repairs>>

\* The transaction is gone, with its locks and its marks
Rollback(r, next) ==
    /\ locked' = [locked EXCEPT ![r] = {}]
    /\ todo' = [todo EXCEPT ![r] = IF next = "orphan" THEN {Current(r)} ELSE {}]
    /\ staged' = [staged EXCEPT ![r] = Clean]
    /\ pc' = [pc EXCEPT ![r] = next]

\* Slip: a pass that ran out of time ends without an outcome
PublishStallsQuietly(r) ==
    /\ pc[r] = "publish"
    /\ Current(r) \in Stalled
    /\ Rollback(r, "idle")
    /\ UNCHANGED <<table, sent, errors, outcome, faults, repairs>>

\* MaxRun runs out inside the publish: the failure is recorded with the same
\* dead context, that statement fails and the pass is rolled back
PublishStalls(r) ==
    /\ pc[r] = "publish"
    /\ Current(r) \in Stalled
    /\ Rollback(r, "idle")
    /\ outcome' = "failed"
    /\ UNCHANGED <<table, sent, errors, faults, repairs>>

\* Begin, a statement or the commit fails, or MaxRun runs out; the event being
\* marked may have been published
PassFails(r) ==
    /\ pc[r] \in {"idle", "publish", "commit"}
    /\ faults < MaxFaults
    /\ faults' = faults + 1
    /\ sent' \in {sent} \cup (IF pc[r] = "publish" /\ Current(r) \notin Stalled
                              THEN {[sent EXCEPT ![Current(r)] = @ + 1]} ELSE {})
    /\ Rollback(r, "idle")
    /\ outcome' = "failed"
    /\ UNCHANGED <<table, errors, repairs>>

\* The database ends the session while the process is still inside publish
ConnectionLost(r) ==
    /\ pc[r] = "publish"
    /\ faults < MaxFaults
    /\ faults' = faults + 1
    /\ Rollback(r, "orphan")
    /\ UNCHANGED <<table, sent, errors, outcome, repairs>>

\* The publish of a process without a transaction ends, then its mark fails
OrphanReturns(r) ==
    /\ pc[r] = "orphan"
    /\ sent' \in {sent} \cup {[sent EXCEPT ![e] = @ + 1] : e \in todo[r] \ Stalled}
    /\ Rollback(r, "idle")
    /\ outcome' = "failed"
    /\ UNCHANGED <<table, errors, faults, repairs>>

\* markPublishedSQL and markFailedSQL, as they become visible
Dies(e) == attempts[e] + 1 >= MaxAttempts

Marked(r, e) ==
    CASE staged[r][e] = "published" -> "published"
      [] staged[r][e] = "failed" /\ Dies(e) -> "dead"
      [] OTHER -> row[e]

Apply(r) ==
    /\ row' = [e \in Events |-> Marked(r, e)]
    /\ attempts' = [e \in Events |-> IF staged[r][e] = "failed" THEN attempts[e] + 1 ELSE attempts[e]]
    /\ due' = [e \in Events |-> due[e] /\ staged[r][e] # "failed"]

Commit(r) ==
    /\ pc[r] = "commit"
    /\ Apply(r)
    /\ Rollback(r, "report")
    /\ UNCHANGED <<sent, errors, outcome, faults, repairs>>

\* The commit happened and its answer was lost: the run fails all the same
CommitUnanswered(r) ==
    /\ pc[r] = "commit"
    /\ faults < MaxFaults
    /\ faults' = faults + 1
    /\ Apply(r)
    /\ Rollback(r, "idle")
    /\ outcome' = "failed"
    /\ UNCHANGED <<sent, errors, repairs>>

DeadLetters == {e \in Events : row[e] = "dead"}

\* The pile is asked for on every pass; a pile, or a read error, fails the run
Report(r) ==
    /\ pc[r] = "report"
    /\ outcome' \in {IF DeadLetters = {} THEN "ok" ELSE "failed", "failed"}
    /\ pc' = [pc EXCEPT ![r] = "idle"]
    /\ UNCHANGED <<table, sent, errors, locked, todo, staged, faults, repairs>>

Crash(r) ==
    /\ pc[r] # "idle"
    /\ faults < MaxFaults
    /\ faults' = faults + 1
    /\ Rollback(r, "idle")
    /\ UNCHANGED <<table, sent, errors, outcome, repairs>>

-----------------------------------------------------------------------------
(* The operator: "gobit deadletters".                                      *)

\* Slip: a redriven row keeps its attempt count
RedriveOnce(e) ==
    /\ row[e] = "dead"
    /\ repairs < MaxRepairs
    /\ repairs' = repairs + 1
    /\ row' = [row EXCEPT ![e] = "pending"]
    /\ due' = [due EXCEPT ![e] = TRUE]
    /\ errors' = [errors EXCEPT ![e] = 0]
    /\ UNCHANGED <<attempts, sent, pass, outcome, faults>>

Redrive(e) ==
    /\ row[e] = "dead"
    /\ repairs < MaxRepairs
    /\ repairs' = repairs + 1
    /\ row' = [row EXCEPT ![e] = "pending"]
    /\ attempts' = [attempts EXCEPT ![e] = 0]
    /\ due' = [due EXCEPT ![e] = TRUE]
    /\ errors' = [errors EXCEPT ![e] = 0]
    /\ UNCHANGED <<sent, pass, outcome, faults>>

Discard(e) ==
    /\ row[e] = "dead"
    /\ repairs < MaxRepairs
    /\ repairs' = repairs + 1
    /\ row' = [row EXCEPT ![e] = "deleted"]
    /\ UNCHANGED <<attempts, due, sent, errors, pass, outcome, faults>>

-----------------------------------------------------------------------------
Pass(r) ==
    \/ Select(r) \/ PublishAccepted(r) \/ PublishRefused(r) \/ PublishStalls(r)
    \/ OrphanReturns(r) \/ Commit(r) \/ Report(r)

Next ==
    \/ \E r \in Relays :
          \/ Pass(r) \/ PublishUnanswered(r)
          \/ PassFails(r) \/ ConnectionLost(r) \/ CommitUnanswered(r) \/ Crash(r)
    \/ \E e \in Events : Write(e) \/ BackoffEnds(e) \/ Redrive(e) \/ Discard(e)

Spec == Init /\ [][Next]_vars

\* The scheduler starts a pass every minute and bounds it; time goes on
FairSpec ==
    /\ Spec
    /\ \A r \in Relays : WF_vars(Pass(r))
    /\ \A e \in Events : WF_vars(BackoffEnds(e))

-----------------------------------------------------------------------------
(* Properties.                                                             *)

Unsent(e) == sent[e] = 0

\* An event goes out again only after a pass that crashed or lost the database, or
\* after an answer of the bus that got lost, which the relay takes for a publish that
\* failed: the row lock is the claim and SKIP LOCKED steps over it.  An event before
\* one whose publish never answers is left out: the pass that stalls there takes back
\* the marks of what it has sent already, and the next pass sends that again.
ResentOnlyAfterAFault ==
    \A e \in Events : (\A s \in Stalled : s <= e) => sent[e] <= 1 + faults

\* The attempts column never runs ahead of the publishes that failed, so a row
\* is given up only after MaxAttempts failures since it was written or redriven.
GivenUpAfterRealFailures ==
    \A e \in Events :
        /\ attempts[e] <= errors[e]
        /\ row[e] = "dead" => errors[e] >= MaxAttempts

\* A row a relay holds is a row it may still mark: nobody published it, gave it
\* up, redrove it or deleted it meanwhile.
LockedRowsStand ==
    \A r \in Relays : \A e \in locked[r] :
        row[e] = "pending" /\ due[e] /\ e \notin LockedByOthers(r)

\* Relay's godoc: a row is not retried forever, it is published or given up.
EveryEventSettles == \A e \in Events : row[e] = "pending" ~> row[e] # "pending"

\* Every written event is published or given up in the end, whatever stands
\* before it in the queue and fails there (Policy.MaxAttempts, the dead letter
\* and the batch limit), unless a publish that never answers is in the way.
SettlesUnlessStalled ==
    \A e \in Events :
        row[e] = "pending" ~> (row[e] # "pending" \/ \E s \in Stalled : row[s] = "pending")

\* While an event does not go out, waiting or given up, the relay job does not look
\* healthy, even if a pass was cut off inside a publish or died before the report
\* of what it gave up: a failed run is left behind, or the event goes out or a human
\* removes it.
UndeliveredIsReported ==
    LET undelivered(e) == row[e] \in {"pending", "dead"}
    IN  \A e \in Events : undelivered(e) ~> (outcome = "failed" \/ ~undelivered(e))

\* The relay implements the promise of the outbox: an owed event is closed only
\* if it was sent, and otherwise leaves the queue only by the dead letter.
Mapped(state) ==
    CASE state = "pending" -> "owed" [] state = "published" -> "closed"
      [] state = "dead" -> "given_up" [] state = "deleted" -> "discarded"
      [] OTHER -> "absent"

Promise == INSTANCE OutboxPromise WITH
    state <- [e \in Events |-> Mapped(row[e])],
    sent <- [e \in Events |-> ~Unsent(e)]

KeepsThePromise == Promise!Spec

=============================================================================
