------------------------------ MODULE Workflow ------------------------------
(***************************************************************************)
(* The saga engine of internal/core/workflow: Executor.Run, the abandoned- *)
(* execution recovery that a caller arrives at (judgeAbandoned) and the    *)
(* one an operator asks for (Recover), over a Store that several processes *)
(* share.                                                                  *)
(*                                                                         *)
(* A process is one Run or Recover call at a time.  It can die at every    *)
(* point between two accesses to the Store or to the world; what it kept   *)
(* in memory (the compensation chain) dies with it and only the record     *)
(* stays.  A step's side effect and the record of the step are two events: *)
(* the engine writes the record AFTER Invoke returns.                      *)
(***************************************************************************)
EXTENDS Naturals

CONSTANTS
    Procs,            \* concurrent Run and Recover calls
    Execs,            \* execution ids that can be handed out
    NoExec,           \* no execution yet
    Keys,             \* idempotency keys
    NoKey,            \* the empty key of an unkeyed or a released execution
    NSteps,           \* len(wf.Steps)
    Recoverables,     \* indexes of the steps that implement Recoverable
    Blockers,         \* indexes of the steps that implement RecoveryBlocker
    Leaky,            \* indexes of the steps that may report ErrUncompensated
    MaxAttempts,      \* RetryPolicy.MaxAttempts of Invoke
    LeaseCoversRun,   \* the declared lease is longer than any live call
    MaxCrashes,       \* bound on process deaths
    MaxLostWrites,    \* bound on AppendStep / UpdateStatus errors
    MaxFaults         \* bound on deaths and errors together

Steps == 1..NSteps

ASSUME EngineAssumption ==
    /\ NoExec \notin Execs
    /\ NoKey \notin Keys
    /\ NSteps \in Nat \ {0}
    /\ MaxAttempts \in Nat \ {0}
    /\ Recoverables \subseteq Steps
    /\ Blockers \subseteq Steps
    /\ Leaky \subseteq Steps
    /\ LeaseCoversRun \in BOOLEAN
    /\ MaxCrashes \in Nat
    /\ MaxLostWrites \in Nat
    /\ MaxFaults \in Nat

VARIABLES
    status,     \* Execution.Status, "absent" while the id is not handed out
    key,        \* Execution.IdempotencyKey
    steps,      \* Execution.Steps: one record per index, "none" if unwritten
    updatedAt,  \* Execution.UpdatedAt, a stamp that every write moves on
    expired,    \* the lease has run out since updatedAt
    effect,     \* the step's side effect in the world
    request,    \* history: the key the execution was opened with
    succeeded,  \* history: a caller was told that the execution completed
    pc,         \* what the process does next
    local,      \* the call's own state, lost with the process
    crashes,    \* process deaths so far
    lostWrites  \* record writes that failed so far

store == <<status, key, steps, updatedAt, expired>>
world == <<effect, request, succeeded>>
vars == <<store, world, pc, local, crashes, lostWrites>>

Terminal == {"completed", "failed", "compensation_failed"}
StepStates == {"invoked", "failed", "compensated", "compensation_failed"}
Driving == {"invoke", "record", "compensate", "close"}
Judging == {"get", "claim"}
Busy == Driving \cup Judging
Points == Driving \cup Judging \cup {"idle", "open", "find"}

NoSteps == [s \in Steps |-> "none"]

Idle ==
    [mode |-> "execute", key |-> NoKey, turn |-> 1, exec |-> NoExec,
     step |-> 1, attempt |-> 1, rec |-> "invoked", chain |-> {},
     target |-> "completed", seen |-> 0, snap |-> NoSteps]

Calls ==
    [mode : {"execute", "judge", "recover"}, key : Keys \cup {NoKey},
     turn : 1..2, exec : Execs \cup {NoExec}, step : Steps, attempt : 1..MaxAttempts,
     rec : StepStates, chain : SUBSET Steps, target : Terminal, seen : Nat,
     snap : [Steps -> StepStates \cup {"none"}]]

TypeOK ==
    /\ status \in [Execs -> Terminal \cup {"absent", "running"}]
    /\ key \in [Execs -> Keys \cup {NoKey}]
    /\ steps \in [Execs -> [Steps -> StepStates \cup {"none"}]]
    /\ updatedAt \in [Execs -> Nat]
    /\ expired \in [Execs -> BOOLEAN]
    /\ effect \in [Execs -> [Steps -> {"none", "applied", "undone"}]]
    /\ request \in [Execs -> Keys \cup {NoKey}]
    /\ succeeded \in [Execs -> BOOLEAN]
    /\ pc \in [Procs -> Points]
    /\ local \in [Procs -> Calls]
    /\ crashes \in 0..MaxCrashes
    /\ lostWrites \in 0..MaxLostWrites

Init ==
    /\ status = [e \in Execs |-> "absent"]
    /\ key = [e \in Execs |-> NoKey]
    /\ steps = [e \in Execs |-> NoSteps]
    /\ updatedAt = [e \in Execs |-> 0]
    /\ expired = [e \in Execs |-> FALSE]
    /\ effect = [e \in Execs |-> NoSteps]
    /\ request = [e \in Execs |-> NoKey]
    /\ succeeded = [e \in Execs |-> FALSE]
    /\ pc = [p \in Procs |-> "idle"]
    /\ local = [p \in Procs |-> Idle]
    /\ crashes = 0
    /\ lostWrites = 0

-----------------------------------------------------------------------------
(* The Store: memory.go and pgstore, each operation one atomic statement.  *)

Drivers(e) == {p \in Procs : pc[p] \in Driving /\ local[p].exec = e}

Holder(k) == {e \in Execs : key[e] = k /\ status[e] # "absent"}

Stamp(e) ==
    /\ updatedAt' = [updatedAt EXCEPT ![e] = @ + 1]
    /\ expired' = [expired EXCEPT ![e] = FALSE]

Create(e, k) ==
    /\ status[e] = "absent"
    /\ k = NoKey \/ Holder(k) = {}
    /\ status' = [status EXCEPT ![e] = "running"]
    /\ key' = [key EXCEPT ![e] = k]
    /\ request' = [request EXCEPT ![e] = k]
    /\ Stamp(e)
    /\ UNCHANGED steps

\* Slip: a step record that does not move updated_at
AppendStepUnstamped(e, s, rec) ==
    /\ steps' = [steps EXCEPT ![e][s] = rec]
    /\ UNCHANGED <<status, key, updatedAt, expired>>

AppendStep(e, s, rec) ==
    /\ steps' = [steps EXCEPT ![e][s] = rec]
    /\ Stamp(e)
    /\ UNCHANGED <<status, key>>

\* Slip: every terminal status releases the key
UpdateStatusReleases(e, target) ==
    /\ status' = [status EXCEPT ![e] = target]
    /\ key' = [key EXCEPT ![e] = NoKey]
    /\ Stamp(e)
    /\ UNCHANGED steps

UpdateStatus(e, target) ==
    /\ status' = [status EXCEPT ![e] = target]
    /\ key' = IF target = "failed" THEN [key EXCEPT ![e] = NoKey] ELSE key
    /\ Stamp(e)
    /\ UNCHANGED steps

\* Slip: a claim that does not compare updated_at with what was read
ClaimableUnseen(e, seen) == status[e] = "running"

Claimable(e, seen) == status[e] = "running" /\ updatedAt[e] = seen

\* Slip: a claim that leaves updated_at where it was
ClaimAbandonedUnstamped(e, seen) ==
    /\ Claimable(e, seen)
    /\ UNCHANGED store

ClaimAbandoned(e, seen) ==
    /\ Claimable(e, seen)
    /\ Stamp(e)
    /\ UNCHANGED <<status, key, steps>>

FaultsLeft == crashes + lostWrites < MaxFaults

LoseWrite ==
    /\ lostWrites < MaxLostWrites /\ FaultsLeft
    /\ lostWrites' = lostWrites + 1
    /\ UNCHANGED store

\* persistStep, persistStatus: a failed write is logged and the call goes on
Persist(Write) == (Write /\ UNCHANGED lostWrites) \/ LoseWrite

-----------------------------------------------------------------------------
(* Executor.Run: open a record, or replay the one that holds the key.      *)

Goto(p, next, l) ==
    /\ pc' = [pc EXCEPT ![p] = next]
    /\ local' = [local EXCEPT ![p] = l]

Return(p) == Goto(p, "idle", Idle)

\* Slip: the loop turns for as long as the key is contended
AgainForever(p) ==
    Goto(p, "open", [Idle EXCEPT !.key = local[p].key, !.turn = local[p].turn + 1])

\* "Try again": the loop of Run turns at most twice, then CodeExecutionContended
Again(p) ==
    IF local[p].turn = 1
    THEN Goto(p, "open", [Idle EXCEPT !.key = local[p].key, !.turn = 2])
    ELSE Return(p)

Run(p, k) ==
    /\ pc[p] = "idle"
    /\ Goto(p, "open", [Idle EXCEPT !.key = k])
    /\ UNCHANGED <<store, world, crashes, lostWrites>>

Open(p, e) ==
    /\ pc[p] = "open"
    /\ Create(e, local[p].key)
    /\ Goto(p, "invoke", [local[p] EXCEPT !.exec = e, !.mode = "execute"])
    /\ UNCHANGED <<effect, succeeded, crashes, lostWrites>>

\* The row was inserted but the answer was lost: Run returns the Store error
OpenUnanswered(p, e) ==
    /\ pc[p] = "open"
    /\ lostWrites < MaxLostWrites /\ FaultsLeft
    /\ lostWrites' = lostWrites + 1
    /\ Create(e, local[p].key)
    /\ Return(p)
    /\ UNCHANGED <<effect, succeeded, crashes>>

OpenConflict(p) ==
    /\ pc[p] = "open"
    /\ local[p].key # NoKey
    /\ Holder(local[p].key) # {}
    /\ Goto(p, "find", local[p])
    /\ UNCHANGED <<store, world, crashes, lostWrites>>

\* Create, FindByIdempotencyKey and Get errors end the call: nothing ran
StoreError(p) ==
    /\ pc[p] \in {"open", "find", "get"}
    /\ Return(p)
    /\ UNCHANGED <<store, world, crashes, lostWrites>>

\* Slip: a caller that finds the key taken waits for its holder
ReplayWaiting(p) ==
    /\ pc[p] = "find"
    /\ Goto(p, "open", local[p])
    /\ UNCHANGED <<store, world, crashes, lostWrites>>

\* replay, with the lease check that opens judgeAbandoned
Replay(p) ==
    /\ pc[p] = "find"
    /\ \/ /\ Holder(local[p].key) = {}
          /\ Again(p)
       \/ \E e \in Holder(local[p].key) :
             IF status[e] = "running" /\ expired[e]
             THEN Goto(p, "get", [local[p] EXCEPT !.exec = e, !.mode = "judge",
                                                  !.seen = updatedAt[e]])
             ELSE Return(p)
    /\ UNCHANGED <<store, world, crashes, lostWrites>>

\* judgeAbandoned reads the steps BEFORE it claims
GetSteps(p) ==
    /\ pc[p] = "get"
    /\ Goto(p, "claim", [local[p] EXCEPT !.snap = steps[local[p].exec]])
    /\ UNCHANGED <<store, world, crashes, lostWrites>>

\* Recover: one Get, every refusal of it returns without a write
Recover(p, e) ==
    /\ pc[p] = "idle"
    /\ status[e] = "running"
    /\ expired[e]
    /\ Goto(p, "claim", [Idle EXCEPT !.mode = "recover", !.exec = e,
                                     !.seen = updatedAt[e], !.snap = steps[e]])
    /\ UNCHANGED <<store, world, crashes, lostWrites>>

-----------------------------------------------------------------------------
(* recover.go: claim the abandoned record, rebuild its chain from the      *)
(* steps that were read.                                                   *)

\* Slip: only a step that was never compensated counts as held
HeldInvokedOnly(st) == st = "invoked"

Held(st) == st \in {"invoked", "compensation_failed"}

HeldSteps(snap) == {s \in Steps : Held(snap[s])}

Recorded(snap) == {s \in Steps : snap[s] # "none"}

\* Slip: the boundary looks at the blocker's own record, which it never has
BlockedBoundaryRecorded(snap) == Blockers \cap Recorded(snap) # {}

\* checkRecoveryBoundary: the first index after the highest recorded one
BlockedBoundary(snap) ==
    \E b \in Blockers : (b - 1) \in Recorded(snap) /\ \A s \in Recorded(snap) : s < b

Rebuildable(snap) ==
    /\ HeldSteps(snap) \subseteq Recoverables
    /\ ~BlockedBoundary(snap)

\* A record without held work is closed; one whose chain cannot be rebuilt
\* (refused, or Restore failed, or the definition changed) waits for a human
Claim(p) ==
    LET e == local[p].exec
        snap == local[p].snap
        Take(next, chain, target) ==
            Goto(p, next, [local[p] EXCEPT !.chain = chain, !.target = target])
    IN  /\ pc[p] = "claim"
        /\ ClaimAbandoned(e, local[p].seen)
        /\ \/ /\ HeldSteps(snap) = {}
              /\ Take("close", {}, "failed")
           \/ /\ HeldSteps(snap) # {}
              /\ Rebuildable(snap)
              /\ Take("compensate", HeldSteps(snap), "failed")
           \/ /\ HeldSteps(snap) # {}
              /\ Take("close", {}, "compensation_failed")
        /\ UNCHANGED <<world, crashes, lostWrites>>

ClaimLost(p) ==
    /\ pc[p] = "claim"
    /\ ~Claimable(local[p].exec, local[p].seen)
    /\ IF local[p].mode = "judge" THEN Again(p) ELSE Return(p)
    /\ UNCHANGED <<store, world, crashes, lostWrites>>

\* The Store did not answer; the stamp may have been written all the same
ClaimUndecided(p) ==
    /\ pc[p] = "claim"
    /\ \/ UNCHANGED <<store, lostWrites>>
       \/ /\ lostWrites < MaxLostWrites /\ FaultsLeft
          /\ lostWrites' = lostWrites + 1
          /\ ClaimAbandoned(local[p].exec, local[p].seen)
    /\ Return(p)
    /\ UNCHANGED <<world, crashes>>

-----------------------------------------------------------------------------
(* execute: invoke the steps in order, compensate in reverse.              *)

SetEffect(e, s, x) == effect' = [effect EXCEPT ![e][s] = x]

\* The attempt may have reached the world before its answer was lost
MaybeApplied(e, s) == UNCHANGED effect \/ SetEffect(e, s, "applied")

InvokeSucceeds(p) ==
    /\ pc[p] = "invoke"
    /\ SetEffect(local[p].exec, local[p].step, "applied")
    /\ Goto(p, "record", [local[p] EXCEPT !.rec = "invoked"])
    /\ UNCHANGED <<store, request, succeeded, crashes, lostWrites>>

InvokeRetried(p) ==
    /\ pc[p] = "invoke"
    /\ local[p].attempt < MaxAttempts
    /\ MaybeApplied(local[p].exec, local[p].step)
    /\ Goto(p, "invoke", [local[p] EXCEPT !.attempt = @ + 1])
    /\ UNCHANGED <<store, request, succeeded, crashes, lostWrites>>

\* Slip: the failure is recorded and the execution still closes as completed
InvokeFailsUnnoticed(p) ==
    /\ pc[p] = "invoke"
    /\ UNCHANGED effect
    /\ Goto(p, "record", [local[p] EXCEPT !.rec = "failed"])
    /\ UNCHANGED <<store, request, succeeded, crashes, lostWrites>>

\* A step that fails on its only attempt leaves things clean by contract
InvokeFails(p) ==
    /\ pc[p] = "invoke"
    /\ IF local[p].attempt = 1 THEN UNCHANGED effect
       ELSE MaybeApplied(local[p].exec, local[p].step)
    /\ Goto(p, "record", [local[p] EXCEPT !.rec = "failed", !.target = "failed"])
    /\ UNCHANGED <<store, request, succeeded, crashes, lostWrites>>

\* ErrUncompensated: the step reports that its own rollback left work behind
InvokeUncompensated(p) ==
    /\ pc[p] = "invoke"
    /\ local[p].step \in Leaky
    /\ SetEffect(local[p].exec, local[p].step, "applied")
    /\ Goto(p, "record", [local[p] EXCEPT !.rec = "failed", !.target = "compensation_failed"])
    /\ UNCHANGED <<store, request, succeeded, crashes, lostWrites>>

Unwind(chain) == IF chain = {} THEN "close" ELSE "compensate"

\* The context died between two steps
Canceled(p) ==
    /\ pc[p] = "invoke"
    /\ local[p].attempt = 1
    /\ Goto(p, Unwind(local[p].chain), [local[p] EXCEPT !.target = "failed"])
    /\ UNCHANGED <<store, world, crashes, lostWrites>>

\* The chain after the record of step s: a success joins it, a failure joins
\* it if the engine retried the step, a compensation leaves it
ChainAfter(l) ==
    CASE l.rec = "invoked" -> l.chain \cup {l.step}
      [] l.rec = "failed" -> IF l.attempt > 1 THEN l.chain \cup {l.step} ELSE l.chain
      [] OTHER -> l.chain \ {l.step}

\* What follows the record of l.step, when it leaves the chain c
After(l, c) ==
    CASE l.rec = "invoked" /\ l.step < NSteps -> "invoke"
      [] l.rec = "invoked" /\ l.step = NSteps -> "close"
      [] OTHER -> Unwind(c)

\* persistStep and what the loop it stands in does next
Record(p) ==
    LET l == local[p]
        c == ChainAfter(l)
    IN  /\ pc[p] = "record"
        /\ Persist(AppendStep(l.exec, l.step, l.rec))
        /\ IF After(l, c) = "invoke"
           THEN Goto(p, "invoke", [l EXCEPT !.chain = c, !.attempt = 1, !.step = @ + 1])
           ELSE Goto(p, After(l, c), [l EXCEPT !.chain = c])
        /\ UNCHANGED <<world, crashes>>

\* Slip: the chain is walked forwards
LatestForwards(S) == {s \in S : \A t \in S : s <= t}

\* done is in step order, on the normal path and from the record alike, so
\* walking it backwards takes the highest index first
Latest(S) == {s \in S : \A t \in S : t <= s}

\* Compensate undoes what stands, is a no-op on what does not, and may fail
\* with the side effect undone or not; its retries touch nothing else
Compensate(p) ==
    \E s \in Latest(local[p].chain) :
        LET e == local[p].exec
            undo == IF effect[e][s] = "applied" THEN SetEffect(e, s, "undone")
                                                ELSE UNCHANGED effect
        IN  /\ pc[p] = "compensate"
            /\ \/ /\ undo
                  /\ Goto(p, "record", [local[p] EXCEPT !.step = s, !.rec = "compensated"])
               \/ /\ undo \/ UNCHANGED effect
                  /\ Goto(p, "record", [local[p] EXCEPT !.step = s, !.rec = "compensation_failed",
                                                        !.target = "compensation_failed"])
            /\ UNCHANGED <<store, request, succeeded, crashes, lostWrites>>

\* persistStatus, then the answer: a judged record that was closed as failed
\* freed the key, so its judge turns once more
Close(p) ==
    LET l == local[p]
    IN  /\ pc[p] = "close"
        /\ Persist(UpdateStatus(l.exec, l.target))
        /\ IF l.mode = "judge" /\ l.target = "failed" THEN Again(p) ELSE Return(p)
        /\ succeeded' = [succeeded EXCEPT ![l.exec] = @ \/ l.target = "completed"]
        /\ UNCHANGED <<effect, request, crashes>>

-----------------------------------------------------------------------------
(* The environment: process death and time.                                *)

Crash(p) ==
    /\ pc[p] # "idle"
    /\ crashes < MaxCrashes /\ FaultsLeft
    /\ crashes' = crashes + 1
    /\ Return(p)
    /\ UNCHANGED <<store, world, lostWrites>>

LeaseExpires(e) ==
    /\ status[e] = "running"
    /\ ~expired[e]
    /\ LeaseCoversRun => Drivers(e) = {}
    /\ expired' = [expired EXCEPT ![e] = TRUE]
    /\ UNCHANGED <<status, key, steps, updatedAt, world, pc, local, crashes, lostWrites>>

Advance(p) ==
    \/ \E e \in Execs : Open(p, e) \/ OpenUnanswered(p, e)
    \/ OpenConflict(p) \/ StoreError(p) \/ Replay(p) \/ GetSteps(p)
    \/ Claim(p) \/ ClaimLost(p) \/ ClaimUndecided(p)
    \/ InvokeSucceeds(p) \/ InvokeRetried(p) \/ InvokeFails(p)
    \/ InvokeUncompensated(p) \/ Canceled(p)
    \/ Record(p) \/ Compensate(p) \/ Close(p)

Next ==
    \/ \E p \in Procs :
          \/ \E k \in Keys \cup {NoKey} : Run(p, k)
          \/ \E e \in Execs : Recover(p, e)
          \/ Advance(p)
          \/ Crash(p)
    \/ \E e \in Execs : LeaseExpires(e)

Spec == Init /\ [][Next]_vars

\* A call that has begun goes on until it returns or its process dies
FairSpec == Spec /\ \A p \in Procs : WF_vars(Advance(p))

-----------------------------------------------------------------------------
(* Properties.                                                             *)

\* pgstore Reader.Stuck: what "gobit stuck" lists
Stuck(e) ==
    \/ status[e] = "compensation_failed"
    \/ status[e] = "running" /\ expired[e] /\ HeldSteps(steps[e]) # {}

Standing(e) == {s \in Steps : effect[e][s] = "applied"}

\* At most one live process invokes or compensates the steps of an execution
\* (ClaimAbandoned makes recovery exclusive, the lease keeps the owner out).
SingleDriver ==
    \A p, q \in Procs :
        pc[p] \in Driving /\ pc[q] \in Driving /\ local[p].exec = local[q].exec => p = q

\* A call that drives or judges an execution names one that was opened.
Attached ==
    \A p \in Procs : pc[p] \in Busy =>
        local[p].exec \in Execs /\ status[local[p].exec] # "absent"

\* A judge's stamp is never ahead of the record's.
SeenIsPast ==
    \A p \in Procs : pc[p] \in Judging => local[p].seen <= updatedAt[local[p].exec]

\* A judge of an execution that somebody drives has already lost the claim.
ClaimNeedsNoOwner ==
    \A p, q \in Procs :
        pc[p] \in Judging /\ pc[q] \in Driving /\ local[p].exec = local[q].exec
            => local[p].seen < updatedAt[local[p].exec]

\* The lease of a driven execution has not run out.
ExpiredHasNoOwner == \A p \in Procs : pc[p] \in Driving => ~expired[local[p].exec]

\* A driven execution is running.
OwnerRuns == \A p \in Procs : pc[p] \in Driving => status[local[p].exec] = "running"

\* The claim protocol of recover.go, as an inductive invariant: an execution in
\* work is running, its lease stands, one call drives it, and every judge of it
\* holds a stamp that ClaimAbandoned will refuse.
Ownership ==
    /\ Attached
    /\ SeenIsPast
    /\ ClaimNeedsNoOwner
    /\ ExpiredHasNoOwner
    /\ OwnerRuns
    /\ SingleDriver

\* A terminal status is never overwritten although UpdateStatus itself does
\* not look at the status it replaces.
TerminalIsFinal ==
    [][\A e \in Execs : status[e] \in Terminal => status'[e] = status[e]]_status

\* "failed" releases the key because the attempt left no trace: the only side
\* effects that survive it are those of a step that died without a record.
FailedLeavesNoRecordedWork ==
    \A e \in Execs : status[e] = "failed" =>
        \A s \in Standing(e) : steps[e][s] = "none"

\* persistStep and finish only log a record write that failed: what follows is
\* promised as long as every write has landed
RecordsLanded == lostWrites = 0

\* A RecoveryBlocker (checkout's capture) whose side effect stands is never
\* closed as failed, so its key is never freed for a second charge.
BlockerNeverReleased ==
    \A e \in Execs : status[e] = "failed" => Standing(e) \cap Blockers = {}

\* The same, while no record write has failed.
RecordedBlockerNeverReleased == RecordsLanded => BlockerNeverReleased

\* An execution whose caller was told "completed" keeps every side effect, while
\* no record write has failed.
SuccessStands ==
    RecordsLanded => \A e \in Execs : succeeded[e] => Standing(e) = Steps

\* A claim that is about to be won decides on the steps the record holds now,
\* although they were read in an earlier call than the claim.
ClaimSeesCurrentSteps ==
    \A p \in Procs :
        pc[p] = "claim" /\ Claimable(local[p].exec, local[p].seen)
            => local[p].snap = steps[local[p].exec]

\* Whoever compensates, a side effect is undone only after every later step
\* of the execution that the record calls invoked, while no write has failed.
UndoneInReverse ==
    [][RecordsLanded => \A e \in Execs, s \in Steps :
          effect[e][s] = "applied" /\ effect'[e][s] = "undone" =>
              \A t \in Standing(e) : t > s => steps[e][t] # "invoked"]_effect

\* Recorded work that stands with no process behind it, in an execution that
\* did not complete, is listed by "gobit stuck" once the lease has run out.
HangingWorkIsListed ==
    \A e \in Execs :
        /\ status[e] \in {"running", "compensation_failed"}
        /\ status[e] = "running" => expired[e]
        /\ Drivers(e) = {}
        /\ \E s \in Standing(e) : steps[e][s] # "none"
        => Stuck(e)

\* Every Run and Recover call returns, or its process dies.
EveryCallReturns == \A p \in Procs : pc[p] # "idle" ~> pc[p] = "idle"

\* A key does its work once: beside an execution whose caller was told
\* "completed", no other one opened with the key has recorded work standing,
\* while no record write has failed.
KeyWorksOnce ==
    RecordsLanded => \A e, f \in Execs :
        e # f /\ request[e] # NoKey /\ request[e] = request[f] /\ succeeded[e]
            => \A s \in Standing(f) : steps[f][s] = "none"

=============================================================================
