------------------------------ MODULE JobRunner ------------------------------
(***************************************************************************)
(* The scheduler of internal/core/job with its PostgreSQL store jobpg.     *)
(*                                                                         *)
(* Every instance ticks and considers the registered jobs one after the    *)
(* other.  Two mechanisms are composed: a session-scoped advisory lock     *)
(* says that somebody runs the job now, a row per occurrence says that the *)
(* occurrence has been taken.  The lock dies with its database session,    *)
(* the job does not; the row outlives both.                                *)
(***************************************************************************)
EXTENDS Naturals, FiniteSets

CONSTANTS
    Instances,  \* processes that run the scheduler
    None,       \* the holder of a free lock
    NJobs,      \* registered jobs, in registration order
    MaxDue,     \* bound on the occurrences
    MaxLost,    \* bound on database sessions that end under a live process
    MaxFaults   \* bound on crashes, shutdowns and failed statements

Jobs == 1..NJobs
Dues == 1..MaxDue

ASSUME RunnerAssumption ==
    /\ None \notin Instances
    /\ NJobs \in Nat \ {0}
    /\ MaxDue \in Nat \ {0}
    /\ MaxLost \in Nat
    /\ MaxFaults \in Nat

VARIABLES
    clock,    \* the occurrence an instance's own clock stands in
    lock,     \* the instance whose session holds the job's advisory lock
    runs,     \* job_run: "none", "unfinished", or "finished" for ok and failed alike
    started,  \* history: how often Run was called for the occurrence
    excused,  \* history: occurrences whose process died in the run or whose claim or outcome failed
    pc,       \* what the instance does next
    live,     \* the runner's context has not been canceled
    at,       \* the job the pass has reached
    due,      \* the occurrence it computed for that job
    lost,     \* sessions lost so far
    faults    \* other faults so far

db == <<lock, runs>>
call == <<pc, live, at, due>>
vars == <<clock, db, started, excused, call, lost, faults>>

Points == {"idle", "consider", "acquire", "claim", "run", "record", "unlock", "stopped"}

TypeOK ==
    /\ clock \in [Instances -> Dues]
    /\ lock \in [Jobs -> Instances \cup {None}]
    /\ runs \in [Jobs -> [Dues -> {"none", "unfinished", "finished"}]]
    /\ started \in [Jobs -> [Dues -> Nat]]
    /\ excused \in SUBSET (Jobs \X Dues)
    /\ pc \in [Instances -> Points]
    /\ live \in [Instances -> BOOLEAN]
    /\ at \in [Instances -> Jobs]
    /\ due \in [Instances -> Dues]
    /\ lost \in 0..MaxLost
    /\ faults \in 0..MaxFaults

Init ==
    /\ clock = [i \in Instances |-> 1]
    /\ lock = [j \in Jobs |-> None]
    /\ runs = [j \in Jobs |-> [d \in Dues |-> "none"]]
    /\ started = [j \in Jobs |-> [d \in Dues |-> 0]]
    /\ excused = {}
    /\ pc = [i \in Instances |-> "stopped"]
    /\ live = [i \in Instances |-> FALSE]
    /\ at = [i \in Instances |-> 1]
    /\ due = [i \in Instances |-> 1]
    /\ lost = 0
    /\ faults = 0

Goto(i, next) == pc' = [pc EXCEPT ![i] = next]

Fault == faults < MaxFaults /\ faults' = faults + 1

\* A statement fails because the context is dead, or for the database's reasons
StatementFails(i) == (~live[i] /\ UNCHANGED faults) \/ Fault

-----------------------------------------------------------------------------
(* The loop: Start, the tick, the pass over the jobs, Stop.                *)

\* Start begins with a pass; the process may be a new one
Start(i) ==
    /\ pc[i] = "stopped"
    /\ live' = [live EXCEPT ![i] = TRUE]
    /\ at' = [at EXCEPT ![i] = 1]
    /\ Goto(i, "consider")
    /\ UNCHANGED <<clock, db, started, excused, due, lost, faults>>

Tick(i) ==
    /\ pc[i] = "idle"
    /\ live[i]
    /\ at' = [at EXCEPT ![i] = 1]
    /\ Goto(i, "consider")
    /\ UNCHANGED <<clock, db, started, excused, live, due, lost, faults>>

\* Stop cancels the context; the pass that is under way ends by itself
Stop(i) ==
    /\ live[i]
    /\ Fault
    /\ live' = [live EXCEPT ![i] = FALSE]
    /\ UNCHANGED <<clock, db, started, excused, pc, at, due, lost>>

Quit(i) ==
    /\ pc[i] \in {"idle", "consider"}
    /\ ~live[i]
    /\ Goto(i, "stopped")
    /\ UNCHANGED <<clock, db, started, excused, live, at, due, lost, faults>>

\* Slip: the loop does not stop after the last job
NextJobUnbounded(i) ==
    /\ at' = [at EXCEPT ![i] = @ + 1]
    /\ Goto(i, "consider")

\* Slip: a job that is not run here ends the pass
NextJobEndsPass(i) ==
    /\ UNCHANGED at
    /\ Goto(i, "idle")

NextJob(i) ==
    IF at[i] < NJobs
    THEN at' = [at EXCEPT ![i] = @ + 1] /\ Goto(i, "consider")
    ELSE UNCHANGED at /\ Goto(i, "idle")

-----------------------------------------------------------------------------
(* consider and WithLock: lock, claim, run, record, unlock.                *)

\* The occurrence is computed before the connection and the lock are there
Consider(i) ==
    /\ pc[i] = "consider"
    /\ live[i]
    /\ due' = [due EXCEPT ![i] = clock[i]]
    /\ Goto(i, "acquire")
    /\ UNCHANGED <<clock, db, started, excused, live, at, lost, faults>>

\* Slip: the answer of pg_try_advisory_lock is not looked at
TryLockUnchecked(i) ==
    /\ pc[i] = "acquire"
    /\ lock' = [lock EXCEPT ![at[i]] = i]
    /\ Goto(i, "claim")
    /\ UNCHANGED <<clock, runs, started, excused, live, at, due, lost, faults>>

TryLock(i) ==
    /\ pc[i] = "acquire"
    /\ \/ /\ lock[at[i]] = None
          /\ lock' = [lock EXCEPT ![at[i]] = i]
          /\ Goto(i, "claim")
          /\ UNCHANGED at
       \/ /\ lock[at[i]] # None
          /\ NextJob(i)
          /\ UNCHANGED lock
    /\ UNCHANGED <<clock, runs, started, excused, live, due, lost, faults>>

\* No connection or no answer: the session, if there is one, is closed
AcquireFails(i) ==
    /\ pc[i] = "acquire"
    /\ StatementFails(i)
    /\ NextJob(i)
    /\ UNCHANGED <<clock, db, started, excused, live, due, lost>>

\* Slip: ON CONFLICT is taken for a success
ClaimAnyway(i) ==
    /\ pc[i] = "claim"
    /\ runs' = [runs EXCEPT ![at[i]][due[i]] = "unfinished"]
    /\ started' = [started EXCEPT ![at[i]][due[i]] = @ + 1]
    /\ Goto(i, "run")
    /\ UNCHANGED <<clock, lock, excused, live, at, due, lost, faults>>

Claim(i) ==
    /\ pc[i] = "claim"
    /\ \/ /\ runs[at[i]][due[i]] = "none"
          /\ runs' = [runs EXCEPT ![at[i]][due[i]] = "unfinished"]
          /\ started' = [started EXCEPT ![at[i]][due[i]] = @ + 1]
          /\ Goto(i, "run")
       \/ /\ runs[at[i]][due[i]] # "none"
          /\ Goto(i, "unlock")
          /\ UNCHANGED <<runs, started>>
    /\ UNCHANGED <<clock, lock, excused, live, at, due, lost, faults>>

\* The row may have been inserted although the answer did not arrive
ClaimFails(i) ==
    /\ pc[i] = "claim"
    /\ StatementFails(i)
    /\ \/ UNCHANGED <<runs, excused>>
       \/ /\ runs[at[i]][due[i]] = "none"
          /\ runs' = [runs EXCEPT ![at[i]][due[i]] = "unfinished"]
          /\ excused' = excused \cup {<<at[i], due[i]>>}
    /\ Goto(i, "unlock")
    /\ UNCHANGED <<clock, lock, started, live, at, due, lost>>

\* Run returns, panics or runs into MaxRun or a canceled context
RunEnds(i) ==
    /\ pc[i] = "run"
    /\ Goto(i, "record")
    /\ UNCHANGED <<clock, db, started, excused, live, at, due, lost, faults>>

\* Slip: the outcome is written on the run's own context
FinishAttached(i) ==
    /\ pc[i] = "record"
    /\ runs' = IF live[i] THEN [runs EXCEPT ![at[i]][due[i]] = "finished"] ELSE runs
    /\ Goto(i, "unlock")
    /\ UNCHANGED <<clock, lock, started, excused, live, at, due, lost, faults>>

\* The outcome is written on a detached context, only over an unfinished row
Finish(i) ==
    /\ pc[i] = "record"
    /\ runs' = IF runs[at[i]][due[i]] = "unfinished"
               THEN [runs EXCEPT ![at[i]][due[i]] = "finished"] ELSE runs
    /\ Goto(i, "unlock")
    /\ UNCHANGED <<clock, lock, started, excused, live, at, due, lost, faults>>

FinishFails(i) ==
    /\ pc[i] = "record"
    /\ Fault
    /\ excused' = excused \cup {<<at[i], due[i]>>}
    /\ Goto(i, "unlock")
    /\ UNCHANGED <<clock, db, started, live, at, due, lost>>

\* The unlock is detached too; on a session that is gone it does nothing
Unlock(i) ==
    /\ pc[i] = "unlock"
    /\ lock' = IF lock[at[i]] = i THEN [lock EXCEPT ![at[i]] = None] ELSE lock
    /\ NextJob(i)
    /\ UNCHANGED <<clock, runs, started, excused, live, due, lost, faults>>

\* The unlock got no answer: the lock stays until its session is closed
UnlockFails(i) ==
    /\ pc[i] = "unlock"
    /\ Fault
    /\ NextJob(i)
    /\ UNCHANGED <<clock, db, started, excused, live, due, lost>>

-----------------------------------------------------------------------------
(* The environment: clocks, sessions and process death.                    *)

ClockTurns(i) ==
    /\ clock[i] < MaxDue
    /\ clock' = [clock EXCEPT ![i] = @ + 1]
    /\ UNCHANGED <<db, started, excused, call, lost, faults>>

Working(i, j) == at[i] = j /\ pc[i] \in {"claim", "run", "record", "unlock"}

\* A session nobody works in any more is closed, and its lock goes with it
SessionCloses(j) ==
    /\ lock[j] # None
    /\ ~Working(lock[j], j)
    /\ lock' = [lock EXCEPT ![j] = None]
    /\ UNCHANGED <<clock, runs, started, excused, call, lost, faults>>

\* The database ends the session while its process still works
SessionLost(j) ==
    /\ lock[j] # None
    /\ Working(lock[j], j)
    /\ lost < MaxLost
    /\ lost' = lost + 1
    /\ lock' = [lock EXCEPT ![j] = None]
    /\ UNCHANGED <<clock, runs, started, excused, call, faults>>

Running(i, j, d) == at[i] = j /\ due[i] = d /\ pc[i] \in {"run", "record"}

\* The locks of a dead process are reaped when its backend exits
Crash(i) ==
    /\ pc[i] # "stopped"
    /\ Fault
    /\ excused' = excused \cup {jd \in Jobs \X Dues : Running(i, jd[1], jd[2])}
    /\ live' = [live EXCEPT ![i] = FALSE]
    /\ Goto(i, "stopped")
    /\ UNCHANGED <<clock, db, started, at, due, lost>>

-----------------------------------------------------------------------------
Loop(i) ==
    \/ Start(i) \/ Tick(i) \/ Quit(i) \/ Consider(i) \/ TryLock(i) \/ Claim(i)
    \/ RunEnds(i) \/ Finish(i) \/ Unlock(i)

Next ==
    \/ \E i \in Instances :
          \/ Loop(i) \/ Stop(i) \/ Crash(i) \/ ClockTurns(i)
          \/ AcquireFails(i) \/ ClaimFails(i) \/ FinishFails(i) \/ UnlockFails(i)
    \/ \E j \in Jobs : SessionCloses(j) \/ SessionLost(j)

Spec == Init /\ [][Next]_vars

\* Instances are restarted, tick and bound every run by MaxRun; PostgreSQL
\* closes the session of a dead backend
FairSpec ==
    /\ Spec
    /\ \A i \in Instances : WF_vars(Loop(i))
    /\ \A j \in Jobs : WF_vars(SessionCloses(j))

-----------------------------------------------------------------------------
(* Properties.                                                             *)

\* An occurrence is run at most once by all instances together, whatever their
\* clocks say and even where the lock was lost: the insert is the election.
OccurrenceRunsOnce == \A j \in Jobs, d \in Dues : started[j][d] <= 1

\* Two instances run a job at the same time only if the session that held its
\* lock was lost under a live process, once for every run too many.
OverlapNeedsALostSession ==
    \A j \in Jobs : Cardinality({i \in Instances : at[i] = j /\ pc[i] = "run"}) <= 1 + lost

\* A run that is over is not listed as unfinished unless its process died or
\* its record could not be written: shutdown alone never loses an outcome.
EndedRunIsRecorded ==
    \A j \in Jobs, d \in Dues :
        runs[j][d] = "unfinished" =>
            <<j, d>> \in excused \/ \E i \in Instances : Running(i, j, d)

\* Once all clocks stand in an occurrence, every job is run to its end for it and the
\* outcome recorded: no shutdown, lost session, leaked lock or long job before it keeps it
\* from that.  Excused are a process that died in the run and a claim or an outcome whose
\* statement failed: the row is there and stays unfinished, and nobody runs it again.
EveryJobGetsItsTurn ==
    \A j \in Jobs :
        (\A i \in Instances : clock[i] = MaxDue)
            ~> (runs[j][MaxDue] = "finished" \/ <<j, MaxDue>> \in excused)

=============================================================================
