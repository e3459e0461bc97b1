--------------------------- MODULE JobRunnerProofs ---------------------------
(***************************************************************************)
(* Theorems about JobRunner, for any number of instances, jobs,            *)
(* occurrences, lost sessions and faults.                                  *)
(***************************************************************************)
EXTENDS JobRunner, FiniteSetTheorems, TLAPS

\* Where a pass begins, how it goes on and how a clock turns.
LEMMA Ranges ==
    /\ 1 \in Jobs /\ 1 \in Dues
    /\ \A j \in Jobs : j < NJobs => j + 1 \in Jobs
    /\ \A d \in Dues : d < MaxDue => d + 1 \in Dues
BY RunnerAssumption DEF Jobs, Dues

\* A counter below its bound may be counted up.
LEMMA Counts == ASSUME NEW m \in Nat, NEW n \in 0..m, n < m PROVE n + 1 \in 0..m
OBVIOUS

-----------------------------------------------------------------------------
(* Type correctness.                                                       *)

\* The initial state has the types.
LEMMA InitTyped == Init => TypeOK
BY Ranges, RunnerAssumption DEF Init, TypeOK, Points

\* The pass stays inside the registered jobs.
LEMMA NextJobTyped ==
    ASSUME TypeOK, NEW i \in Instances, NextJob(i)
    PROVE  at' \in [Instances -> Jobs] /\ pc' \in [Instances -> Points]
<1>1. at[i] \in Jobs
  BY DEF TypeOK
<1>2. CASE at[i] < NJobs
  <2>1. at[i] + 1 \in Jobs
    BY <1>1, <1>2, Ranges
  <2> QED
    BY <1>2, <2>1 DEF TypeOK, NextJob, Goto, Points
<1>3. CASE ~(at[i] < NJobs)
  BY <1>3 DEF TypeOK, NextJob, Goto, Points
<1> QED
  BY <1>2, <1>3

\* A fault is counted, or the context was dead and none is.
LEMMA FaultTyped ==
    ASSUME TypeOK, NEW i \in Instances, Fault \/ StatementFails(i)
    PROVE  faults' \in 0..MaxFaults
BY Counts, RunnerAssumption DEF TypeOK, Fault, StatementFails

\* A change of one row of job_run keeps the table typed.
LEMMA RowTyped ==
    ASSUME TypeOK, NEW i \in Instances, NEW v \in {"none", "unfinished", "finished"}
    PROVE  [runs EXCEPT ![at[i]][due[i]] = v]
               \in [Jobs -> [Dues -> {"none", "unfinished", "finished"}]]
BY DEF TypeOK

\* So does a counted start.
LEMMA StartedTyped ==
    ASSUME TypeOK, NEW i \in Instances
    PROVE  [started EXCEPT ![at[i]][due[i]] = @ + 1] \in [Jobs -> [Dues -> Nat]]
<1>1. started[at[i]][due[i]] + 1 \in Nat
  BY DEF TypeOK
<1> QED
  BY <1>1 DEF TypeOK

\* Every step of the loop keeps the types.
LEMMA LoopTyped ==
    ASSUME TypeOK, NEW i \in Instances, Loop(i)
    PROVE  TypeOK'
<1>1. CASE Start(i)
  BY <1>1, Ranges DEF TypeOK, Start, Goto, Points, db
<1>2. CASE Tick(i)
  BY <1>2, Ranges DEF TypeOK, Tick, Goto, Points, db
<1>3. CASE Quit(i)
  BY <1>3 DEF TypeOK, Quit, Goto, Points, db
<1>4. CASE Consider(i)
  BY <1>4 DEF TypeOK, Consider, Goto, Points, db
<1>5. CASE TryLock(i)
  <2>1. at' \in [Instances -> Jobs] /\ pc' \in [Instances -> Points]
    BY <1>5, NextJobTyped DEF TypeOK, TryLock, Goto, Points
  <2>2. lock' \in [Jobs -> Instances \cup {None}]
    BY <1>5 DEF TypeOK, TryLock
  <2> QED
    BY <1>5, <2>1, <2>2 DEF TypeOK, TryLock
<1>6. CASE Claim(i)
  <2>1. [runs EXCEPT ![at[i]][due[i]] = "unfinished"]
            \in [Jobs -> [Dues -> {"none", "unfinished", "finished"}]]
    BY RowTyped
  <2>2. runs' \in [Jobs -> [Dues -> {"none", "unfinished", "finished"}]]
    BY <1>6, <2>1 DEF TypeOK, Claim
  <2>3. started' \in [Jobs -> [Dues -> Nat]]
    <3>1. \/ started' = [started EXCEPT ![at[i]][due[i]] = @ + 1]
          \/ started' = started
      BY <1>6, Zenon DEF Claim
    <3>2. [started EXCEPT ![at[i]][due[i]] = @ + 1] \in [Jobs -> [Dues -> Nat]]
      BY StartedTyped
    <3>3. started \in [Jobs -> [Dues -> Nat]]
      BY DEF TypeOK
    <3> QED
      BY <3>1, <3>2, <3>3, Zenon
  <2>4. pc' \in [Instances -> Points]
    BY <1>6 DEF TypeOK, Claim, Goto, Points
  <2> QED
    BY <1>6, <2>2, <2>3, <2>4 DEF TypeOK, Claim
<1>7. CASE RunEnds(i)
  BY <1>7 DEF TypeOK, RunEnds, Goto, Points, db
<1>8. CASE Finish(i)
  <2>1. runs' \in [Jobs -> [Dues -> {"none", "unfinished", "finished"}]]
    BY <1>8, RowTyped DEF TypeOK, Finish
  <2> QED
    BY <1>8, <2>1 DEF TypeOK, Finish, Goto, Points
<1>9. CASE Unlock(i)
  <2>1. at' \in [Instances -> Jobs] /\ pc' \in [Instances -> Points]
    BY <1>9, NextJobTyped DEF Unlock
  <2> QED
    BY <1>9, <2>1 DEF TypeOK, Unlock
<1> QED
  BY <1>1, <1>2, <1>3, <1>4, <1>5, <1>6, <1>7, <1>8, <1>9 DEF Loop

\* So does every fault of an instance, and its clock.
LEMMA FaultsTyped ==
    ASSUME TypeOK, NEW i \in Instances,
           \/ Stop(i) \/ Crash(i) \/ ClockTurns(i) \/ AcquireFails(i)
           \/ ClaimFails(i) \/ FinishFails(i) \/ UnlockFails(i)
    PROVE  TypeOK'
<1>1. CASE Stop(i)
  BY <1>1, FaultTyped DEF TypeOK, Stop, db
<1>2. CASE Crash(i)
  BY <1>2, FaultTyped DEF TypeOK, Crash, Goto, Points, db
<1>3. CASE ClockTurns(i)
  BY <1>3, Ranges DEF TypeOK, ClockTurns, db, call
<1>4. CASE AcquireFails(i)
  BY <1>4, FaultTyped, NextJobTyped DEF TypeOK, AcquireFails, db
<1>5. CASE ClaimFails(i)
  <2>4. [runs EXCEPT ![at[i]][due[i]] = "unfinished"]
            \in [Jobs -> [Dues -> {"none", "unfinished", "finished"}]]
    BY RowTyped
  <2>1. runs' \in [Jobs -> [Dues -> {"none", "unfinished", "finished"}]]
    BY <1>5, <2>4 DEF TypeOK, ClaimFails
  <2>2. excused' \in SUBSET (Jobs \X Dues) /\ pc' \in [Instances -> Points]
    BY <1>5 DEF TypeOK, ClaimFails, Goto, Points
  <2>3. faults' \in 0..MaxFaults
    BY <1>5, FaultTyped DEF ClaimFails
  <2> QED
    BY <1>5, <2>1, <2>2, <2>3 DEF TypeOK, ClaimFails
<1>6. CASE FinishFails(i)
  <2>1. excused' \in SUBSET (Jobs \X Dues) /\ pc' \in [Instances -> Points]
    BY <1>6 DEF TypeOK, FinishFails, Goto, Points
  <2> QED
    BY <1>6, <2>1, FaultTyped DEF TypeOK, FinishFails, db
<1>7. CASE UnlockFails(i)
  BY <1>7, FaultTyped, NextJobTyped DEF TypeOK, UnlockFails, db
<1> QED
  BY <1>1, <1>2, <1>3, <1>4, <1>5, <1>6, <1>7

\* Every step of the scheduler keeps the types.
LEMMA NextTyped == TypeOK /\ [Next]_vars => TypeOK'
<1> SUFFICES ASSUME TypeOK, [Next]_vars PROVE TypeOK'
  OBVIOUS
<1>1. ASSUME NEW j \in Jobs, SessionCloses(j) \/ SessionLost(j) PROVE TypeOK'
  <2>1. lost' \in 0..MaxLost
    BY <1>1, Counts, RunnerAssumption DEF TypeOK, SessionCloses, SessionLost
  <2> QED
    BY <1>1, <2>1 DEF TypeOK, SessionCloses, SessionLost, call
<1>2. CASE UNCHANGED vars
  BY <1>2 DEF TypeOK, vars, db, call
<1> QED
  BY <1>1, <1>2, LoopTyped, FaultsTyped DEF Next

\* Every reachable state of the scheduler has the declared types.
THEOREM RunnerTypeCorrect == Spec => []TypeOK
<1> QED
  BY InitTyped, NextTyped, PTL DEF Spec

-----------------------------------------------------------------------------
(* The election.                                                           *)

\* What has no row was never started: the inductive form of the election.
StartedHasARow ==
    \A j \in Jobs, d \in Dues :
        started[j][d] <= 1 /\ (runs[j][d] = "none" => started[j][d] = 0)

\* A row that is there stays, and Run is started only by who inserted it.
LEMMA RowsStay ==
    ASSUME TypeOK, StartedHasARow, [Next]_vars
    PROVE  StartedHasARow'
<1>1. CASE UNCHANGED <<runs, started>>
  BY <1>1 DEF StartedHasARow
<1>2. ASSUME NEW i \in Instances, Claim(i) PROVE StartedHasARow'
  <2>1. CASE UNCHANGED <<runs, started>>
    BY <2>1 DEF StartedHasARow
  <2>2. CASE /\ runs[at[i]][due[i]] = "none"
             /\ runs' = [runs EXCEPT ![at[i]][due[i]] = "unfinished"]
             /\ started' = [started EXCEPT ![at[i]][due[i]] = @ + 1]
    <3> SUFFICES ASSUME NEW j \in Jobs, NEW d \in Dues
                 PROVE  started'[j][d] <= 1 /\ (runs'[j][d] = "none" => started'[j][d] = 0)
      BY DEF StartedHasARow
    <3>1. at[i] \in Jobs /\ due[i] \in Dues /\ started[at[i]][due[i]] = 0
      BY <2>2 DEF TypeOK, StartedHasARow
    <3>2. CASE j = at[i] /\ d = due[i]
      BY <2>2, <3>1, <3>2 DEF TypeOK
    <3>3. CASE ~(j = at[i] /\ d = due[i])
      <4>1. started'[j][d] = started[j][d] /\ runs'[j][d] = runs[j][d]
        BY <2>2, <3>1, <3>3 DEF TypeOK
      <4> QED
        BY <4>1 DEF StartedHasARow
    <3> QED
      BY <3>2, <3>3
  <2> QED
    BY <1>2, <2>1, <2>2 DEF Claim
<1>3. ASSUME NEW i \in Instances, NEW v \in {"unfinished", "finished"},
             runs' = [runs EXCEPT ![at[i]][due[i]] = v], UNCHANGED started
      PROVE  StartedHasARow'
  <2> SUFFICES ASSUME NEW j \in Jobs, NEW d \in Dues
               PROVE  started'[j][d] <= 1 /\ (runs'[j][d] = "none" => started'[j][d] = 0)
    BY DEF StartedHasARow
  <2>1. runs'[j][d] = v \/ runs'[j][d] = runs[j][d]
    BY <1>3 DEF TypeOK
  <2> QED
    BY <1>3, <2>1 DEF StartedHasARow
<1>4. ASSUME NEW i \in Instances, Finish(i) PROVE StartedHasARow'
  BY <1>1, <1>3, <1>4 DEF Finish
<1>5. ASSUME NEW i \in Instances, ClaimFails(i) PROVE StartedHasARow'
  BY <1>1, <1>3, <1>5 DEF ClaimFails
<1>6. ASSUME NEW i \in Instances, Loop(i), ~Claim(i), ~Finish(i) PROVE StartedHasARow'
  BY <1>1, <1>6 DEF Loop, Start, Tick, Quit, Consider, TryLock, RunEnds, Unlock, db
<1>7. ASSUME NEW i \in Instances,
             \/ Stop(i) \/ Crash(i) \/ ClockTurns(i)
             \/ AcquireFails(i) \/ FinishFails(i) \/ UnlockFails(i)
      PROVE  StartedHasARow'
  BY <1>1, <1>7 DEF Stop, Crash, ClockTurns, AcquireFails, FinishFails, UnlockFails, db
<1>8. ASSUME NEW j \in Jobs, SessionCloses(j) \/ SessionLost(j) PROVE StartedHasARow'
  BY <1>1, <1>8 DEF SessionCloses, SessionLost
<1>9. CASE UNCHANGED vars
  BY <1>1, <1>9 DEF vars, db
<1> QED
  BY <1>2, <1>4, <1>5, <1>6, <1>7, <1>8, <1>9 DEF Next

\* The insert into job_run elects: an occurrence is run at most once by all
\* instances together, even if the advisory lock is lost under a running job.
THEOREM OccurrencesAreElected == Spec => []OccurrenceRunsOnce
<1>1. Init => StartedHasARow
  BY DEF Init, StartedHasARow
<1>2. StartedHasARow => OccurrenceRunsOnce
  BY DEF StartedHasARow, OccurrenceRunsOnce
<1> QED
  BY <1>1, <1>2, RowsStay, RunnerTypeCorrect, PTL DEF Spec

-----------------------------------------------------------------------------
(* The record of a run that is over.                                       *)

Others(i) ==
    \A k \in Instances \ {i} : pc'[k] = pc[k] /\ at'[k] = at[k] /\ due'[k] = due[k]

\* A step of instance i keeps the records complete if it answers for the rows it
\* leaves unfinished and for the run it lets go of.
LEMMA RecordKept ==
    ASSUME EndedRunIsRecorded, NEW i \in Instances, Others(i), excused \subseteq excused',
           \A j \in Jobs, d \in Dues :
               /\ runs'[j][d] = "unfinished" =>
                     runs[j][d] = "unfinished" \/ <<j, d>> \in excused' \/ Running(i, j, d)'
               /\ Running(i, j, d) =>
                     Running(i, j, d)' \/ <<j, d>> \in excused' \/ runs'[j][d] # "unfinished"
    PROVE  EndedRunIsRecorded'
<1> SUFFICES ASSUME NEW j \in Jobs, NEW d \in Dues, runs'[j][d] = "unfinished",
                    <<j, d>> \notin excused', ~Running(i, j, d)'
             PROVE  \E k \in Instances : Running(k, j, d)'
  BY DEF EndedRunIsRecorded
<1>1. runs[j][d] = "unfinished" /\ <<j, d>> \notin excused /\ ~Running(i, j, d)
  OBVIOUS
<1>2. PICK k \in Instances : Running(k, j, d)
  BY <1>1 DEF EndedRunIsRecorded
<1>3. Running(k, j, d)'
  BY <1>1, <1>2 DEF Others, Running
<1> QED
  BY <1>3

\* Every step keeps the records complete.
LEMMA EndedKept ==
    ASSUME TypeOK, EndedRunIsRecorded, [Next]_vars
    PROVE  EndedRunIsRecorded'
<1>1. CASE UNCHANGED <<runs, excused, pc, at, due>>
  BY <1>1 DEF EndedRunIsRecorded, Running
<1>2. ASSUME NEW i \in Instances,
             \/ Start(i) \/ Tick(i) \/ Quit(i) \/ Consider(i) \/ TryLock(i) \/ Unlock(i)
             \/ AcquireFails(i) \/ UnlockFails(i)
      PROVE  EndedRunIsRecorded'
  <2>1. pc[i] \notin {"run", "record"} /\ UNCHANGED <<runs, excused>>
    BY <1>2 DEF Start, Tick, Quit, Consider, TryLock, Unlock, AcquireFails, UnlockFails, db
  <2>2. Others(i)
    BY <1>2 DEF TypeOK, Others, Start, Tick, Quit, Consider, TryLock, Unlock, AcquireFails,
                UnlockFails, NextJob, Goto
  <2>3. \A j \in Jobs, d \in Dues : ~Running(i, j, d)
    BY <2>1 DEF Running
  <2> QED
    BY <2>1, <2>2, <2>3, RecordKept
<1>3. ASSUME NEW i \in Instances, Claim(i) PROVE EndedRunIsRecorded'
  <2>1. Others(i) /\ UNCHANGED <<excused, at, due>> /\ pc[i] = "claim"
    BY <1>3 DEF TypeOK, Others, Claim, Goto
  <2>2. \A j \in Jobs, d \in Dues : ~Running(i, j, d)
    BY <2>1 DEF Running
  <2>3. ASSUME NEW j \in Jobs, NEW d \in Dues, runs'[j][d] = "unfinished",
               runs[j][d] # "unfinished"
        PROVE  Running(i, j, d)'
    <3>1. runs' = [runs EXCEPT ![at[i]][due[i]] = "unfinished"] /\ pc'[i] = "run"
      BY <1>3, <2>3 DEF TypeOK, Claim, Goto
    <3>2. j = at[i] /\ d = due[i]
      BY <2>3, <3>1 DEF TypeOK
    <3> QED
      BY <2>1, <3>1, <3>2 DEF Running
  <2> QED
    BY <2>1, <2>2, <2>3, RecordKept
<1>4. ASSUME NEW i \in Instances, ClaimFails(i) PROVE EndedRunIsRecorded'
  <2>1. Others(i) /\ pc[i] = "claim" /\ excused \subseteq excused'
    BY <1>4 DEF TypeOK, Others, ClaimFails, Goto
  <2>2. \A j \in Jobs, d \in Dues : ~Running(i, j, d)
    BY <2>1 DEF Running
  <2>3. ASSUME NEW j \in Jobs, NEW d \in Dues, runs'[j][d] = "unfinished",
               runs[j][d] # "unfinished"
        PROVE  <<j, d>> \in excused'
    <3>1. /\ runs' = [runs EXCEPT ![at[i]][due[i]] = "unfinished"]
          /\ excused' = excused \cup {<<at[i], due[i]>>}
      BY <1>4, <2>3 DEF ClaimFails
    <3>2. j = at[i] /\ d = due[i]
      BY <2>3, <3>1 DEF TypeOK
    <3> QED
      BY <3>1, <3>2
  <2> QED
    BY <2>1, <2>2, <2>3, RecordKept
<1>5. ASSUME NEW i \in Instances, RunEnds(i) PROVE EndedRunIsRecorded'
  <2>1. Others(i) /\ UNCHANGED <<runs, excused, at, due>> /\ pc'[i] = "record"
    BY <1>5 DEF TypeOK, Others, RunEnds, Goto, db
  <2>2. \A j \in Jobs, d \in Dues : Running(i, j, d) => Running(i, j, d)'
    BY <2>1 DEF Running
  <2> QED
    BY <2>1, <2>2, RecordKept
<1>6. ASSUME NEW i \in Instances, Finish(i) PROVE EndedRunIsRecorded'
  <2>1. Others(i) /\ UNCHANGED excused
    BY <1>6 DEF TypeOK, Others, Finish, Goto
  <2>2. \A j \in Jobs, d \in Dues :
            runs'[j][d] = "unfinished" => runs[j][d] = "unfinished" /\ ~Running(i, j, d)
    BY <1>6, <2>1 DEF TypeOK, Finish, Running
  <2> QED
    BY <2>1, <2>2, RecordKept
<1>7. ASSUME NEW i \in Instances, FinishFails(i) \/ Crash(i) PROVE EndedRunIsRecorded'
  <2>1. Others(i) /\ UNCHANGED runs /\ excused \subseteq excused'
    BY <1>7 DEF TypeOK, Others, FinishFails, Crash, Goto, db
  <2>2. \A j \in Jobs, d \in Dues : Running(i, j, d) => <<j, d>> \in excused'
    BY <1>7 DEF FinishFails, Crash, Running
  <2> QED
    BY <2>1, <2>2, RecordKept
<1>8. ASSUME NEW i \in Instances, Stop(i) \/ ClockTurns(i) PROVE EndedRunIsRecorded'
  BY <1>1, <1>8 DEF Stop, ClockTurns, db, call
<1>9. ASSUME NEW j \in Jobs, SessionCloses(j) \/ SessionLost(j) PROVE EndedRunIsRecorded'
  BY <1>1, <1>9 DEF SessionCloses, SessionLost, call
<1>10. CASE UNCHANGED vars
  BY <1>1, <1>10 DEF vars, db, call
<1> QED
  BY <1>2, <1>3, <1>4, <1>5, <1>6, <1>7, <1>8, <1>9, <1>10 DEF Next, Loop

\* Finish on a detached context: a run that is over is not listed as unfinished
\* unless its process died or the statement failed, whenever Stop comes.
THEOREM ShutdownLosesNoOutcome == Spec => []EndedRunIsRecorded
<1>1. Init => EndedRunIsRecorded
  BY DEF Init, EndedRunIsRecorded
<1> QED
  BY <1>1, EndedKept, RunnerTypeCorrect, PTL DEF Spec

-----------------------------------------------------------------------------
(* Overlapping runs.                                                       *)

\* Instances that work on a job without its lock
Orphans(j) == {i \in Instances : Working(i, j) /\ lock[j] # i}

\* Every orphan was made by a lost session.
OrphansPaidFor ==
    \A j \in Jobs : IsFiniteSet(Orphans(j)) /\ Cardinality(Orphans(j)) <= lost

\* No step makes an orphan
NoNewOrphan == \A j \in Jobs : Orphans(j)' \subseteq Orphans(j)

\* Going on to the next job ends the work.
LEMMA NextJobEndsWork ==
    ASSUME TypeOK, NEW i \in Instances, NextJob(i)
    PROVE  /\ \A j \in Jobs : ~Working(i, j)'
           /\ \A k \in Instances, j \in Jobs : k # i => (Working(k, j)' <=> Working(k, j))
<1>1. /\ pc'[i] \in {"consider", "idle"}
      /\ \A k \in Instances : k # i => pc'[k] = pc[k] /\ at'[k] = at[k]
  BY DEF TypeOK, NextJob, Goto
<1> QED
  BY <1>1 DEF Working

\* An instance's step takes the lock before it works, and gives only its own back.
LEMMA InstanceMakesNoOrphan ==
    ASSUME TypeOK, NEW i \in Instances,
           \/ Loop(i) \/ Stop(i) \/ Crash(i) \/ ClockTurns(i)
           \/ AcquireFails(i) \/ ClaimFails(i) \/ FinishFails(i) \/ UnlockFails(i)
    PROVE  NoNewOrphan /\ UNCHANGED lost
<1>0. UNCHANGED lost
  BY DEF Loop, Start, Tick, Quit, Consider, TryLock, Claim, RunEnds, Finish, Unlock, Stop, Crash,
         ClockTurns, AcquireFails, ClaimFails, FinishFails, UnlockFails
<1> SUFFICES ASSUME NEW j \in Jobs, NEW k \in Instances, Working(k, j)', lock'[j] # k
             PROVE  Working(k, j) /\ lock[j] # k
  BY <1>0 DEF NoNewOrphan, Orphans
<1>1. CASE Start(i) \/ Tick(i) \/ Quit(i) \/ Consider(i) \/ Crash(i)
  BY <1>1 DEF Start, Tick, Quit, Consider, Crash, Goto, TypeOK, Working, db
<1>2. CASE Stop(i) \/ ClockTurns(i)
  BY <1>2 DEF Stop, ClockTurns, Working, db, call
<1>3. CASE Claim(i) \/ RunEnds(i) \/ Finish(i) \/ ClaimFails(i) \/ FinishFails(i)
  <2>1. UNCHANGED <<lock, at>> /\ pc[i] \in {"claim", "run", "record"}
        /\ \A m \in Instances : m # i => pc'[m] = pc[m]
    BY <1>3 DEF Claim, RunEnds, Finish, ClaimFails, FinishFails, Goto, TypeOK, db
  <2> QED
    BY <2>1 DEF Working
<1>4. CASE AcquireFails(i) \/ UnlockFails(i)
  <2>1. UNCHANGED lock /\ NextJob(i)
    BY <1>4 DEF AcquireFails, UnlockFails, db
  <2> QED
    BY <2>1, NextJobEndsWork
<1>5. CASE TryLock(i)
  <2>1. CASE lock[at[i]] = None /\ lock' = [lock EXCEPT ![at[i]] = i] /\ Goto(i, "claim") /\ UNCHANGED at
    <3>1. CASE k = i
      BY <2>1, <3>1 DEF TypeOK, Goto, Working
    <3>2. CASE k # i
      BY <2>1, <3>2, RunnerAssumption DEF TypeOK, Goto, Working
    <3> QED
      BY <3>1, <3>2
  <2>2. CASE NextJob(i) /\ UNCHANGED lock
    BY <2>2, NextJobEndsWork
  <2> QED
    BY <1>5, <2>1, <2>2 DEF TryLock
<1>6. CASE Unlock(i)
  <2>1. NextJob(i) /\ lock' = IF lock[at[i]] = i THEN [lock EXCEPT ![at[i]] = None] ELSE lock
    BY <1>6 DEF Unlock
  <2>2. k # i /\ Working(k, j)
    BY <2>1, NextJobEndsWork
  <2>3. lock[j] # k
    BY <2>1, <2>2 DEF TypeOK
  <2> QED
    BY <2>2, <2>3
<1> QED
  BY <1>1, <1>2, <1>3, <1>4, <1>5, <1>6 DEF Loop

\* A session that is closed had nobody working in it; a lost one makes one orphan.
LEMMA SessionOrphans ==
    ASSUME TypeOK, NEW j \in Jobs, SessionCloses(j) \/ SessionLost(j)
    PROVE  \/ NoNewOrphan /\ UNCHANGED lost
           \/ /\ lost' = lost + 1
              /\ \E i \in Instances : \A m \in Jobs : Orphans(m)' \subseteq Orphans(m) \cup {i}
<1>1. /\ UNCHANGED <<at, pc>> /\ lock' = [lock EXCEPT ![j] = None] /\ lock[j] # None
  BY DEF SessionCloses, SessionLost, call
<1>2. lock[j] \in Instances /\ \A m \in Jobs : m # j => lock'[m] = lock[m]
  BY <1>1 DEF TypeOK
<1>3. CASE SessionCloses(j)
  <2>1. ~Working(lock[j], j) /\ UNCHANGED lost
    BY <1>3 DEF SessionCloses
  <2>2. \A m \in Jobs : \A k \in Instances : Working(k, m)' /\ lock'[m] # k => Working(k, m) /\ lock[m] # k
    BY <1>1, <1>2, <2>1 DEF Working
  <2> QED
    BY <2>1, <2>2 DEF NoNewOrphan, Orphans
<1>4. CASE SessionLost(j)
  <2>1. PICK i \in Instances : i = lock[j]
    BY <1>2
  <2>2. \A m \in Jobs : \A k \in Instances :
            Working(k, m)' /\ lock'[m] # k => k = i \/ (Working(k, m) /\ lock[m] # k)
    BY <1>1, <1>2, <2>1 DEF Working
  <2>3. \A m \in Jobs : Orphans(m)' \subseteq Orphans(m) \cup {i}
    BY <2>2 DEF Orphans
  <2> QED
    BY <1>4, <2>3 DEF SessionLost
<1> QED
  BY <1>3, <1>4

\* A step makes no orphan that is not paid for.
LEMMA OrphansKept == ASSUME TypeOK, OrphansPaidFor, [Next]_vars PROVE OrphansPaidFor'
<1>1. \/ NoNewOrphan /\ UNCHANGED lost
      \/ /\ lost' = lost + 1
         /\ \E i \in Instances : \A m \in Jobs : Orphans(m)' \subseteq Orphans(m) \cup {i}
  <2>1. CASE UNCHANGED vars
    BY <2>1 DEF vars, db, call, NoNewOrphan, Orphans, Working
  <2>2. CASE Next
    BY <2>2, InstanceMakesNoOrphan, SessionOrphans DEF Next
  <2> QED
    BY <2>1, <2>2
<1> SUFFICES ASSUME NEW j \in Jobs
             PROVE  IsFiniteSet(Orphans(j)') /\ Cardinality(Orphans(j)') <= lost'
  BY DEF OrphansPaidFor
<1> DEFINE A == Orphans(j)
           B == Orphans(j)'
<1>2. IsFiniteSet(A) /\ Cardinality(A) <= lost /\ lost \in Nat /\ Cardinality(A) \in Nat
  <2>1. IsFiniteSet(A) /\ Cardinality(A) <= lost
    BY DEF OrphansPaidFor
  <2>2. lost \in Nat
    BY RunnerAssumption DEF TypeOK
  <2> QED
    BY <2>1, <2>2, FS_CardinalityType
<1>3. CASE NoNewOrphan /\ UNCHANGED lost
  <2>1. B \subseteq A
    BY <1>3 DEF NoNewOrphan
  <2> HIDE DEF A, B
  <2>2. IsFiniteSet(B) /\ Cardinality(B) <= Cardinality(A)
    BY <1>2, <2>1, FS_Subset
  <2>3. Cardinality(B) \in Nat
    BY <2>2, FS_CardinalityType
  <2>4. IsFiniteSet(B) /\ Cardinality(B) <= lost'
    BY <1>2, <1>3, <2>2, <2>3
  <2> QED
    BY <2>4 DEF B
<1>4. CASE /\ lost' = lost + 1
           /\ \E i \in Instances : \A m \in Jobs : Orphans(m)' \subseteq Orphans(m) \cup {i}
  <2>1. PICK i \in Instances : B \subseteq A \cup {i}
    BY <1>4
  <2> HIDE DEF A, B
  <2>2. IsFiniteSet(A \cup {i}) /\ Cardinality(A \cup {i}) <= Cardinality(A) + 1
        /\ Cardinality(A \cup {i}) \in Nat
    <3>1. /\ IsFiniteSet(A \cup {i})
          /\ Cardinality(A \cup {i}) = IF i \in A THEN Cardinality(A) ELSE Cardinality(A) + 1
      BY <1>2, FS_AddElement
    <3> QED
      BY <1>2, <3>1
  <2>3. IsFiniteSet(B) /\ Cardinality(B) <= Cardinality(A \cup {i})
    BY <2>1, <2>2, FS_Subset
  <2>4. Cardinality(B) \in Nat
    BY <2>3, FS_CardinalityType
  <2>5. IsFiniteSet(B) /\ Cardinality(B) <= lost'
    BY <1>2, <1>4, <2>2, <2>3, <2>4
  <2> QED
    BY <2>5 DEF B
<1> QED
  BY <1>1, <1>3, <1>4

\* Nobody works at the start.
LEMMA InitOrphans == Init => OrphansPaidFor
<1> SUFFICES ASSUME Init, NEW j \in Jobs PROVE IsFiniteSet(Orphans(j)) /\ Cardinality(Orphans(j)) <= lost
  BY DEF OrphansPaidFor
<1>1. Orphans(j) = {}
  BY DEF Init, Orphans, Working
<1> QED
  BY <1>1, FS_EmptySet DEF Init

\* The runs of a job are its orphans and the instance that has its lock.
LEMMA OrphansBoundOverlap == ASSUME TypeOK, OrphansPaidFor PROVE OverlapNeedsALostSession
<1> SUFFICES ASSUME NEW j \in Jobs
             PROVE  Cardinality({i \in Instances : at[i] = j /\ pc[i] = "run"}) <= 1 + lost
  BY DEF OverlapNeedsALostSession
<1> DEFINE A == Orphans(j)
           R == {i \in Instances : at[i] = j /\ pc[i] = "run"}
           h == lock[j]
<1>1. R \subseteq A \cup {h}
  BY DEF Orphans, Working
<1>2. IsFiniteSet(A) /\ Cardinality(A) <= lost /\ lost \in Nat
  BY RunnerAssumption DEF OrphansPaidFor, TypeOK
<1> HIDE DEF A, R, h
<1>3. Cardinality(A) \in Nat
  BY <1>2, FS_CardinalityType
<1>4. /\ IsFiniteSet(A \cup {h})
      /\ Cardinality(A \cup {h}) = IF h \in A THEN Cardinality(A) ELSE Cardinality(A) + 1
  BY <1>2, FS_AddElement
<1>5. IsFiniteSet(R) /\ Cardinality(R) <= Cardinality(A \cup {h})
  BY <1>1, <1>4, FS_Subset
<1>6. Cardinality(R) \in Nat
  BY <1>5, FS_CardinalityType
<1>7. Cardinality(R) <= 1 + lost
  BY <1>2, <1>3, <1>4, <1>5, <1>6
<1> QED
  BY <1>7 DEF R

\* Two instances run a job at the same time only if the session that held its lock was
\* lost under a live process, once for every run too many: a death, a leaked lock, an
\* unlock without an answer or a restart never lets a second one in.
THEOREM OverlapsArePaidFor == Spec => []OverlapNeedsALostSession
<1>1. Init => TypeOK /\ OrphansPaidFor
  BY InitTyped, InitOrphans
<1>2. TypeOK /\ OrphansPaidFor /\ [Next]_vars => TypeOK' /\ OrphansPaidFor'
  BY NextTyped, OrphansKept
<1>3. TypeOK /\ OrphansPaidFor => OverlapNeedsALostSession
  BY OrphansBoundOverlap
<1> QED
  BY <1>1, <1>2, <1>3, PTL DEF Spec

=============================================================================
