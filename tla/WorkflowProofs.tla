--------------------------- MODULE WorkflowProofs ---------------------------
(***************************************************************************)
(* Proofs about the saga engine of module Workflow, for every number of    *)
(* processes, executions, keys and steps and for every bound.              *)
(*                                                                         *)
(* The argument has two halves.  StepShapes says what each of the engine's *)
(* actions does to who works on which execution: it starts one, judges an  *)
(* abandoned one, wins or loses the claim, drives on, closes or leaves.    *)
(* The ownership invariant is then preserved by every shape, whatever the  *)
(* steps and their records are.                                            *)
(***************************************************************************)
EXTENDS Workflow, TLAPS

-----------------------------------------------------------------------------
(* The call's own state.                                                   *)

\* The state a call returns to is a call's state.
LEMMA IdleIsACall == Idle \in Calls
BY EngineAssumption DEF Idle, Calls, Steps, StepStates, Terminal, NoSteps

\* The fields of a call's state.
LEMMA CallFields ==
    ASSUME NEW l \in Calls
    PROVE  /\ l.key \in Keys \cup {NoKey} /\ l.turn \in 1..2
           /\ l.exec \in Execs \cup {NoExec} /\ l.step \in Steps
           /\ l.attempt \in 1..MaxAttempts /\ l.rec \in StepStates
           /\ l.chain \in SUBSET Steps /\ l.target \in Terminal
           /\ l.seen \in Nat /\ l.snap \in [Steps -> StepStates \cup {"none"}]
BY DEF Calls

\* Run and the second turn of its loop.
LEMMA SetKey ==
    ASSUME NEW l \in Calls, NEW k \in Keys \cup {NoKey}, NEW t \in 1..2
    PROVE  [l EXCEPT !.key = k] \in Calls /\ [l EXCEPT !.key = k, !.turn = t] \in Calls
BY DEF Calls

Names(m, e) == m \in Calls /\ m.exec = e

Judged(m, e, t) == m \in Calls /\ m.exec = e /\ m.seen = t

\* Open names the execution the call works on.
LEMMA SetExec ==
    ASSUME NEW l \in Calls, NEW e \in Execs
    PROVE  Names([l EXCEPT !.exec = e, !.mode = "execute"], e)
BY DEF Calls, Names

\* Replay also keeps the stamp it saw.
LEMMA SetSeen ==
    ASSUME NEW l \in Calls, NEW e \in Execs, NEW t \in Nat
    PROVE  Judged([l EXCEPT !.exec = e, !.mode = "judge", !.seen = t], e, t)
BY DEF Calls, Judged

\* Recover keeps the stamp and the steps.
LEMMA SetSnap ==
    ASSUME NEW l \in Calls, NEW e \in Execs, NEW t \in Nat,
           NEW sn \in [Steps -> StepStates \cup {"none"}]
    PROVE  Judged([l EXCEPT !.mode = "recover", !.exec = e, !.seen = t, !.snap = sn], e, t)
BY DEF Calls, Judged

SameWork(l, m) == m \in Calls /\ m.exec = l.exec /\ m.seen = l.seen

\* GetSteps keeps the steps; this and every update below leaves the execution
\* and the stamp of the call as they were.
LEMMA SetSnapshot ==
    ASSUME NEW l \in Calls, NEW sn \in [Steps -> StepStates \cup {"none"}]
    PROVE  SameWork(l, [l EXCEPT !.snap = sn])
BY DEF Calls, SameWork

\* Claim sets the chain and the status it will end in.
LEMMA SetChain ==
    ASSUME NEW l \in Calls, NEW c \in SUBSET Steps, NEW t \in Terminal
    PROVE  SameWork(l, [l EXCEPT !.chain = c, !.target = t])
BY DEF Calls, SameWork

\* Canceled changes the status the call will end in.
LEMMA SetTarget ==
    ASSUME NEW l \in Calls, NEW t \in Terminal
    PROVE  SameWork(l, [l EXCEPT !.target = t])
BY DEF Calls, SameWork

\* InvokeRetried counts the attempt.
LEMMA SetAttempt ==
    ASSUME NEW l \in Calls, NEW a \in 1..MaxAttempts
    PROVE  SameWork(l, [l EXCEPT !.attempt = a])
BY DEF Calls, SameWork

\* InvokeSucceeds says what to record.
LEMMA SetRec ==
    ASSUME NEW l \in Calls, NEW r \in StepStates
    PROVE  SameWork(l, [l EXCEPT !.rec = r])
BY DEF Calls, SameWork

\* A failed Invoke says what to record and which status follows.
LEMMA SetRecTarget ==
    ASSUME NEW l \in Calls, NEW r \in StepStates, NEW t \in Terminal
    PROVE  SameWork(l, [l EXCEPT !.rec = r, !.target = t])
BY DEF Calls, SameWork

\* Record moves on to the next step.
LEMMA SetNextStep ==
    ASSUME NEW l \in Calls, NEW c \in SUBSET Steps, NEW a \in 1..MaxAttempts, NEW s \in Steps
    PROVE  SameWork(l, [l EXCEPT !.chain = c, !.attempt = a, !.step = s])
BY DEF Calls, SameWork

\* Record shortens or lengthens the chain and stays on its step.
LEMMA SetChainOnly ==
    ASSUME NEW l \in Calls, NEW c \in SUBSET Steps
    PROVE  SameWork(l, [l EXCEPT !.chain = c])
BY DEF Calls, SameWork

\* Compensate names the step it undid and what to record of it.
LEMMA SetUndone ==
    ASSUME NEW l \in Calls, NEW s \in Steps, NEW r \in StepStates, NEW t \in Terminal
    PROVE  /\ SameWork(l, [l EXCEPT !.step = s, !.rec = r])
           /\ SameWork(l, [l EXCEPT !.step = s, !.rec = r, !.target = t])
BY DEF Calls, SameWork

Others(p) == \A q \in Procs \ {p} : pc'[q] = pc[q] /\ local'[q] = local[q]

\* What Goto does to the process that moves and to the others.
LEMMA GotoMoves ==
    ASSUME TypeOK, NEW p \in Procs, NEW next \in Points, NEW l \in Calls, Goto(p, next, l)
    PROVE  /\ pc' \in [Procs -> Points] /\ local' \in [Procs -> Calls]
           /\ pc'[p] = next /\ local'[p] = l
           /\ Others(p)
BY DEF TypeOK, Goto, Others

\* A call that returns has let go of its execution.
LEMMA ReturnMoves ==
    ASSUME TypeOK, NEW p \in Procs, Return(p)
    PROVE  /\ pc' \in [Procs -> Points] /\ local' \in [Procs -> Calls]
           /\ pc'[p] \notin Busy
           /\ Others(p)
BY GotoMoves, IdleIsACall DEF Return, Points, Busy, Driving, Judging

\* The second turn of Run's loop, or the return that ends it.
LEMMA AgainMoves ==
    ASSUME TypeOK, NEW p \in Procs, Again(p)
    PROVE  /\ pc' \in [Procs -> Points] /\ local' \in [Procs -> Calls]
           /\ pc'[p] \notin Busy
           /\ Others(p)
<1>1. [Idle EXCEPT !.key = local[p].key, !.turn = 2] \in Calls
  <2>1. local[p] \in Calls
    BY DEF TypeOK
  <2>2. local[p].key \in Keys \cup {NoKey}
    BY <2>1, CallFields
  <2>3. 2 \in 1..2
    OBVIOUS
  <2> QED
    BY <2>2, <2>3, IdleIsACall, SetKey, Zenon
<1>2. "open" \in Points /\ "open" \notin Busy
  BY DEF Points, Busy, Driving, Judging
<1> QED
  BY <1>1, <1>2, GotoMoves, ReturnMoves DEF Again

-----------------------------------------------------------------------------
(* The Store and the world.                                                *)

Clocks == <<updatedAt, expired>>

\* A write moves the stamp of the execution on and renews its lease.
LEMMA StampMoves ==
    ASSUME TypeOK, NEW e \in Execs, Stamp(e)
    PROVE  /\ updatedAt' \in [Execs -> Nat] /\ expired' \in [Execs -> BOOLEAN]
           /\ updatedAt'[e] = updatedAt[e] + 1 /\ expired'[e] = FALSE
           /\ \A f \in Execs \ {e} : updatedAt'[f] = updatedAt[f] /\ expired'[f] = expired[f]
BY DEF TypeOK, Stamp

\* A side effect changes in one place.
LEMMA EffectTyped ==
    ASSUME TypeOK, NEW e \in Execs, NEW s \in Steps,
           NEW x \in {"none", "applied", "undone"}, SetEffect(e, s, x)
    PROVE  effect' \in [Execs -> [Steps -> {"none", "applied", "undone"}]]
BY DEF TypeOK, SetEffect

-----------------------------------------------------------------------------
(* The shapes of a step.                                                   *)

\* Create: a new record, driven by the call that opened it or by nobody.
Starts(p, e) ==
    /\ status[e] = "absent" /\ status' = [status EXCEPT ![e] = "running"]
    /\ Stamp(e)
    /\ pc'[p] \notin Judging
    /\ pc'[p] \in Driving => local'[p].exec = e

\* Replay and Recover: an expired running record is taken up for judgement.
Judges(p, e) ==
    /\ status[e] = "running" /\ expired[e]
    /\ UNCHANGED <<status, updatedAt, expired>>
    /\ pc'[p] \in Judging /\ local'[p].exec = e /\ local'[p].seen = updatedAt[e]

\* GetSteps: the judge reads on.
Reads(p) ==
    /\ pc[p] \in Judging /\ pc'[p] \in Judging
    /\ local'[p].exec = local[p].exec /\ local'[p].seen = local[p].seen
    /\ UNCHANGED <<status, updatedAt, expired>>

\* ClaimAbandoned: the stamp the judge saw is still there and moves on.
Wins(p) ==
    /\ pc[p] \in Judging
    /\ Claimable(local[p].exec, local[p].seen)
    /\ UNCHANGED status
    /\ Stamp(local[p].exec)
    /\ pc'[p] \notin Judging
    /\ pc'[p] \in Driving => local'[p].exec = local[p].exec

\* A driver goes on; it may have written a step record.
Drives(p) ==
    /\ pc[p] \in Driving /\ pc'[p] \in Driving
    /\ local'[p].exec = local[p].exec
    /\ UNCHANGED status
    /\ Stamp(local[p].exec) \/ UNCHANGED <<updatedAt, expired>>

\* A driver writes the terminal status and lets go.
Closes(p) ==
    /\ pc[p] \in Driving /\ pc'[p] \notin Busy
    /\ \E t \in Terminal : status' = [status EXCEPT ![local[p].exec] = t]
    /\ Stamp(local[p].exec)

\* A call returns, dies, begins or moves without the Store.
Leaves(p) ==
    /\ pc'[p] \notin Busy
    /\ UNCHANGED <<status, updatedAt, expired>>

\* The lease of a record runs out.
Expires(e) ==
    /\ LeaseCoversRun => Drivers(e) = {}
    /\ expired' = [expired EXCEPT ![e] = TRUE]
    /\ UNCHANGED <<status, updatedAt, pc, local>>

Moves(p) ==
    /\ Others(p)
    /\ \/ \E e \in Execs : Starts(p, e) \/ Judges(p, e)
       \/ Reads(p) \/ Wins(p) \/ Drives(p) \/ Closes(p) \/ Leaves(p)

Shape ==
    \/ \E p \in Procs : Moves(p)
    \/ \E e \in Execs : Expires(e)
    \/ UNCHANGED <<status, updatedAt, expired, pc, local>>

\* Run begins a call.
LEMMA RunShape ==
    ASSUME TypeOK, Attached, NEW p \in Procs, NEW k \in Keys \cup {NoKey}, Run(p, k)
    PROVE  TypeOK' /\ Moves(p)
<1>1. [Idle EXCEPT !.key = k] \in Calls
  <2>1. 2 \in 1..2
    OBVIOUS
  <2> QED
    BY <2>1, IdleIsACall, SetKey, Zenon
<1>2. "open" \in Points /\ "open" \notin Busy
  BY DEF Points, Busy, Driving, Judging
<1>3. /\ pc' \in [Procs -> Points] /\ local' \in [Procs -> Calls]
      /\ pc'[p] \notin Busy /\ Others(p)
  BY <1>1, <1>2, GotoMoves DEF Run
<1> QED
  BY <1>3 DEF TypeOK, Run, Moves, Leaves, store, world

\* Recover takes an expired record up.
LEMMA RecoverShape ==
    ASSUME TypeOK, Attached, NEW p \in Procs, NEW e \in Execs, Recover(p, e)
    PROVE  TypeOK' /\ Moves(p)
<1> DEFINE l == [Idle EXCEPT !.mode = "recover", !.exec = e, !.seen = updatedAt[e], !.snap = steps[e]]
<1>1. updatedAt[e] \in Nat /\ steps[e] \in [Steps -> StepStates \cup {"none"}]
  BY DEF TypeOK
<1>2. Judged(l, e, updatedAt[e])
  BY <1>1, IdleIsACall, SetSnap
<1>3. "claim" \in Points /\ "claim" \in Judging
  BY DEF Points, Judging
<1>4. Goto(p, "claim", l)
  BY DEF Recover
<1> HIDE DEF l
<1>5. /\ pc' \in [Procs -> Points] /\ local' \in [Procs -> Calls]
      /\ pc'[p] \in Judging /\ local'[p] = l /\ Others(p)
  BY <1>2, <1>3, <1>4, GotoMoves DEF Judged
<1>6. TypeOK'
  BY <1>5 DEF TypeOK, Recover, store, world
<1>7. Judges(p, e)
  BY <1>2, <1>5 DEF Recover, Judges, Judged, store
<1> QED
  BY <1>5, <1>6, <1>7 DEF Moves

\* Create in the two forms it takes: what it leaves behind.
LEMMA CreateTyped ==
    ASSUME TypeOK, NEW e \in Execs, NEW k \in Keys \cup {NoKey}, Create(e, k)
    PROVE  /\ status' \in [Execs -> Terminal \cup {"absent", "running"}]
           /\ key' \in [Execs -> Keys \cup {NoKey}]
           /\ request' \in [Execs -> Keys \cup {NoKey}]
           /\ steps' = steps
           /\ updatedAt' \in [Execs -> Nat] /\ expired' \in [Execs -> BOOLEAN]
<1>1. Stamp(e)
  BY DEF Create
<1> QED
  BY <1>1, StampMoves DEF TypeOK, Create

\* The call that opens a record drives it.
LEMMA OpenShape ==
    ASSUME TypeOK, Attached, NEW p \in Procs, NEW e \in Execs, Open(p, e)
    PROVE  TypeOK' /\ Moves(p)
<1> DEFINE l == [local[p] EXCEPT !.exec = e, !.mode = "execute"]
<1>1. local[p] \in Calls /\ local[p].key \in Keys \cup {NoKey}
  BY CallFields DEF TypeOK
<1>2. Names(l, e)
  BY <1>1, SetExec
<1>3. "invoke" \in Points /\ "invoke" \notin Judging
  BY DEF Points, Judging, Driving
<1>4. Goto(p, "invoke", l) /\ Create(e, local[p].key)
  BY DEF Open
<1> HIDE DEF l
<1>5. /\ pc' \in [Procs -> Points] /\ local' \in [Procs -> Calls]
      /\ pc'[p] \notin Judging /\ local'[p] = l /\ Others(p)
  BY <1>2, <1>3, <1>4, GotoMoves DEF Names
<1>6. TypeOK'
  BY <1>1, <1>4, <1>5, CreateTyped DEF TypeOK, Open
<1>7. Starts(p, e)
  BY <1>2, <1>4, <1>5 DEF Starts, Create, Names
<1> QED
  BY <1>5, <1>6, <1>7 DEF Moves

\* A record whose creator got no answer is driven by nobody.
LEMMA OpenUnansweredShape ==
    ASSUME TypeOK, Attached, NEW p \in Procs, NEW e \in Execs, OpenUnanswered(p, e)
    PROVE  TypeOK' /\ Moves(p)
<1>1. local[p] \in Calls /\ local[p].key \in Keys \cup {NoKey}
  BY CallFields DEF TypeOK
<1>2. Return(p) /\ Create(e, local[p].key)
  BY DEF OpenUnanswered
<1>3. /\ pc' \in [Procs -> Points] /\ local' \in [Procs -> Calls]
      /\ pc'[p] \notin Busy /\ Others(p)
  BY <1>2, ReturnMoves
<1>4. lostWrites' \in 0..MaxLostWrites
  BY EngineAssumption DEF TypeOK, OpenUnanswered
<1>5. TypeOK'
  BY <1>1, <1>2, <1>3, <1>4, CreateTyped DEF TypeOK, OpenUnanswered
<1>6. Starts(p, e)
  BY <1>2, <1>3 DEF Starts, Create, Busy
<1> QED
  BY <1>3, <1>5, <1>6 DEF Moves

\* Calls that move or return and leave the Store alone.
LEMMA LeaveShape ==
    ASSUME TypeOK, Attached, NEW p \in Procs,
           OpenConflict(p) \/ StoreError(p) \/ ClaimLost(p) \/ Crash(p)
    PROVE  TypeOK' /\ Moves(p)
<1>1. /\ pc' \in [Procs -> Points] /\ local' \in [Procs -> Calls]
      /\ pc'[p] \notin Busy /\ Others(p)
  <2>1. CASE OpenConflict(p)
    <3>1. local[p] \in Calls
      BY DEF TypeOK
    <3>2. "find" \in Points /\ "find" \notin Busy
      BY DEF Points, Busy, Driving, Judging
    <3> QED
      BY <2>1, <3>1, <3>2, GotoMoves DEF OpenConflict
  <2>2. CASE StoreError(p) \/ Crash(p)
    BY <2>2, ReturnMoves DEF StoreError, Crash
  <2>3. CASE ClaimLost(p)
    BY <2>3, ReturnMoves, AgainMoves DEF ClaimLost
  <2> QED
    BY <2>1, <2>2, <2>3
<1>2. crashes' \in 0..MaxCrashes
  BY EngineAssumption DEF TypeOK, OpenConflict, StoreError, ClaimLost, Crash
<1>3. UNCHANGED <<store, world, lostWrites>>
  BY DEF OpenConflict, StoreError, ClaimLost, Crash
<1>4. TypeOK'
  BY <1>1, <1>2, <1>3 DEF TypeOK, store, world
<1>5. Leaves(p)
  BY <1>1, <1>3 DEF Leaves, store
<1> QED
  BY <1>1, <1>4, <1>5 DEF Moves

\* A second caller returns, turns once more or takes an expired record up.
LEMMA ReplayShape ==
    ASSUME TypeOK, Attached, NEW p \in Procs, Replay(p)
    PROVE  TypeOK' /\ Moves(p)
<1>1. UNCHANGED <<store, world, crashes, lostWrites>>
  BY DEF Replay
<1>2. CASE Again(p) \/ Return(p)
  <2>1. /\ pc' \in [Procs -> Points] /\ local' \in [Procs -> Calls]
        /\ pc'[p] \notin Busy /\ Others(p)
    BY <1>2, ReturnMoves, AgainMoves
  <2>2. TypeOK'
    BY <1>1, <2>1 DEF TypeOK, store, world
  <2>3. Leaves(p)
    BY <1>1, <2>1 DEF Leaves, store
  <2> QED
    BY <2>1, <2>2, <2>3 DEF Moves
<1>3. CASE ~(Again(p) \/ Return(p))
  <2>1. PICK e \in Execs :
           /\ status[e] = "running" /\ expired[e]
           /\ Goto(p, "get", [local[p] EXCEPT !.exec = e, !.mode = "judge", !.seen = updatedAt[e]])
    BY <1>3 DEF Replay, Holder
  <2> DEFINE l == [local[p] EXCEPT !.exec = e, !.mode = "judge", !.seen = updatedAt[e]]
  <2>2. local[p] \in Calls /\ updatedAt[e] \in Nat
    BY DEF TypeOK
  <2>3. Judged(l, e, updatedAt[e])
    BY <2>2, SetSeen
  <2>4. "get" \in Points /\ "get" \in Judging
    BY DEF Points, Judging
  <2>5. Goto(p, "get", l)
    BY <2>1
  <2> HIDE DEF l
  <2>6. /\ pc' \in [Procs -> Points] /\ local' \in [Procs -> Calls]
        /\ pc'[p] \in Judging /\ local'[p] = l /\ Others(p)
    BY <2>3, <2>4, <2>5, GotoMoves DEF Judged
  <2>7. TypeOK'
    BY <1>1, <2>6 DEF TypeOK, store, world
  <2>8. Judges(p, e)
    BY <1>1, <2>1, <2>3, <2>6 DEF Judges, Judged, store
  <2> QED
    BY <2>6, <2>7, <2>8 DEF Moves
<1> QED
  BY <1>2, <1>3

\* The judge reads the steps of the record.
LEMMA GetStepsShape ==
    ASSUME TypeOK, Attached, NEW p \in Procs, GetSteps(p)
    PROVE  TypeOK' /\ Moves(p)
<1> DEFINE l == [local[p] EXCEPT !.snap = steps[local[p].exec]]
<1>1. "get" \in Busy /\ "get" \in Judging /\ "claim" \in Judging /\ "claim" \in Points
  BY DEF Busy, Judging, Points
<1>2. local[p] \in Calls /\ local[p].exec \in Execs
  BY <1>1 DEF TypeOK, Attached, GetSteps
<1>3. SameWork(local[p], l)
  <2>1. steps[local[p].exec] \in [Steps -> StepStates \cup {"none"}]
    BY <1>2 DEF TypeOK
  <2> QED
    BY <1>2, <2>1, SetSnapshot
<1>4. Goto(p, "claim", l)
  BY DEF GetSteps
<1> HIDE DEF l
<1>5. /\ pc' \in [Procs -> Points] /\ local' \in [Procs -> Calls]
      /\ pc'[p] = "claim" /\ local'[p] = l /\ Others(p)
  BY <1>1, <1>3, <1>4, GotoMoves DEF SameWork
<1>6. TypeOK'
  BY <1>5 DEF TypeOK, GetSteps, store, world
<1>7. Reads(p)
  BY <1>1, <1>3, <1>5 DEF Reads, SameWork, GetSteps, store
<1> QED
  BY <1>5, <1>6, <1>7 DEF Moves

\* The winner of the claim drives what it judged.
LEMMA ClaimShape ==
    ASSUME TypeOK, Attached, NEW p \in Procs, Claim(p)
    PROVE  TypeOK' /\ Moves(p)
<1>1. /\ "claim" \in Busy /\ "claim" \in Judging /\ "close" \in Driving /\ "close" \in Points
      /\ "compensate" \in Driving /\ "compensate" \in Points
      /\ "close" \notin Judging /\ "compensate" \notin Judging
      /\ "failed" \in Terminal /\ "compensation_failed" \in Terminal
  BY DEF Busy, Judging, Driving, Points, Terminal
<1>2. local[p] \in Calls /\ local[p].exec \in Execs
  BY <1>1 DEF TypeOK, Attached, Claim
<1>3. PICK next \in {"close", "compensate"}, c \in SUBSET Steps, t \in Terminal :
         Goto(p, next, [local[p] EXCEPT !.chain = c, !.target = t])
  <2>1. HeldSteps(local[p].snap) \in SUBSET Steps /\ {} \in SUBSET Steps
    BY DEF HeldSteps
  <2> QED
    BY <1>1, <2>1 DEF Claim
<1> DEFINE l == [local[p] EXCEPT !.chain = c, !.target = t]
<1>4. SameWork(local[p], l)
  BY <1>2, SetChain
<1>5. Goto(p, next, l)
  BY <1>3
<1> HIDE DEF l
<1>6. /\ pc' \in [Procs -> Points] /\ local' \in [Procs -> Calls]
      /\ pc'[p] = next /\ local'[p] = l /\ Others(p)
  BY <1>1, <1>4, <1>5, GotoMoves DEF SameWork
<1>7. /\ ClaimAbandoned(local[p].exec, local[p].seen)
      /\ UNCHANGED <<world, crashes, lostWrites>>
  BY DEF Claim
<1>8. TypeOK'
  BY <1>2, <1>6, <1>7, StampMoves DEF TypeOK, ClaimAbandoned, world
<1>9. Wins(p)
  BY <1>1, <1>4, <1>6, <1>7 DEF Wins, SameWork, Claim, ClaimAbandoned
<1> QED
  BY <1>6, <1>8, <1>9 DEF Moves

\* A judge that got no answer from the claim leaves, whatever was written.
LEMMA ClaimUndecidedShape ==
    ASSUME TypeOK, Attached, NEW p \in Procs, ClaimUndecided(p)
    PROVE  TypeOK' /\ Moves(p)
<1>1. "claim" \in Busy /\ "claim" \in Judging
  BY DEF Busy, Judging
<1>2. local[p] \in Calls /\ local[p].exec \in Execs
  BY <1>1 DEF TypeOK, Attached, ClaimUndecided
<1>3. /\ pc' \in [Procs -> Points] /\ local' \in [Procs -> Calls]
      /\ pc'[p] \notin Busy /\ Others(p)
  BY ReturnMoves DEF ClaimUndecided
<1>4. lostWrites' \in 0..MaxLostWrites
  BY EngineAssumption DEF TypeOK, ClaimUndecided
<1>5. UNCHANGED <<world, crashes>>
  BY DEF ClaimUndecided
<1>6. CASE UNCHANGED store
  <2>1. TypeOK'
    BY <1>3, <1>4, <1>5, <1>6 DEF TypeOK, store, world
  <2>2. Leaves(p)
    BY <1>3, <1>6 DEF Leaves, store
  <2> QED
    BY <1>3, <2>1, <2>2 DEF Moves
<1>7. CASE ClaimAbandoned(local[p].exec, local[p].seen)
  <2>1. TypeOK'
    BY <1>2, <1>3, <1>4, <1>5, <1>7, StampMoves DEF TypeOK, ClaimAbandoned, world
  <2>2. Wins(p)
    BY <1>1, <1>3, <1>7 DEF Wins, ClaimUndecided, ClaimAbandoned, Busy
  <2> QED
    BY <1>3, <2>1, <2>2 DEF Moves
<1> QED
  BY <1>6, <1>7 DEF ClaimUndecided

\* A driver that changed the world or its mind, and not the Store, drives on.
LEMMA DriveOn ==
    ASSUME TypeOK, Attached, NEW p \in Procs, pc[p] \in Driving,
           NEW next \in Driving, NEW l, SameWork(local[p], l), Goto(p, next, l),
           effect' \in [Execs -> [Steps -> {"none", "applied", "undone"}]],
           UNCHANGED <<store, request, succeeded, crashes, lostWrites>>
    PROVE  TypeOK' /\ Moves(p)
<1>1. next \in Points
  BY DEF Points
<1>2. /\ pc' \in [Procs -> Points] /\ local' \in [Procs -> Calls]
      /\ pc'[p] = next /\ local'[p] = l /\ Others(p)
  BY <1>1, GotoMoves DEF SameWork
<1>3. TypeOK'
  BY <1>2 DEF TypeOK, store
<1>4. Drives(p)
  BY <1>2 DEF Drives, SameWork, store
<1> QED
  BY <1>2, <1>3, <1>4 DEF Moves

\* A driver works on an execution that exists.
LEMMA DriverFields ==
    ASSUME TypeOK, Attached, NEW p \in Procs, pc[p] \in Driving
    PROVE  local[p] \in Calls /\ local[p].exec \in Execs /\ local[p].step \in Steps
BY CallFields DEF TypeOK, Attached, Busy

\* The side effect of an invocation is typed, whether or not it happened.
LEMMA MaybeTyped ==
    ASSUME TypeOK, NEW e \in Execs, NEW s \in Steps,
           \/ UNCHANGED effect
           \/ SetEffect(e, s, "applied")
           \/ SetEffect(e, s, "undone")
    PROVE  effect' \in [Execs -> [Steps -> {"none", "applied", "undone"}]]
BY EffectTyped DEF TypeOK

\* Invoke, in its four outcomes, and a context that died before it.
LEMMA InvokeShape ==
    ASSUME TypeOK, Attached, NEW p \in Procs,
           \/ InvokeSucceeds(p) \/ InvokeRetried(p) \/ InvokeFails(p)
           \/ InvokeUncompensated(p) \/ Canceled(p)
    PROVE  TypeOK' /\ Moves(p)
<1>1. pc[p] = "invoke"
  BY DEF InvokeSucceeds, InvokeRetried, InvokeFails, InvokeUncompensated, Canceled
<1>2. "invoke" \in Driving /\ "record" \in Driving /\ "close" \in Driving /\ "compensate" \in Driving
  BY DEF Driving
<1>3. local[p] \in Calls /\ local[p].exec \in Execs /\ local[p].step \in Steps
  BY <1>1, <1>2, DriverFields
<1>4. /\ "failed" \in StepStates /\ "invoked" \in StepStates
      /\ "failed" \in Terminal /\ "compensation_failed" \in Terminal
  BY DEF StepStates, Terminal
<1>5. effect' \in [Execs -> [Steps -> {"none", "applied", "undone"}]]
  <2>1. \/ UNCHANGED effect
        \/ SetEffect(local[p].exec, local[p].step, "applied")
    BY DEF InvokeSucceeds, InvokeRetried, InvokeFails, InvokeUncompensated, Canceled,
           MaybeApplied, world
  <2> QED
    BY <1>3, <2>1, MaybeTyped
<1>6. UNCHANGED <<store, request, succeeded, crashes, lostWrites>>
  BY DEF InvokeSucceeds, InvokeRetried, InvokeFails, InvokeUncompensated, Canceled, world
<1>7. CASE InvokeSucceeds(p)
  <2>1. SameWork(local[p], [local[p] EXCEPT !.rec = "invoked"])
    BY <1>3, <1>4, SetRec
  <2>2. Goto(p, "record", [local[p] EXCEPT !.rec = "invoked"])
    BY <1>7 DEF InvokeSucceeds
  <2> QED
    BY <1>1, <1>2, <1>5, <1>6, <2>1, <2>2, DriveOn
<1>8. CASE InvokeRetried(p)
  <2>1. local[p].attempt + 1 \in 1..MaxAttempts
    BY <1>3, <1>8, CallFields, EngineAssumption DEF InvokeRetried
  <2>2. SameWork(local[p], [local[p] EXCEPT !.attempt = local[p].attempt + 1])
    BY <1>3, <2>1, SetAttempt
  <2>3. Goto(p, "invoke", [local[p] EXCEPT !.attempt = local[p].attempt + 1])
    BY <1>8 DEF InvokeRetried
  <2> QED
    BY <1>1, <1>2, <1>5, <1>6, <2>2, <2>3, DriveOn
<1>9. CASE InvokeFails(p)
  <2>1. SameWork(local[p], [local[p] EXCEPT !.rec = "failed", !.target = "failed"])
    BY <1>3, <1>4, SetRecTarget
  <2>2. Goto(p, "record", [local[p] EXCEPT !.rec = "failed", !.target = "failed"])
    BY <1>9 DEF InvokeFails
  <2> QED
    BY <1>1, <1>2, <1>5, <1>6, <2>1, <2>2, DriveOn
<1>10. CASE InvokeUncompensated(p)
  <2>1. SameWork(local[p], [local[p] EXCEPT !.rec = "failed", !.target = "compensation_failed"])
    BY <1>3, <1>4, SetRecTarget
  <2>2. Goto(p, "record", [local[p] EXCEPT !.rec = "failed", !.target = "compensation_failed"])
    BY <1>10 DEF InvokeUncompensated
  <2> QED
    BY <1>1, <1>2, <1>5, <1>6, <2>1, <2>2, DriveOn
<1>11. CASE Canceled(p)
  <2>1. SameWork(local[p], [local[p] EXCEPT !.target = "failed"])
    BY <1>3, <1>4, SetTarget
  <2>2. Goto(p, Unwind(local[p].chain), [local[p] EXCEPT !.target = "failed"])
    BY <1>11 DEF Canceled
  <2>3. Unwind(local[p].chain) \in Driving
    BY <1>2 DEF Unwind
  <2> QED
    BY <1>1, <1>2, <1>5, <1>6, <2>1, <2>2, <2>3, DriveOn
<1> QED
  BY <1>7, <1>8, <1>9, <1>10, <1>11

\* Compensate undoes one step and hands it to the record.
LEMMA CompensateShape ==
    ASSUME TypeOK, Attached, NEW p \in Procs, Compensate(p)
    PROVE  TypeOK' /\ Moves(p)
<1>1. pc[p] = "compensate"
  BY DEF Compensate
<1>2. "compensate" \in Driving /\ "record" \in Driving
  BY DEF Driving
<1>3. local[p] \in Calls /\ local[p].exec \in Execs
  BY <1>1, <1>2, DriverFields
<1>4. /\ "compensated" \in StepStates /\ "compensation_failed" \in StepStates
      /\ "compensation_failed" \in Terminal
  BY DEF StepStates, Terminal
<1>5. PICK s \in Latest(local[p].chain) :
         /\ UNCHANGED effect \/ SetEffect(local[p].exec, s, "undone")
         /\ \/ Goto(p, "record", [local[p] EXCEPT !.step = s, !.rec = "compensated"])
            \/ Goto(p, "record", [local[p] EXCEPT !.step = s, !.rec = "compensation_failed",
                                                  !.target = "compensation_failed"])
  BY DEF Compensate
<1>6. s \in Steps
  BY <1>3, CallFields DEF Latest
<1>7. effect' \in [Execs -> [Steps -> {"none", "applied", "undone"}]]
  BY <1>3, <1>5, <1>6, MaybeTyped
<1>8. UNCHANGED <<store, request, succeeded, crashes, lostWrites>>
  BY DEF Compensate
<1>9. CASE Goto(p, "record", [local[p] EXCEPT !.step = s, !.rec = "compensated"])
  <2>1. SameWork(local[p], [local[p] EXCEPT !.step = s, !.rec = "compensated"])
    BY <1>3, <1>4, <1>6, SetUndone
  <2> QED
    BY <1>1, <1>2, <1>7, <1>8, <1>9, <2>1, DriveOn
<1>10. CASE Goto(p, "record", [local[p] EXCEPT !.step = s, !.rec = "compensation_failed",
                                               !.target = "compensation_failed"])
  <2>1. SameWork(local[p], [local[p] EXCEPT !.step = s, !.rec = "compensation_failed",
                                            !.target = "compensation_failed"])
    BY <1>3, <1>4, <1>6, SetUndone
  <2> QED
    BY <1>1, <1>2, <1>7, <1>8, <1>10, <2>1, DriveOn
<1> QED
  BY <1>5, <1>9, <1>10

\* The record of a step keeps the chain inside the workflow's steps.
LEMMA ChainTyped ==
    ASSUME NEW l \in Calls
    PROVE  ChainAfter(l) \in SUBSET Steps
BY CallFields DEF ChainAfter

\* persistStep: the step record and the stamp move together or not at all.
LEMMA RecordShape ==
    ASSUME TypeOK, Attached, NEW p \in Procs, Record(p)
    PROVE  TypeOK' /\ Moves(p)
<1> DEFINE c == ChainAfter(local[p])
<1>1. pc[p] = "record"
  BY DEF Record
<1>2. /\ "record" \in Driving /\ "invoke" \in Driving /\ "close" \in Driving
      /\ "compensate" \in Driving
  BY DEF Driving
<1>3. local[p] \in Calls /\ local[p].exec \in Execs /\ local[p].step \in Steps
  BY <1>1, <1>2, DriverFields
<1>4. c \in SUBSET Steps
  BY <1>3, ChainTyped
<1>5. PICK next \in Driving, l \in Calls : SameWork(local[p], l) /\ Goto(p, next, l)
  <2>1. CASE After(local[p], c) = "invoke"
    <3>1. local[p].step < NSteps
      BY <2>1 DEF After, Unwind
    <3>2. local[p].step + 1 \in Steps /\ 1 \in 1..MaxAttempts
      BY <1>3, <3>1, EngineAssumption DEF Steps
    <3>3. SameWork(local[p], [local[p] EXCEPT !.chain = c, !.attempt = 1, !.step = local[p].step + 1])
      BY <1>3, <1>4, <3>2, SetNextStep
    <3>4. Goto(p, "invoke", [local[p] EXCEPT !.chain = c, !.attempt = 1, !.step = local[p].step + 1])
      BY <2>1 DEF Record
    <3> QED
      BY <1>2, <3>3, <3>4 DEF SameWork
  <2>2. CASE After(local[p], c) # "invoke"
    <3>1. After(local[p], c) \in Driving
      BY <1>2 DEF After, Unwind
    <3>2. SameWork(local[p], [local[p] EXCEPT !.chain = c])
      BY <1>3, <1>4, SetChainOnly
    <3>3. Goto(p, After(local[p], c), [local[p] EXCEPT !.chain = c])
      BY <2>2 DEF Record
    <3> QED
      BY <3>1, <3>2, <3>3 DEF SameWork
  <2> QED
    BY <2>1, <2>2
<1>6. next \in Points
  BY DEF Points
<1>7. /\ pc' \in [Procs -> Points] /\ local' \in [Procs -> Calls]
      /\ pc'[p] = next /\ local'[p] = l /\ Others(p)
  BY <1>5, <1>6, GotoMoves
<1>8. UNCHANGED <<world, crashes>>
  BY DEF Record
<1>9. CASE LoseWrite
  <2>1. TypeOK'
    BY <1>7, <1>8, <1>9, EngineAssumption DEF TypeOK, LoseWrite, store, world
  <2>2. Drives(p)
    BY <1>1, <1>2, <1>5, <1>7, <1>9 DEF Drives, SameWork, LoseWrite, store
  <2> QED
    BY <1>7, <2>1, <2>2 DEF Moves
<1>10. CASE AppendStep(local[p].exec, local[p].step, local[p].rec) /\ UNCHANGED lostWrites
  <2>1. steps' \in [Execs -> [Steps -> StepStates \cup {"none"}]]
    BY <1>3, <1>10, CallFields DEF TypeOK, AppendStep
  <2>2. TypeOK'
    BY <1>3, <1>7, <1>8, <1>10, <2>1, StampMoves DEF TypeOK, AppendStep, world
  <2>3. Drives(p)
    BY <1>1, <1>2, <1>5, <1>7, <1>10 DEF Drives, SameWork, AppendStep
  <2> QED
    BY <1>7, <2>2, <2>3 DEF Moves
<1> QED
  BY <1>9, <1>10 DEF Record, Persist

\* persistStatus and the answer: the driver lets go, written or not.
LEMMA CloseShape ==
    ASSUME TypeOK, Attached, NEW p \in Procs, Close(p)
    PROVE  TypeOK' /\ Moves(p)
<1>1. pc[p] = "close"
  BY DEF Close
<1>2. "close" \in Driving
  BY DEF Driving
<1>3. local[p] \in Calls /\ local[p].exec \in Execs /\ local[p].target \in Terminal
  BY <1>1, <1>2, DriverFields, CallFields
<1>4. /\ pc' \in [Procs -> Points] /\ local' \in [Procs -> Calls]
      /\ pc'[p] \notin Busy /\ Others(p)
  BY ReturnMoves, AgainMoves DEF Close
<1>5. succeeded' \in [Execs -> BOOLEAN]
  BY <1>3 DEF TypeOK, Close
<1>6. UNCHANGED <<effect, request, crashes>>
  BY DEF Close
<1>7. CASE LoseWrite
  <2>1. TypeOK'
    BY <1>4, <1>5, <1>6, <1>7, EngineAssumption DEF TypeOK, LoseWrite, store
  <2>2. Leaves(p)
    BY <1>4, <1>7 DEF Leaves, LoseWrite, store
  <2> QED
    BY <1>4, <2>1, <2>2 DEF Moves
<1>8. CASE UpdateStatus(local[p].exec, local[p].target) /\ UNCHANGED lostWrites
  <2>1. /\ status' \in [Execs -> Terminal \cup {"absent", "running"}]
        /\ key' \in [Execs -> Keys \cup {NoKey}]
    BY <1>3, <1>8 DEF TypeOK, UpdateStatus
  <2>2. TypeOK'
    BY <1>3, <1>4, <1>5, <1>6, <1>8, <2>1, StampMoves DEF TypeOK, UpdateStatus
  <2>3. Closes(p)
    BY <1>1, <1>2, <1>3, <1>4, <1>8 DEF Closes, UpdateStatus
  <2> QED
    BY <1>4, <2>2, <2>3 DEF Moves
<1> QED
  BY <1>7, <1>8 DEF Close, Persist

\* LeaseExpires touches one lease.
LEMMA ExpireShape ==
    ASSUME TypeOK, NEW e \in Execs, LeaseExpires(e)
    PROVE  TypeOK' /\ Expires(e)
<1>1. expired' \in [Execs -> BOOLEAN]
  BY DEF TypeOK, LeaseExpires
<1>2. TypeOK'
  BY <1>1 DEF TypeOK, LeaseExpires, world
<1> QED
  BY <1>2 DEF Expires, LeaseExpires

\* Every step of the engine keeps the types and has one of the shapes.
LEMMA StepShapes ==
    ASSUME TypeOK, Attached, [Next]_vars
    PROVE  TypeOK' /\ Shape
<1>1. CASE UNCHANGED vars
  <2>1. TypeOK'
    BY <1>1 DEF TypeOK, vars, store, world
  <2> QED
    BY <1>1, <2>1 DEF Shape, vars, store
<1>2. ASSUME NEW p \in Procs, NEW k \in Keys \cup {NoKey}, Run(p, k)
      PROVE  TypeOK' /\ Shape
  BY <1>2, RunShape DEF Shape
<1>3. ASSUME NEW p \in Procs, NEW e \in Execs,
             Recover(p, e) \/ Open(p, e) \/ OpenUnanswered(p, e)
      PROVE  TypeOK' /\ Shape
  BY <1>3, RecoverShape, OpenShape, OpenUnansweredShape DEF Shape
<1>4. ASSUME NEW p \in Procs,
             OpenConflict(p) \/ StoreError(p) \/ ClaimLost(p) \/ Crash(p) \/ Replay(p)
      PROVE  TypeOK' /\ Shape
  BY <1>4, LeaveShape, ReplayShape DEF Shape
<1>5. ASSUME NEW p \in Procs, GetSteps(p) \/ Claim(p) \/ ClaimUndecided(p)
      PROVE  TypeOK' /\ Shape
  BY <1>5, GetStepsShape, ClaimShape, ClaimUndecidedShape DEF Shape
<1>6. ASSUME NEW p \in Procs,
             \/ InvokeSucceeds(p) \/ InvokeRetried(p) \/ InvokeFails(p)
             \/ InvokeUncompensated(p) \/ Canceled(p)
      PROVE  TypeOK' /\ Shape
  BY <1>6, InvokeShape DEF Shape
<1>7. ASSUME NEW p \in Procs, Record(p) \/ Compensate(p) \/ Close(p)
      PROVE  TypeOK' /\ Shape
  BY <1>7, RecordShape, CompensateShape, CloseShape DEF Shape
<1>8. ASSUME NEW e \in Execs, LeaseExpires(e)
      PROVE  TypeOK' /\ Shape
  BY <1>8, ExpireShape DEF Shape
<1> QED
  BY <1>1, <1>2, <1>3, <1>4, <1>5, <1>6, <1>7, <1>8 DEF Next, Advance

-----------------------------------------------------------------------------
(* Type correctness.                                                       *)

\* The initial state has the types and no call is at work.
LEMMA InitTyped == Init => TypeOK /\ \A p \in Procs : pc[p] \notin Busy
<1> SUFFICES ASSUME Init PROVE TypeOK /\ \A p \in Procs : pc[p] \notin Busy
  OBVIOUS
<1>1. local \in [Procs -> Calls]
  BY IdleIsACall DEF Init
<1>2. pc \in [Procs -> Points] /\ \A p \in Procs : pc[p] \notin Busy
  BY DEF Init, Points, Busy, Driving, Judging
<1>3. 0 \in 0..MaxCrashes /\ 0 \in 0..MaxLostWrites
  BY EngineAssumption
<1> QED
  BY <1>1, <1>2, <1>3 DEF TypeOK, Init, NoSteps

\* A status never returns to "absent", so a call stays attached to a record.
LEMMA AttachedKept ==
    ASSUME TypeOK, TypeOK', Attached, Shape
    PROVE  Attached'
<1> SUFFICES ASSUME NEW q \in Procs, pc'[q] \in Busy
             PROVE  local'[q].exec \in Execs /\ status'[local'[q].exec] # "absent"
  BY DEF Attached
<1>1. ASSUME NEW f \in Execs, status[f] # "absent"
      PROVE  status'[f] # "absent"
  BY <1>1 DEF Shape, Moves, Starts, Judges, Reads, Wins, Drives, Closes, Leaves, Expires,
              TypeOK, Terminal
<1>2. CASE \E p \in Procs : Moves(p)
  <2>1. PICK p \in Procs : Moves(p)
    BY <1>2
  <2>2. CASE q # p
    BY <1>1, <2>1, <2>2 DEF Moves, Others, Attached
  <2>3. CASE q = p
    <3>1. CASE \E e \in Execs : Starts(p, e) \/ Judges(p, e)
      BY <2>3, <3>1 DEF Starts, Judges, Busy, TypeOK
    <3>2. CASE Reads(p) \/ Wins(p) \/ Drives(p)
      BY <1>1, <2>3, <3>2 DEF Reads, Wins, Drives, Busy, Attached
    <3>3. CASE Closes(p) \/ Leaves(p)
      BY <2>3, <3>3 DEF Closes, Leaves
    <3> QED
      BY <2>1, <3>1, <3>2, <3>3 DEF Moves
  <2> QED
    BY <2>2, <2>3
<1>3. CASE ~ \E p \in Procs : Moves(p)
  BY <1>1, <1>3 DEF Shape, Expires, Attached
<1> QED
  BY <1>2, <1>3

\* Every reachable state of the engine has the declared types.
THEOREM TypeCorrect == Spec => []TypeOK
<1>1. Init => TypeOK /\ Attached
  BY InitTyped DEF Attached
<1>2. TypeOK /\ Attached /\ [Next]_vars => TypeOK' /\ Attached'
  BY StepShapes, AttachedKept
<1> QED
  BY <1>1, <1>2, PTL DEF Spec

-----------------------------------------------------------------------------
(* Ownership: who may invoke or compensate the steps of an execution.      *)

\* Ownership of the processes that did not move, and of the one that did.
LEMMA OwnershipKept ==
    ASSUME LeaseCoversRun, TypeOK, TypeOK', Attached', Ownership, Shape
    PROVE  Ownership'
<1> USE DEF Ownership
<1>1. ASSUME NEW p \in Procs, Others(p), NEW e \in Execs, Starts(p, e)
      PROVE  Ownership'
  <2>1. \A q \in Procs \ {p} : pc[q] \in Busy => local[q].exec \in Execs \ {e}
    BY <1>1 DEF Attached, Starts
  <2>2. /\ updatedAt'[e] = updatedAt[e] + 1 /\ expired'[e] = FALSE
        /\ \A f \in Execs \ {e} : updatedAt'[f] = updatedAt[f] /\ expired'[f] = expired[f]
    BY <1>1, StampMoves DEF Starts
  <2>3. status'[e] = "running" /\ \A f \in Execs \ {e} : status'[f] = status[f]
    BY <1>1 DEF Starts, TypeOK
  <2>4. pc'[p] \notin Judging /\ (pc'[p] \in Driving => local'[p].exec = e)
    BY <1>1 DEF Starts
  <2>5. SeenIsPast' /\ ClaimNeedsNoOwner'
    BY <1>1, <2>1, <2>2, <2>4 DEF SeenIsPast, ClaimNeedsNoOwner, Others, Busy
  <2>6. ExpiredHasNoOwner' /\ OwnerRuns'
    BY <1>1, <2>1, <2>2, <2>3, <2>4 DEF ExpiredHasNoOwner, OwnerRuns, Others, Busy
  <2>7. SingleDriver'
    BY <1>1, <2>1, <2>4 DEF SingleDriver, Others, Busy
  <2> QED
    BY <2>5, <2>6, <2>7
<1>2. ASSUME NEW p \in Procs, Others(p), NEW e \in Execs, Judges(p, e)
      PROVE  Ownership'
  <2>1. updatedAt[e] \in Nat /\ pc'[p] \notin Driving
    BY <1>2 DEF TypeOK, Judges, Judging, Driving
  <2>2. SeenIsPast'
    BY <1>2, <2>1 DEF SeenIsPast, Others, Judges
  <2>3. ClaimNeedsNoOwner'
    BY <1>2, <2>1 DEF ClaimNeedsNoOwner, ExpiredHasNoOwner, Others, Judges
  <2>4. ExpiredHasNoOwner' /\ OwnerRuns' /\ SingleDriver'
    BY <1>2, <2>1 DEF ExpiredHasNoOwner, OwnerRuns, SingleDriver, Others, Judges
  <2> QED
    BY <2>2, <2>3, <2>4
<1>3. ASSUME NEW p \in Procs, Others(p), Reads(p)
      PROVE  Ownership'
  <2>1. pc'[p] \notin Driving
    BY <1>3 DEF Reads, Judging, Driving
  <2> QED
    BY <1>3, <2>1 DEF SeenIsPast, ClaimNeedsNoOwner, ExpiredHasNoOwner, OwnerRuns, SingleDriver,
                      Others, Reads
<1>4. ASSUME NEW p \in Procs, Others(p), Wins(p)
      PROVE  Ownership'
  <2> DEFINE e == local[p].exec
  <2>1. e \in Execs /\ status[e] = "running" /\ updatedAt[e] = local[p].seen
    BY <1>4 DEF Attached, Wins, Busy, Claimable
  <2>2. \A q \in Procs : pc[q] \in Driving => local[q].exec # e
    BY <1>4, <2>1 DEF ClaimNeedsNoOwner, Wins, TypeOK
  <2>3. /\ updatedAt'[e] = updatedAt[e] + 1 /\ expired'[e] = FALSE
        /\ \A f \in Execs \ {e} : updatedAt'[f] = updatedAt[f] /\ expired'[f] = expired[f]
    BY <1>4, <2>1, StampMoves DEF Wins
  <2>4. pc'[p] \notin Judging /\ (pc'[p] \in Driving => local'[p].exec = e)
    BY <1>4 DEF Wins
  <2>5. \A q \in Procs : pc[q] \in Judging => local[q].seen \in Nat /\ local[q].exec \in Execs
    BY CallFields DEF TypeOK, Attached, Busy
  <2> HIDE DEF e
  <2>6. updatedAt[e] \in Nat
    BY <2>1 DEF TypeOK
  <2>7. SeenIsPast' /\ ClaimNeedsNoOwner'
    BY <1>4, <2>1, <2>2, <2>3, <2>4, <2>5, <2>6 DEF SeenIsPast, ClaimNeedsNoOwner, Others, Attached, Busy
  <2>8. ExpiredHasNoOwner' /\ OwnerRuns'
    BY <1>4, <2>1, <2>2, <2>3, <2>4 DEF ExpiredHasNoOwner, OwnerRuns, Others, Wins, Attached, Busy
  <2>9. SingleDriver'
    BY <1>4, <2>2, <2>4 DEF SingleDriver, Others
  <2> QED
    BY <2>7, <2>8, <2>9
<1>5. ASSUME NEW p \in Procs, Others(p), Drives(p)
      PROVE  Ownership'
  <2> DEFINE e == local[p].exec
  <2>1. e \in Execs
    BY <1>5 DEF Attached, Drives, Busy
  <2>2. /\ \A f \in Execs : updatedAt'[f] \in {updatedAt[f], updatedAt[f] + 1}
        /\ \A f \in Execs : expired'[f] = TRUE => expired[f] = TRUE
    BY <1>5, <2>1, StampMoves DEF Drives
  <2>3. pc[p] \in Driving /\ pc'[p] \in Driving /\ pc'[p] \notin Judging /\ local'[p].exec = e
    BY <1>5 DEF Drives, Driving, Judging
  <2>4. \A q \in Procs : pc[q] \in Judging => local[q].seen \in Nat /\ local[q].exec \in Execs
    BY CallFields DEF TypeOK, Attached, Busy
  <2>5. \A f \in Execs : updatedAt[f] \in Nat
    BY DEF TypeOK
  <2>6. SeenIsPast' /\ ClaimNeedsNoOwner'
    BY <1>5, <2>2, <2>3, <2>4, <2>5 DEF SeenIsPast, ClaimNeedsNoOwner, Others
  <2>7. \A q \in Procs : pc'[q] \in Driving =>
           pc[q] \in Driving /\ local'[q].exec = local[q].exec /\ local[q].exec \in Execs
    BY <1>5, <2>3 DEF Others, Attached, Busy
  <2>8. ExpiredHasNoOwner'
    <3>1. \A f \in Execs : expired'[f] \in BOOLEAN /\ expired[f] \in BOOLEAN
      BY DEF TypeOK
    <3> QED
      BY <2>2, <2>7, <3>1 DEF ExpiredHasNoOwner
  <2>9. OwnerRuns' /\ SingleDriver'
    BY <1>5, <2>7 DEF OwnerRuns, SingleDriver, Drives
  <2> QED
    BY <2>6, <2>8, <2>9
<1>6. ASSUME NEW p \in Procs, Others(p), Closes(p)
      PROVE  Ownership'
  <2> DEFINE e == local[p].exec
  <2>1. e \in Execs
    BY <1>6 DEF Attached, Closes, Busy
  <2>2. /\ updatedAt'[e] = updatedAt[e] + 1
        /\ \A f \in Execs \ {e} : updatedAt'[f] = updatedAt[f] /\ expired'[f] = expired[f]
        /\ \A f \in Execs \ {e} : status'[f] = status[f]
    BY <1>6, <2>1, StampMoves DEF Closes, TypeOK
  <2>3. pc'[p] \notin Driving /\ pc'[p] \notin Judging
    BY <1>6 DEF Closes, Busy
  <2>4. \A q \in Procs \ {p} : pc[q] \in Driving => local[q].exec # e
    BY <1>6 DEF SingleDriver, Closes
  <2>5. \A q \in Procs : pc[q] \in Judging => local[q].seen \in Nat /\ local[q].exec \in Execs
    BY CallFields DEF TypeOK, Attached, Busy
  <2>6. \A f \in Execs : updatedAt[f] \in Nat
    BY DEF TypeOK
  <2>7. SeenIsPast' /\ ClaimNeedsNoOwner'
    BY <1>6, <2>1, <2>2, <2>3, <2>5, <2>6 DEF SeenIsPast, ClaimNeedsNoOwner, Others
  <2>8. ExpiredHasNoOwner' /\ OwnerRuns' /\ SingleDriver'
    BY <1>6, <2>1, <2>2, <2>3, <2>4 DEF ExpiredHasNoOwner, OwnerRuns, SingleDriver, Others, Attached, Busy
  <2> QED
    BY <2>7, <2>8
<1>7. ASSUME NEW p \in Procs, Others(p), Leaves(p)
      PROVE  Ownership'
  BY <1>7 DEF SeenIsPast, ClaimNeedsNoOwner, ExpiredHasNoOwner, OwnerRuns, SingleDriver,
              Others, Leaves, Busy
<1>8. ASSUME NEW e \in Execs, Expires(e)
      PROVE  Ownership'
  <2>1. \A p \in Procs : pc[p] \in Driving => local[p].exec # e
    BY <1>8 DEF Expires, Drivers
  <2>2. ExpiredHasNoOwner'
    BY <1>8, <2>1 DEF ExpiredHasNoOwner, Expires, Attached, Busy, TypeOK
  <2> QED
    BY <1>8, <2>2 DEF SeenIsPast, ClaimNeedsNoOwner, OwnerRuns, SingleDriver, Expires
<1>9. CASE UNCHANGED <<status, updatedAt, expired, pc, local>>
  BY <1>9 DEF SeenIsPast, ClaimNeedsNoOwner, ExpiredHasNoOwner, OwnerRuns, SingleDriver
<1> QED
  BY <1>1, <1>2, <1>3, <1>4, <1>5, <1>6, <1>7, <1>8, <1>9 DEF Shape, Moves

\* Where no live call outlasts the lease, the claim protocol is sound: the
\* inductive invariant holds in every reachable state.
LEMMA OwnershipHolds == LeaseCoversRun => (Spec => [](TypeOK /\ Ownership))
<1> SUFFICES ASSUME LeaseCoversRun PROVE Spec => [](TypeOK /\ Ownership)
  OBVIOUS
<1>1. Init => TypeOK /\ Ownership
  BY InitTyped DEF Ownership, Attached, SeenIsPast, ClaimNeedsNoOwner, ExpiredHasNoOwner,
                   OwnerRuns, SingleDriver, Busy
<1>2. TypeOK /\ Ownership /\ [Next]_vars => TypeOK' /\ Ownership'
  <2> SUFFICES ASSUME TypeOK, Ownership, [Next]_vars PROVE TypeOK' /\ Ownership'
    OBVIOUS
  <2>1. Attached
    BY DEF Ownership
  <2>2. TypeOK' /\ Shape
    BY <2>1, StepShapes
  <2>3. Attached'
    BY <2>1, <2>2, AttachedKept
  <2> QED
    BY <2>2, <2>3, OwnershipKept
<1> QED
  BY <1>1, <1>2, PTL DEF Spec

\* ClaimAbandoned and the lease let at most one live process invoke or
\* compensate the steps of an execution, for any number of processes, crashes
\* and lost writes.
THEOREM RecoveryIsExclusive == LeaseCoversRun => (Spec => []SingleDriver)
<1>1. Ownership => SingleDriver
  BY DEF Ownership
<1> QED
  BY <1>1, OwnershipHolds, PTL

\* UpdateStatus writes unconditionally, and still no terminal status is ever
\* overwritten.
THEOREM TerminalStatusIsFinal == LeaseCoversRun => (Spec => TerminalIsFinal)
<1> SUFFICES ASSUME LeaseCoversRun PROVE Spec => TerminalIsFinal
  OBVIOUS
<1> DEFINE Keeps == \A e \in Execs : status[e] \in Terminal => status'[e] = status[e]
<1>1. TypeOK /\ Ownership /\ [Next]_vars => [Keeps]_status
  <2> SUFFICES ASSUME TypeOK, Ownership, [Next]_vars PROVE Keeps
    OBVIOUS
  <2>1. Shape /\ Attached
    BY StepShapes DEF Ownership
  <2>2. ASSUME NEW p \in Procs, Closes(p) PROVE Keeps
    <3>1. local[p].exec \in Execs /\ status[local[p].exec] = "running"
      BY <2>1, <2>2 DEF Closes, Attached, Busy, Ownership, OwnerRuns
    <3> QED
      BY <2>2, <3>1 DEF Closes, TypeOK, Terminal
  <2>3. ASSUME NEW p \in Procs, NEW e \in Execs, Starts(p, e) PROVE Keeps
    BY <2>3 DEF Starts, TypeOK, Terminal
  <2>4. CASE UNCHANGED status
    BY <2>4
  <2> QED
    BY <2>1, <2>2, <2>3, <2>4 DEF Shape, Moves, Judges, Reads, Wins, Drives, Leaves, Expires
<1>2. Spec => [](TypeOK /\ Ownership)
  BY OwnershipHolds
<1> QED
  BY <1>1, <1>2, PTL DEF Spec, TerminalIsFinal

-----------------------------------------------------------------------------
(***************************************************************************)
(* What the engine leaves behind: the side effects in the world, the step  *)
(* records and the chain that a call has in memory.                        *)
(* The proofs stand on the ownership invariant: as long                    *)
(* as a lease covers a live call, the call that drives an execution is the *)
(* only one that writes its records and touches its side effects.  So what *)
(* a driver knows is a fact about four values, its own state, the records, *)
(* the side effects and whether every record write has landed, and every   *)
(* step of the engine is a lemma about those four.                         *)
(***************************************************************************)

-----------------------------------------------------------------------------
(* The inductive invariant.                                                *)

\* No step is retried by the engine, and none reports ErrUncompensated
SingleAttempts == MaxAttempts = 1 /\ Leaky = {}

\* A side effect that stands and that no record speaks of
Bare(st, ef, s) == ef[s] = "applied" /\ st[s] = "none"

\* Every side effect that stands is in the chain, or has no record that recovery
\* would take for work
Covered(st, ef, c) ==
    \A s \in Steps : ef[s] = "applied" => s \in c \/ st[s] \in {"none", "failed"}

\* No side effect of a blocker behind the first step stands without a record
NoBareBlocker(st, ef) == \A s \in Blockers : s # 1 => ~Bare(st, ef, s)

\* The records of an execution: what was compensated is gone, and while every write
\* has landed a bare blocker is the next step of an untouched chain of invoked ones.
RecordWork(st, ef, landed) ==
    /\ \A s \in Steps : ef[s] = "applied" => st[s] # "compensated"
    /\ SingleAttempts => \A s \in Steps : st[s] = "failed" => ef[s] # "applied"
    /\ landed => \A s \in Blockers : s # 1 /\ Bare(st, ef, s) =>
                    \A t \in Steps : /\ t < s => st[t] = "invoked"
                                     /\ t > s => st[t] = "none"

\* A call that invokes: the steps before its own are applied and in its chain, its own
\* and the later ones have no record.
ForwardWork(l, st, ef, landed) ==
    /\ \A t \in Steps : t < l.step => t \in l.chain /\ ef[t] = "applied"
    /\ landed => \A t \in Steps : t < l.step => st[t] = "invoked"
    /\ \A t \in l.chain : t < l.step
    /\ \A t \in Steps : t >= l.step => st[t] = "none"
    /\ \A t \in Steps : t > l.step => ef[t] # "applied"

InvokeWork(l, st, ef, landed) ==
    /\ ForwardWork(l, st, ef, landed)
    /\ l.target = "completed"
    /\ l.attempt = 1 => ef[l.step] # "applied"

\* The outcome of Invoke that is about to be recorded.
OutcomeWork(l, st, ef, landed) ==
    /\ ForwardWork(l, st, ef, landed)
    /\ l.rec = "invoked" => l.target = "completed" /\ ef[l.step] = "applied"
    /\ l.rec = "failed" =>
          /\ l.target \in {"failed", "compensation_failed"}
          /\ l.target = "failed" /\ l.attempt = 1 => ef[l.step] # "applied"
          /\ SingleAttempts => ef[l.step] # "applied"

\* A call that compensates.
BackwardWork(l, st, ef, landed) ==
    /\ l.target \in {"failed", "compensation_failed"}
    /\ l.target = "failed" => Covered(st, ef, l.chain)
    /\ landed => \A s \in Steps : ef[s] = "applied" /\ st[s] = "invoked" => s \in l.chain
    /\ landed => NoBareBlocker(st, ef)

\* The outcome of Compensate that is about to be recorded.
UndoneWork(l, st, ef, landed) ==
    /\ BackwardWork(l, st, ef, landed)
    /\ l.step \in l.chain
    /\ l.rec = "compensated" => ef[l.step] # "applied"
    /\ l.rec = "compensation_failed" => l.target = "compensation_failed"

\* A call that is about to write a terminal status.
CloseWork(l, st, ef, landed) ==
    /\ l.target = "completed" => \A s \in Steps : ef[s] = "applied"
    /\ l.target = "failed" => Covered(st, ef, {}) /\ (landed => NoBareBlocker(st, ef))

\* What the driver of an execution knows, at each point of the call.
DriverWork(at, l, st, ef, landed) ==
    /\ at = "invoke" => InvokeWork(l, st, ef, landed)
    /\ at = "record" /\ l.rec \in {"invoked", "failed"} => OutcomeWork(l, st, ef, landed)
    /\ at = "record" /\ l.rec \notin {"invoked", "failed"} => UndoneWork(l, st, ef, landed)
    /\ at = "compensate" => BackwardWork(l, st, ef, landed)
    /\ at = "close" => CloseWork(l, st, ef, landed)

DriversWork ==
    \A p \in Procs : pc[p] \in Driving =>
        DriverWork(pc[p], local[p], steps[local[p].exec], effect[local[p].exec], RecordsLanded)

\* A call that is about to open a record has done nothing yet.
Fresh(l) == l.step = 1 /\ l.attempt = 1 /\ l.chain = {} /\ l.target = "completed"

OpensFresh == \A p \in Procs : pc[p] = "open" => Fresh(local[p])

\* What an execution's status says of its side effects.
StatusWork(e) ==
    /\ status[e] = "absent" => \A s \in Steps : steps[e][s] = "none" /\ effect[e][s] # "applied"
    /\ status[e] = "failed" =>
          Covered(steps[e], effect[e], {}) /\ (RecordsLanded => NoBareBlocker(steps[e], effect[e]))
    /\ RecordsLanded /\ succeeded[e] =>
          status[e] = "completed" /\ \A s \in Steps : effect[e][s] = "applied"

ExecsWork ==
    \A e \in Execs : RecordWork(steps[e], effect[e], RecordsLanded) /\ StatusWork(e)

WorkInv == DriversWork /\ OpensFresh /\ ExecsWork

\* A judge's copy of the steps is as old as its stamp.
SnapIsSeen ==
    \A p \in Procs : pc[p] = "claim" /\ local[p].seen = updatedAt[local[p].exec]
        => local[p].snap = steps[local[p].exec]

\* A key names at most one execution; it is the one the execution was opened with,
\* until the execution is closed as failed.
KeyInv ==
    /\ \A e \in Execs : status[e] = "absent" => request[e] = NoKey
    /\ \A e \in Execs : status[e] \notin {"absent", "failed"} => key[e] = request[e]
    /\ \A e, f \in Execs :
          e # f /\ status[e] # "absent" /\ status[f] # "absent" /\ key[e] # NoKey => key[e] # key[f]

-----------------------------------------------------------------------------
(* The engine's steps, as facts about a call, its records and its effects. *)

St == [Steps -> StepStates \cup {"none"}]
Ef == [Steps -> {"none", "applied", "undone"}]

\* What the driver knows and what the records say.
Fine(at, l, st, ef, landed) == DriverWork(at, l, st, ef, landed) /\ RecordWork(st, ef, landed)

\* Steps are numbered from one.
LEMMA StepsAreNumbers ==
    /\ Steps \subseteq Nat /\ 1 \in Steps /\ NSteps \in Nat
    /\ \A s \in Steps : 1 <= s /\ s <= NSteps
    /\ \A s \in Steps : s # 1 => s - 1 \in Steps
    /\ \A s \in Steps : s < NSteps => s + 1 \in Steps
BY EngineAssumption DEF Steps

\* Steps compare as numbers do.
LEMMA StepsCompare ==
    ASSUME NEW s \in Steps, NEW t \in Steps
    PROVE  /\ s \in Nat /\ t \in Nat
           /\ s < t \/ s = t \/ s > t
           /\ s < t => s # t
           /\ s > t => s # t /\ s >= t
           /\ s >= s
           /\ s >= t <=> s > t \/ s = t
BY EngineAssumption DEF Steps

\* A write that is lost only makes the invariant say less.
LEMMA LessLanded ==
    ASSUME NEW at, NEW l, NEW st, NEW ef, NEW b \in BOOLEAN, NEW c \in BOOLEAN, c => b
    PROVE  /\ DriverWork(at, l, st, ef, b) => DriverWork(at, l, st, ef, c)
           /\ RecordWork(st, ef, b) => RecordWork(st, ef, c)
<1>1. DriverWork(at, l, st, ef, b) => DriverWork(at, l, st, ef, c)
  BY DEF DriverWork, InvokeWork, OutcomeWork, UndoneWork, ForwardWork, BackwardWork, CloseWork
<1>2. RecordWork(st, ef, b) => RecordWork(st, ef, c)
  BY DEF RecordWork
<1> QED
  BY <1>1, <1>2

\* Open: a record without steps, in an untouched world.
LEMMA OpenWork ==
    ASSUME NEW l \in Calls, NEW st \in St, NEW ef \in Ef, NEW b \in BOOLEAN,
           Fresh(l),
           \A s \in Steps : st[s] = "none" /\ ef[s] # "applied"
    PROVE  Fine("invoke", l, st, ef, b)
<1>1. InvokeWork(l, st, ef, b)
  <2>1. 1 \in Steps /\ \A t \in Steps : ~(t < 1)
    BY EngineAssumption DEF Steps
  <2> QED
    BY <2>1 DEF InvokeWork, ForwardWork, Fresh
<1>2. RecordWork(st, ef, b)
  BY EngineAssumption DEF RecordWork, Bare
<1> QED
  BY <1>1, <1>2 DEF Fine, DriverWork

\* The attempt reached the world, or did not.
MaybeTouched(l, ef, fx) == fx \in {ef, [ef EXCEPT ![l.step] = "applied"]}

\* An attempt of Invoke may apply its own side effect, whatever comes of it.
LEMMA AttemptWork ==
    ASSUME NEW l \in Calls, NEW st \in St, NEW ef \in Ef, NEW b \in BOOLEAN,
           Fine("invoke", l, st, ef, b), NEW fx, MaybeTouched(l, ef, fx)
    PROVE  /\ fx \in Ef
           /\ ForwardWork(l, st, fx, b)
           /\ RecordWork(st, fx, b)
<1>1. l.step \in Steps
  BY DEF Calls
<1>2. fx \in Ef /\ \A s \in Steps : s # l.step => fx[s] = ef[s]
  BY <1>1 DEF Ef, MaybeTouched
<1>3. ForwardWork(l, st, ef, b) /\ RecordWork(st, ef, b)
  BY DEF Fine, DriverWork, InvokeWork
<1>4. ForwardWork(l, st, fx, b)
  <2>1. \A t \in Steps : t < l.step => t # l.step
    BY <1>1, StepsCompare
  <2>2. \A t \in Steps : t > l.step => t # l.step
    BY <1>1, StepsCompare
  <2> QED
    BY <1>2, <1>3, <2>1, <2>2 DEF ForwardWork
<1>5. st[l.step] = "none" /\ \A t \in Steps : t > l.step => st[t] = "none"
  <2>1. l.step >= l.step /\ \A t \in Steps : t > l.step => t >= l.step
    BY <1>1, StepsCompare
  <2> QED
    BY <1>1, <1>3, <2>1 DEF ForwardWork
<1>6. RecordWork(st, fx, b)
  <2>1. \A s \in Steps : fx[s] = "applied" => st[s] # "compensated"
    BY <1>2, <1>3, <1>5 DEF RecordWork
  <2>2. SingleAttempts => \A s \in Steps : st[s] = "failed" => fx[s] # "applied"
    BY <1>2, <1>3, <1>5 DEF RecordWork
  <2>3. ASSUME b, NEW s \in Blockers, s # 1, Bare(st, fx, s)
        PROVE  \A t \in Steps : (t < s => st[t] = "invoked") /\ (t > s => st[t] = "none")
    <3>1. s \in Steps
      BY EngineAssumption
    <3>2. CASE s = l.step
      BY <1>3, <1>5, <2>3, <3>2 DEF ForwardWork
    <3>3. CASE s # l.step
      BY <1>2, <1>3, <2>3, <3>1, <3>3 DEF RecordWork, Bare
    <3> QED
      BY <3>2, <3>3
  <2> QED
    BY <2>1, <2>2, <2>3 DEF RecordWork
<1> QED
  BY <1>2, <1>4, <1>6

\* InvokeRetried.
LEMMA RetriedWork ==
    ASSUME NEW l \in Calls, NEW m \in Calls, NEW st \in St, NEW ef \in Ef, NEW b \in BOOLEAN,
           Fine("invoke", l, st, ef, b),
           NEW fx, MaybeTouched(l, ef, fx),
           m.step = l.step, m.chain = l.chain, m.target = l.target, m.attempt \in 2..MaxAttempts
    PROVE  InvokeWork(m, st, fx, b) /\ RecordWork(st, fx, b)
<1>1. ForwardWork(l, st, fx, b) /\ RecordWork(st, fx, b)
  BY AttemptWork
<1>2. ForwardWork(m, st, fx, b)
  BY <1>1 DEF ForwardWork
<1>3. l.target = "completed"
  BY DEF Fine, DriverWork, InvokeWork
<1>4. InvokeWork(m, st, fx, b)
  <2>1. m.attempt # 1
    OBVIOUS
  <2> QED
    BY <1>2, <1>3, <2>1 DEF InvokeWork
<1> QED
  BY <1>1, <1>4

\* InvokeSucceeds, InvokeFails and InvokeUncompensated.
LEMMA InvokedWork ==
    ASSUME NEW l \in Calls, NEW m \in Calls, NEW st \in St, NEW ef \in Ef, NEW b \in BOOLEAN,
           Fine("invoke", l, st, ef, b),
           NEW fx \in {ef, [ef EXCEPT ![l.step] = "applied"]},
           m.step = l.step, m.chain = l.chain, m.attempt = l.attempt,
           \/ m.rec = "invoked" /\ m.target = l.target /\ fx = [ef EXCEPT ![l.step] = "applied"]
           \/ m.rec = "failed" /\ m.target = "failed" /\ (l.attempt = 1 => fx = ef)
           \/ m.rec = "failed" /\ m.target = "compensation_failed" /\ l.step \in Leaky
    PROVE  Fine("record", m, st, fx, b)
<1>0. MaybeTouched(l, ef, fx)
  BY DEF MaybeTouched
<1>1. ForwardWork(l, st, fx, b) /\ RecordWork(st, fx, b)
  BY <1>0, AttemptWork
<1>2. ForwardWork(m, st, fx, b)
  BY <1>1 DEF ForwardWork
<1>3. l.target = "completed" /\ (l.attempt = 1 => ef[l.step] # "applied")
  BY DEF Fine, DriverWork, InvokeWork
<1>4. l.step \in Steps /\ l.attempt \in 1..MaxAttempts
  BY DEF Calls
<1>5. SingleAttempts => l.attempt = 1 /\ l.step \notin Leaky
  BY <1>4 DEF SingleAttempts
<1>6. OutcomeWork(m, st, fx, b)
  <2>1. m.rec = "invoked" => m.target = "completed" /\ fx[m.step] = "applied"
    BY <1>3, <1>4 DEF Ef
  <2>2. m.rec = "failed" =>
          /\ m.target \in {"failed", "compensation_failed"}
          /\ m.target = "failed" /\ m.attempt = 1 => fx[m.step] # "applied"
          /\ SingleAttempts => fx[m.step] # "applied"
    BY <1>3, <1>5
  <2> QED
    BY <1>2, <2>1, <2>2 DEF OutcomeWork
<1> QED
  BY <1>1, <1>6 DEF Fine, DriverWork

\* What a call turns to once nothing more will be invoked.
LEMMA UnwindWork ==
    ASSUME NEW m, NEW st \in St, NEW ef \in Ef, NEW b \in BOOLEAN,
           BackwardWork(m, st, ef, b), RecordWork(st, ef, b)
    PROVE  Fine(Unwind(m.chain), m, st, ef, b)
<1>1. CASE m.chain = {}
  <2>1. CloseWork(m, st, ef, b)
    BY <1>1 DEF BackwardWork, CloseWork
  <2> QED
    BY <1>1, <2>1 DEF Unwind, Fine, DriverWork
<1>2. CASE m.chain # {}
  BY <1>2 DEF Unwind, Fine, DriverWork
<1> QED
  BY <1>1, <1>2

\* Canceled.
LEMMA CanceledWork ==
    ASSUME NEW l \in Calls, NEW m \in Calls, NEW st \in St, NEW ef \in Ef, NEW b \in BOOLEAN,
           Fine("invoke", l, st, ef, b), l.attempt = 1,
           m.chain = l.chain, m.target = "failed"
    PROVE  Fine(Unwind(l.chain), m, st, ef, b)
<1>1. ForwardWork(l, st, ef, b) /\ RecordWork(st, ef, b) /\ ef[l.step] # "applied"
  BY DEF Fine, DriverWork, InvokeWork
<1>2. l.step \in Steps
  BY DEF Calls
<1>3. \A s \in Steps : ef[s] = "applied" => s \in l.chain /\ (b => st[s] = "invoked")
  <2>1. \A s \in Steps : s < l.step \/ s = l.step \/ s > l.step
    BY <1>2, StepsCompare
  <2> QED
    BY <1>1, <2>1 DEF ForwardWork
<1>4. BackwardWork(m, st, ef, b)
  <2>1. Covered(st, ef, m.chain)
    BY <1>3 DEF Covered
  <2>2. b => NoBareBlocker(st, ef)
    BY <1>3, EngineAssumption DEF NoBareBlocker, Bare
  <2> QED
    BY <1>3, <2>1, <2>2 DEF BackwardWork
<1> QED
  BY <1>1, <1>4, UnwindWork

\* The record of l's step was written, or the write was lost.
Written(l, st, sx, b, c) ==
    \/ sx = [st EXCEPT ![l.step] = l.rec] /\ c = b
    \/ sx = st /\ c = FALSE

\* A record of Invoke's outcome leaves the records sound, lost or not.
LEMMA OutcomeRecorded ==
    ASSUME NEW l \in Calls, NEW st \in St, NEW ef \in Ef, NEW b \in BOOLEAN, NEW c \in BOOLEAN,
           l.rec \in {"invoked", "failed"}, Fine("record", l, st, ef, b), NEW sx \in St,
           Written(l, st, sx, b, c)
    PROVE  /\ RecordWork(sx, ef, c)
           /\ \A s \in Steps : s # l.step => sx[s] = st[s]
           /\ c => sx[l.step] = l.rec /\ b
<1>1. OutcomeWork(l, st, ef, b) /\ RecordWork(st, ef, b)
  BY DEF Fine, DriverWork
<1>2. l.step \in Steps
  BY DEF Calls
<1>3. (\A s \in Steps : s # l.step => sx[s] = st[s]) /\ (c => sx[l.step] = l.rec /\ b)
  BY <1>2 DEF St, Written
<1>4. sx[l.step] = st[l.step] \/ sx[l.step] = l.rec
  BY <1>2 DEF St, Written
<1>5. \A s \in Steps : ef[s] = "applied" => sx[s] # "compensated"
  BY <1>1, <1>3, <1>4 DEF RecordWork
<1>6. SingleAttempts => \A s \in Steps : sx[s] = "failed" => ef[s] # "applied"
  BY <1>1, <1>3, <1>4 DEF RecordWork, OutcomeWork
<1>7. ASSUME c, NEW s \in Blockers, s # 1, Bare(sx, ef, s) PROVE FALSE
  <2>1. s \in Steps /\ s # l.step
    BY <1>3, <1>7, EngineAssumption DEF Bare
  <2>2. s < l.step \/ s > l.step
    BY <1>2, <2>1, StepsCompare
  <2>3. st[s] = "none" /\ ef[s] = "applied"
    BY <1>3, <1>7, <2>1 DEF Bare
  <2> QED
    BY <1>1, <1>3, <1>7, <2>1, <2>2, <2>3 DEF OutcomeWork, ForwardWork
<1>8. RecordWork(sx, ef, c)
  BY <1>5, <1>6, <1>7 DEF RecordWork
<1> QED
  BY <1>3, <1>8

\* Record, after a success: the next step, or the end of the workflow.
LEMMA SuccessWork ==
    ASSUME NEW l \in Calls, NEW m \in Calls, NEW st \in St, NEW ef \in Ef,
           NEW b \in BOOLEAN, NEW c \in BOOLEAN,
           l.rec = "invoked", Fine("record", l, st, ef, b), NEW sx \in St,
           Written(l, st, sx, b, c),
           m.chain = l.chain \cup {l.step}, m.target = l.target
    PROVE  /\ m.attempt = 1 /\ m.step = l.step + 1 => Fine("invoke", m, sx, ef, c)
           /\ l.step = NSteps => Fine("close", m, sx, ef, c)
<1>1. /\ RecordWork(sx, ef, c)
      /\ \A s \in Steps : s # l.step => sx[s] = st[s]
      /\ c => sx[l.step] = "invoked" /\ b
  <2>1. l.rec \in {"invoked", "failed"}
    OBVIOUS
  <2> QED
    BY <2>1, OutcomeRecorded
<1>2. ForwardWork(l, st, ef, b) /\ l.target = "completed" /\ ef[l.step] = "applied"
  BY DEF Fine, DriverWork, OutcomeWork
<1>3. l.step \in Steps
  BY DEF Calls
<1>4. ASSUME m.attempt = 1, m.step = l.step + 1 PROVE Fine("invoke", m, sx, ef, c)
  <2>1. /\ \A t \in Steps : t < m.step => t < l.step \/ t = l.step
        /\ \A t \in Steps : t >= m.step => t > l.step /\ t >= l.step /\ t # l.step
        /\ \A t \in Steps : t > m.step => t > l.step
        /\ \A t \in Steps : t < l.step => t < m.step
        /\ l.step < m.step
    <3>1. l.step \in Nat /\ \A t \in Steps : t \in Nat
      BY <1>3, StepsCompare
    <3> QED
      BY <1>4, <3>1
  <2>2. l.chain \subseteq Steps
    BY DEF Calls
  <2>3. ForwardWork(m, sx, ef, c)
    <3>1. \A t \in Steps : t < m.step => t \in m.chain /\ ef[t] = "applied"
      BY <1>2, <2>1 DEF ForwardWork
    <3>2. c => \A t \in Steps : t < m.step => sx[t] = "invoked"
      BY <1>1, <1>2, <2>1 DEF ForwardWork
    <3>3. \A t \in m.chain : t < m.step
      BY <1>2, <2>1, <2>2 DEF ForwardWork
    <3>4. \A t \in Steps : t >= m.step => sx[t] = "none"
      BY <1>1, <1>2, <2>1 DEF ForwardWork
    <3>5. \A t \in Steps : t > m.step => ef[t] # "applied"
      BY <1>2, <2>1 DEF ForwardWork
    <3> QED
      BY <3>1, <3>2, <3>3, <3>4, <3>5 DEF ForwardWork
  <2>4. m.step \in Steps /\ m.step > l.step
    <3>1. l.step \in Nat
      BY <1>3, StepsCompare
    <3>2. m.step > l.step
      BY <1>4, <3>1
    <3> QED
      BY <3>2 DEF Calls
  <2>5. InvokeWork(m, sx, ef, c)
    BY <1>2, <2>3, <2>4 DEF InvokeWork, ForwardWork
  <2> QED
    BY <1>1, <2>5 DEF Fine, DriverWork
<1>5. ASSUME l.step = NSteps PROVE Fine("close", m, sx, ef, c)
  <2>1. \A t \in Steps : t < l.step \/ t = l.step
    BY <1>5, EngineAssumption DEF Steps
  <2>2. CloseWork(m, sx, ef, c)
    BY <1>2, <2>1 DEF CloseWork, ForwardWork
  <2> QED
    BY <1>1, <2>2 DEF Fine, DriverWork
<1> QED
  BY <1>4, <1>5

\* Record, after a failure: a step that was retried is compensated with the others.
LEMMA FailureWork ==
    ASSUME NEW l \in Calls, NEW m \in Calls, NEW st \in St, NEW ef \in Ef,
           NEW b \in BOOLEAN, NEW c \in BOOLEAN,
           l.rec = "failed", Fine("record", l, st, ef, b), NEW sx \in St,
           Written(l, st, sx, b, c),
           m.chain = ChainAfter(l), m.target = l.target
    PROVE  Fine(Unwind(m.chain), m, sx, ef, c)
<1>1. /\ RecordWork(sx, ef, c)
      /\ \A s \in Steps : s # l.step => sx[s] = st[s]
      /\ c => sx[l.step] = "failed" /\ b
  <2>1. l.rec \in {"invoked", "failed"}
    OBVIOUS
  <2> QED
    BY <2>1, OutcomeRecorded
<1>2. /\ ForwardWork(l, st, ef, b) /\ l.target \in {"failed", "compensation_failed"}
      /\ l.target = "failed" /\ l.attempt = 1 => ef[l.step] # "applied"
  BY DEF Fine, DriverWork, OutcomeWork
<1>3. l.step \in Steps /\ l.attempt \in 1..MaxAttempts
  BY DEF Calls
<1>4. l.attempt = 1 \/ l.attempt > 1
  BY <1>3, EngineAssumption
<1>5. \A s \in Steps : s < l.step \/ s = l.step \/ s > l.step
  BY <1>3, StepsCompare
<1>6. \A s \in Steps : s # l.step /\ ef[s] = "applied" => s \in l.chain /\ (b => st[s] = "invoked")
  BY <1>2, <1>5 DEF ForwardWork
<1>7. l.chain \subseteq m.chain /\ (l.attempt > 1 => l.step \in m.chain)
  BY DEF ChainAfter
<1>8. BackwardWork(m, sx, ef, c)
  <2>1. m.target = "failed" => Covered(sx, ef, m.chain)
    BY <1>2, <1>4, <1>6, <1>7 DEF Covered
  <2>2. c => \A s \in Steps : ef[s] = "applied" /\ sx[s] = "invoked" => s \in m.chain
    BY <1>1, <1>6, <1>7
  <2>3. c => NoBareBlocker(sx, ef)
    BY <1>1, <1>6, EngineAssumption DEF NoBareBlocker, Bare
  <2> QED
    BY <1>2, <2>1, <2>2, <2>3 DEF BackwardWork
<1> QED
  BY <1>1, <1>8, UnwindWork

\* The side effect was undone, or nothing changed.
MaybeUndone(s, ef, fx) == fx \in {ef, [ef EXCEPT ![s] = "undone"]}

\* Compensate undoes a side effect that stands, or leaves it and says so.
LEMMA CompensateWork ==
    ASSUME NEW l \in Calls, NEW m \in Calls, NEW st \in St, NEW ef \in Ef, NEW b \in BOOLEAN,
           Fine("compensate", l, st, ef, b), NEW s \in l.chain,
           NEW fx, MaybeUndone(s, ef, fx),
           m.step = s, m.chain = l.chain,
           \/ m.rec = "compensated" /\ m.target = l.target /\ fx[s] # "applied"
           \/ m.rec = "compensation_failed" /\ m.target = "compensation_failed"
    PROVE  Fine("record", m, st, fx, b)
<1>1. BackwardWork(l, st, ef, b) /\ RecordWork(st, ef, b)
  BY DEF Fine, DriverWork
<1>2. s \in Steps
  BY DEF Calls
<1>3. \A t \in Steps : fx[t] = "applied" => ef[t] = "applied"
  BY <1>2 DEF Ef, MaybeUndone
<1>4. RecordWork(st, fx, b)
  BY <1>1, <1>3, EngineAssumption DEF RecordWork, Bare
<1>5. BackwardWork(m, st, fx, b)
  <2>1. m.target = "failed" => Covered(st, fx, m.chain)
    BY <1>1, <1>3 DEF BackwardWork, Covered
  <2>2. b => NoBareBlocker(st, fx)
    BY <1>1, <1>3, EngineAssumption DEF BackwardWork, NoBareBlocker, Bare
  <2> QED
    BY <1>1, <1>3, <2>1, <2>2 DEF BackwardWork
<1>6. UndoneWork(m, st, fx, b)
  BY <1>5 DEF UndoneWork
<1> QED
  BY <1>4, <1>6 DEF Fine, DriverWork

\* Record, after a compensation.
LEMMA UndoneRecorded ==
    ASSUME NEW l \in Calls, NEW m \in Calls, NEW st \in St, NEW ef \in Ef,
           NEW b \in BOOLEAN, NEW c \in BOOLEAN,
           l.rec \in {"compensated", "compensation_failed"}, Fine("record", l, st, ef, b), NEW sx \in St,
           Written(l, st, sx, b, c),
           m.chain = ChainAfter(l), m.target = l.target
    PROVE  Fine(Unwind(m.chain), m, sx, ef, c)
<1>1. UndoneWork(l, st, ef, b) /\ RecordWork(st, ef, b)
  BY DEF Fine, DriverWork
<1>2. l.step \in Steps /\ m.chain = l.chain \ {l.step}
  BY DEF Calls, ChainAfter
<1>3. /\ \A s \in Steps : s # l.step => sx[s] = st[s]
      /\ sx[l.step] = st[l.step] \/ sx[l.step] = l.rec
      /\ c => sx[l.step] = l.rec /\ b
  BY <1>2 DEF St, Written
<1>4. BackwardWork(l, st, ef, b)
  BY <1>1 DEF UndoneWork
<1>5. \A s \in Steps : sx[s] = "none" => st[s] = "none"
  BY <1>3
<1>6. c => NoBareBlocker(sx, ef)
  BY <1>3, <1>4, <1>5, EngineAssumption DEF BackwardWork, NoBareBlocker, Bare
<1>7. RecordWork(sx, ef, c)
  <2>1. \A s \in Steps : ef[s] = "applied" => sx[s] # "compensated"
    BY <1>1, <1>3 DEF RecordWork, UndoneWork
  <2>2. SingleAttempts => \A s \in Steps : sx[s] = "failed" => ef[s] # "applied"
    BY <1>1, <1>3 DEF RecordWork
  <2> QED
    BY <1>6, <2>1, <2>2 DEF RecordWork, NoBareBlocker
<1>8. BackwardWork(m, sx, ef, c)
  <2>1. m.target = "failed" => Covered(sx, ef, m.chain)
    <3>1. ASSUME m.target = "failed", NEW s \in Steps, ef[s] = "applied"
          PROVE  s \in m.chain \/ sx[s] \in {"none", "failed"}
      <4>1. l.rec = "compensated" /\ s # l.step
        BY <1>1, <3>1 DEF UndoneWork
      <4> QED
        BY <1>2, <1>3, <1>4, <3>1, <4>1 DEF BackwardWork, Covered
    <3> QED
      BY <3>1 DEF Covered
  <2>2. c => \A s \in Steps : ef[s] = "applied" /\ sx[s] = "invoked" => s \in m.chain
    BY <1>2, <1>3, <1>4 DEF BackwardWork
  <2> QED
    BY <1>4, <1>6, <2>1, <2>2 DEF BackwardWork
<1> QED
  BY <1>7, <1>8, UnwindWork

\* Claim: the chain is rebuilt from the records, closed without one, or refused.
LEMMA ClaimWork ==
    ASSUME NEW m \in Calls, NEW st \in St, NEW ef \in Ef, NEW b \in BOOLEAN, RecordWork(st, ef, b)
    PROVE  /\ HeldSteps(st) = {} /\ m.target = "failed" => Fine("close", m, st, ef, b)
           /\ Rebuildable(st) /\ m.chain = HeldSteps(st) /\ m.target = "failed"
                 => Fine("compensate", m, st, ef, b)
           /\ m.target = "compensation_failed" => Fine("close", m, st, ef, b)
<1>1. \A s \in Steps : ef[s] = "applied" => s \in HeldSteps(st) \/ st[s] \in {"none", "failed"}
  BY DEF RecordWork, HeldSteps, Held, St, StepStates
<1>2. ASSUME b, NEW s \in Blockers, s # 1, Bare(st, ef, s)
      PROVE  HeldSteps(st) # {} /\ BlockedBoundary(st)
  <2>1. s \in Steps /\ st[s] = "none"
    BY <1>2, EngineAssumption DEF Bare
  <2>2. \A t \in Steps : (t < s => st[t] = "invoked") /\ (t > s => st[t] = "none")
    BY <1>2 DEF RecordWork
  <2>3. s - 1 \in Steps /\ s - 1 < s /\ \A t \in Steps : t < s \/ t = s \/ t > s
    BY <1>2, <2>1, StepsAreNumbers
  <2>4. st[s - 1] = "invoked"
    BY <2>2, <2>3
  <2>5. s - 1 \in HeldSteps(st) /\ s - 1 \in Recorded(st)
    BY <2>3, <2>4 DEF HeldSteps, Held, Recorded
  <2>6. \A t \in Recorded(st) : t < s
    BY <2>1, <2>2, <2>3 DEF Recorded
  <2> QED
    BY <2>5, <2>6 DEF BlockedBoundary
<1>3. ASSUME HeldSteps(st) = {}, m.target = "failed" PROVE Fine("close", m, st, ef, b)
  <2>1. Covered(st, ef, {})
    BY <1>1, <1>3 DEF Covered
  <2>2. b => NoBareBlocker(st, ef)
    BY <1>2, <1>3 DEF NoBareBlocker
  <2> QED
    BY <1>3, <2>1, <2>2 DEF Fine, DriverWork, CloseWork
<1>4. ASSUME Rebuildable(st), m.chain = HeldSteps(st), m.target = "failed"
      PROVE  Fine("compensate", m, st, ef, b)
  <2>1. Covered(st, ef, m.chain)
    BY <1>1, <1>4 DEF Covered
  <2>2. b => NoBareBlocker(st, ef)
    BY <1>2, <1>4 DEF NoBareBlocker, Rebuildable
  <2>3. \A s \in Steps : st[s] = "invoked" => s \in m.chain
    BY <1>4 DEF HeldSteps, Held
  <2> QED
    BY <1>4, <2>1, <2>2, <2>3 DEF Fine, DriverWork, BackwardWork
<1>5. ASSUME m.target = "compensation_failed" PROVE Fine("close", m, st, ef, b)
  BY <1>5 DEF Fine, DriverWork, CloseWork
<1> QED
  BY <1>3, <1>4, <1>5

-----------------------------------------------------------------------------
(* The engine's steps, on the state.                                       *)

\* What a driver's status says of its execution is what StatusWork asks of a
\* running one.
LEMMA RunningWork ==
    ASSUME NEW e \in Execs, status[e] = "running", StatusWork(e)
    PROVE  ~(RecordsLanded /\ succeeded[e])
BY DEF StatusWork

\* The only call that drives an execution touches no other one.
LEMMA SoleDriverWork ==
    ASSUME TypeOK, TypeOK', Ownership, WorkInv, NEW p \in Procs,
           Others(p), NEW e \in Execs, status[e] = "running",
           \A q \in Procs \ {p} : pc[q] \in Driving => local[q].exec # e,
           \A f \in Execs \ {e} : steps'[f] = steps[f] /\ effect'[f] = effect[f],
           status' = status, succeeded' = succeeded, RecordsLanded' => RecordsLanded,
           pc'[p] \in Driving, local'[p].exec = e,
           Fine(pc'[p], local'[p], steps'[e], effect'[e], RecordsLanded')
    PROVE  WorkInv'
<1>1. DriversWork'
  <2> SUFFICES ASSUME NEW q \in Procs, pc'[q] \in Driving
               PROVE  DriverWork(pc'[q], local'[q], steps'[local'[q].exec],
                                 effect'[local'[q].exec], RecordsLanded')
    BY DEF DriversWork
  <2>1. CASE q = p
    BY <2>1 DEF Fine
  <2>2. CASE q # p
    <3>1. pc'[q] = pc[q] /\ local'[q] = local[q]
      BY <2>2 DEF Others
    <3>2. local[q].exec \in Execs \ {e}
      BY <2>2, <3>1 DEF Ownership, Attached, Busy
    <3>3. DriverWork(pc[q], local[q], steps[local[q].exec], effect[local[q].exec], RecordsLanded)
      BY <3>1 DEF WorkInv, DriversWork
    <3>4. DriverWork(pc[q], local[q], steps[local[q].exec], effect[local[q].exec], RecordsLanded')
      <4>1. RecordsLanded \in BOOLEAN /\ RecordsLanded' \in BOOLEAN
        BY DEF RecordsLanded
      <4> QED
        BY <3>3, <4>1, LessLanded
    <3> QED
      BY <3>1, <3>2, <3>4
  <2> QED
    BY <2>1, <2>2
<1>2. OpensFresh'
  <2>1. "open" \notin Driving
    BY DEF Driving
  <2> QED
    BY <2>1 DEF WorkInv, OpensFresh, Others
<1>3. ASSUME NEW f \in Execs
      PROVE  RecordWork(steps'[f], effect'[f], RecordsLanded') /\ StatusWork(f)'
  <2>1. RecordWork(steps[f], effect[f], RecordsLanded) /\ StatusWork(f)
    BY DEF WorkInv, ExecsWork
  <2>2. CASE f = e
    <3>1. ~(RecordsLanded /\ succeeded[e])
      BY <2>1, <2>2, RunningWork
    <3> QED
      BY <2>2, <3>1 DEF Fine, StatusWork
  <2>3. CASE f # e
    <3>1. steps'[f] = steps[f] /\ effect'[f] = effect[f]
      BY <2>3
    <3>2. RecordWork(steps[f], effect[f], RecordsLanded')
      <4>1. RecordsLanded \in BOOLEAN /\ RecordsLanded' \in BOOLEAN
        BY DEF RecordsLanded
      <4> QED
        BY <2>1, <4>1, LessLanded
    <3> QED
      BY <2>1, <3>1, <3>2 DEF StatusWork
  <2> QED
    BY <2>2, <2>3
<1> QED
  BY <1>1, <1>2, <1>3 DEF WorkInv, ExecsWork

\* A driver is the only one, and its execution is running.
LEMMA DriveWork ==
    ASSUME TypeOK, TypeOK', Ownership, WorkInv, NEW p \in Procs, pc[p] \in Driving,
           Others(p), NEW e \in Execs, local[p].exec = e,
           \A f \in Execs \ {e} : steps'[f] = steps[f] /\ effect'[f] = effect[f],
           status' = status, succeeded' = succeeded, RecordsLanded' => RecordsLanded,
           pc'[p] \in Driving, local'[p].exec = e,
           Fine(pc'[p], local'[p], steps'[e], effect'[e], RecordsLanded')
    PROVE  WorkInv'
<1>1. status[e] = "running" /\ \A q \in Procs \ {p} : pc[q] \in Driving => local[q].exec # e
  BY DEF Ownership, OwnerRuns, SingleDriver
<1> QED
  BY <1>1, SoleDriverWork

\* A call that drives nothing and has touched nothing.
LEMMA QuietWork ==
    ASSUME WorkInv, NEW p \in Procs, Others(p), pc'[p] \notin Driving,
           pc'[p] = "open" => Fresh(local'[p]),
           steps' = steps, effect' = effect, RecordsLanded' => RecordsLanded,
           \A f \in Execs : StatusWork(f)'
    PROVE  WorkInv'
<1> RecordsLanded \in BOOLEAN /\ RecordsLanded' \in BOOLEAN
  BY DEF RecordsLanded
<1>1. DriversWork'
  <2> SUFFICES ASSUME NEW q \in Procs, pc'[q] \in Driving
               PROVE  DriverWork(pc'[q], local'[q], steps'[local'[q].exec],
                                 effect'[local'[q].exec], RecordsLanded')
    BY DEF DriversWork
  <2>1. q # p /\ pc'[q] = pc[q] /\ local'[q] = local[q]
    BY DEF Others
  <2>2. DriverWork(pc[q], local[q], steps[local[q].exec], effect[local[q].exec], RecordsLanded)
    BY <2>1 DEF WorkInv, DriversWork
  <2>3. DriverWork(pc[q], local[q], steps[local[q].exec], effect[local[q].exec], RecordsLanded')
    BY <2>2, LessLanded
  <2> QED
    BY <2>1, <2>3
<1>2. OpensFresh'
  BY DEF WorkInv, OpensFresh, Others
<1>3. \A f \in Execs : RecordWork(steps'[f], effect'[f], RecordsLanded')
  <2> SUFFICES ASSUME NEW f \in Execs PROVE RecordWork(steps[f], effect[f], RecordsLanded')
    OBVIOUS
  <2>1. RecordWork(steps[f], effect[f], RecordsLanded)
    BY DEF WorkInv, ExecsWork
  <2> QED
    BY <2>1, LessLanded
<1> QED
  BY <1>1, <1>2, <1>3 DEF WorkInv, ExecsWork

\* The same status, records and side effects say the same.
LEMMA SameStatusWork ==
    ASSUME WorkInv, status' = status, succeeded' = succeeded, steps' = steps, effect' = effect,
           RecordsLanded' => RecordsLanded
    PROVE  \A f \in Execs : StatusWork(f)'
<1> SUFFICES ASSUME NEW f \in Execs PROVE StatusWork(f)'
  OBVIOUS
<1>1. StatusWork(f)
  BY DEF WorkInv, ExecsWork
<1> QED
  BY <1>1 DEF StatusWork

\* A call that returns, or turns once more.
LEMMA TurnsFresh ==
    ASSUME TypeOK, NEW p \in Procs, Again(p) \/ Return(p)
    PROVE  /\ Others(p) /\ pc'[p] \notin Driving
           /\ pc'[p] = "open" => Fresh(local'[p])
<1>1. Others(p) /\ pc'[p] \notin Driving
  BY AgainMoves, ReturnMoves DEF Busy
<1>2. CASE Return(p)
  <2>1. pc'[p] = "idle"
    BY <1>2 DEF Return, Goto, TypeOK
  <2> QED
    BY <1>1, <2>1
<1>3. CASE Again(p) /\ ~Return(p)
  <2>1. Goto(p, "open", [Idle EXCEPT !.key = local[p].key, !.turn = 2])
    BY <1>3 DEF Again
  <2>2. local'[p] = [Idle EXCEPT !.key = local[p].key, !.turn = 2]
    BY <2>1 DEF Goto, TypeOK
  <2> QED
    BY <1>1, <2>2 DEF Fresh, Idle
<1> QED
  BY <1>2, <1>3

\* The calls that begin, judge, lose, return or die.
LEMMA QuietSteps ==
    ASSUME TypeOK, WorkInv, NEW p \in Procs,
           \/ \E k \in Keys \cup {NoKey} : Run(p, k)
           \/ \E e \in Execs : Recover(p, e)
           \/ OpenConflict(p) \/ StoreError(p) \/ Replay(p) \/ GetSteps(p)
           \/ ClaimLost(p) \/ ClaimUndecided(p) \/ Crash(p)
    PROVE  WorkInv'
<1>1. UNCHANGED <<status, steps, effect, succeeded>>
  BY DEF Run, Recover, OpenConflict, StoreError, Replay, GetSteps, ClaimLost, ClaimUndecided,
         ClaimAbandoned, Crash, store, world
<1>2. RecordsLanded' => RecordsLanded
  <2>1. lostWrites \in Nat
    BY EngineAssumption DEF TypeOK
  <2>2. lostWrites' = lostWrites \/ lostWrites' = lostWrites + 1
    BY DEF Run, Recover, OpenConflict, StoreError, Replay, GetSteps, ClaimLost, ClaimUndecided, Crash
  <2> QED
    BY <2>1, <2>2 DEF RecordsLanded
<1>3. /\ Others(p) /\ pc'[p] \notin Driving
      /\ pc'[p] = "open" => Fresh(local'[p])
  <2>1. CASE Again(p) \/ Return(p)
    BY <2>1, TurnsFresh
  <2>2. CASE \E k \in Keys \cup {NoKey} : Run(p, k)
    <3>1. PICK k \in Keys \cup {NoKey} : Run(p, k)
      BY <2>2
    <3>2. pc'[p] = "open" /\ local'[p] = [Idle EXCEPT !.key = k] /\ Others(p)
      BY <3>1 DEF Run, Goto, TypeOK, Others
    <3> QED
      BY <3>2 DEF Fresh, Idle, Driving
  <2>3. CASE ~(Again(p) \/ Return(p)) /\ ~ \E k \in Keys \cup {NoKey} : Run(p, k)
    <3>1. \E next \in {"find", "get", "claim"} : \E l : Goto(p, next, l)
      BY <2>3 DEF Recover, OpenConflict, StoreError, Replay, GetSteps, ClaimLost, ClaimUndecided, Crash
    <3> QED
      BY <3>1 DEF Goto, TypeOK, Others, Driving
  <2> QED
    BY <2>1, <2>2, <2>3
<1>4. \A f \in Execs : StatusWork(f)'
  BY <1>1, <1>2, SameStatusWork
<1> QED
  BY <1>1, <1>2, <1>3, <1>4, QuietWork

\* A lost write is counted.
LEMMA LandedOrNot ==
    ASSUME TypeOK, lostWrites' = lostWrites \/ lostWrites' = lostWrites + 1
    PROVE  /\ RecordsLanded' => RecordsLanded
           /\ lostWrites' = lostWrites + 1 => ~RecordsLanded'
           /\ RecordsLanded \in BOOLEAN /\ RecordsLanded' \in BOOLEAN
<1>1. lostWrites \in Nat
  BY EngineAssumption DEF TypeOK
<1> QED
  BY <1>1 DEF RecordsLanded

\* Open: the new record is driven by the call that wrote it, and was touched by nobody.
LEMMA OpenKeepsWork ==
    ASSUME TypeOK, TypeOK', Ownership, WorkInv, NEW p \in Procs, NEW e \in Execs, Open(p, e)
    PROVE  WorkInv'
<1> DEFINE m == [local[p] EXCEPT !.exec = e, !.mode = "execute"]
<1>1. /\ pc[p] = "open" /\ Create(e, local[p].key) /\ Goto(p, "invoke", m)
      /\ UNCHANGED <<effect, succeeded, lostWrites>>
  BY DEF Open
<1>2. /\ local[p] \in Calls /\ steps[e] \in St /\ effect[e] \in Ef
      /\ RecordsLanded \in BOOLEAN /\ RecordsLanded' = RecordsLanded
  BY <1>1 DEF TypeOK, St, Ef, RecordsLanded
<1>3. m \in Calls /\ Fresh(m) /\ m.exec = e
  <2>1. Fresh(local[p])
    BY <1>1 DEF WorkInv, OpensFresh
  <2>2. m \in Calls /\ m.exec = e
    BY <1>2, SetExec DEF Names
  <2>3. /\ m.step = local[p].step /\ m.attempt = local[p].attempt
        /\ m.chain = local[p].chain /\ m.target = local[p].target
    BY <1>2 DEF Calls
  <2> QED
    BY <2>1, <2>2, <2>3 DEF Fresh
<1> HIDE DEF m
<1>4. pc'[p] = "invoke" /\ local'[p] = m /\ Others(p)
  BY <1>1 DEF Goto, TypeOK, Others
<1>5. /\ status[e] = "absent" /\ status'[e] = "running" /\ steps' = steps
      /\ \A f \in Execs \ {e} : status'[f] = status[f]
  BY <1>1 DEF Create, TypeOK
<1>6. \A s \in Steps : steps[e][s] = "none" /\ effect[e][s] # "applied"
  BY <1>5 DEF WorkInv, ExecsWork, StatusWork
<1>7. Fine("invoke", m, steps[e], effect[e], RecordsLanded)
  BY <1>2, <1>3, <1>6, OpenWork
<1>8. DriversWork'
  <2> SUFFICES ASSUME NEW q \in Procs, pc'[q] \in Driving
               PROVE  DriverWork(pc'[q], local'[q], steps'[local'[q].exec],
                                 effect'[local'[q].exec], RecordsLanded')
    BY DEF DriversWork
  <2>1. CASE q = p
    BY <1>1, <1>2, <1>3, <1>4, <1>5, <1>7, <2>1 DEF Fine
  <2>2. CASE q # p
    <3>1. pc'[q] = pc[q] /\ local'[q] = local[q]
      BY <1>4, <2>2 DEF Others
    <3>2. DriverWork(pc[q], local[q], steps[local[q].exec], effect[local[q].exec], RecordsLanded)
      BY <3>1 DEF WorkInv, DriversWork
    <3> QED
      BY <1>1, <1>2, <1>5, <3>1, <3>2
  <2> QED
    BY <2>1, <2>2
<1>9. OpensFresh'
  BY <1>4 DEF WorkInv, OpensFresh, Others
<1>10. ExecsWork'
  <2> SUFFICES ASSUME NEW f \in Execs
               PROVE  RecordWork(steps'[f], effect'[f], RecordsLanded') /\ StatusWork(f)'
    BY DEF ExecsWork
  <2>1. RecordWork(steps[f], effect[f], RecordsLanded) /\ StatusWork(f)
    BY DEF WorkInv, ExecsWork
  <2>2. StatusWork(f)'
    <3>1. CASE f = e
      <4>1. ~(RecordsLanded /\ succeeded[e])
        BY <1>5, <2>1, <3>1 DEF StatusWork
      <4> QED
        BY <1>1, <1>2, <1>5, <3>1, <4>1 DEF StatusWork
    <3>2. CASE f # e
      BY <1>1, <1>2, <1>5, <2>1, <3>2 DEF StatusWork
    <3> QED
      BY <3>1, <3>2
  <2> QED
    BY <1>1, <1>2, <1>5, <2>1, <2>2
<1> QED
  BY <1>8, <1>9, <1>10 DEF WorkInv

\* A record whose creator got no answer.
LEMMA OpenUnansweredKeepsWork ==
    ASSUME TypeOK, WorkInv, NEW p \in Procs, NEW e \in Execs, OpenUnanswered(p, e)
    PROVE  WorkInv'
<1>1. /\ Create(e, local[p].key) /\ Return(p)
      /\ UNCHANGED <<effect, succeeded>> /\ lostWrites' = lostWrites + 1
  BY DEF OpenUnanswered
<1>2. ~RecordsLanded'
  BY <1>1, LandedOrNot
<1>3. /\ status'[e] = "running" /\ steps' = steps
      /\ \A f \in Execs \ {e} : status'[f] = status[f]
  BY <1>1 DEF Create, TypeOK
<1>4. ASSUME NEW f \in Execs PROVE StatusWork(f)'
  <2>1. StatusWork(f)
    BY DEF WorkInv, ExecsWork
  <2>2. CASE f = e
    BY <1>2, <1>3, <2>2 DEF StatusWork
  <2>3. CASE f # e
    BY <1>1, <1>2, <1>3, <2>1, <2>3 DEF StatusWork
  <2> QED
    BY <2>2, <2>3
<1> QED
  BY <1>1, <1>2, <1>3, <1>4, TurnsFresh, QuietWork

\* What a driver's action finds: its execution, the types and what it knows.
LEMMA DriverFinds ==
    ASSUME TypeOK, Ownership, WorkInv, NEW p \in Procs, pc[p] \in Driving
    PROVE  /\ local[p] \in Calls /\ local[p].exec \in Execs
           /\ steps[local[p].exec] \in St /\ effect[local[p].exec] \in Ef
           /\ RecordsLanded \in BOOLEAN
           /\ Fine(pc[p], local[p], steps[local[p].exec], effect[local[p].exec], RecordsLanded)
<1>1. local[p] \in Calls /\ local[p].exec \in Execs
  BY DriverFields DEF Ownership
<1>2. steps[local[p].exec] \in St /\ effect[local[p].exec] \in Ef /\ RecordsLanded \in BOOLEAN
  BY <1>1 DEF TypeOK, St, Ef, RecordsLanded
<1> QED
  BY <1>1, <1>2 DEF Fine, WorkInv, DriversWork, ExecsWork

\* A side effect of one step of one execution.
LEMMA EffectMoves ==
    ASSUME TypeOK, NEW e \in Execs, NEW s \in Steps, NEW x, SetEffect(e, s, x)
    PROVE  /\ effect'[e] = [effect[e] EXCEPT ![s] = x]
           /\ \A f \in Execs \ {e} : effect'[f] = effect[f]
BY DEF TypeOK, SetEffect

\* InvokeRetried.
LEMMA RetriedKeepsWork ==
    ASSUME TypeOK, TypeOK', Ownership, WorkInv, NEW p \in Procs, InvokeRetried(p)
    PROVE  WorkInv'
<1> DEFINE l == local[p]
           e == local[p].exec
<1>1. /\ pc[p] = "invoke" /\ l.attempt < MaxAttempts /\ MaybeApplied(e, l.step)
      /\ Goto(p, "invoke", [l EXCEPT !.attempt = @ + 1]) /\ UNCHANGED <<store, succeeded, lostWrites>>
  BY DEF InvokeRetried
<1>2. "invoke" \in Driving
  BY DEF Driving
<1>3. /\ l \in Calls /\ e \in Execs /\ steps[e] \in St /\ effect[e] \in Ef
      /\ RecordsLanded \in BOOLEAN /\ Fine("invoke", l, steps[e], effect[e], RecordsLanded)
  BY <1>1, <1>2, DriverFinds
<1>4. l.step \in Steps /\ l.attempt \in 1..MaxAttempts
  BY <1>3 DEF Calls
<1>5. PICK m :
      /\ Goto(p, "invoke", m)
      /\ m \in Calls /\ m.step = l.step /\ m.chain = l.chain /\ m.target = l.target
      /\ m.attempt \in 2..MaxAttempts /\ m.exec = e
  <2>1. l.attempt + 1 \in 1..MaxAttempts /\ l.attempt + 1 \in 2..MaxAttempts
    BY <1>1, <1>4, EngineAssumption
  <2> QED
    <3> DEFINE n == [l EXCEPT !.attempt = @ + 1]
    <3>1. n \in Calls /\ n.step = l.step /\ n.chain = l.chain /\ n.target = l.target
          /\ n.attempt \in 2..MaxAttempts /\ n.exec = e
      BY <1>3, <2>1 DEF Calls
    <3>2. Goto(p, "invoke", n)
      BY <1>1
    <3> HIDE DEF n
    <3> QED
      BY <3>1, <3>2
<1>6. pc'[p] = "invoke" /\ local'[p] = m /\ Others(p)
  BY <1>5 DEF Goto, TypeOK, Others
<1>7. /\ effect'[e] \in {effect[e], [effect[e] EXCEPT ![l.step] = "applied"]}
      /\ \A f \in Execs \ {e} : effect'[f] = effect[f]
  BY <1>1, <1>3, <1>4, EffectMoves DEF MaybeApplied
<1>8. Fine("invoke", m, steps[e], effect'[e], RecordsLanded)
  <2>1. MaybeTouched(l, effect[e], effect'[e])
    BY <1>7 DEF MaybeTouched
  <2>2. m \in Calls /\ m.step = l.step /\ m.chain = l.chain /\ m.target = l.target /\ m.attempt \in 2..MaxAttempts
    BY <1>5
  <2> HIDE DEF l, e
  <2> QED
    <3>1. InvokeWork(m, steps[e], effect'[e], RecordsLanded) /\ RecordWork(steps[e], effect'[e], RecordsLanded)
      BY <1>3, <2>1, <2>2, RetriedWork
    <3> QED
      BY <3>1 DEF Fine, DriverWork
<1>9. /\ status' = status /\ succeeded' = succeeded /\ steps' = steps
      /\ RecordsLanded' = RecordsLanded
  BY <1>1 DEF store, RecordsLanded
<1> QED
  BY <1>1, <1>2, <1>3, <1>5, <1>6, <1>7, <1>8, <1>9, DriveWork DEF e, l

\* InvokeSucceeds, InvokeFails and InvokeUncompensated.
LEMMA InvokedKeepsWork ==
    ASSUME TypeOK, TypeOK', Ownership, WorkInv, NEW p \in Procs,
           InvokeSucceeds(p) \/ InvokeFails(p) \/ InvokeUncompensated(p)
    PROVE  WorkInv'
<1> DEFINE l == local[p]
           e == local[p].exec
           Applied == [effect[e] EXCEPT ![l.step] = "applied"]
<1>1. pc[p] = "invoke" /\ UNCHANGED <<store, succeeded, lostWrites>>
  BY DEF InvokeSucceeds, InvokeFails, InvokeUncompensated
<1>2. "invoke" \in Driving /\ "record" \in Driving
  BY DEF Driving
<1>3. /\ l \in Calls /\ e \in Execs /\ steps[e] \in St /\ effect[e] \in Ef
      /\ RecordsLanded \in BOOLEAN /\ Fine("invoke", l, steps[e], effect[e], RecordsLanded)
  BY <1>1, <1>2, DriverFinds
<1>4. l.step \in Steps /\ l.attempt \in 1..MaxAttempts
  BY <1>3 DEF Calls
<1>5. PICK m :
         /\ Goto(p, "record", m) /\ m \in Calls /\ m.exec = e
         /\ m.step = l.step /\ m.chain = l.chain /\ m.attempt = l.attempt
         /\ effect'[e] = effect[e] \/ effect'[e] = Applied
         /\ \A f \in Execs \ {e} : effect'[f] = effect[f]
         /\ \/ m.rec = "invoked" /\ m.target = l.target /\ effect'[e] = Applied
            \/ m.rec = "failed" /\ m.target = "failed" /\ (l.attempt = 1 => effect'[e] = effect[e])
            \/ m.rec = "failed" /\ m.target = "compensation_failed" /\ l.step \in Leaky
  <2>1. CASE InvokeSucceeds(p)
    <3> DEFINE m == [l EXCEPT !.rec = "invoked"]
    <3>1. Goto(p, "record", m) /\ SetEffect(e, l.step, "applied")
      BY <2>1 DEF InvokeSucceeds
    <3>2. /\ m \in Calls /\ m.exec = e /\ m.step = l.step /\ m.chain = l.chain
          /\ m.attempt = l.attempt /\ m.rec = "invoked" /\ m.target = l.target
      BY <1>3 DEF Calls, StepStates
    <3>3. effect'[e] = Applied /\ \A f \in Execs \ {e} : effect'[f] = effect[f]
      BY <1>3, <1>4, <3>1, EffectMoves
    <3> HIDE DEF m, l, e, Applied
    <3> QED
      BY <3>1, <3>2, <3>3
  <2>2. CASE InvokeFails(p)
    <3> DEFINE m == [l EXCEPT !.rec = "failed", !.target = "failed"]
    <3>1. /\ Goto(p, "record", m)
          /\ IF l.attempt = 1 THEN UNCHANGED effect ELSE MaybeApplied(e, l.step)
      BY <2>2 DEF InvokeFails
    <3>2. /\ m \in Calls /\ m.exec = e /\ m.step = l.step /\ m.chain = l.chain
          /\ m.attempt = l.attempt /\ m.rec = "failed" /\ m.target = "failed"
      BY <1>3 DEF Calls, StepStates, Terminal
    <3>3. /\ effect'[e] = effect[e] \/ effect'[e] = Applied
          /\ l.attempt = 1 => effect'[e] = effect[e]
          /\ \A f \in Execs \ {e} : effect'[f] = effect[f]
      BY <1>3, <1>4, <3>1, EffectMoves DEF MaybeApplied
    <3> HIDE DEF m, l, e, Applied
    <3> QED
      BY <3>1, <3>2, <3>3
  <2>3. CASE InvokeUncompensated(p)
    <3> DEFINE m == [l EXCEPT !.rec = "failed", !.target = "compensation_failed"]
    <3>1. Goto(p, "record", m) /\ SetEffect(e, l.step, "applied") /\ l.step \in Leaky
      BY <2>3 DEF InvokeUncompensated
    <3>2. /\ m \in Calls /\ m.exec = e /\ m.step = l.step /\ m.chain = l.chain
          /\ m.attempt = l.attempt /\ m.rec = "failed" /\ m.target = "compensation_failed"
      BY <1>3 DEF Calls, StepStates, Terminal
    <3>3. effect'[e] = Applied /\ \A f \in Execs \ {e} : effect'[f] = effect[f]
      BY <1>3, <1>4, <3>1, EffectMoves
    <3> HIDE DEF m, l, e, Applied
    <3> QED
      BY <3>1, <3>2, <3>3
  <2> QED
    BY <2>1, <2>2, <2>3
<1>6. pc'[p] = "record" /\ local'[p] = m /\ Others(p)
  BY <1>5 DEF Goto, TypeOK, Others
<1>7. /\ status' = status /\ succeeded' = succeeded /\ steps' = steps
      /\ RecordsLanded' = RecordsLanded
  BY <1>1 DEF store, RecordsLanded
<1>8. effect'[e] \in {effect[e], [effect[e] EXCEPT ![l.step] = "applied"]}
  BY <1>5
<1>9. \/ m.rec = "invoked" /\ m.target = l.target /\ effect'[e] = [effect[e] EXCEPT ![l.step] = "applied"]
      \/ m.rec = "failed" /\ m.target = "failed" /\ (l.attempt = 1 => effect'[e] = effect[e])
      \/ m.rec = "failed" /\ m.target = "compensation_failed" /\ l.step \in Leaky
  BY <1>5
<1> HIDE DEF l, e, Applied
<1>10. Fine("record", m, steps[e], effect'[e], RecordsLanded)
  BY <1>3, <1>5, <1>8, <1>9, InvokedWork
<1> QED
  BY <1>1, <1>2, <1>3, <1>5, <1>6, <1>7, <1>10, DriveWork DEF e, l

\* Canceled.
LEMMA CanceledKeepsWork ==
    ASSUME TypeOK, TypeOK', Ownership, WorkInv, NEW p \in Procs, Canceled(p)
    PROVE  WorkInv'
<1> DEFINE l == local[p]
           m == [local[p] EXCEPT !.target = "failed"]
           e == local[p].exec
<1>1. /\ pc[p] = "invoke" /\ l.attempt = 1 /\ Goto(p, Unwind(l.chain), m)
      /\ UNCHANGED <<store, world, lostWrites>>
  BY DEF Canceled
<1>2. "invoke" \in Driving /\ Unwind(l.chain) \in Driving
  BY DEF Driving, Unwind
<1>3. /\ l \in Calls /\ e \in Execs /\ steps[e] \in St /\ effect[e] \in Ef
      /\ RecordsLanded \in BOOLEAN /\ Fine("invoke", l, steps[e], effect[e], RecordsLanded)
  BY <1>1, <1>2, DriverFinds
<1>4. m \in Calls /\ m.chain = l.chain /\ m.target = "failed" /\ m.exec = e
  BY <1>3 DEF Calls, Terminal
<1>5. pc'[p] = Unwind(l.chain) /\ local'[p] = m /\ Others(p)
  BY <1>1 DEF Goto, TypeOK, Others
<1>6. /\ status' = status /\ succeeded' = succeeded /\ steps' = steps /\ effect' = effect
      /\ RecordsLanded' = RecordsLanded
  BY <1>1 DEF store, world, RecordsLanded
<1> HIDE DEF l, m, e
<1>7. Fine(Unwind(l.chain), m, steps[e], effect[e], RecordsLanded)
  BY <1>1, <1>3, <1>4, CanceledWork
<1> QED
  BY <1>1, <1>2, <1>3, <1>4, <1>5, <1>6, <1>7, DriveWork DEF e, l

\* Compensate.
LEMMA CompensateKeepsWork ==
    ASSUME TypeOK, TypeOK', Ownership, WorkInv, NEW p \in Procs, Compensate(p)
    PROVE  WorkInv'
<1> DEFINE l == local[p]
           e == local[p].exec
<1>1. pc[p] = "compensate" /\ UNCHANGED <<store, succeeded, lostWrites>>
  BY DEF Compensate
<1>2. "compensate" \in Driving /\ "record" \in Driving
  BY DEF Driving
<1>3. /\ l \in Calls /\ e \in Execs /\ steps[e] \in St /\ effect[e] \in Ef
      /\ RecordsLanded \in BOOLEAN /\ Fine("compensate", l, steps[e], effect[e], RecordsLanded)
  BY <1>1, <1>2, DriverFinds
<1>4. PICK s \in Latest(l.chain) :
         \/ /\ IF effect[e][s] = "applied" THEN SetEffect(e, s, "undone") ELSE UNCHANGED effect
            /\ Goto(p, "record", [l EXCEPT !.step = s, !.rec = "compensated"])
         \/ /\ SetEffect(e, s, "undone") \/ UNCHANGED effect
            /\ Goto(p, "record", [l EXCEPT !.step = s, !.rec = "compensation_failed",
                                           !.target = "compensation_failed"])
  BY DEF Compensate
<1>5. s \in l.chain /\ s \in Steps
  BY <1>3, <1>4 DEF Latest, Calls
<1>6. PICK m :
         /\ Goto(p, "record", m) /\ m \in Calls /\ m.exec = e /\ m.step = s /\ m.chain = l.chain
         /\ effect'[e] = effect[e] \/ effect'[e] = [effect[e] EXCEPT ![s] = "undone"]
         /\ \A f \in Execs \ {e} : effect'[f] = effect[f]
         /\ \/ m.rec = "compensated" /\ m.target = l.target /\ effect'[e][s] # "applied"
            \/ m.rec = "compensation_failed" /\ m.target = "compensation_failed"
  <2>1. CASE /\ IF effect[e][s] = "applied" THEN SetEffect(e, s, "undone") ELSE UNCHANGED effect
             /\ Goto(p, "record", [l EXCEPT !.step = s, !.rec = "compensated"])
    <3> DEFINE m == [l EXCEPT !.step = s, !.rec = "compensated"]
    <3>1. /\ m \in Calls /\ m.exec = e /\ m.step = s /\ m.chain = l.chain
          /\ m.rec = "compensated" /\ m.target = l.target
      BY <1>3, <1>5 DEF Calls, StepStates
    <3>2. /\ effect'[e] = effect[e] \/ effect'[e] = [effect[e] EXCEPT ![s] = "undone"]
          /\ \A f \in Execs \ {e} : effect'[f] = effect[f]
      BY <1>3, <1>5, <2>1, EffectMoves
    <3>3. effect'[e][s] # "applied"
      <4>1. CASE effect[e][s] = "applied"
        <5>1. effect'[e] = [effect[e] EXCEPT ![s] = "undone"]
          BY <1>3, <1>5, <2>1, <4>1, EffectMoves
        <5> QED
          BY <1>3, <1>5, <5>1 DEF Ef
      <4>2. CASE effect[e][s] # "applied"
        BY <2>1, <4>2
      <4> QED
        BY <4>1, <4>2
    <3>4. Goto(p, "record", m)
      BY <2>1
    <3> HIDE DEF m, l, e
    <3> QED
      BY <3>1, <3>2, <3>3, <3>4
  <2>2. CASE /\ SetEffect(e, s, "undone") \/ UNCHANGED effect
             /\ Goto(p, "record", [l EXCEPT !.step = s, !.rec = "compensation_failed",
                                            !.target = "compensation_failed"])
    <3> DEFINE m == [l EXCEPT !.step = s, !.rec = "compensation_failed",
                              !.target = "compensation_failed"]
    <3>1. /\ m \in Calls /\ m.exec = e /\ m.step = s /\ m.chain = l.chain
          /\ m.rec = "compensation_failed" /\ m.target = "compensation_failed"
      BY <1>3, <1>5 DEF Calls, StepStates, Terminal
    <3>2. /\ effect'[e] = effect[e] \/ effect'[e] = [effect[e] EXCEPT ![s] = "undone"]
          /\ \A f \in Execs \ {e} : effect'[f] = effect[f]
      BY <1>3, <1>5, <2>2, EffectMoves
    <3>3. Goto(p, "record", m)
      BY <2>2
    <3> HIDE DEF m, l, e
    <3> QED
      BY <3>1, <3>2, <3>3
  <2> QED
    BY <1>4, <2>1, <2>2
<1>7. pc'[p] = "record" /\ local'[p] = m /\ Others(p)
  BY <1>6 DEF Goto, TypeOK, Others
<1>8. /\ status' = status /\ succeeded' = succeeded /\ steps' = steps
      /\ RecordsLanded' = RecordsLanded
  BY <1>1 DEF store, RecordsLanded
<1>9. MaybeUndone(s, effect[e], effect'[e])
  BY <1>6 DEF MaybeUndone
<1> HIDE DEF l, e
<1>10. Fine("record", m, steps[e], effect'[e], RecordsLanded)
  BY <1>3, <1>5, <1>6, <1>9, CompensateWork
<1> QED
  BY <1>1, <1>2, <1>3, <1>6, <1>7, <1>8, <1>10, DriveWork DEF e, l

\* AppendStep, lost or not.
LEMMA AppendMoves ==
    ASSUME TypeOK, NEW p \in Procs, NEW l, l = local[p], l \in Calls, NEW e \in Execs,
           Persist(AppendStep(e, l.step, l.rec))
    PROVE  /\ Written(l, steps[e], steps'[e], RecordsLanded, RecordsLanded')
           /\ \A f \in Execs \ {e} : steps'[f] = steps[f]
           /\ status' = status
           /\ RecordsLanded' => RecordsLanded
           /\ RecordsLanded \in BOOLEAN /\ RecordsLanded' \in BOOLEAN
<1>1. l.step \in Steps
  BY DEF Calls
<1>2. CASE AppendStep(e, l.step, l.rec) /\ UNCHANGED lostWrites
  <2>1. /\ steps'[e] = [steps[e] EXCEPT ![l.step] = l.rec]
        /\ \A f \in Execs \ {e} : steps'[f] = steps[f]
    BY <1>1, <1>2 DEF AppendStep, TypeOK
  <2>2. status' = status /\ RecordsLanded' = RecordsLanded
    BY <1>2 DEF AppendStep, RecordsLanded
  <2> QED
    BY <1>2, <2>1, <2>2, LandedOrNot DEF Written
<1>3. CASE LoseWrite
  <2>1. steps' = steps /\ status' = status /\ lostWrites' = lostWrites + 1
    BY <1>3 DEF LoseWrite, store
  <2> QED
    BY <2>1, LandedOrNot DEF Written
<1> QED
  BY <1>2, <1>3 DEF Persist

\* Record.
LEMMA RecordKeepsWork ==
    ASSUME TypeOK, TypeOK', Ownership, WorkInv, NEW p \in Procs, Record(p)
    PROVE  WorkInv'
<1> DEFINE l == local[p]
           e == local[p].exec
           c == ChainAfter(l)
           next == After(l, c)
<1>1. /\ pc[p] = "record" /\ Persist(AppendStep(e, l.step, l.rec)) /\ UNCHANGED world
      /\ IF After(l, c) = "invoke"
           THEN Goto(p, "invoke", [l EXCEPT !.chain = c, !.attempt = 1, !.step = @ + 1])
           ELSE Goto(p, After(l, c), [l EXCEPT !.chain = c])
  BY DEF Record
<1>2. "record" \in Driving
  BY DEF Driving
<1>3. /\ l \in Calls /\ e \in Execs /\ steps[e] \in St /\ effect[e] \in Ef
      /\ RecordsLanded \in BOOLEAN /\ Fine("record", l, steps[e], effect[e], RecordsLanded)
  BY <1>1, <1>2, DriverFinds
<1>4. l.step \in Steps /\ l.chain \subseteq Steps /\ l.rec \in StepStates
  BY <1>3 DEF Calls
<1>5. c \in SUBSET Steps
  BY <1>3, ChainTyped
<1>6. /\ Written(l, steps[e], steps'[e], RecordsLanded, RecordsLanded')
      /\ \A f \in Execs \ {e} : steps'[f] = steps[f]
      /\ status' = status
      /\ RecordsLanded' => RecordsLanded
      /\ RecordsLanded' \in BOOLEAN
  BY <1>1, <1>3, AppendMoves
<1>7. steps'[e] \in St /\ effect' = effect /\ succeeded' = succeeded
  BY <1>1, <1>3 DEF TypeOK, St, world
<1>8. l.step # NSteps => l.step < NSteps /\ l.step + 1 \in Steps
  BY <1>4, EngineAssumption DEF Steps
<1>9. PICK m :
         /\ next \in Driving /\ Goto(p, next, m) /\ m \in Calls /\ m.exec = e /\ m.chain = c /\ m.target = l.target
         /\ next = "invoke" => m.attempt = 1 /\ m.step = l.step + 1
  <2>1. CASE After(l, c) = "invoke"
    <3> DEFINE m == [l EXCEPT !.chain = c, !.attempt = 1, !.step = @ + 1]
    <3>1. l.step # NSteps
      BY <1>4, <2>1 DEF After, Unwind, StepStates
    <3>2. 1 \in 1..MaxAttempts
      BY EngineAssumption
    <3> HIDE DEF c
    <3>3. /\ m \in Calls /\ m.exec = e /\ m.chain = c /\ m.target = l.target
          /\ m.attempt = 1 /\ m.step = l.step + 1
      BY <1>3, <1>5, <1>8, <3>1, <3>2 DEF Calls
    <3>4. Goto(p, "invoke", m) /\ "invoke" \in Driving
      BY <1>1, <2>1 DEF Driving
    <3> HIDE DEF m, l, e, next
    <3> QED
      BY <2>1, <3>3, <3>4 DEF next
  <2>2. CASE After(l, c) # "invoke"
    <3> DEFINE m == [l EXCEPT !.chain = c]
    <3>1. After(l, c) \in Driving
      BY <2>2, <1>4, EngineAssumption DEF After, Unwind, Driving
    <3> HIDE DEF c
    <3>2. m \in Calls /\ m.exec = e /\ m.chain = c /\ m.target = l.target
      BY <1>3, <1>5 DEF Calls
    <3>3. Goto(p, After(l, c), m)
      BY <1>1, <2>2
    <3> HIDE DEF m, l, e, next
    <3> QED
      BY <2>2, <3>1, <3>2, <3>3 DEF next
  <2> QED
    BY <2>1, <2>2
<1>10. pc'[p] = next /\ local'[p] = m /\ Others(p)
  BY <1>9 DEF Goto, TypeOK, Others
<1>11. Fine(next, m, steps'[e], effect[e], RecordsLanded')
  <2>1. CASE l.rec = "invoked"
    <3>1. m.chain = l.chain \cup {l.step}
      BY <1>9, <2>1 DEF ChainAfter
    <3>2. /\ l.step = NSteps => next = "close"
          /\ l.step # NSteps => next = "invoke"
      BY <1>4, <1>8, <1>9, <2>1, EngineAssumption DEF After, Steps
    <3>3. /\ m.attempt = 1 /\ m.step = l.step + 1 => Fine("invoke", m, steps'[e], effect[e], RecordsLanded')
          /\ l.step = NSteps => Fine("close", m, steps'[e], effect[e], RecordsLanded')
      <4> HIDE DEF l, e, c, next
      <4> QED
        BY <1>3, <1>6, <1>7, <1>9, <2>1, <3>1, SuccessWork
    <3> QED
      BY <1>9, <3>2, <3>3
  <2>2. CASE l.rec \in {"failed", "compensated", "compensation_failed"}
    <3>1. next = Unwind(m.chain)
      BY <1>9, <2>2 DEF After
    <3>2. m \in Calls /\ m.chain = ChainAfter(l) /\ m.target = l.target
      BY <1>9
    <3> HIDE DEF l, e, c, next
    <3>3. l.rec = "failed" => Fine(Unwind(m.chain), m, steps'[e], effect[e], RecordsLanded')
      BY <1>3, <1>6, <1>7, <3>2, FailureWork
    <3>4. l.rec \in {"compensated", "compensation_failed"}
             => Fine(Unwind(m.chain), m, steps'[e], effect[e], RecordsLanded')
      BY <1>3, <1>6, <1>7, <3>2, UndoneRecorded
    <3> QED
      BY <2>2, <3>1, <3>3, <3>4
  <2> QED
    BY <1>4, <2>1, <2>2 DEF StepStates
<1> HIDE DEF l, e, c, next
<1> QED
  BY <1>1, <1>2, <1>3, <1>6, <1>7, <1>9, <1>10, <1>11, DriveWork DEF e, l

\* Claim: the winner takes up the records as they are.
LEMMA ClaimKeepsWork ==
    ASSUME TypeOK, TypeOK', Ownership, SnapIsSeen, WorkInv, NEW p \in Procs, Claim(p)
    PROVE  WorkInv'
<1> DEFINE l == local[p]
           e == local[p].exec
           st == steps[local[p].exec]
<1>1. /\ pc[p] = "claim" /\ ClaimAbandoned(e, l.seen)
      /\ UNCHANGED <<world, lostWrites>>
  BY DEF Claim
<1>2. pc[p] \in Judging /\ pc[p] \in Busy
  BY <1>1 DEF Judging, Busy
<1>3. /\ l \in Calls /\ e \in Execs /\ st \in St /\ effect[e] \in Ef
      /\ RecordsLanded \in BOOLEAN /\ RecordWork(st, effect[e], RecordsLanded)
  <2>1. l \in Calls /\ e \in Execs
    BY <1>2 DEF TypeOK, Ownership, Attached
  <2> QED
    BY <2>1 DEF TypeOK, St, Ef, RecordsLanded, WorkInv, ExecsWork
<1>4. status[e] = "running" /\ updatedAt[e] = l.seen
  BY <1>1 DEF ClaimAbandoned, Claimable
<1>5. l.snap = st
  BY <1>1, <1>4 DEF SnapIsSeen
<1>6. \A q \in Procs \ {p} : pc[q] \in Driving => local[q].exec # e
  BY <1>2, <1>3, <1>4 DEF Ownership, ClaimNeedsNoOwner, TypeOK
<1>7. HeldSteps(st) \in SUBSET Steps
  BY DEF HeldSteps
<1>8. PICK next, c, t :
         /\ Goto(p, next, [l EXCEPT !.chain = c, !.target = t])
         /\ \/ HeldSteps(st) = {} /\ next = "close" /\ c = {} /\ t = "failed"
            \/ Rebuildable(st) /\ next = "compensate" /\ c = HeldSteps(st) /\ t = "failed"
            \/ next = "close" /\ c = {} /\ t = "compensation_failed"
  BY <1>5 DEF Claim
<1>9. c \in SUBSET Steps /\ t \in Terminal /\ next \in Driving
  BY <1>7, <1>8 DEF Terminal, Driving
<1>10. PICK m : /\ Goto(p, next, m) /\ m \in Calls /\ m.exec = e /\ m.chain = c /\ m.target = t
  <2> DEFINE n == [l EXCEPT !.chain = c, !.target = t]
  <2>1. n \in Calls /\ n.exec = e /\ n.chain = c /\ n.target = t
    BY <1>3, <1>9 DEF Calls
  <2>2. Goto(p, next, n)
    BY <1>8
  <2> HIDE DEF n, l, e
  <2> QED
    BY <2>1, <2>2
<1>11. pc'[p] = next /\ local'[p] = m /\ Others(p)
  BY <1>10 DEF Goto, TypeOK, Others
<1>12. /\ status' = status /\ succeeded' = succeeded /\ steps' = steps /\ effect' = effect
       /\ RecordsLanded' = RecordsLanded
  BY <1>1 DEF ClaimAbandoned, world, RecordsLanded
<1>13. Fine(next, m, st, effect[e], RecordsLanded)
  <2> HIDE DEF l, e, st
  <2>1. /\ HeldSteps(st) = {} /\ m.target = "failed" => Fine("close", m, st, effect[e], RecordsLanded)
        /\ Rebuildable(st) /\ m.chain = HeldSteps(st) /\ m.target = "failed"
              => Fine("compensate", m, st, effect[e], RecordsLanded)
        /\ m.target = "compensation_failed" => Fine("close", m, st, effect[e], RecordsLanded)
    BY <1>3, <1>10, ClaimWork
  <2> QED
    BY <1>8, <1>10, <2>1
<1>14. Fine(pc'[p], local'[p], steps'[e], effect'[e], RecordsLanded')
  BY <1>11, <1>12, <1>13
<1> HIDE DEF l, e, st
<1> QED
  BY <1>3, <1>4, <1>6, <1>9, <1>10, <1>11, <1>12, <1>14, SoleDriverWork

\* Close: the status says what the driver knows.
LEMMA CloseKeepsWork ==
    ASSUME TypeOK, TypeOK', Ownership, WorkInv, NEW p \in Procs, Close(p)
    PROVE  WorkInv'
<1> DEFINE l == local[p]
           e == local[p].exec
<1>1. /\ pc[p] = "close" /\ Persist(UpdateStatus(e, l.target)) /\ (Again(p) \/ Return(p))
      /\ succeeded' = [succeeded EXCEPT ![e] = @ \/ l.target = "completed"]
      /\ effect' = effect
  BY DEF Close
<1>2. "close" \in Driving
  BY DEF Driving
<1>3. /\ l \in Calls /\ e \in Execs /\ RecordsLanded \in BOOLEAN
      /\ Fine("close", l, steps[e], effect[e], RecordsLanded)
  BY <1>1, <1>2, DriverFinds
<1>4. CloseWork(l, steps[e], effect[e], RecordsLanded)
  BY <1>3 DEF Fine, DriverWork
<1>5. status[e] = "running"
  BY <1>1, <1>2 DEF Ownership, OwnerRuns
<1>6. /\ \A f \in Execs \ {e} : succeeded'[f] = succeeded[f]
      /\ succeeded'[e] = (succeeded[e] \/ l.target = "completed")
  BY <1>1, <1>3 DEF TypeOK
<1>7. l.target \in Terminal
  BY <1>3 DEF Calls
<1>8. /\ steps' = steps /\ \A f \in Execs \ {e} : status'[f] = status[f]
      /\ RecordsLanded' => RecordsLanded
      /\ \/ status'[e] = l.target /\ RecordsLanded' = RecordsLanded
         \/ status'[e] = "running" /\ ~RecordsLanded'
  <2>1. CASE UpdateStatus(e, l.target) /\ UNCHANGED lostWrites
    BY <1>3, <2>1 DEF UpdateStatus, TypeOK, RecordsLanded
  <2>2. CASE LoseWrite
    <3>1. steps' = steps /\ status' = status /\ lostWrites' = lostWrites + 1
      BY <2>2 DEF LoseWrite, store
    <3> QED
      BY <1>5, <3>1, LandedOrNot
  <2> QED
    BY <1>1, <2>1, <2>2 DEF Persist
<1>9. ASSUME NEW f \in Execs PROVE StatusWork(f)'
  <2>1. StatusWork(f)
    BY DEF WorkInv, ExecsWork
  <2>2. CASE f = e
    <3>1. ~(RecordsLanded /\ succeeded[e])
      BY <1>5, <2>1, <2>2, RunningWork
    <3>2. status'[e] # "absent"
      BY <1>7, <1>8 DEF Terminal
    <3>3. status'[e] = "failed" =>
             Covered(steps'[e], effect'[e], {}) /\ (RecordsLanded' => NoBareBlocker(steps'[e], effect'[e]))
      BY <1>1, <1>4, <1>8 DEF CloseWork
    <3>4. RecordsLanded' /\ succeeded'[e] =>
             status'[e] = "completed" /\ \A s \in Steps : effect'[e][s] = "applied"
      BY <1>1, <1>4, <1>6, <1>8, <3>1 DEF CloseWork
    <3> HIDE DEF e, l
    <3> QED
      BY <2>2, <3>2, <3>3, <3>4 DEF StatusWork
  <2>3. CASE f # e
    BY <1>1, <1>6, <1>8, <2>1, <2>3 DEF StatusWork
  <2> QED
    BY <2>2, <2>3
<1> QED
  BY <1>1, <1>8, <1>9, TurnsFresh, QuietWork

\* Nothing but a lease changes.
LEMMA SteadyWork ==
    ASSUME WorkInv, UNCHANGED <<status, steps, effect, succeeded, pc, local, lostWrites>>
    PROVE  WorkInv'
BY DEF WorkInv, DriversWork, OpensFresh, ExecsWork, StatusWork, RecordsLanded

-----------------------------------------------------------------------------
(* The judge's copy of the steps.                                          *)

\* A record's steps move only with its stamp.
LEMMA StepsAreStamped ==
    ASSUME TypeOK, Attached, [Next]_vars, NEW f \in Execs
    PROVE  \/ updatedAt'[f] = updatedAt[f] /\ steps'[f] = steps[f]
           \/ updatedAt'[f] = updatedAt[f] + 1
<1>1. CASE UNCHANGED <<updatedAt, steps>>
  BY <1>1
<1>2. ASSUME NEW e \in Execs, Stamp(e), UNCHANGED steps
      PROVE  \/ updatedAt'[f] = updatedAt[f] /\ steps'[f] = steps[f]
             \/ updatedAt'[f] = updatedAt[f] + 1
  BY <1>2, StampMoves
<1>3. ASSUME NEW p \in Procs, Record(p), ~UNCHANGED <<updatedAt, steps>>
      PROVE  \/ updatedAt'[f] = updatedAt[f] /\ steps'[f] = steps[f]
             \/ updatedAt'[f] = updatedAt[f] + 1
  <2>1. local[p].exec \in Execs
    BY <1>3 DEF Record, Attached, Busy, Driving
  <2>2. AppendStep(local[p].exec, local[p].step, local[p].rec)
    BY <1>3 DEF Record, Persist, LoseWrite, store
  <2> QED
    BY <2>1, <2>2, StampMoves DEF AppendStep, TypeOK
<1>4. ASSUME NEW p \in Procs, Close(p), ~UNCHANGED <<updatedAt, steps>>
      PROVE  local[p].exec \in Execs /\ Stamp(local[p].exec) /\ UNCHANGED steps
  BY <1>4 DEF Close, Persist, LoseWrite, UpdateStatus, store, Attached, Busy, Driving
<1>5. ASSUME NEW p \in Procs, Claim(p) \/ ClaimUndecided(p), ~UNCHANGED <<updatedAt, steps>>
      PROVE  local[p].exec \in Execs /\ Stamp(local[p].exec) /\ UNCHANGED steps
  BY <1>5 DEF Claim, ClaimUndecided, ClaimAbandoned, store, Attached, Busy, Judging
<1>6. ASSUME NEW p \in Procs, NEW e \in Execs, Open(p, e) \/ OpenUnanswered(p, e)
      PROVE  Stamp(e) /\ UNCHANGED steps
  BY <1>6 DEF Open, OpenUnanswered, Create
<1>7. ASSUME NEW p \in Procs,
             \/ \E k \in Keys \cup {NoKey} : Run(p, k)
             \/ \E e \in Execs : Recover(p, e)
             \/ OpenConflict(p) \/ StoreError(p) \/ Replay(p) \/ GetSteps(p)
             \/ ClaimLost(p) \/ Crash(p)
             \/ InvokeSucceeds(p) \/ InvokeRetried(p) \/ InvokeFails(p)
             \/ InvokeUncompensated(p) \/ Canceled(p) \/ Compensate(p)
      PROVE  UNCHANGED <<updatedAt, steps>>
  BY <1>7 DEF Run, Recover, OpenConflict, StoreError, Replay, GetSteps, ClaimLost, Crash,
              InvokeSucceeds, InvokeRetried, InvokeFails, InvokeUncompensated, Canceled,
              Compensate, store
<1>8. ASSUME NEW e \in Execs, LeaseExpires(e) PROVE UNCHANGED <<updatedAt, steps>>
  BY <1>8 DEF LeaseExpires
<1>9. CASE UNCHANGED vars
  BY <1>9 DEF vars, store
<1> QED
  BY <1>1, <1>2, <1>3, <1>4, <1>5, <1>6, <1>7, <1>8, <1>9 DEF Next, Advance

\* A stamp only grows, so what a judge saw is never ahead of it.
LEMMA SeenIsPastKept ==
    ASSUME TypeOK, TypeOK', Attached, [Next]_vars, SeenIsPast
    PROVE  SeenIsPast'
<1> SUFFICES ASSUME NEW q \in Procs, pc'[q] \in Judging
             PROVE  local'[q].seen <= updatedAt'[local'[q].exec]
  BY DEF SeenIsPast
<1>1. Shape
  BY StepShapes
<1>2. \A f \in Execs : updatedAt[f] \in Nat /\ updatedAt'[f] \in Nat /\ updatedAt[f] <= updatedAt'[f]
  <2>1. \A f \in Execs : updatedAt[f] \in Nat /\ updatedAt'[f] \in Nat
    BY DEF TypeOK
  <2> QED
    BY <2>1, StepsAreStamped
<1>3. CASE pc[q] \in Judging /\ local'[q].exec = local[q].exec /\ local'[q].seen = local[q].seen
  <2>1. local[q].exec \in Execs /\ local[q].seen \in Nat
    BY <1>3, CallFields DEF TypeOK, Attached, Busy
  <2>2. local[q].seen <= updatedAt[local[q].exec]
    BY <1>3 DEF SeenIsPast
  <2> QED
    BY <1>2, <1>3, <2>1, <2>2
<1>4. CASE ~(pc[q] \in Judging /\ local'[q].exec = local[q].exec /\ local'[q].seen = local[q].seen)
  <2>1. PICK p \in Procs : Moves(p)
    BY <1>1, <1>4 DEF Shape, Expires
  <2>2. q = p
    BY <1>4, <2>1 DEF Moves, Others
  <2>3. PICK e \in Execs : Judges(p, e)
    BY <1>4, <2>1, <2>2 DEF Moves, Starts, Reads, Wins, Drives, Closes, Leaves, Busy, Judging, Driving
  <2> QED
    BY <1>2, <2>2, <2>3 DEF Judges
<1> QED
  BY <1>3, <1>4

\* Whoever stands before the claim has a copy that is as old as its stamp.
LEMMA SnapIsSeenKept ==
    ASSUME TypeOK, TypeOK', Attached, SeenIsPast, [Next]_vars, SnapIsSeen
    PROVE  SnapIsSeen'
<1> SUFFICES ASSUME NEW q \in Procs, pc'[q] = "claim", local'[q].seen = updatedAt'[local'[q].exec]
             PROVE  local'[q].snap = steps'[local'[q].exec]
  BY DEF SnapIsSeen
<1>1. CASE pc[q] = "claim" /\ local'[q] = local[q]
  <2>1. local[q].exec \in Execs /\ local[q].seen \in Nat
    BY <1>1, CallFields DEF TypeOK, Attached, Busy, Judging
  <2>2. local[q].seen <= updatedAt[local[q].exec] /\ updatedAt[local[q].exec] \in Nat
    BY <1>1, <2>1 DEF SeenIsPast, Judging, TypeOK
  <2>3. updatedAt'[local[q].exec] = updatedAt[local[q].exec] /\ steps'[local[q].exec] = steps[local[q].exec]
    BY <1>1, <2>1, <2>2, StepsAreStamped
  <2> QED
    BY <1>1, <2>3 DEF SnapIsSeen
<1>2. ASSUME NEW e \in Execs, Recover(q, e)
      PROVE  local'[q].snap = steps'[local'[q].exec]
  <2>1. local'[q] = [Idle EXCEPT !.mode = "recover", !.exec = e, !.seen = updatedAt[e], !.snap = steps[e]]
    BY <1>2 DEF Recover, Goto, TypeOK
  <2>2. local'[q].snap = steps[e] /\ local'[q].exec = e
    BY <2>1 DEF Idle
  <2> QED
    BY <1>2, <2>2 DEF Recover, store
<1>3. CASE GetSteps(q)
  <2>1. local[q] \in Calls /\ local'[q] = [local[q] EXCEPT !.snap = steps[local[q].exec]]
    BY <1>3 DEF GetSteps, Goto, TypeOK
  <2>2. local'[q].snap = steps[local[q].exec] /\ local'[q].exec = local[q].exec
    BY <2>1 DEF Calls
  <2> QED
    BY <1>3, <2>2 DEF GetSteps, store
<1>4. ASSUME NEW p \in Procs, Others(p), pc'[p] # "claim" \/ p # q
      PROVE  pc[q] = "claim" /\ local'[q] = local[q]
  BY <1>4 DEF Others
<1>5. \A p \in Procs : \A next, l : Goto(p, next, l) => pc'[p] = next /\ Others(p)
  BY DEF Goto, TypeOK, Others
<1>6. ASSUME NEW p \in Procs, Again(p) \/ Return(p)
      PROVE  Others(p) /\ pc'[p] # "claim"
  BY <1>5, <1>6 DEF Again, Return
<1>7. ASSUME NEW p \in Procs,
             \/ \E k \in Keys \cup {NoKey} : Run(p, k)
             \/ \E e \in Execs : Open(p, e) \/ OpenUnanswered(p, e)
             \/ OpenConflict(p) \/ StoreError(p) \/ Replay(p)
             \/ ClaimLost(p) \/ ClaimUndecided(p) \/ Crash(p) \/ Close(p)
      PROVE  Others(p) /\ pc'[p] # "claim"
  <2>1. CASE Again(p) \/ Return(p)
    BY <1>6, <2>1
  <2>2. CASE ~(Again(p) \/ Return(p))
    <3>1. ~(\E e \in Execs : OpenUnanswered(p, e)) /\ ~StoreError(p) /\ ~ClaimLost(p)
          /\ ~ClaimUndecided(p) /\ ~Crash(p) /\ ~Close(p)
      BY <2>2 DEF OpenUnanswered, StoreError, ClaimLost, ClaimUndecided, Crash, Close
    <3>2. ASSUME NEW k \in Keys \cup {NoKey}, Run(p, k) PROVE Others(p) /\ pc'[p] # "claim"
      BY <1>5, <3>2 DEF Run
    <3>3. ASSUME NEW e \in Execs, Open(p, e) PROVE Others(p) /\ pc'[p] # "claim"
      BY <1>5, <3>3 DEF Open
    <3>4. CASE OpenConflict(p)
      BY <1>5, <3>4 DEF OpenConflict
    <3>5. CASE Replay(p)
      <4>1. PICK e \in Execs :
               Goto(p, "get", [local[p] EXCEPT !.exec = e, !.mode = "judge", !.seen = updatedAt[e]])
        BY <2>2, <3>5 DEF Replay, Holder
      <4> QED
        BY <1>5, <4>1
    <3> QED
      BY <1>7, <3>1, <3>2, <3>3, <3>4, <3>5
  <2> QED
    BY <2>1, <2>2
<1>8. ASSUME NEW p \in Procs,
             \/ Claim(p) \/ InvokeSucceeds(p) \/ InvokeRetried(p) \/ InvokeFails(p)
             \/ InvokeUncompensated(p) \/ Compensate(p)
      PROVE  Others(p) /\ pc'[p] # "claim"
  <2>1. CASE Claim(p)
    BY <1>5, <2>1 DEF Claim
  <2>2. CASE Compensate(p)
    BY <1>5, <2>2 DEF Compensate
  <2>3. CASE InvokeSucceeds(p) \/ InvokeRetried(p)
    BY <1>5, <2>3 DEF InvokeSucceeds, InvokeRetried
  <2>4. CASE InvokeFails(p) \/ InvokeUncompensated(p)
    BY <1>5, <2>4 DEF InvokeFails, InvokeUncompensated
  <2> QED
    BY <1>8, <2>1, <2>2, <2>3, <2>4
<1>9. ASSUME NEW p \in Procs, Canceled(p) \/ Record(p)
      PROVE  Others(p) /\ pc'[p] # "claim"
  <2>1. \A c : Unwind(c) # "claim"
    BY DEF Unwind
  <2>2. CASE Canceled(p)
    BY <1>5, <2>1, <2>2 DEF Canceled
  <2>3. CASE Record(p)
    <3>1. \A l, c : After(l, c) # "claim"
      BY <2>1 DEF After
    <3> QED
      BY <1>5, <2>3, <3>1 DEF Record
  <2> QED
    BY <1>9, <2>2, <2>3
<1>10. ASSUME NEW p \in Procs, GetSteps(p) \/ \E e \in Execs : Recover(p, e)
       PROVE  Others(p)
  BY <1>5, <1>10 DEF GetSteps, Recover
<1>11. CASE UNCHANGED <<pc, local>>
  BY <1>1, <1>11
<1>12. ASSUME NEW e \in Execs, LeaseExpires(e) PROVE UNCHANGED <<pc, local>>
  BY <1>12 DEF LeaseExpires
<1>13. CASE UNCHANGED vars
  BY <1>11, <1>13 DEF vars
<1> QED
  BY <1>1, <1>2, <1>3, <1>4, <1>7, <1>8, <1>9, <1>10, <1>11, <1>12, <1>13 DEF Next, Advance

-----------------------------------------------------------------------------
(* The key.                                                                *)

\* Create takes a free key, and a key is given up only with "failed".
LEMMA KeyInvKept ==
    ASSUME TypeOK, Ownership, KeyInv, [Next]_vars
    PROVE  KeyInv'
<1>1. CASE UNCHANGED <<status, key, request>>
  BY <1>1 DEF KeyInv
<1>2. ASSUME NEW p \in Procs, NEW e \in Execs, Open(p, e) \/ OpenUnanswered(p, e)
      PROVE  KeyInv'
  <2>1. Create(e, local[p].key)
    BY <1>2 DEF Open, OpenUnanswered
  <2>2. PICK k : k = local[p].key
    OBVIOUS
  <2>3. /\ status'[e] = "running" /\ key'[e] = k /\ request'[e] = k
        /\ \A f \in Execs \ {e} : status'[f] = status[f] /\ key'[f] = key[f] /\ request'[f] = request[f]
    BY <2>1, <2>2 DEF Create, TypeOK
  <2>4. k = NoKey \/ \A f \in Execs : status[f] # "absent" => key[f] # k
    BY <2>1, <2>2 DEF Create, Holder
  <2>5. \A f \in Execs : status'[f] = "absent" => request'[f] = NoKey
    BY <2>3 DEF KeyInv
  <2>6. \A f \in Execs : status'[f] \notin {"absent", "failed"} => key'[f] = request'[f]
    BY <2>3 DEF KeyInv
  <2>7. \A f, g \in Execs :
           f # g /\ status'[f] # "absent" /\ status'[g] # "absent" /\ key'[f] # NoKey => key'[f] # key'[g]
    BY <2>3, <2>4 DEF KeyInv
  <2> QED
    BY <2>5, <2>6, <2>7 DEF KeyInv
<1>3. ASSUME NEW p \in Procs, Close(p), ~UNCHANGED <<status, key, request>>
      PROVE  KeyInv'
  <2>1. PICK e : e = local[p].exec
    OBVIOUS
  <2>2. PICK t : t = local[p].target
    OBVIOUS
  <2>3. e \in Execs /\ status[e] = "running" /\ t \in Terminal
    BY <1>3, <2>1, <2>2, CallFields
       DEF Close, Ownership, Attached, OwnerRuns, Busy, Driving, TypeOK
  <2>4. UpdateStatus(e, t) /\ request' = request
    BY <1>3, <2>1, <2>2 DEF Close, Persist, LoseWrite, store
  <2>5. /\ status'[e] = t /\ \A f \in Execs \ {e} : status'[f] = status[f] /\ key'[f] = key[f]
        /\ t = "failed" => key'[e] = NoKey
        /\ t # "failed" => key'[e] = key[e]
    BY <2>3, <2>4 DEF UpdateStatus, TypeOK
  <2>6. t # "absent"
    BY <2>3 DEF Terminal
  <2>7. \A f \in Execs : status'[f] = "absent" => request'[f] = NoKey
    BY <2>4, <2>5, <2>6 DEF KeyInv
  <2>8. \A f \in Execs : status'[f] \notin {"absent", "failed"} => key'[f] = request'[f]
    BY <2>3, <2>4, <2>5 DEF KeyInv
  <2>9. \A f, g \in Execs :
           f # g /\ status'[f] # "absent" /\ status'[g] # "absent" /\ key'[f] # NoKey => key'[f] # key'[g]
    BY <2>3, <2>5 DEF KeyInv
  <2> QED
    BY <2>7, <2>8, <2>9 DEF KeyInv
<1>4. ASSUME NEW p \in Procs,
             \/ \E k \in Keys \cup {NoKey} : Run(p, k)
             \/ \E e \in Execs : Recover(p, e)
             \/ OpenConflict(p) \/ StoreError(p) \/ Replay(p) \/ GetSteps(p)
             \/ ClaimLost(p) \/ Crash(p) \/ Claim(p) \/ ClaimUndecided(p)
             \/ InvokeSucceeds(p) \/ InvokeRetried(p) \/ InvokeFails(p)
             \/ InvokeUncompensated(p) \/ Canceled(p) \/ Compensate(p)
      PROVE  UNCHANGED <<status, key, request>>
  BY <1>4 DEF Run, Recover, OpenConflict, StoreError, Replay, GetSteps, ClaimLost, Crash,
              Claim, ClaimUndecided, ClaimAbandoned,
              InvokeSucceeds, InvokeRetried, InvokeFails, InvokeUncompensated, Canceled,
              Compensate, store, world
<1>5. ASSUME NEW p \in Procs, Record(p) PROVE UNCHANGED <<status, key, request>>
  BY <1>5 DEF Record, Persist, AppendStep, LoseWrite, store, world
<1>6. ASSUME NEW e \in Execs, LeaseExpires(e) PROVE UNCHANGED <<status, key, request>>
  BY <1>6 DEF LeaseExpires, world
<1>7. CASE UNCHANGED vars
  BY <1>1, <1>7 DEF vars, store, world
<1> QED
  BY <1>1, <1>2, <1>3, <1>4, <1>5, <1>6, <1>7 DEF Next, Advance

-----------------------------------------------------------------------------
(* The invariants hold.                                                    *)

\* The first state: nothing was opened and nothing was touched.
LEMMA InitWork == Init => SeenIsPast /\ SnapIsSeen /\ WorkInv /\ KeyInv
<1> SUFFICES ASSUME Init PROVE SeenIsPast /\ SnapIsSeen /\ WorkInv /\ KeyInv
  OBVIOUS
<1>1. \A p \in Procs : pc[p] = "idle"
  BY DEF Init
<1>2. SeenIsPast /\ SnapIsSeen
  BY <1>1 DEF SeenIsPast, SnapIsSeen, Judging
<1>3. DriversWork /\ OpensFresh
  BY <1>1 DEF DriversWork, OpensFresh, Driving
<1>4. \A e \in Execs, s \in Steps : steps[e][s] = "none" /\ effect[e][s] = "none"
  BY DEF Init, NoSteps
<1>5. \A e \in Execs : status[e] = "absent" /\ succeeded[e] = FALSE /\ request[e] = NoKey
  BY DEF Init
<1>6. \A e \in Execs : RecordWork(steps[e], effect[e], RecordsLanded)
  BY <1>4, EngineAssumption DEF RecordWork, Bare
<1>7. \A e \in Execs : StatusWork(e)
  BY <1>4, <1>5 DEF StatusWork
<1>8. KeyInv
  BY <1>5 DEF KeyInv
<1> QED
  BY <1>2, <1>3, <1>6, <1>7, <1>8 DEF WorkInv, ExecsWork

\* Every step of the engine keeps what the drivers, the records and the statuses say.
LEMMA WorkInvKept ==
    ASSUME TypeOK, TypeOK', Ownership, SnapIsSeen, WorkInv, [Next]_vars
    PROVE  WorkInv'
<1>1. CASE UNCHANGED vars
  BY <1>1, SteadyWork DEF vars, store, world
<1>2. ASSUME NEW e \in Execs, LeaseExpires(e) PROVE WorkInv'
  BY <1>2, SteadyWork DEF LeaseExpires, world
<1>3. ASSUME NEW p \in Procs, NEW e \in Execs, Open(p, e) \/ OpenUnanswered(p, e)
      PROVE  WorkInv'
  BY <1>3, OpenKeepsWork, OpenUnansweredKeepsWork
<1>4. ASSUME NEW p \in Procs,
             \/ \E k \in Keys \cup {NoKey} : Run(p, k)
             \/ \E e \in Execs : Recover(p, e)
             \/ OpenConflict(p) \/ StoreError(p) \/ Replay(p) \/ GetSteps(p)
             \/ ClaimLost(p) \/ ClaimUndecided(p) \/ Crash(p)
      PROVE  WorkInv'
  BY <1>4, QuietSteps
<1>5. ASSUME NEW p \in Procs,
             \/ InvokeSucceeds(p) \/ InvokeRetried(p) \/ InvokeFails(p)
             \/ InvokeUncompensated(p) \/ Canceled(p)
      PROVE  WorkInv'
  BY <1>5, InvokedKeepsWork, RetriedKeepsWork, CanceledKeepsWork
<1>6. ASSUME NEW p \in Procs, Claim(p) \/ Record(p) \/ Compensate(p) \/ Close(p)
      PROVE  WorkInv'
  BY <1>6, ClaimKeepsWork, RecordKeepsWork, CompensateKeepsWork, CloseKeepsWork
<1> QED
  BY <1>1, <1>2, <1>3, <1>4, <1>5, <1>6 DEF Next, Advance

\* Where no live call outlasts the lease, all of it holds in every reachable state.
LEMMA WorkHolds ==
    LeaseCoversRun => (Spec => [](TypeOK /\ Ownership /\ SnapIsSeen /\ WorkInv /\ KeyInv))
<1> SUFFICES ASSUME LeaseCoversRun
             PROVE  Spec => [](TypeOK /\ Ownership /\ SnapIsSeen /\ WorkInv /\ KeyInv)
  OBVIOUS
<1>1. Spec => [](TypeOK /\ Ownership)
  BY OwnershipHolds
<1>2. Init => SnapIsSeen /\ WorkInv /\ KeyInv
  BY InitWork
<1>3. /\ TypeOK /\ Ownership /\ SnapIsSeen /\ WorkInv /\ KeyInv /\ [Next]_vars
      /\ TypeOK'
      => SnapIsSeen' /\ WorkInv' /\ KeyInv'
  BY SnapIsSeenKept, WorkInvKept, KeyInvKept DEF Ownership
<1> QED
  BY <1>1, <1>2, <1>3, PTL DEF Spec

-----------------------------------------------------------------------------
(* What the engine leaves behind.                                          *)

\* recover.go reads the steps in one call and claims the record in a later one.
\* Whatever the lease, a claim that is won decides on the steps as they are:
\* every write of a step moves the stamp that the claim compares.
THEOREM ClaimIsCurrent == Spec => []ClaimSeesCurrentSteps
<1> DEFINE Inv == TypeOK /\ Attached /\ SeenIsPast /\ SnapIsSeen
<1>1. Init => Inv
  BY InitTyped, InitWork DEF Attached
<1>2. Inv /\ [Next]_vars => Inv'
  BY StepShapes, AttachedKept, SeenIsPastKept, SnapIsSeenKept
<1>3. Inv => ClaimSeesCurrentSteps
  BY DEF SnapIsSeen, ClaimSeesCurrentSteps, Claimable
<1> HIDE DEF Inv
<1> QED
  BY <1>1, <1>2, <1>3, PTL DEF Spec

\* A caller that was told "completed" finds every side effect in place, as long as
\* no record write has failed: no recovery takes up the execution afterwards.
THEOREM SuccessIsKept == LeaseCoversRun => (Spec => []SuccessStands)
<1>1. WorkInv => SuccessStands
  BY DEF WorkInv, ExecsWork, StatusWork, SuccessStands, Standing
<1> QED
  BY <1>1, WorkHolds, PTL

\* What "failed" may leave behind in any workflow: the side effect of a step that has
\* no record, or one whose record says that it failed.
FailedLeavesNoHeldWork ==
    \A e \in Execs : status[e] = "failed" =>
        \A s \in Standing(e) : steps[e][s] \in {"none", "failed"}

\* Nothing that the record calls invoked or half compensated stands behind the
\* status that frees the key, retried steps and lost writes included.
THEOREM FailedIsClean == LeaseCoversRun => (Spec => []FailedLeavesNoHeldWork)
<1>1. WorkInv => FailedLeavesNoHeldWork
  BY DEF WorkInv, ExecsWork, StatusWork, Covered, FailedLeavesNoHeldWork, Standing
<1> QED
  BY <1>1, WorkHolds, PTL

\* Where the engine retries no step and no step reports ErrUncompensated, "failed"
\* leaves nothing that has a record.
THEOREM FailedLeavesNothing ==
    LeaseCoversRun /\ SingleAttempts => (Spec => []FailedLeavesNoRecordedWork)
<1> SUFFICES ASSUME LeaseCoversRun, SingleAttempts PROVE Spec => []FailedLeavesNoRecordedWork
  OBVIOUS
<1>1. WorkInv => FailedLeavesNoRecordedWork
  BY DEF WorkInv, ExecsWork, StatusWork, RecordWork, Covered, FailedLeavesNoRecordedWork, Standing
<1> QED
  BY <1>1, WorkHolds, PTL

\* checkRecoveryBoundary: while no record write has failed, no execution is closed as
\* failed over the side effect of a blocker that has a step before it.
THEOREM BlockerIsKept ==
    LeaseCoversRun /\ SingleAttempts /\ 1 \notin Blockers
        => (Spec => []RecordedBlockerNeverReleased)
<1> SUFFICES ASSUME LeaseCoversRun, SingleAttempts, 1 \notin Blockers
             PROVE  Spec => []RecordedBlockerNeverReleased
  OBVIOUS
<1>1. WorkInv => RecordedBlockerNeverReleased
  <2> SUFFICES ASSUME WorkInv, RecordsLanded, NEW e \in Execs, status[e] = "failed",
                      NEW s \in Blockers, effect[e][s] = "applied"
               PROVE  FALSE
    BY DEF RecordedBlockerNeverReleased, BlockerNeverReleased, Standing
  <2>1. s \in Steps /\ s # 1
    BY EngineAssumption
  <2>2. /\ Covered(steps[e], effect[e], {}) /\ NoBareBlocker(steps[e], effect[e])
        /\ RecordWork(steps[e], effect[e], RecordsLanded)
    BY DEF WorkInv, ExecsWork, StatusWork
  <2>3. steps[e][s] = "none"
    BY <2>1, <2>2 DEF Covered, RecordWork
  <2> QED
    BY <2>1, <2>2, <2>3 DEF NoBareBlocker, Bare
<1> QED
  BY <1>1, WorkHolds, PTL

\* "gobit stuck" lists every abandoned execution with recorded work that stands.
THEOREM HangingIsListed ==
    LeaseCoversRun /\ SingleAttempts => (Spec => []HangingWorkIsListed)
<1> SUFFICES ASSUME LeaseCoversRun, SingleAttempts PROVE Spec => []HangingWorkIsListed
  OBVIOUS
<1>1. TypeOK /\ WorkInv => HangingWorkIsListed
  <2> SUFFICES ASSUME TypeOK, WorkInv, NEW e \in Execs, status[e] = "running", expired[e],
                      NEW s \in Standing(e), steps[e][s] # "none"
               PROVE  HeldSteps(steps[e]) # {}
    BY DEF HangingWorkIsListed, Stuck
  <2>1. s \in Steps /\ effect[e][s] = "applied"
    BY DEF Standing
  <2>2. RecordWork(steps[e], effect[e], RecordsLanded)
    BY DEF WorkInv, ExecsWork
  <2>3. steps[e][s] \in StepStates \cup {"none"}
    BY <2>1 DEF TypeOK
  <2>4. Held(steps[e][s])
    BY <2>1, <2>2, <2>3 DEF RecordWork, Held, StepStates
  <2> QED
    BY <2>1, <2>4 DEF HeldSteps
<1> QED
  BY <1>1, WorkHolds, PTL

\* A key does its work once, over every call, replay, recovery and crash of any number
\* of processes, while no record write has failed.
THEOREM KeyIsWorkedOnce ==
    LeaseCoversRun /\ SingleAttempts => (Spec => []KeyWorksOnce)
<1> SUFFICES ASSUME LeaseCoversRun, SingleAttempts PROVE Spec => []KeyWorksOnce
  OBVIOUS
<1>1. WorkInv /\ KeyInv => KeyWorksOnce
  <2> SUFFICES ASSUME WorkInv, KeyInv, RecordsLanded, NEW e \in Execs, NEW f \in Execs, e # f,
                      request[e] # NoKey, request[e] = request[f], succeeded[e],
                      NEW s \in Standing(f)
               PROVE  steps[f][s] = "none"
    BY DEF KeyWorksOnce
  <2>1. status[e] = "completed" /\ key[e] = request[e]
    BY DEF WorkInv, ExecsWork, StatusWork, KeyInv
  <2>2. status[f] # "absent"
    BY DEF KeyInv
  <2>3. status[f] = "failed"
    BY <2>1, <2>2 DEF KeyInv
  <2> QED
    BY <2>3 DEF WorkInv, ExecsWork, StatusWork, RecordWork, Covered, Standing
<1> QED
  BY <1>1, WorkHolds, PTL

\* The chain is walked backwards, on the normal path and from the record alike: no side
\* effect is undone before that of a later step that the record calls invoked, while no
\* record write has failed.
THEOREM UndoneBackwards == LeaseCoversRun => (Spec => UndoneInReverse)
<1> SUFFICES ASSUME LeaseCoversRun PROVE Spec => UndoneInReverse
  OBVIOUS
<1> DEFINE Ordered == RecordsLanded => \A e \in Execs, s \in Steps :
              effect[e][s] = "applied" /\ effect'[e][s] = "undone" =>
                  \A t \in Standing(e) : t > s => steps[e][t] # "invoked"
<1>1. TypeOK /\ Ownership /\ WorkInv /\ [Next]_vars => [Ordered]_effect
  <2> SUFFICES ASSUME TypeOK, Ownership, WorkInv, [Next]_vars, RecordsLanded,
                      NEW e \in Execs, NEW s \in Steps,
                      effect[e][s] = "applied", effect'[e][s] = "undone",
                      NEW t \in Standing(e), t > s, steps[e][t] = "invoked"
               PROVE  FALSE
    OBVIOUS
  <2>1. ASSUME NEW p \in Procs,
               \/ InvokeSucceeds(p) \/ InvokeRetried(p) \/ InvokeFails(p) \/ InvokeUncompensated(p)
        PROVE  FALSE
    <3>1. local[p] \in Calls /\ local[p].exec \in Execs /\ local[p].step \in Steps
      BY <2>1, DriverFinds, CallFields
         DEF InvokeSucceeds, InvokeRetried, InvokeFails, InvokeUncompensated, Driving
    <3>2. UNCHANGED effect \/ SetEffect(local[p].exec, local[p].step, "applied")
      BY <2>1 DEF InvokeSucceeds, InvokeRetried, InvokeFails, InvokeUncompensated, MaybeApplied
    <3>3. effect'[e] = effect[e] \/ effect'[e] = [effect[e] EXCEPT ![local[p].step] = "applied"]
      <4>1. CASE UNCHANGED effect
        BY <4>1
      <4>2. CASE SetEffect(local[p].exec, local[p].step, "applied")
        <5>1. PICK x \in Execs, u \in Steps : x = local[p].exec /\ u = local[p].step /\ SetEffect(x, u, "applied")
          BY <3>1, <4>2
        <5>2. effect'[x] = [effect[x] EXCEPT ![u] = "applied"] /\ \A f \in Execs \ {x} : effect'[f] = effect[f]
          BY <5>1, EffectMoves
        <5> QED
          BY <5>1, <5>2
      <4> QED
        BY <3>2, <4>1, <4>2
    <3>4. effect[e] \in Ef
      BY DEF TypeOK, Ef
    <3> QED
      BY <3>1, <3>3, <3>4 DEF Ef
  <2>2. ASSUME NEW p \in Procs, Compensate(p) PROVE FALSE
    <3> DEFINE l == local[p]
               x == local[p].exec
    <3>1. pc[p] = "compensate" /\ pc[p] \in Driving
      BY <2>2 DEF Compensate, Driving
    <3>2. l \in Calls /\ x \in Execs /\ BackwardWork(l, steps[x], effect[x], RecordsLanded)
      BY <3>1, DriverFinds DEF Fine, DriverWork
    <3>3. PICK u \in Latest(l.chain) : UNCHANGED effect \/ SetEffect(x, u, "undone")
      BY <2>2 DEF Compensate
    <3>4. u \in Steps /\ \A v \in l.chain : v <= u
      BY <3>2, <3>3 DEF Latest, Calls
    <3>5. e = x /\ s = u
      BY <3>2, <3>3, <3>4 DEF SetEffect, TypeOK
    <3>6. t \in Steps /\ effect[x][t] = "applied" /\ steps[x][t] = "invoked"
      BY <3>5 DEF Standing
    <3>7. t \in l.chain
      BY <3>2, <3>6 DEF BackwardWork
    <3> QED
      BY <3>4, <3>5, <3>6, <3>7, EngineAssumption DEF Steps
  <2>3. ASSUME NEW p \in Procs,
               \/ \E k \in Keys \cup {NoKey} : Run(p, k)
               \/ \E f \in Execs : Recover(p, f) \/ Open(p, f) \/ OpenUnanswered(p, f)
               \/ OpenConflict(p) \/ StoreError(p) \/ Replay(p) \/ GetSteps(p)
               \/ Claim(p) \/ ClaimLost(p) \/ ClaimUndecided(p)
               \/ Canceled(p) \/ Record(p) \/ Close(p) \/ Crash(p)
        PROVE  UNCHANGED effect
    BY <2>3 DEF Run, Recover, Open, OpenUnanswered, OpenConflict, StoreError, Replay, GetSteps,
                Claim, ClaimLost, ClaimUndecided, Canceled, Record, Close, Crash, world
  <2>4. ASSUME NEW f \in Execs, LeaseExpires(f) PROVE UNCHANGED effect
    BY <2>4 DEF LeaseExpires, world
  <2>5. CASE UNCHANGED vars
    BY <2>5 DEF vars, world
  <2> QED
    BY <2>1, <2>2, <2>3, <2>4, <2>5 DEF Next, Advance
<1>2. Spec => [](TypeOK /\ Ownership /\ WorkInv)
  BY WorkHolds, PTL
<1> QED
  BY <1>1, <1>2, PTL DEF Spec, UndoneInReverse

=============================================================================
