---------------------------- MODULE OutboxProofs ----------------------------
(***************************************************************************)
(* Theorems about Outbox, for any number of relays and events, any batch   *)
(* limit, any ceiling of attempts, and any number of faults and repairs.   *)
(***************************************************************************)
EXTENDS Outbox, FiniteSetTheorems, WellFoundedInduction, TLAPS

-----------------------------------------------------------------------------
(* The inductive invariant.                                                *)

\* The batch of a pass: what is left is held and comes after what is marked;
\* a process that lost its session holds nothing.
BatchInOrder ==
    \A r \in Relays :
        /\ pc[r] \in {"publish", "commit"} => todo[r] \subseteq locked[r]
        /\ pc[r] \in {"publish", "orphan"} => todo[r] # {}
        /\ pc[r] = "commit" => todo[r] = {}
        /\ pc[r] \in {"idle", "report", "orphan"} => locked[r] = {}
        /\ pc[r] \in {"idle", "report"} => todo[r] = {}
        /\ \A e \in Events : staged[r][e] # "none" =>
              e \in locked[r] /\ \A f \in todo[r] : e < f

\* A row that is held is one the relay may still mark, and it is held once.
RowsHeld ==
    \A r \in Relays : \A e \in locked[r] :
        /\ row[e] = "pending" /\ due[e]
        /\ \A q \in Relays : e \in locked[q] => q = r

\* What a relay is still sending was written.
SendsWhatWasWritten == \A r \in Relays : \A e \in todo[r] : row[e] # "absent"

\* A mark "published" stands for a publish the bus accepted.
MarkedWasSent ==
    \A r \in Relays : \A e \in Events : staged[r][e] = "published" => sent[e] > 0

\* The attempts column counts failures, and the ceiling is what gives a row up.
AttemptsCounted ==
    \A e \in Events :
        /\ attempts[e] <= errors[e]
        /\ \A r \in Relays : staged[r][e] = "failed" => attempts[e] + 1 <= errors[e]
        /\ row[e] = "pending" => attempts[e] < MaxAttempts
        /\ row[e] = "dead" => attempts[e] = MaxAttempts

\* The processes that may still send e without a transaction around it
Orphans(e) == {r \in Relays : pc[r] = "orphan" /\ e \in todo[r]}

Closing(e) == row[e] = "published" \/ \E r \in Relays : staged[r][e] = "published"

\* Every publish but the one that closes the row is paid for by a fault, and so
\* is one that is still in flight.
SendsPaidFor ==
    \A e \in Events :
        /\ IsFiniteSet(Orphans(e))
        /\ (\A s \in Stalled : s <= e) =>
              sent[e] + Cardinality(Orphans(e)) <= faults + (IF Closing(e) THEN 1 ELSE 0)

PassInv ==
    /\ TypeOK
    /\ BatchInOrder
    /\ RowsHeld
    /\ SendsWhatWasWritten
    /\ MarkedWasSent
    /\ AttemptsCounted

OutboxInv == PassInv /\ SendsPaidFor

-----------------------------------------------------------------------------
(* Facts about the operators of a pass.                                    *)

\* A nonempty set of naturals has a least element.
LEMMA LeastExists ==
    ASSUME NEW S \in SUBSET Nat, S # {}
    PROVE  \E e \in S : \A f \in S : e <= f
<1>1. PICK e \in S : \A f \in S : ~(<<f, e>> \in OpToRel(<, Nat))
  BY NatLessThanWellFounded, WFMin, Zenon
<1>2. \A f \in S : ~(f < e)
  BY <1>1 DEF OpToRel
<1> QED
  BY <1>2

\* The event being published is the oldest of the rest of the batch.
LEMMA CurrentIsLeast ==
    ASSUME TypeOK, NEW r \in Relays, todo[r] # {}
    PROVE  Current(r) \in todo[r] /\ \A f \in todo[r] : Current(r) <= f
<1>1. todo[r] \in SUBSET Nat
  BY OutboxAssumption DEF TypeOK, Events
<1>2. \E e \in todo[r] : \A f \in todo[r] : e <= f
  BY <1>1, LeastExists
<1> QED
  BY <1>2 DEF Current

\* A transaction that ends gives back what it held, and nothing else moves.
LEMMA RollbackKeeps ==
    ASSUME PassInv, NEW r \in Relays, NEW next \in {"idle", "report", "orphan"},
           Rollback(r, next), next = "orphan" => pc[r] = "publish"
    PROVE  /\ pc' \in [Relays -> {"idle", "publish", "orphan", "commit", "report"}]
           /\ locked' \in [Relays -> SUBSET Events]
           /\ todo' \in [Relays -> SUBSET Events]
           /\ staged' \in [Relays -> [Events -> {"none", "published", "failed"}]]
           /\ BatchInOrder'
           /\ \A q \in Relays : todo'[q] \subseteq todo[q]
           /\ \A q \in Relays : q # r =>
                  pc'[q] = pc[q] /\ locked'[q] = locked[q]
                  /\ todo'[q] = todo[q] /\ staged'[q] = staged[q]
           /\ pc'[r] = next /\ locked'[r] = {} /\ staged'[r] = Clean
           /\ next # "orphan" => todo'[r] = {}
<1>1. next = "orphan" => Current(r) \in todo[r]
  BY CurrentIsLeast DEF PassInv, BatchInOrder
<1>2. Clean \in [Events -> {"none", "published", "failed"}] /\ \A e \in Events : Clean[e] = "none"
  BY DEF Clean
<1>3. /\ pc' \in [Relays -> {"idle", "publish", "orphan", "commit", "report"}]
      /\ locked' \in [Relays -> SUBSET Events]
      /\ staged' \in [Relays -> [Events -> {"none", "published", "failed"}]]
  BY <1>2 DEF PassInv, TypeOK, Rollback
<1>4. todo' \in [Relays -> SUBSET Events]
  BY <1>1 DEF PassInv, TypeOK, Rollback
<1>5. /\ pc'[r] = next /\ locked'[r] = {} /\ staged'[r] = Clean
      /\ todo'[r] = IF next = "orphan" THEN {Current(r)} ELSE {}
  BY DEF PassInv, TypeOK, Rollback
<1>6. \A q \in Relays : q # r =>
          pc'[q] = pc[q] /\ locked'[q] = locked[q]
          /\ todo'[q] = todo[q] /\ staged'[q] = staged[q]
  BY DEF PassInv, TypeOK, Rollback
<1>7. BatchInOrder'
  <2> SUFFICES ASSUME NEW q \in Relays
               PROVE  /\ pc'[q] \in {"publish", "commit"} => todo'[q] \subseteq locked'[q]
                      /\ pc'[q] \in {"publish", "orphan"} => todo'[q] # {}
                      /\ pc'[q] = "commit" => todo'[q] = {}
                      /\ pc'[q] \in {"idle", "report", "orphan"} => locked'[q] = {}
                      /\ pc'[q] \in {"idle", "report"} => todo'[q] = {}
                      /\ \A e \in Events : staged'[q][e] # "none" =>
                            e \in locked'[q] /\ \A f \in todo'[q] : e < f
    BY DEF BatchInOrder
  <2>1. CASE q = r
    BY <1>2, <1>5, <2>1
  <2>2. CASE q # r
    BY <1>6, <2>2 DEF PassInv, BatchInOrder
  <2> QED
    BY <2>1, <2>2
<1> QED
  BY <1>1, <1>3, <1>4, <1>5, <1>6, <1>7

-----------------------------------------------------------------------------
(* PassInv is inductive: one lemma per action.                             *)

\* Nothing is written, held or sent at the start.
LEMMA InitPassInv == Init => PassInv
<1> SUFFICES ASSUME Init PROVE PassInv
  OBVIOUS
<1>1. Clean \in [Events -> {"none", "published", "failed"}] /\ \A e \in Events : Clean[e] = "none"
  BY DEF Clean
<1>2. TypeOK
  BY <1>1, OutboxAssumption DEF Init, TypeOK
<1>3. BatchInOrder /\ RowsHeld /\ SendsWhatWasWritten /\ MarkedWasSent
  BY <1>1 DEF Init, BatchInOrder, RowsHeld, SendsWhatWasWritten, MarkedWasSent
<1>4. AttemptsCounted
  BY <1>1, OutboxAssumption DEF Init, AttemptsCounted
<1> QED
  BY <1>2, <1>3, <1>4 DEF PassInv

\* A row that is being written, redriven or discarded is held by nobody: what is
\* held is pending.
LEMMA NotPendingNotHeld ==
    ASSUME PassInv, NEW e \in Events, row[e] # "pending"
    PROVE  \A r \in Relays : e \notin locked[r] /\ staged[r][e] = "none"
BY DEF PassInv, RowsHeld, BatchInOrder

\* A step that writes one row that is not pending, and touches no pass, keeps the
\* invariant when it leaves the row's counters in order.
LEMMA RowStep ==
    ASSUME PassInv, NEW e \in Events, row[e] # "pending",
           NEW v \in {"pending", "deleted"},
           row' = [row EXCEPT ![e] = v],
           \/ /\ attempts' = [attempts EXCEPT ![e] = 0]
              /\ errors' = [errors EXCEPT ![e] = 0]
              /\ due' = [due EXCEPT ![e] = TRUE]
           \/ v = "deleted" /\ UNCHANGED <<attempts, errors, due>>,
           repairs' \in 0..MaxRepairs,
           UNCHANGED <<sent, pass, outcome, faults>>
    PROVE  PassInv'
<1>1. \A r \in Relays : e \notin locked[r] /\ staged[r][e] = "none"
  BY NotPendingNotHeld
<1>2. TypeOK'
  <2>1. row' \in [Events -> {"absent", "pending", "published", "dead", "deleted"}]
    BY DEF PassInv, TypeOK
  <2>2. attempts' \in [Events -> 0..MaxAttempts]
    BY OutboxAssumption DEF PassInv, TypeOK
  <2>3. due' \in [Events -> BOOLEAN]
    <3>1. CASE due' = [due EXCEPT ![e] = TRUE]
      BY <3>1 DEF PassInv, TypeOK
    <3> QED
      BY <3>1 DEF PassInv, TypeOK
  <2>4. errors' \in [Events -> Nat]
    BY DEF PassInv, TypeOK
  <2> QED
    BY <2>1, <2>2, <2>3, <2>4 DEF PassInv, TypeOK, pass
<1>3. BatchInOrder' /\ MarkedWasSent'
  BY DEF PassInv, BatchInOrder, MarkedWasSent, pass
<1>4. RowsHeld'
  BY <1>1 DEF PassInv, TypeOK, RowsHeld, pass
<1>5. SendsWhatWasWritten'
  BY DEF PassInv, TypeOK, SendsWhatWasWritten, pass
<1>6. AttemptsCounted'
  BY <1>1, OutboxAssumption DEF PassInv, TypeOK, AttemptsCounted, pass
<1> QED
  BY <1>2, <1>3, <1>4, <1>5, <1>6 DEF PassInv

\* The writers, the clock and the operator keep the invariant.
LEMMA RowsPassInv ==
    ASSUME PassInv, NEW e \in Events,
           Write(e) \/ BackoffEnds(e) \/ Redrive(e) \/ Discard(e)
    PROVE  PassInv'
<1>1. CASE Write(e)
  <2>1. repairs' \in 0..MaxRepairs
    BY <1>1 DEF PassInv, TypeOK, Write
  <2> QED
    BY <1>1, <2>1, RowStep DEF Write
<1>2. CASE BackoffEnds(e)
  <2>1. TypeOK'
    BY <1>2 DEF PassInv, TypeOK, BackoffEnds, pass
  <2>2. BatchInOrder' /\ MarkedWasSent' /\ AttemptsCounted' /\ SendsWhatWasWritten'
    BY <1>2 DEF PassInv, BatchInOrder, MarkedWasSent, AttemptsCounted, SendsWhatWasWritten,
                BackoffEnds, pass
  <2>3. RowsHeld'
    BY <1>2 DEF PassInv, TypeOK, RowsHeld, BackoffEnds, pass
  <2> QED
    BY <2>1, <2>2, <2>3 DEF PassInv
<1>3. CASE Redrive(e)
  <2>1. repairs' \in 0..MaxRepairs
    BY <1>3, OutboxAssumption DEF PassInv, TypeOK, Redrive
  <2> QED
    BY <1>3, <2>1, RowStep DEF Redrive
<1>4. CASE Discard(e)
  <2>1. repairs' \in 0..MaxRepairs
    BY <1>4, OutboxAssumption DEF PassInv, TypeOK, Discard
  <2> QED
    BY <1>4, <2>1, RowStep DEF Discard
<1> QED
  BY <1>1, <1>2, <1>3, <1>4

\* A pass takes due rows that nobody holds.
LEMMA SelectPassInv ==
    ASSUME PassInv, NEW r \in Relays, Select(r)
    PROVE  PassInv'
<1> DEFINE batch == Oldest({e \in Events : Due(e)} \ LockedByOthers(r), Limit)
<1>1. batch \in SUBSET Events /\ \A e \in batch : row[e] = "pending" /\ due[e]
  BY DEF Oldest, Due
<1>2. \A e \in batch : \A q \in Relays \ {r} : e \notin locked[q]
  BY DEF Oldest, LockedByOthers
<1>3. /\ locked' = [locked EXCEPT ![r] = batch] /\ todo' = [todo EXCEPT ![r] = batch]
      /\ pc' = [pc EXCEPT ![r] = IF batch = {} THEN "commit" ELSE "publish"]
      /\ UNCHANGED <<table, sent, errors, staged, outcome, faults, repairs>>
      /\ pc[r] = "idle"
  BY DEF Select
<1> HIDE DEF batch
<1>4. TypeOK'
  BY <1>1, <1>3 DEF PassInv, TypeOK, table
<1>5. \A e \in Events : staged[r][e] = "none"
  BY <1>3 DEF PassInv, BatchInOrder
<1>6. BatchInOrder'
  BY <1>3, <1>5 DEF PassInv, TypeOK, BatchInOrder
<1>7. RowsHeld'
  BY <1>1, <1>2, <1>3 DEF PassInv, TypeOK, RowsHeld, table
<1>8. SendsWhatWasWritten'
  BY <1>1, <1>3 DEF PassInv, TypeOK, SendsWhatWasWritten, table
<1>9. MarkedWasSent' /\ AttemptsCounted'
  BY <1>3 DEF PassInv, MarkedWasSent, AttemptsCounted, table
<1> QED
  BY <1>4, <1>6, <1>7, <1>8, <1>9 DEF PassInv

\* The mark of the current event: the rest of the batch comes after it.
LEMMA StageKeeps ==
    ASSUME PassInv, NEW r \in Relays, NEW mark \in {"published", "failed"},
           pc[r] = "publish", Stage(r, mark)
    PROVE  /\ pc' \in [Relays -> {"idle", "publish", "orphan", "commit", "report"}]
           /\ locked' \in [Relays -> SUBSET Events]
           /\ todo' \in [Relays -> SUBSET Events]
           /\ staged' \in [Relays -> [Events -> {"none", "published", "failed"}]]
           /\ BatchInOrder'
           /\ Current(r) \in locked[r] /\ Current(r) \in Events
           /\ staged[r][Current(r)] = "none"
           /\ \A q \in Relays : todo'[q] \subseteq todo[q]
           /\ \A q \in Relays : \A e \in Events :
                  staged'[q][e] = IF q = r /\ e = Current(r) THEN mark ELSE staged[q][e]
<1>1. Current(r) \in todo[r] /\ \A f \in todo[r] : Current(r) <= f
  BY CurrentIsLeast DEF PassInv, BatchInOrder
<1>2. Current(r) \in locked[r] /\ Current(r) \in Events
  BY <1>1 DEF PassInv, TypeOK, BatchInOrder
<1> DEFINE c == Current(r)
           rest == todo[r] \ {c}
<1>3. /\ staged' = [staged EXCEPT ![r][c] = mark] /\ todo' = [todo EXCEPT ![r] = rest]
      /\ pc' = [pc EXCEPT ![r] = IF rest = {} THEN "commit" ELSE "publish"]
      /\ locked' = locked
  BY DEF Stage
<1>4. c \in todo[r] /\ (\A f \in todo[r] : c <= f) /\ c \in locked[r] /\ c \in Events /\ c \in Nat
  BY <1>1, <1>2, OutboxAssumption DEF Events
<1> HIDE DEF c
<1>5. /\ pc' \in [Relays -> {"idle", "publish", "orphan", "commit", "report"}]
      /\ locked' \in [Relays -> SUBSET Events]
      /\ todo' \in [Relays -> SUBSET Events]
  BY <1>3, <1>4 DEF PassInv, TypeOK
<1>6. staged' \in [Relays -> [Events -> {"none", "published", "failed"}]]
  BY <1>3, <1>4 DEF PassInv, TypeOK
<1>7. \A q \in Relays : \A e \in Events :
          staged'[q][e] = IF q = r /\ e = c THEN mark ELSE staged[q][e]
  BY <1>3, <1>4 DEF PassInv, TypeOK
<1>8. staged[r][c] = "none"
  <2>1. ~(c < c)
    BY <1>4
  <2> QED
    BY <1>4, <2>1 DEF PassInv, BatchInOrder
<1>9. \A q \in Relays : todo'[q] = IF q = r THEN rest ELSE todo[q]
  BY <1>3 DEF PassInv, TypeOK
<1>10. BatchInOrder'
  <2> SUFFICES ASSUME NEW q \in Relays
               PROVE  /\ pc'[q] \in {"publish", "commit"} => todo'[q] \subseteq locked'[q]
                      /\ pc'[q] \in {"publish", "orphan"} => todo'[q] # {}
                      /\ pc'[q] = "commit" => todo'[q] = {}
                      /\ pc'[q] \in {"idle", "report", "orphan"} => locked'[q] = {}
                      /\ pc'[q] \in {"idle", "report"} => todo'[q] = {}
                      /\ \A e \in Events : staged'[q][e] # "none" =>
                            e \in locked'[q] /\ \A f \in todo'[q] : e < f
    BY DEF BatchInOrder
  <2>1. CASE q # r
    BY <1>3, <1>7, <1>9, <2>1 DEF PassInv, TypeOK, BatchInOrder
  <2>2. CASE q = r
    <3>1. \A f \in rest : c < f
      BY <1>4, OutboxAssumption DEF PassInv, TypeOK, Events
    <3>2. \A e \in Events : staged'[r][e] # "none" =>
              e \in locked'[r] /\ \A f \in todo'[r] : e < f
      BY <1>3, <1>4, <1>7, <1>9, <3>1 DEF PassInv, BatchInOrder
    <3>3. todo[r] \subseteq locked[r]
      BY DEF PassInv, BatchInOrder
    <3>4. pc'[r] = IF rest = {} THEN "commit" ELSE "publish"
      BY <1>3 DEF PassInv, TypeOK
    <3> QED
      BY <1>3, <1>9, <2>2, <3>2, <3>3, <3>4
  <2> QED
    BY <2>1, <2>2
<1>11. \A q \in Relays : todo'[q] \subseteq todo[q]
  BY <1>9
<1> QED
  BY <1>2, <1>5, <1>6, <1>7, <1>8, <1>10, <1>11 DEF c

\* A publish that was answered keeps the invariant, whichever the answer.
LEMMA PublishPassInv ==
    ASSUME PassInv, NEW r \in Relays, PublishAccepted(r) \/ PublishRefused(r)
    PROVE  PassInv'
<1> DEFINE c == Current(r)
<1>1. PICK mark \in {"published", "failed"} :
          /\ pc[r] = "publish" /\ Stage(r, mark)
          /\ UNCHANGED <<table, outcome, faults, repairs>>
          /\ \/ mark = "published" /\ sent' = [sent EXCEPT ![c] = @ + 1] /\ errors' = errors
             \/ mark = "failed" /\ errors' = [errors EXCEPT ![c] = @ + 1] /\ sent' = sent
  BY DEF PublishAccepted, PublishRefused
<1>2. /\ pc' \in [Relays -> {"idle", "publish", "orphan", "commit", "report"}]
      /\ locked' \in [Relays -> SUBSET Events]
      /\ todo' \in [Relays -> SUBSET Events]
      /\ staged' \in [Relays -> [Events -> {"none", "published", "failed"}]]
      /\ BatchInOrder'
      /\ c \in locked[r] /\ c \in Events /\ staged[r][c] = "none"
      /\ \A q \in Relays : todo'[q] \subseteq todo[q]
      /\ \A q \in Relays : \A e \in Events :
             staged'[q][e] = IF q = r /\ e = c THEN mark ELSE staged[q][e]
  BY <1>1, StageKeeps
<1>3. locked' = locked
  BY <1>1 DEF Stage
<1> HIDE DEF c
<1>4. /\ sent' \in [Events -> Nat] /\ errors' \in [Events -> Nat]
      /\ \A e \in Events : sent'[e] >= sent[e] /\ errors'[e] >= errors[e]
      /\ mark = "published" => sent'[c] > 0
      /\ mark = "failed" => errors'[c] = errors[c] + 1
  <2>1. sent \in [Events -> Nat] /\ errors \in [Events -> Nat] /\ c \in Events
    BY <1>2 DEF PassInv, TypeOK
  <2>2. CASE mark = "published"
    BY <1>1, <2>1, <2>2
  <2>3. CASE mark = "failed"
    BY <1>1, <2>1, <2>3
  <2> QED
    BY <2>2, <2>3
<1>5. TypeOK'
  BY <1>1, <1>2, <1>4 DEF PassInv, TypeOK, table
<1>6. RowsHeld'
  BY <1>1, <1>3 DEF PassInv, RowsHeld, table
<1>7. SendsWhatWasWritten'
  BY <1>1, <1>2 DEF PassInv, SendsWhatWasWritten, table
<1>8. MarkedWasSent'
  <2> SUFFICES ASSUME NEW q \in Relays, NEW e \in Events, staged'[q][e] = "published"
               PROVE  sent'[e] > 0
    BY DEF MarkedWasSent
  <2>1. sent[e] \in Nat /\ sent'[e] \in Nat /\ sent'[e] >= sent[e]
    BY <1>4 DEF PassInv, TypeOK
  <2>2. CASE q = r /\ e = c
    BY <1>2, <1>4, <2>2
  <2>3. CASE ~(q = r /\ e = c)
    <3>1. staged[q][e] = "published"
      BY <1>2, <2>3
    <3> QED
      BY <2>1, <3>1 DEF PassInv, MarkedWasSent
  <2> QED
    BY <2>2, <2>3
<1>9. AttemptsCounted'
  <2> SUFFICES ASSUME NEW e \in Events
               PROVE  /\ attempts[e] <= errors'[e]
                      /\ \A q \in Relays : staged'[q][e] = "failed" => attempts[e] + 1 <= errors'[e]
    BY <1>1 DEF PassInv, AttemptsCounted, table
  <2>1. /\ attempts[e] \in Nat /\ errors[e] \in Nat /\ errors'[e] \in Nat /\ errors'[e] >= errors[e]
        /\ attempts[e] <= errors[e]
        /\ \A q \in Relays : staged[q][e] = "failed" => attempts[e] + 1 <= errors[e]
    BY <1>4, OutboxAssumption DEF PassInv, TypeOK, AttemptsCounted
  <2>2. ASSUME NEW q \in Relays, staged'[q][e] = "failed" PROVE attempts[e] + 1 <= errors'[e]
    <3>1. CASE q = r /\ e = c
      BY <1>2, <1>4, <2>1, <2>2, <3>1
    <3>2. CASE ~(q = r /\ e = c)
      BY <1>2, <2>1, <2>2, <3>2
    <3> QED
      BY <3>1, <3>2
  <2> QED
    BY <2>1, <2>2
<1> QED
  BY <1>2, <1>5, <1>6, <1>7, <1>8, <1>9 DEF PassInv

\* A pass that ends without its commit leaves the rows as they were.
LEMMA LostPassInv ==
    ASSUME PassInv, NEW r \in Relays, NEW next \in {"idle", "orphan"},
           next = "orphan" => pc[r] = "publish",
           Rollback(r, next), UNCHANGED <<table, errors>>,
           sent' \in [Events -> Nat], \A e \in Events : sent'[e] >= sent[e],
           outcome' \in {"none", "ok", "failed"}, faults' \in 0..MaxFaults, repairs' = repairs
    PROVE  PassInv'
<1>1. /\ pc' \in [Relays -> {"idle", "publish", "orphan", "commit", "report"}]
      /\ locked' \in [Relays -> SUBSET Events]
      /\ todo' \in [Relays -> SUBSET Events]
      /\ staged' \in [Relays -> [Events -> {"none", "published", "failed"}]]
      /\ BatchInOrder'
      /\ \A q \in Relays : todo'[q] \subseteq todo[q]
      /\ \A q \in Relays : q # r => locked'[q] = locked[q] /\ staged'[q] = staged[q]
      /\ locked'[r] = {} /\ staged'[r] = Clean
  BY RollbackKeeps
<1>2. \A e \in Events : Clean[e] = "none"
  BY DEF Clean
<1>3. TypeOK'
  BY <1>1 DEF PassInv, TypeOK, table
<1>4. RowsHeld'
  BY <1>1 DEF PassInv, RowsHeld, table
<1>5. SendsWhatWasWritten'
  BY <1>1 DEF PassInv, SendsWhatWasWritten, table
<1>6. MarkedWasSent'
  <2> SUFFICES ASSUME NEW q \in Relays, NEW e \in Events, staged'[q][e] = "published"
               PROVE  sent'[e] > 0
    BY DEF MarkedWasSent
  <2>1. sent[e] \in Nat /\ sent'[e] \in Nat /\ sent'[e] >= sent[e]
    BY DEF PassInv, TypeOK
  <2>2. staged[q][e] = "published"
    BY <1>1, <1>2
  <2> QED
    BY <2>1, <2>2 DEF PassInv, MarkedWasSent
<1>7. AttemptsCounted'
  BY <1>1, <1>2 DEF PassInv, AttemptsCounted, table
<1> QED
  BY <1>1, <1>3, <1>4, <1>5, <1>6, <1>7 DEF PassInv

\* A commit makes the marks visible and gives the rows back; a row that fails for
\* the last time is given up.
LEMMA CommitPassInv ==
    ASSUME PassInv, NEW r \in Relays, NEW next \in {"idle", "report"},
           pc[r] = "commit", Apply(r), Rollback(r, next), UNCHANGED <<sent, errors>>,
           outcome' \in {"none", "ok", "failed"}, faults' \in 0..MaxFaults, repairs' = repairs
    PROVE  PassInv'
<1>1. /\ pc' \in [Relays -> {"idle", "publish", "orphan", "commit", "report"}]
      /\ locked' \in [Relays -> SUBSET Events]
      /\ todo' \in [Relays -> SUBSET Events]
      /\ staged' \in [Relays -> [Events -> {"none", "published", "failed"}]]
      /\ BatchInOrder'
      /\ \A q \in Relays : todo'[q] \subseteq todo[q]
      /\ \A q \in Relays : q # r => locked'[q] = locked[q] /\ staged'[q] = staged[q]
      /\ locked'[r] = {} /\ staged'[r] = Clean
  BY RollbackKeeps
<1>2. \A e \in Events : Clean[e] = "none"
  BY DEF Clean
<1>3. \A e \in Events :
         /\ row'[e] = Marked(r, e)
         /\ attempts'[e] = IF staged[r][e] = "failed" THEN attempts[e] + 1 ELSE attempts[e]
         /\ due'[e] = (due[e] /\ staged[r][e] # "failed")
  BY DEF Apply
\* the rows the pass marked were held by it alone, and pending
<1>4. \A e \in Events : staged[r][e] # "none" =>
         /\ row[e] = "pending"
         /\ \A q \in Relays : q # r => e \notin locked[q] /\ staged[q][e] = "none"
  BY DEF PassInv, BatchInOrder, RowsHeld
<1>5. \A e \in Events :
         /\ staged[r][e] = "none" => row'[e] = row[e] /\ attempts'[e] = attempts[e] /\ due'[e] = due[e]
         /\ staged[r][e] = "published" => row'[e] = "published" /\ attempts'[e] = attempts[e]
         /\ staged[r][e] = "failed" =>
               /\ attempts'[e] = attempts[e] + 1
               /\ row'[e] = IF attempts[e] + 1 >= MaxAttempts THEN "dead" ELSE "pending"
  BY <1>3, <1>4 DEF Marked, Dies, PassInv, TypeOK
<1>6. \A e \in Events : attempts[e] \in 0..MaxAttempts /\ errors[e] \in Nat
                        /\ staged[r][e] \in {"none", "published", "failed"}
  BY DEF PassInv, TypeOK
<1>7. TypeOK'
  <2>1. row' \in [Events -> {"absent", "pending", "published", "dead", "deleted"}]
    <3>1. \A e \in Events : Marked(r, e) \in {"absent", "pending", "published", "dead", "deleted"}
      BY DEF Marked, PassInv, TypeOK
    <3> QED
      BY <3>1 DEF Apply
  <2>2. attempts' \in [Events -> 0..MaxAttempts]
    <3>1. \A e \in Events : attempts'[e] \in 0..MaxAttempts
      BY <1>4, <1>5, <1>6, OutboxAssumption DEF PassInv, AttemptsCounted
    <3> QED
      BY <3>1 DEF Apply
  <2>3. due' \in [Events -> BOOLEAN]
    BY Zenon DEF Apply
  <2> QED
    BY <1>1, <2>1, <2>2, <2>3 DEF PassInv, TypeOK
<1>8. RowsHeld'
  <2> SUFFICES ASSUME NEW q \in Relays, NEW e \in locked'[q]
               PROVE  /\ row'[e] = "pending" /\ due'[e]
                      /\ \A p \in Relays : e \in locked'[p] => p = q
    BY DEF RowsHeld
  <2>1. q # r /\ e \in locked[q] /\ e \in Events
    BY <1>1
  <2>2. staged[r][e] = "none"
    BY <1>4, <2>1
  <2>3. row'[e] = row[e] /\ due'[e] = due[e]
    BY <1>5, <2>1, <2>2
  <2>4. row[e] = "pending" /\ due[e] /\ \A p \in Relays : e \in locked[p] => p = q
    BY <2>1 DEF PassInv, RowsHeld
  <2>5. \A p \in Relays : e \in locked'[p] => e \in locked[p]
    BY <1>1
  <2> QED
    BY <2>3, <2>4, <2>5
<1>9. SendsWhatWasWritten'
  <2> SUFFICES ASSUME NEW q \in Relays, NEW e \in todo'[q] PROVE row'[e] # "absent"
    BY DEF SendsWhatWasWritten
  <2>1. row[e] # "absent" /\ e \in Events
    BY <1>1 DEF PassInv, SendsWhatWasWritten
  <2> QED
    BY <1>5, <1>6, <2>1
<1>10. MarkedWasSent'
  BY <1>1, <1>2 DEF PassInv, MarkedWasSent
<1>11. AttemptsCounted'
  <2> SUFFICES ASSUME NEW e \in Events
               PROVE  /\ attempts'[e] <= errors[e]
                      /\ \A q \in Relays : staged'[q][e] = "failed" => attempts'[e] + 1 <= errors[e]
                      /\ row'[e] = "pending" => attempts'[e] < MaxAttempts
                      /\ row'[e] = "dead" => attempts'[e] = MaxAttempts
    BY DEF AttemptsCounted
  <2>1. /\ attempts[e] <= errors[e]
        /\ \A q \in Relays : staged[q][e] = "failed" => attempts[e] + 1 <= errors[e]
        /\ row[e] = "pending" => attempts[e] < MaxAttempts
        /\ row[e] = "dead" => attempts[e] = MaxAttempts
    BY DEF PassInv, AttemptsCounted
  <2>2. \A q \in Relays : staged'[q][e] = "failed" => q # r /\ staged[q][e] = "failed" /\ staged[r][e] = "none"
    BY <1>1, <1>2, <1>4
  <2>3. CASE staged[r][e] = "none"
    BY <1>5, <2>1, <2>2, <2>3
  <2>4. CASE staged[r][e] = "published"
    BY <1>5, <2>1, <2>2, <2>4
  <2>5. CASE staged[r][e] = "failed"
    BY <1>4, <1>5, <1>6, <2>1, <2>2, <2>5, OutboxAssumption
  <2> QED
    BY <1>6, <2>3, <2>4, <2>5
<1> QED
  BY <1>1, <1>7, <1>8, <1>9, <1>10, <1>11 DEF PassInv

\* The steps that lose a transaction, with what they do to the rest of the state.
Lost(r) ==
    PublishStalls(r) \/ PassFails(r) \/ ConnectionLost(r) \/ OrphanReturns(r) \/ Crash(r)

\* One more publish is a natural number of publishes.
LEMMA SentTyped ==
    ASSUME TypeOK, NEW e, NEW f \in [Events -> Nat], f = [sent EXCEPT ![e] = @ + 1] \/ f = sent
    PROVE  \A d \in Events : f[d] >= sent[d]
BY DEF TypeOK

\* Whichever way a transaction is lost, the invariant stands.
LEMMA LostStepPassInv ==
    ASSUME PassInv, NEW r \in Relays, Lost(r)
    PROVE  PassInv'
<1>1. faults' \in 0..MaxFaults
  BY OutboxAssumption DEF PassInv, TypeOK, Lost, PublishStalls, PassFails, ConnectionLost,
                          OrphanReturns, Crash
<1>2. \E e : sent' = [sent EXCEPT ![e] = @ + 1] \/ sent' = sent
  BY DEF Lost, PublishStalls, PassFails, ConnectionLost, OrphanReturns, Crash
<1>3. sent' \in [Events -> Nat]
  <2>1. PICK e : sent' = [sent EXCEPT ![e] = @ + 1] \/ sent' = sent
    BY <1>2
  <2> QED
    BY <2>1 DEF PassInv, TypeOK
<1>4. \A e \in Events : sent'[e] >= sent[e]
  BY <1>2, <1>3, SentTyped DEF PassInv
<1>5. /\ UNCHANGED <<table, errors, repairs>> /\ outcome' \in {"none", "ok", "failed"}
      /\ \E next \in {"idle", "orphan"} :
            Rollback(r, next) /\ (next = "orphan" => pc[r] = "publish")
  BY DEF PassInv, TypeOK, Lost, PublishStalls, PassFails, ConnectionLost, OrphanReturns, Crash
<1> QED
  BY <1>1, <1>3, <1>4, <1>5, LostPassInv

\* An answer that got lost moves no row and no mark, and the bus has the event.
LEMMA UnansweredPassInv ==
    ASSUME PassInv, NEW r \in Relays, PublishUnanswered(r)
    PROVE  PassInv' /\ UNCHANGED <<row, pass>>
<1>1. UNCHANGED <<table, errors, pass, outcome, repairs>>
  BY DEF PublishUnanswered
<1>2. sent' = [sent EXCEPT ![Current(r)] = @ + 1] /\ faults' \in 0..MaxFaults
  BY OutboxAssumption DEF PublishUnanswered, PassInv, TypeOK
<1>3. sent' \in [Events -> Nat]
  <2>1. sent \in [Events -> Nat]
    BY DEF PassInv, TypeOK
  <2>2. Current(r) \in Events
    BY CurrentIsLeast DEF PublishUnanswered, PassInv, TypeOK, BatchInOrder
  <2>3. PICK e \in Events : sent' = [sent EXCEPT ![e] = @ + 1]
    BY <1>2, <2>2
  <2>4. sent[e] + 1 \in Nat
    BY <2>1
  <2> QED
    BY <2>1, <2>3, <2>4
<1>4. \A e \in Events : sent'[e] >= sent[e]
  BY <1>2, <1>3, SentTyped DEF PassInv
<1>5. TypeOK'
  BY <1>1, <1>2, <1>3 DEF PassInv, TypeOK, table, pass
<1>6. BatchInOrder' /\ RowsHeld' /\ SendsWhatWasWritten' /\ AttemptsCounted'
  BY <1>1 DEF PassInv, BatchInOrder, RowsHeld, SendsWhatWasWritten, AttemptsCounted, table, pass
<1>7. MarkedWasSent'
  <2> SUFFICES ASSUME NEW q \in Relays, NEW e \in Events, staged'[q][e] = "published"
               PROVE  sent'[e] > 0
    BY DEF MarkedWasSent
  <2>1. sent[e] > 0 /\ sent[e] \in Nat /\ sent'[e] \in Nat
    BY <1>1, <1>3 DEF PassInv, TypeOK, MarkedWasSent, pass
  <2> QED
    BY <1>4, <2>1
<1> QED
  BY <1>1, <1>5, <1>6, <1>7 DEF PassInv, table

\* The look at the pile changes no row.
LEMMA ReportPassInv ==
    ASSUME PassInv, NEW r \in Relays, Report(r)
    PROVE  PassInv'
<1>1. TypeOK'
  BY DEF PassInv, TypeOK, Report, table
<1>2. BatchInOrder'
  BY DEF PassInv, TypeOK, BatchInOrder, Report
<1>3. RowsHeld' /\ SendsWhatWasWritten' /\ MarkedWasSent' /\ AttemptsCounted'
  BY DEF PassInv, RowsHeld, SendsWhatWasWritten, MarkedWasSent, AttemptsCounted, Report, table
<1> QED
  BY <1>1, <1>2, <1>3 DEF PassInv

\* Every step keeps the invariant.
LEMMA NextPassInv == PassInv /\ [Next]_vars => PassInv'
<1> SUFFICES ASSUME PassInv, [Next]_vars PROVE PassInv'
  OBVIOUS
<1>1. ASSUME NEW r \in Relays, Commit(r) \/ CommitUnanswered(r) PROVE PassInv'
  <2>1. faults' \in 0..MaxFaults /\ outcome' \in {"none", "ok", "failed"}
    BY <1>1, OutboxAssumption DEF PassInv, TypeOK, Commit, CommitUnanswered
  <2> QED
    BY <1>1, <2>1, CommitPassInv DEF Commit, CommitUnanswered
<1>2. CASE UNCHANGED vars
  BY <1>2 DEF PassInv, TypeOK, BatchInOrder, RowsHeld, SendsWhatWasWritten, MarkedWasSent,
              AttemptsCounted, vars, table, pass
<1> QED
  BY <1>1, <1>2, RowsPassInv, SelectPassInv, PublishPassInv, UnansweredPassInv, LostStepPassInv,
     ReportPassInv
     DEF Next, Pass, Lost

-----------------------------------------------------------------------------
(* The theorems.                                                           *)

\* The types hold in every reachable state: the attempts column never passes the
\* policy's ceiling, however many relays mark rows.
THEOREM OutboxTypeCorrect == Spec => []TypeOK
<1>1. PassInv => TypeOK
  BY DEF PassInv
<1> QED
  BY <1>1, InitPassInv, NextPassInv, PTL DEF Spec

\* A row a relay holds stays pending and due until that relay ends its transaction, and no
\* other relay holds it (FOR UPDATE SKIP LOCKED in selectDueSQL).
THEOREM HeldRowsStand == Spec => []LockedRowsStand
<1>1. PassInv => LockedRowsStand
  BY DEF PassInv, RowsHeld, LockedRowsStand, LockedByOthers
<1> QED
  BY <1>1, InitPassInv, NextPassInv, PTL DEF Spec

\* A row is given up only after as many failed publishes as the policy says, counted since
\* it was written or redriven (recordFailure, markFailedSQL and Redrive).
THEOREM GivenUpIsEarned == Spec => []GivenUpAfterRealFailures
<1>1. PassInv => GivenUpAfterRealFailures
  <2> SUFFICES ASSUME PassInv, NEW e \in Events
               PROVE  attempts[e] <= errors[e] /\ (row[e] = "dead" => errors[e] >= MaxAttempts)
    BY DEF GivenUpAfterRealFailures
  <2>1. attempts[e] \in Nat /\ errors[e] \in Nat
    BY OutboxAssumption DEF PassInv, TypeOK
  <2> QED
    BY <2>1, OutboxAssumption DEF PassInv, AttemptsCounted
<1> QED
  BY <1>1, InitPassInv, NextPassInv, PTL DEF Spec

-----------------------------------------------------------------------------
(* Every publish but the closing one is paid for by a fault.               *)

Unstalled(e) == \A s \in Stalled : s <= e

\* The bill of one event.
Paid(e) ==
    /\ IsFiniteSet(Orphans(e))
    /\ Unstalled(e) =>
          sent[e] + Cardinality(Orphans(e)) <= faults + (IF Closing(e) THEN 1 ELSE 0)

\* The bill is paid at the start, when nothing was sent.
LEMMA InitPaid == Init => SendsPaidFor
<1> SUFFICES ASSUME Init, NEW e \in Events
             PROVE  IsFiniteSet(Orphans(e)) /\ sent[e] + Cardinality(Orphans(e)) <= faults
  BY DEF Init, SendsPaidFor, Closing, Clean
<1>1. Orphans(e) = {}
  BY DEF Init, Orphans
<1> QED
  BY <1>1, FS_EmptySet DEF Init

\* A step that sends nothing, loses no mark and ends no orphan keeps the bill paid.
LEMMA SamePaid ==
    ASSUME PassInv, PassInv', SendsPaidFor, NEW e \in Events,
           sent'[e] = sent[e], faults' >= faults,
           Closing(e) => Closing(e)', Orphans(e)' = Orphans(e)
    PROVE  Paid(e)'
<1>1. /\ sent[e] \in Nat /\ faults \in Nat /\ faults' \in Nat
  BY OutboxAssumption DEF PassInv, TypeOK
<1>2. Paid(e)
  BY DEF SendsPaidFor, Paid, Unstalled
<1>3. IsFiniteSet(Orphans(e)) /\ Cardinality(Orphans(e)) \in Nat
  BY <1>2, FS_CardinalityType DEF Paid
<1>4. Unstalled(e) => sent[e] + Cardinality(Orphans(e)) <= faults' + (IF Closing(e)' THEN 1 ELSE 0)
  BY <1>1, <1>2, <1>3 DEF Paid
<1> QED
  BY <1>3, <1>4 DEF Paid, Unstalled

\* Nobody has closed the event a relay is publishing inside its transaction.
LEMMA CurrentIsOpen ==
    ASSUME PassInv, NEW r \in Relays, pc[r] = "publish"
    PROVE  ~Closing(Current(r))
<1> DEFINE c == Current(r)
<1>1. c \in todo[r] /\ c \in locked[r] /\ c \in Events
  BY CurrentIsLeast DEF PassInv, TypeOK, BatchInOrder
<1> HIDE DEF c
<1>2. row[c] = "pending" /\ \A q \in Relays : c \in locked[q] => q = r
  BY <1>1 DEF PassInv, RowsHeld
<1>3. staged[r][c] = "none"
  <2>1. ~(c < c)
    BY <1>1, OutboxAssumption DEF Events
  <2> QED
    BY <1>1, <2>1 DEF PassInv, BatchInOrder
<1>4. ~Closing(c)
  BY <1>1, <1>2, <1>3 DEF PassInv, BatchInOrder, Closing
<1> QED
  BY <1>4 DEF c

\* The closing publish is the one that is not paid for.
LEMMA AcceptedPaid ==
    ASSUME PassInv, PassInv', SendsPaidFor, NEW r \in Relays, PublishAccepted(r), NEW e \in Events
    PROVE  Paid(e)'
<1> DEFINE c == Current(r)
<1>1. /\ pc[r] = "publish" /\ Stage(r, "published") /\ sent' = [sent EXCEPT ![c] = @ + 1]
      /\ row' = row /\ faults' = faults
  BY DEF PublishAccepted, table
<1>2. /\ c \in locked[r] /\ c \in Events /\ staged[r][c] = "none"
      /\ \A q \in Relays : \A d \in Events :
             staged'[q][d] = IF q = r /\ d = c THEN "published" ELSE staged[q][d]
  BY <1>1, StageKeeps
<1>3. \A q \in Relays : /\ pc'[q] = "orphan" <=> pc[q] = "orphan"
                        /\ pc[q] = "orphan" => todo'[q] = todo[q]
  BY <1>1 DEF PassInv, TypeOK, Stage
<1>4. Orphans(e)' = Orphans(e)
  BY <1>3 DEF Orphans
<1> HIDE DEF c
<1>5. CASE e # c
  <2>1. sent'[e] = sent[e]
    BY <1>1, <1>5 DEF PassInv, TypeOK
  <2>2. Closing(e) => Closing(e)'
    BY <1>1, <1>2, <1>5 DEF Closing
  <2>3. faults' >= faults
    BY <1>1, OutboxAssumption DEF PassInv, TypeOK
  <2> QED
    BY <1>4, <2>1, <2>2, <2>3, SamePaid
<1>6. CASE e = c
  <2>1. ~Closing(e)
    BY <1>1, <1>6, CurrentIsOpen DEF c
  <2>2. Closing(e)'
    BY <1>2, <1>6 DEF Closing
  <2>3. /\ sent[e] \in Nat /\ sent'[e] = sent[e] + 1 /\ faults \in Nat
    BY <1>1, <1>6, OutboxAssumption DEF PassInv, TypeOK
  <2>4. Paid(e)
    BY DEF SendsPaidFor, Paid, Unstalled
  <2>5. IsFiniteSet(Orphans(e)) /\ Cardinality(Orphans(e)) \in Nat
    BY <2>4, FS_CardinalityType DEF Paid
  <2>6. Unstalled(e) => sent'[e] + Cardinality(Orphans(e)) <= faults + 1
    BY <2>1, <2>3, <2>4, <2>5 DEF Paid
  <2> QED
    BY <1>1, <1>4, <2>2, <2>5, <2>6 DEF Paid, Unstalled
<1> QED
  BY <1>5, <1>6

\* A lost answer is a fault, and it pays for the one publish nobody heard of.
LEMMA UnansweredPaid ==
    ASSUME PassInv, PassInv', SendsPaidFor, NEW r \in Relays, PublishUnanswered(r), NEW e \in Events
    PROVE  Paid(e)'
<1>1. faults' = faults + 1 /\ sent' = [sent EXCEPT ![Current(r)] = @ + 1]
  BY DEF PublishUnanswered
<1>2. UNCHANGED <<row, pass>>
  BY UnansweredPassInv
<1>3. Orphans(e)' = Orphans(e) /\ (Closing(e)' <=> Closing(e))
  BY <1>2 DEF Orphans, Closing, pass
<1>4. sent'[e] \in {sent[e], sent[e] + 1} /\ sent[e] \in Nat /\ faults \in Nat
  BY <1>1, OutboxAssumption DEF PassInv, TypeOK
<1>5. Paid(e)
  BY DEF SendsPaidFor, Paid, Unstalled
<1>6. IsFiniteSet(Orphans(e)) /\ Cardinality(Orphans(e)) \in Nat
  BY <1>5, FS_CardinalityType DEF Paid
<1>7. Unstalled(e) => sent'[e] + Cardinality(Orphans(e)) <= faults' + (IF Closing(e) THEN 1 ELSE 0)
  BY <1>1, <1>4, <1>5, <1>6 DEF Paid
<1> QED
  BY <1>3, <1>6, <1>7 DEF Paid, Unstalled

\* A fault pays for the marks it loses, for a publish nobody heard of, and for the
\* process it leaves behind; but for one of these per event, never two.
LEMMA FaultPaid ==
    ASSUME PassInv, PassInv', SendsPaidFor, NEW r \in Relays,
           PassFails(r) \/ ConnectionLost(r) \/ Crash(r), NEW e \in Events
    PROVE  Paid(e)'
<1>1. PICK next \in {"idle", "orphan"} :
          Rollback(r, next) /\ (next = "orphan" => pc[r] = "publish")
  BY DEF PassFails, ConnectionLost, Crash
<1>2. /\ \A q \in Relays : q # r => pc'[q] = pc[q] /\ todo'[q] = todo[q] /\ staged'[q] = staged[q]
      /\ pc'[r] = next /\ next # "orphan" => todo'[r] = {}
  BY <1>1, RollbackKeeps
<1>3. pc'[r] = next
  BY <1>1 DEF Rollback, PassInv, TypeOK
<1>4. Paid(e)
  BY DEF SendsPaidFor, Paid, Unstalled
<1>5. IsFiniteSet(Orphans(e)) /\ Cardinality(Orphans(e)) \in Nat
  BY <1>4, FS_CardinalityType DEF Paid
<1>6. /\ sent[e] \in Nat /\ sent'[e] \in Nat /\ faults \in Nat /\ faults' = faults + 1
      /\ row' = row
  BY OutboxAssumption DEF PassInv, TypeOK, PassFails, ConnectionLost, Crash, table
\* what a lost mark was worth
<1>7. (IF Closing(e) THEN 1 ELSE 0) <= 1
  OBVIOUS
<1>8. CASE next = "orphan" /\ e = Current(r)
  <2>1. e \in todo[r] /\ pc[r] = "publish"
    BY <1>1, <1>8, CurrentIsLeast DEF PassInv, BatchInOrder
  <2>2. ~Closing(e)
    BY <1>8, <2>1, CurrentIsOpen
  <2>3. Orphans(e)' \subseteq Orphans(e) \cup {r}
    BY <1>2 DEF Orphans
  <2>4. IsFiniteSet(Orphans(e) \cup {r}) /\ Cardinality(Orphans(e) \cup {r}) <= Cardinality(Orphans(e)) + 1
    BY <1>5, FS_AddElement
  <2>5. /\ IsFiniteSet(Orphans(e)') /\ Cardinality(Orphans(e)') <= Cardinality(Orphans(e) \cup {r})
        /\ Cardinality(Orphans(e)') \in Nat /\ Cardinality(Orphans(e) \cup {r}) \in Nat
    BY <2>3, <2>4, FS_Subset, FS_CardinalityType
  <2>6. sent'[e] = sent[e]
    BY <1>3, <1>8 DEF PassFails, ConnectionLost, Crash, Rollback, PassInv, TypeOK
  <2>7. Unstalled(e) => sent'[e] + Cardinality(Orphans(e)') <= faults'
    BY <1>4, <1>5, <1>6, <2>2, <2>4, <2>5, <2>6 DEF Paid
  <2> QED
    BY <1>6, <2>5, <2>7 DEF Paid, Unstalled
<1>9. CASE ~(next = "orphan" /\ e = Current(r))
  <2>1. Orphans(e)' \subseteq Orphans(e)
    BY <1>1, <1>2, <1>9 DEF Orphans, Rollback, PassInv, TypeOK
  <2>2. /\ IsFiniteSet(Orphans(e)') /\ Cardinality(Orphans(e)') <= Cardinality(Orphans(e))
        /\ Cardinality(Orphans(e)') \in Nat
    BY <1>5, <2>1, FS_Subset, FS_CardinalityType
  <2>3. CASE sent'[e] = sent[e]
    <3>1. Unstalled(e) => sent'[e] + Cardinality(Orphans(e)') <= faults'
      BY <1>4, <1>5, <1>6, <1>7, <2>2, <2>3 DEF Paid
    <3>2. (IF Closing(e)' THEN 1 ELSE 0) \in {0, 1}
      OBVIOUS
    <3>3. Unstalled(e) => sent'[e] + Cardinality(Orphans(e)') <= faults' + (IF Closing(e)' THEN 1 ELSE 0)
      BY <1>6, <2>2, <3>1, <3>2
    <3> QED
      BY <2>2, <3>3 DEF Paid, Unstalled
  <2>4. CASE sent'[e] # sent[e]
    <3>1. pc[r] = "publish" /\ e = Current(r) /\ sent'[e] = sent[e] + 1
      BY <2>4 DEF PassFails, ConnectionLost, Crash, PassInv, TypeOK
    <3>3. ~Closing(e)
      BY <3>1, CurrentIsOpen
    <3>4. Unstalled(e) => sent'[e] + Cardinality(Orphans(e)') <= faults'
      BY <1>4, <1>5, <1>6, <2>2, <3>1, <3>3 DEF Paid
    <3>5. (IF Closing(e)' THEN 1 ELSE 0) \in {0, 1}
      OBVIOUS
    <3>6. Unstalled(e) => sent'[e] + Cardinality(Orphans(e)') <= faults' + (IF Closing(e)' THEN 1 ELSE 0)
      BY <1>6, <2>2, <3>4, <3>5
    <3> QED
      BY <2>2, <3>6 DEF Paid, Unstalled
  <2> QED
    BY <2>3, <2>4
<1> QED
  BY <1>8, <1>9

\* A publish in flight was paid for when its process lost the session.
LEMMA OrphanPaid ==
    ASSUME PassInv, PassInv', SendsPaidFor, NEW r \in Relays, OrphanReturns(r), NEW e \in Events
    PROVE  Paid(e)'
<1>1. /\ pc[r] = "orphan" /\ Rollback(r, "idle") /\ row' = row /\ faults' = faults
      /\ sent' \in {sent} \cup {[sent EXCEPT ![d] = @ + 1] : d \in todo[r] \ Stalled}
  BY DEF OrphanReturns, table
<1>2. /\ \A q \in Relays : q # r => pc'[q] = pc[q] /\ todo'[q] = todo[q] /\ staged'[q] = staged[q]
      /\ pc'[r] = "idle" /\ todo'[r] = {}
  BY <1>1, RollbackKeeps
<1>3. \A d \in Events : staged[r][d] = "none"
  BY <1>1 DEF PassInv, BatchInOrder
<1>4. Closing(e) => Closing(e)'
  BY <1>1, <1>2, <1>3 DEF Closing
<1>5. Paid(e)
  BY DEF SendsPaidFor, Paid, Unstalled
<1>6. Orphans(e)' = Orphans(e) \ {r}
  BY <1>2 DEF Orphans
<1>7. /\ IsFiniteSet(Orphans(e)) /\ Cardinality(Orphans(e)) \in Nat
      /\ IsFiniteSet(Orphans(e)') /\ Cardinality(Orphans(e)') \in Nat
      /\ Cardinality(Orphans(e)') = IF r \in Orphans(e) THEN Cardinality(Orphans(e)) - 1
                                                        ELSE Cardinality(Orphans(e))
  <2>1. IsFiniteSet(Orphans(e)) /\ Cardinality(Orphans(e)) \in Nat
    BY <1>5, FS_CardinalityType DEF Paid
  <2>2. /\ IsFiniteSet(Orphans(e) \ {r})
        /\ Cardinality(Orphans(e) \ {r}) = IF r \in Orphans(e) THEN Cardinality(Orphans(e)) - 1
                                                               ELSE Cardinality(Orphans(e))
    BY <2>1, FS_RemoveElement
  <2>3. Cardinality(Orphans(e) \ {r}) \in Nat
    BY <2>2, FS_CardinalityType
  <2> QED
    BY <1>6, <2>1, <2>2, <2>3
<1>8. /\ sent[e] \in Nat /\ faults \in Nat
      /\ sent'[e] = sent[e] \/ (r \in Orphans(e) /\ sent'[e] = sent[e] + 1)
  BY <1>1, OutboxAssumption DEF PassInv, TypeOK, Orphans
<1>9. Unstalled(e) => sent'[e] + Cardinality(Orphans(e)') <= faults + (IF Closing(e) THEN 1 ELSE 0)
  BY <1>5, <1>7, <1>8 DEF Paid
<1>10. Unstalled(e) => sent'[e] + Cardinality(Orphans(e)') <= faults' + (IF Closing(e)' THEN 1 ELSE 0)
  BY <1>1, <1>4, <1>7, <1>8, <1>9
<1> QED
  BY <1>7, <1>10 DEF Paid, Unstalled

\* The pass that stalls takes back marks of older events only: they come before the
\* event that stalls, and are left out of the bill.
LEMMA StallPaid ==
    ASSUME PassInv, PassInv', SendsPaidFor, NEW r \in Relays, PublishStalls(r), NEW e \in Events
    PROVE  Paid(e)'
<1>1. /\ pc[r] = "publish" /\ Current(r) \in Stalled /\ Rollback(r, "idle")
      /\ row' = row /\ faults' = faults /\ sent' = sent
  BY DEF PublishStalls, table
<1>2. /\ \A q \in Relays : q # r => pc'[q] = pc[q] /\ todo'[q] = todo[q] /\ staged'[q] = staged[q]
      /\ pc'[r] = "idle"
  BY <1>1, RollbackKeeps
<1>3. Orphans(e)' = Orphans(e)
  BY <1>1, <1>2 DEF Orphans
<1>4. faults' >= faults
  BY <1>1, OutboxAssumption DEF PassInv, TypeOK
<1>5. CASE staged[r][e] = "none"
  <2>1. Closing(e) => Closing(e)'
    BY <1>1, <1>2, <1>5 DEF Closing
  <2> QED
    BY <1>1, <1>3, <1>4, <2>1, SamePaid
<1>6. CASE staged[r][e] # "none"
  <2>1. Current(r) \in todo[r]
    BY <1>1, CurrentIsLeast DEF PassInv, BatchInOrder
  <2>2. e < Current(r)
    BY <1>6, <2>1 DEF PassInv, BatchInOrder
  <2>3. Current(r) \in Nat /\ e \in Nat
    BY <2>1, OutboxAssumption DEF PassInv, TypeOK, Events
  <2>4. ~(Current(r) <= e)
    BY <2>2, <2>3
  <2>5. ~Unstalled(e)
    BY <1>1, <2>4 DEF Unstalled
  <2>6. IsFiniteSet(Orphans(e)')
    BY <1>3 DEF SendsPaidFor
  <2> QED
    BY <2>5, <2>6 DEF Paid, Unstalled
<1> QED
  BY <1>5, <1>6

\* A commit turns the mark that closes into the row that is closed.
LEMMA CommitPaid ==
    ASSUME PassInv, PassInv', SendsPaidFor, NEW r \in Relays,
           Commit(r) \/ CommitUnanswered(r), NEW e \in Events
    PROVE  Paid(e)'
<1>1. PICK next \in {"idle", "report"} : Rollback(r, next)
  BY DEF Commit, CommitUnanswered
<1>2. /\ pc[r] = "commit" /\ Apply(r) /\ sent' = sent /\ faults' >= faults
  BY OutboxAssumption DEF Commit, CommitUnanswered, PassInv, TypeOK
<1>3. /\ \A q \in Relays : q # r => pc'[q] = pc[q] /\ todo'[q] = todo[q] /\ staged'[q] = staged[q]
      /\ pc'[r] = next
  BY <1>1, RollbackKeeps
<1>4. Orphans(e)' = Orphans(e)
  BY <1>2, <1>3 DEF Orphans
<1>5. /\ row'[e] = Marked(r, e)
      /\ staged[r][e] # "none" => row[e] = "pending"
  BY <1>2 DEF Apply, PassInv, BatchInOrder, RowsHeld
<1>6. Closing(e) => Closing(e)'
  <2>1. CASE row[e] = "published"
    BY <1>5, <2>1 DEF Closing, Marked
  <2>2. CASE staged[r][e] = "published"
    BY <1>5, <2>2 DEF Closing, Marked
  <2>3. ASSUME NEW q \in Relays, q # r, staged[q][e] = "published" PROVE Closing(e)'
    BY <1>3, <2>3 DEF Closing
  <2> QED
    BY <2>1, <2>2, <2>3 DEF Closing
<1> QED
  BY <1>2, <1>4, <1>6, SamePaid

\* A step that ends no transaction and is not an accepted publish sends nothing.
LEMMA QuietPaid ==
    ASSUME PassInv, PassInv', SendsPaidFor, NEW e \in Events,
           \/ \E r \in Relays : Select(r) \/ PublishRefused(r) \/ Report(r)
           \/ \E d \in Events : Write(d) \/ BackoffEnds(d) \/ Redrive(d) \/ Discard(d)
           \/ UNCHANGED vars
    PROVE  Paid(e)'
<1>1. sent' = sent /\ faults' = faults
  BY DEF Select, PublishRefused, Report, Write, BackoffEnds, Redrive, Discard, vars
<1>2. faults' >= faults
  BY <1>1, OutboxAssumption DEF PassInv, TypeOK
<1>3. Orphans(e)' = Orphans(e)
  <2>1. ASSUME NEW r \in Relays, Select(r) \/ PublishRefused(r) \/ Report(r)
        PROVE  \A q \in Relays : /\ pc'[q] = "orphan" <=> pc[q] = "orphan"
                                 /\ pc[q] = "orphan" => todo'[q] = todo[q]
    BY <2>1 DEF Select, PublishRefused, Stage, Report, PassInv, TypeOK
  <2>2. CASE \E d \in Events : Write(d) \/ BackoffEnds(d) \/ Redrive(d) \/ Discard(d)
    BY <2>2 DEF Write, BackoffEnds, Redrive, Discard, pass, Orphans
  <2>3. CASE UNCHANGED vars
    BY <2>3 DEF vars, pass, Orphans
  <2> QED
    BY <2>1, <2>2, <2>3 DEF Orphans
<1>4. Closing(e) => Closing(e)'
  <2>1. ASSUME NEW r \in Relays, PublishRefused(r) PROVE Closing(e) => Closing(e)'
    <3>1. /\ staged[r][Current(r)] = "none" /\ row' = row
          /\ \A q \in Relays : \A d \in Events :
                staged'[q][d] = IF q = r /\ d = Current(r) THEN "failed" ELSE staged[q][d]
      BY <2>1, StageKeeps DEF PublishRefused, table
    <3> QED
      BY <3>1 DEF Closing
  <2>2. ASSUME NEW r \in Relays, Select(r) \/ Report(r) PROVE Closing(e) => Closing(e)'
    BY <2>2 DEF Select, Report, table, Closing
  <2>3. ASSUME NEW d \in Events, Write(d) \/ BackoffEnds(d) \/ Redrive(d) \/ Discard(d)
        PROVE  Closing(e) => Closing(e)'
    <3>1. staged' = staged /\ (row[e] = "published" => row'[e] = "published")
      BY <2>3 DEF Write, BackoffEnds, Redrive, Discard, pass, PassInv, TypeOK
    <3> QED
      BY <3>1 DEF Closing
  <2>4. CASE UNCHANGED vars
    BY <2>4 DEF vars, table, pass, Closing
  <2> QED
    BY <2>1, <2>2, <2>3, <2>4
<1> QED
  BY <1>1, <1>2, <1>3, <1>4, SamePaid

\* The bill stays paid.
LEMMA NextPaid == OutboxInv /\ [Next]_vars => OutboxInv'
<1> SUFFICES ASSUME PassInv, SendsPaidFor, [Next]_vars PROVE PassInv' /\ SendsPaidFor'
  BY DEF OutboxInv
<1>1. PassInv'
  BY NextPassInv
<1>2. ASSUME NEW e \in Events PROVE Paid(e)'
  BY <1>1, AcceptedPaid, UnansweredPaid, FaultPaid, OrphanPaid, StallPaid, CommitPaid, QuietPaid DEF Next, Pass
<1>3. SendsPaidFor'
  BY <1>2 DEF SendsPaidFor, Paid, Unstalled
<1> QED
  BY <1>1, <1>3

\* An event that no stalling publish follows goes out again only after a pass that crashed or
\* lost the database or an answer of the bus that got lost: every publish but the one that
\* closes the row is paid for by such a fault, however many relays run and whatever the
\* operator redrives.
THEOREM ResendsAreFaults == Spec => []ResentOnlyAfterAFault
<1>1. OutboxInv => ResentOnlyAfterAFault
  <2> SUFFICES ASSUME OutboxInv, NEW e \in Events, Unstalled(e) PROVE sent[e] <= 1 + faults
    BY DEF ResentOnlyAfterAFault, Unstalled
  <2>1. Paid(e) /\ Unstalled(e)
    BY DEF OutboxInv, SendsPaidFor, Paid, Unstalled
  <2>2. Cardinality(Orphans(e)) \in Nat /\ sent[e] \in Nat /\ faults \in Nat
    BY <2>1, FS_CardinalityType, OutboxAssumption DEF Paid, OutboxInv, PassInv, TypeOK
  <2> QED
    BY <2>1, <2>2 DEF Paid
<1>2. Init => OutboxInv
  BY InitPassInv, InitPaid DEF OutboxInv
<1> QED
  BY <1>1, <1>2, NextPaid, PTL DEF Spec

-----------------------------------------------------------------------------
(* The relay implements OutboxPromise, under the mapping of Outbox.        *)

MappedState == [e \in Events |-> Mapped(row[e])]
MappedSent == [e \in Events |-> ~Unsent(e)]

\* A step that moves no row and forgets no publish is a stutter of the promise, or a send
\* when the bus accepted an event.
LEMMA SendsAreAllowed ==
    ASSUME PassInv, PassInv', row' = row, NEW e \in Events,
           sent' = sent \/ (sent' = [sent EXCEPT ![e] = @ + 1] /\ row[e] # "absent")
    PROVE  [Promise!Next]_(Promise!vars)
<1>1. MappedState' = MappedState
  BY DEF MappedState
<1>2. CASE sent' = sent
  BY <1>1, <1>2 DEF MappedState, MappedSent, Unsent, Promise!vars
<1>3. CASE sent' = [sent EXCEPT ![e] = @ + 1] /\ row[e] # "absent"
  <2>1. MappedSent' = [MappedSent EXCEPT ![e] = TRUE]
    <3>1. \A d \in Events : sent[d] \in Nat /\ sent'[d] = IF d = e THEN sent[d] + 1 ELSE sent[d]
      BY <1>3 DEF PassInv, TypeOK
    <3>2. \A d \in Events : Unsent(d)' <=> (d # e /\ Unsent(d))
      BY <3>1 DEF Unsent
    <3> QED
      BY <3>2 DEF MappedSent
  <2>2. MappedState[e] # "absent"
    BY <1>3 DEF MappedState, Mapped, PassInv, TypeOK
  <2>3. Promise!Send(e)
    BY <1>1, <2>1, <2>2 DEF Promise!Send, MappedState, MappedSent
  <2> QED
    BY <2>3 DEF Promise!Next
<1> QED
  BY <1>2, <1>3

\* A commit settles: what it marks as published was sent, what it gives up was owed, and
\* all of it was still owed when the commit came.
LEMMA CommitSettles ==
    ASSUME PassInv, NEW r \in Relays, pc[r] = "commit", Apply(r), sent' = sent
    PROVE  [Promise!Next]_(Promise!vars)
<1> DEFINE Closed == {e \in Events : staged[r][e] = "published"}
           Hopeless == {e \in Events : staged[r][e] = "failed" /\ Dies(e)}
<1>1. Closed \in SUBSET Events /\ Hopeless \in SUBSET Events /\ Closed \cap Hopeless = {}
  OBVIOUS
<1>2. \A e \in Closed \cup Hopeless : MappedState[e] = "owed"
  <2>1. \A e \in Closed \cup Hopeless : row[e] = "pending"
    BY DEF PassInv, BatchInOrder, RowsHeld
  <2> QED
    BY <2>1 DEF MappedState, Mapped
<1>3. \A e \in Closed : MappedSent[e]
  <2>1. \A e \in Closed : sent[e] \in Nat /\ sent[e] > 0
    BY DEF PassInv, TypeOK, MarkedWasSent
  <2>2. \A e \in Closed : ~Unsent(e)
    BY <2>1 DEF Unsent
  <2> QED
    BY <2>2, Zenon DEF MappedSent
<1>4. MappedState' = [e \in Events |-> CASE e \in Closed -> "closed"
                                         [] e \in Hopeless -> "given_up"
                                         [] OTHER -> MappedState[e]]
  <2>1. \A e \in Events : Mapped(row'[e]) = CASE e \in Closed -> "closed"
                                              [] e \in Hopeless -> "given_up"
                                              [] OTHER -> MappedState[e]
    <3> SUFFICES ASSUME NEW e \in Events
                 PROVE  Mapped(row'[e]) = CASE e \in Closed -> "closed"
                                            [] e \in Hopeless -> "given_up"
                                            [] OTHER -> MappedState[e]
      OBVIOUS
    <3>1. row'[e] = Marked(r, e)
      BY DEF Apply
    <3>2. CASE e \in Closed
      BY <3>1, <3>2 DEF Marked, Mapped
    <3>3. CASE e \in Hopeless
      BY <3>1, <3>3 DEF Marked, Mapped
    <3>4. CASE e \notin Closed /\ e \notin Hopeless
      BY <3>1, <3>4 DEF Marked, Mapped, MappedState
    <3> QED
      BY <3>2, <3>3, <3>4
  <2> QED
    BY <2>1 DEF MappedState
<1>5. MappedSent' = MappedSent
  BY DEF MappedSent, Unsent
<1> HIDE DEF Closed, Hopeless
<1>6. Promise!Settle(Closed, Hopeless)
  BY <1>1, <1>2, <1>3, <1>4, <1>5 DEF Promise!Settle, MappedState, MappedSent
<1> QED
  BY <1>1, <1>6 DEF Promise!Next

\* The writers and the operator do what the promise lets them do.
LEMMA RowsKeepThePromise ==
    ASSUME PassInv, NEW e \in Events,
           Write(e) \/ BackoffEnds(e) \/ Redrive(e) \/ Discard(e)
    PROVE  [Promise!Next]_(Promise!vars)
<1>1. MappedSent' = MappedSent
  BY DEF MappedSent, Unsent, Write, BackoffEnds, Redrive, Discard
<1>2. ASSUME NEW v \in {"pending", "deleted"}, row' = [row EXCEPT ![e] = v]
      PROVE  MappedState' = [MappedState EXCEPT ![e] = Mapped(v)]
  BY <1>2 DEF MappedState, PassInv, TypeOK
<1>3. Mapped("pending") = "owed" /\ Mapped("deleted") = "discarded"
  BY DEF Mapped
<1>4. CASE Write(e)
  <2>1. MappedState[e] \in {"absent", "discarded"}
    BY <1>4 DEF MappedState, Mapped, Write
  <2>2. Promise!Owe(e)
    BY <1>1, <1>2, <1>3, <1>4, <2>1 DEF Write, Promise!Owe, MappedState, MappedSent
  <2> QED
    BY <2>2 DEF Promise!Next
<1>5. CASE BackoffEnds(e)
  BY <1>5, <1>1 DEF BackoffEnds, MappedState, MappedSent, Promise!vars
<1>6. CASE Redrive(e)
  <2>1. MappedState[e] = "given_up"
    BY <1>6 DEF MappedState, Mapped, Redrive
  <2>2. Promise!Redrive(e)
    BY <1>1, <1>2, <1>3, <1>6, <2>1 DEF Redrive, Promise!Redrive, MappedState, MappedSent
  <2> QED
    BY <2>2 DEF Promise!Next
<1>7. CASE Discard(e)
  <2>1. MappedState[e] = "given_up"
    BY <1>7 DEF MappedState, Mapped, Discard
  <2>2. Promise!Discard(e)
    BY <1>1, <1>2, <1>3, <1>7, <2>1 DEF Discard, Promise!Discard, MappedState, MappedSent
  <2> QED
    BY <2>2 DEF Promise!Next
<1> QED
  BY <1>4, <1>5, <1>6, <1>7

\* The initial states are initial states of the promise.
LEMMA InitPromised == Init => Promise!Init
BY DEF Init, Promise!Init, Mapped, Unsent

\* Every step is a step of the promise or a stutter.
LEMMA NextPromised == PassInv /\ PassInv' /\ [Next]_vars => [Promise!Next]_(Promise!vars)
<1> SUFFICES ASSUME PassInv, PassInv', [Next]_vars PROVE [Promise!Next]_(Promise!vars)
  OBVIOUS
<1>1. ASSUME NEW r \in Relays, pc[r] \in {"publish", "orphan"}
      PROVE  Current(r) \in Events /\ row[Current(r)] # "absent"
  <2>1. Current(r) \in todo[r]
    BY <1>1, CurrentIsLeast DEF PassInv, BatchInOrder
  <2> QED
    BY <2>1 DEF PassInv, TypeOK, SendsWhatWasWritten
<1>2. ASSUME NEW r \in Relays, row' = row, sent' = sent PROVE [Promise!Next]_(Promise!vars)
  BY <1>2 DEF Promise!vars, Unsent
<1>3. ASSUME NEW r \in Relays, PublishAccepted(r) \/ PublishUnanswered(r) \/ PassFails(r)
      PROVE  [Promise!Next]_(Promise!vars)
  BY <1>1, <1>2, <1>3, SendsAreAllowed DEF PublishAccepted, PublishUnanswered, PassFails, table
<1>4. ASSUME NEW r \in Relays, OrphanReturns(r) PROVE [Promise!Next]_(Promise!vars)
  <2>1. \A e \in todo[r] : e \in Events /\ row[e] # "absent"
    BY DEF PassInv, TypeOK, SendsWhatWasWritten
  <2> QED
    BY <1>2, <1>4, <2>1, SendsAreAllowed DEF OrphanReturns, table
<1>5. ASSUME NEW r \in Relays, Commit(r) \/ CommitUnanswered(r)
      PROVE  [Promise!Next]_(Promise!vars)
  BY <1>5, CommitSettles DEF Commit, CommitUnanswered
<1>6. ASSUME NEW r \in Relays,
             Select(r) \/ PublishRefused(r) \/ PublishStalls(r) \/ Report(r)
             \/ ConnectionLost(r) \/ Crash(r)
      PROVE  [Promise!Next]_(Promise!vars)
  BY <1>2, <1>6 DEF Select, PublishRefused, PublishStalls, Report, ConnectionLost, Crash, table
<1>7. CASE UNCHANGED vars
  BY <1>7 DEF vars, table, Promise!vars, Unsent
<1> QED
  BY <1>3, <1>4, <1>5, <1>6, <1>7, RowsKeepThePromise DEF Next, Pass

\* The relay implements the promise of the outbox to the transaction that wrote an event: the
\* event is owed until it was sent or given up in the open, and only a human takes a given-up
\* event away; crashes, lost sessions and unanswered commits included.
THEOREM PromiseIsKept == Spec => KeepsThePromise
<1>1. Init => PassInv /\ Promise!Init
  BY InitPassInv, InitPromised
<1>2. PassInv /\ [Next]_vars => PassInv' /\ [Promise!Next]_(Promise!vars)
  BY NextPassInv, NextPromised
<1> QED
  BY <1>1, <1>2, PTL DEF Spec, KeepsThePromise, Promise!Spec

=============================================================================
