-------------------------- MODULE IdempotencyProofs --------------------------
(***************************************************************************)
(* Theorems about Idempotency, for any requests, keys and fingerprints,    *)
(* either store, any budget and any number of faults.                      *)
(***************************************************************************)
EXTENDS Idempotency, FiniteSetTheorems, Sums, TLAPS

Records == [state : {"none", "inflight", "done"}, by : Requests \cup {NoRequest}]

\* The types of everything but the order of the memory store's list.
RingTyped ==
    /\ backend \in Backends
    /\ rec \in [Keys -> Records]
    /\ expired \subseteq Keys
    /\ backend = "redis" => expired = {}
    /\ pc \in [Requests -> Points]
    /\ key \in [Requests -> Keys]
    /\ digest \in [Requests -> Digests]
    /\ replayed \in [Requests -> Requests \cup {NoRequest}]
    /\ works \in [Keys -> SUBSET Requests]
    /\ excused \in [Keys -> Nat]
    /\ orphans \subseteq Keys
    /\ unclaimed \subseteq Keys
    /\ faults \in 0..MaxFaults

\* A record says who made it, and a finished one was made by a request that is
\* past its handler.
RecordsSigned ==
    \A k \in Keys :
        /\ rec[k].state = "none" => rec[k] = Nothing
        /\ rec[k].state # "none" => rec[k].by \in Requests /\ key[rec[k].by] = k
        /\ Done(k) => pc[rec[k].by] \in {"abort", "answered"}

\* While a request works, the record of its key is its own: its reservation, or,
\* on its way to the release, the record whose writing was not answered.
WorkerOwns ==
    \A r \in Working :
        /\ rec[key[r]].by = r /\ key[r] \notin expired
        /\ InFlight(key[r]) \/ (Done(key[r]) /\ pc[r] = "abort" /\ backend = "redis")

RingInv == RingTyped /\ RecordsSigned /\ LockHasACause /\ ReplaysTheSameRequest

\* The record of k stands for side effects that nothing has excused yet, unless it
\* is the reservation of a request before its effects or on the way to its release.
Charge(k) ==
    IF /\ rec[k].state # "none" /\ k \notin expired
       /\ InFlight(k) => \A r \in Requests : key[r] = k => pc[r] \notin {"work", "abort"}
    THEN 1 ELSE 0

\* The side effects of a key are excused, but for the ones its record stands for.
WorksPaidFor ==
    \A k \in Keys :
        /\ IsFiniteSet(works[k])
        /\ Cardinality(works[k]) <= excused[k] + Charge(k)

-----------------------------------------------------------------------------
(* What the stores' operations do to a record.                             *)

\* An empty record is a record.
LEMMA NothingIsARecord == Nothing \in Records /\ Nothing.state = "none"
BY DEF Nothing, Records

\* So are a reservation and a finished one.
LEMMA SignedRecords ==
    ASSUME NEW r \in Requests
    PROVE  [state |-> "inflight", by |-> r] \in Records /\ [state |-> "done", by |-> r] \in Records
BY DEF Records

\* A budget drops completed records only.
LEMMA BudgetDropsCompleted ==
    ASSUME NEW q, NEW at, NEW k \in FitBudget(q, at)
    PROVE  k \in Keys /\ at[k].state = "done"
BY DEF FitBudget

\* collect forgets the expired records and touches no other.
LEMMA CollectedIs ==
    ASSUME RingTyped
    PROVE  /\ Collected \in [Keys -> Records]
           /\ \A k \in Keys : Collected[k] = IF k \in expired THEN Nothing ELSE rec[k]
BY NothingIsARecord DEF RingTyped, Collected

\* A reservation replaces a free record and collects the expired ones.
LEMMA ReservedIs ==
    ASSUME RingTyped, NEW r \in Requests, Reserved(r)
    PROVE  /\ rec' \in [Keys -> Records] /\ expired' = {}
           /\ \A k \in Keys : rec'[k] = IF k = key[r] THEN [state |-> "inflight", by |-> r]
                                        ELSE IF k \in expired THEN Nothing ELSE rec[k]
<1>1. key[r] \in Keys
  BY DEF RingTyped
<1> QED
  BY <1>1, CollectedIs, SignedRecords DEF Reserved

\* A completion leaves the record of its key finished, and drops nothing but completed
\* records of the memory store, each with its excuse.
LEMMA WriteIs ==
    ASSUME RingTyped, NEW r \in Requests, Write(r)
    PROVE  /\ rec' \in [Keys -> Records] /\ expired' \subseteq expired /\ key[r] \notin expired'
           /\ excused' \in [Keys -> Nat]
           /\ \E out \in SUBSET Keys :
                 /\ backend # "memory" => out = {}
                 /\ expired' = expired \ (out \cup {key[r]})
                 /\ \A k \in out : k = key[r] \/ Done(k)
                 /\ \A k \in Keys :
                       /\ rec'[k] = IF k \in out THEN Nothing
                                    ELSE IF k = key[r] THEN [state |-> "done", by |-> r] ELSE rec[k]
                       /\ excused'[k] = IF k \in out THEN excused[k] + 1 ELSE excused[k]
<1> DEFINE at == [rec EXCEPT ![key[r]] = [state |-> "done", by |-> r]]
           q == Append(Without(queue, {key[r]}), key[r])
           out == IF backend = "memory" THEN FitBudget(q, at) ELSE {}
<1>1. /\ rec' = [k \in Keys |-> IF k \in out THEN Nothing ELSE at[k]]
      /\ expired' = expired \ (out \cup {key[r]})
      /\ excused' = [k \in Keys |-> IF k \in out THEN excused[k] + 1 ELSE excused[k]]
  BY DEF Write, Forget
<1>2. out \in SUBSET Keys /\ \A k \in out : at[k].state = "done"
  BY BudgetDropsCompleted
<1>3. backend # "memory" => out = {}
  OBVIOUS
<1> HIDE DEF out, q
<1>4. key[r] \in Keys
  BY DEF RingTyped
<1>5. at \in [Keys -> Records]
      /\ \A k \in Keys : at[k] = IF k = key[r] THEN [state |-> "done", by |-> r] ELSE rec[k]
  BY <1>4, SignedRecords DEF RingTyped
<1> HIDE DEF at
<1>6. rec' \in [Keys -> Records]
  BY <1>1, <1>5, NothingIsARecord
<1>7. excused' \in [Keys -> Nat]
  BY <1>1 DEF RingTyped
<1>8. \A k \in out : k = key[r] \/ Done(k)
  BY <1>2, <1>5 DEF Done
<1>9. \A k \in Keys :
         /\ rec'[k] = IF k \in out THEN Nothing
                      ELSE IF k = key[r] THEN [state |-> "done", by |-> r] ELSE rec[k]
         /\ excused'[k] = IF k \in out THEN excused[k] + 1 ELSE excused[k]
  BY <1>1, <1>5
<1> QED
  BY <1>1, <1>2, <1>3, <1>6, <1>7, <1>8, <1>9

\* A release removes a reservation, and only a reservation.
LEMMA ReleasedIs ==
    ASSUME RingTyped, NEW k \in Keys, Released(k)
    PROVE  /\ rec' \in [Keys -> Records] /\ expired' \subseteq expired
           /\ \A j \in Keys : rec'[j] = IF j = k /\ InFlight(k) THEN Nothing ELSE rec[j]
           /\ \A j \in Keys : j # k => (j \in expired' <=> j \in expired)
           /\ orphans' \subseteq orphans /\ unclaimed' \subseteq unclaimed
           /\ \A j \in Keys : j \in orphans \cup unclaimed => j \in orphans' \cup unclaimed' \/ (j = k /\ InFlight(k))
BY NothingIsARecord DEF RingTyped, Released, Abortable, stored

-----------------------------------------------------------------------------
(* RingInv: types, signatures, locks and replays.                          *)

\* Nothing is stored at the start.
LEMMA InitRing == Init => RingInv
<1> SUFFICES ASSUME Init PROVE RingInv
  OBVIOUS
<1>1. RingTyped
  BY NothingIsARecord, RingAssumption DEF Init, RingTyped, Points
<1>2. RecordsSigned /\ LockHasACause
  BY NothingIsARecord DEF Init, RecordsSigned, LockHasACause, InFlight, Done
<1>3. ReplaysTheSameRequest
  BY DEF Init, ReplaysTheSameRequest
<1> QED
  BY <1>1, <1>2, <1>3 DEF RingInv

\* A counted fault stays within the bound.
LEMMA FaultTyped == ASSUME RingTyped, Fault PROVE faults' \in 0..MaxFaults
BY RingAssumption DEF RingTyped, Fault

\* Arrivals and handlers touch no record.
LEMMA QuietRing ==
    ASSUME RingInv, NEW r \in Requests, Arrive(r) \/ Handle(r)
    PROVE  RingInv'
<1>1. /\ UNCHANGED <<backend, stored, key, digest, replayed, orphans, unclaimed, faults>>
      /\ \E next \in {"begin", "complete", "abort"} : pc' = [pc EXCEPT ![r] = next]
      /\ pc[r] \in {"idle", "work"}
      /\ pc[r] = "work" => pc'[r] \in {"complete", "abort"}
  BY DEF Arrive, Handle, Goto, history, RingInv, RingTyped
<1>2. works' \in [Keys -> SUBSET Requests] /\ excused' \in [Keys -> Nat]
  BY DEF Arrive, Handle, Forget, history, RingInv, RingTyped
<1>3. RingTyped'
  BY <1>1, <1>2 DEF RingInv, RingTyped, Points, stored
<1>4. RecordsSigned'
  BY <1>1 DEF RingInv, RingTyped, RecordsSigned, Done, stored
<1>5. LockHasACause'
  BY <1>1 DEF RingInv, RingTyped, LockHasACause, InFlight, Working, stored
<1>6. ReplaysTheSameRequest'
  BY <1>1 DEF RingInv, RingTyped, ReplaysTheSameRequest
<1> QED
  BY <1>3, <1>4, <1>5, <1>6 DEF RingInv

\* A reservation, answered or not, is signed by its request.
LEMMA BeginRing ==
    ASSUME RingInv, NEW r \in Requests, Begin(r) \/ BeginUnanswered(r)
    PROVE  RingInv'
<1>1. /\ UNCHANGED <<backend, key, digest, replayed, works, excused>> /\ pc[r] = "begin"
      /\ \E next \in {"work", "answered"} : pc' = [pc EXCEPT ![r] = next]
  BY DEF Begin, BeginUnanswered, Goto
<1>2. pc'[r] \in {"work", "answered"} /\ \A q \in Requests : q # r => pc'[q] = pc[q]
  BY <1>1 DEF RingInv, RingTyped
<1>3. faults' \in 0..MaxFaults
  BY FaultTyped DEF Begin, BeginUnanswered, RingInv, RingTyped
<1>4. CASE /\ Reserved(r)
           /\ Begin(r) \/ (unclaimed' = unclaimed \cup {key[r]} /\ orphans' = orphans)
  <2>1. /\ rec' \in [Keys -> Records] /\ expired' = {}
        /\ \A k \in Keys : rec'[k] = IF k = key[r] THEN [state |-> "inflight", by |-> r]
                                     ELSE IF k \in expired THEN Nothing ELSE rec[k]
    BY <1>4, ReservedIs DEF RingInv
  <2>2. /\ orphans' \subseteq Keys /\ unclaimed' \subseteq Keys
        /\ pc'[r] = "work" \/ key[r] \in unclaimed'
        /\ \A k \in Keys : k \in orphans \cup unclaimed =>
              k \in orphans' \cup unclaimed' \/ k \in expired \cup {key[r]}
    <3>1. key[r] \in Keys
      BY DEF RingInv, RingTyped
    <3>2. CASE Begin(r)
      BY <3>1, <3>2 DEF Begin, Goto, RingInv, RingTyped
    <3>3. CASE unclaimed' = unclaimed \cup {key[r]} /\ orphans' = orphans
      BY <3>1, <3>3 DEF RingInv, RingTyped
    <3> QED
      BY <1>4, <3>2, <3>3
  <2>3. RingTyped'
    BY <1>1, <1>2, <1>3, <2>1, <2>2 DEF RingInv, RingTyped, Points
  <2>4. RecordsSigned'
    <3> SUFFICES ASSUME NEW k \in Keys
                 PROVE  /\ rec'[k].state = "none" => rec'[k] = Nothing
                        /\ rec'[k].state # "none" => rec'[k].by \in Requests /\ key[rec'[k].by] = k
                        /\ rec'[k].state = "done" => pc'[rec'[k].by] \in {"abort", "answered"}
      BY <1>1 DEF RecordsSigned, Done
    <3>1. CASE k = key[r]
      BY <2>1, <3>1
    <3>2. CASE k # key[r] /\ k \in expired
      BY <2>1, <3>2, NothingIsARecord
    <3>3. CASE k # key[r] /\ k \notin expired
      BY <1>1, <1>2, <2>1, <3>3 DEF RingInv, RecordsSigned, Done
    <3> QED
      BY <3>1, <3>2, <3>3
  <2>5. LockHasACause'
    <3> SUFFICES ASSUME NEW k \in Keys, rec'[k].state = "inflight"
                 PROVE  (rec'[k].by \in Working' /\ key[rec'[k].by] = k) \/ k \in orphans' \cup unclaimed'
      BY <1>1 DEF LockHasACause, InFlight
    <3>1. CASE k = key[r]
      BY <2>1, <2>2, <3>1 DEF Working
    <3>2. CASE k # key[r]
      <4>1. k \notin expired /\ rec'[k] = rec[k]
        BY <2>1, <3>2, NothingIsARecord
      <4>2. (rec[k].by \in Working /\ key[rec[k].by] = k) \/ k \in orphans \cup unclaimed
        BY <4>1 DEF RingInv, LockHasACause, InFlight
      <4> QED
        BY <1>1, <1>2, <2>2, <3>2, <4>1, <4>2 DEF Working
    <3> QED
      BY <3>1, <3>2
  <2>6. ReplaysTheSameRequest'
    BY <1>1, <1>2 DEF RingInv, RingTyped, ReplaysTheSameRequest
  <2> QED
    BY <2>3, <2>4, <2>5, <2>6 DEF RingInv
<1>5. CASE UNCHANGED <<stored, orphans, unclaimed>>
  <2>1. RingTyped'
    BY <1>1, <1>2, <1>3, <1>5 DEF RingInv, RingTyped, Points, stored
  <2>2. RecordsSigned'
    BY <1>1, <1>2, <1>5 DEF RingInv, RecordsSigned, Done, stored
  <2>3. LockHasACause'
    BY <1>1, <1>2, <1>5 DEF RingInv, LockHasACause, InFlight, Working, stored
  <2>4. ReplaysTheSameRequest'
    BY <1>1, <1>2 DEF RingInv, RingTyped, ReplaysTheSameRequest
  <2> QED
    BY <2>1, <2>2, <2>3, <2>4 DEF RingInv
<1> QED
  BY <1>4, <1>5 DEF Begin, BeginUnanswered

\* A request is answered with a recorded response only when key and fingerprint are the
\* record's.
LEMMA RefuseRing ==
    ASSUME RingInv, NEW r \in Requests, Refuse(r)
    PROVE  RingInv'
<1>1. /\ UNCHANGED <<backend, key, digest, works, excused, faults>> /\ pc[r] = "begin"
      /\ pc' = [pc EXCEPT ![r] = "answered"] /\ rec' = Collected /\ expired' = {}
      /\ replayed' = [replayed EXCEPT ![r] = ReplayOf(r)]
      /\ orphans' = orphans \ expired /\ unclaimed' = unclaimed \ expired
  BY DEF Refuse, Goto
<1>2. /\ Collected \in [Keys -> Records]
      /\ \A k \in Keys : Collected[k] = IF k \in expired THEN Nothing ELSE rec[k]
  BY CollectedIs DEF RingInv
<1>3. pc'[r] = "answered" /\ \A q \in Requests : q # r => pc'[q] = pc[q]
  BY <1>1 DEF RingInv, RingTyped
<1>4. ReplayOf(r) # NoRequest =>
         /\ ReplayOf(r) \in Requests /\ key[ReplayOf(r)] = key[r] /\ digest[ReplayOf(r)] = digest[r]
         /\ pc[ReplayOf(r)] \in {"abort", "answered"}
  <2>1. key[r] \in Keys
    BY DEF RingInv, RingTyped
  <2>2. Collected[key[r]].state = "done" => Collected[key[r]] = rec[key[r]]
    BY <1>2, <2>1, NothingIsARecord
  <2> QED
    BY <2>1, <2>2 DEF ReplayOf, RingInv, RecordsSigned, Done
<1>5. RingTyped'
  BY <1>1, <1>2, <1>4 DEF RingInv, RingTyped, Points
<1>6. RecordsSigned'
  <2> SUFFICES ASSUME NEW k \in Keys
               PROVE  /\ rec'[k].state = "none" => rec'[k] = Nothing
                      /\ rec'[k].state # "none" => rec'[k].by \in Requests /\ key[rec'[k].by] = k
                      /\ rec'[k].state = "done" => pc'[rec'[k].by] \in {"abort", "answered"}
    BY <1>1 DEF RecordsSigned, Done
  <2>1. CASE k \in expired
    BY <1>1, <1>2, <2>1, NothingIsARecord
  <2>2. CASE k \notin expired
    BY <1>1, <1>2, <1>3, <2>2 DEF RingInv, RecordsSigned, Done
  <2> QED
    BY <2>1, <2>2
<1>7. LockHasACause'
  <2> SUFFICES ASSUME NEW k \in Keys, rec'[k].state = "inflight"
               PROVE  (rec'[k].by \in Working' /\ key[rec'[k].by] = k) \/ k \in orphans' \cup unclaimed'
    BY <1>1 DEF LockHasACause, InFlight
  <2>1. k \notin expired /\ rec'[k] = rec[k]
    BY <1>1, <1>2, NothingIsARecord
  <2>2. (rec[k].by \in Working /\ key[rec[k].by] = k) \/ k \in orphans \cup unclaimed
    BY <2>1 DEF RingInv, LockHasACause, InFlight
  <2> QED
    BY <1>1, <1>3, <2>1, <2>2 DEF Working
<1>8. ReplaysTheSameRequest'
  <2> SUFFICES ASSUME NEW q \in Requests, replayed'[q] # NoRequest
               PROVE  /\ key[replayed'[q]] = key[q] /\ digest[replayed'[q]] = digest[q]
                      /\ pc'[replayed'[q]] \in {"abort", "answered"}
    BY <1>1 DEF ReplaysTheSameRequest
  <2>1. CASE q = r
    BY <1>1, <1>3, <1>4, <2>1 DEF RingInv, RingTyped
  <2>2. CASE q # r
    BY <1>1, <1>3, <2>2 DEF RingInv, RingTyped, ReplaysTheSameRequest
  <2> QED
    BY <2>1, <2>2
<1> QED
  BY <1>5, <1>6, <1>7, <1>8 DEF RingInv

\* A completion, answered or not, signs the record with a request past its handler.
LEMMA CompleteRing ==
    ASSUME RingInv, NEW r \in Requests, Complete(r) \/ CompleteFails(r)
    PROVE  RingInv'
<1>1. /\ UNCHANGED <<backend, key, digest, replayed, works>> /\ pc[r] = "complete"
      /\ \E next \in {"abort", "answered"} : pc' = [pc EXCEPT ![r] = next]
      /\ orphans' \subseteq orphans /\ unclaimed' \subseteq unclaimed
      /\ \/ UNCHANGED <<orphans, unclaimed>>
         \/ orphans' = orphans \ {key[r]} /\ unclaimed' = unclaimed \ {key[r]}
  BY DEF Complete, CompleteFails, Goto
<1>2. pc'[r] \in {"abort", "answered"} /\ \A q \in Requests : q # r => pc'[q] = pc[q]
  BY <1>1 DEF RingInv, RingTyped
<1>3. faults' \in 0..MaxFaults
  BY FaultTyped DEF Complete, CompleteFails, RingInv, RingTyped
<1>4. CASE Write(r)
  <2>1. /\ rec' \in [Keys -> Records] /\ expired' \subseteq expired
        /\ excused' \in [Keys -> Nat]
        /\ \A k \in Keys : rec'[k] \in {Nothing, rec[k], [state |-> "done", by |-> r]}
        /\ \A k \in Keys : k # key[r] => rec'[k] \in {Nothing, rec[k]}
        /\ rec'[key[r]] \in {Nothing, [state |-> "done", by |-> r]}
    <3>1. key[r] \in Keys
      BY DEF RingInv, RingTyped
    <3> QED
      BY <1>4, <3>1, WriteIs DEF RingInv
  <2>2. RingTyped'
    BY <1>1, <1>2, <1>3, <2>1 DEF RingInv, RingTyped, Points
  <2>3. RecordsSigned'
    <3> SUFFICES ASSUME NEW k \in Keys
                 PROVE  /\ rec'[k].state = "none" => rec'[k] = Nothing
                        /\ rec'[k].state # "none" => rec'[k].by \in Requests /\ key[rec'[k].by] = k
                        /\ rec'[k].state = "done" => pc'[rec'[k].by] \in {"abort", "answered"}
      BY <1>1 DEF RecordsSigned, Done
    <3>1. CASE rec'[k] = Nothing
      BY <3>1, NothingIsARecord
    <3>2. CASE k # key[r] /\ rec'[k] = rec[k]
      BY <1>1, <1>2, <3>2 DEF RingInv, RecordsSigned, Done
    <3>3. CASE k = key[r] /\ rec'[k] = [state |-> "done", by |-> r]
      BY <1>2, <3>3
    <3> QED
      BY <2>1, <3>1, <3>2, <3>3
  <2>4. LockHasACause'
    <3> SUFFICES ASSUME NEW k \in Keys, rec'[k].state = "inflight"
                 PROVE  (rec'[k].by \in Working' /\ key[rec'[k].by] = k) \/ k \in orphans' \cup unclaimed'
      BY <1>1 DEF LockHasACause, InFlight
    <3>1. k # key[r] /\ rec'[k] = rec[k]
      BY <2>1, NothingIsARecord
    <3>2. (rec[k].by \in Working /\ key[rec[k].by] = k) \/ k \in orphans \cup unclaimed
      BY <3>1 DEF RingInv, LockHasACause, InFlight
    <3> QED
      BY <1>1, <1>2, <3>1, <3>2 DEF Working
  <2>5. ReplaysTheSameRequest'
    BY <1>1, <1>2 DEF RingInv, RingTyped, ReplaysTheSameRequest
  <2> QED
    BY <2>2, <2>3, <2>4, <2>5 DEF RingInv
<1>5. CASE CompleteFails(r) /\ UNCHANGED stored /\ Forget({key[r]})
  <2>1. excused' \in [Keys -> Nat]
    BY <1>5 DEF Forget, RingInv, RingTyped
  <2>2. pc'[r] = "abort" /\ UNCHANGED <<orphans, unclaimed>>
    BY <1>5 DEF CompleteFails, Goto, RingInv, RingTyped
  <2>3. RingTyped'
    BY <1>1, <1>2, <1>3, <1>5, <2>1 DEF RingInv, RingTyped, Points, stored
  <2>4. RecordsSigned'
    BY <1>1, <1>2, <1>5 DEF RingInv, RecordsSigned, Done, stored
  <2>5. LockHasACause'
    BY <1>1, <1>2, <1>5, <2>2 DEF RingInv, LockHasACause, InFlight, Working, stored
  <2>6. ReplaysTheSameRequest'
    BY <1>1, <1>2 DEF RingInv, RingTyped, ReplaysTheSameRequest
  <2> QED
    BY <2>3, <2>4, <2>5, <2>6 DEF RingInv
<1> QED
  BY <1>4, <1>5 DEF Complete, CompleteFails

\* A release takes the lock away; a release that failed leaves an orphan.
LEMMA AbortRing ==
    ASSUME RingInv, NEW r \in Requests, Abort(r) \/ AbortFails(r)
    PROVE  RingInv'
<1>1. /\ UNCHANGED <<backend, key, digest, replayed, works, excused>> /\ pc[r] = "abort"
      /\ pc' = [pc EXCEPT ![r] = "answered"]
  BY DEF Abort, AbortFails, Goto
<1>2. pc'[r] = "answered" /\ \A q \in Requests : q # r => pc'[q] = pc[q]
  BY <1>1 DEF RingInv, RingTyped
<1>3. faults' \in 0..MaxFaults
  BY FaultTyped DEF Abort, AbortFails, RingInv, RingTyped
<1>4. key[r] \in Keys
  BY DEF RingInv, RingTyped
<1>5. /\ rec' \in [Keys -> Records] /\ expired' \subseteq expired
      /\ orphans' \subseteq Keys /\ unclaimed' \subseteq Keys
      /\ \A j \in Keys : rec'[j] \in {Nothing, rec[j]}
      /\ \A j \in Keys : j \in orphans \cup unclaimed =>
            j \in orphans' \cup unclaimed' \/ rec'[j] = Nothing
      /\ rec'[key[r]].state = "inflight" => key[r] \in orphans'
  <2>1. CASE Released(key[r])
    BY <1>4, <2>1, ReleasedIs, NothingIsARecord DEF RingInv, RingTyped, InFlight
  <2>2. CASE AbortFails(r)
    BY <1>4, <2>2 DEF AbortFails, RingInv, RingTyped, stored
  <2> QED
    BY <2>1, <2>2 DEF Abort
<1>6. RingTyped'
  BY <1>1, <1>2, <1>3, <1>5 DEF RingInv, RingTyped, Points
<1>7. RecordsSigned'
  <2> SUFFICES ASSUME NEW k \in Keys
               PROVE  /\ rec'[k].state = "none" => rec'[k] = Nothing
                      /\ rec'[k].state # "none" => rec'[k].by \in Requests /\ key[rec'[k].by] = k
                      /\ rec'[k].state = "done" => pc'[rec'[k].by] \in {"abort", "answered"}
    BY <1>1 DEF RecordsSigned, Done
  <2>1. CASE rec'[k] = Nothing
    BY <2>1, NothingIsARecord
  <2>2. CASE rec'[k] = rec[k]
    BY <1>2, <2>2 DEF RingInv, RecordsSigned, Done
  <2> QED
    BY <1>5, <2>1, <2>2
<1>8. LockHasACause'
  <2> SUFFICES ASSUME NEW k \in Keys, rec'[k].state = "inflight"
               PROVE  (rec'[k].by \in Working' /\ key[rec'[k].by] = k) \/ k \in orphans' \cup unclaimed'
    BY <1>1 DEF LockHasACause, InFlight
  <2>1. rec'[k] = rec[k]
    BY <1>5, NothingIsARecord
  <2>2. (rec[k].by \in Working /\ key[rec[k].by] = k) \/ k \in orphans \cup unclaimed
    BY <2>1 DEF RingInv, LockHasACause, InFlight
  <2>3. CASE k = key[r]
    BY <1>5, <2>3
  <2>4. CASE k # key[r]
    BY <1>1, <1>2, <1>5, <2>1, <2>2, <2>4, NothingIsARecord DEF Working
  <2> QED
    BY <2>3, <2>4
<1>9. ReplaysTheSameRequest'
  BY <1>1, <1>2 DEF RingInv, RingTyped, ReplaysTheSameRequest
<1> QED
  BY <1>6, <1>7, <1>8, <1>9 DEF RingInv

\* A death leaves an orphan behind in Redis, and takes the memory store with it.
LEMMA CrashRing ==
    ASSUME RingInv, NEW r \in Requests, Crash(r)
    PROVE  RingInv'
<1>1. UNCHANGED <<backend, key, digest, replayed, works>> /\ faults' \in 0..MaxFaults
  BY FaultTyped DEF Crash, RingInv
<1>2. key[r] \in Keys
  BY DEF RingInv, RingTyped
<1>3. CASE backend = "redis"
  <2>1. /\ pc' = [pc EXCEPT ![r] = "answered"] /\ UNCHANGED <<stored, excused, unclaimed>>
        /\ orphans' = IF r \in Working /\ InFlight(key[r]) THEN orphans \cup {key[r]} ELSE orphans
    BY <1>3 DEF Crash, Goto
  <2>2. pc'[r] = "answered" /\ \A q \in Requests : q # r => pc'[q] = pc[q]
    BY <2>1 DEF RingInv, RingTyped
  <2>3. RingTyped'
    BY <1>1, <1>2, <2>1 DEF RingInv, RingTyped, Points, stored
  <2>4. RecordsSigned'
    BY <1>1, <2>1, <2>2 DEF RingInv, RecordsSigned, Done, stored
  <2>5. LockHasACause'
    BY <1>1, <2>1, <2>2 DEF RingInv, LockHasACause, InFlight, Working, stored
  <2>6. ReplaysTheSameRequest'
    BY <1>1, <2>2 DEF RingInv, RingTyped, ReplaysTheSameRequest
  <2> QED
    BY <2>3, <2>4, <2>5, <2>6 DEF RingInv
<1>4. CASE backend # "redis"
  <2>1. /\ pc' = [q \in Requests |-> IF pc[q] = "idle" THEN "idle" ELSE "answered"]
        /\ rec' = [k \in Keys |-> Nothing] /\ expired' = {} /\ orphans' = {} /\ unclaimed' = {}
        /\ Forget(Keys)
    BY <1>4 DEF Crash
  <2>2. RingTyped'
    BY <1>1, <2>1, NothingIsARecord DEF RingInv, RingTyped, Points, Forget
  <2>3. RecordsSigned' /\ LockHasACause'
    BY <2>1, NothingIsARecord DEF RecordsSigned, LockHasACause, InFlight, Done
  <2>4. ReplaysTheSameRequest'
    BY <1>1, <2>1 DEF RingInv, RingTyped, ReplaysTheSameRequest
  <2> QED
    BY <2>2, <2>3, <2>4 DEF RingInv
<1> QED
  BY <1>3, <1>4

\* An expired value is gone, or waits for a Begin to collect it.
LEMMA ExpireRing ==
    ASSUME RingInv, NEW k \in Keys, Expire(k)
    PROVE  RingInv'
<1>1. UNCHANGED <<backend, pc, key, digest, replayed, works, faults>> /\ Forget({k})
  BY DEF Expire, calls
<1>2. /\ rec' \in [Keys -> Records] /\ expired' \subseteq Keys
      /\ backend = "redis" => expired' = expired
      /\ orphans' \subseteq orphans /\ unclaimed' \subseteq unclaimed
      /\ \A j \in Keys : rec'[j] \in {Nothing, rec[j]}
      /\ \A j \in Keys : j \in orphans \cup unclaimed =>
            j \in orphans' \cup unclaimed' \/ rec'[j] = Nothing
  <2>1. CASE backend = "redis"
    BY <2>1, NothingIsARecord DEF Expire, RingInv, RingTyped
  <2>2. CASE backend # "redis"
    BY <2>2 DEF Expire, RingInv, RingTyped
  <2> QED
    BY <2>1, <2>2
<1>3. RingTyped'
  BY <1>1, <1>2 DEF RingInv, RingTyped, Forget
<1>4. RecordsSigned'
  <2> SUFFICES ASSUME NEW j \in Keys
               PROVE  /\ rec'[j].state = "none" => rec'[j] = Nothing
                      /\ rec'[j].state # "none" => rec'[j].by \in Requests /\ key[rec'[j].by] = j
                      /\ rec'[j].state = "done" => pc[rec'[j].by] \in {"abort", "answered"}
    BY <1>1 DEF RecordsSigned, Done
  <2>1. CASE rec'[j] = Nothing
    BY <2>1, NothingIsARecord
  <2>2. CASE rec'[j] = rec[j]
    BY <2>2 DEF RingInv, RecordsSigned, Done
  <2> QED
    BY <1>2, <2>1, <2>2
<1>5. LockHasACause'
  <2> SUFFICES ASSUME NEW j \in Keys, rec'[j].state = "inflight"
               PROVE  (rec'[j].by \in Working /\ key[rec'[j].by] = j) \/ j \in orphans' \cup unclaimed'
    BY <1>1 DEF LockHasACause, InFlight, Working
  <2>1. rec'[j] = rec[j] /\ rec'[j] # Nothing
    BY <1>2, NothingIsARecord
  <2> QED
    BY <1>2, <2>1 DEF RingInv, LockHasACause, InFlight
<1>6. ReplaysTheSameRequest'
  BY <1>1 DEF RingInv, ReplaysTheSameRequest
<1> QED
  BY <1>3, <1>4, <1>5, <1>6 DEF RingInv

\* Every step keeps the invariant.
LEMMA NextRing == RingInv /\ [Next]_vars => RingInv'
<1> SUFFICES ASSUME RingInv, [Next]_vars PROVE RingInv'
  OBVIOUS
<1>1. CASE UNCHANGED vars
  BY <1>1 DEF RingInv, RingTyped, RecordsSigned, LockHasACause, ReplaysTheSameRequest, InFlight,
              Done, Working, vars, stored, calls, history
<1> QED
  BY <1>1, QuietRing, BeginRing, RefuseRing, CompleteRing, AbortRing, CrashRing, ExpireRing
     DEF Next, Ring

\* A key is locked only by a request at work under it, or by a death, a release that failed or a
\* reservation that was not answered: no path through the middleware leaks a lock
\* (idempotency.go, record; callback_guard.go).  No assumption on the time to live is needed.
THEOREM LocksHaveCauses == Spec => []LockHasACause
<1>1. RingInv => LockHasACause
  BY DEF RingInv
<1> QED
  BY <1>1, InitRing, NextRing, PTL DEF Spec

\* A recorded response is replayed only to a request with the key and the fingerprint of the
\* request that produced it, whatever expires, is evicted or is completed late.
THEOREM ReplaysMatch == Spec => []ReplaysTheSameRequest
<1>1. RingInv => ReplaysTheSameRequest
  BY DEF RingInv
<1> QED
  BY <1>1, InitRing, NextRing, PTL DEF Spec

-----------------------------------------------------------------------------
(* One worker: while the time to live covers a run, a request owns its     *)
(* key's record for as long as it works.                                   *)

\* Ownership is exclusive.
LEMMA OwnersAreAlone == WorkerOwns => OneWorker
BY DEF WorkerOwns, OneWorker, Working

\* A reservation takes a free record, so it takes nobody's.
LEMMA BeginOwns ==
    ASSUME RingInv, WorkerOwns, NEW r \in Requests, Begin(r) \/ BeginUnanswered(r)
    PROVE  WorkerOwns'
<1>1. /\ UNCHANGED <<backend, key>> /\ pc[r] = "begin"
      /\ \E next \in {"work", "answered"} : pc' = [pc EXCEPT ![r] = next]
  BY DEF Begin, BeginUnanswered, Goto
<1>2. pc'[r] \in {"work", "answered"} /\ \A q \in Requests : q # r => pc'[q] = pc[q]
  BY <1>1 DEF RingInv, RingTyped
<1>3. CASE UNCHANGED stored /\ pc'[r] = "answered"
  BY <1>1, <1>2, <1>3 DEF WorkerOwns, Working, InFlight, Done, stored
<1>4. CASE Reserved(r) /\ Reservable(r)
  <2>1. /\ expired' = {}
        /\ \A k \in Keys : rec'[k] = IF k = key[r] THEN [state |-> "inflight", by |-> r]
                                     ELSE IF k \in expired THEN Nothing ELSE rec[k]
    BY <1>4, ReservedIs DEF RingInv
  <2> SUFFICES ASSUME NEW s \in Working'
               PROVE  /\ rec'[key[s]].by = s /\ key[s] \notin expired'
                      /\ \/ rec'[key[s]].state = "inflight"
                         \/ rec'[key[s]].state = "done" /\ pc'[s] = "abort" /\ backend = "redis"
    BY <1>1 DEF WorkerOwns, InFlight, Done
  <2>2. s \in Requests /\ key[s] \in Keys
    BY DEF Working, RingInv, RingTyped
  <2>3. CASE s = r
    BY <2>1, <2>2, <2>3
  <2>4. CASE s # r
    <3>1. s \in Working /\ pc'[s] = pc[s]
      BY <1>2, <2>2, <2>4 DEF Working
    <3>2. /\ rec[key[s]].by = s /\ key[s] \notin expired
          /\ InFlight(key[s]) \/ (Done(key[s]) /\ pc[s] = "abort" /\ backend = "redis")
      BY <3>1 DEF WorkerOwns
    <3>3. key[s] # key[r]
      BY <1>4, <2>2, <3>2, CollectedIs DEF Reservable, InFlight, Done, RingInv
    <3> QED
      BY <2>1, <2>2, <3>1, <3>2, <3>3 DEF InFlight, Done
  <2> QED
    BY <2>3, <2>4
<1>5. BeginUnanswered(r) => pc'[r] = "answered"
  BY DEF BeginUnanswered, Goto, RingInv, RingTyped
<1> QED
  BY <1>3, <1>4, <1>5 DEF Begin, BeginUnanswered

\* A completion writes the record of its own key and drops completed ones; in the memory
\* store no worker owns a completed one.
LEMMA WriteOwns ==
    ASSUME RingInv, WorkerOwns, NEW r \in Requests, Complete(r) \/ CompleteFails(r)
    PROVE  WorkerOwns'
<1>1. /\ UNCHANGED <<backend, key>> /\ pc[r] = "complete"
      /\ \E next \in {"abort", "answered"} : pc' = [pc EXCEPT ![r] = next]
  BY DEF Complete, CompleteFails, Goto
<1>2. \A q \in Requests : q # r => pc'[q] = pc[q]
  BY <1>1 DEF RingInv, RingTyped
<1>3. /\ CompleteFails(r) => pc'[r] = "abort" /\ backend = "redis"
      /\ Complete(r) => pc'[r] = "answered"
  BY DEF Complete, CompleteFails, Goto, RingInv, RingTyped
<1>4. r \in Working /\ key[r] \in Keys /\ OneWorker
  BY <1>1, OwnersAreAlone DEF Working, RingInv, RingTyped
<1>5. CASE UNCHANGED stored /\ CompleteFails(r)
  BY <1>1, <1>2, <1>3, <1>4, <1>5 DEF WorkerOwns, Working, InFlight, Done, stored
<1>6. CASE Write(r)
  <2>1. PICK out \in SUBSET Keys :
            /\ backend # "memory" => out = {}
            /\ expired' = expired \ (out \cup {key[r]})
            /\ \A k \in out : k = key[r] \/ Done(k)
            /\ \A k \in Keys :
                  /\ rec'[k] = IF k \in out THEN Nothing
                               ELSE IF k = key[r] THEN [state |-> "done", by |-> r] ELSE rec[k]
                  /\ excused'[k] = IF k \in out THEN excused[k] + 1 ELSE excused[k]
    BY <1>6, WriteIs, Zenon DEF RingInv
  <2> SUFFICES ASSUME NEW s \in Working'
               PROVE  /\ rec'[key[s]].by = s /\ key[s] \notin expired'
                      /\ \/ rec'[key[s]].state = "inflight"
                         \/ rec'[key[s]].state = "done" /\ pc'[s] = "abort" /\ backend = "redis"
    BY <1>1 DEF WorkerOwns, InFlight, Done
  <2>2. s \in Requests /\ key[s] \in Keys
    BY DEF Working, RingInv, RingTyped
  <2>3. CASE s = r
    <3>1. pc'[r] = "abort" /\ backend = "redis"
      BY <1>3, <2>3 DEF Working
    <3> QED
      BY <1>4, <2>1, <2>3, <3>1
  <2>4. CASE s # r
    <3>1. s \in Working /\ pc'[s] = pc[s]
      BY <1>2, <2>2, <2>4 DEF Working
    <3>2. /\ rec[key[s]].by = s /\ key[s] \notin expired
          /\ InFlight(key[s]) \/ (Done(key[s]) /\ pc[s] = "abort" /\ backend = "redis")
      BY <3>1 DEF WorkerOwns
    <3>3. key[s] # key[r]
      BY <1>4, <2>4, <3>1 DEF OneWorker
    <3>4. key[s] \notin out
      BY <2>1, <3>2, <3>3 DEF InFlight, Done
    <3> QED
      BY <2>1, <2>2, <3>1, <3>2, <3>3, <3>4 DEF InFlight, Done
  <2> QED
    BY <2>3, <2>4
<1> QED
  BY <1>5, <1>6 DEF Complete, CompleteFails

\* A release touches the record of its own key only.
LEMMA AbortOwns ==
    ASSUME RingInv, WorkerOwns, NEW r \in Requests, Abort(r) \/ AbortFails(r)
    PROVE  WorkerOwns'
<1>1. /\ UNCHANGED <<backend, key>> /\ pc[r] = "abort" /\ pc' = [pc EXCEPT ![r] = "answered"]
  BY DEF Abort, AbortFails, Goto
<1>2. pc'[r] = "answered" /\ \A q \in Requests : q # r => pc'[q] = pc[q]
  BY <1>1 DEF RingInv, RingTyped
<1>3. r \in Working /\ key[r] \in Keys /\ OneWorker
  BY <1>1, OwnersAreAlone DEF Working, RingInv, RingTyped
<1>4. expired' \subseteq expired /\ \A j \in Keys : j # key[r] => rec'[j] = rec[j]
  BY <1>3, ReleasedIs DEF Abort, AbortFails, RingInv, stored
<1> SUFFICES ASSUME NEW s \in Working'
             PROVE  /\ rec'[key[s]].by = s /\ key[s] \notin expired'
                    /\ \/ rec'[key[s]].state = "inflight"
                       \/ rec'[key[s]].state = "done" /\ pc'[s] = "abort" /\ backend = "redis"
  BY <1>1 DEF WorkerOwns, InFlight, Done
<1>5. s # r /\ s \in Working /\ pc'[s] = pc[s] /\ s \in Requests
  BY <1>2 DEF Working
<1>6. key[s] \in Keys /\ key[s] # key[r]
  BY <1>3, <1>5 DEF OneWorker, RingInv, RingTyped
<1> QED
  BY <1>4, <1>5, <1>6 DEF WorkerOwns, InFlight, Done

\* The rest: arrivals and handlers keep the records, refusals collect records nobody owns,
\* deaths end workers, and time does not run out on one.
LEMMA OthersOwn ==
    ASSUME TTLCoversRun, RingInv, WorkerOwns,
           \/ \E r \in Requests : Arrive(r) \/ Handle(r) \/ Refuse(r) \/ Crash(r)
           \/ \E k \in Keys : Expire(k)
    PROVE  WorkerOwns'
<1>1. ASSUME NEW r \in Requests, Arrive(r) \/ Handle(r) PROVE WorkerOwns'
  <2>1. /\ UNCHANGED <<backend, stored, key>> /\ pc[r] \in {"idle", "work"}
        /\ \E next \in {"begin", "complete", "abort"} : pc' = [pc EXCEPT ![r] = next]
        /\ pc[r] = "idle" => pc'[r] = "begin"
    BY <1>1 DEF Arrive, Handle, Goto, RingInv, RingTyped
  <2> QED
    BY <2>1 DEF RingInv, RingTyped, WorkerOwns, Working, InFlight, Done, stored
<1>2. ASSUME NEW r \in Requests, Refuse(r) PROVE WorkerOwns'
  <2>1. /\ UNCHANGED <<backend, key>> /\ pc[r] = "begin" /\ rec' = Collected /\ expired' = {}
        /\ pc' = [pc EXCEPT ![r] = "answered"]
    BY <1>2 DEF Refuse, Goto
  <2>2. \A k \in Keys : k \notin expired => rec'[k] = rec[k]
    BY <2>1, CollectedIs DEF RingInv
  <2> QED
    BY <2>1, <2>2 DEF RingInv, RingTyped, WorkerOwns, Working, InFlight, Done
<1>3. ASSUME NEW r \in Requests, Crash(r) PROVE WorkerOwns'
  <2>1. CASE backend = "redis"
    BY <1>3, <2>1 DEF Crash, Goto, RingInv, RingTyped, WorkerOwns, Working, InFlight, Done, stored
  <2>2. CASE backend # "redis"
    <3>1. Working' = {}
      BY <1>3, <2>2 DEF Crash, Working
    <3> QED
      BY <3>1 DEF WorkerOwns
  <2> QED
    BY <2>1, <2>2
<1>4. ASSUME NEW k \in Keys, Expire(k) PROVE WorkerOwns'
  <2>1. UNCHANGED <<backend, pc, key>> /\ \A r \in Working : key[r] # k
    BY <1>4 DEF Expire, calls
  <2>2. \A j \in Keys : j # k => rec'[j] = rec[j] /\ (j \in expired' => j \in expired)
    BY <1>4 DEF Expire, RingInv, RingTyped
  <2> QED
    BY <2>1, <2>2 DEF RingInv, RingTyped, WorkerOwns, Working, InFlight, Done
<1> QED
  BY <1>1, <1>2, <1>3, <1>4

\* A worker owns its record in every reachable state, if records outlive the requests.
LEMMA NextOwns ==
    ASSUME TTLCoversRun, RingInv, WorkerOwns, [Next]_vars
    PROVE  WorkerOwns'
<1>1. CASE UNCHANGED vars
  BY <1>1 DEF WorkerOwns, Working, InFlight, Done, vars, stored, calls
<1> QED
  BY <1>1, BeginOwns, WriteOwns, AbortOwns, OthersOwn DEF Next, Ring

\* At most one request works under a key at a time, in either store, whatever is aborted, evicted,
\* completed late or retried around it, provided a record lives longer than a request runs.
THEOREM WorkersAreAlone ==
    ASSUME TTLCoversRun PROVE Spec => []OneWorker
<1>1. Init => RingInv /\ WorkerOwns
  BY InitRing DEF Init, WorkerOwns, Working
<1>2. RingInv /\ WorkerOwns /\ [Next]_vars => RingInv' /\ WorkerOwns'
  BY NextRing, NextOwns
<1> QED
  BY <1>1, <1>2, OwnersAreAlone, PTL DEF Spec

-----------------------------------------------------------------------------
(* Side effects happen once for every time the record was let go.          *)

\* The charge is one or nothing.
LEMMA ChargeIs ==
    ASSUME NEW k
    PROVE  /\ Charge(k) \in {0, 1}
           /\ Charge(k) = 1 <=>
                 /\ rec[k].state # "none" /\ k \notin expired
                 /\ InFlight(k) => \A r \in Requests : key[r] = k => pc[r] \notin {"work", "abort"}
BY DEF Charge

\* The bill of one key.
Billed(k) == IsFiniteSet(works[k]) /\ Cardinality(works[k]) <= excused[k] + Charge(k)

\* A step without side effects keeps the bill paid if a charge that disappears is excused.
LEMMA SameBill ==
    ASSUME RingInv, RingInv', WorksPaidFor, NEW k \in Keys, works'[k] = works[k],
           excused'[k] >= excused[k], Charge(k) = 1 => Charge(k)' = 1 \/ excused'[k] = excused[k] + 1
    PROVE  Billed(k)'
<1>1. excused[k] \in Nat /\ excused'[k] \in Nat
  BY DEF RingInv, RingTyped
<1>2. IsFiniteSet(works[k]) /\ Cardinality(works[k]) <= excused[k] + Charge(k)
  BY DEF WorksPaidFor
<1>3. Cardinality(works[k]) \in Nat
  BY <1>2, FS_CardinalityType
<1>4. Charge(k) \in {0, 1} /\ Charge(k)' \in {0, 1}
  BY ChargeIs DEF Charge
<1> QED
  BY <1>1, <1>2, <1>3, <1>4 DEF Billed

\* The handler's side effects are charged to its own reservation, or excused at once when
\* its response is too large to record.
LEMMA HandleBilled ==
    ASSUME RingInv, RingInv', WorkerOwns, WorksPaidFor, NEW r \in Requests, Handle(r), NEW k \in Keys
    PROVE  Billed(k)'
<1>1. /\ pc[r] = "work" /\ UNCHANGED <<stored, key>> /\ key[r] \in Keys /\ r \in Working
      /\ pc'[r] \in {"complete", "abort"} /\ \A q \in Requests : q # r => pc'[q] = pc[q]
  BY DEF Handle, Goto, RingInv, RingTyped, Working
<1>2. /\ InFlight(key[r]) /\ key[r] \notin expired /\ OneWorker
  BY <1>1, OwnersAreAlone DEF WorkerOwns
<1>3. CASE k # key[r]
  <2>1. works'[k] = works[k] /\ excused'[k] = excused[k]
    BY <1>3 DEF Handle, Forget, RingInv, RingTyped
  <2>2. Charge(k)' = Charge(k)
    BY <1>1, <1>3 DEF Charge, InFlight, stored
  <2>3. excused'[k] >= excused[k]
    BY <2>1 DEF RingInv, RingTyped
  <2> QED
    BY <2>1, <2>2, <2>3, SameBill
<1>4. CASE k = key[r]
  <2>1. Charge(k) = 0
    BY <1>1, <1>2, <1>4 DEF Charge
  <2>2. /\ IsFiniteSet(works[k]) /\ Cardinality(works[k]) <= excused[k]
        /\ Cardinality(works[k]) \in Nat /\ excused[k] \in Nat
    BY <2>1, FS_CardinalityType DEF WorksPaidFor, RingInv, RingTyped
  <2>3. CASE works' = works /\ excused' = excused
    <3>1. Charge(k)' \in {0, 1}
      BY DEF Charge
    <3> QED
      BY <2>2, <2>3, <3>1 DEF Billed
  <2>4. CASE ~(works' = works /\ excused' = excused)
    <3>1. works'[k] = works[k] \cup {r}
      BY <1>4, <2>4 DEF Handle, RingInv, RingTyped
    <3>2. IsFiniteSet(works'[k]) /\ Cardinality(works'[k]) <= Cardinality(works[k]) + 1
          /\ Cardinality(works'[k]) \in Nat
      <4>1. /\ IsFiniteSet(works[k] \cup {r})
            /\ Cardinality(works[k] \cup {r}) = IF r \in works[k] THEN Cardinality(works[k])
                                                                 ELSE Cardinality(works[k]) + 1
        BY <2>2, FS_AddElement
      <4> QED
        BY <2>2, <3>1, <4>1
    <3>3. CASE pc'[r] = "complete"
      <4>1. excused' = excused
        BY <3>3 DEF Handle, Goto, RingInv, RingTyped
      <4>2. \A q \in Requests : key[q] = k => pc'[q] \notin {"work", "abort"}
        BY <1>1, <1>2, <1>4, <3>3 DEF OneWorker, Working
      <4>3. Charge(k)' = 1
        BY <1>1, <1>2, <1>4, <4>2 DEF Charge, InFlight, stored
      <4> QED
        BY <2>2, <3>2, <4>1, <4>3 DEF Billed
    <3>4. CASE pc'[r] = "abort"
      <4>1. excused'[k] = excused[k] + 1
        BY <1>4, <2>4, <3>4 DEF Handle, Goto, Forget, RingInv, RingTyped
      <4>2. Charge(k)' \in {0, 1}
        BY DEF Charge
      <4> QED
        BY <2>2, <3>2, <4>1, <4>2 DEF Billed
    <3> QED
      BY <1>1, <3>3, <3>4
  <2> QED
    BY <2>3, <2>4
<1> QED
  BY <1>3, <1>4

\* A completion keeps the charge of its record, or drops it with an excuse.
LEMMA CompleteBilled ==
    ASSUME RingInv, RingInv', WorkerOwns, WorksPaidFor, NEW r \in Requests,
           Complete(r) \/ CompleteFails(r), NEW k \in Keys
    PROVE  Billed(k)'
<1>1. /\ works' = works /\ key' = key /\ pc[r] = "complete" /\ key[r] \in Keys
      /\ pc'[r] \in {"abort", "answered"} /\ \A q \in Requests : q # r => pc'[q] = pc[q]
  BY DEF Complete, CompleteFails, Goto, RingInv, RingTyped
<1>2. excused[k] \in Nat
  BY DEF RingInv, RingTyped
<1>3. CASE UNCHANGED stored /\ Forget({key[r]})
  <2>1. excused'[k] = IF k = key[r] THEN excused[k] + 1 ELSE excused[k]
    BY <1>3 DEF Forget
  <2>2. k # key[r] => Charge(k)' = Charge(k)
    BY <1>1, <1>3 DEF Charge, InFlight, stored
  <2> QED
    BY <1>1, <1>2, <2>1, <2>2, SameBill
<1>4. CASE Write(r)
  <2>1. PICK out \in SUBSET Keys :
            /\ backend # "memory" => out = {}
            /\ expired' = expired \ (out \cup {key[r]})
            /\ \A j \in out : j = key[r] \/ Done(j)
            /\ \A j \in Keys :
                  /\ rec'[j] = IF j \in out THEN Nothing
                               ELSE IF j = key[r] THEN [state |-> "done", by |-> r] ELSE rec[j]
                  /\ excused'[j] = IF j \in out THEN excused[j] + 1 ELSE excused[j]
    BY <1>4, WriteIs, Zenon DEF RingInv
  <2>2. CASE k \in out
    BY <1>1, <1>2, <2>1, <2>2, SameBill
  <2>3. CASE k \notin out /\ k = key[r]
    <3>1. Charge(k)' = 1
      BY <1>1, <2>1, <2>3 DEF Charge, InFlight
    <3> QED
      BY <1>1, <1>2, <2>1, <2>3, <3>1, SameBill
  <2>4. CASE k \notin out /\ k # key[r]
    <3>1. rec'[k] = rec[k] /\ (k \in expired' <=> k \in expired)
      BY <2>1, <2>4
    <3>2. Charge(k)' = Charge(k)
      BY <1>1, <2>4, <3>1 DEF Charge, InFlight
    <3> QED
      BY <1>1, <1>2, <2>1, <2>4, <3>2, SameBill
  <2> QED
    BY <2>2, <2>3, <2>4
<1> QED
  BY <1>3, <1>4 DEF Complete, CompleteFails

\* A release gives up a reservation that stands for no side effects.
LEMMA AbortBilled ==
    ASSUME RingInv, RingInv', WorkerOwns, WorksPaidFor, NEW r \in Requests,
           Abort(r) \/ AbortFails(r), NEW k \in Keys
    PROVE  Billed(k)'
<1>1. /\ works' = works /\ excused' = excused /\ key' = key /\ pc[r] = "abort" /\ key[r] \in Keys
      /\ pc'[r] = "answered" /\ \A q \in Requests : q # r => pc'[q] = pc[q]
  BY DEF Abort, AbortFails, Goto, RingInv, RingTyped
<1>2. excused'[k] >= excused[k]
  BY <1>1 DEF RingInv, RingTyped
<1>3. /\ expired' \subseteq expired
      /\ \A j \in Keys : rec'[j] = rec[j] \/ (j = key[r] /\ InFlight(key[r]))
  BY <1>1, ReleasedIs DEF Abort, AbortFails, RingInv, stored
<1>4. Charge(k) = 1 => Charge(k)' = 1
  <2> SUFFICES ASSUME Charge(k) = 1 PROVE Charge(k)' = 1
    OBVIOUS
  <2>1. /\ rec[k].state # "none" /\ k \notin expired
        /\ InFlight(k) => \A q \in Requests : key[q] = k => pc[q] \notin {"work", "abort"}
    BY ChargeIs
  <2>2. rec'[k] = rec[k] /\ k \notin expired'
    BY <1>1, <1>3, <2>1
  <2>3. InFlight(k) => \A q \in Requests : key[q] = k => pc'[q] \notin {"work", "abort"}
    BY <1>1, <2>1
  <2> QED
    BY <1>1, <2>1, <2>2, <2>3 DEF Charge, InFlight
<1> QED
  BY <1>1, <1>2, <1>4, SameBill

\* A reservation replaces a record that was let go, and collecting forgets no charge.
LEMMA BeginBilled ==
    ASSUME RingInv, RingInv', WorkerOwns, WorksPaidFor, NEW r \in Requests,
           Arrive(r) \/ Begin(r) \/ BeginUnanswered(r) \/ Refuse(r), NEW k \in Keys
    PROVE  Billed(k)'
<1>1. /\ works' = works /\ excused' = excused /\ key' = key /\ key[r] \in Keys
      /\ pc[r] \in {"idle", "begin"}
      /\ pc'[r] \in {"begin", "work", "answered"} /\ \A q \in Requests : q # r => pc'[q] = pc[q]
  BY DEF Arrive, Begin, BeginUnanswered, Refuse, Goto, history, RingInv, RingTyped
<1>2. excused'[k] >= excused[k]
  BY <1>1 DEF RingInv, RingTyped
<1>3. ASSUME Charge(k) = 1, rec'[k] = rec[k], k \notin expired', pc'[r] = "work" => k # key[r]
      PROVE  Charge(k)' = 1
  <2>1. /\ rec[k].state # "none"
        /\ InFlight(k) => \A q \in Requests : key[q] = k => pc[q] \notin {"work", "abort"}
    BY <1>3, ChargeIs
  <2>2. InFlight(k) => \A q \in Requests : key[q] = k => pc'[q] \notin {"work", "abort"}
    BY <1>1, <1>3, <2>1
  <2> QED
    BY <1>1, <1>3, <2>1, <2>2 DEF Charge, InFlight
<1>4. Charge(k) = 1 => Charge(k)' = 1
  <2> SUFFICES ASSUME Charge(k) = 1 PROVE Charge(k)' = 1
    OBVIOUS
  <2>1. rec[k].state # "none" /\ k \notin expired
    BY ChargeIs
  <2>2. CASE Reservable(r) /\ Reserved(r)
    <3>1. /\ expired' = {}
          /\ rec'[k] = IF k = key[r] THEN [state |-> "inflight", by |-> r]
                       ELSE IF k \in expired THEN Nothing ELSE rec[k]
      BY <2>2, ReservedIs DEF RingInv
    <3>2. k # key[r]
      BY <2>1, <2>2, CollectedIs DEF Reservable, RingInv
    <3> QED
      BY <1>3, <2>1, <3>1, <3>2
  <2>3. CASE Refuse(r)
    <3>1. expired' = {} /\ rec'[k] = rec[k] /\ pc'[r] = "answered"
      BY <2>1, <2>3, CollectedIs DEF Refuse, Goto, RingInv, RingTyped
    <3> QED
      BY <1>3, <3>1
  <2>4. CASE UNCHANGED stored /\ pc'[r] # "work"
    BY <1>3, <2>1, <2>4 DEF stored
  <2>5. Arrive(r) \/ BeginUnanswered(r) => pc'[r] # "work"
    BY DEF Arrive, BeginUnanswered, Goto, RingInv, RingTyped
  <2> QED
    BY <2>2, <2>3, <2>4, <2>5 DEF Arrive, Begin, BeginUnanswered
<1> QED
  BY <1>1, <1>2, <1>4, SameBill

\* A death and the clock take no charge away without an excuse.
LEMMA LossBilled ==
    ASSUME RingInv, RingInv', WorksPaidFor, NEW k \in Keys,
           (\E r \in Requests : Crash(r)) \/ (\E j \in Keys : Expire(j)) \/ UNCHANGED vars
    PROVE  Billed(k)'
<1>0. excused[k] \in Nat
  BY DEF RingInv, RingTyped
<1>1. ASSUME NEW r \in Requests, Crash(r) PROVE Billed(k)'
  <2>1. CASE backend = "redis"
    <3>1. /\ UNCHANGED <<stored, excused, works, key>> /\ pc'[r] = "answered"
          /\ \A q \in Requests : q # r => pc'[q] = pc[q]
      BY <1>1, <2>1 DEF Crash, Goto, RingInv, RingTyped
    <3>2. Charge(k) = 1 => Charge(k)' = 1
      <4> SUFFICES ASSUME Charge(k) = 1 PROVE Charge(k)' = 1
        OBVIOUS
      <4>1. /\ rec[k].state # "none" /\ k \notin expired
            /\ InFlight(k) => \A q \in Requests : key[q] = k => pc[q] \notin {"work", "abort"}
        BY ChargeIs
      <4>2. InFlight(k) => \A q \in Requests : key[q] = k => pc'[q] \notin {"work", "abort"}
        BY <3>1, <4>1
      <4> QED
        BY <3>1, <4>1, <4>2 DEF Charge, InFlight, stored
    <3> QED
      BY <1>0, <3>1, <3>2, SameBill
  <2>2. CASE backend # "redis"
    <3>1. works' = works /\ excused'[k] = excused[k] + 1
      BY <1>1, <2>2 DEF Crash, Forget
    <3> QED
      BY <1>0, <3>1, SameBill
  <2> QED
    BY <2>1, <2>2
<1>2. ASSUME NEW j \in Keys, Expire(j) PROVE Billed(k)'
  <2>1. works' = works /\ pc' = pc /\ key' = key
        /\ excused'[k] = IF k = j THEN excused[k] + 1 ELSE excused[k]
    BY <1>2 DEF Expire, Forget, calls
  <2>2. k # j => rec'[k] = rec[k] /\ (k \in expired' <=> k \in expired)
    BY <1>2 DEF Expire, RingInv, RingTyped
  <2>3. k # j => Charge(k)' = Charge(k)
    BY <2>1, <2>2 DEF Charge, InFlight
  <2> QED
    BY <1>0, <2>1, <2>3, SameBill
<1>3. CASE UNCHANGED vars
  <2>1. works' = works /\ excused' = excused
    BY <1>3 DEF vars, history
  <2>2. Charge(k)' = Charge(k)
    BY <1>3 DEF vars, stored, calls, Charge, InFlight
  <2> QED
    BY <1>0, <2>1, <2>2, SameBill
<1> QED
  BY <1>1, <1>2, <1>3

\* The side effects of a key happen once for every time its record was let go (it expired, the
\* budget dropped it, its response could not be recorded, its process died with the store),
\* provided a record lives longer than a request runs.
THEOREM EffectsAreExcused ==
    ASSUME TTLCoversRun PROVE Spec => []WorkedOnce
<1>1. Init => RingInv /\ WorkerOwns /\ WorksPaidFor
  <2> SUFFICES ASSUME Init PROVE RingInv /\ WorkerOwns /\ WorksPaidFor
    OBVIOUS
  <2>1. \A k \in Keys : Charge(k) \in {0, 1}
    BY ChargeIs
  <2>2. WorksPaidFor
    BY <2>1, FS_EmptySet DEF Init, WorksPaidFor
  <2> QED
    BY <2>2, InitRing DEF Init, WorkerOwns, Working
<1>2. RingInv /\ WorkerOwns /\ WorksPaidFor /\ [Next]_vars => RingInv' /\ WorkerOwns' /\ WorksPaidFor'
  <2> SUFFICES ASSUME RingInv, WorkerOwns, WorksPaidFor, [Next]_vars
               PROVE  RingInv' /\ WorkerOwns' /\ WorksPaidFor'
    OBVIOUS
  <2>1. RingInv' /\ WorkerOwns'
    BY NextRing, NextOwns
  <2>2. ASSUME NEW k \in Keys PROVE Billed(k)'
    BY <2>1, HandleBilled, CompleteBilled, AbortBilled, BeginBilled, LossBilled DEF Next, Ring
  <2> QED
    BY <2>1, <2>2 DEF WorksPaidFor, Billed
<1>3. RingInv /\ WorksPaidFor => WorkedOnce
  <2> SUFFICES ASSUME RingInv, WorksPaidFor, NEW k \in Keys
               PROVE  Cardinality(works[k]) <= 1 + excused[k]
    BY DEF WorkedOnce
  <2>1. Charge(k) \in {0, 1} /\ excused[k] \in Nat
    BY ChargeIs DEF RingInv, RingTyped
  <2>2. Cardinality(works[k]) \in Nat /\ Cardinality(works[k]) <= excused[k] + Charge(k)
    BY FS_CardinalityType DEF WorksPaidFor
  <2> QED
    BY <2>1, <2>2
<1> QED
  BY <1>1, <1>2, <1>3, PTL DEF Spec

-----------------------------------------------------------------------------
(* The memory store's list.                                                *)

\* The list without the members of S, one entry after another
Keeping(q, S, n, g) ==
    g = [i \in 0..n |-> IF i = 0 THEN <<>> ELSE IF q[i] \in S THEN g[i - 1] ELSE Append(g[i - 1], q[i])]

\* There is such a list after every number of entries.
LEMMA KeepingExists ==
    ASSUME NEW q, NEW S, NEW n \in Nat
    PROVE  \E g : Keeping(q, S, n, g)
<1> DEFINE T == {k \in Nat : \E g : Keeping(q, S, k, g)}
<1>1. 0 \in T
  <2>1. Keeping(q, S, 0, [i \in 0..0 |-> <<>>])
    BY DEF Keeping
  <2> QED
    BY <2>1
<1>2. ASSUME NEW k \in Nat, k \in T PROVE k + 1 \in T
  <2>1. PICK g : Keeping(q, S, k, g)
    BY <1>2
  <2> DEFINE last == IF q[k + 1] \in S THEN g[k] ELSE Append(g[k], q[k + 1])
             h == [i \in 0..(k + 1) |-> IF i = k + 1 THEN last ELSE g[i]]
             e == [i \in 0..(k + 1) |-> IF i = 0 THEN <<>> ELSE IF q[i] \in S THEN h[i - 1] ELSE Append(h[i - 1], q[i])]
  <2>2. \A i \in 0..k : g[i] = IF i = 0 THEN <<>> ELSE IF q[i] \in S THEN g[i - 1] ELSE Append(g[i - 1], q[i])
    BY <2>1 DEF Keeping
  <2>h. \A i \in 0..(k + 1) : h[i] = IF i = k + 1 THEN last ELSE g[i]
    OBVIOUS
  <2>d. h = [i \in 0..(k + 1) |-> h[i]]
    OBVIOUS
  <2> HIDE DEF h
  <2>3. ASSUME NEW i \in 0..(k + 1)
        PROVE  h[i] = IF i = 0 THEN <<>> ELSE IF q[i] \in S THEN h[i - 1] ELSE Append(h[i - 1], q[i])
    <3>1. CASE i = k + 1
      <4>1. h[i - 1] = g[k] /\ h[i] = last /\ i # 0
        BY <2>h, <3>1
      <4> QED
        BY <3>1, <4>1
    <3>2. CASE i # k + 1
      <4>1. i \in 0..k /\ h[i] = g[i]
        BY <2>h, <3>2
      <4>2. i # 0 => i - 1 \in 0..k /\ h[i - 1] = g[i - 1]
        BY <2>h, <4>1
      <4> QED
        BY <2>2, <4>1, <4>2
    <3> QED
      BY <3>1, <3>2
  <2>4. Keeping(q, S, k + 1, h)
    BY <2>3, <2>d DEF Keeping
  <2> QED
    BY <2>4
<1> HIDE DEF T
<1>3. \A k \in Nat : k \in T
  BY <1>1, <1>2, SetInduction
<1> QED
  BY <1>3 DEF T

\* How w lists the first n entries of q without S: at what place of q each stood
Places(q, S, n, w, f) ==
    /\ f \in [1..Len(w) -> 1..n]
    /\ \A i \in 1..Len(w) : w[i] = q[f[i]] /\ q[f[i]] \notin S
    /\ \A i, j \in 1..Len(w) : i < j => f[i] < f[j]
    /\ \A m \in 1..n : q[m] \notin S => \E i \in 1..Len(w) : f[i] = m

\* One entry more: it is left out, or goes to the end.
LEMMA PlacesOneMore ==
    ASSUME NEW q \in Seq(Keys), NEW S, NEW n \in Nat, n + 1 <= Len(q), NEW w \in Seq(Keys), NEW f, Places(q, S, n, w, f)
    PROVE  LET v == IF q[n + 1] \in S THEN w ELSE Append(w, q[n + 1])
           IN v \in Seq(Keys) /\ \E e : Places(q, S, n + 1, v, e)
<1>0. q[n + 1] \in Keys /\ Len(w) \in Nat
  OBVIOUS
<1>1. CASE q[n + 1] \in S
  <2>1. f \in [1..Len(w) -> 1..(n + 1)]
    BY DEF Places
  <2>2. \A m \in 1..(n + 1) : q[m] \notin S => m \in 1..n
    BY <1>1
  <2>3. Places(q, S, n + 1, w, f)
    BY <2>1, <2>2 DEF Places
  <2> QED
    BY <1>1, <2>3
<1>2. CASE q[n + 1] \notin S
  <2> DEFINE v == Append(w, q[n + 1])
             k == Len(w)
             e == [i \in 1..(k + 1) |-> IF i = k + 1 THEN n + 1 ELSE f[i]]
  <2>1. v \in Seq(Keys) /\ Len(v) = k + 1 /\ v[k + 1] = q[n + 1] /\ \A i \in 1..k : v[i] = w[i]
    BY <1>0
  <2>2. k \in Nat
    OBVIOUS
  <2>f. /\ \A i \in 1..k : f[i] \in 1..n /\ w[i] = q[f[i]] /\ q[f[i]] \notin S
        /\ \A i, j \in 1..k : i < j => f[i] < f[j]
        /\ \A m \in 1..n : q[m] \notin S => \E i \in 1..k : f[i] = m
    BY DEF Places
  <2> HIDE DEF v, k
  <2>3. e \in [1..(k + 1) -> 1..(n + 1)] /\ \A i \in 1..(k + 1) : e[i] = IF i = k + 1 THEN n + 1 ELSE f[i]
    BY <2>2, <2>f
  <2> HIDE DEF e
  <2>l. e[k + 1] = n + 1 /\ \A i \in 1..k : e[i] = f[i] /\ f[i] \in 1..n
    BY <2>2, <2>3, <2>f
  <2>4. ASSUME NEW i \in 1..(k + 1) PROVE v[i] = q[e[i]] /\ q[e[i]] \notin S
    <3>1. CASE i = k + 1
      BY <1>2, <2>1, <2>l, <3>1
    <3>2. CASE i # k + 1
      <4>1. i \in 1..k
        BY <2>2, <3>2
      <4>2. v[i] = w[i] /\ e[i] = f[i] /\ w[i] = q[f[i]] /\ q[f[i]] \notin S
        BY <2>1, <2>l, <2>f, <4>1
      <4> QED
        BY <4>2
    <3> QED
      BY <3>1, <3>2
  <2>5. ASSUME NEW i \in 1..(k + 1), NEW j \in 1..(k + 1), i < j PROVE e[i] < e[j]
    <3>1. i \in 1..k /\ e[i] = f[i] /\ f[i] \in 1..n
      BY <2>2, <2>5, <2>l
    <3>2. CASE j = k + 1
      BY <2>l, <3>1, <3>2
    <3>3. CASE j # k + 1
      <4>1. j \in 1..k
        BY <2>2, <3>3
      <4>2. e[j] = f[j]
        BY <2>l, <4>1
      <4>3. f[i] < f[j]
        BY <2>f, <2>5, <3>1, <4>1
      <4> QED
        BY <3>1, <4>2, <4>3
    <3> QED
      BY <3>2, <3>3
  <2>6. ASSUME NEW m \in 1..(n + 1), q[m] \notin S PROVE \E i \in 1..(k + 1) : e[i] = m
    <3>1. CASE m = n + 1
      BY <2>2, <2>3, <3>1
    <3>2. CASE m # n + 1
      <4>1. PICK i \in 1..k : f[i] = m
        BY <2>6, <2>f, <3>2
      <4> QED
        BY <2>2, <2>3, <4>1
    <3> QED
      BY <3>1, <3>2
  <2>7. Places(q, S, n + 1, v, e)
    BY <2>1, <2>3, <2>4, <2>5, <2>6 DEF Places
  <2> QED
    BY <1>2, <2>1, <2>7 DEF v
<1> QED
  BY <1>1, <1>2

\* What is left of a list, and in what order.
LEMMA WithoutIs ==
    ASSUME NEW q \in Seq(Keys), NEW S
    PROVE  /\ Without(q, S) \in Seq(Keys)
           /\ \E f : Places(q, S, Len(q), Without(q, S), f)
<1> DEFINE g == CHOOSE h : Keeping(q, S, Len(q), h)
<1>0. Len(q) \in Nat
  OBVIOUS
<1>1. Without(q, S) = g[Len(q)]
  BY DEF Without, Keeping
<1>2. Keeping(q, S, Len(q), g)
  BY <1>0, KeepingExists
<1> HIDE DEF g
<1>3. \A i \in 0..Len(q) : g[i] = IF i = 0 THEN <<>> ELSE IF q[i] \in S THEN g[i - 1] ELSE Append(g[i - 1], q[i])
  BY <1>2 DEF Keeping
<1> DEFINE T == {n \in Nat : n <= Len(q) => g[n] \in Seq(Keys) /\ \E f : Places(q, S, n, g[n], f)}
<1>4. 0 \in T
  <2>1. g[0] = <<>>
    BY <1>0, <1>3
  <2>2. Places(q, S, 0, <<>>, [i \in 1..0 |-> 0])
    <3>1. Len(<<>>) = 0 /\ 1..0 = {}
      OBVIOUS
    <3> QED
      BY <3>1 DEF Places
  <2>3. g[0] \in Seq(Keys)
    BY <2>1
  <2>4. \E f : Places(q, S, 0, g[0], f)
    BY <2>1, <2>2
  <2> QED
    BY <2>3, <2>4
<1>5. ASSUME NEW n \in Nat, n \in T PROVE n + 1 \in T
  <2> SUFFICES ASSUME n + 1 <= Len(q)
               PROVE  g[n + 1] \in Seq(Keys) /\ \E f : Places(q, S, n + 1, g[n + 1], f)
    OBVIOUS
  <2>1. PICK w, f : w = g[n] /\ w \in Seq(Keys) /\ Places(q, S, n, w, f)
    BY <1>0, <1>5
  <2>2. g[n + 1] = IF q[n + 1] \in S THEN w ELSE Append(w, q[n + 1])
    BY <1>0, <1>3, <2>1
  <2> QED
    BY <2>1, <2>2, PlacesOneMore
<1> HIDE DEF T
<1>6. \A n \in Nat : n \in T
  BY <1>4, <1>5, SetInduction
<1>7. Len(q) \in T
  BY <1>0, <1>6
<1> QED
  BY <1>0, <1>1, <1>7 DEF T

\* The list q has every key of K once, and no other.
Listing(q, K) ==
    /\ q \in Seq(Keys)
    /\ \A m, n \in 1..Len(q) : q[m] = q[n] => m = n
    /\ \A k \in Keys : (\E n \in 1..Len(q) : q[n] = k) <=> k \in K

\* The empty list has no key.
LEMMA EmptyListing == Listing(<<>>, {})
<1>1. <<>> \in Seq(Keys) /\ Len(<<>>) = 0 /\ 1..0 = {}
  OBVIOUS
<1> QED
  BY <1>1 DEF Listing

\* Removing from a list.
LEMMA WithoutLists ==
    ASSUME NEW q, NEW K, NEW S, Listing(q, K)
    PROVE  Listing(Without(q, S), K \ S)
<1>1. /\ q \in Seq(Keys)
      /\ \A m, n \in 1..Len(q) : q[m] = q[n] => m = n
      /\ \A k \in Keys : (\E n \in 1..Len(q) : q[n] = k) <=> k \in K
  BY DEF Listing
<1>2. PICK w, f : w = Without(q, S) /\ w \in Seq(Keys) /\ Places(q, S, Len(q), w, f)
  BY <1>1, WithoutIs
<1>3. /\ \A i \in 1..Len(w) : f[i] \in 1..Len(q) /\ w[i] = q[f[i]] /\ q[f[i]] \notin S
      /\ \A i, j \in 1..Len(w) : i < j => f[i] < f[j]
      /\ \A m \in 1..Len(q) : q[m] \notin S => \E i \in 1..Len(w) : f[i] = m
  BY <1>2 DEF Places
<1>4. Len(w) \in Nat /\ Len(q) \in Nat
  BY <1>1, <1>2
<1>5. ASSUME NEW i \in 1..Len(w), NEW j \in 1..Len(w), w[i] = w[j] PROVE i = j
  <2>0. f[i] \in 1..Len(q) /\ f[j] \in 1..Len(q) /\ q[f[i]] = q[f[j]]
    BY <1>3, <1>5
  <2>1. f[i] = f[j] /\ f[i] \in Nat
    BY <1>1, <1>4, <2>0
  <2>2. ~(i < j) /\ ~(j < i)
    BY <1>3, <1>4, <2>1
  <2> QED
    BY <1>4, <2>2
<1>6. ASSUME NEW k \in Keys PROVE (\E i \in 1..Len(w) : w[i] = k) <=> k \in K \ S
  <2>1. ASSUME NEW i \in 1..Len(w), w[i] = k PROVE k \in K \ S
    BY <1>1, <1>3, <2>1
  <2>2. ASSUME k \in K \ S PROVE \E i \in 1..Len(w) : w[i] = k
    <3>1. PICK m \in 1..Len(q) : q[m] = k
      BY <1>1, <2>2
    <3>2. PICK i \in 1..Len(w) : f[i] = m
      BY <1>3, <2>2, <3>1
    <3> QED
      BY <1>3, <3>1, <3>2
  <2> QED
    BY <2>1, <2>2
<1>7. Listing(w, K \ S)
  BY <1>2, <1>5, <1>6 DEF Listing
<1> QED
  BY <1>2, <1>7

\* Adding to the end of a list.
LEMMA AppendLists ==
    ASSUME NEW q, NEW K, NEW k \in Keys, k \notin K, Listing(q, K)
    PROVE  Listing(Append(q, k), K \cup {k})
<1>1. /\ q \in Seq(Keys)
      /\ \A m, n \in 1..Len(q) : q[m] = q[n] => m = n
      /\ \A j \in Keys : (\E n \in 1..Len(q) : q[n] = j) <=> j \in K
  BY DEF Listing
<1>2. PICK w, l : w = Append(q, k) /\ l = Len(q)
  OBVIOUS
<1>3. l \in Nat /\ w \in Seq(Keys) /\ Len(w) = l + 1 /\ w[l + 1] = k /\ \A i \in 1..l : w[i] = q[i] /\ q[i] \in Keys
  BY <1>1, <1>2
<1>4. \A i \in 1..l : w[i] # k
  BY <1>1, <1>2, <1>3
<1>5. ASSUME NEW i \in 1..(l + 1), NEW j \in 1..(l + 1), w[i] = w[j] PROVE i = j
  <2>1. CASE i = l + 1 \/ j = l + 1
    <3>1. \A m \in 1..(l + 1) : w[m] = k => m = l + 1
      <4> TAKE m \in 1..(l + 1)
      <4>1. m # l + 1 => m \in 1..l
        BY <1>3
      <4> QED
        BY <1>4, <4>1
    <3> QED
      BY <1>3, <1>5, <2>1, <3>1
  <2>2. CASE i # l + 1 /\ j # l + 1
    <3>1. i \in 1..l /\ j \in 1..l
      BY <1>3, <2>2
    <3>2. q[i] = q[j]
      BY <1>3, <1>5, <3>1
    <3> QED
      BY <1>1, <1>2, <3>1, <3>2
  <2> QED
    BY <2>1, <2>2
<1>6. ASSUME NEW j \in Keys PROVE (\E i \in 1..(l + 1) : w[i] = j) <=> j \in K \cup {k}
  <2>1. ASSUME NEW i \in 1..(l + 1), w[i] = j PROVE j \in K \cup {k}
    <3>1. i # l + 1 => i \in 1..l
      BY <1>3
    <3> QED
      BY <1>1, <1>2, <1>3, <2>1, <3>1
  <2>2. ASSUME j \in K PROVE \E i \in 1..(l + 1) : w[i] = j
    <3>1. PICK i \in 1..l : q[i] = j
      BY <1>1, <1>2, <2>2
    <3>2. i \in 1..(l + 1) /\ w[i] = j
      BY <1>3, <3>1
    <3> QED
      BY <3>2
  <2>3. \E i \in 1..(l + 1) : w[i] = k
    <3>1. l + 1 \in 1..(l + 1)
      BY <1>3
    <3> QED
      BY <1>3, <3>1
  <2> QED
    BY <2>1, <2>2, <2>3
<1>7. Listing(w, K \cup {k})
  BY <1>3, <1>5, <1>6 DEF Listing
<1> QED
  BY <1>2, <1>7

\* If a completed record is dropped for the budget, so is every completed record
\* before it in the list.
LEMMA OlderGoToo ==
    ASSUME NEW q, NEW K, Listing(q, K), NEW at, NEW i \in 1..Len(q), NEW j \in 1..Len(q), i < j,
           at[q[i]].state = "done", q[j] \in FitBudget(q, at)
    PROVE  q[i] \in FitBudget(q, at)
<1> DEFINE completed == {n \in 1..Len(q) : at[q[n]].state = "done"}
           after(p) == {m \in completed : m > p}
<1>1. q \in Seq(Keys) /\ \A m, n \in 1..Len(q) : q[m] = q[n] => m = n
  BY DEF Listing
<1>2. Len(q) \in Nat /\ q[i] \in Keys
  BY <1>1
<1>3. PICK n \in completed : q[n] = q[j] /\ Cardinality(after(n)) >= Budget
  BY DEF FitBudget
<1>4. n = j
  BY <1>1, <1>3
<1>5. after(j) \subseteq after(i)
  BY <1>2
<1>6. IsFiniteSet(after(i))
  <2>1. IsFiniteSet(1..Len(q)) /\ after(i) \subseteq 1..Len(q)
    BY <1>2, FS_Interval
  <2> QED
    BY <2>1, FS_Subset
<1>7. i \in completed
  OBVIOUS
<1> HIDE DEF after
<1>8. IsFiniteSet(after(j)) /\ Cardinality(after(j)) <= Cardinality(after(i))
  BY <1>5, <1>6, FS_Subset
<1>9. Cardinality(after(i)) \in Nat /\ Cardinality(after(j)) \in Nat
  BY <1>6, <1>8, FS_CardinalityType
<1>a. Cardinality(after(i)) >= Budget
  BY <1>3, <1>4, <1>8, <1>9, RingAssumption
<1>b. Cardinality({m \in completed : m > i}) >= Budget
  BY <1>a DEF after
<1> QED
  BY <1>2, <1>7, <1>b DEF FitBudget

\* The keys the memory store has a record of
Recorded == IF backend = "memory" THEN {k \in Keys : rec[k] # Nothing} ELSE {}

\* The memory store lists every record it has, once; Redis has no list.
ListOK == Listing(queue, Recorded)

\* What an operation makes of the list.
LEMMA ListAfter ==
    ASSUME UNCHANGED backend, NEW q, NEW K, Queued(q), Listing(q, K),
           backend = "memory" => K = {k \in Keys : rec'[k] # Nothing}
    PROVE  ListOK'
<1>1. CASE backend = "memory"
  <2>1. queue' = q /\ Recorded' = K
    BY <1>1 DEF Queued, Recorded
  <2> QED
    BY <2>1 DEF ListOK
<1>2. CASE backend # "memory"
  <2>1. queue' = <<>> /\ Recorded' = {}
    BY <1>2 DEF Queued, Recorded
  <2> QED
    BY <2>1, EmptyListing DEF ListOK
<1> QED
  BY <1>1, <1>2

\* A state that keeps the list and the records that are there.
LEMMA ListSame ==
    ASSUME ListOK, UNCHANGED <<backend, queue>>,
           backend = "memory" => UNCHANGED rec
    PROVE  ListOK'
BY DEF ListOK, Recorded

\* A reservation goes to the end of the list, the expired records leave it.
LEMMA ReservedLists ==
    ASSUME RingInv, ListOK, NEW r \in Requests, Reserved(r), Reservable(r), UNCHANGED backend
    PROVE  ListOK'
<1> DEFINE k == key[r]
           K == (Recorded \ expired) \cup {k}
<1>0. k \in Keys
  BY DEF RingInv, RingTyped
<1>1. /\ \A j \in Keys : rec'[j] = IF j = k THEN [state |-> "inflight", by |-> r]
                                   ELSE IF j \in expired THEN Nothing ELSE rec[j]
  BY ReservedIs DEF RingInv
<1>2. k \notin Recorded \ expired
  <2>1. k \notin expired => rec[k].state = "none"
    BY <1>0, CollectedIs DEF Reservable, RingInv
  <2>2. k \notin expired => rec[k] = Nothing
    BY <1>0, <2>1 DEF RingInv, RecordsSigned
  <2> QED
    BY <2>2 DEF Recorded
<1>3. Listing(Without(queue, expired), Recorded \ expired)
  BY WithoutLists DEF ListOK
<1>4. Listing(Append(Without(queue, expired), k), K)
  BY <1>0, <1>2, <1>3, AppendLists
<1>5. ASSUME backend = "memory" PROVE K = {j \in Keys : rec'[j] # Nothing}
  <2>1. [state |-> "inflight", by |-> r] # Nothing
    BY DEF Nothing
  <2> QED
    BY <1>0, <1>1, <1>5, <2>1 DEF Recorded
<1>6. Queued(Append(Without(queue, expired), k))
  BY DEF Reserved
<1> QED
  BY <1>4, <1>5, <1>6, ListAfter

\* A completed record goes to the end of the list, what the budget drops leaves it.
LEMMA WriteLists ==
    ASSUME RingInv, ListOK, NEW r \in Requests, Write(r), UNCHANGED backend
    PROVE  ListOK'
<1> DEFINE at == [rec EXCEPT ![key[r]] = [state |-> "done", by |-> r]]
           q == Append(Without(queue, {key[r]}), key[r])
           out == IF backend = "memory" THEN FitBudget(q, at) ELSE {}
           K == (Recorded \ {key[r]}) \cup {key[r]}
<1>0. key[r] \in Keys /\ rec \in [Keys -> Records]
  BY DEF RingInv, RingTyped
<1>1. rec' = [k \in Keys |-> IF k \in out THEN Nothing ELSE at[k]] /\ Queued(Without(q, out))
  BY DEF Write
<1>2. Listing(q, K)
  <2>1. Listing(Without(queue, {key[r]}), Recorded \ {key[r]})
    BY WithoutLists DEF ListOK
  <2> QED
    BY <1>0, <2>1, AppendLists
<1>3. Listing(Without(q, out), K \ out)
  <2> HIDE DEF q, out, K
  <2> QED
    BY <1>2, WithoutLists
<1>4. ASSUME backend = "memory" PROVE K \ out = {k \in Keys : rec'[k] # Nothing}
  <2>1. \A k \in Keys : at[k] = IF k = key[r] THEN [state |-> "done", by |-> r] ELSE rec[k]
    BY <1>0
  <2>2. [state |-> "done", by |-> r] # Nothing
    BY DEF Nothing
  <2> HIDE DEF at, q, out
  <2> QED
    BY <1>0, <1>1, <1>4, <2>1, <2>2 DEF Recorded
<1> HIDE DEF at, q, out, K
<1> QED
  BY <1>1, <1>3, <1>4, ListAfter

\* A released reservation leaves the list.
LEMMA ReleasedLists ==
    ASSUME RingInv, ListOK, NEW k \in Keys, Released(k), UNCHANGED backend
    PROVE  ListOK'
<1>1. CASE Abortable(k)
  <2>1. rec' = [rec EXCEPT ![k] = Nothing] /\ Queued(Without(queue, {k}))
    BY <1>1 DEF Released
  <2>2. Listing(Without(queue, {k}), Recorded \ {k})
    BY WithoutLists DEF ListOK
  <2>3. backend = "memory" => Recorded \ {k} = {j \in Keys : rec'[j] # Nothing}
    BY <2>1 DEF Recorded, RingInv, RingTyped
  <2> QED
    BY <2>1, <2>2, <2>3, ListAfter
<1>2. CASE ~Abortable(k)
  BY <1>2, ListSame DEF Released, stored
<1> QED
  BY <1>1, <1>2

\* Every step keeps the list in step with the records.
LEMMA NextLists == RingInv /\ ListOK /\ [Next]_vars => ListOK'
<1> SUFFICES ASSUME RingInv, ListOK, [Next]_vars PROVE ListOK'
  OBVIOUS
<1>1. ASSUME NEW r \in Requests, Arrive(r) \/ Handle(r) \/ AbortFails(r) PROVE ListOK'
  BY <1>1, ListSame DEF Arrive, Handle, AbortFails, stored
<1>2. ASSUME NEW r \in Requests, Begin(r) PROVE ListOK'
  BY <1>2, ReservedLists DEF Begin
<1>3. ASSUME NEW r \in Requests, BeginUnanswered(r) PROVE ListOK'
  <2>1. UNCHANGED backend /\ (UNCHANGED stored \/ (Reservable(r) /\ Reserved(r)))
    BY <1>3 DEF BeginUnanswered
  <2>2. CASE UNCHANGED stored
    BY <2>1, <2>2, ListSame DEF stored
  <2> QED
    BY <2>1, <2>2, ReservedLists
<1>4. ASSUME NEW r \in Requests, Refuse(r) PROVE ListOK'
  <2>1. UNCHANGED backend /\ rec' = Collected /\ Queued(Without(queue, expired))
    BY <1>4 DEF Refuse
  <2>2. Listing(Without(queue, expired), Recorded \ expired)
    BY WithoutLists DEF ListOK
  <2>3. \A k \in Keys : Collected[k] = IF k \in expired THEN Nothing ELSE rec[k]
    BY CollectedIs DEF RingInv
  <2>4. backend = "memory" => Recorded \ expired = {k \in Keys : rec'[k] # Nothing}
    BY <2>1, <2>3 DEF Recorded
  <2> QED
    BY <2>1, <2>2, <2>4, ListAfter
<1>5. ASSUME NEW r \in Requests, Complete(r) \/ CompleteFails(r) PROVE ListOK'
  <2>1. UNCHANGED backend /\ (UNCHANGED stored \/ Write(r))
    BY <1>5 DEF Complete, CompleteFails
  <2>2. CASE UNCHANGED stored
    BY <2>1, <2>2, ListSame DEF stored
  <2> QED
    BY <2>1, <2>2, WriteLists
<1>6. ASSUME NEW r \in Requests, Abort(r) PROVE ListOK'
  <2>1. key[r] \in Keys
    BY DEF RingInv, RingTyped
  <2> QED
    BY <1>6, <2>1, ReleasedLists DEF Abort
<1>7. ASSUME NEW r \in Requests, Crash(r) PROVE ListOK'
  <2>1. CASE backend = "redis"
    BY <1>7, <2>1, ListSame DEF Crash, stored
  <2>2. CASE backend # "redis"
    <3>1. UNCHANGED backend /\ rec' = [k \in Keys |-> Nothing] /\ queue' = <<>>
      BY <1>7, <2>2 DEF Crash
    <3>2. Recorded' = {}
      BY <3>1 DEF Recorded
    <3> QED
      BY <3>1, <3>2, EmptyListing DEF ListOK
  <2> QED
    BY <2>1, <2>2
<1>8. ASSUME NEW k \in Keys, Expire(k) PROVE ListOK'
  <2>1. UNCHANGED <<backend, queue>> /\ (backend # "redis" => UNCHANGED rec)
    BY <1>8 DEF Expire
  <2> QED
    BY <2>1, ListSame
<1>9. CASE UNCHANGED vars
  BY <1>9, ListSame DEF vars, stored
<1> QED
  BY <1>1, <1>2, <1>3, <1>4, <1>5, <1>6, <1>7, <1>8, <1>9 DEF Next, Ring

\* The list is empty at the start.
LEMMA InitLists == Init => ListOK
<1> SUFFICES ASSUME Init PROVE ListOK
  OBVIOUS
<1>1. queue = <<>> /\ Recorded = {}
  BY DEF Init, Recorded
<1> QED
  BY <1>1, EmptyListing DEF ListOK

\* The list and the records agree on which keys there are, as TypeOK counts them.
LEMMA ListTyped == RingInv /\ ListOK => TypeOK
<1> SUFFICES ASSUME RingInv, ListOK PROVE TypeOK
  OBVIOUS
<1>1. /\ queue \in Seq(Keys)
      /\ \A m, n \in 1..Len(queue) : queue[m] = queue[n] => m = n
      /\ \A k \in Keys : (\E n \in 1..Len(queue) : queue[n] = k) <=> k \in Recorded
  BY DEF ListOK, Listing
<1>2. ASSUME NEW k \in Keys
      PROVE  (backend = "memory" /\ rec[k] # Nothing)
                <=> Cardinality({n \in 1..Len(queue) : queue[n] = k}) = 1
  <2> DEFINE at == {n \in 1..Len(queue) : queue[n] = k}
  <2>1. CASE k \in Recorded
    <3>1. PICK n \in 1..Len(queue) : queue[n] = k
      BY <1>1, <2>1
    <3>2. at = {n}
      BY <1>1, <3>1
    <3>3. Cardinality(at) = 1
      BY <3>2, FS_Singleton
    <3> QED
      BY <2>1, <3>3 DEF Recorded
  <2>2. CASE k \notin Recorded
    <3>1. at = {}
      BY <1>1, <2>2
    <3>2. Cardinality(at) = 0
      BY <3>1, FS_EmptySet
    <3>3. ~(backend = "memory" /\ rec[k] # Nothing)
      BY <2>2 DEF Recorded
    <3>4. Cardinality(at) # 1
      BY <3>2
    <3> QED
      BY <3>3, <3>4
  <2> QED
    BY <2>1, <2>2
<1> QED
  BY <1>1, <1>2 DEF TypeOK, RingInv, RingTyped, Records

\* Types, and the memory store's list has every record once and nothing else: what expires is
\* collected from both, what is released or dropped leaves both.
THEOREM RingTypes == Spec => []TypeOK
<1>1. Init => RingInv /\ ListOK
  BY InitRing, InitLists
<1>2. RingInv /\ ListOK /\ [Next]_vars => RingInv' /\ ListOK'
  BY NextRing, NextLists
<1> QED
  BY <1>1, <1>2, ListTyped, PTL DEF Spec

\* What one completion drops for the budget.
LEMMA CompleteDrops ==
    ASSUME RingInv, ListOK, NEW r \in Requests, Complete(r),
           NEW n \in 1..Len(queue), queue[n] # key[r], rec'[queue[n]] = Nothing
    PROVE  /\ Done(queue[n])
           /\ \A m \in 1..(n - 1) : Done(queue[m]) /\ queue[m] # key[r] => rec'[queue[m]] = Nothing
<1> DEFINE c == key[r]
           at == [rec EXCEPT ![c] = [state |-> "done", by |-> r]]
           w == Without(queue, {c})
           q == Append(w, c)
           out == IF backend = "memory" THEN FitBudget(q, at) ELSE {}
           k == queue[n]
<1>0. c \in Keys /\ rec \in [Keys -> Records]
  BY DEF RingInv, RingTyped
<1>1. /\ queue \in Seq(Keys)
      /\ \A j \in Keys : (\E i \in 1..Len(queue) : queue[i] = j) <=> j \in Recorded
  BY DEF ListOK, Listing
<1>2. rec' = [j \in Keys |-> IF j \in out THEN Nothing ELSE at[j]]
  BY DEF Complete, Write
<1>3. \A j \in Keys : j # c => at[j] = rec[j]
  BY <1>0
<1>4. Listing(q, (Recorded \ {c}) \cup {c})
  <2>1. Listing(w, Recorded \ {c})
    BY WithoutLists DEF ListOK
  <2> QED
    BY <1>0, <2>1, AppendLists
<1>5. PICK f : w \in Seq(Keys) /\ Places(queue, {c}, Len(queue), w, f)
  BY <1>1, WithoutIs
<1>6. /\ \A i \in 1..Len(w) : f[i] \in 1..Len(queue) /\ w[i] = queue[f[i]]
      /\ \A i, j \in 1..Len(w) : i < j => f[i] < f[j]
      /\ \A m \in 1..Len(queue) : queue[m] # c => \E i \in 1..Len(w) : f[i] = m
  BY <1>5 DEF Places
<1>7. /\ Len(w) \in Nat /\ Len(queue) \in Nat /\ Len(q) = Len(w) + 1
      /\ \A i \in 1..Len(w) : q[i] = w[i]
  BY <1>0, <1>1, <1>5
<1>8. k \in Keys /\ k \in Recorded
  BY <1>1
<1> HIDE DEF w, q, at, c
<1>9. backend = "memory" /\ k \in out /\ rec[k] # Nothing
  <2>1. backend = "memory" /\ rec[k] # Nothing
    BY <1>8 DEF Recorded
  <2>2. at[k] = rec[k]
    BY <1>3, <1>8 DEF c
  <2> HIDE DEF out, k
  <2>3. rec'[k] = IF k \in out THEN Nothing ELSE at[k]
    BY <1>2, <1>8
  <2>4. rec'[k] = Nothing
    BY DEF k
  <2> QED
    BY <2>1, <2>2, <2>3, <2>4
<1>a. k \in FitBudget(q, at)
  BY <1>9
<1>b. Done(k)
  <2>1. at[k].state = "done"
    BY <1>a, BudgetDropsCompleted
  <2> QED
    BY <1>3, <1>8, <2>1 DEF c, Done
<1>c. ASSUME NEW m \in 1..(n - 1), Done(queue[m]), queue[m] # c PROVE rec'[queue[m]] = Nothing
  <2>1. m \in 1..Len(queue) /\ n \in 1..Len(queue) /\ m < n /\ queue[m] \in Keys
    BY <1>1, <1>7
  <2>2. PICK i \in 1..Len(w) : f[i] = m
    BY <1>6, <1>c, <2>1
  <2>3. PICK j \in 1..Len(w) : f[j] = n
    BY <1>6, <2>1 DEF c
  <2>4. i < j
    <3>1. ~(j < i) /\ i # j
      <4>1. ~(n < m) /\ n # m
        BY <1>7, <2>1
      <4> QED
        BY <1>6, <2>2, <2>3, <4>1
    <3> QED
      BY <1>7, <3>1
  <2>5. q[i] = queue[m] /\ q[j] = k /\ i \in 1..Len(q) /\ j \in 1..Len(q)
    BY <1>6, <1>7, <2>2, <2>3
  <2>6. at[q[i]].state = "done"
    BY <1>3, <1>c, <2>1, <2>5 DEF Done
  <2>7. q[j] \in FitBudget(q, at)
    BY <1>a, <2>5
  <2>8. q[i] \in FitBudget(q, at)
    BY <1>4, <2>4, <2>5, <2>6, <2>7, OlderGoToo
  <2>9. queue[m] \in out
    BY <1>9, <2>5, <2>8
  <2> HIDE DEF out
  <2> QED
    BY <1>2, <2>1, <2>9
<1> QED
  BY <1>b, <1>c DEF c

\* A completion that exceeds the memory store's budget drops completed records, oldest first,
\* and never a reservation in flight, whatever was released, collected or completed again.
THEOREM OldestFirst == Spec => OldestDropped
<1>1. Init => RingInv /\ ListOK
  BY InitRing, InitLists
<1>2. RingInv /\ ListOK /\ [Next]_vars => RingInv' /\ ListOK'
  BY NextRing, NextLists
<1>3. RingInv /\ ListOK /\ [Next]_vars =>
         [\A r \in Requests : Complete(r) =>
             \A n \in 1..Len(queue) : queue[n] # key[r] /\ rec'[queue[n]] = Nothing =>
                 /\ Done(queue[n])
                 /\ \A m \in 1..(n - 1) : Done(queue[m]) /\ queue[m] # key[r]
                                            => rec'[queue[m]] = Nothing]_vars
  BY CompleteDrops
<1> QED
  BY <1>1, <1>2, <1>3, PTL DEF Spec, OldestDropped

=============================================================================
