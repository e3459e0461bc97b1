---------------------------- MODULE Idempotency -----------------------------
(***************************************************************************)
(* The idempotency ring of core/http: the middleware (idempotency.go), the *)
(* deduplication of provider callbacks that uses the same store            *)
(* (callback_guard.go), and the two stores an installation can choose, the *)
(* one in process memory with its time to live and its byte budget         *)
(* (idempotency_store.go) and the one in Redis (redisguard).               *)
(*                                                                         *)
(* A request is one HTTP call with a key and a fingerprint; a client's     *)
(* retry is another request.  Begin, Complete and Abort are single atomic  *)
(* steps in both stores (a mutex, a Lua script); everything between them   *)
(* interleaves.                                                            *)
(***************************************************************************)
EXTENDS Naturals, Sequences, FiniteSets

CONSTANTS
    Requests,     \* HTTP calls and callbacks
    Keys,         \* store keys, namespaced by the caller
    Digests,      \* fingerprints
    NoRequest,    \* nobody
    Backends,     \* subset of {"memory", "redis"} an installation may choose
    Budget,       \* completed records the memory budget holds
    TTLCoversRun, \* the time to live is longer than any request runs
    MaxFaults     \* bound on deaths of a process, lost answers, failed calls

ASSUME RingAssumption ==
    /\ NoRequest \notin Requests
    /\ Backends \subseteq {"memory", "redis"}
    /\ Budget \in Nat
    /\ TTLCoversRun \in BOOLEAN
    /\ MaxFaults \in Nat

VARIABLES
    backend,   \* GUARD_BACKEND: which store this installation has
    rec,       \* key -> the stored value
    queue,     \* the memory store's list, in the order of expiresAt
    expired,   \* keys of the memory store whose expiresAt has passed
    pc,        \* where the request stands in the ring
    key,       \* its store key
    digest,    \* its fingerprint
    replayed,  \* the request whose recorded response it was answered with
    works,     \* history: requests whose side effects happened, per key
    excused,   \* history: per key, releases that let the work happen again
    orphans,   \* history: keys locked by a death or a release that failed
    unclaimed, \* history: keys locked by a Begin that was not answered
    faults

stored == <<rec, queue, expired>>
calls == <<pc, key, digest, replayed>>
history == <<works, excused, orphans, unclaimed>>
vars == <<backend, stored, calls, history, faults>>

Nothing == [state |-> "none", by |-> NoRequest]
InFlight(k) == rec[k].state = "inflight"
Done(k) == rec[k].state = "done"

Points == {"idle", "begin", "work", "complete", "abort", "answered"}

TypeOK ==
    /\ backend \in Backends
    /\ rec \in [Keys -> [state : {"none", "inflight", "done"}, by : Requests \cup {NoRequest}]]
    /\ queue \in Seq(Keys)
    /\ \A k \in Keys : (backend = "memory" /\ rec[k] # Nothing)
                           <=> Cardinality({n \in 1..Len(queue) : queue[n] = k}) = 1
    /\ expired \subseteq Keys
    /\ pc \in [Requests -> Points]
    /\ key \in [Requests -> Keys]
    /\ digest \in [Requests -> Digests]
    /\ replayed \in [Requests -> Requests \cup {NoRequest}]
    /\ works \in [Keys -> SUBSET Requests]
    /\ excused \in [Keys -> Nat]
    /\ orphans \subseteq Keys
    /\ unclaimed \subseteq Keys
    /\ faults \in 0..MaxFaults

Init ==
    /\ backend \in Backends
    /\ rec = [k \in Keys |-> Nothing]
    /\ queue = <<>>
    /\ expired = {}
    /\ pc = [r \in Requests |-> "idle"]
    /\ key \in [Requests -> Keys]
    /\ digest \in [Requests -> Digests]
    /\ replayed = [r \in Requests |-> NoRequest]
    /\ works = [k \in Keys |-> {}]
    /\ excused = [k \in Keys |-> 0]
    /\ orphans = {}
    /\ unclaimed = {}
    /\ faults = 0

-----------------------------------------------------------------------------
(* The stores.                                                             *)

Fault == faults < MaxFaults /\ faults' = faults + 1

Goto(r, next) == pc' = [pc EXCEPT ![r] = next]

\* The list without the keys of S, in its order: what is kept of its first n entries
Without(q, S) ==
    LET kept[n \in 0..Len(q)] ==
            IF n = 0 THEN <<>>
            ELSE IF q[n] \in S THEN kept[n - 1] ELSE Append(kept[n - 1], q[n])
    IN  kept[Len(q)]

\* The list of the memory store; Redis keeps none
Queued(q) == queue' = IF backend = "memory" THEN q ELSE <<>>

\* collect: the expired prefix of the list, before every lookup of Begin
Collected == [k \in Keys |-> IF k \in expired THEN Nothing ELSE rec[k]]

\* An expired or evicted record lets the key work again
Forget(S) == excused' = [k \in Keys |-> IF k \in S THEN excused[k] + 1 ELSE excused[k]]

Arrive(r) ==
    /\ pc[r] = "idle"
    /\ Goto(r, "begin")
    /\ UNCHANGED <<backend, stored, key, digest, replayed, history, faults>>

Reserved(r) ==
    /\ rec' = [Collected EXCEPT ![key[r]] = [state |-> "inflight", by |-> r]]
    /\ Queued(Append(Without(queue, expired), key[r]))
    /\ expired' = {}

\* Slip: a reservation in flight is taken for an absent record
ReservableInFlight(r) == Collected[key[r]].state # "done"

Reservable(r) == Collected[key[r]].state = "none"

\* Begin on a free key
Begin(r) ==
    /\ pc[r] = "begin"
    /\ Reservable(r)
    /\ Reserved(r)
    /\ Goto(r, "work")
    /\ orphans' = orphans \ (expired \cup {key[r]})
    /\ unclaimed' = unclaimed \ (expired \cup {key[r]})
    /\ UNCHANGED <<backend, key, digest, replayed, works, excused, faults>>

\* replay: the recorded response if the fingerprint is the record's, else a
\* conflict (a callback acknowledges the contradiction and reports it)
ReplayOf(r) ==
    LET found == Collected[key[r]]
    IN  IF found.state = "done" /\ digest[found.by] = digest[r] THEN found.by ELSE NoRequest

\* Begin on a key in flight (409, or the callback's "come back") or on a
\* finished record
Refuse(r) ==
    /\ pc[r] = "begin"
    /\ ~Reservable(r)
    /\ replayed' = [replayed EXCEPT ![r] = ReplayOf(r)]
    /\ rec' = Collected
    /\ Queued(Without(queue, expired))
    /\ expired' = {}
    /\ orphans' = orphans \ expired
    /\ unclaimed' = unclaimed \ expired
    /\ Goto(r, "answered")
    /\ UNCHANGED <<backend, key, digest, works, excused, faults>>

\* Redis did not answer, or the client was gone (Begin runs under the request's
\* context): the request is refused, the reservation may stand all the same
BeginUnanswered(r) ==
    /\ pc[r] = "begin"
    /\ backend = "redis"
    /\ Fault
    /\ \/ UNCHANGED <<stored, unclaimed>>
       \/ /\ Reservable(r)
          /\ Reserved(r)
          /\ unclaimed' = unclaimed \cup {key[r]}
    /\ Goto(r, "answered")
    /\ UNCHANGED <<backend, key, digest, replayed, works, excused, orphans>>

\* Slip: the budget counts and drops reservations with the records
FitBudgetAll(q, at) == IF Len(q) > Budget THEN {q[1]} ELSE {}

\* fitBudget: the oldest completed records while the budget is exceeded, those
\* behind which the list has as many completed ones as the budget holds
FitBudget(q, at) ==
    LET completed == {n \in 1..Len(q) : at[q[n]].state = "done"}
    IN  {k \in Keys : at[k].state = "done" /\
            \E n \in completed : q[n] = k /\ Cardinality({m \in completed : m > n}) >= Budget}

\* Complete writes its record whether or not the reservation still stands; the
\* memory store then drops what exceeds its budget
Write(r) ==
    LET at == [rec EXCEPT ![key[r]] = [state |-> "done", by |-> r]]
        q == Append(Without(queue, {key[r]}), key[r])
        out == IF backend = "memory" THEN FitBudget(q, at) ELSE {}
    IN  /\ rec' = [k \in Keys |-> IF k \in out THEN Nothing ELSE at[k]]
        /\ Queued(Without(q, out))
        /\ expired' = expired \ (out \cup {key[r]})
        /\ Forget(out)

\* Slip: Abort deletes a finished record too
AbortableAny(k) == rec[k].state # "none"

Abortable(k) == InFlight(k)

Released(k) ==
    IF Abortable(k)
    THEN /\ rec' = [rec EXCEPT ![k] = Nothing]
         /\ Queued(Without(queue, {k}))
         /\ expired' = expired \ {k}
         /\ orphans' = orphans \ {k}
         /\ unclaimed' = unclaimed \ {k}
    ELSE UNCHANGED <<stored, orphans, unclaimed>>

-----------------------------------------------------------------------------
(* record: the handler, then Complete or Abort under a context of their    *)
(* own.                                                                    *)

\* The handler's outcome: a response to record with its side effects done; a
\* refusal to record without any; a failure (5xx, panic, and on the request
\* path a 4xx with Retry-After) that leaves nothing; a response too large to
\* record, whose side effects are done
Handle(r) ==
    /\ pc[r] = "work"
    /\ \/ /\ Goto(r, "complete")
          /\ works' = [works EXCEPT ![key[r]] = @ \cup {r}]
          /\ UNCHANGED excused
       \/ /\ Goto(r, "complete")
          /\ UNCHANGED <<works, excused>>
       \/ /\ Goto(r, "abort")
          /\ UNCHANGED <<works, excused>>
       \/ /\ Goto(r, "abort")
          /\ works' = [works EXCEPT ![key[r]] = @ \cup {r}]
          /\ Forget({key[r]})
    /\ UNCHANGED <<backend, stored, key, digest, replayed, orphans, unclaimed, faults>>

Complete(r) ==
    /\ pc[r] = "complete"
    /\ Write(r)
    /\ Goto(r, "answered")
    /\ orphans' = orphans \ {key[r]}
    /\ unclaimed' = unclaimed \ {key[r]}
    /\ UNCHANGED <<backend, key, digest, replayed, works, faults>>

\* The record could not be written, or was written and not answered: the key is
\* released, which a finished record survives
CompleteFails(r) ==
    /\ pc[r] = "complete"
    /\ backend = "redis"
    /\ Fault
    /\ \/ UNCHANGED stored /\ Forget({key[r]})
       \/ Write(r)
    /\ Goto(r, "abort")
    /\ UNCHANGED <<backend, key, digest, replayed, works, orphans, unclaimed>>

\* Slip: the failed request answers without releasing its key
AbortSkipped(r) ==
    /\ pc[r] = "abort"
    /\ Goto(r, "answered")
    /\ UNCHANGED <<backend, stored, key, digest, replayed, history, faults>>

Abort(r) ==
    /\ pc[r] = "abort"
    /\ Released(key[r])
    /\ Goto(r, "answered")
    /\ UNCHANGED <<backend, key, digest, replayed, works, excused, faults>>

\* The release failed as well: the key stays locked until its time runs out
AbortFails(r) ==
    /\ pc[r] = "abort"
    /\ backend = "redis"
    /\ Fault
    /\ orphans' = orphans \cup {key[r]}
    /\ Goto(r, "answered")
    /\ UNCHANGED <<backend, stored, key, digest, replayed, works, excused, unclaimed>>

Working == {r \in Requests : pc[r] \in {"work", "complete", "abort"}}

\* A process dies.  With Redis one instance of several: the request is gone and
\* its reservation stands.  With the memory store the only one, and its records
\* go with it
Crash(r) ==
    /\ pc[r] \notin {"idle", "answered"}
    /\ Fault
    /\ IF backend = "redis"
       THEN /\ Goto(r, "answered")
            /\ orphans' = IF r \in Working /\ InFlight(key[r]) THEN orphans \cup {key[r]} ELSE orphans
            /\ UNCHANGED <<stored, excused, unclaimed>>
       ELSE /\ pc' = [q \in Requests |-> IF pc[q] = "idle" THEN "idle" ELSE "answered"]
            /\ rec' = [k \in Keys |-> Nothing]
            /\ queue' = <<>>
            /\ expired' = {}
            /\ Forget(Keys)
            /\ orphans' = {}
            /\ unclaimed' = {}
    /\ UNCHANGED <<backend, key, digest, replayed, works>>

\* Time: a value of Redis is gone when its PX has passed; an entry of the
\* memory store stays until a Begin collects it, and the list expires in order
Expire(k) ==
    /\ rec[k] # Nothing
    /\ k \notin expired
    /\ TTLCoversRun => \A r \in Working : key[r] # k
    /\ Forget({k})
    /\ IF backend = "redis"
       THEN /\ rec' = [rec EXCEPT ![k] = Nothing]
            /\ orphans' = orphans \ {k}
            /\ unclaimed' = unclaimed \ {k}
            /\ UNCHANGED <<queue, expired>>
       ELSE /\ \A n, m \in 1..Len(queue) : n < m /\ queue[m] = k => queue[n] \in expired
            /\ expired' = expired \cup {k}
            /\ UNCHANGED <<rec, queue, orphans, unclaimed>>
    /\ UNCHANGED <<backend, calls, works, faults>>

Ring(r) ==
    \/ Begin(r) \/ Refuse(r) \/ BeginUnanswered(r) \/ Handle(r)
    \/ Complete(r) \/ CompleteFails(r) \/ Abort(r) \/ AbortFails(r)

Next ==
    \/ \E r \in Requests : Arrive(r) \/ Ring(r) \/ Crash(r)
    \/ \E k \in Keys : Expire(k)

Spec == Init /\ [][Next]_vars

-----------------------------------------------------------------------------
(* Properties.                                                             *)

\* At most one request works under a key at a time, whatever is aborted,
\* evicted, completed late or retried around it.
OneWorker ==
    \A r, s \in Working : key[r] = key[s] => r = s

\* The side effects of a key happen once for every time its record was let go:
\* it expired, the budget dropped it, its response could not be recorded.
WorkedOnce == \A k \in Keys : Cardinality(works[k]) <= 1 + excused[k]

\* A key in flight has a request at work under it, or was left by a process
\* that died, a release that failed or a reservation that was not answered.
LockHasACause ==
    \A k \in Keys : InFlight(k) =>
        (rec[k].by \in Working /\ key[rec[k].by] = k) \/ k \in orphans \cup unclaimed

\* A response is replayed only to a request with the key and the fingerprint of
\* the one whose handler produced it.
ReplaysTheSameRequest ==
    \A r \in Requests : replayed[r] # NoRequest =>
        /\ key[replayed[r]] = key[r]
        /\ digest[replayed[r]] = digest[r]
        /\ pc[replayed[r]] \in {"abort", "answered"}

\* What a completion drops for the budget is a completed record, and every older
\* one goes with it, but for the record it writes; a reservation in flight is never
\* dropped for it.
OldestDropped ==
    [][\A r \in Requests : Complete(r) =>
          \A n \in 1..Len(queue) : queue[n] # key[r] /\ rec'[queue[n]] = Nothing =>
              /\ Done(queue[n])
              /\ \A m \in 1..(n - 1) : Done(queue[m]) /\ queue[m] # key[r]
                                        => rec'[queue[m]] = Nothing]_vars
=============================================================================
