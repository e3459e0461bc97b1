------------------------------ MODULE RedisBus ------------------------------
(***************************************************************************)
(* The durable event bus of core/eventbus/redis.go: one event name, its    *)
(* stream, its consumer group and the consumer loops that share it, with   *)
(* the takeover of what a consumer left pending (reclaim) and the pile of  *)
(* dead letters that redis_deadletter.go reads, redrives and discards.     *)
(*                                                                         *)
(* A consumer is a NAME in the group.  A process that comes back under its *)
(* name starts the same consumer again; one that comes back under a new    *)
(* name ("<hostname>-<pid>") starts another.  A process can die between    *)
(* any two commands, and a command can take effect at Redis while its      *)
(* answer is lost.                                                         *)
(***************************************************************************)
EXTENDS Naturals, Sequences, FiniteSets

CONSTANTS
    Consumers,       \* consumer names of the group
    Stable,          \* the names that come back after a stop
    NoOne,           \* the owner of an entry that is not pending
    Events,          \* events, numbered in the order they are published
    MaxEntries,      \* bound on stream entries: publishes and redrives
    BatchSize,       \* RedisConfig.BatchSize
    MaxDeliveries,   \* maxDeliveries, three in the code
    MaxLen,          \* RedisConfig.MaxLen
    MaxStops,        \* bound on process deaths and shutdowns
    MaxLost          \* bound on lost answers and failed commands

ASSUME BusAssumption ==
    /\ NoOne \notin Consumers
    /\ Stable \subseteq Consumers
    /\ Events \subseteq Nat
    /\ MaxEntries \in Nat /\ MaxStops \in Nat /\ MaxLost \in Nat
    /\ BatchSize \in Nat \ {0}
    /\ MaxDeliveries \in Nat \ {0}
    /\ MaxLen \in Nat \ {0}

VARIABLES
    stream,    \* the event of every entry ever added, by entry id
    first,     \* the oldest entry that trimming has left in the stream
    last,      \* last-delivered-id of the group
    pel,       \* the group's pending entries list: [owner, count, idle]
    letters,   \* copies of an entry in the dead-letter stream
    pc,        \* where the consumer loop stands
    local,     \* the loop's own state, lost with the process
    closing,   \* Shutdown has cancelled the bus's context
    used,      \* names that have been started
    settled,   \* history: events whose handlers came to an end
    dropped,   \* history: events an operator discarded or trimming removed
    runs,      \* history: how often the handlers of an entry were called
    stopped,   \* history: entries whose consumer stopped without the ACK
    slow,      \* history: entries in hand that waited past ClaimMinIdle
    stops,     \* process deaths and shutdowns so far
    lost       \* lost answers so far

redis == <<stream, first, last, pel, letters>>
history == <<settled, dropped, runs, stopped, slow>>
proc == <<pc, local, closing, used>>
vars == <<redis, history, proc, stops, lost>>

Ids == 1..MaxEntries
Entries == 1..Len(stream)
Present(i) == first <= i /\ i <= Len(stream)
Pending(i) == pel[i].owner # NoOne

NotPending == [owner |-> NoOne, count |-> 0, idle |-> FALSE]

\* reading/cursor: the pending list of the own name, page by page, then ">";
\* hold is the batch in hand, blank its messages without fields, late that a
\* message of the batch is done; give and take are what a sweep decided on
Fresh == [reading |-> "pending", cursor |-> 0, hold |-> {}, blank |-> {},
          late |-> FALSE, give |-> {}, take |-> {}]

Locals == [reading : {"pending", "new"}, cursor : 0..MaxEntries, hold : SUBSET Ids,
           blank : SUBSET Ids, late : BOOLEAN, give : SUBSET Ids, take : SUBSET Ids]

Points == {"down", "sweep", "loop", "keep", "keepAck", "claim", "handle", "ack"}

TypeOK ==
    /\ stream \in Seq(Events) /\ Len(stream) <= MaxEntries
    /\ first \in 1..(MaxEntries + 1)
    /\ last \in 0..Len(stream)
    /\ pel \in [Ids -> [owner : Consumers \cup {NoOne}, count : Nat, idle : BOOLEAN]]
    /\ letters \in [Ids -> Nat]
    /\ pc \in [Consumers -> Points]
    /\ local \in [Consumers -> Locals]
    /\ closing \in [Consumers -> BOOLEAN]
    /\ used \subseteq Consumers
    /\ settled \subseteq Events
    /\ dropped \subseteq Events
    /\ runs \in [Ids -> Nat]
    /\ stopped \subseteq Ids
    /\ slow \subseteq Ids
    /\ stops \in 0..MaxStops
    /\ lost \in 0..MaxLost

Init ==
    /\ stream = <<>>
    /\ first = 1
    /\ last = 0
    /\ pel = [i \in Ids |-> NotPending]
    /\ letters = [i \in Ids |-> 0]
    /\ pc = [c \in Consumers |-> "down"]
    /\ local = [c \in Consumers |-> Fresh]
    /\ closing = [c \in Consumers |-> FALSE]
    /\ used = {}
    /\ settled = {}
    /\ dropped = {}
    /\ runs = [i \in Ids |-> 0]
    /\ stopped = {}
    /\ slow = {}
    /\ stops = 0
    /\ lost = 0

-----------------------------------------------------------------------------
(* Redis streams, as far as the bus uses them.                             *)

First(S) == CHOOSE i \in S : \A j \in S : i <= j
Last(S) == CHOOSE i \in S : \A j \in S : j <= i

\* COUNT n: the first n ids of a set, in stream order
Page(S, n) == {i \in S : Cardinality({j \in S : j < i}) < n}

\* An entry handed to c: its owner, one more delivery, its idle time from zero
Deliver(S, c) ==
    pel' = [i \in Ids |-> IF i \in S
                          THEN [owner |-> c, count |-> pel[i].count + 1, idle |-> FALSE]
                          ELSE pel[i]]

Acked(S) == pel' = [i \in Ids |-> IF i \in S THEN NotPending ELSE pel[i]]

\* XADD with MAXLEN ~: the trimming is approximate, it may remove less
XAdd(e) ==
    /\ Len(stream) < MaxEntries
    /\ stream' = Append(stream, e)
    /\ \E f \in first..(Len(stream) + 1) :
          /\ f = first \/ Len(stream) + 1 - f >= MaxLen - 1
          /\ first' = f
          /\ dropped' = dropped \cup {stream[i] : i \in {j \in first..(f - 1) : stream[j] \notin settled}}

LoseAnswer ==
    /\ lost < MaxLost
    /\ lost' = lost + 1

-----------------------------------------------------------------------------
(* Publish, and the operator's commands on the pile.                       *)

Publish(e) ==
    /\ \A i \in Entries : stream[i] # e
    /\ \A f \in Events : f < e => \E i \in Entries : stream[i] = f
    /\ XAdd(e)
    /\ UNCHANGED <<last, pel, letters, settled, runs, stopped, slow, proc, stops, lost>>

\* Slip: the letter is removed and the message is not put back
RedriveForgets(i) ==
    /\ letters[i] > 0
    /\ letters' = [letters EXCEPT ![i] = @ - 1]
    /\ UNCHANGED <<stream, first, last, pel, history, proc, stops, lost>>

\* RedriveRedisDeadLetter: a new entry and the letter's removal, one transaction
Redrive(i) ==
    /\ letters[i] > 0
    /\ letters' = [letters EXCEPT ![i] = @ - 1]
    /\ XAdd(stream[i])
    /\ UNCHANGED <<last, pel, settled, runs, stopped, slow, proc, stops, lost>>

Discard(i) ==
    /\ letters[i] > 0
    /\ letters' = [letters EXCEPT ![i] = @ - 1]
    /\ dropped' = dropped \cup {stream[i]}
    /\ UNCHANGED <<stream, first, last, pel, settled, runs, stopped, slow, proc, stops, lost>>

-----------------------------------------------------------------------------
(* consume: the loop of one consumer.                                      *)

Goto(c, next, l) ==
    /\ pc' = [pc EXCEPT ![c] = next]
    /\ local' = [local EXCEPT ![c] = l]

\* Subscribe: the first round sweeps, then reads the list of the own name
Start(c) ==
    /\ pc[c] = "down"
    /\ c \in used => c \in Stable
    /\ used' = used \cup {c}
    /\ closing' = [closing EXCEPT ![c] = FALSE]
    /\ Goto(c, "sweep", Fresh)
    /\ UNCHANGED <<redis, history, stops, lost>>

\* Slip: everything beyond the threshold is claimed, its deliveries uncounted
ExhaustedNever(i) == FALSE

Exhausted(i) == pel[i].count >= MaxDeliveries

\* Slip: only the first round sweeps
SweepAtStart(c) ==
    LET page == Page({i \in Ids : Pending(i) /\ pel[i].idle}, BatchSize)
        others == {i \in page : pel[i].owner # c}
        give == {i \in others : Exhausted(i)}
        take == others \ give
        next == IF give # {} THEN "keep" ELSE IF take # {} THEN "claim" ELSE "loop"
    IN  /\ pc[c] = "sweep"
        /\ ~closing[c]
        /\ Goto(c, next, [local[c] EXCEPT !.give = give, !.take = take])
        /\ UNCHANGED <<redis, history, closing, used, stops, lost>>

\* XPENDING IDLE: one page of the whole group's list, the own entries in it
Sweep(c) ==
    LET page == Page({i \in Ids : Pending(i) /\ pel[i].idle}, BatchSize)
        others == {i \in page : pel[i].owner # c}
        give == {i \in others : Exhausted(i)}
        take == others \ give
        next == IF give # {} THEN "keep" ELSE IF take # {} THEN "claim" ELSE "loop"
    IN  /\ pc[c] \in {"sweep", "loop"}
        /\ ~closing[c]
        /\ Goto(c, next, [local[c] EXCEPT !.give = give, !.take = take])
        /\ UNCHANGED <<redis, history, closing, used, stops, lost>>

SweepFails(c) ==
    /\ pc[c] = "sweep"
    /\ IF closing[c] THEN UNCHANGED lost ELSE LoseAnswer
    /\ Goto(c, "loop", local[c])
    /\ UNCHANGED <<redis, history, closing, used, stops>>

\* The next entry of the sweep's loop, or the claim behind it
Kept(c) ==
    LET give == local[c].give \ {First(local[c].give)}
        next == IF give # {} THEN "keep" ELSE IF local[c].take # {} THEN "claim" ELSE "loop"
    IN  Goto(c, next, [local[c] EXCEPT !.give = give])

\* keepDeadLetter: the copy; an entry that was trimmed has nothing to keep
Keep(c) ==
    LET i == First(local[c].give)
    IN  /\ pc[c] = "keep"
        /\ letters' = IF Present(i) THEN [letters EXCEPT ![i] = @ + 1] ELSE letters
        /\ Goto(c, "keepAck", local[c])
        /\ UNCHANGED <<stream, first, last, pel, history, closing, used, stops, lost>>

\* Slip: the message is acknowledged although the copy failed
KeepFailsAcked(c) ==
    /\ pc[c] = "keep"
    /\ LoseAnswer
    /\ Goto(c, "keepAck", local[c])
    /\ UNCHANGED <<redis, history, closing, used, stops>>

\* The copy failed, or was made and not answered: the message stays pending
KeepFails(c) ==
    /\ pc[c] = "keep"
    /\ LoseAnswer
    /\ LET i == First(local[c].give)
       IN  letters' \in {letters, IF Present(i) THEN [letters EXCEPT ![i] = @ + 1] ELSE letters}
    /\ Kept(c)
    /\ UNCHANGED <<stream, first, last, pel, history, closing, used, stops>>

KeepAck(c) ==
    LET i == First(local[c].give)
    IN  /\ pc[c] = "keepAck"
        /\ \/ Acked({i}) /\ UNCHANGED <<lost, stopped>>
           \/ LoseAnswer /\ UNCHANGED pel /\ stopped' = stopped \cup {i}
        /\ Kept(c)
        /\ UNCHANGED <<stream, first, last, letters, settled, dropped, runs, slow, closing, used, stops>>

\* XCLAIM checks the idle time again and skips what was acknowledged
Granted(c) == {i \in local[c].take : Pending(i) /\ pel[i].idle}

Begin(c, S, l) ==
    Goto(c, IF S = {} THEN "loop" ELSE "handle", [l EXCEPT !.hold = S, !.late = FALSE])

\* Redis drops a claimed entry that trimming removed from its stream
Claim(c) ==
    LET got == {i \in Granted(c) : Present(i)}
    IN  /\ pc[c] = "claim"
        /\ pel' = [i \in Ids |->
                     CASE i \in got -> [owner |-> c, count |-> pel[i].count + 1, idle |-> FALSE]
                       [] i \in Granted(c) \ got -> NotPending
                       [] OTHER -> pel[i]]
        /\ Begin(c, got, [local[c] EXCEPT !.take = {}])
        /\ UNCHANGED <<stream, first, last, letters, history, closing, used, stops, lost>>

\* The claim failed, or took effect and was not answered
ClaimFails(c) ==
    /\ pc[c] = "claim"
    /\ \/ closing[c] /\ UNCHANGED <<pel, lost, stopped>>
       \/ LoseAnswer /\ UNCHANGED <<pel, stopped>>
       \/ /\ LoseAnswer
          /\ Deliver({i \in Granted(c) : Present(i)}, c)
          /\ stopped' = stopped \cup Granted(c)
    /\ Goto(c, "loop", [local[c] EXCEPT !.take = {}])
    /\ UNCHANGED <<stream, first, last, letters, settled, dropped, runs, slow, closing, used, stops>>

Own(c) == {i \in Ids : pel[i].owner = c /\ i > local[c].cursor}

Unread == {i \in Entries : i > last /\ Present(i)}

\* XREADGROUP from the pending list of the own name; a message that trimming
\* removed comes without fields.  An empty page ends the phase
ReadPending(c) ==
    LET page == Page(Own(c), BatchSize)
    IN  /\ pc[c] = "loop"
        /\ ~closing[c]
        /\ local[c].reading = "pending"
        /\ IF page = {}
           THEN /\ Goto(c, "loop", [local[c] EXCEPT !.reading = "new"])
                /\ UNCHANGED pel
           ELSE /\ Deliver(page, c)
                /\ Begin(c, page, [local[c] EXCEPT !.cursor = Last(page),
                                                   !.blank = {i \in page : ~Present(i)}])
        /\ UNCHANGED <<stream, first, last, letters, history, closing, used, stops, lost>>

\* XREADGROUP ">": messages that were handed to nobody
ReadNew(c) ==
    LET page == Page(Unread, BatchSize)
    IN  /\ pc[c] = "loop"
        /\ ~closing[c]
        /\ local[c].reading = "new"
        /\ page # {}
        /\ last' = Last(page)
        /\ Deliver(page, c)
        /\ Begin(c, page, [local[c] EXCEPT !.blank = {}])
        /\ UNCHANGED <<stream, first, letters, history, closing, used, stops, lost>>

\* The read took effect at Redis and its answer was lost
ReadUnanswered(c) ==
    LET page == Page(Unread, BatchSize)
    IN  /\ pc[c] = "loop"
        /\ local[c].reading = "new"
        /\ page # {}
        /\ LoseAnswer
        /\ last' = Last(page)
        /\ Deliver(page, c)
        /\ stopped' = stopped \cup page
        /\ UNCHANGED <<stream, first, letters, settled, dropped, runs, slow, proc, stops>>

\* What follows the message i of the batch
Done(c, i) ==
    LET rest == local[c].hold \ {i}
    IN  Goto(c, IF rest = {} THEN "loop" ELSE "handle",
             [local[c] EXCEPT !.hold = rest, !.late = TRUE])

\* dispatch: the handlers came to an end (success, a panic, an invalid event, a
\* fault that outlasted the retries); a message that cannot be decoded is not
\* handed to them
Handle(c) ==
    LET i == First(local[c].hold)
    IN  /\ pc[c] = "handle"
        /\ IF i \in local[c].blank
           THEN UNCHANGED <<runs, settled>>
           ELSE /\ runs' = [runs EXCEPT ![i] = @ + 1]
                /\ settled' = settled \cup {stream[i]}
        /\ Goto(c, "ack", local[c])
        /\ UNCHANGED <<redis, dropped, stopped, slow, closing, used, stops, lost>>

\* Slip: the message whose handler met the shutdown is acknowledged all the same
HandleLeavesAcked(c) ==
    LET i == First(local[c].hold)
    IN  /\ pc[c] = "handle"
        /\ closing[c]
        /\ i \notin local[c].blank
        /\ runs' = [runs EXCEPT ![i] = @ + 1]
        /\ Goto(c, "ack", local[c])
        /\ UNCHANGED <<redis, settled, dropped, stopped, slow, closing, used, stops, lost>>

\* A fault that may pass still stood when Shutdown had begun: no ACK
HandleLeaves(c) ==
    LET i == First(local[c].hold)
    IN  /\ pc[c] = "handle"
        /\ closing[c]
        /\ i \notin local[c].blank
        /\ runs' = [runs EXCEPT ![i] = @ + 1]
        /\ stopped' = stopped \cup {i}
        /\ Done(c, i)
        /\ UNCHANGED <<redis, settled, dropped, slow, closing, used, stops, lost>>

\* Slip: the message is never acknowledged
AckDropped(c) ==
    /\ pc[c] = "ack"
    /\ Done(c, First(local[c].hold))
    /\ UNCHANGED <<redis, history, closing, used, stops, lost>>

\* XACK removes the entry whoever holds it now
Ack(c) ==
    LET i == First(local[c].hold)
    IN  /\ pc[c] = "ack"
        /\ \/ Acked({i}) /\ UNCHANGED <<lost, stopped>>
           \/ LoseAnswer /\ UNCHANGED pel /\ stopped' = stopped \cup {i}
        /\ Done(c, i)
        /\ UNCHANGED <<stream, first, last, letters, settled, dropped, runs, slow, closing, used, stops>>

Shutdown(c) ==
    /\ pc[c] # "down"
    /\ ~closing[c]
    /\ stops < MaxStops
    /\ stops' = stops + 1
    /\ closing' = [closing EXCEPT ![c] = TRUE]
    /\ UNCHANGED <<redis, history, pc, local, used, lost>>

Mine(c) == {i \in Ids : pel[i].owner = c}

\* The loop looks at its context between two rounds
Stop(c) ==
    /\ pc[c] = "loop"
    /\ closing[c]
    /\ stopped' = stopped \cup Mine(c)
    /\ Goto(c, "down", Fresh)
    /\ UNCHANGED <<redis, settled, dropped, runs, slow, closing, used, stops, lost>>

\* The process dies, or its shutdown budget runs out
Crash(c) ==
    /\ pc[c] # "down"
    /\ IF closing[c] THEN UNCHANGED stops ELSE stops < MaxStops /\ stops' = stops + 1
    /\ stopped' = stopped \cup Mine(c)
    /\ Goto(c, "down", Fresh)
    /\ UNCHANGED <<redis, settled, dropped, runs, slow, closing, used, lost>>

-----------------------------------------------------------------------------
(* Time: an entry's idle time passes ClaimMinIdle.                         *)

\* The message a consumer handles first is done before that: ClaimMinIdle exceeds
\* the slowest handler.  Nothing says that of the messages behind it in the batch.
\* A sweep has its own budget (controlTimeout), shorter than the threshold, so no
\* entry turns idle again between its two commands
InTime(i) == \E c \in Consumers : i \in local[c].hold /\ ~local[c].late

InAHand(i) == \E c \in Consumers : i \in local[c].hold

Idle(i) ==
    /\ Pending(i)
    /\ ~pel[i].idle
    /\ ~InTime(i)
    /\ \A c \in Consumers : i \notin local[c].take \cup local[c].give
    /\ pel' = [pel EXCEPT ![i].idle = TRUE]
    /\ slow' = slow \cup {j \in {i} : InAHand(j)}
    /\ UNCHANGED <<stream, first, last, letters, settled, dropped, runs, stopped, proc, stops, lost>>

Advance(c) ==
    \/ SweepFails(c) \/ Keep(c) \/ KeepFails(c) \/ KeepAck(c)
    \/ Claim(c) \/ ClaimFails(c)
    \/ ReadPending(c) \/ ReadNew(c) \/ ReadUnanswered(c)
    \/ Handle(c) \/ HandleLeaves(c) \/ Ack(c) \/ Stop(c)

Next ==
    \/ \E e \in Events : Publish(e)
    \/ \E i \in Ids : Redrive(i) \/ Discard(i) \/ Idle(i)
    \/ \E c \in Consumers :
          Start(c) \/ Sweep(c) \/ Advance(c) \/ Shutdown(c) \/ Crash(c)

Spec == Init /\ [][Next]_vars

\* A loop goes round, its sweep comes up whenever ClaimMinIdle has passed, time
\* passes, and a process whose name is stable is started again
FairSpec ==
    /\ Spec
    /\ \A c \in Consumers : WF_vars(Advance(c)) /\ SF_vars(Sweep(c)) /\ WF_vars(Start(c))
    /\ \A i \in Ids : WF_vars(Idle(i))

-----------------------------------------------------------------------------
(* Properties.                                                             *)

Copies(e) == {i \in Entries : stream[i] = e}

\* Somewhere the bus still has the event: unread, pending or in the pile
InTheBus(i) == (Present(i) /\ (i > last \/ Pending(i))) \/ letters[i] > 0

\* At least once: an event that was published, and that neither an operator
\* nor MAXLEN removed, was handled or is still unread, pending or a dead letter,
\* whatever died or went unanswered between the read, the copy and the ACK.
NoEventLost ==
    \A e \in Events :
        Copies(e) # {} /\ e \notin settled \cup dropped => \E i \in Copies(e) : InTheBus(i)

\* A message is handed over twice for one of two reasons: the consumer that had it
\* stopped, or stood still, without its ACK reaching Redis (the reason that
\* eventbus.go names), or the message waited out ClaimMinIdle behind the others of
\* its batch, in the hand of a consumer that lives.
SecondRunHasACause == \A i \in Ids : runs[i] > 1 => i \in stopped \cup slow

\* Two live consumers have the same message in hand for the second reason only.
OneHolder ==
    \A c, d \in Consumers : c # d => local[c].hold \cap local[d].hold \subseteq slow

\* A message that was handed over maxDeliveries times goes to no other consumer.
HandedOnBelowTheBound ==
    [][\A i \in Ids :
          Pending(i) /\ pel'[i].owner \notin {NoOne, pel[i].owner}
              => pel[i].count < MaxDeliveries]_pel

\* A message that was handed over maxDeliveries times is handed over no more.
DeliveriesBounded == \A i \in Ids : pel[i].count <= MaxDeliveries

\* Every published event is handled, or ends in the pile, or is removed.
EveryEventEnds ==
    \A e \in Events :
        Copies(e) # {} ~> (e \in settled \cup dropped \/ \E i \in Copies(e) : letters[i] > 0)

=============================================================================
