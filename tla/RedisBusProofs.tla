--------------------------- MODULE RedisBusProofs ---------------------------
(***************************************************************************)
(* Theorems about RedisBus, for any number of consumers, events and        *)
(* entries, any batch size, delivery bound, stream length and number of    *)
(* stops and lost answers.                                                 *)
(***************************************************************************)
EXTENDS RedisBus, FiniteSetTheorems, WellFoundedInduction, TLAPS

-----------------------------------------------------------------------------
(* The inductive invariant.                                                *)

\* What is beyond the group's last-delivered-id was handed to nobody, and so was not
\* given up either; the trimmed prefix of the stream ends before the next entry.
Delivered ==
    /\ first \in 1..(Len(stream) + 1)
    /\ \A i \in Ids : i > last => pel[i] = NotPending /\ runs[i] = 0 /\ letters[i] = 0

\* What a loop has in hand, or decided on, was delivered; it has a batch in hand
\* only while it handles one, and an entry to keep only while it keeps one.
InHand ==
    \A c \in Consumers :
        /\ local[c].hold \subseteq 1..last
        /\ local[c].give \subseteq 1..last
        /\ pc[c] \in {"handle", "ack"} <=> local[c].hold # {}
        /\ pc[c] \in {"keep", "keepAck"} => local[c].give # {}
        /\ \A i \in local[c].blank : i < first

\* What a sweep decided to claim was below the bound, and still is if it is idle.
TakenBelowTheBound ==
    \A c \in Consumers : \A i \in local[c].take : pel[i].idle => pel[i].count < MaxDeliveries

BusInv == TypeOK /\ Delivered /\ InHand /\ TakenBelowTheBound

\* The event of an entry needs no more care, or a later entry carries it on
Superseded(i) ==
    \/ stream[i] \in settled \cup dropped
    \/ \E j \in Entries : j > i /\ stream[j] = stream[i] /\ InTheBus(j)

\* Every entry is in the bus, or needs to be there no more.
Accounted == \A i \in Entries : InTheBus(i) \/ Superseded(i)

\* What the stream was trimmed of was settled, or is counted as dropped.
TrimmedIsCounted == \A i \in Entries : i < first => stream[i] \in settled \cup dropped

\* Before an acknowledgement the message was handled, or had lost its fields.
AckIsEarned ==
    \A c \in Consumers : pc[c] = "ack" =>
        LET i == First(local[c].hold) IN i < first \/ stream[i] \in settled

\* Before the acknowledgement of a dead letter there is its copy, or nothing to copy,
\* or the operator has dealt with the copy already.
KeepIsCopied ==
    \A c \in Consumers : pc[c] = "keepAck" =>
        \A i \in local[c].give : i = First(local[c].give) => letters[i] > 0 \/ Superseded(i)

LossInv == Accounted /\ TrimmedIsCounted /\ AckIsEarned /\ KeepIsCopied

\* An entry nobody stopped on, and that was not slow, is pending only in the hand of
\* its owner; a message in hand that was not slow is nobody else's.
HeldInTime ==
    /\ \A i \in Ids : Pending(i) /\ i \notin stopped \cup slow =>
          pel[i].owner \in Consumers /\ i \in local[pel[i].owner].hold
    /\ \A c \in Consumers : \A i \in local[c].hold : i \notin slow =>
          /\ ~pel[i].idle
          /\ Pending(i) => pel[i].owner = c

\* An entry nobody stopped on, and that was not slow, was handed to the handlers at
\* most once, and not yet while it waits in a batch.
RunOnce ==
    \A i \in Ids : i \notin stopped \cup slow =>
        /\ runs[i] <= 1
        /\ \A c \in Consumers : i \in local[c].hold /\ ~(pc[c] = "ack" /\ i = First(local[c].hold))
               => runs[i] = 0

HandInv == OneHolder /\ HeldInTime /\ RunOnce

-----------------------------------------------------------------------------
(* Facts about the operators.                                              *)

\* A nonempty set of naturals has a least element.
LEMMA LeastExists ==
    ASSUME NEW S \in SUBSET Nat, S # {}
    PROVE  \E i \in S : \A j \in S : i <= j
<1>1. PICK i \in S : \A j \in S : ~(<<j, i>> \in OpToRel(<, Nat))
  BY NatLessThanWellFounded, WFMin, Zenon
<1>2. \A j \in S : ~(j < i)
  BY <1>1 DEF OpToRel
<1> QED
  BY <1>2

\* First and Last are the ends of a nonempty set of ids.
LEMMA EndsExist ==
    ASSUME NEW S \in SUBSET Ids, S # {}
    PROVE  /\ First(S) \in S /\ \A j \in S : First(S) <= j
           /\ Last(S) \in S /\ \A j \in S : j <= Last(S)
<1>1. S \in SUBSET Nat /\ \A i \in S : i <= MaxEntries
  BY BusAssumption DEF Ids
<1>2. First(S) \in S /\ \A j \in S : First(S) <= j
  <2>1. \E i \in S : \A j \in S : i <= j
    BY <1>1, LeastExists
  <2> QED
    BY <2>1 DEF First
<1>3. Last(S) \in S /\ \A j \in S : j <= Last(S)
  <2> DEFINE T == {MaxEntries - i : i \in S}
  <2>1. T \in SUBSET Nat /\ T # {}
    <3>1. \A i \in S : MaxEntries - i \in Nat
      BY <1>1, BusAssumption
    <3> QED
      BY <3>1
  <2>2. PICK m \in T : \A n \in T : m <= n
    BY <2>1, LeastExists
  <2>3. PICK i \in S : m = MaxEntries - i
    BY <2>2
  <2>4. \A j \in S : MaxEntries - i <= MaxEntries - j
    BY <2>2, <2>3
  <2>5. \A j \in S : j <= i
    BY <1>1, <2>4, BusAssumption
  <2> QED
    BY <2>5 DEF Last
<1> QED
  BY <1>2, <1>3

\* A page of a set of ids is the beginning of it: an older one is never left out.
LEMMA PageIsTheBeginning ==
    ASSUME NEW S \in SUBSET Ids, NEW i \in Page(S, BatchSize), NEW j \in S, j < i
    PROVE  j \in Page(S, BatchSize)
<1> DEFINE A == {k \in S : k < i}
           B == {k \in S : k < j}
<1>1. i \in S /\ Cardinality(A) < BatchSize
  BY DEF Page
<1>2. S \in SUBSET Nat /\ \A k \in S : k <= MaxEntries
  BY BusAssumption DEF Ids
<1>3. B \subseteq A /\ A \in SUBSET Nat /\ \A k \in A : k <= MaxEntries
  <2>1. i \in Nat /\ j \in Nat
    BY <1>1, <1>2
  <2>2. \A k \in Nat : k < j => k < i
    BY <2>1
  <2> QED
    BY <1>2, <2>2
<1>4. IsFiniteSet(A)
  BY <1>3, BusAssumption, FS_BoundedSetOfNaturals
<1>5. Cardinality(B) <= Cardinality(A) /\ Cardinality(A) \in Nat /\ Cardinality(B) \in Nat
  BY <1>3, <1>4, FS_Subset, FS_CardinalityType
<1>6. Cardinality(B) < BatchSize
  BY <1>1, <1>5, BusAssumption
<1> QED
  BY <1>6 DEF Page

\* A page takes from its set only.
LEMMA PageIsInside == ASSUME NEW S PROVE Page(S, BatchSize) \subseteq S
BY DEF Page

\* What a step of c's loop does to the loops.
LEMMA GotoIs ==
    ASSUME TypeOK, NEW c \in Consumers, NEW next \in Points, NEW l \in Locals, Goto(c, next, l)
    PROVE  /\ pc' \in [Consumers -> Points] /\ local' \in [Consumers -> Locals]
           /\ pc'[c] = next /\ local'[c] = l
           /\ \A d \in Consumers : d # c => pc'[d] = pc[d] /\ local'[d] = local[d]
BY DEF TypeOK, Goto

Pel == [owner : Consumers \cup {NoOne}, count : Nat, idle : BOOLEAN]

\* An entry that a step leaves idle was idle before and is the same.
NoneTurnsIdle == \A i \in Ids : pel'[i].idle => pel'[i] = pel[i]

\* A delivery is counted and starts the idle time anew.
LEMMA DeliverIs ==
    ASSUME TypeOK, NEW c \in Consumers, NEW S, Deliver(S, c)
    PROVE  /\ pel' \in [Ids -> Pel] /\ NoneTurnsIdle
           /\ \A i \in Ids : pel'[i] = IF i \in S THEN [owner |-> c, count |-> pel[i].count + 1, idle |-> FALSE]
                                       ELSE pel[i]
<1>1. \A i \in Ids : pel[i].count + 1 \in Nat
  BY DEF TypeOK
<1>2. \A i \in Ids : [owner |-> c, count |-> pel[i].count + 1, idle |-> FALSE] \in Pel
  BY <1>1 DEF Pel
<1>3. \A i \in Ids : pel'[i] = IF i \in S THEN [owner |-> c, count |-> pel[i].count + 1, idle |-> FALSE]
                               ELSE pel[i]
  BY DEF Deliver
<1>4. pel' \in [Ids -> Pel]
  BY <1>2 DEF Deliver, TypeOK, Pel
<1> QED
  BY <1>3, <1>4 DEF NoneTurnsIdle

\* An acknowledgement clears entries.
LEMMA AckedIs ==
    ASSUME TypeOK, NEW S, Acked(S)
    PROVE  /\ pel' \in [Ids -> Pel] /\ NoneTurnsIdle
           /\ \A i \in Ids : pel'[i] = IF i \in S THEN NotPending ELSE pel[i]
<1>1. NotPending \in Pel /\ ~NotPending.idle
  BY DEF NotPending, Pel
<1> QED
  BY <1>1 DEF Acked, TypeOK, Pel, NoneTurnsIdle

-----------------------------------------------------------------------------
(* BusInv is inductive.                                                    *)

\* Nothing is published, pending or in hand at the start.
LEMMA InitBus == Init => BusInv
<1> SUFFICES ASSUME Init PROVE BusInv
  OBVIOUS
<1>1. Fresh \in Locals /\ Fresh.hold = {} /\ Fresh.give = {} /\ Fresh.blank = {} /\ Fresh.take = {}
  BY BusAssumption DEF Fresh, Locals
<1>2. NotPending \in Pel
  BY DEF NotPending, Pel
<1>3. stream \in Seq(Events) /\ Len(stream) = 0
  BY DEF Init
<1>4. TypeOK
  BY <1>1, <1>2, <1>3, BusAssumption DEF Init, TypeOK, Pel, Points
<1>5. Delivered
  BY <1>3 DEF Init, Delivered
<1>6. InHand /\ TakenBelowTheBound
  BY <1>1 DEF Init, InHand, TakenBelowTheBound
<1> QED
  BY <1>4, <1>5, <1>6 DEF BusInv

\* The stream and the group's place in it, as far as a loop's step that reads nothing
\* new leaves them alone.
LEMMA LoopStep ==
    ASSUME BusInv, NEW c \in Consumers, NEW next \in Points, NEW l \in Locals, Goto(c, next, l),
           UNCHANGED <<stream, first, last>>,
           pel' \in [Ids -> Pel], NoneTurnsIdle, \A i \in Ids : i > last => pel'[i] = NotPending,
           letters' \in [Ids -> Nat], \A i \in Ids : i > last => letters'[i] = 0, closing' \in [Consumers -> BOOLEAN], used' \subseteq Consumers,
           settled' \subseteq Events, dropped' \subseteq Events, runs' \in [Ids -> Nat],
           \A i \in Ids : i > last => runs'[i] = 0,
           stopped' \subseteq Ids, slow' \subseteq Ids, stops' \in 0..MaxStops, lost' \in 0..MaxLost,
           l.hold \subseteq 1..last, l.give \subseteq 1..last,
           next \in {"handle", "ack"} <=> l.hold # {},
           next \in {"keep", "keepAck"} => l.give # {},
           \A i \in l.blank : i < first,
           \A i \in l.take : pel'[i].idle => pel[i].count < MaxDeliveries
    PROVE  BusInv'
<1>1. /\ pc' \in [Consumers -> Points] /\ local' \in [Consumers -> Locals]
      /\ pc'[c] = next /\ local'[c] = l
      /\ \A d \in Consumers : d # c => pc'[d] = pc[d] /\ local'[d] = local[d]
  BY GotoIs DEF BusInv
<1>2. TypeOK'
  BY <1>1 DEF BusInv, TypeOK, Pel
<1>3. Delivered'
  BY DEF BusInv, Delivered
<1>4. InHand'
  <2> SUFFICES ASSUME NEW d \in Consumers
               PROVE  /\ local'[d].hold \subseteq 1..last /\ local'[d].give \subseteq 1..last
                      /\ pc'[d] \in {"handle", "ack"} <=> local'[d].hold # {}
                      /\ pc'[d] \in {"keep", "keepAck"} => local'[d].give # {}
                      /\ \A i \in local'[d].blank : i < first
    BY DEF InHand
  <2>1. CASE d = c
    BY <1>1, <2>1
  <2>2. CASE d # c
    BY <1>1, <2>2 DEF BusInv, InHand
  <2> QED
    BY <2>1, <2>2
<1>5. TakenBelowTheBound'
  <2> SUFFICES ASSUME NEW d \in Consumers, NEW i \in local'[d].take, pel'[i].idle
               PROVE  pel'[i].count < MaxDeliveries
    BY DEF TakenBelowTheBound
  <2>1. i \in Ids
    BY <1>1 DEF Locals
  <2>2. pel'[i] = pel[i]
    BY <2>1 DEF NoneTurnsIdle
  <2>3. CASE d = c
    BY <1>1, <2>2, <2>3
  <2>4. CASE d # c
    BY <1>1, <2>2, <2>4 DEF BusInv, TakenBelowTheBound
  <2> QED
    BY <2>3, <2>4
<1> QED
  BY <1>2, <1>3, <1>4, <1>5 DEF BusInv

\* The state a step of a loop usually leaves alone has its types.
LEMMA Typed ==
    ASSUME BusInv, NEW c \in Consumers
    PROVE  /\ local[c] \in Locals /\ pel \in [Ids -> Pel] /\ letters \in [Ids -> Nat]
           /\ closing \in [Consumers -> BOOLEAN] /\ used \subseteq Consumers
           /\ settled \subseteq Events /\ dropped \subseteq Events /\ runs \in [Ids -> Nat]
           /\ stopped \subseteq Ids /\ slow \subseteq Ids /\ stops \in 0..MaxStops /\ lost \in 0..MaxLost
           /\ \A i \in Ids : i > last => pel[i] = NotPending /\ runs[i] = 0 /\ letters[i] = 0
           /\ last \in Nat /\ last <= MaxEntries /\ 1..last \subseteq Ids
           /\ last <= Len(stream) /\ Len(stream) \in Nat /\ Len(stream) <= MaxEntries
           /\ 1..last \subseteq Entries /\ Entries \subseteq Ids
<1>1. /\ local[c] \in Locals /\ pel \in [Ids -> Pel] /\ letters \in [Ids -> Nat]
      /\ closing \in [Consumers -> BOOLEAN] /\ used \subseteq Consumers
      /\ settled \subseteq Events /\ dropped \subseteq Events /\ runs \in [Ids -> Nat]
      /\ stopped \subseteq Ids /\ slow \subseteq Ids /\ stops \in 0..MaxStops /\ lost \in 0..MaxLost
      /\ \A i \in Ids : i > last => pel[i] = NotPending /\ runs[i] = 0 /\ letters[i] = 0
  BY DEF BusInv, TypeOK, Pel, Delivered
<1>2. Len(stream) \in Nat /\ Len(stream) <= MaxEntries /\ last \in 0..Len(stream)
  BY DEF BusInv, TypeOK
<1>3. last \in Nat /\ last <= Len(stream) /\ last <= MaxEntries
  BY <1>2, BusAssumption
<1>4. 1..last \subseteq Ids /\ 1..last \subseteq Entries /\ Entries \subseteq Ids
  BY <1>2, <1>3, BusAssumption DEF Ids, Entries
<1> QED
  BY <1>1, <1>2, <1>3, <1>4

\* A counted fault stays within its bound.
LEMMA LoseTyped == ASSUME BusInv, LoseAnswer PROVE lost' \in 0..MaxLost
BY BusAssumption DEF BusInv, TypeOK, LoseAnswer

\* A start, a stop and a death leave a loop with nothing in hand.
LEMMA TurnsBus ==
    ASSUME BusInv, NEW c \in Consumers, Start(c) \/ Stop(c) \/ Crash(c)
    PROVE  BusInv'
<1>1. Fresh \in Locals /\ Fresh.hold = {} /\ Fresh.give = {} /\ Fresh.blank = {} /\ Fresh.take = {}
  BY BusAssumption DEF Fresh, Locals
<1>2. /\ UNCHANGED <<stream, first, last, pel, letters, settled, dropped, runs, slow, lost>>
      /\ \E next \in {"sweep", "down"} : Goto(c, next, Fresh)
  BY DEF Start, Stop, Crash, redis, history
<1>5. closing' \in [Consumers -> BOOLEAN] /\ used' \subseteq Consumers
  <2>1. closing' = closing \/ closing' = [closing EXCEPT ![c] = FALSE]
    BY DEF Start, Stop, Crash
  <2> QED
    BY <2>1, Typed DEF Start, Stop, Crash
<1>6. stopped' \subseteq Ids /\ stops' \in 0..MaxStops
  BY Typed, BusAssumption DEF Start, Stop, Crash, Mine, history
<1>3. NoneTurnsIdle
  BY <1>2 DEF NoneTurnsIdle
<1>4. "sweep" \in Points /\ "down" \in Points
  BY DEF Points
<1> QED
  BY <1>1, <1>2, <1>3, <1>4, <1>5, <1>6, Typed, LoopStep

\* A sweep decides on idle entries, which were delivered.
LEMMA SweepBus ==
    ASSUME BusInv, NEW c \in Consumers, Sweep(c)
    PROVE  BusInv'
<1> DEFINE page == Page({i \in Ids : Pending(i) /\ pel[i].idle}, BatchSize)
           others == {i \in page : pel[i].owner # c}
           give == {i \in others : Exhausted(i)}
           take == others \ give
           next == IF give # {} THEN "keep" ELSE IF take # {} THEN "claim" ELSE "loop"
           l == [local[c] EXCEPT !.give = give, !.take = take]
<1>1. Goto(c, next, l) /\ UNCHANGED <<redis, history, closing, used, stops, lost>>
      /\ pc[c] \in {"sweep", "loop"}
  BY DEF Sweep
<1>2. page \subseteq {i \in Ids : Pending(i) /\ pel[i].idle}
  BY PageIsInside
<1> HIDE DEF page
<1>3. give \subseteq Ids /\ take \subseteq Ids /\ give \subseteq 1..last
      /\ \A i \in take : ~Exhausted(i)
  <2>1. \A i \in page : i \in Ids /\ pel[i].idle
    BY <1>2
  <2>2. \A i \in page : ~(i > last)
    BY <2>1, Typed DEF NotPending
  <2>3. page \subseteq 1..last
    BY <2>1, <2>2, Typed DEF Ids
  <2> QED
    BY <2>1, <2>3
<1> HIDE DEF give, take
<1>4. l \in Locals /\ l.hold = local[c].hold /\ l.give = give /\ l.take = take /\ l.blank = local[c].blank
  BY <1>3, Typed DEF Locals
<1> HIDE DEF l
<1>5. next \in Points /\ next \notin {"handle", "ack"} /\ (next \in {"keep", "keepAck"} => give # {})
  BY DEF Points
<1>6. l.hold = {} /\ \A i \in l.blank : i < first
  BY <1>1, <1>4 DEF BusInv, InHand
<1>7. \A i \in take : pel[i].count < MaxDeliveries
  BY <1>3, Typed, BusAssumption DEF Exhausted, Pel
<1>8. NoneTurnsIdle
  BY <1>1 DEF NoneTurnsIdle, redis
<1> HIDE DEF next
<1> QED
  BY <1>1, <1>3, <1>4, <1>5, <1>6, <1>7, <1>8, Typed, LoopStep DEF redis, history

\* A step that only moves the loop on.
LEMMA SweepFailsBus ==
    ASSUME BusInv, NEW c \in Consumers, SweepFails(c)
    PROVE  BusInv'
<1>1. /\ Goto(c, "loop", local[c]) /\ UNCHANGED <<redis, history, closing, used, stops>>
      /\ pc[c] = "sweep"
  BY DEF SweepFails
<1>2. lost' \in 0..MaxLost
  BY LoseTyped, Typed DEF SweepFails
<1>3. NoneTurnsIdle
  BY <1>1 DEF NoneTurnsIdle, redis
<1>4. /\ local[c].hold \subseteq 1..last /\ local[c].give \subseteq 1..last /\ local[c].hold = {}
      /\ \A i \in local[c].blank : i < first
      /\ \A i \in local[c].take : pel[i].idle => pel[i].count < MaxDeliveries
  BY <1>1 DEF BusInv, InHand, TakenBelowTheBound
<1>5. "loop" \in Points
  BY DEF Points
<1> QED
  BY <1>1, <1>2, <1>3, <1>4, <1>5, Typed, LoopStep DEF redis, history

\* The copy of an entry, answered or not, and the entry's acknowledgement.
LEMMA KeepBus ==
    ASSUME BusInv, NEW c \in Consumers, Keep(c) \/ KeepFails(c) \/ KeepAck(c)
    PROVE  BusInv'
<1> DEFINE i == First(local[c].give)
           give == local[c].give \ {i}
           next == IF give # {} THEN "keep" ELSE IF local[c].take # {} THEN "claim" ELSE "loop"
           l == [local[c] EXCEPT !.give = give]
<1>1. /\ pc[c] \in {"keep", "keepAck"} /\ UNCHANGED <<stream, first, last, settled, dropped, runs, slow, closing, used, stops>>
      /\ Goto(c, "keepAck", local[c]) \/ Goto(c, next, l)
  BY DEF Keep, KeepFails, KeepAck, Kept, history
<1>2. /\ local[c].hold = {} /\ local[c].give # {} /\ local[c].give \subseteq 1..last
      /\ \A j \in local[c].blank : j < first
      /\ \A j \in local[c].take : pel[j].idle => pel[j].count < MaxDeliveries
  BY <1>1 DEF BusInv, InHand, TakenBelowTheBound
<1>3. i \in Ids
  BY <1>2, Typed, EndsExist
<1>4. letters' \in [Ids -> Nat] /\ \A j \in Ids : j > last => letters'[j] = 0
  <2>1. [letters EXCEPT ![i] = @ + 1] \in [Ids -> Nat]
    BY <1>3, Typed
  <2>2. letters' \in {letters, [letters EXCEPT ![i] = @ + 1]}
    BY DEF Keep, KeepFails, KeepAck
  <2>3. i \in 1..last
    BY <1>2, Typed, EndsExist
  <2>4. ~(i > last)
    BY <2>3, Typed
  <2> QED
    BY <1>3, <2>1, <2>2, <2>4, Typed
<1>5. pel' = pel \/ Acked({i})
  BY DEF Keep, KeepFails, KeepAck
<1>6. /\ pel' \in [Ids -> Pel] /\ NoneTurnsIdle /\ \A j \in Ids : j > last => pel'[j] = NotPending
  <2>1. CASE pel' = pel
    BY <2>1, Typed DEF NoneTurnsIdle
  <2>2. CASE Acked({i})
    BY <2>2, Typed, AckedIs DEF BusInv
  <2> QED
    BY <1>5, <2>1, <2>2
<1>7. lost' \in 0..MaxLost /\ stopped' \subseteq Ids
  BY <1>3, LoseTyped, Typed DEF Keep, KeepFails, KeepAck, history
<1> HIDE DEF i
<1>8. \A j \in local[c].take : pel'[j].idle => pel[j].count < MaxDeliveries
  <2>1. local[c].take \subseteq Ids
    BY Typed DEF Locals
  <2> QED
    BY <1>2, <1>6, <2>1 DEF NoneTurnsIdle
<1>9. CASE Goto(c, "keepAck", local[c])
  <2>1. "keepAck" \in Points
    BY DEF Points
  <2> QED
    BY <1>1, <1>2, <1>4, <1>6, <1>7, <1>8, <1>9, <2>1, Typed, LoopStep
<1>10. CASE Goto(c, next, l)
  <2>1. l \in Locals /\ l.hold = {} /\ l.give = give /\ l.take = local[c].take /\ l.blank = local[c].blank
    BY <1>2, Typed DEF Locals
  <2>2. next \in Points /\ next \notin {"handle", "ack"} /\ (next \in {"keep", "keepAck"} => give # {})
    BY DEF Points
  <2>3. give \subseteq 1..last
    BY <1>2
  <2> HIDE DEF l, next, give
  <2> QED
    BY <1>1, <1>2, <1>4, <1>6, <1>7, <1>8, <1>10, <2>1, <2>2, <2>3, Typed, LoopStep
<1> QED
  BY <1>1, <1>9, <1>10

\* The batch in hand after a read or a claim.
LEMMA BeginIs ==
    ASSUME NEW c \in Consumers, NEW S \in SUBSET Ids, NEW k \in Locals, Begin(c, S, k)
    PROVE  \E next \in {"loop", "handle"} : \E l \in Locals :
              /\ Goto(c, next, l)
              /\ l.hold = S /\ l.give = k.give /\ l.take = k.take /\ l.blank = k.blank
              /\ next = "handle" <=> S # {}
<1> DEFINE l == [k EXCEPT !.hold = S, !.late = FALSE]
           next == IF S = {} THEN "loop" ELSE "handle"
<1>1. l \in Locals /\ l.hold = S /\ l.give = k.give /\ l.take = k.take /\ l.blank = k.blank
  BY DEF Locals
<1>2. Goto(c, next, l)
  BY DEF Begin
<1> HIDE DEF l
<1> QED
  BY <1>1, <1>2

\* A claim delivers what is still idle, and drops what was trimmed.
LEMMA ClaimBus ==
    ASSUME BusInv, NEW c \in Consumers, Claim(c)
    PROVE  BusInv'
<1> DEFINE got == {i \in Granted(c) : Present(i)}
           k == [local[c] EXCEPT !.take = {}]
<1>1. /\ pc[c] = "claim" /\ Begin(c, got, k)
      /\ UNCHANGED <<stream, first, last, letters, history, closing, used, stops, lost>>
      /\ \A i \in Ids : pel'[i] = CASE i \in got -> [owner |-> c, count |-> pel[i].count + 1, idle |-> FALSE]
                                    [] i \in Granted(c) \ got -> NotPending
                                    [] OTHER -> pel[i]
      /\ pel' \in [Ids -> {pel'[i] : i \in Ids}]
  BY DEF Claim
<1>2. Granted(c) \subseteq Ids /\ \A i \in Granted(c) : pel[i].idle
  BY Typed DEF Granted, Locals
<1>3. got \in SUBSET Ids /\ got \subseteq 1..last
  <2>1. \A i \in Granted(c) : ~(i > last)
    BY <1>2, Typed DEF NotPending
  <2> QED
    BY <1>2, <2>1, Typed DEF Ids
<1>4. k \in Locals /\ k.give = local[c].give /\ k.take = {} /\ k.blank = local[c].blank
  BY Typed DEF Locals
<1>5. NotPending \in Pel /\ ~NotPending.idle
  BY DEF NotPending, Pel
<1>6. \A i \in Ids : [owner |-> c, count |-> pel[i].count + 1, idle |-> FALSE] \in Pel
  BY Typed DEF Pel
<1> HIDE DEF got, k
<1>7. /\ \A i \in Ids : pel'[i] \in Pel
      /\ NoneTurnsIdle
      /\ \A i \in Ids : i > last => pel'[i] = NotPending
  <2> SUFFICES ASSUME NEW i \in Ids
               PROVE  /\ pel'[i] \in Pel /\ (pel'[i].idle => pel'[i] = pel[i])
                      /\ i > last => pel'[i] = NotPending
    BY DEF NoneTurnsIdle
  <2>1. CASE i \in got
    <3>1. ~(i > last)
      BY <1>3, <2>1, Typed
    <3> QED
      BY <1>1, <1>6, <2>1, <3>1
  <2>2. CASE i \notin got /\ i \in Granted(c)
    BY <1>1, <1>5, <2>2
  <2>3. CASE i \notin got /\ i \notin Granted(c)
    BY <1>1, <2>3, Typed
  <2> QED
    BY <2>1, <2>2, <2>3
<1>8. pel' \in [Ids -> Pel]
  BY <1>1, <1>7
<1>9. PICK next \in {"loop", "handle"} : \E l \in Locals :
          /\ Goto(c, next, l)
          /\ l.hold = got /\ l.give = k.give /\ l.take = k.take /\ l.blank = k.blank
          /\ next = "handle" <=> got # {}
  BY <1>1, <1>3, <1>4, BeginIs
<1>10. PICK l \in Locals :
          /\ Goto(c, next, l)
          /\ l.hold = got /\ l.give = k.give /\ l.take = k.take /\ l.blank = k.blank
          /\ next = "handle" <=> got # {}
  BY <1>9
<1>11. local[c].give \subseteq 1..last /\ \A i \in local[c].blank : i < first
  BY DEF BusInv, InHand
<1>12. next \in Points /\ next \notin {"keep", "keepAck", "ack"}
  BY DEF Points
<1> QED
  BY <1>1, <1>3, <1>4, <1>7, <1>8, <1>10, <1>11, <1>12, Typed, LoopStep DEF history

\* A claim that failed, or whose answer was lost.
LEMMA ClaimFailsBus ==
    ASSUME BusInv, NEW c \in Consumers, ClaimFails(c)
    PROVE  BusInv'
<1> DEFINE l == [local[c] EXCEPT !.take = {}]
<1>1. /\ pc[c] = "claim" /\ Goto(c, "loop", l)
      /\ UNCHANGED <<stream, first, last, letters, settled, dropped, runs, slow, closing, used, stops>>
      /\ pel' = pel \/ Deliver({i \in Granted(c) : Present(i)}, c)
  BY DEF ClaimFails
<1>2. Granted(c) \subseteq Ids /\ \A i \in Granted(c) : pel[i].idle
  BY Typed DEF Granted, Locals
<1>3. lost' \in 0..MaxLost /\ stopped' \subseteq Ids
  BY <1>2, LoseTyped, Typed DEF ClaimFails
<1>4. l \in Locals /\ l.hold = local[c].hold /\ l.give = local[c].give /\ l.take = {} /\ l.blank = local[c].blank
  BY Typed DEF Locals
<1>5. /\ pel' \in [Ids -> Pel] /\ NoneTurnsIdle /\ \A j \in Ids : j > last => pel'[j] = NotPending
  <2>1. CASE pel' = pel
    BY <2>1, Typed DEF NoneTurnsIdle
  <2>2. CASE Deliver({i \in Granted(c) : Present(i)}, c)
    <3> DEFINE got == {i \in Granted(c) : Present(i)}
    <3>0. got \subseteq Granted(c) /\ Deliver(got, c)
      BY <2>2
    <3> HIDE DEF got
    <3>1. /\ pel' \in [Ids -> Pel] /\ NoneTurnsIdle
          /\ \A i \in Ids : i \notin Granted(c) => pel'[i] = pel[i]
      BY <3>0, DeliverIs DEF BusInv
    <3>2. \A i \in Granted(c) : ~(i > last)
      BY <1>2, Typed DEF NotPending
    <3> QED
      BY <3>1, <3>2, Typed
  <2> QED
    BY <1>1, <2>1, <2>2
<1>6. local[c].hold = {} /\ local[c].give \subseteq 1..last /\ \A i \in local[c].blank : i < first
  BY <1>1 DEF BusInv, InHand
<1>7. "loop" \in Points
  BY DEF Points
<1> HIDE DEF l
<1> QED
  BY <1>1, <1>3, <1>4, <1>5, <1>6, <1>7, Typed, LoopStep

\* A read of the own pending list delivers again what the name already has.
LEMMA ReadPendingBus ==
    ASSUME BusInv, NEW c \in Consumers, ReadPending(c)
    PROVE  BusInv'
<1> DEFINE page == Page(Own(c), BatchSize)
<1>1. /\ pc[c] = "loop" /\ UNCHANGED <<stream, first, last, letters, history, closing, used, stops, lost>>
      /\ IF page = {}
         THEN Goto(c, "loop", [local[c] EXCEPT !.reading = "new"]) /\ pel' = pel
         ELSE /\ Deliver(page, c)
              /\ Begin(c, page, [local[c] EXCEPT !.cursor = Last(page),
                                                 !.blank = {i \in page : ~Present(i)}])
  BY DEF ReadPending
<1>2. /\ local[c].hold = {} /\ local[c].give \subseteq 1..last /\ \A i \in local[c].blank : i < first
      /\ \A i \in local[c].take : pel[i].idle => pel[i].count < MaxDeliveries
  BY <1>1 DEF BusInv, InHand, TakenBelowTheBound
<1>3. page \in SUBSET Ids /\ \A i \in page : Pending(i)
  <2>1. page \subseteq Own(c)
    BY PageIsInside
  <2> QED
    BY <2>1, BusAssumption DEF Own, Pending
<1>4. page \subseteq 1..last
  <2>1. \A i \in page : ~(i > last)
    BY <1>3, Typed DEF NotPending, Pending
  <2> QED
    BY <1>3, <2>1, Typed DEF Ids
<1> HIDE DEF page
<1>5. CASE page = {}
  <2> DEFINE l == [local[c] EXCEPT !.reading = "new"]
  <2>1. l \in Locals /\ l.hold = {} /\ l.give = local[c].give /\ l.take = local[c].take /\ l.blank = local[c].blank
    BY <1>2, Typed DEF Locals
  <2>2. Goto(c, "loop", l) /\ pel' = pel
    BY <1>1, <1>5
  <2>3. NoneTurnsIdle /\ "loop" \in Points
    BY <2>2 DEF NoneTurnsIdle, Points
  <2> HIDE DEF l
  <2> QED
    BY <1>1, <1>2, <2>1, <2>2, <2>3, Typed, LoopStep DEF history
<1>6. CASE page # {}
  <2> DEFINE k == [local[c] EXCEPT !.cursor = Last(page), !.blank = {i \in page : ~Present(i)}]
  <2>1. Last(page) \in Ids
    BY <1>3, <1>6, EndsExist
  <2>2. k \in Locals /\ k.give = local[c].give /\ k.take = local[c].take
        /\ k.blank = {i \in page : ~Present(i)}
    <3>1. Last(page) \in 0..MaxEntries
      BY <2>1, BusAssumption DEF Ids
    <3>2. {i \in page : ~Present(i)} \in SUBSET Ids
      BY <1>3
    <3> QED
      BY <3>1, <3>2, Typed DEF Locals
  <2>3. Begin(c, page, k) /\ Deliver(page, c)
    BY <1>1, <1>6
  <2> HIDE DEF k
  <2>4. PICK next \in {"loop", "handle"} : \E l \in Locals :
            /\ Goto(c, next, l)
            /\ l.hold = page /\ l.give = k.give /\ l.take = k.take /\ l.blank = k.blank
            /\ next = "handle" <=> page # {}
    BY <1>3, <2>2, <2>3, BeginIs
  <2>5. PICK l \in Locals :
            /\ Goto(c, next, l)
            /\ l.hold = page /\ l.give = k.give /\ l.take = k.take /\ l.blank = k.blank
            /\ next = "handle" <=> page # {}
    BY <2>4
  <2>6. /\ pel' \in [Ids -> Pel] /\ NoneTurnsIdle /\ \A i \in Ids : i > last => pel'[i] = NotPending
    <3>1. /\ pel' \in [Ids -> Pel] /\ NoneTurnsIdle
          /\ \A i \in Ids : i \notin page => pel'[i] = pel[i]
      BY <2>3, DeliverIs DEF BusInv
    <3>2. \A i \in Ids : i > last => i \notin page
      <4>1. \A i \in 1..last : ~(i > last)
        BY Typed
      <4> QED
        BY <1>4, <4>1
    <3> QED
      BY <3>1, <3>2, Typed
  <2>7. \A i \in l.blank : i < first
    <3>1. \A i \in page : i \in Nat /\ i <= Len(stream)
      BY <1>4, Typed
    <3>2. first \in Nat
      BY BusAssumption DEF BusInv, TypeOK
    <3> QED
      BY <2>2, <2>5, <3>1, <3>2 DEF Present
  <2>8. next \in Points /\ next \notin {"keep", "keepAck", "ack"}
    BY DEF Points
  <2>9. \A i \in l.take : pel'[i].idle => pel[i].count < MaxDeliveries
    <3>1. l.take = local[c].take /\ l.take \subseteq Ids
      BY <2>2, <2>5 DEF Locals
    <3> QED
      BY <1>2, <2>6, <3>1 DEF NoneTurnsIdle
  <2> QED
    BY <1>1, <1>2, <1>4, <2>2, <2>5, <2>6, <2>7, <2>8, <2>9, Typed, LoopStep DEF history
<1> QED
  BY <1>5, <1>6

\* The page of unread messages: in the stream, beyond the last-delivered-id, and
\* without a gap up to its end.
LEMMA UnreadPage ==
    ASSUME BusInv, NEW page, page = Page(Unread, BatchSize), page # {}
    PROVE  /\ page \subseteq Ids /\ page \subseteq Unread /\ page \subseteq 1..Last(page)
           /\ Last(page) \in page /\ Last(page) \in 0..Len(stream) /\ Last(page) > last
           /\ \A i \in Unread : i <= Last(page) => i \in page
<1>1. Unread \in SUBSET Ids /\ \A i \in Unread : i > last /\ i \in Entries
  <2>1. Entries \subseteq Ids
    BY BusAssumption DEF Entries, Ids, BusInv, TypeOK
  <2> QED
    BY <2>1 DEF Unread
<1>2. page \subseteq Unread
  BY PageIsInside
<1>3. Last(page) \in page /\ \A j \in page : j <= Last(page)
  BY <1>1, <1>2, EndsExist
<1>4. Last(page) \in Entries /\ Last(page) \in Nat
  BY <1>1, <1>2, <1>3 DEF Entries
<1>5. Last(page) \in 0..Len(stream) /\ Last(page) > last
  <2>1. Last(page) <= Len(stream)
    BY <1>4 DEF Entries, BusInv, TypeOK
  <2> QED
    BY <1>1, <1>2, <1>3, <1>4, <2>1 DEF BusInv, TypeOK
<1>6. page \subseteq 1..Last(page)
  <2>1. \A j \in page : j \in Nat /\ j >= 1
    BY <1>1, <1>2, BusAssumption DEF Ids
  <2> QED
    BY <1>3, <1>4, <2>1
<1>7. \A i \in Unread : i <= Last(page) => i \in page
  <2> SUFFICES ASSUME NEW i \in Unread, i <= Last(page), i # Last(page)
               PROVE  i \in page
    BY <1>3
  <2>1. i < Last(page)
    <3>1. i \in Nat
      BY <1>1, BusAssumption DEF Ids
    <3> QED
      BY <1>4, <3>1
  <2>2. Last(page) \in Page(Unread, BatchSize)
    BY <1>3
  <2> QED
    BY <1>1, <2>1, <2>2, PageIsTheBeginning
<1> QED
  BY <1>1, <1>2, <1>3, <1>5, <1>6, <1>7

\* A read of new messages, whether it is answered or not.
LEMMA ReadBus ==
    ASSUME BusInv, NEW c \in Consumers, ReadNew(c) \/ ReadUnanswered(c)
    PROVE  BusInv'
<1> DEFINE page == Page(Unread, BatchSize)
<1>1. /\ pc[c] = "loop" /\ page # {} /\ last' = Last(page) /\ Deliver(page, c)
      /\ UNCHANGED <<stream, first, letters, settled, dropped, runs, slow, closing, used, stops>>
      /\ \/ Begin(c, page, [local[c] EXCEPT !.blank = {}]) /\ UNCHANGED <<stopped, lost>>
         \/ UNCHANGED <<pc, local>> /\ LoseAnswer /\ stopped' = stopped \cup page
  BY DEF ReadNew, ReadUnanswered, history, proc
<1>2. /\ page \subseteq Ids /\ page \subseteq 1..Last(page)
      /\ Last(page) \in 0..Len(stream) /\ Last(page) > last
  BY <1>1, UnreadPage
<1> HIDE DEF page
<1>3. /\ pel' \in [Ids -> Pel] /\ NoneTurnsIdle
      /\ \A i \in Ids : i \notin page => pel'[i] = pel[i]
  BY <1>1, DeliverIs DEF BusInv
<1>4. lost' \in 0..MaxLost /\ stopped' \subseteq Ids
  BY <1>1, <1>2, LoseTyped, Typed
<1>5. last' \in Nat /\ 1..last \subseteq 1..last' /\ last < last'
  BY <1>1, <1>2, Typed
<1>6. local[c].hold = {} /\ local[c].give \subseteq 1..last
  BY <1>1 DEF BusInv, InHand
<1>7. /\ pc' \in [Consumers -> Points] /\ local' \in [Consumers -> Locals]
      /\ \A d \in Consumers : local'[d].take = local[d].take
      /\ \A d \in Consumers :
            \/ pc'[d] = pc[d] /\ local'[d] = local[d]
            \/ /\ pc'[d] = "handle" /\ local'[d].hold = page
               /\ local'[d].give = local[c].give /\ local'[d].blank = {}
  <2>1. CASE UNCHANGED <<pc, local>>
    BY <2>1 DEF BusInv, TypeOK
  <2>2. CASE Begin(c, page, [local[c] EXCEPT !.blank = {}])
    <3> DEFINE k == [local[c] EXCEPT !.blank = {}]
    <3>1. k \in Locals /\ k.give = local[c].give /\ k.take = local[c].take /\ k.blank = {}
      BY Typed DEF Locals
    <3>2. Begin(c, page, k)
      BY <2>2
    <3> HIDE DEF k
    <3>3. PICK next \in {"loop", "handle"} : \E l \in Locals :
            /\ Goto(c, next, l)
            /\ l.hold = page /\ l.give = k.give /\ l.take = k.take /\ l.blank = k.blank
            /\ next = "handle" <=> page # {}
      BY <1>2, <3>1, <3>2, BeginIs
    <3>4. PICK l \in Locals :
            /\ Goto(c, next, l)
            /\ l.hold = page /\ l.give = k.give /\ l.take = k.take /\ l.blank = k.blank
            /\ next = "handle" <=> page # {}
      BY <3>3
    <3>5. next \in Points /\ next = "handle"
      BY <1>1, <3>4 DEF Points
    <3>6. /\ pc' \in [Consumers -> Points] /\ local' \in [Consumers -> Locals]
          /\ pc'[c] = next /\ local'[c] = l
          /\ \A d \in Consumers : d # c => pc'[d] = pc[d] /\ local'[d] = local[d]
      BY <3>4, <3>5, GotoIs DEF BusInv
    <3> QED
      BY <3>1, <3>4, <3>5, <3>6
  <2> QED
    BY <1>1, <2>1, <2>2
<1>8. TypeOK'
  BY <1>1, <1>2, <1>3, <1>4, <1>7 DEF BusInv, TypeOK, Pel
<1>9. Delivered'
  <2>1. \A i \in Ids : i > last' => i > last /\ i \notin page
    <3>1. \A i \in 1..last' : ~(i > last')
      BY <1>5
    <3>2. \A i \in Ids : i > last' => i > last
      BY <1>5, Typed, BusAssumption DEF Ids
    <3> QED
      BY <1>1, <1>2, <3>1, <3>2
  <2> QED
    BY <1>1, <1>3, <2>1 DEF BusInv, Delivered
<1>10. InHand'
  <2> SUFFICES ASSUME NEW d \in Consumers
               PROVE  /\ local'[d].hold \subseteq 1..last' /\ local'[d].give \subseteq 1..last'
                      /\ pc'[d] \in {"handle", "ack"} <=> local'[d].hold # {}
                      /\ pc'[d] \in {"keep", "keepAck"} => local'[d].give # {}
                      /\ \A i \in local'[d].blank : i < first'
    BY DEF InHand
  <2>1. CASE pc'[d] = pc[d] /\ local'[d] = local[d]
    BY <1>1, <1>5, <2>1 DEF BusInv, InHand
  <2>2. CASE /\ pc'[d] = "handle" /\ local'[d].hold = page
             /\ local'[d].give = local[c].give /\ local'[d].blank = {}
    BY <1>1, <1>2, <1>5, <1>6, <2>2
  <2> QED
    BY <1>7, <2>1, <2>2
<1>11. TakenBelowTheBound'
  <2> SUFFICES ASSUME NEW d \in Consumers, NEW i \in local[d].take, pel'[i].idle
               PROVE  pel'[i].count < MaxDeliveries
    BY <1>7 DEF TakenBelowTheBound
  <2>1. i \in Ids
    BY Typed DEF Locals
  <2> QED
    BY <1>3, <2>1 DEF NoneTurnsIdle, BusInv, TakenBelowTheBound
<1> QED
  BY <1>8, <1>9, <1>10, <1>11 DEF BusInv

\* The message in hand, while there is one.
LEMMA InHandIs ==
    ASSUME BusInv, NEW c \in Consumers, pc[c] \in {"handle", "ack"}
    PROVE  /\ First(local[c].hold) \in local[c].hold /\ First(local[c].hold) \in 1..last
           /\ First(local[c].hold) \in Ids /\ First(local[c].hold) \in Entries
           /\ ~(First(local[c].hold) > last) /\ stream[First(local[c].hold)] \in Events
<1>1. local[c].hold # {} /\ local[c].hold \subseteq 1..last
  BY DEF BusInv, InHand
<1>2. First(local[c].hold) \in local[c].hold
  BY <1>1, Typed, EndsExist
<1>3. First(local[c].hold) \in 1..last
  BY <1>1, <1>2
<1>4. ~(First(local[c].hold) > last)
  BY <1>3, Typed
<1>5. First(local[c].hold) \in Entries
  BY <1>3, Typed
<1>6. stream[First(local[c].hold)] \in Events
  BY <1>5 DEF Entries, BusInv, TypeOK
<1> QED
  BY <1>2, <1>3, <1>4, <1>5, <1>6, Typed

\* The handlers' end, with the acknowledgement to come or without it, and the
\* acknowledgement.
LEMMA HandleBus ==
    ASSUME BusInv, NEW c \in Consumers, Handle(c) \/ HandleLeaves(c) \/ Ack(c)
    PROVE  BusInv'
<1> DEFINE i == First(local[c].hold)
           rest == local[c].hold \ {i}
           done == IF rest = {} THEN "loop" ELSE "handle"
           l == [local[c] EXCEPT !.hold = rest, !.late = TRUE]
<1>1. /\ pc[c] \in {"handle", "ack"}
      /\ UNCHANGED <<stream, first, last, letters, dropped, slow, closing, used, stops>>
      /\ Goto(c, "ack", local[c]) \/ Goto(c, done, l)
  BY DEF Handle, HandleLeaves, Ack, Done, redis
<1>2. i \in local[c].hold /\ i \in Ids /\ ~(i > last) /\ stream[i] \in Events
  BY <1>1, InHandIs
<1>3. /\ local[c].hold # {} /\ local[c].hold \subseteq 1..last /\ local[c].give \subseteq 1..last
      /\ \A j \in local[c].blank : j < first
      /\ \A j \in local[c].take : pel[j].idle => pel[j].count < MaxDeliveries
  BY <1>1 DEF BusInv, InHand, TakenBelowTheBound
<1>4. /\ runs' = runs \/ runs' = [runs EXCEPT ![i] = @ + 1]
      /\ settled' = settled \/ settled' = settled \cup {stream[i]}
      /\ stopped' = stopped \/ stopped' = stopped \cup {i}
      /\ pel' = pel \/ Acked({i})
  BY DEF Handle, HandleLeaves, Ack, redis
<1>5. lost' \in 0..MaxLost
  BY LoseTyped, Typed DEF Handle, HandleLeaves, Ack
<1> HIDE DEF i
<1>6. runs' \in [Ids -> Nat] /\ \A j \in Ids : j > last => runs'[j] = 0
  <2>1. [runs EXCEPT ![i] = @ + 1] \in [Ids -> Nat]
    BY <1>2, Typed
  <2>2. runs \in [Ids -> Nat] /\ \A j \in Ids : j > last => runs[j] = 0 /\ j # i
    BY <1>2, Typed
  <2> QED
    BY <1>4, <2>1, <2>2
<1>7. settled' \subseteq Events /\ stopped' \subseteq Ids
  <2>1. settled \subseteq Events /\ stopped \subseteq Ids
    BY Typed
  <2> QED
    BY <1>2, <1>4, <2>1
<1>8. /\ pel' \in [Ids -> Pel] /\ NoneTurnsIdle /\ \A j \in Ids : j > last => pel'[j] = NotPending
  <2>1. CASE pel' = pel
    BY <2>1, Typed DEF NoneTurnsIdle
  <2>2. CASE Acked({i})
    BY <2>2, Typed, AckedIs DEF BusInv
  <2> QED
    BY <1>4, <2>1, <2>2
<1>9. \A j \in local[c].take : pel'[j].idle => pel[j].count < MaxDeliveries
  <2>1. local[c].take \subseteq Ids
    BY Typed DEF Locals
  <2> QED
    BY <1>3, <1>8, <2>1 DEF NoneTurnsIdle
<1>10. CASE Goto(c, "ack", local[c])
  <2>1. "ack" \in Points
    BY DEF Points
  <2> QED
    BY <1>1, <1>3, <1>5, <1>6, <1>7, <1>8, <1>9, <1>10, <2>1, Typed, LoopStep
<1>11. CASE Goto(c, done, l)
  <2>1. l \in Locals /\ l.hold = rest /\ l.give = local[c].give /\ l.take = local[c].take
        /\ l.blank = local[c].blank
    BY <1>2, Typed DEF Locals
  <2>2. done \in Points /\ done \notin {"keep", "keepAck", "ack"} /\ (done = "handle" <=> rest # {})
    BY DEF Points
  <2>3. rest \subseteq 1..last
    BY <1>3
  <2> HIDE DEF l, done, rest
  <2> QED
    BY <1>1, <1>3, <1>5, <1>6, <1>7, <1>8, <1>9, <1>11, <2>1, <2>2, <2>3, Typed, LoopStep
<1> QED
  BY <1>1, <1>10, <1>11

\* A shutdown only raises the flag.
LEMMA ShutdownBus ==
    ASSUME BusInv, NEW c \in Consumers, Shutdown(c)
    PROVE  BusInv'
<1>1. UNCHANGED <<stream, first, last, pel, letters, settled, dropped, runs, slow, stopped, pc, local, used, lost>>
  BY DEF Shutdown, redis, history
<1>2. stops' \in 0..MaxStops /\ closing' \in [Consumers -> BOOLEAN]
  BY BusAssumption DEF Shutdown, BusInv, TypeOK
<1>3. TypeOK'
  BY <1>1, <1>2 DEF BusInv, TypeOK
<1>4. Delivered' /\ InHand' /\ TakenBelowTheBound'
  BY <1>1 DEF BusInv, Delivered, InHand, TakenBelowTheBound
<1> QED
  BY <1>3, <1>4 DEF BusInv

\* What XADD does to the stream: one entry more at its end, and perhaps fewer at its
\* beginning, which are counted unless they were settled.
LEMMA XAddIs ==
    ASSUME BusInv, NEW e \in Events, XAdd(e)
    PROVE  /\ stream' \in Seq(Events) /\ Len(stream') = Len(stream) + 1 /\ Len(stream') <= MaxEntries
           /\ \A i \in Entries : stream'[i] = stream[i]
           /\ stream'[Len(stream) + 1] = e
           /\ first' \in first..(Len(stream) + 1) /\ first' \in 1..(MaxEntries + 1)
           /\ dropped \subseteq dropped' /\ dropped' \subseteq Events
           /\ \A i \in Entries : first <= i /\ i < first' => stream[i] \in settled \cup dropped'
<1>1. stream \in Seq(Events) /\ Len(stream) \in Nat /\ first \in 1..(Len(stream) + 1)
      /\ MaxEntries \in Nat /\ Len(stream) < MaxEntries
  BY BusAssumption DEF BusInv, TypeOK, Delivered, XAdd
<1>2. /\ stream' \in Seq(Events) /\ Len(stream') = Len(stream) + 1
      /\ \A i \in 1..Len(stream) : stream'[i] = stream[i]
      /\ stream'[Len(stream) + 1] = e
  BY <1>1 DEF XAdd
<1>3. PICK f \in first..(Len(stream) + 1) :
          /\ first' = f
          /\ dropped' = dropped \cup {stream[i] : i \in {j \in first..(f - 1) : stream[j] \notin settled}}
  BY DEF XAdd
<1>4. \A i \in first..(f - 1) : i \in 1..Len(stream)
  BY <1>1, <1>3
<1>5. \A i \in first..(f - 1) : stream[i] \in Events
  BY <1>1, <1>4
<1>6. dropped' \subseteq Events /\ dropped \subseteq dropped'
  BY <1>3, <1>5 DEF BusInv, TypeOK
<1>7. \A i \in Entries : first <= i /\ i < first' => stream[i] \in settled \cup dropped'
  <2>1. \A i \in Entries : first <= i /\ i < f => i \in first..(f - 1)
    BY <1>1, <1>3 DEF Entries
  <2> QED
    BY <1>3, <2>1
<1> QED
  BY <1>1, <1>2, <1>3, <1>6, <1>7 DEF Entries

\* A publish and the operator's commands.
LEMMA OperatorBus ==
    ASSUME BusInv, (\E e \in Events : Publish(e)) \/ (\E i \in Ids : Redrive(i) \/ Discard(i))
    PROVE  BusInv'
<1>1. UNCHANGED <<last, pel, settled, runs, slow, stopped, pc, local, closing, used, stops, lost>>
  BY DEF Publish, Redrive, Discard, proc
<1>2. \A i \in Ids : letters[i] > 0 => i \in Entries
  <2>1. \A i \in Ids : letters[i] > 0 => ~(i > last)
    BY DEF BusInv, Delivered
  <2>2. last <= Len(stream) /\ Len(stream) \in Nat /\ last \in Nat
    BY DEF BusInv, TypeOK
  <2> QED
    BY <2>1, <2>2, BusAssumption DEF Ids, Entries
<1>3. letters' \in [Ids -> Nat] /\ \A j \in Ids : j > last => letters'[j] = 0
  <2>1. letters \in [Ids -> Nat] /\ \A j \in Ids : j > last => letters[j] = 0
    BY DEF BusInv, TypeOK, Delivered
  <2>2. letters' = letters \/ \E i \in Ids : letters[i] > 0 /\ letters' = [letters EXCEPT ![i] = @ - 1]
    BY DEF Publish, Redrive, Discard
  <2> QED
    BY <2>1, <2>2
<1>4. /\ stream' \in Seq(Events) /\ Len(stream') >= Len(stream) /\ Len(stream') <= MaxEntries
      /\ first' \in 1..(MaxEntries + 1) /\ first' >= first /\ first' <= Len(stream') + 1
      /\ dropped' \subseteq Events
  <2>1. /\ stream \in Seq(Events) /\ Len(stream) \in Nat /\ first \in 1..(Len(stream) + 1)
        /\ first \in 1..(MaxEntries + 1) /\ Len(stream) <= MaxEntries /\ dropped \subseteq Events
    BY DEF BusInv, TypeOK, Delivered
  <2>2. CASE \E e \in Events : XAdd(e)
    <3>1. PICK e \in Events : XAdd(e)
      BY <2>2
    <3> QED
      BY <2>1, <3>1, XAddIs, BusAssumption
  <2>3. CASE \E i \in Ids : Discard(i)
    <3>1. PICK i \in Ids : Discard(i)
      BY <2>3
    <3>2. stream[i] \in Events
      BY <1>2, <2>1, <3>1 DEF Discard, Entries
    <3> QED
      BY <2>1, <3>1, <3>2 DEF Discard
  <2>4. (\E e \in Events : XAdd(e)) \/ \E i \in Ids : Discard(i)
    <3>1. \A i \in Entries : stream[i] \in Events
      BY <2>1 DEF Entries
    <3> QED
      BY <1>2, <3>1 DEF Publish, Redrive
  <2> QED
    BY <2>2, <2>3, <2>4
<1>5. TypeOK'
  <2>1. last' \in 0..Len(stream')
    BY <1>1, <1>4 DEF BusInv, TypeOK
  <2> QED
    BY <1>1, <1>3, <1>4, <2>1 DEF BusInv, TypeOK
<1>6. Delivered'
  <2>1. first' \in 1..(Len(stream') + 1)
    BY <1>4, BusAssumption
  <2> QED
    BY <1>1, <1>3, <2>1 DEF BusInv, Delivered
<1>7. InHand'
  <2>1. \A c \in Consumers : \A i \in local[c].blank : i < first'
    <3>1. \A c \in Consumers : \A i \in local[c].blank : i \in Nat /\ i < first
      BY BusAssumption DEF BusInv, InHand, TypeOK, Locals, Ids
    <3> QED
      BY <1>4, <3>1 DEF BusInv, TypeOK
  <2> QED
    BY <1>1, <2>1 DEF BusInv, InHand
<1>8. TakenBelowTheBound'
  BY <1>1 DEF BusInv, TakenBelowTheBound
<1> QED
  BY <1>5, <1>6, <1>7, <1>8 DEF BusInv

\* Time passes over an entry that no sweep has decided on.
LEMMA IdleBus ==
    ASSUME BusInv, NEW i \in Ids, Idle(i)
    PROVE  BusInv'
<1>1. /\ UNCHANGED <<stream, first, last, letters, settled, dropped, runs, stopped, pc, local, closing, used, stops, lost>>
      /\ pel' = [pel EXCEPT ![i].idle = TRUE] /\ Pending(i)
      /\ \A c \in Consumers : i \notin local[c].take
  BY DEF Idle, history, proc
<1>2. pel \in [Ids -> Pel]
  BY DEF BusInv, TypeOK, Pel
<1>3. [pel[i] EXCEPT !.idle = TRUE] \in Pel
  BY <1>2 DEF Pel
<1>4. pel' \in [Ids -> Pel] /\ \A j \in Ids : j # i => pel'[j] = pel[j]
  BY <1>1, <1>2, <1>3
<1>a. slow' \subseteq Ids
  BY DEF Idle, BusInv, TypeOK
<1>5. TypeOK'
  BY <1>1, <1>4, <1>a DEF BusInv, TypeOK, Pel
<1>6. Delivered'
  <2>1. ~(i > last)
    BY <1>1 DEF BusInv, Delivered, Pending, NotPending
  <2> QED
    BY <1>1, <1>4, <2>1 DEF BusInv, Delivered
<1>7. InHand'
  BY <1>1 DEF BusInv, InHand
<1>8. TakenBelowTheBound'
  <2> SUFFICES ASSUME NEW c \in Consumers, NEW j \in local[c].take, pel'[j].idle
               PROVE  pel'[j].count < MaxDeliveries
    BY <1>1 DEF TakenBelowTheBound
  <2>1. j \in Ids /\ j # i
    BY <1>1 DEF BusInv, TypeOK, Locals
  <2> QED
    BY <1>4, <2>1 DEF BusInv, TakenBelowTheBound
<1> QED
  BY <1>5, <1>6, <1>7, <1>8 DEF BusInv

\* Every step keeps the invariant.
LEMMA NextBus == ASSUME BusInv, [Next]_vars PROVE BusInv'
<1>1. CASE UNCHANGED vars
  BY <1>1 DEF vars, redis, history, proc, BusInv, TypeOK, Delivered, InHand, TakenBelowTheBound,
              Pending
<1>2. CASE \E e \in Events : Publish(e)
  BY <1>2, OperatorBus
<1>3. CASE \E i \in Ids : Redrive(i) \/ Discard(i)
  BY <1>3, OperatorBus
<1>4. CASE \E i \in Ids : Idle(i)
  BY <1>4, IdleBus
<1>5. ASSUME NEW c \in Consumers,
             Start(c) \/ Sweep(c) \/ Advance(c) \/ Shutdown(c) \/ Crash(c)
      PROVE  BusInv'
  BY <1>5, TurnsBus, SweepBus, SweepFailsBus, KeepBus, ClaimBus, ClaimFailsBus, ReadPendingBus,
     ReadBus, HandleBus, ShutdownBus DEF Advance
<1> QED
  BY <1>1, <1>2, <1>3, <1>4, <1>5 DEF Next

\* The bus keeps its types, and its bookkeeping agrees: the pending list, the batches
\* in hand and what the sweeps decided on name messages that were delivered.
THEOREM BusTypeCorrect == Spec => []BusInv
<1>1. Init => BusInv
  BY InitBus
<1>2. BusInv /\ [Next]_vars => BusInv'
  BY NextBus
<1> QED
  BY <1>1, <1>2, PTL DEF Spec

-----------------------------------------------------------------------------
(* Deliveries.                                                             *)

\* A pending entry changes its owner in this step only below the delivery bound
HandsOn ==
    \A i \in Ids :
        Pending(i) /\ pel'[i].owner \notin {NoOne, pel[i].owner} => pel[i].count < MaxDeliveries

\* Only a claim gives a pending entry to another consumer, and it takes what the
\* sweep found idle and below the bound.
LEMMA NextHandsOn == ASSUME BusInv, Next PROVE HandsOn \/ pel' = pel
<1>1. CASE \E e \in Events : Publish(e)
  BY <1>1 DEF Publish
<1>2. CASE \E i \in Ids : Redrive(i) \/ Discard(i)
  BY <1>2 DEF Redrive, Discard
<1>3. ASSUME NEW i \in Ids, Idle(i) PROVE HandsOn
  <2>1. pel \in [Ids -> Pel] /\ pel' = [pel EXCEPT ![i].idle = TRUE]
    BY <1>3 DEF BusInv, TypeOK, Pel, Idle
  <2>2. \A j \in Ids : pel'[j].owner = pel[j].owner
    BY <2>1 DEF Pel
  <2> QED
    BY <2>2 DEF HandsOn
<1>4. ASSUME NEW c \in Consumers, Start(c) \/ Sweep(c) \/ Shutdown(c) \/ Crash(c) \/ Stop(c)
             \/ SweepFails(c) \/ Keep(c) \/ KeepFails(c) \/ Handle(c) \/ HandleLeaves(c)
      PROVE  pel' = pel
  BY <1>4 DEF Start, Sweep, Shutdown, Crash, Stop, SweepFails, Keep, KeepFails, Handle,
              HandleLeaves, redis
<1>5. ASSUME NEW c \in Consumers, KeepAck(c) \/ Ack(c) PROVE HandsOn \/ pel' = pel
  <2>1. pel' = pel \/ \E S \in {{First(local[c].give)}, {First(local[c].hold)}} : Acked(S)
    BY <1>5 DEF KeepAck, Ack
  <2>2. CASE pel' = pel
    BY <2>2
  <2>3. CASE \E S \in {{First(local[c].give)}, {First(local[c].hold)}} : Acked(S)
    <3>1. PICK S \in {{First(local[c].give)}, {First(local[c].hold)}} : Acked(S)
      BY <2>3
    <3>2. \A i \in Ids : pel'[i] = NotPending \/ pel'[i] = pel[i]
      BY <3>1, AckedIs DEF BusInv
    <3> QED
      BY <3>2 DEF HandsOn, NotPending
  <2> QED
    BY <2>1, <2>2, <2>3
<1>6. ASSUME NEW c \in Consumers, Claim(c) \/ ClaimFails(c) PROVE HandsOn \/ pel' = pel
  <2>1. \A i \in Ids : i \notin Granted(c) => pel'[i] = pel[i]
    <3>1. CASE Claim(c)
      BY <3>1 DEF Claim
    <3>2. CASE ClaimFails(c)
      BY <3>2 DEF ClaimFails, Deliver
    <3> QED
      BY <1>6, <3>1, <3>2
  <2>2. \A i \in Granted(c) : pel[i].count < MaxDeliveries
    BY DEF Granted, BusInv, TakenBelowTheBound
  <2> QED
    BY <2>1, <2>2 DEF HandsOn
<1>7. ASSUME NEW c \in Consumers, ReadPending(c) PROVE HandsOn \/ pel' = pel
  <2> DEFINE page == Page(Own(c), BatchSize)
  <2>1. pel' = pel \/ Deliver(page, c)
    BY <1>7 DEF ReadPending
  <2>2. page \subseteq Own(c)
    BY PageIsInside
  <2> HIDE DEF page
  <2>3. CASE Deliver(page, c)
    <3>1. \A i \in Ids : pel'[i] = IF i \in page THEN [owner |-> c, count |-> pel[i].count + 1, idle |-> FALSE]
                                   ELSE pel[i]
      BY <2>3, DeliverIs DEF BusInv
    <3>2. \A i \in page : pel[i].owner = c
      BY <2>2 DEF Own
    <3>3. \A i \in Ids : pel'[i].owner = pel[i].owner
      <4> SUFFICES ASSUME NEW i \in Ids PROVE pel'[i].owner = pel[i].owner
        OBVIOUS
      <4>1. CASE i \in page
        <5>1. pel'[i] = [owner |-> c, count |-> pel[i].count + 1, idle |-> FALSE]
          BY <3>1, <4>1
        <5>2. pel'[i].owner = c
          BY <5>1
        <5> QED
          BY <3>2, <4>1, <5>2
      <4>2. CASE i \notin page
        BY <3>1, <4>2
      <4> QED
        BY <4>1, <4>2
    <3> QED
      BY <3>3 DEF HandsOn
  <2> QED
    BY <2>1, <2>3
<1>8. ASSUME NEW c \in Consumers, ReadNew(c) \/ ReadUnanswered(c) PROVE HandsOn
  <2> DEFINE page == Page(Unread, BatchSize)
  <2>1. Deliver(page, c) /\ page # {}
    BY <1>8 DEF ReadNew, ReadUnanswered
  <2>2. page \subseteq Ids /\ page \subseteq Unread
    BY <2>1, UnreadPage
  <2> HIDE DEF page
  <2>3. \A i \in page : ~Pending(i)
    BY <2>2 DEF Unread, BusInv, Delivered, NotPending, Pending
  <2>4. \A i \in Ids : i \notin page => pel'[i] = pel[i]
    BY <2>1, DeliverIs DEF BusInv
  <2> QED
    BY <2>3, <2>4 DEF HandsOn
<1>9. ASSUME NEW c \in Consumers,
             Start(c) \/ Sweep(c) \/ Advance(c) \/ Shutdown(c) \/ Crash(c)
      PROVE  HandsOn \/ pel' = pel
  BY <1>4, <1>5, <1>6, <1>7, <1>8, <1>9 DEF Advance
<1> QED
  BY <1>1, <1>2, <1>3, <1>9 DEF Next, Publish, Redrive, Discard

\* A message that was handed over maxDeliveries times is given to no other consumer,
\* although the count is read by one command of the sweep and the claim is another,
\* with any number of sweeps, reads and acknowledgements between them.
THEOREM HandedOnBelow == Spec => HandedOnBelowTheBound
<1>1. BusInv /\ [Next]_vars => [HandsOn]_pel
  BY NextHandsOn DEF vars, redis
<1> QED
  BY <1>1, BusTypeCorrect, PTL DEF Spec, HandedOnBelowTheBound, HandsOn

-----------------------------------------------------------------------------
(* No event is lost.                                                       *)

\* The stream grows at its end and is trimmed at its beginning, and what is trimmed is
\* counted.
StreamGrows ==
    /\ Len(stream') >= Len(stream) /\ \A i \in Entries : stream'[i] = stream[i]
    /\ settled \subseteq settled' /\ dropped \subseteq dropped'
    /\ first' \in first..(Len(stream) + 1)
    /\ \A i \in Entries : first <= i /\ i < first' => stream[i] \in settled' \cup dropped'

\* What was in the bus still is, or needs to be no more; so with a dead letter.
NothingGoes ==
    \A i \in Entries :
        /\ InTheBus(i) => InTheBus(i)' \/ Superseded(i)'
        /\ letters[i] > 0 => letters'[i] > 0 \/ Superseded(i)'

\* What a loop is about to acknowledge, it was before or may be.
AcksEarned ==
    \A c \in Consumers :
        /\ pc'[c] = "ack" => \/ pc[c] = "ack" /\ local'[c].hold = local[c].hold
                             \/ First(local'[c].hold) < first'
                             \/ stream'[First(local'[c].hold)] \in settled'
        /\ pc'[c] = "keepAck" => \/ pc[c] = "keepAck" /\ local'[c].give = local[c].give
                                 \/ \A i \in local'[c].give : i = First(local'[c].give) =>
                                        letters'[i] > 0 \/ Superseded(i)'

\* An entry that is superseded stays so: its successor may go only in favour of another.
LEMMA SupersededStays ==
    ASSUME BusInv, BusInv', StreamGrows, NothingGoes, NEW i \in Entries, Superseded(i)
    PROVE  Superseded(i)'
<1>1. Entries \subseteq Entries' /\ \A k \in Entries : k \in Nat
  <2>1. Len(stream) \in Nat /\ Len(stream') \in Nat
    BY DEF BusInv, TypeOK
  <2> QED
    BY <2>1 DEF Entries, StreamGrows
<1>2. CASE stream[i] \in settled \cup dropped
  BY <1>2 DEF Superseded, StreamGrows
<1>3. CASE \E j \in Entries : j > i /\ stream[j] = stream[i] /\ InTheBus(j)
  <2>1. PICK j \in Entries : j > i /\ stream[j] = stream[i] /\ InTheBus(j)
    BY <1>3
  <2>2. stream'[j] = stream'[i]
    BY <2>1 DEF StreamGrows
  <2>3. CASE InTheBus(j)'
    BY <1>1, <2>1, <2>2, <2>3 DEF Superseded
  <2>4. CASE Superseded(j)'
    <3>1. CASE stream'[j] \in settled' \cup dropped'
      BY <2>2, <3>1 DEF Superseded
    <3>2. CASE \E k \in Entries' : k > j /\ stream'[k] = stream'[j] /\ InTheBus(k)'
      <4>1. PICK k \in Entries' : k > j /\ stream'[k] = stream'[j] /\ InTheBus(k)'
        BY <3>2
      <4>2. k > i
        <5>1. k \in Nat
          BY <4>1 DEF Entries, BusInv, TypeOK
        <5> QED
          BY <1>1, <2>1, <4>1, <5>1
      <4> QED
        BY <2>2, <4>1, <4>2 DEF Superseded
    <3> QED
      BY <2>4, <3>1, <3>2 DEF Superseded
  <2> QED
    BY <2>1, <2>3, <2>4 DEF NothingGoes
<1> QED
  BY <1>2, <1>3 DEF Superseded

\* The invariant, from what a step may not do.
LEMMA LossStep ==
    ASSUME BusInv, BusInv', LossInv, StreamGrows, NothingGoes, AcksEarned,
           \A i \in Entries' : i > Len(stream) => InTheBus(i)'
    PROVE  LossInv'
<1>1. /\ Len(stream) \in Nat /\ Len(stream') \in Nat /\ first \in Nat /\ first' \in Nat
      /\ first <= Len(stream) + 1 /\ first' <= Len(stream') + 1
  <2>1. Len(stream) \in Nat /\ Len(stream') \in Nat /\ first \in Nat /\ first' \in Nat
    BY BusAssumption DEF BusInv, TypeOK
  <2> QED
    BY <2>1 DEF BusInv, Delivered
<1>2. Accounted'
  <2> SUFFICES ASSUME NEW i \in Entries' PROVE InTheBus(i)' \/ Superseded(i)'
    BY DEF Accounted
  <2>1. CASE i > Len(stream)
    BY <2>1
  <2>2. CASE ~(i > Len(stream))
    <3>1. i \in Entries
      BY <1>1, <2>2 DEF Entries
    <3> QED
      BY <3>1, SupersededStays DEF NothingGoes, LossInv, Accounted
  <2> QED
    BY <2>1, <2>2
<1>3. TrimmedIsCounted'
  <2> SUFFICES ASSUME NEW i \in Entries', i < first' PROVE stream'[i] \in settled' \cup dropped'
    BY DEF TrimmedIsCounted
  <2>1. CASE i < first
    <3>1. i \in Entries
      BY <1>1, <2>1 DEF Entries
    <3> QED
      BY <2>1, <3>1 DEF LossInv, TrimmedIsCounted, StreamGrows
  <2>2. CASE ~(i < first)
    <3>1. first <= i /\ i \in Entries
      BY <1>1, <2>2 DEF Entries, StreamGrows
    <3> QED
      BY <3>1 DEF StreamGrows
  <2> QED
    BY <2>1, <2>2
<1>4. AckIsEarned'
  <2> SUFFICES ASSUME NEW c \in Consumers, pc'[c] = "ack"
               PROVE  First(local'[c].hold) < first' \/ stream'[First(local'[c].hold)] \in settled'
    BY DEF AckIsEarned
  <2>1. CASE pc[c] = "ack" /\ local'[c].hold = local[c].hold
    <3>1. First(local[c].hold) \in Entries /\ First(local[c].hold) \in Nat
      BY <2>1, InHandIs DEF Entries
    <3>2. First(local[c].hold) < first \/ stream[First(local[c].hold)] \in settled
      BY <2>1 DEF LossInv, AckIsEarned
    <3> QED
      BY <1>1, <2>1, <3>1, <3>2 DEF StreamGrows
  <2> QED
    BY <2>1 DEF AcksEarned
<1>5. KeepIsCopied'
  <2> SUFFICES ASSUME NEW c \in Consumers, pc'[c] = "keepAck",
                      NEW i \in local'[c].give, i = First(local'[c].give)
               PROVE  letters'[i] > 0 \/ Superseded(i)'
    BY DEF KeepIsCopied
  <2>1. CASE pc[c] = "keepAck" /\ local'[c].give = local[c].give
    <3>1. i \in Entries
      BY <2>1, Typed DEF BusInv, InHand
    <3>2. letters[i] > 0 \/ Superseded(i)
      BY <2>1 DEF LossInv, KeepIsCopied
    <3> QED
      BY <3>1, <3>2, SupersededStays DEF NothingGoes
  <2> QED
    BY <2>1 DEF AcksEarned
<1> QED
  BY <1>2, <1>3, <1>4, <1>5 DEF LossInv

\* A step that adds nothing to the stream.
LEMMA LoopLoss ==
    ASSUME BusInv, BusInv', LossInv, UNCHANGED <<stream, first, dropped>>, settled \subseteq settled',
           NothingGoes, AcksEarned
    PROVE  LossInv'
<1>1. first \in 1..(Len(stream) + 1) /\ Len(stream) \in Nat
  BY DEF BusInv, TypeOK, Delivered
<1>2. first' \in first..(Len(stream) + 1) /\ \A i \in Entries : ~(first <= i /\ i < first')
  BY <1>1 DEF Entries
<1>3. StreamGrows
  BY <1>1, <1>2 DEF StreamGrows
<1>4. \A i \in Entries' : ~(i > Len(stream))
  BY <1>1 DEF Entries
<1> QED
  BY <1>3, <1>4, LossStep

\* A step that leaves every pending entry pending and every dead letter where it is.
LEMMA BusStays ==
    ASSUME UNCHANGED <<stream, first, last>>,
           \A i \in Entries : letters[i] > 0 => letters'[i] > 0,
           \A i \in Entries : Pending(i) => pel'[i].owner # NoOne
    PROVE  NothingGoes
<1> SUFFICES ASSUME NEW i \in Entries
             PROVE  /\ InTheBus(i) => InTheBus(i)'
                    /\ letters[i] > 0 => letters'[i] > 0
  BY DEF NothingGoes
<1> QED
  BY DEF InTheBus, Present, Pending

\* Where a step of c's loop leads the loops.
LEMMA GotoMoves ==
    ASSUME BusInv, NEW c \in Consumers, NEW next, NEW l, Goto(c, next, l)
    PROVE  /\ pc'[c] = next /\ local'[c] = l
           /\ \A d \in Consumers : d # c => pc'[d] = pc[d] /\ local'[d] = local[d]
BY DEF BusInv, TypeOK, Goto

\* A step of c's loop that leads to no acknowledgement.
LEMMA NoAckNext ==
    ASSUME BusInv, NEW c \in Consumers, NEW next, NEW l, Goto(c, next, l),
           next \notin {"ack", "keepAck"}
    PROVE  AcksEarned
BY GotoMoves DEF AcksEarned

\* The loops' turns, the sweep and time lose nothing.
LEMMA TurnsLoss ==
    ASSUME BusInv, BusInv', LossInv, NEW c \in Consumers,
           Start(c) \/ Stop(c) \/ Crash(c) \/ Sweep(c) \/ SweepFails(c) \/ HandleLeaves(c)
    PROVE  LossInv'
<1>1. UNCHANGED <<stream, first, last, pel, letters, settled, dropped>>
  BY DEF Start, Stop, Crash, Sweep, SweepFails, HandleLeaves, redis, history
<1>2. NothingGoes
  BY <1>1, BusStays DEF Pending
<1>3. AcksEarned
  <2>1. CASE Start(c) \/ Stop(c) \/ Crash(c)
    <3>1. \E next \in {"sweep", "down"} : Goto(c, next, Fresh)
      BY <2>1 DEF Start, Stop, Crash
    <3> QED
      BY <3>1, NoAckNext
  <2>2. CASE Sweep(c)
    <3>1. \E next \in {"keep", "claim", "loop"} : \E l : Goto(c, next, l)
      BY <2>2 DEF Sweep
    <3> QED
      BY <3>1, NoAckNext
  <2>3. CASE SweepFails(c)
    <3>1. Goto(c, "loop", local[c])
      BY <2>3 DEF SweepFails
    <3> QED
      BY <3>1, NoAckNext
  <2>4. CASE HandleLeaves(c)
    <3>1. \E next \in {"loop", "handle"} : \E l : Goto(c, next, l)
      BY <2>4 DEF HandleLeaves, Done
    <3> QED
      BY <3>1, NoAckNext
  <2> QED
    BY <2>1, <2>2, <2>3, <2>4
<1> QED
  BY <1>1, <1>2, <1>3, LoopLoss

\* A shutdown, and time.
LEMMA StillLoss ==
    ASSUME BusInv, BusInv', LossInv,
           (\E c \in Consumers : Shutdown(c)) \/ (\E i \in Ids : Idle(i)) \/ UNCHANGED vars
    PROVE  LossInv'
<1>1. UNCHANGED <<stream, first, last, letters, settled, dropped, pc, local>>
  BY DEF Shutdown, Idle, redis, history, proc, vars
<1>2. \A i \in Ids : pel'[i].owner = pel[i].owner
  <2>1. CASE pel' = pel
    BY <2>1
  <2>2. CASE \E i \in Ids : Idle(i)
    <3>1. PICK i \in Ids : Idle(i)
      BY <2>2
    <3>2. pel \in [Ids -> Pel] /\ pel' = [pel EXCEPT ![i].idle = TRUE]
      BY <3>1 DEF BusInv, TypeOK, Pel, Idle
    <3> QED
      BY <3>2 DEF Pel
  <2>3. pel' = pel \/ \E i \in Ids : Idle(i)
    BY DEF Shutdown, redis, vars
  <2> QED
    BY <2>1, <2>2, <2>3
<1>3. Entries \subseteq Ids
  BY BusAssumption DEF Entries, Ids, BusInv, TypeOK
<1>4. NothingGoes
  BY <1>1, <1>2, <1>3, BusStays DEF Pending
<1>5. AcksEarned
  BY <1>1 DEF AcksEarned
<1> QED
  BY <1>1, <1>4, <1>5, LoopLoss

\* The handlers' end earns the acknowledgement; a message without fields was trimmed.
LEMMA HandleLoss ==
    ASSUME BusInv, BusInv', LossInv, NEW c \in Consumers, Handle(c)
    PROVE  LossInv'
<1> DEFINE i == First(local[c].hold)
<1>1. /\ pc[c] = "handle" /\ Goto(c, "ack", local[c])
      /\ UNCHANGED <<stream, first, last, pel, letters, dropped>>
      /\ i \notin local[c].blank => settled' = settled \cup {stream[i]}
      /\ settled \subseteq settled'
  BY DEF Handle, redis
<1>2. NothingGoes
  BY <1>1, BusStays DEF Pending
<1>3. i < first' \/ stream'[i] \in settled'
  BY <1>1 DEF BusInv, InHand
<1>4. AcksEarned
  <2>1. /\ pc'[c] = "ack" /\ local'[c] = local[c]
        /\ \A d \in Consumers : d # c => pc'[d] = pc[d] /\ local'[d] = local[d]
    BY <1>1, GotoMoves
  <2> QED
    BY <1>3, <2>1 DEF AcksEarned
<1> QED
  BY <1>1, <1>2, <1>4, LoopLoss

\* A copy is made before the acknowledgement, unless there is nothing left to copy.
LEMMA KeepLoss ==
    ASSUME BusInv, BusInv', LossInv, NEW c \in Consumers, Keep(c) \/ KeepFails(c)
    PROVE  LossInv'
<1>1. /\ pc[c] = "keep" /\ UNCHANGED <<stream, first, last, pel, settled, dropped>>
  BY DEF Keep, KeepFails, history
<1> DEFINE i == First(local[c].give)
<1>2. /\ letters' = letters \/ letters' = [letters EXCEPT ![i] = @ + 1]
      /\ Keep(c) /\ Present(i) => letters' = [letters EXCEPT ![i] = @ + 1]
  BY DEF Keep, KeepFails
<1>3. i \in 1..last /\ i \in Ids /\ i \in Entries
  <2>1. local[c].give # {} /\ local[c].give \subseteq 1..last
    BY <1>1 DEF BusInv, InHand
  <2> QED
    BY <2>1, Typed, EndsExist
<1>4. letters \in [Ids -> Nat]
  BY Typed
<1>5. \A j \in Ids : letters[j] > 0 => letters'[j] > 0
  <2> HIDE DEF i
  <2> QED
    BY <1>2, <1>3, <1>4
<1>6. NothingGoes
  <2>1. \A j \in Entries : letters[j] > 0 => letters'[j] > 0
    BY <1>5, Typed
  <2> QED
    BY <1>1, <2>1, BusStays DEF Pending
<1>7. AcksEarned
  <2>1. CASE Keep(c)
    <3>1. /\ pc'[c] = "keepAck" /\ local'[c] = local[c]
          /\ \A d \in Consumers : d # c => pc'[d] = pc[d] /\ local'[d] = local[d]
      <4>1. Goto(c, "keepAck", local[c])
        BY <2>1 DEF Keep
      <4> QED
        BY <4>1, GotoMoves
    <3>2. ASSUME NEW j \in local'[c].give, j = First(local'[c].give)
          PROVE  letters'[j] > 0 \/ Superseded(j)'
      <4>1. j = i
        BY <3>1, <3>2
      <4>2. CASE Present(j)
        BY <1>2, <1>3, <1>4, <2>1, <4>1, <4>2
      <4>3. CASE ~Present(j)
        <5>1. j < first /\ j \in Entries
          BY <1>3, <4>1, <4>3 DEF Present, Entries, BusInv, TypeOK
        <5>2. stream[j] \in settled \cup dropped
          BY <5>1 DEF LossInv, TrimmedIsCounted
        <5> QED
          BY <1>1, <5>2 DEF Superseded
      <4> QED
        BY <4>2, <4>3
    <3> QED
      BY <3>1, <3>2 DEF AcksEarned
  <2>2. CASE KeepFails(c)
    <3>1. \E next \in {"keep", "claim", "loop"} : \E l : Goto(c, next, l)
      BY <2>2 DEF KeepFails, Kept
    <3> QED
      BY <3>1, NoAckNext
  <2> QED
    BY <2>1, <2>2
<1> QED
  BY <1>1, <1>6, <1>7, LoopLoss

\* An acknowledgement removes from the pending list what needs to be there no more.
LEMMA AckLoss ==
    ASSUME BusInv, BusInv', LossInv, NEW c \in Consumers, KeepAck(c) \/ Ack(c)
    PROVE  LossInv'
<1>1. /\ UNCHANGED <<stream, first, last, letters, settled, dropped>>
      /\ \E next \in {"keep", "claim", "loop", "handle"} : \E l : Goto(c, next, l)
  BY DEF KeepAck, Ack, Kept, Done
<1>2. PICK i \in Entries :
          /\ pel' = pel \/ Acked({i})
          /\ letters[i] > 0 \/ Superseded(i) \/ i < first
  <2>1. CASE KeepAck(c)
    <3>1. pc[c] = "keepAck" /\ (pel' = pel \/ Acked({First(local[c].give)}))
      BY <2>1 DEF KeepAck
    <3>2. local[c].give # {} /\ local[c].give \subseteq 1..last
      BY <3>1 DEF BusInv, InHand
    <3>3. PICK i \in local[c].give : i = First(local[c].give)
      BY <3>2, Typed, EndsExist
    <3>4. i \in Entries
      BY <3>2, <3>3, Typed
    <3>5. letters[i] > 0 \/ Superseded(i)
      BY <3>1, <3>3 DEF LossInv, KeepIsCopied
    <3> QED
      BY <3>1, <3>3, <3>4, <3>5
  <2>2. CASE Ack(c)
    <3>1. pc[c] = "ack" /\ (pel' = pel \/ Acked({First(local[c].hold)}))
      BY <2>2 DEF Ack
    <3>2. PICK i \in Entries : i = First(local[c].hold)
      BY <3>1, InHandIs
    <3>3. i < first \/ stream[i] \in settled
      BY <3>1, <3>2 DEF LossInv, AckIsEarned
    <3>4. i < first \/ Superseded(i)
      BY <3>3 DEF Superseded
    <3> QED
      BY <3>1, <3>2, <3>4
  <2> QED
    BY <2>1, <2>2
<1>3. \A j \in Entries : j # i => pel'[j] = pel[j]
  <2>1. CASE Acked({i})
    BY <2>1, Typed, AckedIs DEF BusInv
  <2> QED
    BY <1>2, <2>1
<1>4. \A j \in Entries : j # i /\ InTheBus(j) => InTheBus(j)'
  BY <1>1, <1>3 DEF InTheBus, Present, Pending
<1>5. NothingGoes
  <2> SUFFICES ASSUME NEW j \in Entries
               PROVE  InTheBus(j) => InTheBus(j)' \/ Superseded(j)'
    BY <1>1 DEF NothingGoes
  <2>1. CASE j # i
    BY <1>4, <2>1
  <2>2. CASE letters[j] > 0
    BY <1>1, <2>2 DEF InTheBus
  <2>3. CASE j = i /\ Superseded(i)
    <3>1. CASE stream[i] \in settled \cup dropped
      BY <1>1, <2>3, <3>1 DEF Superseded
    <3>2. CASE \E k \in Entries : k > i /\ stream[k] = stream[i] /\ InTheBus(k)
      <4>1. PICK k \in Entries : k > i /\ stream[k] = stream[i] /\ InTheBus(k)
        BY <3>2
      <4>2. k # i /\ k \in Entries'
        BY <1>1, <4>1 DEF Entries
      <4>3. InTheBus(k)'
        BY <1>4, <4>1, <4>2
      <4> QED
        BY <1>1, <2>3, <4>1, <4>2, <4>3 DEF Superseded
    <3> QED
      BY <2>3, <3>1, <3>2 DEF Superseded
  <2>4. CASE j = i /\ i < first /\ ~(letters[j] > 0)
    <3>1. ~InTheBus(j)
      BY <2>4 DEF InTheBus, Present, Entries, BusInv, TypeOK
    <3> QED
      BY <3>1
  <2> QED
    BY <1>2, <2>1, <2>2, <2>3, <2>4
<1>6. AcksEarned
  BY <1>1, NoAckNext
<1> QED
  BY <1>1, <1>5, <1>6, LoopLoss

\* A claim hands on what is in the stream, and drops only what is not.
LEMMA ClaimLoss ==
    ASSUME BusInv, BusInv', LossInv, NEW c \in Consumers,
           Claim(c) \/ ClaimFails(c) \/ ReadPending(c)
    PROVE  LossInv'
<1>1. /\ UNCHANGED <<stream, first, last, letters, settled, dropped>>
      /\ \E next \in {"loop", "handle"} : \E l : Goto(c, next, l)
  BY DEF Claim, ClaimFails, ReadPending, Begin, history
<1>2. c # NoOne
  BY BusAssumption
<1>3. \A i \in Ids : Pending(i) /\ Present(i) => pel'[i].owner # NoOne
  <2>1. CASE Claim(c)
    <3> DEFINE got == {i \in Granted(c) : Present(i)}
    <3>1. \A i \in Ids : pel'[i] = CASE i \in got -> [owner |-> c, count |-> pel[i].count + 1, idle |-> FALSE]
                                     [] i \in Granted(c) \ got -> NotPending
                                     [] OTHER -> pel[i]
      BY <2>1 DEF Claim
    <3>2. \A i \in Ids : Present(i) => i \in got \/ i \notin Granted(c)
      OBVIOUS
    <3> HIDE DEF got
    <3> SUFFICES ASSUME NEW i \in Ids, Pending(i), Present(i) PROVE pel'[i].owner # NoOne
      OBVIOUS
    <3>3. CASE i \in got
      <4>1. pel'[i] = [owner |-> c, count |-> pel[i].count + 1, idle |-> FALSE]
        BY <3>1, <3>3
      <4> QED
        BY <1>2, <4>1
    <3>4. CASE i \notin got
      <4>1. pel'[i] = pel[i]
        BY <3>1, <3>2, <3>4
      <4> QED
        BY <4>1 DEF Pending
    <3> QED
      BY <3>3, <3>4
  <2>2. CASE pel' = pel \/ \E S : Deliver(S, c)
    <3>1. CASE pel' = pel
      BY <3>1 DEF Pending
    <3>2. CASE \E S : Deliver(S, c)
      <4>1. PICK S : Deliver(S, c)
        BY <3>2
      <4>2. \A i \in Ids : pel'[i] = IF i \in S THEN [owner |-> c, count |-> pel[i].count + 1, idle |-> FALSE]
                                     ELSE pel[i]
        BY <4>1, DeliverIs DEF BusInv
      <4> SUFFICES ASSUME NEW i \in Ids, Pending(i) PROVE pel'[i].owner # NoOne
        OBVIOUS
      <4>3. pel'[i] = [owner |-> c, count |-> pel[i].count + 1, idle |-> FALSE] \/ pel'[i] = pel[i]
        BY <4>2
      <4> QED
        BY <1>2, <4>3 DEF Pending
    <3> QED
      BY <2>2, <3>1, <3>2
  <2>3. Claim(c) \/ pel' = pel \/ \E S : Deliver(S, c)
    BY DEF ClaimFails, ReadPending
  <2> QED
    BY <2>1, <2>2, <2>3
<1>4. NothingGoes
  <2> SUFFICES ASSUME NEW i \in Entries PROVE InTheBus(i) => InTheBus(i)'
    BY <1>1 DEF NothingGoes
  <2>1. i \in Ids
    BY Typed
  <2> QED
    BY <1>1, <1>3, <2>1 DEF InTheBus, Present, Pending
<1>5. AcksEarned
  BY <1>1, NoAckNext
<1> QED
  BY <1>1, <1>4, <1>5, LoopLoss

\* A read moves the last-delivered-id past exactly the messages it makes pending.
LEMMA ReadLoss ==
    ASSUME BusInv, BusInv', LossInv, NEW c \in Consumers, ReadNew(c) \/ ReadUnanswered(c)
    PROVE  LossInv'
<1> DEFINE page == Page(Unread, BatchSize)
<1>1. /\ page # {} /\ last' = Last(page) /\ Deliver(page, c)
      /\ UNCHANGED <<stream, first, letters, settled, dropped>>
  BY DEF ReadNew, ReadUnanswered, history
<1>2. /\ \A i \in Unread : i <= Last(page) => i \in page
      /\ Last(page) \in Nat
  BY <1>1, UnreadPage
<1> HIDE DEF page
<1>3. \A i \in Ids : pel'[i] = IF i \in page THEN [owner |-> c, count |-> pel[i].count + 1, idle |-> FALSE]
                               ELSE pel[i]
  BY <1>1, DeliverIs DEF BusInv
<1>4. NothingGoes
  <2> SUFFICES ASSUME NEW i \in Entries, InTheBus(i) PROVE InTheBus(i)'
    BY <1>1 DEF NothingGoes
  <2>1. i \in Ids /\ i \in Nat
    <3>1. i \in Ids
      BY Typed
    <3> QED
      BY <3>1, BusAssumption DEF Ids
  <2>2. CASE i \in page
    <3>1. pel'[i] = [owner |-> c, count |-> pel[i].count + 1, idle |-> FALSE]
      BY <1>3, <2>1, <2>2
    <3>2. pel'[i].owner # NoOne
      BY <3>1, BusAssumption
    <3> QED
      BY <1>1, <3>2 DEF InTheBus, Present, Pending
  <2>3. CASE i \notin page
    <3>1. pel'[i] = pel[i]
      BY <1>3, <2>1, <2>3
    <3>2. Present(i) /\ i > last => i > last'
      BY <1>1, <1>2, <2>1, <2>3 DEF Unread
    <3> QED
      BY <1>1, <3>1, <3>2 DEF InTheBus, Present, Pending
  <2> QED
    BY <2>2, <2>3
<1>5. AcksEarned
  <2>1. CASE UNCHANGED <<pc, local>>
    BY <2>1 DEF AcksEarned
  <2>2. CASE \E next \in {"loop", "handle"} : \E l : Goto(c, next, l)
    BY <2>2, NoAckNext
  <2> QED
    BY <2>1, <2>2 DEF ReadNew, ReadUnanswered, Begin, proc
<1> QED
  BY <1>1, <1>4, <1>5, LoopLoss

\* A new entry is unread; what it pushes out of the stream is counted, and a letter it
\* replaces is superseded by it.
LEMMA AddLoss ==
    ASSUME BusInv, BusInv', LossInv, NEW e \in Events, XAdd(e), UNCHANGED <<last, pel, settled, pc, local>>,
           \A i \in Entries : letters[i] > 0 => letters'[i] > 0 \/ stream[i] = e
    PROVE  LossInv'
<1>1. /\ stream \in Seq(Events) /\ Len(stream) \in Nat /\ first \in Nat /\ last \in Nat /\ last <= Len(stream)
  BY DEF BusInv, TypeOK
<1>2. /\ stream' \in Seq(Events) /\ Len(stream') = Len(stream) + 1
      /\ \A i \in Entries : stream'[i] = stream[i]
      /\ stream'[Len(stream) + 1] = e
      /\ first' \in first..(Len(stream) + 1) /\ dropped \subseteq dropped'
      /\ \A i \in Entries : first <= i /\ i < first' => stream[i] \in settled \cup dropped'
  BY XAddIs
<1>3. StreamGrows
  BY <1>1, <1>2 DEF StreamGrows
<1>0. PICK n \in Nat : n = Len(stream) + 1
  BY <1>1
<1>4. /\ n \in Nat /\ n \in Entries' /\ n > last' /\ first' <= n /\ n <= Len(stream')
      /\ \A i \in Entries : i < n
  BY <1>0, <1>1, <1>2 DEF Entries
<1>5. stream'[n] = e
  BY <1>0, <1>2
<1>6. InTheBus(n)'
  BY <1>4 DEF InTheBus, Present
<1>7. NothingGoes
  <2> SUFFICES ASSUME NEW i \in Entries
               PROVE  /\ InTheBus(i) => InTheBus(i)' \/ Superseded(i)'
                      /\ letters[i] > 0 => letters'[i] > 0 \/ Superseded(i)'
    BY DEF NothingGoes
  <2>1. i \in Nat /\ i <= Len(stream) /\ stream'[i] = stream[i]
    BY <1>1, <1>2 DEF Entries
  <2>2. letters[i] > 0 => letters'[i] > 0 \/ Superseded(i)'
    <3>1. CASE stream[i] = e
      BY <1>4, <1>5, <1>6, <2>1, <3>1 DEF Superseded
    <3> QED
      BY <3>1
  <2>3. Present(i) /\ ~Superseded(i)' => Present(i)'
    <3>1. Present(i) /\ ~(first' <= i) => stream[i] \in settled \cup dropped'
      BY <1>2, <2>1 DEF Present
    <3>2. stream[i] \in settled \cup dropped' => Superseded(i)'
      BY <2>1 DEF Superseded
    <3> QED
      BY <1>1, <1>2, <2>1, <3>1, <3>2 DEF Present
  <2> QED
    BY <2>2, <2>3 DEF InTheBus, Pending
<1>8. AcksEarned
  BY DEF AcksEarned
<1>9. \A i \in Entries' : i > Len(stream) => InTheBus(i)'
  <2>1. \A i \in Entries' : i > Len(stream) => i = n
    BY <1>0, <1>1, <1>2 DEF Entries
  <2> QED
    BY <1>6, <2>1
<1> QED
  BY <1>3, <1>7, <1>8, <1>9, LossStep

\* Publish, redrive and discard.
LEMMA OperatorLoss ==
    ASSUME BusInv, BusInv', LossInv,
           (\E e \in Events : Publish(e)) \/ (\E i \in Ids : Redrive(i) \/ Discard(i))
    PROVE  LossInv'
<1>1. ASSUME NEW e \in Events, Publish(e) PROVE LossInv'
  BY <1>1, AddLoss DEF Publish, proc
<1>2. ASSUME NEW i \in Ids, letters[i] > 0
      PROVE  i \in Entries /\ stream[i] \in Events
  <2>1. ~(i > last)
    BY <1>2 DEF BusInv, Delivered
  <2>2. last <= Len(stream) /\ Len(stream) \in Nat /\ last \in Nat /\ stream \in Seq(Events)
    BY DEF BusInv, TypeOK
  <2>3. i \in 1..Len(stream)
    BY <2>1, <2>2, BusAssumption DEF Ids
  <2> QED
    BY <2>2, <2>3 DEF Entries
<1>3. letters \in [Ids -> Nat] /\ Entries \subseteq Ids
  <2>1. Len(stream) \in Nat /\ Len(stream) <= MaxEntries /\ letters \in [Ids -> Nat]
    BY DEF BusInv, TypeOK
  <2>2. Entries \subseteq Ids
    BY <2>1, BusAssumption DEF Entries, Ids
  <2> QED
    BY <2>1, <2>2
<1>4. ASSUME NEW i \in Ids, Redrive(i) PROVE LossInv'
  <2>1. letters[i] > 0 /\ XAdd(stream[i]) /\ UNCHANGED <<last, pel, settled, pc, local>>
        /\ letters' = [letters EXCEPT ![i] = @ - 1]
    BY <1>4 DEF Redrive, proc
  <2>2. \A j \in Entries : letters[j] > 0 => letters'[j] > 0 \/ stream[j] = stream[i]
    BY <1>3, <2>1
  <2>3. PICK e \in Events : e = stream[i]
    BY <1>2, <2>1
  <2> QED
    BY <2>1, <2>2, <2>3, AddLoss
<1>5. ASSUME NEW i \in Ids, Discard(i) PROVE LossInv'
  <2>1. /\ letters[i] > 0 /\ letters' = [letters EXCEPT ![i] = @ - 1]
        /\ dropped' = dropped \cup {stream[i]}
        /\ UNCHANGED <<stream, first, last, pel, settled, pc, local>>
    BY <1>5 DEF Discard, proc
  <2>2. first \in 1..(Len(stream) + 1) /\ Len(stream) \in Nat
    BY DEF BusInv, TypeOK, Delivered
  <2>3. first' \in first..(Len(stream) + 1) /\ \A j \in Entries : ~(first <= j /\ j < first')
    BY <2>1, <2>2 DEF Entries
  <2>4. StreamGrows
    BY <2>1, <2>2, <2>3 DEF StreamGrows
  <2>5. NothingGoes
    <3> SUFFICES ASSUME NEW j \in Entries
                 PROVE  /\ InTheBus(j) => InTheBus(j)' \/ Superseded(j)'
                        /\ letters[j] > 0 => letters'[j] > 0 \/ Superseded(j)'
      BY DEF NothingGoes
    <3>1. CASE j = i
      BY <2>1, <3>1 DEF Superseded
    <3>2. CASE j # i
      BY <1>3, <2>1, <3>2 DEF InTheBus, Present, Pending
    <3> QED
      BY <3>1, <3>2
  <2>6. AcksEarned
    BY <2>1 DEF AcksEarned
  <2>7. \A j \in Entries' : ~(j > Len(stream))
    BY <2>1, <2>2 DEF Entries
  <2> QED
    BY <2>4, <2>5, <2>6, <2>7, LossStep
<1> QED
  BY <1>1, <1>4, <1>5

\* Every step keeps the invariant.
LEMMA NextLoss == ASSUME BusInv, LossInv, [Next]_vars PROVE LossInv'
<1>1. BusInv'
  BY NextBus
<1>2. CASE UNCHANGED vars \/ \E i \in Ids : Idle(i)
  BY <1>1, <1>2, StillLoss
<1>3. CASE (\E e \in Events : Publish(e)) \/ \E i \in Ids : Redrive(i) \/ Discard(i)
  BY <1>1, <1>3, OperatorLoss
<1>4. ASSUME NEW c \in Consumers,
             Start(c) \/ Sweep(c) \/ Advance(c) \/ Shutdown(c) \/ Crash(c)
      PROVE  LossInv'
  BY <1>1, <1>4, TurnsLoss, StillLoss, HandleLoss, KeepLoss, AckLoss, ClaimLoss, ReadLoss DEF Advance
<1> QED
  BY <1>2, <1>3, <1>4 DEF Next

\* Nothing is published at the start.
LEMMA InitLoss == Init => LossInv
<1> SUFFICES ASSUME Init PROVE LossInv
  OBVIOUS
<1>1. Entries = {}
  BY DEF Init, Entries
<1> QED
  BY <1>1 DEF Init, LossInv, Accounted, TrimmedIsCounted, AckIsEarned, KeepIsCopied

\* An accounted entry's event is in the bus, in that entry or in a later one.
LEMMA LossMeansNoEventLost == ASSUME BusInv, LossInv PROVE NoEventLost
<1> SUFFICES ASSUME NEW e \in Events, Copies(e) # {}, e \notin settled \cup dropped
             PROVE  \E i \in Copies(e) : InTheBus(i)
  BY DEF NoEventLost
<1>1. Copies(e) \in SUBSET Ids
  <2>1. Entries \subseteq Ids
    BY BusAssumption DEF BusInv, TypeOK, Entries, Ids
  <2> QED
    BY <2>1 DEF Copies
<1>2. PICK i \in Copies(e) : TRUE
  OBVIOUS
<1>3. i \in Entries /\ stream[i] = e
  BY <1>2 DEF Copies
<1>4. InTheBus(i) \/ \E j \in Entries : j > i /\ stream[j] = stream[i] /\ InTheBus(j)
  BY <1>3 DEF LossInv, Accounted, Superseded
<1> QED
  BY <1>2, <1>3, <1>4 DEF Copies

\* At least once: an event that was published, and that neither an operator nor MAXLEN
\* removed, was handled or is still unread, pending or a dead letter, for any number of
\* consumers, deaths, lost answers, takeovers, redrives and trimmings.
THEOREM NothingIsLost == Spec => []NoEventLost
<1>1. Init => BusInv /\ LossInv
  BY InitBus, InitLoss
<1>2. BusInv /\ LossInv /\ [Next]_vars => BusInv' /\ LossInv'
  BY NextBus, NextLoss
<1>3. BusInv /\ LossInv => NoEventLost
  BY LossMeansNoEventLost
<1> QED
  BY <1>1, <1>2, <1>3, PTL DEF Spec

-----------------------------------------------------------------------------
(* Who has a message in hand.                                              *)

\* An idle entry was left by a stop or was slow, and in a hand it was slow.
LEMMA IdleIsStopped ==
    ASSUME BusInv, HandInv, NEW i \in Ids, Pending(i), pel[i].idle
    PROVE  i \in stopped \cup slow /\ \A d \in Consumers : i \in local[d].hold => i \in slow
BY DEF HandInv, HeldInTime

\* A step that changes no batch.
LEMMA HandSame ==
    ASSUME BusInv, HandInv, UNCHANGED runs, stopped \subseteq stopped', slow \subseteq slow',
           \A d \in Consumers : local'[d].hold = local[d].hold /\ (pc'[d] = "ack" <=> pc[d] = "ack"),
           \A i \in Ids : pel'[i].owner # NoOne => pel'[i].owner = pel[i].owner \/ i \in stopped',
           \A d \in Consumers : \A i \in local[d].hold : i \notin slow' =>
               ~pel'[i].idle /\ (pel'[i].owner # NoOne => pel'[i].owner = pel[i].owner)
    PROVE  HandInv'
<1>1. OneHolder'
  BY DEF HandInv, OneHolder
<1>2. HeldInTime'
  <2>1. ASSUME NEW i \in Ids, pel'[i].owner # NoOne, i \notin stopped' \cup slow'
        PROVE  pel'[i].owner \in Consumers /\ i \in local'[pel'[i].owner].hold
    BY <2>1 DEF HandInv, HeldInTime, Pending
  <2>2. ASSUME NEW d \in Consumers, NEW i \in local'[d].hold, i \notin slow'
        PROVE  ~pel'[i].idle /\ (pel'[i].owner # NoOne => pel'[i].owner = d)
    BY <2>2 DEF HandInv, HeldInTime, Pending
  <2> QED
    BY <2>1, <2>2 DEF HeldInTime, Pending
<1>3. RunOnce'
  BY DEF HandInv, RunOnce
<1> QED
  BY <1>1, <1>2, <1>3 DEF HandInv

\* A step that takes a batch of which nobody has a message in hand, but the slow.
LEMMA HandTake ==
    ASSUME BusInv, HandInv, NEW c \in Consumers, NEW S \in SUBSET Ids, local[c].hold = {},
           local'[c].hold = S, pc'[c] # "ack",
           \A d \in Consumers : d # c => local'[d] = local[d] /\ pc'[d] = pc[d],
           UNCHANGED <<runs, stopped, slow>>,
           \A i \in S : pel'[i].owner = c /\ ~pel'[i].idle,
           \A i \in Ids : i \notin S => pel'[i] = pel[i] \/ pel'[i] = NotPending,
           \A i \in S : i \in stopped \cup slow \/ runs[i] = 0,
           \A d \in Consumers : \A i \in S : i \in local[d].hold => i \in slow
    PROVE  HandInv'
<1>0. NotPending.owner = NoOne /\ ~NotPending.idle
  BY DEF NotPending
<1>1. OneHolder'
  <2> SUFFICES ASSUME NEW a \in Consumers, NEW d \in Consumers, a # d
               PROVE  local'[a].hold \cap local'[d].hold \subseteq slow'
    BY DEF OneHolder
  <2>1. CASE a # c /\ d # c
    BY <2>1 DEF HandInv, OneHolder
  <2>2. CASE a = c \/ d = c
    BY <2>2
  <2> QED
    BY <2>1, <2>2
<1>2. HeldInTime'
  <2>1. ASSUME NEW i \in Ids, pel'[i].owner # NoOne, i \notin stopped' \cup slow'
        PROVE  pel'[i].owner \in Consumers /\ i \in local'[pel'[i].owner].hold
    <3>1. CASE i \in S
      BY <3>1
    <3>2. CASE i \notin S
      <4>1. pel'[i] = pel[i]
        BY <1>0, <2>1, <3>2
      <4>2. pel[i].owner \in Consumers /\ i \in local[pel[i].owner].hold
        BY <2>1, <4>1 DEF HandInv, HeldInTime, Pending
      <4> QED
        BY <4>1, <4>2
    <3> QED
      BY <3>1, <3>2
  <2>2. ASSUME NEW d \in Consumers, NEW i \in local'[d].hold, i \notin slow'
        PROVE  ~pel'[i].idle /\ (pel'[i].owner # NoOne => pel'[i].owner = d)
    <3>1. CASE d = c
      BY <2>2, <3>1
    <3>2. CASE d # c
      <4>1. i \in local[d].hold /\ i \notin S /\ i \in Ids
        BY <2>2, <3>2, Typed DEF Locals
      <4> QED
        BY <1>0, <2>2, <4>1 DEF HandInv, HeldInTime, Pending
    <3> QED
      BY <3>1, <3>2
  <2> QED
    BY <2>1, <2>2 DEF HeldInTime, Pending
<1>3. RunOnce'
  <2> SUFFICES ASSUME NEW i \in Ids, i \notin stopped \cup slow
               PROVE  /\ runs[i] <= 1
                      /\ \A d \in Consumers :
                            i \in local'[d].hold /\ ~(pc'[d] = "ack" /\ i = First(local'[d].hold))
                               => runs[i] = 0
    BY DEF RunOnce
  <2>1. runs[i] <= 1
    BY DEF HandInv, RunOnce
  <2>2. ASSUME NEW d \in Consumers, i \in local'[d].hold,
               ~(pc'[d] = "ack" /\ i = First(local'[d].hold))
        PROVE  runs[i] = 0
    <3>1. CASE d = c
      BY <2>2, <3>1
    <3>2. CASE d # c
      BY <2>2, <3>2 DEF HandInv, RunOnce
    <3> QED
      BY <3>1, <3>2
  <2> QED
    BY <2>1, <2>2
<1> QED
  BY <1>1, <1>2, <1>3 DEF HandInv

\* A step of c that puts messages of its batch down, or hands one to the handlers.
LEMMA HandShrink ==
    ASSUME BusInv, HandInv, NEW c \in Consumers, local'[c].hold \subseteq local[c].hold,
           \A d \in Consumers : d # c => local'[d] = local[d] /\ pc'[d] = pc[d],
           stopped \subseteq stopped', UNCHANGED slow,
           \A i \in Ids : pel'[i] = pel[i] \/ pel'[i] = NotPending,
           \A i \in Ids : pel'[i].owner = c /\ i \notin stopped' \cup slow => i \in local'[c].hold,
           \A i \in Ids : i \notin stopped' \cup slow =>
               runs'[i] = runs[i] \/ (i \in local[c].hold /\ runs'[i] <= 1),
           \A i \in local'[c].hold :
               i \notin stopped' \cup slow /\ ~(pc'[c] = "ack" /\ i = First(local'[c].hold)) => runs'[i] = 0
    PROVE  HandInv'
<1>0. NotPending.owner = NoOne /\ ~NotPending.idle
  BY DEF NotPending
<1>1. \A d \in Consumers : local'[d].hold \subseteq local[d].hold
  OBVIOUS
<1>2. OneHolder'
  BY <1>1 DEF HandInv, OneHolder
<1>3. HeldInTime'
  <2>1. ASSUME NEW i \in Ids, pel'[i].owner # NoOne, i \notin stopped' \cup slow'
        PROVE  pel'[i].owner \in Consumers /\ i \in local'[pel'[i].owner].hold
    <3>1. pel'[i] = pel[i]
      BY <1>0, <2>1
    <3>2. pel[i].owner \in Consumers /\ i \in local[pel[i].owner].hold
      BY <2>1, <3>1 DEF HandInv, HeldInTime, Pending
    <3> QED
      BY <2>1, <3>1, <3>2
  <2>2. ASSUME NEW d \in Consumers, NEW i \in local'[d].hold, i \notin slow'
        PROVE  ~pel'[i].idle /\ (pel'[i].owner # NoOne => pel'[i].owner = d)
    <3>1. i \in local[d].hold /\ i \in Ids
      BY <1>1, <2>2, Typed DEF Locals
    <3> QED
      BY <1>0, <2>2, <3>1 DEF HandInv, HeldInTime, Pending
  <2> QED
    BY <2>1, <2>2 DEF HeldInTime, Pending
<1>4. RunOnce'
  <2> SUFFICES ASSUME NEW i \in Ids, i \notin stopped' \cup slow'
               PROVE  /\ runs'[i] <= 1
                      /\ \A d \in Consumers :
                            i \in local'[d].hold /\ ~(pc'[d] = "ack" /\ i = First(local'[d].hold))
                               => runs'[i] = 0
    BY DEF RunOnce
  <2>1. runs'[i] <= 1
    BY DEF HandInv, RunOnce
  <2>2. ASSUME NEW d \in Consumers, i \in local'[d].hold,
               ~(pc'[d] = "ack" /\ i = First(local'[d].hold))
        PROVE  runs'[i] = 0
    <3>1. CASE d = c
      BY <2>2, <3>1
    <3>2. CASE d # c
      <4>1. i \notin local[c].hold
        BY <1>1, <2>2, <3>2 DEF HandInv, OneHolder
      <4> QED
        BY <2>2, <3>2, <4>1 DEF HandInv, RunOnce
    <3> QED
      BY <3>1, <3>2
  <2> QED
    BY <2>1, <2>2
<1> QED
  BY <1>2, <1>3, <1>4 DEF HandInv

\* The loops' turns at which nothing is in hand, before and after.
LEMMA TurnsHand ==
    ASSUME BusInv, HandInv, NEW c \in Consumers,
           Start(c) \/ Stop(c) \/ Sweep(c) \/ SweepFails(c) \/ Keep(c) \/ KeepFails(c) \/ KeepAck(c)
    PROVE  HandInv'
<1>1. /\ pc[c] \notin {"handle", "ack"} /\ UNCHANGED <<runs, slow>> /\ stopped \subseteq stopped'
      /\ pel' = pel \/ \E i : Acked({i})
  BY DEF Start, Stop, Sweep, SweepFails, Keep, KeepFails, KeepAck, redis, history
<1>2. local[c].hold = {}
  BY <1>1 DEF BusInv, InHand
<1>3. Fresh.hold = {}
  BY DEF Fresh
<1>4. \E next \in {"sweep", "down", "keep", "keepAck", "claim", "loop"} : \E l : Goto(c, next, l) /\ l.hold = {}
  <2>1. CASE Start(c) \/ Stop(c)
    BY <1>3, <2>1 DEF Start, Stop
  <2>2. CASE Sweep(c)
    <3>1. \E next \in {"keep", "claim", "loop"} : \E g, t :
              Goto(c, next, [local[c] EXCEPT !.give = g, !.take = t])
      BY <2>2 DEF Sweep
    <3>a. PICK next \in {"keep", "claim", "loop"} : \E g, t :
              Goto(c, next, [local[c] EXCEPT !.give = g, !.take = t])
      BY <3>1
    <3>2. PICK g, t : Goto(c, next, [local[c] EXCEPT !.give = g, !.take = t])
      BY <3>a
    <3> DEFINE l == [local[c] EXCEPT !.give = g, !.take = t]
    <3>3. l.hold = {} /\ Goto(c, next, l)
      BY <1>2, <3>2, Typed DEF Locals
    <3> HIDE DEF l
    <3> QED
      BY <3>3
  <2>3. CASE SweepFails(c) \/ Keep(c)
    BY <1>2, <2>3 DEF SweepFails, Keep
  <2>4. CASE KeepFails(c) \/ KeepAck(c)
    <3>1. \E next \in {"keep", "claim", "loop"} : \E g : Goto(c, next, [local[c] EXCEPT !.give = g])
      BY <2>4 DEF KeepFails, KeepAck, Kept
    <3>a. PICK next \in {"keep", "claim", "loop"} : \E g : Goto(c, next, [local[c] EXCEPT !.give = g])
      BY <3>1
    <3>2. PICK g : Goto(c, next, [local[c] EXCEPT !.give = g])
      BY <3>a
    <3> DEFINE l == [local[c] EXCEPT !.give = g]
    <3>3. l.hold = {} /\ Goto(c, next, l)
      BY <1>2, <3>2, Typed DEF Locals
    <3> HIDE DEF l
    <3> QED
      BY <3>3
  <2> QED
    BY <2>1, <2>2, <2>3, <2>4
<1>5. \A d \in Consumers : local'[d].hold = local[d].hold /\ (pc'[d] = "ack" <=> pc[d] = "ack")
  <2>1. PICK next \in {"sweep", "down", "keep", "keepAck", "claim", "loop"} :
            \E l : Goto(c, next, l) /\ l.hold = {}
    BY <1>4
  <2>2. PICK l : Goto(c, next, l) /\ l.hold = {}
    BY <2>1
  <2>3. /\ pc'[c] = next /\ local'[c] = l
        /\ \A d \in Consumers : d # c => pc'[d] = pc[d] /\ local'[d] = local[d]
    BY <2>2, GotoMoves
  <2>4. next # "ack" /\ pc[c] # "ack"
    BY <1>1, <2>1
  <2> QED
    BY <1>2, <2>2, <2>3, <2>4
<1>6. \A i \in Ids : pel'[i] = pel[i] \/ pel'[i] = NotPending
  <2>1. ASSUME NEW i, Acked({i}) PROVE \A j \in Ids : pel'[j] = pel[j] \/ pel'[j] = NotPending
    BY <2>1, AckedIs DEF BusInv
  <2> QED
    BY <1>1, <2>1
<1>7. \A d \in Consumers : \A i \in local[d].hold : i \in Ids /\ (i \notin slow => ~pel[i].idle)
  BY Typed DEF HandInv, HeldInTime, Locals
<1> QED
  BY <1>1, <1>5, <1>6, <1>7, HandSame DEF NotPending

\* The steps that touch no loop.
LEMMA StillHand ==
    ASSUME BusInv, HandInv,
           \/ UNCHANGED vars
           \/ \E e \in Events : Publish(e)
           \/ \E i \in Ids : Redrive(i) \/ Discard(i) \/ Idle(i)
           \/ \E c \in Consumers : Shutdown(c)
    PROVE  HandInv'
<1>1. UNCHANGED <<runs, stopped, pc, local>> /\ slow \subseteq slow'
  BY DEF Publish, Redrive, Discard, Idle, Shutdown, vars, history, proc
<1>2. \A d \in Consumers : \A i \in local[d].hold : i \in Ids /\ (i \notin slow => ~pel[i].idle)
  BY Typed DEF HandInv, HeldInTime, Locals
<1>3. CASE pel' = pel
  BY <1>1, <1>2, <1>3, HandSame
<1>4. ASSUME NEW i \in Ids, Idle(i) PROVE HandInv'
  <2>1. pel \in [Ids -> Pel] /\ pel' = [pel EXCEPT ![i].idle = TRUE]
    BY <1>4 DEF BusInv, TypeOK, Pel, Idle
  <2>2. \A d \in Consumers : i \in local[d].hold => i \in slow'
    BY <1>4 DEF Idle, InAHand
  <2>3. \A j \in Ids : pel'[j].owner = pel[j].owner /\ (j # i => pel'[j] = pel[j])
    BY <2>1 DEF Pel
  <2>4. \A d \in Consumers : \A j \in local[d].hold : j \notin slow' =>
            ~pel'[j].idle /\ (pel'[j].owner # NoOne => pel'[j].owner = pel[j].owner)
    BY <1>1, <1>2, <2>2, <2>3
  <2> QED
    BY <1>1, <2>3, <2>4, HandSame
<1> QED
  BY <1>3, <1>4 DEF Publish, Redrive, Discard, Shutdown, vars, redis

\* A claim takes idle entries, which are in nobody's hand but the slow; one that is not answered
\* leaves them to be taken again.
LEMMA ClaimHand ==
    ASSUME BusInv, HandInv, NEW c \in Consumers, Claim(c) \/ ClaimFails(c)
    PROVE  HandInv'
<1>1. pc[c] = "claim" /\ local[c].hold = {} /\ UNCHANGED <<runs, slow>>
  BY DEF Claim, ClaimFails, history, BusInv, InHand
<1>2. \A i \in Granted(c) : /\ i \in Ids /\ i \in stopped \cup slow
                           /\ \A d \in Consumers : i \in local[d].hold => i \in slow
  <2>1. \A i \in Granted(c) : i \in Ids /\ Pending(i) /\ pel[i].idle
    BY Typed DEF Granted, Locals
  <2> QED
    BY <2>1, IdleIsStopped
<1>3. CASE Claim(c)
  <2> DEFINE got == {i \in Granted(c) : Present(i)}
             k == [local[c] EXCEPT !.take = {}]
  <2>1. /\ Begin(c, got, k) /\ UNCHANGED stopped
        /\ \A i \in Ids : pel'[i] = CASE i \in got -> [owner |-> c, count |-> pel[i].count + 1, idle |-> FALSE]
                                      [] i \in Granted(c) \ got -> NotPending
                                      [] OTHER -> pel[i]
    BY <1>3 DEF Claim, history
  <2>2. got \in SUBSET Ids /\ got \subseteq Granted(c)
    BY <1>2
  <2>3. k \in Locals
    BY Typed DEF Locals
  <2> HIDE DEF got, k
  <2>4. \E next \in {"loop", "handle"} : \E l \in Locals : Goto(c, next, l) /\ l.hold = got
    BY <2>1, <2>2, <2>3, BeginIs
  <2>5. /\ pc'[c] # "ack" /\ local'[c].hold = got
        /\ \A d \in Consumers : d # c => local'[d] = local[d] /\ pc'[d] = pc[d]
    BY <2>4, GotoMoves
  <2>6. \A i \in got : pel'[i].owner = c /\ ~pel'[i].idle
    <3> SUFFICES ASSUME NEW i \in got PROVE pel'[i].owner = c /\ ~pel'[i].idle
      OBVIOUS
    <3>1. pel'[i] = [owner |-> c, count |-> pel[i].count + 1, idle |-> FALSE]
      BY <2>1, <2>2
    <3> QED
      BY <3>1
  <2>7. \A i \in Ids : i \notin got => pel'[i] = pel[i] \/ pel'[i] = NotPending
    BY <2>1
  <2> QED
    BY <1>1, <1>2, <2>1, <2>2, <2>5, <2>6, <2>7, HandTake
<1>4. CASE ClaimFails(c)
  <2>1. Goto(c, "loop", [local[c] EXCEPT !.take = {}])
    BY <1>4 DEF ClaimFails
  <2>2. [local[c] EXCEPT !.take = {}].hold = {}
    BY <1>1, Typed DEF Locals
  <2> DEFINE l == [local[c] EXCEPT !.take = {}]
  <2>a. Goto(c, "loop", l) /\ l.hold = {}
    BY <2>1, <2>2
  <2> HIDE DEF l
  <2>b. /\ pc'[c] = "loop" /\ local'[c].hold = {}
        /\ \A d \in Consumers : d # c => pc'[d] = pc[d] /\ local'[d] = local[d]
    BY <2>a, GotoMoves
  <2>3. \A d \in Consumers : local'[d].hold = local[d].hold /\ (pc'[d] = "ack" <=> pc[d] = "ack")
    BY <1>1, <2>b
  <2>4. /\ stopped \subseteq stopped'
        /\ \A i \in Ids : pel'[i] = pel[i] \/ (i \in stopped' /\ i \in Granted(c))
    BY <1>4 DEF ClaimFails, Deliver
  <2>5. \A d \in Consumers : \A i \in local[d].hold : i \notin slow =>
            i \in Ids /\ ~pel[i].idle /\ pel'[i] = pel[i]
    BY <1>2, <2>4, Typed DEF HandInv, HeldInTime, Locals
  <2>6. \A i \in Ids : pel'[i].owner # NoOne => pel'[i].owner = pel[i].owner \/ i \in stopped'
    BY <2>4
  <2> QED
    BY <1>1, <2>3, <2>4, <2>5, <2>6, HandSame
<1> QED
  BY <1>3, <1>4

\* A process reads its own pending list with nothing in hand, so what it finds was left
\* by a stop, or was slow.
LEMMA ReadPendingHand ==
    ASSUME BusInv, HandInv, NEW c \in Consumers, ReadPending(c)
    PROVE  HandInv'
<1> DEFINE page == Page(Own(c), BatchSize)
<1>1. pc[c] = "loop" /\ local[c].hold = {} /\ UNCHANGED <<runs, stopped, slow>>
  BY DEF ReadPending, history, BusInv, InHand
<1>2. page \in SUBSET Ids /\ \A i \in page : pel[i].owner = c
  <2>1. page \subseteq Own(c)
    BY PageIsInside
  <2> QED
    BY <2>1 DEF Own
<1>3. CASE page = {}
  <2>1. Goto(c, "loop", [local[c] EXCEPT !.reading = "new"]) /\ pel' = pel
    BY <1>3 DEF ReadPending
  <2>2. [local[c] EXCEPT !.reading = "new"].hold = {}
    BY <1>1, Typed DEF Locals
  <2> DEFINE l == [local[c] EXCEPT !.reading = "new"]
  <2>a. Goto(c, "loop", l) /\ l.hold = {}
    BY <2>1, <2>2
  <2> HIDE DEF l
  <2>b. /\ pc'[c] = "loop" /\ local'[c].hold = {}
        /\ \A d \in Consumers : d # c => pc'[d] = pc[d] /\ local'[d] = local[d]
    BY <2>a, GotoMoves
  <2>3. \A d \in Consumers : local'[d].hold = local[d].hold /\ (pc'[d] = "ack" <=> pc[d] = "ack")
    BY <1>1, <2>b
  <2>4. \A d \in Consumers : \A i \in local[d].hold : i \notin slow => ~pel[i].idle
    BY DEF HandInv, HeldInTime
  <2> QED
    BY <1>1, <2>1, <2>3, <2>4, HandSame
<1>4. CASE page # {}
  <2> DEFINE k == [local[c] EXCEPT !.cursor = Last(page), !.blank = {i \in page : ~Present(i)}]
  <2>1. Begin(c, page, k) /\ Deliver(page, c)
    BY <1>4 DEF ReadPending
  <2> HIDE DEF page
  <2>2. Last(page) \in Ids
    BY <1>2, <1>4, EndsExist
  <2>3. k \in Locals
    <3>1. Last(page) \in 0..MaxEntries
      BY <2>2, BusAssumption DEF Ids
    <3>2. {i \in page : ~Present(i)} \in SUBSET Ids
      BY <1>2
    <3> QED
      BY <3>1, <3>2, Typed DEF Locals
  <2> HIDE DEF k
  <2>4. \E next \in {"loop", "handle"} : \E l \in Locals : Goto(c, next, l) /\ l.hold = page
    BY <1>2, <2>1, <2>3, BeginIs
  <2>5. /\ pc'[c] # "ack" /\ local'[c].hold = page
        /\ \A d \in Consumers : d # c => local'[d] = local[d] /\ pc'[d] = pc[d]
    BY <2>4, GotoMoves
  <2>6. \A i \in Ids : pel'[i] = IF i \in page THEN [owner |-> c, count |-> pel[i].count + 1, idle |-> FALSE]
                                 ELSE pel[i]
    BY <2>1, DeliverIs DEF BusInv
  <2>7. \A i \in page : pel'[i].owner = c /\ ~pel'[i].idle
    <3> SUFFICES ASSUME NEW i \in page PROVE pel'[i].owner = c /\ ~pel'[i].idle
      OBVIOUS
    <3>1. pel'[i] = [owner |-> c, count |-> pel[i].count + 1, idle |-> FALSE]
      BY <1>2, <2>6
    <3> QED
      BY <3>1
  <2>8. \A i \in page : i \in stopped \cup slow /\ \A d \in Consumers : i \in local[d].hold => i \in slow
    <3> SUFFICES ASSUME NEW i \in page
                 PROVE  i \in stopped \cup slow /\ \A d \in Consumers : i \in local[d].hold => i \in slow
      OBVIOUS
    <3>1. i \in Ids /\ pel[i].owner = c /\ Pending(i)
      BY <1>2, BusAssumption DEF Pending
    <3> QED
      BY <1>1, <3>1 DEF HandInv, HeldInTime
  <2>9. /\ \A i \in Ids : i \notin page => pel'[i] = pel[i] \/ pel'[i] = NotPending
        /\ \A i \in page : i \in stopped \cup slow \/ runs[i] = 0
        /\ \A d \in Consumers : \A i \in page : i \in local[d].hold => i \in slow
    BY <2>6, <2>8
  <2> QED
    BY <1>1, <1>2, <2>5, <2>7, <2>9, HandTake
<1> QED
  BY <1>3, <1>4

\* A new message was in no hand and was run by none.
LEMMA ReadHand ==
    ASSUME BusInv, HandInv, NEW c \in Consumers, ReadNew(c) \/ ReadUnanswered(c)
    PROVE  HandInv'
<1> DEFINE page == Page(Unread, BatchSize)
<1>1. /\ pc[c] = "loop" /\ page # {} /\ Deliver(page, c) /\ UNCHANGED <<runs, slow>> /\ local[c].hold = {}
  BY DEF ReadNew, ReadUnanswered, history, BusInv, InHand
<1>2. page \in SUBSET Ids /\ page \subseteq Unread
  BY <1>1, UnreadPage
<1>3. CASE ReadNew(c)
  <2> DEFINE k == [local[c] EXCEPT !.blank = {}]
  <2>1. Begin(c, page, k) /\ UNCHANGED stopped
    BY <1>3 DEF ReadNew, history
  <2>2. k \in Locals
    BY Typed DEF Locals
  <2> HIDE DEF page, k
  <2>3. \E next \in {"loop", "handle"} : \E l \in Locals : Goto(c, next, l) /\ l.hold = page
    BY <1>2, <2>1, <2>2, BeginIs
  <2>4. /\ pc'[c] # "ack" /\ local'[c].hold = page
        /\ \A d \in Consumers : d # c => local'[d] = local[d] /\ pc'[d] = pc[d]
    BY <2>3, GotoMoves
  <2>5. \A i \in Ids : pel'[i] = IF i \in page THEN [owner |-> c, count |-> pel[i].count + 1, idle |-> FALSE]
                                 ELSE pel[i]
    BY <1>1, DeliverIs DEF BusInv
  <2>6. \A i \in page : pel'[i].owner = c /\ ~pel'[i].idle
    <3> SUFFICES ASSUME NEW i \in page PROVE pel'[i].owner = c /\ ~pel'[i].idle
      OBVIOUS
    <3>1. pel'[i] = [owner |-> c, count |-> pel[i].count + 1, idle |-> FALSE]
      BY <1>2, <2>5
    <3> QED
      BY <3>1
  <2>7. \A i \in page : i > last /\ runs[i] = 0
    BY <1>2, Typed DEF Unread
  <2>8. \A d \in Consumers : \A i \in page : i \notin local[d].hold
    <3>1. \A d \in Consumers : \A i \in local[d].hold : ~(i > last)
      BY Typed DEF BusInv, InHand
    <3> QED
      BY <2>7, <3>1
  <2>9. /\ UNCHANGED <<runs, stopped, slow>> /\ local[c].hold = {}
        /\ \A i \in Ids : i \notin page => pel'[i] = pel[i] \/ pel'[i] = NotPending
        /\ \A i \in page : i \in stopped \cup slow \/ runs[i] = 0
    BY <1>1, <2>1, <2>5, <2>7
  <2> QED
    BY <1>2, <2>4, <2>6, <2>8, <2>9, HandTake
<1>4. CASE ReadUnanswered(c)
  <2>1. UNCHANGED <<pc, local>> /\ stopped' = stopped \cup page
    BY <1>4 DEF ReadUnanswered, proc
  <2> HIDE DEF page
  <2>2. \A i \in Ids : i \notin page => pel'[i] = pel[i]
    BY <1>1, DeliverIs DEF BusInv
  <2>3. \A d \in Consumers : \A i \in local[d].hold : i \in Ids /\ ~(i > last) /\ (i \notin slow => ~pel[i].idle)
    BY Typed DEF BusInv, InHand, HandInv, HeldInTime, Locals
  <2>4. \A d \in Consumers : \A i \in local[d].hold : pel'[i] = pel[i] /\ (i \notin slow => ~pel[i].idle)
    BY <1>2, <2>2, <2>3 DEF Unread
  <2>5. \A i \in Ids : pel'[i].owner # NoOne => pel'[i].owner = pel[i].owner \/ i \in stopped'
    BY <2>1, <2>2
  <2> QED
    BY <1>1, <2>1, <2>4, <2>5, HandSame
<1> QED
  BY <1>3, <1>4

\* A death leaves what it had in hand to the pending list.
LEMMA CrashHand ==
    ASSUME BusInv, HandInv, NEW c \in Consumers, Crash(c)
    PROVE  HandInv'
<1>1. /\ Goto(c, "down", Fresh) /\ UNCHANGED <<pel, runs, slow>> /\ stopped' = stopped \cup Mine(c)
  BY DEF Crash, redis
<1>2. /\ local'[c].hold = {}
      /\ \A d \in Consumers : d # c => local'[d] = local[d] /\ pc'[d] = pc[d]
  BY <1>1, GotoMoves DEF Fresh
<1>3. \A i \in Ids : pel'[i].owner = c => i \in stopped'
  BY <1>1 DEF Mine
<1> QED
  BY <1>1, <1>2, <1>3, HandShrink

\* The handlers are called for the first message of the batch, once.
LEMMA HandleHand ==
    ASSUME BusInv, HandInv, NEW c \in Consumers, Handle(c) \/ HandleLeaves(c) \/ Ack(c)
    PROVE  HandInv'
<1> DEFINE i == First(local[c].hold)
           rest == local[c].hold \ {i}
           done == IF rest = {} THEN "loop" ELSE "handle"
           l == [local[c] EXCEPT !.hold = rest, !.late = TRUE]
<1>1. /\ pc[c] \in {"handle", "ack"} /\ stopped \subseteq stopped' /\ UNCHANGED slow
      /\ pel' = pel \/ Acked({i})
  BY DEF Handle, HandleLeaves, Ack, redis
<1>2. i \in local[c].hold /\ i \in Ids
  BY <1>1, InHandIs
<1>3. \A j \in local[c].hold : j \in Ids
  BY Typed DEF Locals
<1>4. l.hold = rest
  BY Typed DEF Locals
<1>5. /\ \A j \in Ids : pel'[j] = pel[j] \/ pel'[j] = NotPending
      /\ Acked({i}) => pel'[i] = NotPending
  BY <1>1, <1>2, AckedIs DEF BusInv
<1>6. runs \in [Ids -> Nat] /\ NotPending.owner # c
  BY Typed, BusAssumption DEF NotPending
<1>7. \A j \in Ids : pel'[j].owner = c /\ j \notin stopped \cup slow => pel[j].owner = c /\ j \in local[c].hold
  <2> SUFFICES ASSUME NEW j \in Ids, pel'[j].owner = c, j \notin stopped \cup slow
               PROVE  pel[j].owner = c /\ j \in local[c].hold
    OBVIOUS
  <2>1. pel[j].owner = c /\ Pending(j)
    BY <1>5, <1>6, BusAssumption DEF Pending
  <2> QED
    BY <2>1 DEF HandInv, HeldInTime
<1> HIDE DEF l
<1>8. CASE Handle(c)
  <2>1. /\ pc[c] = "handle" /\ Goto(c, "ack", local[c]) /\ UNCHANGED stopped
        /\ runs' = runs \/ runs' = [runs EXCEPT ![i] = @ + 1]
    BY <1>8 DEF Handle
  <2> HIDE DEF i
  <2>2. /\ local'[c] = local[c] /\ pc'[c] = "ack"
        /\ \A d \in Consumers : d # c => local'[d] = local[d] /\ pc'[d] = pc[d]
    BY <2>1, GotoMoves
  <2>3. \A j \in local[c].hold : j \notin stopped \cup slow => runs[j] = 0
    BY <1>3, <2>1 DEF HandInv, RunOnce
  <2>4. \A j \in Ids : j # i => runs'[j] = runs[j]
    BY <1>6, <2>1
  <2>5. i \notin stopped \cup slow => runs'[i] <= 1
    BY <1>2, <1>6, <2>1, <2>3
  <2>6. i = First(local'[c].hold)
    BY <2>2 DEF i
  <2> QED
    BY <1>1, <1>2, <1>3, <1>5, <1>7, <2>1, <2>2, <2>3, <2>4, <2>5, <2>6, HandShrink
<1>9. CASE HandleLeaves(c)
  <2>1. /\ pc[c] = "handle" /\ Goto(c, done, l) /\ stopped' = stopped \cup {i}
        /\ runs' = [runs EXCEPT ![i] = @ + 1]
    BY <1>9 DEF HandleLeaves, Done, l
  <2> HIDE DEF i
  <2>2. /\ local'[c].hold = rest /\ rest \subseteq local[c].hold /\ i \notin rest
        /\ \A d \in Consumers : d # c => local'[d] = local[d] /\ pc'[d] = pc[d]
    BY <1>4, <2>1, GotoMoves
  <2>3. \A j \in local[c].hold : j \notin stopped \cup slow => runs[j] = 0
    BY <1>3, <2>1 DEF HandInv, RunOnce
  <2>4. \A j \in Ids : j \notin stopped' \cup slow => runs'[j] = runs[j] /\ j # i
    BY <1>6, <2>1
  <2>5. \A j \in Ids : pel'[j].owner = c /\ j \notin stopped' \cup slow => j \in rest
    BY <1>7, <2>1, <2>4
  <2>6. \A j \in rest : j \notin stopped' \cup slow => runs'[j] = 0
    BY <1>1, <1>3, <2>2, <2>3, <2>4
  <2> QED
    BY <1>1, <1>5, <2>2, <2>4, <2>5, <2>6, HandShrink
<1>10. CASE Ack(c)
  <2>1. /\ pc[c] = "ack" /\ Goto(c, done, l) /\ UNCHANGED runs
        /\ Acked({i}) \/ i \in stopped'
    BY <1>10 DEF Ack, Done, l
  <2>2. \A j \in rest : j \notin stopped \cup slow => runs[j] = 0
    BY <1>3, <2>1 DEF HandInv, RunOnce
  <2> HIDE DEF i
  <2>3. /\ local'[c].hold = rest /\ rest \subseteq local[c].hold
        /\ \A d \in Consumers : d # c => local'[d] = local[d] /\ pc'[d] = pc[d]
    BY <1>4, <2>1, GotoMoves
  <2>4. pel'[i].owner = c => i \in stopped'
    BY <1>5, <1>6, <2>1
  <2>5. \A j \in Ids : pel'[j].owner = c /\ j \notin stopped' \cup slow => j \in rest
    BY <1>1, <1>7, <2>4
  <2> QED
    BY <1>1, <1>5, <2>1, <2>2, <2>3, <2>5, HandShrink
<1> QED
  BY <1>8, <1>9, <1>10

\* Every step keeps the invariant.
LEMMA NextHand == ASSUME BusInv, HandInv, [Next]_vars PROVE HandInv'
<1>1. CASE \/ UNCHANGED vars
           \/ \E e \in Events : Publish(e)
           \/ \E i \in Ids : Redrive(i) \/ Discard(i) \/ Idle(i)
  BY <1>1, StillHand
<1>2. ASSUME NEW c \in Consumers,
             Start(c) \/ Sweep(c) \/ Advance(c) \/ Shutdown(c) \/ Crash(c)
      PROVE  HandInv'
  BY <1>2, TurnsHand, StillHand, ClaimHand, ReadPendingHand, ReadHand, CrashHand, HandleHand DEF Advance
<1> QED
  BY <1>1, <1>2 DEF Next

\* Nothing is in hand at the start.
LEMMA InitHand == Init => HandInv
<1> SUFFICES ASSUME Init PROVE HandInv
  OBVIOUS
<1>1. \A c \in Consumers : local[c].hold = {}
  BY DEF Init, Fresh
<1>2. \A i \in Ids : pel[i] = NotPending /\ runs[i] = 0
  BY DEF Init
<1> QED
  BY <1>1, <1>2 DEF HandInv, OneHolder, HeldInTime, RunOnce, Pending, NotPending

\* A message is handed to the handlers twice only if a consumer stopped, or lost an
\* answer, before its acknowledgement reached Redis, or if the message waited in a batch
\* past ClaimMinIdle; and only in the second case do two live consumers have the same
\* message in hand.
THEOREM SecondRunsHaveCauses == Spec => [](SecondRunHasACause /\ OneHolder)
<1>1. Init => BusInv /\ HandInv
  BY InitBus, InitHand
<1>2. BusInv /\ HandInv /\ [Next]_vars => BusInv' /\ HandInv'
  BY NextBus, NextHand
<1>3. BusInv /\ HandInv => SecondRunHasACause /\ OneHolder
  BY DEF BusInv, TypeOK, HandInv, RunOnce, SecondRunHasACause
<1> QED
  BY <1>1, <1>2, <1>3, PTL DEF Spec

=============================================================================
