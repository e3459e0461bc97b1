------------------------------ MODULE Payment ------------------------------
(***************************************************************************)
(* The payment module's two ledgers: the collections, sessions, captures   *)
(* and refunds of internal/modules/payment, and what each provider's own   *)
(* books say.  A money flow takes the collection's lock, calls the         *)
(* provider INSIDE the database transaction and then commits, so it is two *)
(* steps here: the call, which moves the provider's books, and Commit or   *)
(* Rollback.  RefundCollection and Reconcile read without a lock.          *)
(*                                                                         *)
(* A session is named by its idempotency key.  Its provider is one of      *)
(*   inside   the manual, store-credit, loyalty and gift-card tenders,     *)
(*            whose books are rows of the module's own transaction;        *)
(*   outside  a gateway the module drives and whose books are not;         *)
(*   page     PayTR: the customer pays on PayTR's page, and the books have *)
(*            one row per collection, which its sessions share.            *)
(***************************************************************************)
EXTENDS Integers, Sequences, FiniteSets, SequencesExt, FiniteSetsExt, Functions

CONSTANTS
    Collections,
    Sessions,
    Home,          \* the collection of a session
    Provider,      \* "inside", "outside" or "page", by session
    Amount,        \* what every collection is to collect
    Causes,        \* the records refunds are made for: a return, a claim
    Ceiling,       \* the most the refunds naming a cause may give back
    Drawn,         \* the collection a cause's refunds are drawn from
    Refunders,     \* calls of RefundCollection under way
    NoOne,
    Parts,         \* the sessions opened for a part of what remains, which the
                   \* admin surface can ask for; the checkout asks for all of it
    Watched,       \* the sessions left alone long enough to meet a reconciliation
    MaxHolds,      \* the authorized sessions one pass asks about, fifty in the job
    MaxPages,      \* the sessions on a page one pass asks about, MaxReconcileLimit
    Losses         \* bound: the sets of sessions whose provider's answers may be lost

ASSUME PaymentAssumption ==
    /\ IsFiniteSet(Sessions)
    /\ Home \in [Sessions -> Collections]
    /\ Provider \in [Sessions -> {"inside", "outside", "page"}]
    /\ Amount \in Nat \ {0}
    /\ Ceiling \in Nat \ {0}
    /\ Drawn \in [Causes -> Collections]
    /\ NoOne \notin Refunders \cup Sessions \cup Causes
    /\ Sessions \cap Collections = {}
    /\ Parts \subseteq Sessions
    /\ Watched \subseteq Sessions
    /\ MaxHolds \in Nat \ {0} /\ MaxPages \in Nat \ {0}
    /\ Losses \subseteq SUBSET Sessions

VARIABLES
    db,         \* the committed ledger of a collection
    books,      \* the providers' own books, by session or, for PayTR, collection
    given,      \* the refunds naming a cause, of every collection, summed
    tx,         \* the open transaction that holds a collection's lock
    refunding,  \* where a RefundCollection stands
    settled,    \* sessions unchanged for longer than the settling window
    older,      \* the pairs of settled sessions, the one that settled first in front
    met,        \* sessions some pass began after, so that it listed them or cut them
    past,       \* sessions that settled longer ago than UnreportedWindow
    suspects,   \* the running reconciliation pass: the statuses it listed
    reported,   \* sessions some pass reported as a divergence, or left out with a warning
                \* that it had left some out
    late,       \* history: sessions on a page that was paid after they had settled, or whose
                \* provider could not say that it was
    stray,      \* history: collections paid on a page that no live session is on
    lost        \* history: sessions whose provider answered a transaction that did not commit

age == <<settled, older, met, past, late>>
pass == <<suspects, reported>>
vars == <<db, books, given, tx, refunding, age, pass, stray, lost>>

Money == 0..Amount
Statuses == {"none", "pending", "authorized", "captured", "canceled", "failed"}

\* A session's row with its capture: paid and back are the Payment's amount and
\* refunded_amount; hold is authorized_amount
NoRow == [status |-> "none", amount |-> 0, hold |-> 0, paid |-> 0, back |-> 0]
Row == [status : Statuses, amount : Money, hold : Money, paid : Money, back : Money]
NoEntry == [status |-> "none", amount |-> 0, hold |-> 0, taken |-> 0, back |-> 0]
Entry == [status : Statuses, amount : Money, hold : Money, taken : Money, back : Money]

SessionsOf(c) == {s \in Sessions : Home[s] = c}
Book(s) == IF Provider[s] = "page" THEN Home[s] ELSE s

CollectionStatuses == {"not_paid", "awaiting", "authorized", "partially_captured",
                       "captured", "partially_refunded", "refunded", "canceled"}

\* order: the captures, oldest first
Empty(c) == [held |-> 0, taken |-> 0, back |-> 0, status |-> "not_paid",
             ses |-> [s \in SessionsOf(c) |-> NoRow], order |-> <<>>]

NoTx == [open |-> FALSE]
Idle == [at |-> "idle", cause |-> NoOne, left |-> <<>>]

TypeOK ==
    /\ \A c \in Collections :
          /\ db[c].held \in Money /\ db[c].taken \in Money /\ db[c].back \in Money
          /\ db[c].status \in CollectionStatuses
          /\ db[c].ses \in [SessionsOf(c) -> Row]
          /\ IsInjective(db[c].order) /\ ToSet(db[c].order) \subseteq SessionsOf(c)
    /\ books \in [Sessions \cup Collections -> Entry]
    /\ given \in [Causes -> Nat]
    /\ \A r \in Refunders : refunding[r].at \in {"idle", "read", "parts", "done"}
    /\ settled \subseteq Sessions /\ older \subseteq settled \X settled
    /\ met \subseteq settled /\ past \subseteq met /\ late \subseteq settled
    /\ reported \subseteq Sessions /\ lost \subseteq Sessions
    /\ suspects \in [Sessions -> {"none", "authorized", "pending", "canceled"}]
    /\ stray \subseteq Collections

Init ==
    /\ db = [c \in Collections |-> Empty(c)]
    /\ books = [x \in Sessions \cup Collections |-> NoEntry]
    /\ given = [k \in Causes |-> 0]
    /\ tx = [c \in Collections |-> NoTx]
    /\ refunding = [r \in Refunders |-> Idle]
    /\ settled = {} /\ older = {} /\ met = {} /\ past = {} /\ late = {}
    /\ suspects = [s \in Sessions |-> "none"]
    /\ reported = {}
    /\ stray = {}
    /\ lost = {}

-----------------------------------------------------------------------------
(* Sums over a ledger.                                                     *)

Live(d) == {s \in DOMAIN d.ses : d.ses[s].status \in {"pending", "authorized"}}
Total(d, f(_)) == SumFunction([s \in DOMAIN d.ses |-> f(d.ses[s])])

\* What a live session keeps of the amount: all of it until it is authorized
Reserves(row) ==
    CASE row.status = "pending" -> row.amount
      [] row.status = "authorized" -> row.hold
      [] OTHER -> 0

LiveSessionAmount(d) == Total(d, Reserves)

\* Slip: what the live sessions reserve is left out
RemainingToOpenCaptured(d) == Amount - d.taken

\* Slip: what was captured is left out
RemainingToOpenLive(d) == Amount - LiveSessionAmount(d)

\* What a new session may cover: the amount, less what was captured and what
\* the live sessions reserve
RemainingToOpen(d) == Amount - (d.taken + LiveSessionAmount(d))

Refundable(row) == row.paid - row.back
RefundedForReference(k) == given[k]

\* The status derived from the money first and the session counts after
CollectionStatusFor(d) ==
    CASE d.taken > 0 /\ d.back >= d.taken -> "refunded"
      [] d.taken > 0 /\ d.back > 0 /\ d.back < d.taken -> "partially_refunded"
      [] d.taken >= Amount /\ d.back = 0 -> "captured"
      [] d.taken > 0 /\ d.taken < Amount /\ d.back = 0 -> "partially_captured"
      [] d.taken = 0 /\ d.held >= Amount -> "authorized"
      [] d.taken = 0 /\ d.held < Amount /\ Live(d) # {} -> "awaiting"
      [] OTHER -> IF \E s \in DOMAIN d.ses : d.ses[s].status = "canceled"
                  THEN "canceled" ELSE "not_paid"

WriteCollectionTotals(d, held, taken, back) ==
    LET next == [d EXCEPT !.held = held, !.taken = taken, !.back = back]
    IN  [next EXCEPT !.status = CollectionStatusFor(next)]

\* The checks made between the provider's call and the commit: the amounts of
\* CancelPayment and CapturePayment that would fall below zero, and the
\* constraints of the tables
Checks(d) ==
    /\ d.held \in Money /\ d.taken \in Money
    /\ 0 <= d.back /\ d.back <= d.taken
    /\ \A s \in DOMAIN d.ses : LET row == d.ses[s] IN
          /\ row.hold \in 0..row.amount
          /\ row.back \in 0..row.paid

-----------------------------------------------------------------------------
(* The providers.  Each operator gives the entries a call may leave in the *)
(* provider's books; no entry means that the provider refused the call.    *)

\* The driven providers follow the manual provider's own session ledger
ManualCreateSession(e, a) ==
    IF e.status = "none" THEN {[NoEntry EXCEPT !.status = "pending", !.amount = a]}
    ELSE {f \in {e} : f.amount = a}

ManualAuthorize(e) ==
    IF e.status # "pending" THEN {e}
    ELSE {[e EXCEPT !.status = "authorized", !.hold = h] : h \in 1..e.amount}
            \cup {[e EXCEPT !.status = "failed"]}

\* Slip: a capture that was made is confirmed whatever the amount
ManualCaptureAnyAgain(e, a) ==
    CASE e.status = "authorized" /\ a <= e.hold ->
            {[e EXCEPT !.status = "captured", !.hold = a, !.taken = a]}
      [] e.status = "captured" -> {e}
      [] OTHER -> {}

ManualCapture(e, a) ==
    CASE e.status = "authorized" /\ a <= e.hold ->
            {[e EXCEPT !.status = "captured", !.hold = a, !.taken = a]}
      [] e.status = "captured" /\ a = e.taken -> {e}
      [] OTHER -> {}

ManualRefund(e, a) ==
    IF e.status = "captured" /\ a <= e.taken - e.back
    THEN {[e EXCEPT !.back = @ + a]}
    ELSE {}

\* Slip: the hold is not released
ManualCancelKeepsHold(e) ==
    IF e.status \in {"captured", "none"} THEN {} ELSE {[e EXCEPT !.status = "canceled"]}

ManualCancel(e) ==
    IF e.status \in {"captured", "none"} THEN {}
    ELSE {[e EXCEPT !.status = "canceled", !.hold = 0]}

\* PayTR: one row per collection, which a later session may adopt
PaytrCreateSession(e, a) ==
    IF e.status = "none" THEN {[NoEntry EXCEPT !.status = "pending", !.amount = a]}
    ELSE {f \in {e} : /\ f.amount = a
                      /\ f.status = "pending" \/ (f.status = "captured" /\ f.back = 0)}

PaytrAuthorize(e) == {f \in {e} : f.status = "captured" /\ f.back = 0}

PaytrCapture(e, a) == {f \in {e} : f.status = "captured" /\ a <= f.taken - f.back}

PaytrRefund(e, a) ==
    IF e.status = "captured" /\ a <= e.taken - e.back
    THEN {[e EXCEPT !.back = @ + a]}
    ELSE {}

\* Money that was taken is sent back; a page not paid yet is left as it is
PaytrCancel(e) ==
    IF e.status = "captured" THEN {[e EXCEPT !.back = e.taken]} ELSE {e}

-----------------------------------------------------------------------------
(* Transactions.                                                           *)

\* The lock is taken, the provider called: d is what the transaction writes
Call(s, d, e, r) ==
    /\ ~tx[Home[s]].open
    /\ tx' = [tx EXCEPT ![Home[s]] =
                 [open |-> TRUE, ses |-> s, db |-> d, entry |-> e, by |-> r]]
    /\ books' = IF Provider[s] = "inside" THEN books ELSE [books EXCEPT ![Book(s)] = e]
    /\ UNCHANGED <<db, given, age, pass, stray, lost>>

\* The refund call behind a transaction goes on to its next part
Advance(r) ==
    refunding' = IF r = NoOne THEN refunding
                 ELSE [refunding EXCEPT ![r].left = Tail(@),
                                        ![r].at = IF Len(refunding[r].left) > 1 THEN @ ELSE "done"]

Stop(r) ==
    refunding' = IF r = NoOne THEN refunding
                 ELSE [refunding EXCEPT ![r].at = "done", ![r].left = <<>>]

\* The session's row is written: it has to settle again
Written(s) ==
    /\ settled' = settled \ {s}
    /\ older' = {p \in older : s \notin {p[1], p[2]}}
    /\ met' = met \ {s}
    /\ past' = past \ {s}
    /\ late' = late \ {s}

\* A refund for a cause: what it adds to the collection's is the cause's as well
Commit(c) ==
    /\ tx[c].open
    /\ Checks(tx[c].db)
    /\ db' = [db EXCEPT ![c] = tx[c].db]
    /\ given' = IF tx[c].by = NoOne THEN given
                ELSE [given EXCEPT ![refunding[tx[c].by].cause] = @ + (tx[c].db.back - db[c].back)]
    /\ books' = IF Provider[tx[c].ses] = "inside"
                THEN [books EXCEPT ![tx[c].ses] = tx[c].entry]
                ELSE books
    /\ Written(tx[c].ses)
    /\ tx' = [tx EXCEPT ![c] = NoTx]
    /\ Advance(tx[c].by)
    /\ UNCHANGED <<pass, stray, lost>>

\* The commit fails, or a write after the provider's answer does; the books of
\* the module's own tenders are in the transaction and roll back with it
Rollback(c) ==
    /\ tx[c].open
    /\ lost' = lost \cup {s \in {tx[c].ses} : Provider[s] # "inside"}
    /\ lost' \in Losses
    /\ tx' = [tx EXCEPT ![c] = NoTx]
    /\ Stop(tx[c].by)
    /\ UNCHANGED <<db, books, given, age, pass, stray>>

-----------------------------------------------------------------------------
(* The sessions' flows.                                                    *)

\* A key that has a session gets it back, or a conflict: nothing changes
CreateSession(s, a) ==
    LET d == db[Home[s]]
        row == [NoRow EXCEPT !.status = "pending", !.amount = a]
        next == [d EXCEPT !.ses[s] = row]
    IN  /\ d.ses[s].status = "none"
        /\ a <= RemainingToOpen(d)
        /\ s \notin Parts => a = RemainingToOpen(d)
        /\ \E e \in IF Provider[s] = "page" THEN PaytrCreateSession(books[Book(s)], a)
                                            ELSE ManualCreateSession(books[s], a) :
              Call(s, WriteCollectionTotals(next, d.held, d.taken, d.back), e, NoOne)
        /\ UNCHANGED refunding

\* PayTR's payment is taken already and is read as a hold
AuthorizePayment(s) ==
    LET d == db[Home[s]]
        Held(h) == [d EXCEPT !.ses[s].status = "authorized", !.ses[s].hold = h]
        Declined == [d EXCEPT !.ses[s].status = "failed", !.ses[s].hold = 0]
    IN  /\ d.ses[s].status = "pending"
        /\ \/ /\ Provider[s] = "page"
              /\ \E e \in PaytrAuthorize(books[Book(s)]) :
                    /\ e.taken <= d.ses[s].amount
                    /\ Call(s, WriteCollectionTotals(Held(e.taken), d.held + e.taken, d.taken, d.back),
                            e, NoOne)
           \/ /\ Provider[s] # "page"
              /\ \E e \in ManualAuthorize(books[s]) :
                    \/ /\ e.status = "authorized" /\ e.hold <= d.ses[s].amount
                       /\ Call(s, WriteCollectionTotals(Held(e.hold), d.held + e.hold, d.taken, d.back),
                               e, NoOne)
                    \/ /\ e.status = "failed"
                       /\ Call(s, WriteCollectionTotals(Declined, d.held, d.taken, d.back), e, NoOne)
        /\ UNCHANGED refunding

\* A captured session is a conflict; a canceled one stays as it is
CancelPayment(s) ==
    LET d == db[Home[s]]
        next == [d EXCEPT !.ses[s].status = "canceled", !.ses[s].hold = 0]
    IN  /\ d.ses[s].status \in {"pending", "authorized", "failed"}
        /\ \E e \in IF Provider[s] = "page" THEN PaytrCancel(books[Book(s)])
                                            ELSE ManualCancel(books[s]) :
              Call(s, WriteCollectionTotals(next, d.held - d.ses[s].hold, d.taken, d.back), e, NoOne)
        /\ UNCHANGED refunding

\* Slip: only what is captured leaves the held total
CapturePaymentLeavesRest(s, a) ==
    LET d == db[Home[s]]
        next == [d EXCEPT !.ses[s].status = "captured", !.ses[s].hold = a,
                          !.ses[s].paid = a, !.order = Append(@, s)]
    IN  /\ d.ses[s].status = "authorized"
        /\ a <= d.ses[s].hold
        /\ \E e \in IF Provider[s] = "page" THEN PaytrCapture(books[Book(s)], a)
                                            ELSE ManualCapture(books[s], a) :
              Call(s, WriteCollectionTotals(next, d.held - a, d.taken + a, d.back), e, NoOne)
        /\ UNCHANGED refunding

\* The whole hold closes: what is captured of it, and the rest leaves the ledger.  A
\* driven provider releases the rest; PayTR has the whole payment and keeps it
CapturePayment(s, a) ==
    LET d == db[Home[s]]
        next == [d EXCEPT !.ses[s].status = "captured", !.ses[s].hold = a,
                          !.ses[s].paid = a, !.order = Append(@, s)]
    IN  /\ d.ses[s].status = "authorized"
        /\ a <= d.ses[s].hold
        /\ \E e \in IF Provider[s] = "page" THEN PaytrCapture(books[Book(s)], a)
                                            ELSE ManualCapture(books[s], a) :
              Call(s, WriteCollectionTotals(next, d.held - d.ses[s].hold, d.taken + a, d.back), e, NoOne)
        /\ UNCHANGED refunding

-----------------------------------------------------------------------------
(* Refunds.                                                                *)

\* Slip: the ceiling is only looked at before the lock
MayRefundUnlocked(s, a, k) == a \in 1..Refundable(db[Home[s]].ses[s])

\* Under the lock: what is left of the capture, and of the cause's ceiling
MayRefund(s, a, k) ==
    /\ a \in 1..Refundable(db[Home[s]].ses[s])
    /\ k # NoOne => RefundedForReference(k) + a <= Ceiling

RefundOutcomes(s, a) ==
    IF Provider[s] = "page" THEN PaytrRefund(books[Book(s)], a) ELSE ManualRefund(books[s], a)

RefundedBy(d, s, a) ==
    WriteCollectionTotals([d EXCEPT !.ses[s].back = @ + a], d.held, d.taken, d.back + a)

\* An operator's refund, of any amount and for no cause
RefundPayment(s, a) ==
    /\ MayRefund(s, a, NoOne)
    /\ \E e \in RefundOutcomes(s, a) : Call(s, RefundedBy(db[Home[s]], s, a), e, NoOne)
    /\ UNCHANGED refunding

\* RefundCollection reads the captures, newest first, and what the cause was
\* given, both without the lock
RefundCollection(r, k) ==
    LET d == db[Drawn[k]]
        part(s) == [ses |-> s, amount |-> Refundable(d.ses[s])]
    IN  /\ refunding[r].at = "idle"
        /\ refunding' = [refunding EXCEPT ![r] =
              [at |-> "read", cause |-> k,
               left |-> [i \in 1..Len(d.order) |-> part(Reverse(d.order)[i])]]]
        /\ UNCHANGED <<db, books, given, tx, age, pass, stray, lost>>

RefundableOf(parts) == FoldLeft(LAMBDA sum, p : sum + p.amount, 0, parts)

\* The amount spread over the captures in the order they were read
Spread(parts, amount) ==
    LET before(i) == RefundableOf(SubSeq(parts, 1, i - 1))
        share(i) == Max({0, Min({parts[i].amount, amount - before(i)})})
    IN  SelectSeq([i \in 1..Len(parts) |-> [parts[i] EXCEPT !.amount = share(i)]],
                  LAMBDA p : p.amount > 0)

\* ask = 0 is what the cause has left, as far as the collection holds
PlanRefund(r, ask) ==
    LET parts == refunding[r].left
        left == Ceiling - RefundedForReference(refunding[r].cause)
        amount == IF ask = 0 THEN Min({left, RefundableOf(parts)}) ELSE ask
    IN  /\ refunding[r].at = "read"
        /\ IF 0 < amount /\ amount <= left /\ amount <= RefundableOf(parts)
           THEN refunding' = [refunding EXCEPT ![r].at = "parts", ![r].left = Spread(parts, amount)]
           ELSE Stop(r)
        /\ UNCHANGED <<db, books, given, tx, age, pass, stray, lost>>

\* One capture's share, a refund of its own; a failure ends the call and the
\* parts already made stand
RefundPart(r) ==
    LET k == refunding[r].cause
        a == Head(refunding[r].left).amount
    IN  /\ refunding[r].at = "parts"
        /\ \E s \in SessionsOf(Drawn[k]) :
              LET outcomes == IF MayRefund(s, a, k) THEN RefundOutcomes(s, a) ELSE {} IN
                  /\ s = Head(refunding[r].left).ses
                  /\ ~tx[Home[s]].open
                  /\ \/ /\ \E e \in outcomes : Call(s, RefundedBy(db[Home[s]], s, a), e, r)
                        /\ UNCHANGED refunding
                     \/ /\ outcomes = {}
                        /\ Stop(r)
                        /\ UNCHANGED <<db, books, given, tx, age, pass, stray, lost>>

-----------------------------------------------------------------------------
(* The customer on PayTR's page, and the reconciliation.                   *)

\* The ledger as the open transaction is about to leave it
Upcoming(c) == IF tx[c].open THEN tx[c].db ELSE db[c]

\* The customer has the page once a session on it was returned; the callback is
\* applied once; the page cannot be voided, so it may be paid after its session
\* was canceled
PagePaid(c) ==
    LET onPage == {s \in SessionsOf(c) : Provider[s] = "page"}
    IN  /\ \E s \in onPage : db[c].ses[s].status # "none"
        /\ books[c].status = "pending"
        /\ \/ /\ \E a \in 1..books[c].amount :
                    books' = [books EXCEPT ![c].status = "captured", ![c].taken = a]
              /\ stray' = IF Live(db[c]) \cap Live(Upcoming(c)) \cap onPage # {}
                          THEN stray ELSE stray \cup {c}
              /\ late' = late \cup (settled \cap onPage)
           \/ /\ books' = [books EXCEPT ![c].status = "failed"]
              /\ UNCHANGED <<stray, late>>
        /\ UNCHANGED <<db, given, tx, refunding, settled, older, met, past, pass, lost>>

IsHold(s) == db[Home[s]].ses[s].status = "authorized"

\* A pending or canceled session of a provider whose customer pays on its own page
IsUnreported(s) ==
    Provider[s] = "page" /\ db[Home[s]].ses[s].status \in {"pending", "canceled"}

\* A session a pass reads is left alone for the settling window
Settle(s) ==
    /\ s \in Watched \ settled
    /\ IsHold(s) \/ IsUnreported(s)
    /\ settled' = settled \cup {s}
    /\ older' = older \cup ({t \in settled : IsHold(t) = IsHold(s)} \X {s})
    /\ UNCHANGED <<db, books, given, tx, refunding, met, past, late, pass, stray, lost>>

OpenHolds == {s \in settled : IsHold(s)}

\* The sessions on a page are read for a day after they settled
Unreported == {s \in settled \ past : IsUnreported(s)}

Oldest(S, n) == {s \in S : Cardinality({t \in S : <<t, s>> \in older}) < n}
Newest(S, n) == {s \in S : Cardinality({t \in S : <<s, t>> \in older}) < n}

\* Slip: only holds are suspects
SuspectedHolds == Oldest(OpenHolds, MaxHolds)

Suspected == Oldest(OpenHolds, MaxHolds) \cup Newest(Unreported, MaxPages)

\* What a pass leaves out and warns of: Truncated, and UnreportedTruncated when the
\* pages it kept do not reach back to the pass before
LeftOut ==
    LET kept == Newest(Unreported, MaxPages)
    IN  (OpenHolds \ Oldest(OpenHolds, MaxHolds))
            \cup (IF kept \cap met = {} THEN Unreported \ kept ELSE {})

Reconcile ==
    /\ \A s \in Sessions : suspects[s] = "none"
    /\ suspects' = [s \in Sessions |-> IF s \in Suspected THEN db[Home[s]].ses[s].status ELSE "none"]
    /\ reported' = reported \cup LeftOut
    /\ met' = settled
    /\ suspects' # suspects \/ met' # met
    /\ UNCHANGED <<db, books, given, tx, refunding, settled, older, past, late, stray, lost>>

\* The window lasts many passes, at the least one
WindowEnds(s) ==
    /\ s \in met \cap Unreported
    /\ past' = past \cup {s}
    /\ UNCHANGED <<db, books, given, tx, refunding, settled, older, met, late, pass, stray, lost>>

\* What the provider has, or still has, of a session that looks unpaid
Divergence(s) ==
    LET e == books[Book(s)] IN e.taken - (IF suspects[s] = "authorized" THEN 0 ELSE e.back)

ReconcileOne(s) ==
    /\ suspects[s] # "none"
    /\ reported' = IF Divergence(s) > 0 THEN reported \cup {s} ELSE reported
    /\ suspects' = [suspects EXCEPT ![s] = "none"]
    /\ UNCHANGED <<db, books, given, tx, refunding, age, stray, lost>>

\* The provider could not be asked: counted, and left to the next pass
ReconcileUnreachable(s) ==
    /\ suspects[s] # "none"
    /\ suspects' = [suspects EXCEPT ![s] = "none"]
    /\ late' = IF Divergence(s) > 0 THEN late \cup ({s} \cap (Unreported \cup past)) ELSE late
    /\ UNCHANGED <<db, books, given, tx, refunding, settled, older, met, past, reported, stray, lost>>

-----------------------------------------------------------------------------
Next ==
    \/ \E s \in Sessions :
          \/ \E a \in 1..Amount : CreateSession(s, a) \/ CapturePayment(s, a) \/ RefundPayment(s, a)
          \/ AuthorizePayment(s)
          \/ CancelPayment(s)
          \/ Settle(s)
          \/ WindowEnds(s)
          \/ ReconcileOne(s)
          \/ ReconcileUnreachable(s)
    \/ \E c \in Collections : Commit(c) \/ Rollback(c) \/ PagePaid(c)
    \/ \E r \in Refunders :
          \/ \E k \in Causes : RefundCollection(r, k)
          \/ \E ask \in Money : PlanRefund(r, ask)
          \/ RefundPart(r)
    \/ Reconcile

Spec == Init /\ [][Next]_vars

\* The reconciliation job runs every hour, a session nobody writes settles, and a
\* provider that is asked again and again answers at some time
FairSpec ==
    /\ Spec
    /\ WF_vars(Reconcile) /\ WF_vars(\E s \in Sessions : Settle(s))
    /\ \A s \in Sessions : SF_vars(ReconcileOne(s))

-----------------------------------------------------------------------------
(* Properties.                                                             *)

\* The totals of a collection are the sums of its rows, in what is committed
\* and in what a transaction is about to commit: held is the holds of the
\* authorized sessions, taken the captures, back the refunds; the status is the
\* one these amounts give
TotalsAddUp ==
    \A d \in {db[c] : c \in Collections} \cup {tx[c].db : c \in {x \in Collections : tx[x].open}} :
        /\ d.held = Total(d, LAMBDA row : IF row.status = "authorized" THEN row.hold ELSE 0)
        /\ d.taken = Total(d, LAMBDA row : row.paid)
        /\ d.back = Total(d, LAMBDA row : row.back)
        /\ d.status = CollectionStatusFor(d)

\* No transaction that has called its provider is stopped by the module's own
\* checks and constraints: a provider moved money for none that cannot commit
ChecksNeverStrandMoney == \A c \in Collections : tx[c].open => Checks(tx[c].db)

\* What the module has booked as captured and as refunded, the provider has
\* really taken and given back, whatever commit was lost: every capture by itself,
\* and the refunds of all the sessions that share a page together
Booked(S, f(_)) == SumFunction([s \in S |-> f(db[Home[s]].ses[s])])

BookedIsReal ==
    /\ \A s \in Sessions : db[Home[s]].ses[s].paid <= books[Book(s)].taken
    /\ \A x \in Sessions \cup Collections :
          Booked({s \in Sessions : Book(s) = x}, LAMBDA row : row.back) <= books[x].back

\* The captures booked on one page are together no more than was paid on it: a
\* payment is adopted by one session, as the comments of the PayTR provider say
BookedOnce ==
    \A c \in Collections :
        Booked({s \in Sessions : Book(s) = c}, LAMBDA row : row.paid) <= books[c].taken

\* The two ledgers of a session part only by a transaction that did not commit
\* after a provider outside the database had answered: until then, and for the
\* module's own tenders always, a provider the module drives has the same
\* status, hold, capture and refunds
ApartOnlyByALostCommit ==
    \A s \in Sessions :
        LET row == db[Home[s]].ses[s] IN
            s \notin lost /\ ~tx[Home[s]].open /\ Provider[s] # "page" =>
                books[s] = [status |-> row.status, amount |-> row.amount, hold |-> row.hold,
                            taken |-> row.paid, back |-> row.back]

\* What a page keeps of its payment beyond the capture of a session on it: the rest
\* of a capture of a part, which PayTR cannot release
Unreleased(c) ==
    {books[c].taken - db[c].ses[s].paid :
        s \in {p \in SessionsOf(c) : Provider[p] = "page" /\ db[c].ses[p].status = "captured"}}

\* The providers together keep no more of the customer's money than the
\* collection is for and the rest of a page captured in part, whatever was lost
\* and retried, unless the customer paid a page whose session was closed or was
\* being closed
ChargedWithinTheAmount ==
    \A c \in Collections \ stray :
        LET kept == SumFunction([x \in SessionsOf(c) \cup {c} |-> books[x].taken - books[x].back])
        IN  IF Unreleased(c) = {} THEN kept <= Amount
            ELSE \A rest \in Unreleased(c) : kept <= Amount + rest

\* The refunds naming a cause give back at most its ceiling, although every
\* RefundCollection reads the sum and the captures before it has the lock
CauseHoldsItsCeiling == \A k \in Causes : RefundedForReference(k) <= Ceiling

\* Money a provider keeps and no row of the module accounts for: taken on a
\* hold that looks uncaptured, or on a page whose session is not authorized
Unaccounted(s) ==
    LET row == db[Home[s]].ses[s] IN
        \/ row.status = "authorized" /\ Provider[s] = "outside" /\ books[s].taken > 0
        \/ /\ Provider[s] = "page" /\ row.status \in {"pending", "canceled"}
           /\ books[Home[s]].taken > books[Home[s]].back

\* Such money is noticed: the session comes to be accounted for, is reported by a
\* reconciliation pass, or is left out by a pass that warns of it.  What may escape is
\* a payment on a page more than a day after its session was last written, with
\* the money arriving after the session had settled or the provider unreachable
\* before
UnaccountedIsReported ==
    \A s \in Sessions :
        []<>(~Unaccounted(s) \/ s \in reported \cup (past \cap late))

=============================================================================
