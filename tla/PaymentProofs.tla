--------------------------- MODULE PaymentProofs ---------------------------
(***************************************************************************)
(* What is proved of the payment ledgers for any number of collections,    *)
(* sessions, causes and refund calls.                                      *)
(***************************************************************************)
EXTENDS Payment, Sums, TLAPS

(* The inductive invariant, in parts.                                      *)

LedgerOf(c) == [held : Int, taken : Int, back : Int, status : CollectionStatuses,
                ses : [SessionsOf(c) -> Row], order : Seq(SessionsOf(c))]

\* The captures are listed once, and a session not authorized yet holds nothing.
Good(c, d) ==
    /\ d \in LedgerOf(c)
    /\ \A i, j \in 1..Len(d.order) : d.order[i] = d.order[j] => i = j
    /\ \A i \in 1..Len(d.order) : d.ses[d.order[i]].status = "captured"
    /\ \A s \in SessionsOf(c) : d.ses[s].status = "pending" => d.ses[s].hold = 0

\* A committed ledger has passed the checks.
Ledgers ==
    /\ DOMAIN db = Collections
    /\ \A c \in Collections :
          Good(c, db[c]) /\ db[c].held \in Money /\ db[c].taken \in Money /\ db[c].back \in Money

\* An open transaction rewrites the row of its own session alone.
Opened(c, d, t) ==
    /\ t.open
    /\ t.ses \in SessionsOf(c)
    /\ Good(c, t.db)
    /\ t.entry \in Entry
    /\ t.by \in Refunders \cup {NoOne}
    /\ \A s \in SessionsOf(c) : s # t.ses => t.db.ses[s] = d.ses[s]

Transactions ==
    /\ DOMAIN tx = Collections
    /\ \A c \in Collections : tx[c] = NoTx \/ Opened(c, db[c], tx[c])

\* A refund call that is past its first read has a cause.
Refunds ==
    /\ DOMAIN refunding = Refunders
    /\ \A r \in Refunders :
          /\ DOMAIN refunding[r] = {"at", "cause", "left"}
          /\ refunding[r].at \in {"idle", "read", "parts", "done"}
          /\ refunding[r].at \in {"read", "parts"} => refunding[r].cause \in Causes

\* How long a session has been left alone.
Aged ==
    /\ settled \subseteq Sessions /\ older \subseteq settled \X settled
    /\ met \subseteq settled /\ past \subseteq met /\ late \subseteq settled

Rest ==
    /\ books \in [Sessions \cup Collections -> Entry]
    /\ Aged
    /\ reported \subseteq Sessions /\ lost \subseteq Sessions
    /\ suspects \in [Sessions -> {"none", "authorized", "pending", "canceled"}]
    /\ stray \subseteq Collections

PayInv == Ledgers /\ Transactions /\ Refunds /\ Rest

Mirror(row) == [status |-> row.status, amount |-> row.amount, hold |-> row.hold,
                taken |-> row.paid, back |-> row.back]

\* The books of a driven provider show the row, or what the open transaction of the
\* session is about to make of it.
Agree ==
    \A s \in Sessions : Provider[s] # "page" /\ s \notin lost =>
        LET t == tx[Home[s]] IN
            /\ ~(t.open /\ t.ses = s) \/ Provider[s] = "inside" =>
                  books[s] = Mirror(db[Home[s]].ses[s])
            /\ t.open /\ t.ses = s =>
                  /\ t.entry = Mirror(t.db.ses[s])
                  /\ Provider[s] # "inside" => books[s] = t.entry

\* A refund under way for a cause holds the lock of the collection the cause is drawn
\* from, and its amount still fits the ceiling.
Fits(c) ==
    LET r == tx[c].by IN
        /\ refunding[r].at = "parts"
        /\ Drawn[refunding[r].cause] = c
        /\ tx[c].db.back - db[c].back \in Nat
        /\ given[refunding[r].cause] + (tx[c].db.back - db[c].back) <= Ceiling

Ceilings ==
    /\ given \in [Causes -> Nat]
    /\ \A k \in Causes : given[k] <= Ceiling
    /\ \A c \in Collections : tx[c].open /\ tx[c].by # NoOne => Fits(c)

-----------------------------------------------------------------------------
(* Writing a ledger.                                                       *)

\* The status the totals give is a status.
LEMMA StatusTyped == ASSUME NEW d PROVE CollectionStatusFor(d) \in CollectionStatuses
BY DEF CollectionStatusFor, CollectionStatuses

\* Writing the totals changes no session.
LEMMA TotalsWritten ==
    ASSUME NEW c \in Collections, NEW d \in LedgerOf(c), NEW h \in Int, NEW t \in Int, NEW b \in Int
    PROVE  LET n == WriteCollectionTotals(d, h, t, b) IN
              /\ n \in LedgerOf(c) /\ n.ses = d.ses /\ n.order = d.order
              /\ n.held = h /\ n.taken = t /\ n.back = b
<1> DEFINE m == [d EXCEPT !.held = h, !.taken = t, !.back = b]
<1>1. m \in LedgerOf(c) /\ m.ses = d.ses /\ m.order = d.order /\ m.held = h /\ m.taken = t /\ m.back = b
  BY DEF LedgerOf
<1> HIDE DEF m
<1>2. CollectionStatusFor(m) \in CollectionStatuses
  BY StatusTyped
<1> DEFINE n == [m EXCEPT !.status = CollectionStatusFor(m)]
<1>3. n \in LedgerOf(c) /\ n.ses = m.ses /\ n.order = m.order
      /\ n.held = m.held /\ n.taken = m.taken /\ n.back = m.back
  BY <1>1, <1>2 DEF LedgerOf
<1>4. n = WriteCollectionTotals(d, h, t, b)
  BY DEF WriteCollectionTotals, m
<1> HIDE DEF n
<1> QED
  BY <1>1, <1>3, <1>4

\* One row is rewritten, and the list of captures grows by it at most.
Rewrites(c, d, n, s) ==
    /\ n \in LedgerOf(c)
    /\ \A u \in SessionsOf(c) : u # s => n.ses[u] = d.ses[u]

\* What a transaction may write: the rules of Good survive.
LEMMA RowWritten ==
    ASSUME NEW c \in Collections, NEW d, Good(c, d), NEW s \in SessionsOf(c), NEW row \in Row,
           d.ses[s].status # "captured" \/ row.status = "captured",
           row.status = "pending" => row.hold = 0,
           NEW n, Rewrites(c, d, n, s), n.ses[s] = row,
           \/ n.order = d.order
           \/ n.order = Append(d.order, s) /\ row.status = "captured" /\ d.ses[s].status # "captured"
    PROVE  Good(c, n)
<1>1. d \in LedgerOf(c) /\ n \in LedgerOf(c) /\ d.order \in Seq(SessionsOf(c)) /\ Len(d.order) \in Nat
  BY DEF Good, Rewrites, LedgerOf
<1>2. \A i \in 1..Len(d.order) : /\ d.order[i] \in SessionsOf(c)
                                 /\ d.ses[d.order[i]].status = "captured"
                                 /\ n.ses[d.order[i]].status = "captured"
  BY <1>1 DEF Good, Rewrites
<1>3. \A u \in SessionsOf(c) : n.ses[u].status = "pending" => n.ses[u].hold = 0
  BY DEF Good, Rewrites
<1>4. \A i, j \in 1..Len(d.order) : d.order[i] = d.order[j] => i = j
  BY DEF Good
<1>5. CASE n.order = d.order
  BY <1>1, <1>2, <1>3, <1>4, <1>5 DEF Good
<1>6. CASE n.order = Append(d.order, s) /\ row.status = "captured" /\ d.ses[s].status # "captured"
  <2>1. /\ Len(n.order) = Len(d.order) + 1 /\ n.order[Len(d.order) + 1] = s
        /\ \A i \in 1..Len(d.order) : n.order[i] = d.order[i]
    BY <1>1, <1>6
  <2>2. \A i \in 1..Len(n.order) : i \in 1..Len(d.order) \/ i = Len(d.order) + 1
    BY <1>1, <2>1
  <2>3. \A i \in 1..Len(d.order) : d.order[i] # s
    BY <1>2, <1>6
  <2>4. \A i, j \in 1..Len(n.order) : n.order[i] = n.order[j] => i = j
    <3> SUFFICES ASSUME NEW i \in 1..Len(n.order), NEW j \in 1..Len(n.order), n.order[i] = n.order[j]
                 PROVE  i = j
      OBVIOUS
    <3>1. CASE i \in 1..Len(d.order) /\ j \in 1..Len(d.order)
      BY <1>4, <2>1, <3>1
    <3>2. CASE i = Len(d.order) + 1 \/ j = Len(d.order) + 1
      BY <2>1, <2>2, <2>3, <3>2
    <3> QED
      BY <2>2, <3>1, <3>2
  <2>5. \A i \in 1..Len(n.order) : n.ses[n.order[i]].status = "captured"
    BY <1>2, <1>6, <2>1, <2>2
  <2> QED
    BY <1>1, <1>3, <2>4, <2>5 DEF Good
<1> QED
  BY <1>5, <1>6

\* A row that is written whole, as CreateSession does.
LEMMA RowSet ==
    ASSUME NEW c \in Collections, NEW d \in LedgerOf(c), NEW s \in SessionsOf(c), NEW row \in Row
    PROVE  LET n == [d EXCEPT !.ses[s] = row] IN
              /\ Rewrites(c, d, n, s) /\ n.ses[s] = row /\ n.order = d.order
BY DEF LedgerOf, Rewrites

\* A row whose status and hold are written, as AuthorizePayment and CancelPayment do.
HeldRow(row, st, h) == [row EXCEPT !.status = st, !.hold = h]
Held(d, s, st, h) == [d EXCEPT !.ses[s].status = st, !.ses[s].hold = h]

\* A session's new status and hold rewrite its row alone.
LEMMA HoldSet ==
    ASSUME NEW c \in Collections, NEW d \in LedgerOf(c), NEW s \in SessionsOf(c),
           NEW st \in Statuses, NEW h \in Money
    PROVE  /\ HeldRow(d.ses[s], st, h) \in Row
           /\ HeldRow(d.ses[s], st, h).status = st /\ HeldRow(d.ses[s], st, h).hold = h
           /\ Rewrites(c, d, Held(d, s, st, h), s)
           /\ Held(d, s, st, h).ses[s] = HeldRow(d.ses[s], st, h)
           /\ Held(d, s, st, h).order = d.order
<1> DEFINE row == [d.ses[s] EXCEPT !.status = st, !.hold = h]
<1>1. d.ses \in [SessionsOf(c) -> Row] /\ d.ses[s] \in Row
  BY DEF LedgerOf
<1>2. row \in Row /\ row.status = st /\ row.hold = h
  BY <1>1 DEF Row
<1>3. [d EXCEPT !.ses[s].status = st, !.ses[s].hold = h] = [d EXCEPT !.ses[s] = row]
  BY <1>1 DEF LedgerOf
<1> HIDE DEF row
<1>4. LET n == [d EXCEPT !.ses[s] = row] IN
         /\ Rewrites(c, d, n, s) /\ n.ses[s] = row /\ n.order = d.order
  BY <1>2, RowSet
<1> QED
  BY <1>2, <1>3, <1>4 DEF row, HeldRow, Held

\* A row whose capture is written, as CapturePayment does.
CapturedRow(row, a) == [row EXCEPT !.status = "captured", !.hold = a, !.paid = a]
Captured(d, s, a) == [d EXCEPT !.ses[s].status = "captured", !.ses[s].hold = a,
                               !.ses[s].paid = a, !.order = Append(@, s)]

\* A capture rewrites its session's row and lists it.
LEMMA CaptureSet ==
    ASSUME NEW c \in Collections, NEW d \in LedgerOf(c), NEW s \in SessionsOf(c), NEW a \in Money
    PROVE  /\ CapturedRow(d.ses[s], a) \in Row /\ CapturedRow(d.ses[s], a).status = "captured"
           /\ Rewrites(c, d, Captured(d, s, a), s)
           /\ Captured(d, s, a).ses[s] = CapturedRow(d.ses[s], a)
           /\ Captured(d, s, a).order = Append(d.order, s)
<1> DEFINE row == [d.ses[s] EXCEPT !.status = "captured", !.hold = a, !.paid = a]
           m == [d EXCEPT !.ses[s] = row]
           o == Append(d.order, s)
<1>1. /\ d.ses \in [SessionsOf(c) -> Row] /\ d.ses[s] \in Row /\ d.order \in Seq(SessionsOf(c))
  BY DEF LedgerOf
<1>2. row \in Row /\ row.status = "captured"
  BY <1>1 DEF Row, Statuses
<1>3. o \in Seq(SessionsOf(c))
  BY <1>1
<1>4. Captured(d, s, a) = [m EXCEPT !.order = o]
  BY <1>1 DEF LedgerOf, Captured
<1> HIDE DEF row, o
<1>5. Rewrites(c, d, m, s) /\ m.ses[s] = row
  BY <1>2, RowSet
<1> HIDE DEF m
<1>6. /\ [m EXCEPT !.order = o] \in LedgerOf(c)
      /\ [m EXCEPT !.order = o].ses = m.ses /\ [m EXCEPT !.order = o].order = o
  BY <1>3, <1>5 DEF Rewrites, LedgerOf
<1>7. Rewrites(c, d, [m EXCEPT !.order = o], s) /\ [m EXCEPT !.order = o].ses[s] = row
  BY <1>5, <1>6 DEF Rewrites
<1> QED
  BY <1>2, <1>4, <1>6, <1>7 DEF row, o, CapturedRow

\* A row whose refunded amount is written.
BackRow(row, a) == [row EXCEPT !.back = @ + a]
Back(d, s, a) == [d EXCEPT !.ses[s].back = @ + a]

\* A refund adds to what its session's row gave back and to nothing else.
LEMMA BackSet ==
    ASSUME NEW c \in Collections, NEW d \in LedgerOf(c), NEW s \in SessionsOf(c), NEW a \in Nat,
           d.ses[s].back + a \in Money
    PROVE  /\ BackRow(d.ses[s], a) \in Row
           /\ BackRow(d.ses[s], a).status = d.ses[s].status /\ BackRow(d.ses[s], a).hold = d.ses[s].hold
           /\ Rewrites(c, d, Back(d, s, a), s)
           /\ Back(d, s, a).ses[s] = BackRow(d.ses[s], a)
           /\ Back(d, s, a).order = d.order
<1> DEFINE row == [d.ses[s] EXCEPT !.back = @ + a]
<1>1. d.ses \in [SessionsOf(c) -> Row] /\ d.ses[s] \in Row
  BY DEF LedgerOf
<1>2. row \in Row /\ row.status = d.ses[s].status /\ row.hold = d.ses[s].hold
  BY <1>1 DEF Row
<1>3. [d EXCEPT !.ses[s].back = @ + a] = [d EXCEPT !.ses[s] = row]
  BY <1>1 DEF LedgerOf
<1> HIDE DEF row
<1>4. LET n == [d EXCEPT !.ses[s] = row] IN
         /\ Rewrites(c, d, n, s) /\ n.ses[s] = row /\ n.order = d.order
  BY <1>2, RowSet
<1> QED
  BY <1>2, <1>3, <1>4 DEF row, BackRow, Back

-----------------------------------------------------------------------------
(* The calls.                                                              *)

\* What every call has in common: the ledger to be committed is a good one, differs in
\* the session's own row, and shows what a driven provider's books then do.
Sound(s, d, e) ==
    /\ Good(Home[s], d)
    /\ Rewrites(Home[s], db[Home[s]], d, s)
    /\ e \in Entry
    /\ Provider[s] # "page" /\ s \notin lost => e = Mirror(d.ses[s])

\* A session is one of its collection's, with a book at its provider.
LEMMA AtHome ==
    ASSUME NEW s \in Sessions
    PROVE  Home[s] \in Collections /\ s \in SessionsOf(Home[s]) /\ Book(s) \in Sessions \cup Collections
BY PaymentAssumption DEF SessionsOf, Book

\* A session's ledger and its entry are of their types.
LEMMA HomeTyped ==
    ASSUME PayInv, NEW s \in Sessions
    PROVE  /\ db[Home[s]] \in LedgerOf(Home[s]) /\ Good(Home[s], db[Home[s]])
           /\ db[Home[s]].ses[s] \in Row
           /\ db[Home[s]].held \in Int /\ db[Home[s]].taken \in Int /\ db[Home[s]].back \in Int
           /\ books[Book(s)] \in Entry /\ books[s] \in Entry
<1>1. Home[s] \in Collections /\ s \in SessionsOf(Home[s]) /\ Book(s) \in Sessions \cup Collections
  BY AtHome
<1>2. Good(Home[s], db[Home[s]]) /\ db[Home[s]] \in LedgerOf(Home[s])
  BY <1>1 DEF PayInv, Ledgers, Good
<1>3. /\ db[Home[s]].ses[s] \in Row
      /\ db[Home[s]].held \in Int /\ db[Home[s]].taken \in Int /\ db[Home[s]].back \in Int
  BY <1>1, <1>2 DEF LedgerOf
<1>4. books[Book(s)] \in Entry /\ books[s] \in Entry
  BY <1>1 DEF PayInv, Rest
<1> QED
  BY <1>2, <1>3, <1>4

\* With no transaction open, the books of a driven provider show the row.
LEMMA BooksShow ==
    ASSUME Agree, NEW s \in Sessions, ~tx[Home[s]].open, Provider[s] # "page", s \notin lost
    PROVE  LET row == db[Home[s]].ses[s] IN
              /\ books[s] = Mirror(row)
              /\ books[s].status = row.status /\ books[s].amount = row.amount /\ books[s].hold = row.hold
              /\ books[s].taken = row.paid /\ books[s].back = row.back
<1>1. books[s] = Mirror(db[Home[s]].ses[s])
  BY DEF Agree
<1> QED
  BY <1>1 DEF Mirror

\* Two entries with the same fields are the same.
LEMMA EntryIs ==
    ASSUME NEW e \in Entry, NEW row, e.status = row.status, e.amount = row.amount, e.hold = row.hold,
           e.taken = row.paid, e.back = row.back
    PROVE  e = Mirror(row)
BY DEF Entry, Mirror

\* The row that a call leaves, and what the provider then shows.
Leaves(s, n, row, e) ==
    /\ Rewrites(Home[s], db[Home[s]], n, s) /\ n.ses[s] = row
    /\ db[Home[s]].ses[s].status # "captured" \/ row.status = "captured"
    /\ row.status = "pending" => row.hold = 0
    /\ \/ n.order = db[Home[s]].order
       \/ /\ n.order = Append(db[Home[s]].order, s)
          /\ row.status = "captured" /\ db[Home[s]].ses[s].status # "captured"
    /\ Provider[s] # "page" /\ s \notin lost => e = Mirror(row)

\* Its totals written, the ledger is sound.
LEMMA SoundRow ==
    ASSUME PayInv, NEW s \in Sessions, NEW n, NEW row \in Row, NEW e \in Entry,
           NEW h \in Int, NEW t \in Int, NEW b \in Int,
           Leaves(s, n, row, e)
    PROVE  LET d == WriteCollectionTotals(n, h, t, b) IN Sound(s, d, e) /\ d.back = b
<1> DEFINE c == Home[s]
           d == WriteCollectionTotals(n, h, t, b)
<1>1. c \in Collections /\ s \in SessionsOf(c)
  BY AtHome
<1>2. n \in LedgerOf(c)
  BY DEF Leaves, Rewrites
<1>3. d \in LedgerOf(c) /\ d.ses = n.ses /\ d.order = n.order /\ d.back = b
  BY <1>1, <1>2, TotalsWritten
<1>4. Good(c, db[c])
  BY HomeTyped
<1> HIDE DEF d
<1>5. Rewrites(c, db[c], d, s) /\ d.ses[s] = row
  BY <1>3 DEF Leaves, Rewrites
<1>6. \/ d.order = db[c].order
      \/ d.order = Append(db[c].order, s) /\ row.status = "captured" /\ db[c].ses[s].status # "captured"
  BY <1>3 DEF Leaves
<1> HIDE DEF c
<1>7. Good(c, d)
  BY <1>1, <1>4, <1>5, <1>6, RowWritten DEF c, Leaves
<1> QED
  BY <1>3, <1>5, <1>7 DEF Sound, Leaves, c, d

\* A call that no refund call is behind.
CallsOut(s) == \E d, e : Call(s, d, e, NoOne) /\ Sound(s, d, e)

\* A call that rewrites its session's row and leaves the books matching is sound.
LEMMA RowCalls ==
    ASSUME PayInv, NEW s \in Sessions, NEW n, NEW row \in Row, NEW e \in Entry,
           NEW h \in Int, NEW t \in Int, NEW b \in Int,
           Call(s, WriteCollectionTotals(n, h, t, b), e, NoOne),
           Leaves(s, n, row, e)
    PROVE  CallsOut(s)
<1>1. Sound(s, WriteCollectionTotals(n, h, t, b), e)
  BY SoundRow
<1> QED
  BY <1>1 DEF CallsOut

\* Opening a session is a sound call.
LEMMA CreateIsSound ==
    ASSUME PayInv, Agree, NEW s \in Sessions, NEW a \in 1..Amount, CreateSession(s, a)
    PROVE  CallsOut(s) /\ UNCHANGED refunding
<1> DEFINE d == db[Home[s]]
           row == [NoRow EXCEPT !.status = "pending", !.amount = a]
           n == [d EXCEPT !.ses[s] = row]
           out == IF Provider[s] = "page" THEN PaytrCreateSession(books[Book(s)], a)
                                          ELSE ManualCreateSession(books[s], a)
<1>1. Home[s] \in Collections /\ s \in SessionsOf(Home[s])
  BY AtHome
<1>2. PICK e \in out : Call(s, WriteCollectionTotals(n, d.held, d.taken, d.back), e, NoOne)
  BY DEF CreateSession
<1>3. ~tx[Home[s]].open
  BY <1>2 DEF Call
<1>4. d.ses[s].status = "none" /\ UNCHANGED refunding
  BY DEF CreateSession
<1>5. a \in Money /\ 0 \in Money
  BY PaymentAssumption DEF Money
<1>6. row \in Row /\ row.status = "pending" /\ row.hold = 0
  BY <1>5 DEF NoRow, Row, Statuses
<1>7. e \in Entry
  BY <1>5, HomeTyped DEF PaytrCreateSession, ManualCreateSession, NoEntry, Entry, Statuses
<1>8. Provider[s] # "page" /\ s \notin lost => e = Mirror(row)
  <2> SUFFICES ASSUME Provider[s] # "page", s \notin lost PROVE e = Mirror(row)
    OBVIOUS
  <2>1. books[s].status = "none"
    BY <1>3, <1>4, BooksShow
  <2> QED
    BY <2>1 DEF ManualCreateSession, NoEntry, NoRow, Mirror
<1> HIDE DEF row
<1>a. d \in LedgerOf(Home[s])
  BY HomeTyped
<1>9. Rewrites(Home[s], d, n, s) /\ n.ses[s] = row /\ n.order = d.order
  BY <1>1, <1>6, <1>a, RowSet
<1> HIDE DEF n
<1>10. d.held \in Int /\ d.taken \in Int /\ d.back \in Int
  BY HomeTyped
<1>b. Leaves(s, n, row, e)
  BY <1>4, <1>6, <1>8, <1>9 DEF Leaves
<1>11. CallsOut(s)
  BY <1>2, <1>6, <1>7, <1>10, <1>b, RowCalls
<1> QED
  BY <1>4, <1>11

\* A session that is not captured gets a new status and hold.
LEMMA HoldCalls ==
    ASSUME PayInv, NEW s \in Sessions, NEW st \in {"authorized", "failed", "canceled"},
           NEW h \in Money, NEW e \in Entry, NEW x \in Int,
           db[Home[s]].ses[s].status # "captured",
           Call(s, WriteCollectionTotals(Held(db[Home[s]], s, st, h), x, db[Home[s]].taken, db[Home[s]].back),
                e, NoOne),
           Provider[s] # "page" /\ s \notin lost => e = Mirror(HeldRow(db[Home[s]].ses[s], st, h))
    PROVE  CallsOut(s)
<1> DEFINE d == db[Home[s]]
           n == Held(d, s, st, h)
           row == HeldRow(d.ses[s], st, h)
<1>1. Home[s] \in Collections /\ s \in SessionsOf(Home[s])
  BY AtHome
<1>2. d \in LedgerOf(Home[s]) /\ d.taken \in Int /\ d.back \in Int
  BY HomeTyped
<1>3. st \in Statuses
  BY DEF Statuses
<1>4. /\ row \in Row /\ row.status = st /\ Rewrites(Home[s], d, n, s) /\ n.ses[s] = row
      /\ n.order = d.order
  BY <1>1, <1>2, <1>3, HoldSet
<1>5. row.status # "pending"
  BY <1>4
<1>6. /\ Call(s, WriteCollectionTotals(n, x, d.taken, d.back), e, NoOne)
      /\ Provider[s] # "page" /\ s \notin lost => e = Mirror(row)
  OBVIOUS
<1> HIDE DEF n, row
<1>7. Leaves(s, n, row, e)
  BY <1>4, <1>5, <1>6 DEF Leaves
<1> QED
  BY <1>2, <1>4, <1>6, <1>7, RowCalls

\* The entry that a driven provider's call leaves shows the row that is written.
LEMMA HeldShows ==
    ASSUME PayInv, Agree, NEW s \in Sessions, ~tx[Home[s]].open, Provider[s] # "page", s \notin lost,
           NEW e \in Entry, NEW st, NEW h, e.status = st, e.hold = h,
           e.amount = books[s].amount, e.taken = books[s].taken, e.back = books[s].back
    PROVE  e = Mirror(HeldRow(db[Home[s]].ses[s], st, h))
<1> DEFINE old == db[Home[s]].ses[s]
           row == HeldRow(old, st, h)
<1>1. old \in Row
  BY HomeTyped
<1>2. row.status = st /\ row.hold = h /\ row.amount = old.amount /\ row.paid = old.paid /\ row.back = old.back
  BY <1>1 DEF HeldRow, Row
<1>3. e.amount = old.amount /\ e.taken = old.paid /\ e.back = old.back
  BY BooksShow
<1> HIDE DEF row
<1>4. e.status = row.status /\ e.hold = row.hold /\ e.amount = row.amount /\ e.taken = row.paid /\ e.back = row.back
  BY <1>2, <1>3
<1>5. e = Mirror(row)
  BY <1>4, EntryIs
<1> QED
  BY <1>5 DEF row

\* Both outcomes of an authorization: a hold, and a refusal.
LEMMA AuthorizeIsSound ==
    ASSUME PayInv, Agree, NEW s \in Sessions, AuthorizePayment(s)
    PROVE  CallsOut(s) /\ UNCHANGED refunding
<1> DEFINE d == db[Home[s]]
<1>1. Home[s] \in Collections /\ s \in SessionsOf(Home[s])
  BY AtHome
<1>2. d.held \in Int /\ d.ses[s] \in Row
  BY HomeTyped
<1>3. d.ses[s].status = "pending" /\ UNCHANGED refunding
  BY DEF AuthorizePayment
<1>4. d.ses[s].hold = 0 /\ d.ses[s].status # "captured"
  BY <1>1, <1>3, HomeTyped DEF Good
<1>6. CASE Provider[s] = "page"
  <2>1. PICK e \in PaytrAuthorize(books[Book(s)]) :
           /\ e.taken <= d.ses[s].amount
           /\ Call(s, WriteCollectionTotals(Held(d, s, "authorized", e.taken), d.held + e.taken, d.taken, d.back),
                   e, NoOne)
    BY <1>6 DEF AuthorizePayment, Held
  <2>2. e \in Entry
    BY HomeTyped DEF PaytrAuthorize
  <2>3. e.taken \in Money
    BY <2>2 DEF Entry
  <2>4. d.held + e.taken \in Int
    BY <1>2, <2>3 DEF Money
  <2>5. /\ Call(s, WriteCollectionTotals(Held(d, s, "authorized", e.taken), d.held + e.taken, d.taken, d.back),
                e, NoOne)
        /\ d.ses[s].status # "captured"
    BY <1>4, <2>1
  <2> QED
    BY <1>3, <1>6, <2>2, <2>3, <2>4, <2>5, HoldCalls
<1>7. CASE Provider[s] # "page"
  <2>1. PICK e \in ManualAuthorize(books[s]) :
            \/ /\ e.status = "authorized" /\ e.hold <= d.ses[s].amount
               /\ Call(s, WriteCollectionTotals(Held(d, s, "authorized", e.hold), d.held + e.hold, d.taken, d.back),
                       e, NoOne)
            \/ /\ e.status = "failed"
               /\ Call(s, WriteCollectionTotals(Held(d, s, "failed", 0), d.held, d.taken, d.back), e, NoOne)
    BY <1>7 DEF AuthorizePayment, Held
  <2>2. books[s] \in Entry
    BY HomeTyped
  <2>3. ~tx[Home[s]].open
    BY <2>1 DEF Call
  <2>4. e \in Entry
    <3>1. \A h \in 1..books[s].amount : h \in Money
      BY <2>2, PaymentAssumption DEF Entry, Money
    <3> QED
      BY <2>2, <3>1 DEF ManualAuthorize, Entry, Statuses
  <2>5. e.hold \in Money /\ 0 \in Money
    BY <2>4, PaymentAssumption DEF Entry, Money
  <2>6. s \notin lost => books[s].status = "pending" /\ books[s].hold = 0
    BY <1>3, <1>4, <1>7, <2>3, BooksShow
  <2>7. /\ e.amount = books[s].amount /\ e.taken = books[s].taken /\ e.back = books[s].back
        /\ s \notin lost /\ e.status = "failed" => e.hold = 0
    BY <2>2, <2>6 DEF ManualAuthorize, Entry
  <2>8. CASE /\ e.status = "authorized" /\ e.hold <= d.ses[s].amount
             /\ Call(s, WriteCollectionTotals(Held(d, s, "authorized", e.hold), d.held + e.hold, d.taken, d.back),
                     e, NoOne)
    <3>1. Provider[s] # "page" /\ s \notin lost => e = Mirror(HeldRow(d.ses[s], "authorized", e.hold))
      BY <2>3, <2>4, <2>7, <2>8, HeldShows
    <3>2. /\ Call(s, WriteCollectionTotals(Held(d, s, "authorized", e.hold), d.held + e.hold, d.taken, d.back),
                  e, NoOne)
          /\ d.ses[s].status # "captured"
      BY <1>4, <2>8
    <3>3. d.held + e.hold \in Int
      BY <1>2, <2>5 DEF Money
    <3> QED
      BY <1>3, <2>4, <2>5, <3>1, <3>2, <3>3, HoldCalls
  <2>9. CASE /\ e.status = "failed"
             /\ Call(s, WriteCollectionTotals(Held(d, s, "failed", 0), d.held, d.taken, d.back), e, NoOne)
    <3>1. Provider[s] # "page" /\ s \notin lost => e = Mirror(HeldRow(d.ses[s], "failed", 0))
      BY <2>3, <2>4, <2>7, <2>9, HeldShows
    <3>2. /\ Call(s, WriteCollectionTotals(Held(d, s, "failed", 0), d.held, d.taken, d.back), e, NoOne)
          /\ d.ses[s].status # "captured" /\ d.held \in Int /\ 0 \in Money
      BY <1>2, <1>4, <2>5, <2>9
    <3> QED
      BY <1>3, <2>4, <3>1, <3>2, HoldCalls
  <2> QED
    BY <2>1, <2>8, <2>9
<1> QED
  BY <1>3, <1>6, <1>7

\* The hold is given up.
LEMMA CancelIsSound ==
    ASSUME PayInv, Agree, NEW s \in Sessions, CancelPayment(s)
    PROVE  CallsOut(s) /\ UNCHANGED refunding
<1> DEFINE d == db[Home[s]]
           out == IF Provider[s] = "page" THEN PaytrCancel(books[Book(s)]) ELSE ManualCancel(books[s])
<1>1. PICK e \in out :
         Call(s, WriteCollectionTotals(Held(d, s, "canceled", 0), d.held - d.ses[s].hold, d.taken, d.back),
              e, NoOne)
  BY DEF CancelPayment, Held
<1>2. d.ses[s].status # "captured" /\ UNCHANGED refunding
  BY DEF CancelPayment
<1>3. 0 \in Money /\ d.held - d.ses[s].hold \in Int
  <2>1. d.held \in Int /\ d.ses[s] \in Row
    BY HomeTyped
  <2> QED
    BY <2>1, PaymentAssumption DEF Row, Money
<1>4. books[s] \in Entry /\ books[Book(s)] \in Entry
  BY HomeTyped
<1>5. e \in Entry
  BY <1>3, <1>4 DEF PaytrCancel, ManualCancel, Entry, Statuses
<1>6. Provider[s] # "page" => /\ e.status = "canceled" /\ e.hold = 0
                              /\ e.amount = books[s].amount /\ e.taken = books[s].taken /\ e.back = books[s].back
  BY <1>4 DEF ManualCancel, Entry
<1>7. ~tx[Home[s]].open
  BY <1>1 DEF Call
<1>8. Provider[s] # "page" /\ s \notin lost => e = Mirror(HeldRow(d.ses[s], "canceled", 0))
  BY <1>5, <1>6, <1>7, HeldShows
<1>9. CallsOut(s)
  BY <1>1, <1>2, <1>3, <1>5, <1>8, HoldCalls
<1> QED
  BY <1>2, <1>9

\* The hold closes and the capture is listed.
LEMMA CaptureIsSound ==
    ASSUME PayInv, Agree, NEW s \in Sessions, NEW a \in 1..Amount, CapturePayment(s, a)
    PROVE  CallsOut(s) /\ UNCHANGED refunding
<1> DEFINE d == db[Home[s]]
           out == IF Provider[s] = "page" THEN PaytrCapture(books[Book(s)], a) ELSE ManualCapture(books[s], a)
           n == Captured(d, s, a)
           row == CapturedRow(d.ses[s], a)
<1>1. PICK e \in out :
         Call(s, WriteCollectionTotals(n, d.held - d.ses[s].hold, d.taken + a, d.back), e, NoOne)
  BY DEF CapturePayment, Captured
<1>2. d.ses[s].status = "authorized" /\ UNCHANGED refunding
  BY DEF CapturePayment
<1>3. Home[s] \in Collections /\ s \in SessionsOf(Home[s])
  BY AtHome
<1>4. d \in LedgerOf(Home[s]) /\ d.held \in Int /\ d.taken \in Int /\ d.back \in Int /\ d.ses[s] \in Row
      /\ books[s] \in Entry /\ books[Book(s)] \in Entry
  BY HomeTyped
<1>5. a \in Money /\ d.held - d.ses[s].hold \in Int /\ d.taken + a \in Int
  BY <1>4, PaymentAssumption DEF Row, Money
<1>6. e \in Entry
  BY <1>4, <1>5 DEF PaytrCapture, ManualCapture, Entry, Statuses
<1>7. ~tx[Home[s]].open
  BY <1>1 DEF Call
<1>8. Provider[s] # "page" /\ s \notin lost => e = Mirror(row)
  <2> SUFFICES ASSUME Provider[s] # "page", s \notin lost PROVE e = Mirror(row)
    OBVIOUS
  <2>1. /\ books[s].status = "authorized" /\ books[s].amount = d.ses[s].amount
        /\ books[s].back = d.ses[s].back
    BY <1>2, <1>7, BooksShow
  <2>2. /\ e.status = "captured" /\ e.hold = a /\ e.taken = a
        /\ e.amount = books[s].amount /\ e.back = books[s].back
    BY <1>4, <2>1 DEF ManualCapture, Entry
  <2>3. /\ row.status = "captured" /\ row.hold = a /\ row.paid = a
        /\ row.amount = d.ses[s].amount /\ row.back = d.ses[s].back
    BY <1>4 DEF CapturedRow, Row
  <2> HIDE DEF row
  <2> QED
    BY <1>6, <2>1, <2>2, <2>3, EntryIs
<1>9. /\ row \in Row /\ row.status = "captured" /\ Rewrites(Home[s], d, n, s) /\ n.ses[s] = row
      /\ n.order = Append(d.order, s)
  BY <1>3, <1>4, <1>5, CaptureSet
<1> HIDE DEF n, row
<1>a. Leaves(s, n, row, e)
  BY <1>2, <1>8, <1>9 DEF Leaves
<1>10. CallsOut(s)
  BY <1>1, <1>4, <1>5, <1>6, <1>9, <1>a, RowCalls
<1> QED
  BY <1>2, <1>10

\* A refund of a part of a capture, whoever asks for it.
LEMMA RefundIsSound ==
    ASSUME PayInv, Agree, NEW s \in Sessions, NEW a \in Nat, NEW k, MayRefund(s, a, k),
           ~tx[Home[s]].open, NEW e \in RefundOutcomes(s, a)
    PROVE  /\ Sound(s, RefundedBy(db[Home[s]], s, a), e)
           /\ RefundedBy(db[Home[s]], s, a).back = db[Home[s]].back + a
<1> DEFINE d == db[Home[s]]
           n == Back(d, s, a)
           row == BackRow(d.ses[s], a)
<1>1. Home[s] \in Collections /\ s \in SessionsOf(Home[s])
  BY AtHome
<1>2. /\ d \in LedgerOf(Home[s]) /\ d.held \in Int /\ d.taken \in Int /\ d.back \in Int /\ d.ses[s] \in Row
      /\ books[s] \in Entry /\ books[Book(s)] \in Entry
  BY HomeTyped
<1>3. d.ses[s].back + a \in Money /\ d.back + a \in Int
  BY <1>2, PaymentAssumption DEF MayRefund, Refundable, Row, Money
<1>4. e \in Entry
  <2>1. ASSUME NEW f \in Entry, a <= f.taken - f.back PROVE f.back + a \in Money
    BY <2>1, PaymentAssumption DEF Entry, Money
  <2>2. ASSUME NEW f \in Entry, a <= f.taken - f.back PROVE [f EXCEPT !.back = @ + a] \in Entry
    BY <2>1, <2>2 DEF Entry
  <2> QED
    BY <1>2, <2>2 DEF RefundOutcomes, PaytrRefund, ManualRefund
<1>5. /\ row \in Row /\ row.status = d.ses[s].status /\ row.hold = d.ses[s].hold
      /\ Rewrites(Home[s], d, n, s) /\ n.ses[s] = row /\ n.order = d.order
  BY <1>1, <1>2, <1>3, BackSet
<1>6. row.status = "pending" => row.hold = 0
  BY <1>1, <1>5, HomeTyped DEF Good
<1>7. Provider[s] # "page" /\ s \notin lost => e = Mirror(row)
  <2> SUFFICES ASSUME Provider[s] # "page", s \notin lost PROVE e = Mirror(row)
    OBVIOUS
  <2>1. /\ books[s].status = d.ses[s].status /\ books[s].amount = d.ses[s].amount /\ books[s].hold = d.ses[s].hold
        /\ books[s].taken = d.ses[s].paid /\ books[s].back = d.ses[s].back
    BY BooksShow
  <2>2. /\ e.status = books[s].status /\ e.amount = books[s].amount /\ e.hold = books[s].hold
        /\ e.taken = books[s].taken /\ e.back = books[s].back + a
    BY <1>2 DEF RefundOutcomes, ManualRefund, Entry
  <2>3. /\ row.amount = d.ses[s].amount /\ row.paid = d.ses[s].paid /\ row.back = d.ses[s].back + a
    BY <1>2 DEF BackRow, Row
  <2> HIDE DEF row
  <2> QED
    BY <1>4, <1>5, <2>1, <2>2, <2>3, EntryIs
<1>8. RefundedBy(d, s, a) = WriteCollectionTotals(n, d.held, d.taken, d.back + a)
  BY DEF RefundedBy, Back
<1> HIDE DEF n, row
<1>a. d.ses[s].status # "captured" \/ row.status = "captured"
  BY <1>5
<1>b. d.held \in Int /\ d.taken \in Int /\ d.back + a \in Int /\ row \in Row
      /\ Rewrites(Home[s], d, n, s) /\ n.ses[s] = row /\ n.order = d.order
  BY <1>2, <1>3, <1>5
<1>c. Leaves(s, n, row, e)
  BY <1>6, <1>7, <1>a, <1>b DEF Leaves
<1> DEFINE b == d.back + a
<1> HIDE DEF b
<1>9. Sound(s, WriteCollectionTotals(n, d.held, d.taken, d.back + a), e)
      /\ WriteCollectionTotals(n, d.held, d.taken, d.back + a).back = d.back + a
  <2>1. Sound(s, WriteCollectionTotals(n, d.held, d.taken, b), e)
        /\ WriteCollectionTotals(n, d.held, d.taken, b).back = b
    <3>1. b \in Int
      BY <1>3 DEF b
    <3> QED
      BY <1>4, <1>b, <1>c, <3>1, SoundRow
  <2> QED
    BY <2>1 DEF b
<1> QED
  BY <1>8, <1>9

-----------------------------------------------------------------------------
(* What a call keeps.                                                      *)

\* A sound call keeps the ledgers in order.
LEMMA CallKeeps ==
    ASSUME PayInv, NEW s \in Sessions, NEW d, NEW e, NEW r \in Refunders \cup {NoOne},
           Call(s, d, e, r), Sound(s, d, e), UNCHANGED refunding
    PROVE  PayInv'
<1> DEFINE c == Home[s]
           t == [open |-> TRUE, ses |-> s, db |-> d, entry |-> e, by |-> r]
<1>1. c \in Collections /\ s \in SessionsOf(c) /\ Book(s) \in Sessions \cup Collections
  BY AtHome
<1>2. tx' = [tx EXCEPT ![c] = t] /\ UNCHANGED <<db, age, pass, stray, lost, refunding>>
  BY DEF Call
<1>3. Ledgers' /\ Refunds'
  BY <1>2 DEF PayInv, Ledgers, Refunds
<1>4. Transactions'
  <2>1. DOMAIN tx' = Collections /\ tx'[c] = t /\ \A x \in Collections : x # c => tx'[x] = tx[x]
    BY <1>1, <1>2 DEF PayInv, Transactions
  <2>2. /\ t.open /\ t.ses = s /\ t.db = d /\ t.entry = e /\ t.by = r
    OBVIOUS
  <2> HIDE DEF t
  <2>3. Opened(c, db[c], t)
    <3>1. \A u \in SessionsOf(c) : u # s => d.ses[u] = db[c].ses[u]
      BY DEF Sound, Rewrites
    <3> QED
      BY <1>1, <2>2, <3>1 DEF Opened, Sound
  <2>4. \A x \in Collections : tx'[x] = NoTx \/ Opened(x, db[x], tx'[x])
    BY <2>1, <2>3 DEF PayInv, Transactions
  <2> QED
    BY <1>2, <2>1, <2>4 DEF Transactions
<1>5. Rest'
  <2>1. books' \in [Sessions \cup Collections -> Entry]
    BY <1>1 DEF Call, Sound, PayInv, Rest
  <2> QED
    BY <1>2, <2>1 DEF PayInv, Rest, Aged, age, pass
<1> QED
  BY <1>3, <1>4, <1>5 DEF PayInv

\* A call touches the books of its own session, or those of the page.
LEMMA CallBooks ==
    ASSUME PayInv, NEW s \in Sessions, NEW d, NEW e, NEW r, Call(s, d, e, r), NEW u \in Sessions
    PROVE  /\ u # s => books'[u] = books[u]
           /\ Provider[s] = "outside" => books'[s] = e
           /\ Provider[s] = "inside" => books' = books
<1>1. Home[s] \in Collections /\ Home[s] # u
  BY AtHome, PaymentAssumption
<1>2. books \in [Sessions \cup Collections -> Entry]
  BY DEF PayInv, Rest
<1>3. books' = books \/ books' = [books EXCEPT ![Book(s)] = e]
  BY DEF Call
<1>4. u # s => Book(s) # u
  BY <1>1 DEF Book
<1>5. Provider[s] = "outside" => Book(s) = s /\ books' = [books EXCEPT ![s] = e]
  BY DEF Call, Book
<1>6. Provider[s] = "inside" => books' = books
  BY DEF Call
<1> QED
  BY <1>2, <1>3, <1>4, <1>5, <1>6

\* A sound call keeps rows and books together across its commit.
LEMMA CallAgrees ==
    ASSUME PayInv, Agree, NEW s \in Sessions, NEW d, NEW e, NEW r, Call(s, d, e, r), Sound(s, d, e)
    PROVE  Agree'
<1> DEFINE c == Home[s]
<1>1. c \in Collections
  BY AtHome
<1>2. /\ tx'[c].open /\ tx'[c].ses = s /\ tx'[c].db = d /\ tx'[c].entry = e /\ ~tx[c].open
      /\ \A x \in Collections : x # c => tx'[x] = tx[x]
      /\ UNCHANGED <<db, lost>>
  BY <1>1 DEF Call, PayInv, Transactions
<1> SUFFICES ASSUME NEW u \in Sessions, Provider[u] # "page", u \notin lost
             PROVE  LET t == tx'[Home[u]] IN
                       /\ ~(t.open /\ t.ses = u) \/ Provider[u] = "inside" =>
                             books'[u] = Mirror(db[Home[u]].ses[u])
                       /\ t.open /\ t.ses = u =>
                             /\ t.entry = Mirror(t.db.ses[u])
                             /\ Provider[u] # "inside" => books'[u] = t.entry
  BY <1>2 DEF Agree
<1>3. Home[u] \in Collections
  BY AtHome
<1>4. CASE u = s
  <2>1. e = Mirror(d.ses[s])
    BY <1>4 DEF Sound
  <2>2. Provider[u] # "inside" => books'[s] = e
    BY <1>4, CallBooks, PaymentAssumption
  <2>3. Provider[u] = "inside" => books'[s] = Mirror(db[c].ses[s])
    <3>1. books[s] = Mirror(db[c].ses[s])
      BY <1>2, <1>4, BooksShow
    <3>2. Provider[s] = "inside" => books' = books
      BY CallBooks
    <3> QED
      BY <1>4, <3>1, <3>2
  <2> QED
    BY <1>2, <1>4, <2>1, <2>2, <2>3
<1>5. CASE u # s /\ Home[u] = c
  <2>1. books[u] = Mirror(db[Home[u]].ses[u])
    BY <1>2, <1>5, BooksShow
  <2>2. books'[u] = books[u]
    BY <1>5, CallBooks
  <2> QED
    BY <1>2, <1>5, <2>1, <2>2
<1>6. CASE Home[u] # c
  <2>1. tx'[Home[u]] = tx[Home[u]] /\ u # s
    BY <1>2, <1>3, <1>6
  <2>2. books'[u] = books[u]
    BY <2>1, CallBooks
  <2> QED
    BY <2>1, <2>2 DEF Agree
<1> QED
  BY <1>4, <1>5, <1>6

\* A call that is no refund for a cause, and one that is, leave the ceilings.
LEMMA CallFits ==
    ASSUME PayInv, Ceilings, NEW s \in Sessions, NEW d, NEW e, NEW r, Call(s, d, e, r), UNCHANGED refunding,
           r # NoOne => /\ refunding[r].at = "parts" /\ Drawn[refunding[r].cause] = Home[s]
                        /\ d.back - db[Home[s]].back \in Nat
                        /\ given[refunding[r].cause] + (d.back - db[Home[s]].back) <= Ceiling
    PROVE  Ceilings'
<1>1. Home[s] \in Collections
  BY AtHome
<1>2. /\ tx'[Home[s]].open /\ tx'[Home[s]].by = r /\ tx'[Home[s]].db = d
      /\ \A x \in Collections : x # Home[s] => tx'[x] = tx[x]
      /\ UNCHANGED <<db, given, refunding>>
  BY <1>1 DEF Call, PayInv, Transactions
<1>3. ASSUME NEW x \in Collections, tx'[x].open, tx'[x].by # NoOne PROVE Fits(x)'
  <2>1. CASE x = Home[s]
    BY <1>2, <1>3, <2>1 DEF Fits
  <2>2. CASE x # Home[s]
    BY <1>2, <1>3, <2>2 DEF Fits, Ceilings
  <2> QED
    BY <2>1, <2>2
<1> QED
  BY <1>2, <1>3 DEF Ceilings

-----------------------------------------------------------------------------
(* The end of a transaction.                                               *)

\* The refund call behind it moves on, and stays a call for its cause.
LEMMA RefundMoves ==
    ASSUME Refunds, NEW r \in Refunders \cup {NoOne}, Advance(r) \/ Stop(r)
    PROVE  /\ Refunds'
           /\ \A x \in Refunders : /\ refunding'[x].cause = refunding[x].cause
                                   /\ x # r => refunding'[x] = refunding[x]
<1>1. CASE r = NoOne
  BY <1>1 DEF Advance, Stop, Refunds
<1>2. CASE r # NoOne
  <2>1. r \in Refunders /\ DOMAIN refunding = Refunders /\ DOMAIN refunding[r] = {"at", "cause", "left"}
    BY <1>2 DEF Refunds
  <2>2. PICK at, left : /\ refunding' = [refunding EXCEPT ![r].left = left, ![r].at = at]
                        /\ at = refunding[r].at \/ at = "done"
    <3>1. CASE Advance(r)
      <4> DEFINE y == IF Len(refunding[r].left) > 1 THEN refunding[r].at ELSE "done"
                 z == Tail(refunding[r].left)
      <4>1. refunding' = [refunding EXCEPT ![r].left = z, ![r].at = y] /\ (y = refunding[r].at \/ y = "done")
        BY <1>2, <3>1 DEF Advance
      <4> HIDE DEF y, z
      <4> QED
        BY <4>1
    <3>2. CASE Stop(r)
      <4>1. refunding' = [refunding EXCEPT ![r].at = "done", ![r].left = <<>>]
        BY <1>2, <3>2 DEF Stop
      <4>2. refunding' = [refunding EXCEPT ![r].left = <<>>, ![r].at = "done"]
        BY <2>1, <4>1
      <4> QED
        BY <4>2
    <3> QED
      BY <3>1, <3>2
  <2>3. /\ DOMAIN refunding' = Refunders /\ DOMAIN refunding'[r] = {"at", "cause", "left"}
        /\ refunding'[r].at = at /\ refunding'[r].cause = refunding[r].cause
        /\ \A x \in Refunders : x # r => refunding'[x] = refunding[x]
    BY <2>1, <2>2
  <2>4. Refunds'
    BY <2>2, <2>3 DEF Refunds
  <2> QED
    BY <2>3, <2>4
<1> QED
  BY <1>1, <1>2

\* What an open transaction is about to write.
LEMMA OpenIs ==
    ASSUME PayInv, NEW c \in Collections, tx[c].open
    PROVE  Opened(c, db[c], tx[c]) /\ tx[c].by \in Refunders \cup {NoOne}
<1>1. ~NoTx.open
  BY DEF NoTx
<1> QED
  BY <1>1 DEF PayInv, Transactions, Opened

\* The transaction of c ends, and the others stay.
LEMMA EndKeeps ==
    ASSUME PayInv, NEW c \in Collections, tx' = [tx EXCEPT ![c] = NoTx]
    PROVE  /\ DOMAIN tx' = Collections /\ ~tx'[c].open /\ tx'[c] = NoTx
           /\ \A x \in Collections : x # c => tx'[x] = tx[x]
BY DEF PayInv, Transactions, NoTx

\* A commit keeps the ledgers in order.
LEMMA CommitKeeps ==
    ASSUME PayInv, NEW c \in Collections, Commit(c)
    PROVE  PayInv'
<1>1. /\ tx[c].open /\ Checks(tx[c].db) /\ db' = [db EXCEPT ![c] = tx[c].db]
      /\ tx' = [tx EXCEPT ![c] = NoTx] /\ Advance(tx[c].by)
      /\ Written(tx[c].ses) /\ UNCHANGED <<suspects, reported, stray, lost>>
  BY DEF Commit, pass
<1>2. Opened(c, db[c], tx[c]) /\ tx[c].by \in Refunders \cup {NoOne}
  BY <1>1, OpenIs
<1>3. Refunds'
  BY <1>1, <1>2, RefundMoves DEF PayInv
<1>4. /\ DOMAIN db' = Collections /\ db'[c] = tx[c].db
      /\ \A x \in Collections : x # c => db'[x] = db[x]
  BY <1>1 DEF PayInv, Ledgers
<1>5. Ledgers'
  <2>1. Good(c, tx[c].db)
    BY <1>2 DEF Opened
  <2>2. tx[c].db.held \in Money /\ tx[c].db.taken \in Money /\ tx[c].db.back \in Money
    <3>1. tx[c].db.back \in Int
      BY <2>1 DEF Good, LedgerOf
    <3> QED
      BY <1>1, <3>1, PaymentAssumption DEF Checks, Money
  <2> QED
    BY <1>4, <2>1, <2>2 DEF PayInv, Ledgers
<1>6. Transactions'
  BY <1>1, <1>4, EndKeeps DEF PayInv, Transactions
<1>7. Rest'
  <2>1. books' \in [Sessions \cup Collections -> Entry]
    <3>1. tx[c].ses \in Sessions /\ tx[c].entry \in Entry
      BY <1>2 DEF Opened, SessionsOf
    <3>2. books' = books \/ books' = [books EXCEPT ![tx[c].ses] = tx[c].entry]
      BY DEF Commit
    <3> QED
      BY <3>1, <3>2 DEF PayInv, Rest
  <2>2. Aged'
    <3>1. Aged
      BY DEF PayInv, Rest
    <3>2. \A p \in older' : p \in settled' \X settled'
      BY <1>1, <3>1 DEF Written, Aged
    <3> QED
      BY <1>1, <3>1, <3>2 DEF Written, Aged
  <2> QED
    BY <1>1, <2>1, <2>2 DEF PayInv, Rest
<1> QED
  BY <1>3, <1>5, <1>6, <1>7 DEF PayInv

\* What is committed is what the books show.
LEMMA CommitAgrees ==
    ASSUME PayInv, Agree, NEW c \in Collections, Commit(c)
    PROVE  Agree'
<1>1. /\ tx[c].open /\ db' = [db EXCEPT ![c] = tx[c].db] /\ tx' = [tx EXCEPT ![c] = NoTx] /\ UNCHANGED lost
      /\ books' = IF Provider[tx[c].ses] = "inside" THEN [books EXCEPT ![tx[c].ses] = tx[c].entry] ELSE books
  BY DEF Commit
<1>2. Opened(c, db[c], tx[c])
  BY <1>1, OpenIs
<1>3. /\ db'[c] = tx[c].db /\ \A x \in Collections : x # c => db'[x] = db[x]
  BY <1>1 DEF PayInv, Ledgers
<1>4. ~tx'[c].open /\ \A x \in Collections : x # c => tx'[x] = tx[x]
  BY <1>1, EndKeeps
<1> SUFFICES ASSUME NEW u \in Sessions, Provider[u] # "page", u \notin lost
             PROVE  LET t == tx'[Home[u]] IN
                       /\ ~(t.open /\ t.ses = u) \/ Provider[u] = "inside" =>
                             books'[u] = Mirror(db'[Home[u]].ses[u])
                       /\ t.open /\ t.ses = u =>
                             /\ t.entry = Mirror(t.db.ses[u])
                             /\ Provider[u] # "inside" => books'[u] = t.entry
  BY <1>1 DEF Agree
<1>5. Home[u] \in Collections /\ u \in SessionsOf(Home[u]) /\ u \in Sessions \cup Collections
  BY AtHome
<1>6. tx[c].ses \in SessionsOf(c) /\ tx[c].ses \in Sessions /\ Home[tx[c].ses] = c
  BY <1>2 DEF Opened, SessionsOf
<1>7. books \in [Sessions \cup Collections -> Entry]
  BY DEF PayInv, Rest
<1>8. u # tx[c].ses => books'[u] = books[u]
  BY <1>1, <1>5, <1>7
<1>9. CASE u = tx[c].ses
  <2>1. Home[u] = c
    BY <1>6, <1>9
  <2>2. tx[c].entry = Mirror(tx[c].db.ses[u]) /\ (Provider[u] # "inside" => books[u] = tx[c].entry)
    BY <1>1, <1>9, <2>1 DEF Agree
  <2>3. books'[u] = tx[c].entry
    BY <1>1, <1>5, <1>7, <1>9, <2>2
  <2> QED
    BY <1>3, <1>4, <2>1, <2>2, <2>3
<1>10. CASE u # tx[c].ses /\ Home[u] = c
  <2>1. tx[c].db.ses[u] = db[c].ses[u]
    BY <1>2, <1>5, <1>10 DEF Opened
  <2>2. books[u] = Mirror(db[c].ses[u])
    BY <1>10 DEF Agree
  <2> QED
    BY <1>3, <1>4, <1>8, <1>10, <2>1, <2>2
<1>11. CASE Home[u] # c
  <2>1. u # tx[c].ses /\ tx'[Home[u]] = tx[Home[u]] /\ db'[Home[u]] = db[Home[u]]
    BY <1>3, <1>4, <1>5, <1>6, <1>11
  <2> QED
    BY <1>8, <2>1 DEF Agree
<1> QED
  BY <1>9, <1>10, <1>11

\* What a commit adds to a cause was found to fit under the lock of the one collection
\* the cause is drawn from.
LEMMA CommitFits ==
    ASSUME PayInv, Ceilings, NEW c \in Collections, Commit(c)
    PROVE  Ceilings'
<1> DEFINE r == tx[c].by
           k == refunding[r].cause
           a == tx[c].db.back - db[c].back
<1>1. /\ tx[c].open /\ db' = [db EXCEPT ![c] = tx[c].db] /\ tx' = [tx EXCEPT ![c] = NoTx] /\ Advance(r)
      /\ given' = IF r = NoOne THEN given ELSE [given EXCEPT ![k] = @ + a]
  BY DEF Commit
<1>2. r \in Refunders \cup {NoOne} /\ NoOne \notin Refunders
  BY <1>1, OpenIs, PaymentAssumption
<1>3. \A x \in Collections : x # c => db'[x] = db[x]
  BY <1>1 DEF PayInv, Ledgers
<1>4. ~tx'[c].open /\ \A x \in Collections : x # c => tx'[x] = tx[x]
  BY <1>1, EndKeeps
<1>5. \A x \in Refunders : refunding'[x].cause = refunding[x].cause /\ (x # r => refunding'[x] = refunding[x])
  BY <1>1, <1>2, RefundMoves DEF PayInv
<1>6. r # NoOne => k \in Causes /\ Drawn[k] = c /\ a \in Nat /\ given[k] + a <= Ceiling
  BY <1>1, <1>2 DEF Ceilings, Fits, PayInv, Refunds
<1>7. given' \in [Causes -> Nat] /\ \A j \in Causes : given'[j] <= Ceiling
  <2>1. CASE r = NoOne
    BY <1>1, <2>1 DEF Ceilings
  <2>2. CASE r # NoOne
    <3>1. given \in [Causes -> Nat] /\ given[k] + a \in Nat
      BY <1>6, <2>2 DEF Ceilings
    <3>2. given' = [given EXCEPT ![k] = given[k] + a]
      BY <1>1, <2>2
    <3> HIDE DEF k, a
    <3> QED
      BY <1>6, <2>2, <3>1, <3>2 DEF Ceilings
  <2> QED
    BY <2>1, <2>2
<1>8. ASSUME NEW x \in Collections, tx'[x].open, tx'[x].by # NoOne PROVE Fits(x)'
  <2>1. x # c /\ tx'[x] = tx[x] /\ db'[x] = db[x]
    BY <1>3, <1>4, <1>8
  <2>2. Fits(x) /\ tx[x].by \in Refunders
    BY <1>8, <2>1, OpenIs DEF Ceilings
  <2> DEFINE q == tx[x].by
             j == refunding[q].cause
  <2>3. Drawn[j] = x /\ j \in Causes
    BY <2>2 DEF Fits, PayInv, Refunds
  <2>4. q # r /\ (r # NoOne => j # k)
    BY <1>2, <1>6, <2>1, <2>2, <2>3
  <2>5. refunding'[q] = refunding[q]
    BY <1>5, <2>2, <2>4
  <2>6. given'[j] = given[j]
    BY <1>1, <2>3, <2>4 DEF Ceilings
  <2> QED
    BY <2>1, <2>2, <2>5, <2>6 DEF Fits
<1> QED
  BY <1>7, <1>8 DEF Ceilings

\* A rollback forgets the ledger of its transaction; the session counts as lost unless
\* its books roll back too.
LEMMA RollbackKeeps ==
    ASSUME PayInv, NEW c \in Collections, Rollback(c)
    PROVE  PayInv' /\ (Agree => Agree') /\ (Ceilings => Ceilings')
<1> DEFINE r == tx[c].by
<1>1. /\ tx[c].open /\ tx' = [tx EXCEPT ![c] = NoTx] /\ Stop(r)
      /\ lost' = lost \cup {s \in {tx[c].ses} : Provider[s] # "inside"}
      /\ UNCHANGED <<db, books, given, age, pass, stray>>
  BY DEF Rollback
<1>2. Opened(c, db[c], tx[c]) /\ r \in Refunders \cup {NoOne} /\ NoOne \notin Refunders
  BY <1>1, OpenIs, PaymentAssumption
<1>3. /\ DOMAIN tx' = Collections /\ ~tx'[c].open /\ tx'[c] = NoTx
      /\ \A x \in Collections : x # c => tx'[x] = tx[x]
  BY <1>1, EndKeeps
<1>4. Refunds' /\ \A x \in Refunders : refunding'[x].cause = refunding[x].cause /\ (x # r => refunding'[x] = refunding[x])
  BY <1>1, <1>2, RefundMoves DEF PayInv
<1>5. PayInv'
  <2>1. Ledgers' /\ Transactions'
    BY <1>1, <1>3 DEF PayInv, Ledgers, Transactions
  <2>2. Rest'
    BY <1>1, <1>2 DEF PayInv, Rest, Opened, SessionsOf, Aged, age, pass
  <2> QED
    BY <1>4, <2>1, <2>2 DEF PayInv
<1>6. ASSUME Agree PROVE Agree'
  <2> SUFFICES ASSUME NEW u \in Sessions, Provider[u] # "page", u \notin lost,
                      u # tx[c].ses \/ Provider[u] = "inside"
               PROVE  LET t == tx'[Home[u]] IN
                         /\ ~(t.open /\ t.ses = u) \/ Provider[u] = "inside" =>
                               books[u] = Mirror(db[Home[u]].ses[u])
                         /\ t.open /\ t.ses = u =>
                               /\ t.entry = Mirror(t.db.ses[u])
                               /\ Provider[u] # "inside" => books[u] = t.entry
    BY <1>1 DEF Agree
  <2>1. Home[u] \in Collections
    BY AtHome
  <2>2. CASE Home[u] = c /\ u # tx[c].ses
    BY <1>3, <1>6, <2>2 DEF Agree
  <2>3. CASE Home[u] # c
    BY <1>3, <1>6, <2>1, <2>3 DEF Agree
  <2>4. CASE Home[u] = c /\ u = tx[c].ses /\ Provider[u] = "inside"
    BY <1>1, <1>3, <1>6, <2>4 DEF Agree
  <2> QED
    BY <2>2, <2>3, <2>4
<1>7. ASSUME Ceilings PROVE Ceilings'
  <2>1. ASSUME NEW x \in Collections, tx'[x].open, tx'[x].by # NoOne PROVE Fits(x)'
    <3>1. x # c /\ tx'[x] = tx[x] /\ db'[x] = db[x]
      BY <1>1, <1>3, <2>1
    <3>2. Fits(x) /\ tx[x].by \in Refunders
      BY <1>7, <2>1, <3>1, OpenIs DEF Ceilings
    <3>3. tx[x].by # r
      BY <1>1, <1>2, <1>7, <3>1, <3>2 DEF Ceilings, Fits
    <3>4. refunding'[tx[x].by] = refunding[tx[x].by]
      BY <1>4, <3>2, <3>3
    <3> QED
      BY <1>1, <3>1, <3>2, <3>4 DEF Fits
  <2> QED
    BY <1>1, <1>7, <2>1 DEF Ceilings
<1> QED
  BY <1>5, <1>6, <1>7

-----------------------------------------------------------------------------
(* The refund calls.                                                       *)

\* A refund call that holds no transaction may move on.
LEMMA RefundKeeps ==
    ASSUME PayInv, Refunds', NEW r \in Refunders,
           \A x \in Refunders : x # r => refunding'[x] = refunding[x],
           UNCHANGED <<db, books, given, tx, age, pass, stray, lost>>,
           \A c \in Collections : tx[c].open => tx[c].by # r
    PROVE  PayInv' /\ (Agree => Agree') /\ (Ceilings => Ceilings')
<1>1. PayInv'
  BY DEF PayInv, Ledgers, Transactions, Rest, Aged, age, pass
<1>2. Agree => Agree'
  BY DEF Agree
<1>3. ASSUME Ceilings PROVE Ceilings'
  <2>1. ASSUME NEW x \in Collections, tx[x].open, tx[x].by # NoOne PROVE Fits(x)'
    <3>1. Fits(x) /\ tx[x].by \in Refunders /\ tx[x].by # r
      BY <1>3, <2>1, OpenIs DEF Ceilings
    <3>2. refunding'[tx[x].by] = refunding[tx[x].by]
      BY <3>1
    <3> QED
      BY <3>1, <3>2 DEF Fits
  <2> QED
    BY <1>3, <2>1 DEF Ceilings
<1> QED
  BY <1>1, <1>2, <1>3

\* A call that is not at its parts has no transaction.
LEMMA NoTxYet ==
    ASSUME PayInv, Ceilings, NEW r \in Refunders, refunding[r].at # "parts",
           NEW c \in Collections, tx[c].open
    PROVE  tx[c].by # r
BY PaymentAssumption DEF Ceilings, Fits

\* A refund call that reads its captures changes no ledger.
LEMMA RefundCollectionKeeps ==
    ASSUME PayInv, Agree, Ceilings, NEW r \in Refunders, NEW k \in Causes, RefundCollection(r, k)
    PROVE  PayInv' /\ Agree' /\ Ceilings'
<1>1. PICK left : refunding' = [refunding EXCEPT ![r] = [at |-> "read", cause |-> k, left |-> left]]
  BY DEF RefundCollection
<1>2. /\ refunding[r].at = "idle"
      /\ UNCHANGED <<db, books, given, tx, age, pass, stray, lost>>
  BY DEF RefundCollection
<1>3. /\ DOMAIN refunding' = Refunders /\ refunding'[r] = [at |-> "read", cause |-> k, left |-> left]
      /\ \A x \in Refunders : x # r => refunding'[x] = refunding[x]
  BY <1>1 DEF PayInv, Refunds
<1>4. DOMAIN refunding'[r] = {"at", "cause", "left"} /\ refunding'[r].at = "read" /\ refunding'[r].cause = k
  BY <1>3
<1>5. Refunds'
  BY <1>3, <1>4 DEF PayInv, Refunds
<1>6. \A c \in Collections : tx[c].open => tx[c].by # r
  BY <1>2, NoTxYet
<1> QED
  BY <1>2, <1>3, <1>5, <1>6, RefundKeeps

\* A plan made without the lock binds nobody.
LEMMA PlanRefundKeeps ==
    ASSUME PayInv, Agree, Ceilings, NEW r \in Refunders, NEW ask, PlanRefund(r, ask)
    PROVE  PayInv' /\ Agree' /\ Ceilings'
<1>1. /\ refunding[r].at = "read"
      /\ UNCHANGED <<db, books, given, tx, age, pass, stray, lost>>
      /\ \/ \E left : refunding' = [refunding EXCEPT ![r].at = "parts", ![r].left = left]
         \/ Stop(r)
  BY DEF PlanRefund
<1>2. Refunds' /\ \A x \in Refunders : x # r => refunding'[x] = refunding[x]
  <2>1. CASE Stop(r)
    BY <2>1, RefundMoves DEF PayInv
  <2>2. ASSUME NEW left, refunding' = [refunding EXCEPT ![r].at = "parts", ![r].left = left]
        PROVE  Refunds' /\ \A x \in Refunders : x # r => refunding'[x] = refunding[x]
    <3>1. DOMAIN refunding = Refunders /\ DOMAIN refunding[r] = {"at", "cause", "left"}
          /\ refunding[r].cause \in Causes
      BY <1>1 DEF PayInv, Refunds
    <3>2. /\ DOMAIN refunding' = Refunders /\ DOMAIN refunding'[r] = {"at", "cause", "left"}
          /\ refunding'[r].at = "parts" /\ refunding'[r].cause = refunding[r].cause
          /\ \A x \in Refunders : x # r => refunding'[x] = refunding[x]
      BY <2>2, <3>1
    <3> QED
      BY <3>1, <3>2 DEF PayInv, Refunds
  <2> QED
    BY <1>1, <2>1, <2>2
<1>3. \A c \in Collections : tx[c].open => tx[c].by # r
  BY <1>1, NoTxYet
<1> QED
  BY <1>1, <1>2, <1>3, RefundKeeps

\* A refund of one capture is checked again under the lock and stays below the ceiling.
LEMMA RefundPartKeeps ==
    ASSUME PayInv, Agree, Ceilings, NEW r \in Refunders, RefundPart(r)
    PROVE  PayInv' /\ Agree' /\ Ceilings'
<1> DEFINE k == refunding[r].cause
           a == Head(refunding[r].left).amount
           out(s) == IF MayRefund(s, a, k) THEN RefundOutcomes(s, a) ELSE {}
<1>1. PICK s \in SessionsOf(Drawn[k]) :
         /\ ~tx[Home[s]].open
         /\ \/ /\ \E e \in out(s) : Call(s, RefundedBy(db[Home[s]], s, a), e, r)
               /\ UNCHANGED refunding
            \/ /\ out(s) = {}
               /\ Stop(r)
               /\ UNCHANGED <<db, books, given, tx, age, pass, stray, lost>>
  BY DEF RefundPart
<1>2. refunding[r].at = "parts" /\ k \in Causes
  BY DEF RefundPart, PayInv, Refunds
<1>3. s \in Sessions /\ Home[s] = Drawn[k]
  BY <1>1 DEF SessionsOf
<1>4. k # NoOne
  BY <1>2, PaymentAssumption
<1>5. ASSUME NEW e \in out(s), Call(s, RefundedBy(db[Home[s]], s, a), e, r), UNCHANGED refunding
      PROVE  PayInv' /\ Agree' /\ Ceilings'
  <2> DEFINE d == RefundedBy(db[Home[s]], s, a)
  <2>1. MayRefund(s, a, k) /\ e \in RefundOutcomes(s, a)
    BY <1>5
  <2>2. a \in Nat /\ given[k] + a <= Ceiling
    BY <1>4, <2>1 DEF MayRefund, RefundedForReference
  <2>3. Sound(s, d, e) /\ d.back = db[Home[s]].back + a
    BY <1>1, <1>3, <2>1, <2>2, RefundIsSound
  <2>4. db[Home[s]].back \in Int
    BY <1>3, HomeTyped
  <2> HIDE DEF d, a
  <2>5. d.back - db[Home[s]].back = a
    BY <2>2, <2>3, <2>4
  <2>6. Call(s, d, e, r) /\ UNCHANGED refunding
    BY <1>5 DEF d, a
  <2>7. PayInv'
    BY <1>3, <2>3, <2>6, CallKeeps
  <2>8. Agree'
    BY <1>3, <2>3, <2>6, CallAgrees
  <2>9. Ceilings'
    BY <1>2, <1>3, <2>2, <2>5, <2>6, CallFits
  <2> QED
    BY <2>7, <2>8, <2>9
<1>6. ASSUME Stop(r), UNCHANGED <<db, books, given, tx, age, pass, stray, lost>>
      PROVE  PayInv' /\ Agree' /\ Ceilings'
  <2>1. Refunds' /\ \A x \in Refunders : x # r => refunding'[x] = refunding[x]
    BY <1>6, RefundMoves DEF PayInv
  <2>2. ASSUME NEW c \in Collections, tx[c].open PROVE tx[c].by # r
    <3> SUFFICES ASSUME tx[c].by = r PROVE FALSE
      OBVIOUS
    <3>1. Drawn[k] = c
      BY <2>2, PaymentAssumption DEF Ceilings, Fits
    <3> QED
      BY <1>1, <1>3, <2>2, <3>1
  <2> QED
    BY <1>6, <2>1, <2>2, RefundKeeps
<1> QED
  BY <1>1, <1>5, <1>6

-----------------------------------------------------------------------------
(* The page and the reconciliation.                                        *)

\* The customer's payment moves the books of a page, which no driven provider shares.
LEMMA PagePaidKeeps ==
    ASSUME PayInv, Agree, Ceilings, NEW c \in Collections, PagePaid(c)
    PROVE  PayInv' /\ Agree' /\ Ceilings'
<1>1. UNCHANGED <<db, given, tx, refunding, pass, lost>> /\ UNCHANGED <<settled, older, met, past>>
  BY DEF PagePaid
<1>2. books \in [Sessions \cup Collections -> Entry] /\ books[c] \in Entry
  BY DEF PayInv, Rest
<1>3. \E e \in Entry : books' = [books EXCEPT ![c] = e]
  <2>1. CASE \E a \in 1..books[c].amount : books' = [books EXCEPT ![c].status = "captured", ![c].taken = a]
    <3>1. PICK a \in 1..books[c].amount : books' = [books EXCEPT ![c].status = "captured", ![c].taken = a]
      BY <2>1
    <3>2. a \in Money
      BY <1>2, PaymentAssumption DEF Entry, Money
    <3>3. [books[c] EXCEPT !.status = "captured", !.taken = a] \in Entry
      BY <1>2, <3>2 DEF Entry, Statuses
    <3>4. books' = [books EXCEPT ![c] = [books[c] EXCEPT !.status = "captured", !.taken = a]]
      BY <1>2, <3>1
    <3> QED
      BY <3>3, <3>4
  <2>2. CASE books' = [books EXCEPT ![c].status = "failed"]
    <3>1. [books[c] EXCEPT !.status = "failed"] \in Entry
      BY <1>2 DEF Entry, Statuses
    <3>2. books' = [books EXCEPT ![c] = [books[c] EXCEPT !.status = "failed"]]
      BY <1>2, <2>2
    <3> QED
      BY <3>1, <3>2
  <2> QED
    BY <2>1, <2>2 DEF PagePaid
<1>4. books' \in [Sessions \cup Collections -> Entry] /\ \A s \in Sessions : books'[s] = books[s]
  BY <1>2, <1>3, PaymentAssumption
<1>5. stray' \subseteq Collections
  BY DEF PagePaid, PayInv, Rest
<1>6. PayInv'
  <2>1. Aged'
    <3>1. late' \subseteq settled
      BY DEF PagePaid, PayInv, Rest, Aged
    <3> QED
      BY <1>1, <3>1 DEF PayInv, Rest, Aged
  <2> QED
    BY <1>1, <1>4, <1>5, <2>1 DEF PayInv, Ledgers, Transactions, Refunds, Rest, pass
<1>7. Agree'
  BY <1>1, <1>4 DEF Agree
<1>8. Ceilings'
  BY <1>1 DEF Ceilings, Fits
<1> QED
  BY <1>6, <1>7, <1>8

\* A step of time or of the reconciliation.
Quiet ==
    \/ UNCHANGED vars
    \/ Reconcile
    \/ \E s \in Sessions : Settle(s) \/ WindowEnds(s) \/ ReconcileOne(s) \/ ReconcileUnreachable(s)

\* The ages of the sessions stay in order.
LEMMA QuietAges == ASSUME Aged, Quiet PROVE Aged'
<1>1. CASE UNCHANGED age
  BY <1>1 DEF Aged, age
<1>2. CASE Reconcile
  BY <1>2 DEF Aged, Reconcile
<1>3. ASSUME NEW s \in Sessions, Settle(s) PROVE Aged'
  <2>1. /\ settled' = settled \cup {s} /\ UNCHANGED <<met, past, late>>
        /\ \A p \in older' : p \in older \/ p \in settled \X {s}
    BY <1>3 DEF Settle
  <2> QED
    BY <2>1 DEF Aged
<1>4. ASSUME NEW s \in Sessions, WindowEnds(s) PROVE Aged'
  BY <1>4 DEF Aged, WindowEnds
<1>5. ASSUME NEW s \in Sessions, ReconcileUnreachable(s) PROVE Aged'
  <2>1. late' \subseteq late \cup settled /\ UNCHANGED <<settled, older, met, past>>
    BY <1>5 DEF ReconcileUnreachable, Unreported, Aged
  <2> QED
    BY <2>1 DEF Aged
<1>6. ASSUME NEW s \in Sessions, ReconcileOne(s) PROVE UNCHANGED age
  BY <1>6 DEF ReconcileOne
<1> QED
  BY <1>1, <1>2, <1>3, <1>4, <1>5, <1>6 DEF Quiet, vars

\* Time and the reconciliation write neither ledger.
LEMMA QuietKeeps ==
    ASSUME PayInv, Agree, Ceilings, Quiet
    PROVE  PayInv' /\ Agree' /\ Ceilings'
<1>1. UNCHANGED <<db, books, given, tx, refunding, stray, lost>>
  BY DEF Quiet, vars, Reconcile, Settle, WindowEnds, ReconcileOne, ReconcileUnreachable
<1>2. reported' \subseteq Sessions
  <2>1. CASE Reconcile
    BY <2>1 DEF Reconcile, LeftOut, OpenHolds, Unreported, PayInv, Rest, Aged
  <2>2. CASE reported' = reported \/ \E s \in Sessions : reported' = reported \cup {s}
    BY <2>2 DEF PayInv, Rest
  <2> QED
    BY <2>1, <2>2 DEF Quiet, vars, pass, Settle, WindowEnds, ReconcileOne, ReconcileUnreachable
<1>3. suspects' \in [Sessions -> {"none", "authorized", "pending", "canceled"}]
  <2>1. CASE Reconcile
    <3>1. \A s \in Suspected : db[Home[s]].ses[s].status \in {"authorized", "pending", "canceled"}
      BY DEF Suspected, Oldest, Newest, OpenHolds, Unreported, IsHold, IsUnreported
    <3> HIDE DEF Suspected
    <3> QED
      BY <2>1, <3>1 DEF Reconcile
  <2>2. CASE UNCHANGED suspects \/ \E s \in Sessions : suspects' = [suspects EXCEPT ![s] = "none"]
    BY <2>2 DEF PayInv, Rest
  <2> QED
    BY <2>1, <2>2 DEF Quiet, vars, pass, Settle, WindowEnds, ReconcileOne, ReconcileUnreachable
<1>4. Aged'
  BY QuietAges DEF PayInv, Rest
<1>5. PayInv'
  BY <1>1, <1>2, <1>3, <1>4 DEF PayInv, Ledgers, Transactions, Refunds, Rest
<1>6. Agree' /\ Ceilings'
  BY <1>1 DEF Agree, Ceilings, Fits
<1> QED
  BY <1>5, <1>6

-----------------------------------------------------------------------------
(* The sums of a ledger.  Every flow rewrites one row, and the totals it   *)
(* writes move by what that row's amounts do; what a session keeps of the  *)
(* collection's amount only shrinks once it is opened.                     *)

HoldOf(row) == IF row.status = "authorized" THEN row.hold ELSE 0

HoldsOf(d) == [s \in DOMAIN d.ses |-> HoldOf(d.ses[s])]
Takes(d) == [s \in DOMAIN d.ses |-> d.ses[s].paid]
Backs(d) == [s \in DOMAIN d.ses |-> d.ses[s].back]
Claims(d) == [s \in DOMAIN d.ses |-> Reserves(d.ses[s])]

\* What a row may be: nothing is held beyond its amount or before it is authorized, and
\* nothing paid before it is captured.
RowOK(row) ==
    /\ row.hold <= row.amount
    /\ row.back <= row.paid
    /\ row.status # "captured" => row.paid = 0
    /\ row.status \in {"pending", "failed"} => row.hold = 0

\* The totals are the sums, and there is room for what the live sessions reserve.
Strong(c, d) ==
    /\ \A s \in SessionsOf(c) : RowOK(d.ses[s])
    /\ d.held = SumFunctionOnSet(HoldsOf(d), SessionsOf(c))
    /\ d.taken = SumFunctionOnSet(Takes(d), SessionsOf(c))
    /\ d.back = SumFunctionOnSet(Backs(d), SessionsOf(c))
    /\ d.status = CollectionStatusFor(d)
    /\ d.taken + SumFunctionOnSet(Claims(d), SessionsOf(c)) <= Amount

Summed == \A c \in Collections : Strong(c, db[c]) /\ (tx[c].open => Strong(c, tx[c].db))

\* The amounts of a row are numbers.
LEMMA RowNumbers ==
    ASSUME NEW row \in Row
    PROVE  /\ row.amount \in Nat /\ row.hold \in Nat /\ row.paid \in Nat /\ row.back \in Nat
           /\ HoldOf(row) \in Nat /\ Reserves(row) \in Nat
           /\ HoldOf(row) <= Reserves(row)
           /\ row.status \in Statuses
<1>1. row.amount \in Nat /\ row.hold \in Nat /\ row.paid \in Nat /\ row.back \in Nat /\ row.status \in Statuses
  BY PaymentAssumption DEF Row, Money
<1>2. HoldOf(row) \in Nat /\ Reserves(row) \in Nat /\ HoldOf(row) <= Reserves(row)
  BY <1>1 DEF HoldOf, Reserves
<1> QED
  BY <1>1, <1>2

\* The functions that are summed.
LEMMA LedgerNumbers ==
    ASSUME NEW c, NEW d \in LedgerOf(c)
    PROVE  /\ IsFiniteSet(SessionsOf(c)) /\ DOMAIN d.ses = SessionsOf(c)
           /\ \A s \in SessionsOf(c) : d.ses[s] \in Row
           /\ \A s \in SessionsOf(c) : /\ HoldsOf(d)[s] = HoldOf(d.ses[s]) /\ Takes(d)[s] = d.ses[s].paid
                                       /\ Backs(d)[s] = d.ses[s].back /\ Claims(d)[s] = Reserves(d.ses[s])
           /\ \A s \in SessionsOf(c) : /\ HoldsOf(d)[s] \in Nat /\ Takes(d)[s] \in Nat
                                       /\ Backs(d)[s] \in Nat /\ Claims(d)[s] \in Nat
           /\ Numbers(HoldsOf(d), SessionsOf(c)) /\ Numbers(Takes(d), SessionsOf(c))
           /\ Numbers(Backs(d), SessionsOf(c)) /\ Numbers(Claims(d), SessionsOf(c))
<1>1. IsFiniteSet(SessionsOf(c))
  BY PaymentAssumption, FS_Subset DEF SessionsOf
<1>2. DOMAIN d.ses = SessionsOf(c) /\ \A s \in SessionsOf(c) : d.ses[s] \in Row
  BY DEF LedgerOf
<1>3. \A s \in SessionsOf(c) : /\ HoldsOf(d)[s] = HoldOf(d.ses[s]) /\ Takes(d)[s] = d.ses[s].paid
                               /\ Backs(d)[s] = d.ses[s].back /\ Claims(d)[s] = Reserves(d.ses[s])
  BY <1>2 DEF HoldsOf, Takes, Backs, Claims
<1>4. \A s \in SessionsOf(c) : /\ HoldsOf(d)[s] \in Nat /\ Takes(d)[s] \in Nat
                               /\ Backs(d)[s] \in Nat /\ Claims(d)[s] \in Nat
  BY <1>2, <1>3, RowNumbers
<1>5. /\ Numbers(HoldsOf(d), SessionsOf(c)) /\ Numbers(Takes(d), SessionsOf(c))
      /\ Numbers(Backs(d), SessionsOf(c)) /\ Numbers(Claims(d), SessionsOf(c))
  BY <1>4 DEF Numbers
<1> QED
  BY <1>1, <1>2, <1>3, <1>4, <1>5

\* The status is a function of the amounts and the rows.
LEMMA StatusOfTotals ==
    ASSUME NEW c \in Collections, NEW d \in LedgerOf(c), NEW h \in Int, NEW t \in Int, NEW b \in Int
    PROVE  LET n == WriteCollectionTotals(d, h, t, b) IN n.status = CollectionStatusFor(n)
<1> DEFINE m == [d EXCEPT !.held = h, !.taken = t, !.back = b]
           st == CollectionStatusFor(m)
           n == [m EXCEPT !.status = st]
<1>1. m \in LedgerOf(c)
  BY DEF LedgerOf
<1> HIDE DEF m
<1>2. n.status = st /\ n.held = m.held /\ n.taken = m.taken /\ n.back = m.back /\ n.ses = m.ses
  <2> HIDE DEF st
  <2> QED
    BY <1>1 DEF LedgerOf
<1>3. n = WriteCollectionTotals(d, h, t, b)
  BY DEF WriteCollectionTotals, m
<1> HIDE DEF n
<1>4. CollectionStatusFor(n) = CollectionStatusFor(m)
  BY <1>2 DEF CollectionStatusFor, Live
<1> QED
  BY <1>2, <1>3, <1>4

\* A row of s is rewritten and the totals are moved by as much.
LEMMA OneRow ==
    ASSUME NEW c \in Collections, NEW d \in LedgerOf(c), Strong(c, d), NEW s \in SessionsOf(c),
           NEW row \in Row, RowOK(row), NEW m, Rewrites(c, d, m, s), m.ses[s] = row,
           NEW h, NEW t, NEW b,
           h = d.held - HoldOf(d.ses[s]) + HoldOf(row),
           t = d.taken - d.ses[s].paid + row.paid,
           b = d.back - d.ses[s].back + row.back,
           \/ row.paid + Reserves(row) <= d.ses[s].paid + Reserves(d.ses[s])
           \/ row.paid + Reserves(row) <= RemainingToOpen(d)
    PROVE  Strong(c, WriteCollectionTotals(m, h, t, b))
<1> DEFINE n == WriteCollectionTotals(m, h, t, b)
           S == SessionsOf(c)
           old == d.ses[s]
<1>1. m \in LedgerOf(c) /\ \A u \in S : u # s => m.ses[u] = d.ses[u]
  BY DEF Rewrites
<1>2. d.held \in Int /\ d.taken \in Int /\ d.back \in Int /\ old \in Row
  BY DEF LedgerOf
<1>3. /\ HoldOf(old) \in Nat /\ HoldOf(row) \in Nat /\ old.paid \in Nat /\ row.paid \in Nat
      /\ old.back \in Nat /\ row.back \in Nat /\ Reserves(old) \in Nat /\ Reserves(row) \in Nat
  BY <1>2, RowNumbers
<1>4. h \in Int /\ t \in Int /\ b \in Int
  BY <1>2, <1>3
<1>5. n \in LedgerOf(c) /\ n.ses = m.ses /\ n.held = h /\ n.taken = t /\ n.back = b
  BY <1>1, <1>4, TotalsWritten
<1>6. n.status = CollectionStatusFor(n)
  BY <1>1, <1>4, StatusOfTotals
<1> HIDE DEF n
<1>7. n.ses[s] = row /\ \A u \in S : u # s => n.ses[u] = d.ses[u]
  BY <1>1, <1>5
<1>8. \A u \in S : RowOK(n.ses[u])
  BY <1>7 DEF Strong
<1>9. /\ \A u \in S : u # s => HoldsOf(n)[u] = HoldsOf(d)[u] /\ Takes(n)[u] = Takes(d)[u]
                                /\ Backs(n)[u] = Backs(d)[u] /\ Claims(n)[u] = Claims(d)[u]
      /\ HoldsOf(n)[s] = HoldOf(row) /\ Takes(n)[s] = row.paid
      /\ Backs(n)[s] = row.back /\ Claims(n)[s] = Reserves(row)
      /\ HoldsOf(d)[s] = HoldOf(old) /\ Takes(d)[s] = old.paid
      /\ Backs(d)[s] = old.back /\ Claims(d)[s] = Reserves(old)
  <2>1. \A u \in S : /\ HoldsOf(n)[u] = HoldOf(n.ses[u]) /\ Takes(n)[u] = n.ses[u].paid
                     /\ Backs(n)[u] = n.ses[u].back /\ Claims(n)[u] = Reserves(n.ses[u])
    BY <1>5, LedgerNumbers
  <2>2. \A u \in S : /\ HoldsOf(d)[u] = HoldOf(d.ses[u]) /\ Takes(d)[u] = d.ses[u].paid
                     /\ Backs(d)[u] = d.ses[u].back /\ Claims(d)[u] = Reserves(d.ses[u])
    BY LedgerNumbers
  <2> QED
    BY <1>7, <2>1, <2>2
<1>10. IsFiniteSet(S)
  BY LedgerNumbers
<1>11. /\ Numbers(HoldsOf(n), S) /\ Numbers(Takes(n), S) /\ Numbers(Backs(n), S) /\ Numbers(Claims(n), S)
       /\ Numbers(HoldsOf(d), S) /\ Numbers(Takes(d), S) /\ Numbers(Backs(d), S) /\ Numbers(Claims(d), S)
  BY <1>5, LedgerNumbers
<1>16. s \in S
  OBVIOUS
<1>12. n.held = SumFunctionOnSet(HoldsOf(n), S)
  <2>1. SumFunctionOnSet(HoldsOf(n), S) = SumFunctionOnSet(HoldsOf(d), S) - HoldsOf(d)[s] + HoldsOf(n)[s]
    <3> DEFINE e == HoldsOf(n)
               f == HoldsOf(d)
    <3>1. \A u \in S : u # s => e[u] = f[u]
      BY <1>9
    <3>2. Numbers(e, S) /\ Numbers(f, S)
      BY <1>11
    <3> HIDE DEF e, f, S
    <3>3. SumFunctionOnSet(e, S) = SumFunctionOnSet(f, S) - f[s] + e[s]
      BY <1>10, <1>16, <3>1, <3>2, SumChange
    <3> QED
      BY <3>3 DEF e, f
  <2> QED
    BY <1>5, <1>9, <2>1 DEF Strong
<1>13. n.taken = SumFunctionOnSet(Takes(n), S)
  <2>1. SumFunctionOnSet(Takes(n), S) = SumFunctionOnSet(Takes(d), S) - Takes(d)[s] + Takes(n)[s]
    <3> DEFINE e == Takes(n)
               f == Takes(d)
    <3>1. \A u \in S : u # s => e[u] = f[u]
      BY <1>9
    <3>2. Numbers(e, S) /\ Numbers(f, S)
      BY <1>11
    <3> HIDE DEF e, f, S
    <3>3. SumFunctionOnSet(e, S) = SumFunctionOnSet(f, S) - f[s] + e[s]
      BY <1>10, <1>16, <3>1, <3>2, SumChange
    <3> QED
      BY <3>3 DEF e, f
  <2> QED
    BY <1>5, <1>9, <2>1 DEF Strong
<1>14. n.back = SumFunctionOnSet(Backs(n), S)
  <2>1. SumFunctionOnSet(Backs(n), S) = SumFunctionOnSet(Backs(d), S) - Backs(d)[s] + Backs(n)[s]
    <3> DEFINE e == Backs(n)
               f == Backs(d)
    <3>1. \A u \in S : u # s => e[u] = f[u]
      BY <1>9
    <3>2. Numbers(e, S) /\ Numbers(f, S)
      BY <1>11
    <3> HIDE DEF e, f, S
    <3>3. SumFunctionOnSet(e, S) = SumFunctionOnSet(f, S) - f[s] + e[s]
      BY <1>10, <1>16, <3>1, <3>2, SumChange
    <3> QED
      BY <3>3 DEF e, f
  <2> QED
    BY <1>5, <1>9, <2>1 DEF Strong
<1>15. n.taken + SumFunctionOnSet(Claims(n), S) <= Amount
  <2> DEFINE x == SumFunctionOnSet(Claims(d), S)
             y == SumFunctionOnSet(Claims(n), S)
  <2>1. y = x - Claims(d)[s] + Claims(n)[s]
    <3> DEFINE e == Claims(n)
               f == Claims(d)
    <3>1. \A u \in S : u # s => e[u] = f[u]
      BY <1>9
    <3>2. Numbers(e, S) /\ Numbers(f, S)
      BY <1>11
    <3> HIDE DEF e, f, S
    <3>3. SumFunctionOnSet(e, S) = SumFunctionOnSet(f, S) - f[s] + e[s]
      BY <1>10, <1>16, <3>1, <3>2, SumChange
    <3> QED
      BY <3>3 DEF e, f
  <2>2. x \in Int
    BY <1>10, <1>11, SumInt
  <2>3. LiveSessionAmount(d) = x
    BY LedgerNumbers DEF LiveSessionAmount, Total, SumFunction, Claims
  <2>4. d.taken + x <= Amount /\ Amount \in Nat
    BY PaymentAssumption DEF Strong
  <2>5. RemainingToOpen(d) = Amount - (d.taken + x)
    BY <2>3 DEF RemainingToOpen
  <2> HIDE DEF x, y
  <2>6. y = x - Reserves(old) + Reserves(row) /\ n.taken = d.taken - old.paid + row.paid
    BY <1>5, <1>9, <2>1
  <2>7. n.taken + y <= Amount
    BY <1>2, <1>3, <2>2, <2>4, <2>5, <2>6
  <2> QED
    BY <2>7 DEF y
<1> QED
  BY <1>6, <1>8, <1>12, <1>13, <1>14, <1>15 DEF Strong, n

\* A session's ledger, before a call.
LEMMA StrongAt ==
    ASSUME PayInv, Summed, NEW s \in Sessions
    PROVE  /\ Home[s] \in Collections /\ s \in SessionsOf(Home[s])
           /\ db[Home[s]] \in LedgerOf(Home[s]) /\ Strong(Home[s], db[Home[s]])
           /\ db[Home[s]].ses[s] \in Row /\ RowOK(db[Home[s]].ses[s])
           /\ db[Home[s]].held \in Int /\ db[Home[s]].taken \in Int /\ db[Home[s]].back \in Int
<1>1. Home[s] \in Collections /\ s \in SessionsOf(Home[s])
  BY AtHome
<1>2. Strong(Home[s], db[Home[s]])
  BY <1>1 DEF Summed
<1>3. RowOK(db[Home[s]].ses[s])
  BY <1>1, <1>2 DEF Strong
<1> QED
  BY <1>1, <1>2, <1>3, HomeTyped

\* What a call is about to commit.
Writes(s) == Strong(Home[s], tx'[Home[s]].db)

\* A call opens a transaction of its collection and touches no other.
LEMMA CallWrites ==
    ASSUME PayInv, NEW s \in Sessions, NEW d, NEW e, NEW r, Call(s, d, e, r)
    PROVE  /\ tx'[Home[s]].db = d /\ db' = db
           /\ \A x \in Collections : x # Home[s] => tx'[x] = tx[x]
<1>1. Home[s] \in Collections
  BY AtHome
<1> QED
  BY <1>1 DEF Call, PayInv, Transactions

\* A session is opened for no more than what remains.
LEMMA CreateWrites ==
    ASSUME PayInv, Summed, NEW s \in Sessions, NEW a \in 1..Amount, CreateSession(s, a)
    PROVE  Writes(s)
<1> DEFINE d == db[Home[s]]
           row == [NoRow EXCEPT !.status = "pending", !.amount = a]
           m == [d EXCEPT !.ses[s] = row]
<1>1. PICK e : Call(s, WriteCollectionTotals(m, d.held, d.taken, d.back), e, NoOne)
  BY DEF CreateSession
<1>2. d.ses[s].status = "none" /\ a <= RemainingToOpen(d)
  BY DEF CreateSession
<1>3. /\ Home[s] \in Collections /\ s \in SessionsOf(Home[s]) /\ d \in LedgerOf(Home[s])
      /\ Strong(Home[s], d) /\ d.ses[s] \in Row /\ RowOK(d.ses[s])
      /\ d.held \in Int /\ d.taken \in Int /\ d.back \in Int
  BY StrongAt
<1>4. d.ses[s].paid = 0 /\ d.ses[s].back = 0 /\ HoldOf(d.ses[s]) = 0
  BY <1>2, <1>3, RowNumbers DEF RowOK, HoldOf
<1>5. /\ row \in Row /\ row.paid = 0 /\ row.back = 0 /\ HoldOf(row) = 0 /\ Reserves(row) = a /\ RowOK(row)
  <2>1. a \in Money /\ 0 \in Money /\ a \in Nat
    BY PaymentAssumption DEF Money
  <2>2. /\ row.status = "pending" /\ row.amount = a /\ row.hold = 0 /\ row.paid = 0 /\ row.back = 0
        /\ row \in Row
    BY <2>1 DEF NoRow, Row, Statuses
  <2> HIDE DEF row
  <2> QED
    BY <2>1, <2>2 DEF HoldOf, Reserves, RowOK
<1> HIDE DEF row
<1>6. Rewrites(Home[s], d, m, s) /\ m.ses[s] = row
  BY <1>3, <1>5, RowSet
<1> HIDE DEF m
<1>7. /\ d.held = d.held - HoldOf(d.ses[s]) + HoldOf(row)
      /\ d.taken = d.taken - d.ses[s].paid + row.paid
      /\ d.back = d.back - d.ses[s].back + row.back
      /\ row.paid + Reserves(row) <= RemainingToOpen(d)
  BY <1>2, <1>3, <1>4, <1>5
<1>8. Strong(Home[s], WriteCollectionTotals(m, d.held, d.taken, d.back))
  BY <1>3, <1>5, <1>6, <1>7, OneRow
<1> QED
  BY <1>1, <1>8, CallWrites DEF Writes

\* A status and a hold are written: by an authorization, a refusal and a cancellation.
LEMMA HoldWrites ==
    ASSUME PayInv, Summed, NEW s \in Sessions, NEW st \in {"authorized", "failed", "canceled"}, NEW h \in Money,
           NEW x, NEW e, LET d == db[Home[s]] IN
              /\ d.ses[s].status # "captured"
              /\ HoldOf(d.ses[s]) = d.ses[s].hold
              /\ st # "authorized" => h = 0
              /\ h <= d.ses[s].amount /\ h <= Reserves(d.ses[s])
              /\ x = d.held - d.ses[s].hold + h
              /\ Call(s, WriteCollectionTotals(Held(d, s, st, h), x, d.taken, d.back), e, NoOne)
    PROVE  Writes(s)
<1> DEFINE d == db[Home[s]]
           old == d.ses[s]
           m == Held(d, s, st, h)
           row == HeldRow(old, st, h)
<1>1. /\ Home[s] \in Collections /\ s \in SessionsOf(Home[s]) /\ d \in LedgerOf(Home[s])
      /\ Strong(Home[s], d) /\ old \in Row /\ RowOK(old)
      /\ d.held \in Int /\ d.taken \in Int /\ d.back \in Int
  BY StrongAt
<1>2. st \in Statuses
  BY DEF Statuses
<1>3. row \in Row /\ Rewrites(Home[s], d, m, s) /\ m.ses[s] = row
  BY <1>1, <1>2, HoldSet
<1>4. row.status = st /\ row.hold = h /\ row.amount = old.amount /\ row.paid = old.paid /\ row.back = old.back
  BY <1>1 DEF HeldRow, Row
<1>5. Call(s, WriteCollectionTotals(m, x, d.taken, d.back), e, NoOne) /\ old.status # "captured"
      /\ x = d.held - old.hold + h /\ h <= old.amount /\ h <= Reserves(old) /\ (st # "authorized" => h = 0)
      /\ HoldOf(old) = old.hold
  OBVIOUS
<1> HIDE DEF row, m
<1>6. HoldOf(row) = h /\ Reserves(row) = h
  BY <1>4, <1>5 DEF HoldOf, Reserves
<1>7. old.paid \in Nat /\ old.back \in Nat /\ Reserves(old) \in Nat /\ h \in Nat
  BY <1>1, RowNumbers, PaymentAssumption DEF Money
<1>8. RowOK(row)
  BY <1>1, <1>4, <1>5 DEF RowOK
<1>9. /\ x = d.held - HoldOf(old) + HoldOf(row)
      /\ d.taken = d.taken - old.paid + row.paid
      /\ d.back = d.back - old.back + row.back
      /\ row.paid + Reserves(row) <= old.paid + Reserves(old)
  <2> HIDE DEF old, d
  <2> QED
    BY <1>1, <1>4, <1>5, <1>6, <1>7
<1> HIDE DEF old
<1>10. Strong(Home[s], WriteCollectionTotals(m, x, d.taken, d.back))
  BY <1>1, <1>3, <1>8, <1>9, OneRow DEF old
<1> QED
  BY <1>5, <1>10, CallWrites DEF Writes

\* The sums: an authorization.
LEMMA AuthorizeWrites ==
    ASSUME PayInv, Summed, NEW s \in Sessions, AuthorizePayment(s)
    PROVE  Writes(s)
<1> DEFINE d == db[Home[s]]
           old == d.ses[s]
<1>1. old \in Row /\ RowOK(old) /\ d.held \in Int
  BY StrongAt
<1>2. old.status = "pending"
  BY DEF AuthorizePayment
<1>3. old.hold = 0 /\ HoldOf(old) = 0 /\ Reserves(old) = old.amount /\ old.amount \in Nat
  BY <1>1, <1>2, RowNumbers DEF RowOK, HoldOf, Reserves
<1>4. ASSUME NEW h \in Money, NEW e, h <= old.amount,
             Call(s, WriteCollectionTotals(Held(d, s, "authorized", h), d.held + h, d.taken, d.back), e, NoOne)
      PROVE  Writes(s)
  <2> DEFINE x == d.held + h
  <2>1. x = d.held - old.hold + h
    BY <1>1, <1>3, <1>4 DEF Money
  <2>2. Call(s, WriteCollectionTotals(Held(d, s, "authorized", h), x, d.taken, d.back), e, NoOne)
    BY <1>4
  <2> HIDE DEF x
  <2> QED
    BY <1>2, <1>3, <1>4, <2>1, <2>2, HoldWrites
<1>5. ASSUME NEW e, Call(s, WriteCollectionTotals(Held(d, s, "failed", 0), d.held, d.taken, d.back), e, NoOne)
      PROVE  Writes(s)
  <2>1. d.held = d.held - old.hold + 0 /\ 0 \in Money /\ 0 <= old.amount
    BY <1>1, <1>3, PaymentAssumption DEF Money
  <2> QED
    BY <1>2, <1>3, <1>5, <2>1, HoldWrites
<1>6. CASE Provider[s] = "page"
  <2>1. PICK e \in PaytrAuthorize(books[Book(s)]) :
           /\ e.taken <= old.amount
           /\ Call(s, WriteCollectionTotals(Held(d, s, "authorized", e.taken), d.held + e.taken, d.taken, d.back),
                   e, NoOne)
    BY <1>6 DEF AuthorizePayment, Held
  <2>2. e.taken \in Money
    BY HomeTyped DEF PaytrAuthorize, Entry
  <2> QED
    BY <1>4, <2>1, <2>2
<1>7. CASE Provider[s] # "page"
  <2>1. PICK e \in ManualAuthorize(books[s]) :
            \/ /\ e.status = "authorized" /\ e.hold <= old.amount
               /\ Call(s, WriteCollectionTotals(Held(d, s, "authorized", e.hold), d.held + e.hold, d.taken, d.back),
                       e, NoOne)
            \/ /\ e.status = "failed"
               /\ Call(s, WriteCollectionTotals(Held(d, s, "failed", 0), d.held, d.taken, d.back), e, NoOne)
    BY <1>7 DEF AuthorizePayment, Held
  <2>2. e.hold \in Money
    <3>1. books[s] \in Entry
      BY HomeTyped
    <3>2. \A h \in 1..books[s].amount : h \in Money
      BY <3>1, PaymentAssumption DEF Entry, Money
    <3> QED
      BY <3>1, <3>2 DEF ManualAuthorize, Entry
  <2> QED
    BY <1>4, <1>5, <2>1, <2>2
<1> QED
  BY <1>6, <1>7

\* The sums: a cancellation.
LEMMA CancelWrites ==
    ASSUME PayInv, Summed, NEW s \in Sessions, CancelPayment(s)
    PROVE  Writes(s)
<1> DEFINE d == db[Home[s]]
           old == d.ses[s]
           x == d.held - old.hold
<1>1. PICK e : Call(s, WriteCollectionTotals(Held(d, s, "canceled", 0), x, d.taken, d.back), e, NoOne)
  BY DEF CancelPayment, Held
<1>2. old \in Row /\ RowOK(old) /\ d.held \in Int
  BY StrongAt
<1>3. old.status \in {"pending", "authorized", "failed"}
  BY DEF CancelPayment
<1>4. HoldOf(old) = old.hold /\ old.hold \in Nat /\ 0 <= old.amount /\ 0 <= Reserves(old) /\ 0 \in Money
  BY <1>2, <1>3, RowNumbers, PaymentAssumption DEF RowOK, HoldOf, Money
<1>5. x = d.held - old.hold + 0
  BY <1>2, <1>4
<1> HIDE DEF x
<1> QED
  BY <1>1, <1>3, <1>4, <1>5, HoldWrites

\* The sums: a capture.
LEMMA CaptureWrites ==
    ASSUME PayInv, Summed, NEW s \in Sessions, NEW a \in 1..Amount, CapturePayment(s, a)
    PROVE  Writes(s)
<1> DEFINE d == db[Home[s]]
           old == d.ses[s]
           m == Captured(d, s, a)
           row == CapturedRow(old, a)
           x == d.held - old.hold
           y == d.taken + a
<1>1. PICK e : Call(s, WriteCollectionTotals(m, x, y, d.back), e, NoOne)
  BY DEF CapturePayment, Captured
<1>2. old.status = "authorized" /\ a <= old.hold
  BY DEF CapturePayment
<1>3. /\ Home[s] \in Collections /\ s \in SessionsOf(Home[s]) /\ d \in LedgerOf(Home[s])
      /\ Strong(Home[s], d) /\ old \in Row /\ RowOK(old)
      /\ d.held \in Int /\ d.taken \in Int /\ d.back \in Int
  BY StrongAt
<1>4. a \in Money
  BY PaymentAssumption DEF Money
<1>5. row \in Row /\ Rewrites(Home[s], d, m, s) /\ m.ses[s] = row
  BY <1>3, <1>4, CaptureSet
<1>6. /\ row.status = "captured" /\ row.hold = a /\ row.paid = a
      /\ row.amount = old.amount /\ row.back = old.back
  BY <1>3 DEF CapturedRow, Row
<1> HIDE DEF m, row
<1>7. /\ old.paid = 0 /\ old.back = 0 /\ old.hold \in Nat /\ old.amount \in Nat /\ old.hold <= old.amount
      /\ HoldOf(old) = old.hold /\ Reserves(old) = old.hold
      /\ HoldOf(row) = 0 /\ Reserves(row) = 0
  BY <1>2, <1>3, <1>6, RowNumbers DEF RowOK, HoldOf, Reserves
<1>8. RowOK(row)
  BY <1>2, <1>6, <1>7 DEF RowOK
<1>9. /\ x = d.held - HoldOf(old) + HoldOf(row)
      /\ y = d.taken - old.paid + row.paid
      /\ d.back = d.back - old.back + row.back
      /\ row.paid + Reserves(row) <= old.paid + Reserves(old)
  BY <1>2, <1>3, <1>6, <1>7
<1> HIDE DEF old, x, y
<1>10. Strong(Home[s], WriteCollectionTotals(m, x, y, d.back))
  BY <1>3, <1>5, <1>8, <1>9, OneRow DEF old
<1> QED
  BY <1>1, <1>10, CallWrites DEF Writes

\* The sums: a refund.
LEMMA RefundWrites ==
    ASSUME PayInv, Summed, NEW s \in Sessions, NEW a \in Nat, NEW k, MayRefund(s, a, k)
    PROVE  Strong(Home[s], RefundedBy(db[Home[s]], s, a))
<1> DEFINE d == db[Home[s]]
           old == d.ses[s]
           m == Back(d, s, a)
           row == BackRow(old, a)
           z == d.back + a
<1>1. /\ Home[s] \in Collections /\ s \in SessionsOf(Home[s]) /\ d \in LedgerOf(Home[s])
      /\ Strong(Home[s], d) /\ old \in Row /\ RowOK(old)
      /\ d.held \in Int /\ d.taken \in Int /\ d.back \in Int
  BY StrongAt
<1>2. a <= old.paid - old.back
  BY DEF MayRefund, Refundable
<1>3. old.back + a \in Money
  BY <1>1, <1>2, PaymentAssumption DEF Row, Money
<1>4. row \in Row /\ Rewrites(Home[s], d, m, s) /\ m.ses[s] = row
  BY <1>1, <1>3, BackSet
<1>5. /\ row.status = old.status /\ row.hold = old.hold /\ row.paid = old.paid
      /\ row.amount = old.amount /\ row.back = old.back + a
  BY <1>1 DEF BackRow, Row
<1>6. RefundedBy(d, s, a) = WriteCollectionTotals(m, d.held, d.taken, z)
  BY DEF RefundedBy, Back
<1> HIDE DEF m, row
<1>7. /\ old.paid \in Nat /\ old.back \in Nat /\ HoldOf(old) \in Nat /\ Reserves(old) \in Nat
      /\ HoldOf(row) = HoldOf(old) /\ Reserves(row) = Reserves(old)
  BY <1>1, <1>5, RowNumbers DEF HoldOf, Reserves
<1>8. RowOK(row)
  <2> HIDE DEF old, d
  <2> QED
    BY <1>1, <1>2, <1>5, <1>7 DEF RowOK
<1>9. /\ d.held = d.held - HoldOf(old) + HoldOf(row)
      /\ d.taken = d.taken - old.paid + row.paid
      /\ z = d.back - old.back + row.back
      /\ row.paid + Reserves(row) <= old.paid + Reserves(old)
  <2> HIDE DEF old, d
  <2> QED
    BY <1>1, <1>2, <1>5, <1>7
<1> HIDE DEF old, z
<1>10. Strong(Home[s], WriteCollectionTotals(m, d.held, d.taken, z))
  BY <1>1, <1>4, <1>8, <1>9, OneRow DEF old
<1> QED
  BY <1>6, <1>10

\* A call leaves the other collections alone.
LEMMA CallSums ==
    ASSUME PayInv, Summed, NEW s \in Sessions, NEW d, NEW e, NEW r, Call(s, d, e, r), Writes(s)
    PROVE  Summed'
<1>1. /\ db' = db /\ \A x \in Collections : x # Home[s] => tx'[x] = tx[x]
  BY CallWrites
<1>2. ASSUME NEW c \in Collections, tx'[c].open PROVE Strong(c, tx'[c].db)
  <2>1. CASE c = Home[s]
    BY <2>1 DEF Writes
  <2>2. CASE c # Home[s]
    BY <1>1, <1>2, <2>2 DEF Summed
  <2> QED
    BY <2>1, <2>2
<1>3. \A c \in Collections : Strong(c, db[c])
  BY DEF Summed
<1>4. \A c \in Collections : Strong(c, db'[c]) /\ (tx'[c].open => Strong(c, tx'[c].db))
  BY <1>1, <1>2, <1>3
<1>5. Summed' <=> \A c \in Collections : Strong(c, db'[c]) /\ (tx'[c].open => Strong(c, tx'[c].db))
  BY DEF Summed, Strong
<1> QED
  BY <1>4, <1>5

\* The end of a transaction, and what leaves both ledgers alone.
LEMMA EndSums ==
    ASSUME PayInv, Summed, NEW c \in Collections, Commit(c) \/ Rollback(c)
    PROVE  Summed'
<1>1. ~tx'[c].open /\ \A x \in Collections : x # c => tx'[x] = tx[x]
  BY EndKeeps DEF Commit, Rollback
<1>2. /\ db'[c] = db[c] \/ (tx[c].open /\ db'[c] = tx[c].db)
      /\ \A x \in Collections : x # c => db'[x] = db[x]
  BY DEF Commit, Rollback, PayInv, Ledgers
<1>3. \A x \in Collections : Strong(x, db[x]) /\ (tx[x].open => Strong(x, tx[x].db))
  BY DEF Summed
<1>4. \A x \in Collections : Strong(x, db'[x]) /\ (tx'[x].open => Strong(x, tx'[x].db))
  BY <1>1, <1>2, <1>3
<1>5. Summed' <=> \A x \in Collections : Strong(x, db'[x]) /\ (tx'[x].open => Strong(x, tx'[x].db))
  BY DEF Summed, Strong
<1> QED
  BY <1>4, <1>5

\* The sums: a step that touches no ledger.
LEMMA SameSums ==
    ASSUME Summed, UNCHANGED <<db, tx>>
    PROVE  Summed'
BY DEF Summed, Strong

\* An empty ledger adds up.
LEMMA StartSums == ASSUME Init PROVE Summed
<1> SUFFICES ASSUME NEW c \in Collections PROVE Strong(c, db[c]) /\ ~tx[c].open
  BY DEF Summed
<1>1. db[c] = Empty(c) /\ ~tx[c].open
  BY DEF Init, NoTx
<1> DEFINE d == Empty(c)
           S == SessionsOf(c)
<1>2. 0 \in Money /\ NoRow \in Row /\ Amount \in Nat
  BY PaymentAssumption DEF Money, NoRow, Row, Statuses
<1>3. d \in LedgerOf(c)
  BY <1>2 DEF Empty, LedgerOf, CollectionStatuses
<1>4. /\ d.held = 0 /\ d.taken = 0 /\ d.back = 0 /\ d.status = "not_paid"
      /\ DOMAIN d.ses = S /\ \A s \in S : d.ses[s] = NoRow
  BY DEF Empty
<1> HIDE DEF d
<1>5. RowOK(NoRow) /\ HoldOf(NoRow) = 0 /\ Reserves(NoRow) = 0 /\ NoRow.paid = 0 /\ NoRow.back = 0
      /\ NoRow.status = "none"
  BY DEF RowOK, HoldOf, Reserves, NoRow
<1>6. IsFiniteSet(S) /\ \A s \in S : /\ HoldsOf(d)[s] = HoldOf(d.ses[s]) /\ Takes(d)[s] = d.ses[s].paid
                                     /\ Backs(d)[s] = d.ses[s].back /\ Claims(d)[s] = Reserves(d.ses[s])
  BY <1>3, LedgerNumbers
<1>7. \A s \in S : HoldsOf(d)[s] = 0 /\ Takes(d)[s] = 0 /\ Backs(d)[s] = 0 /\ Claims(d)[s] = 0
  BY <1>4, <1>5, <1>6
<1>8. /\ SumFunctionOnSet(HoldsOf(d), S) = 0 /\ SumFunctionOnSet(Takes(d), S) = 0
      /\ SumFunctionOnSet(Backs(d), S) = 0 /\ SumFunctionOnSet(Claims(d), S) = 0
  <2>1. ASSUME NEW f, \A s \in S : f[s] = 0 PROVE SumFunctionOnSet(f, S) = 0
    BY <1>6, <2>1, SumZero
  <2> QED
    BY <1>7, <2>1
<1>9. CollectionStatusFor(d) = "not_paid"
  <2>1. Live(d) = {} /\ ~\E s \in DOMAIN d.ses : d.ses[s].status = "canceled"
    BY <1>4, <1>5 DEF Live
  <2>2. ~(0 > 0) /\ ~(0 >= Amount)
    BY PaymentAssumption
  <2> QED
    BY <1>4, <2>1, <2>2 DEF CollectionStatusFor
<1>10. Strong(c, d)
  BY <1>2, <1>4, <1>5, <1>8, <1>9 DEF Strong
<1> QED
  BY <1>1, <1>10 DEF d

\* Every step keeps the sums.
LEMMA StepSums == PayInv /\ Summed /\ [Next]_vars => Summed'
<1> SUFFICES ASSUME PayInv, Summed, [Next]_vars PROVE Summed'
  OBVIOUS
<1>1. ASSUME NEW s \in Sessions, NEW d, NEW e, NEW r, Call(s, d, e, r), Writes(s) PROVE Summed'
  BY <1>1, CallSums
<1>2. ASSUME NEW s \in Sessions, NEW a \in 1..Amount, CreateSession(s, a) PROVE Summed'
  <2>1. \E d, e, r : Call(s, d, e, r)
    BY <1>2 DEF CreateSession
  <2> QED
    BY <1>1, <1>2, <2>1, CreateWrites
<1>3. ASSUME NEW s \in Sessions, NEW a \in 1..Amount, CapturePayment(s, a) PROVE Summed'
  <2>1. \E d, e, r : Call(s, d, e, r)
    BY <1>3 DEF CapturePayment
  <2> QED
    BY <1>1, <1>3, <2>1, CaptureWrites
<1>4. ASSUME NEW s \in Sessions, AuthorizePayment(s) PROVE Summed'
  <2>1. \E d, e, r : Call(s, d, e, r)
    BY <1>4 DEF AuthorizePayment
  <2> QED
    BY <1>1, <1>4, <2>1, AuthorizeWrites
<1>5. ASSUME NEW s \in Sessions, CancelPayment(s) PROVE Summed'
  <2>1. \E d, e, r : Call(s, d, e, r)
    BY <1>5 DEF CancelPayment
  <2> QED
    BY <1>1, <1>5, <2>1, CancelWrites
<1>6. ASSUME NEW s \in Sessions, NEW a, NEW k, NEW e, NEW r, MayRefund(s, a, k),
             Call(s, RefundedBy(db[Home[s]], s, a), e, r)
      PROVE  Summed'
  <2>1. a \in Nat
    BY <1>6 DEF MayRefund
  <2>2. Strong(Home[s], RefundedBy(db[Home[s]], s, a))
    BY <1>6, <2>1, RefundWrites
  <2>3. tx'[Home[s]].db = RefundedBy(db[Home[s]], s, a)
    BY <1>6, CallWrites
  <2> QED
    BY <1>1, <1>6, <2>2, <2>3 DEF Writes
<1>7. ASSUME NEW s \in Sessions, NEW a \in 1..Amount, RefundPayment(s, a) PROVE Summed'
  BY <1>6, <1>7 DEF RefundPayment
<1>8. ASSUME NEW r \in Refunders, RefundPart(r) PROVE Summed'
  <2>1. CASE UNCHANGED <<db, tx>>
    BY <2>1, SameSums
  <2>2. CASE ~UNCHANGED <<db, tx>>
    <3> DEFINE k == refunding[r].cause
               a == Head(refunding[r].left).amount
    <3>1. \E s \in SessionsOf(Drawn[k]) : /\ MayRefund(s, a, k)
                                          /\ \E e : Call(s, RefundedBy(db[Home[s]], s, a), e, r)
      BY <1>8, <2>2 DEF RefundPart
    <3> HIDE DEF k, a
    <3> QED
      BY <1>6, <3>1 DEF SessionsOf
  <2> QED
    BY <2>1, <2>2
<1>9. ASSUME NEW c \in Collections, Commit(c) \/ Rollback(c) PROVE Summed'
  BY <1>9, EndSums
<1>10. CASE \/ UNCHANGED vars
            \/ Reconcile
            \/ \E s \in Sessions : Settle(s) \/ WindowEnds(s) \/ ReconcileOne(s) \/ ReconcileUnreachable(s)
            \/ \E c \in Collections : PagePaid(c)
            \/ \E r \in Refunders : \/ \E k \in Causes : RefundCollection(r, k)
                                    \/ \E ask \in Money : PlanRefund(r, ask)
  <2>1. UNCHANGED <<db, tx>>
    BY <1>10 DEF vars, Reconcile, Settle, WindowEnds, ReconcileOne, ReconcileUnreachable, PagePaid, RefundCollection, PlanRefund
  <2> QED
    BY <2>1, SameSums
<1> QED
  BY <1>2, <1>3, <1>4, <1>5, <1>7, <1>8, <1>9, <1>10 DEF Next

-----------------------------------------------------------------------------
(* The providers' books against the rows.  A provider's entry only grows,  *)
(* and what a call leaves in it is compared with the row before and after. *)

\* What a session's row takes of the collection's amount
Charge(row) == row.paid + Reserves(row)

EntryOK(e) == e.back <= e.taken /\ (e.status # "captured" => e.taken = 0)
Later(e, f) == e.taken <= f.taken /\ e.back <= f.back
Real(row, e) == row.paid <= e.taken /\ row.back <= e.back

\* A session on a page is for the page's amount, and is authorized once it was paid.
PageRow(row, e) ==
    /\ row.status = "none" \/ e.status # "none"
    /\ row.status = "pending" => row.amount = e.amount
    /\ row.status = "authorized" => e.status = "captured"

\* A row of a page that takes what was paid on it, or was captured, of all of it or a part.
Covers(row, e) == row.status = "captured" \/ e.taken <= Charge(row)

\* What a call on s makes of the row old, the entry b: the row n, the entry e.
Moves(s, old, b, n, e) ==
    /\ EntryOK(e) /\ Later(b, e)
    /\ Real(old, b) => Real(n, e)
    /\ Provider[s] # "page" /\ b.taken <= Charge(old) => e.taken <= Charge(old) /\ e.taken <= Charge(n)
    /\ Provider[s] = "page" =>
          /\ e.taken = b.taken
          /\ IF b.status = "none" THEN e.status = "pending"
             ELSE e.status = b.status /\ e.amount = b.amount
          /\ PageRow(old, b) => PageRow(n, e)
          /\ n.back + b.back <= e.back + old.back
          /\ b.back < b.taken /\ Covers(old, b) => e.back = e.taken \/ Covers(n, e)

Outcome(s) ==
    Moves(s, db[Home[s]].ses[s], books[Book(s)], tx'[Home[s]].db.ses[s], tx'[Home[s]].entry)

\* The amounts in a provider's book are numbers.
LEMMA EntryNumbers ==
    ASSUME NEW e \in Entry
    PROVE  /\ e.amount \in Nat /\ e.hold \in Nat /\ e.taken \in Nat /\ e.back \in Nat
           /\ e.status \in Statuses
BY PaymentAssumption DEF Entry, Money

\* What a row takes of the amount, for each of its statuses.
LEMMA ChargeNumber ==
    ASSUME NEW row \in Row, RowOK(row)
    PROVE  /\ Charge(row) \in Nat
           /\ row.status \in {"none", "canceled", "failed"} => Charge(row) = 0 /\ row.paid = 0 /\ row.back = 0
           /\ row.status = "pending" => Charge(row) = row.amount /\ row.paid = 0 /\ row.back = 0
           /\ row.status = "authorized" => Charge(row) = row.hold /\ row.paid = 0 /\ row.back = 0
           /\ row.status = "captured" => Charge(row) = row.paid
BY RowNumbers DEF Charge, Reserves, RowOK

\* A call, its new row and its entry.
LEMMA CallLeaves ==
    ASSUME PayInv, NEW s \in Sessions, NEW m, NEW h \in Int, NEW t \in Int, NEW b \in Int, NEW e, NEW r,
           Call(s, WriteCollectionTotals(m, h, t, b), e, r), m \in LedgerOf(Home[s])
    PROVE  tx'[Home[s]].db.ses[s] = m.ses[s] /\ tx'[Home[s]].entry = e
<1>1. Home[s] \in Collections
  BY AtHome
<1>2. WriteCollectionTotals(m, h, t, b).ses = m.ses
  BY <1>1, TotalsWritten
<1>3. tx'[Home[s]].db = WriteCollectionTotals(m, h, t, b) /\ tx'[Home[s]].entry = e
  BY <1>1 DEF Call, PayInv, Transactions
<1> QED
  BY <1>2, <1>3

\* The books in good order, of every provider.
BooksOK ==
    /\ \A x \in Sessions \cup Collections : EntryOK(books[x])
    /\ \A c \in Collections : tx[c].open => EntryOK(tx[c].entry)

\* What a call starts from.
LEMMA BeforeCall ==
    ASSUME PayInv, Summed, BooksOK, NEW s \in Sessions
    PROVE  /\ Home[s] \in Collections /\ s \in SessionsOf(Home[s]) /\ db[Home[s]] \in LedgerOf(Home[s])
           /\ db[Home[s]].ses[s] \in Row /\ RowOK(db[Home[s]].ses[s])
           /\ db[Home[s]].held \in Int /\ db[Home[s]].taken \in Int /\ db[Home[s]].back \in Int
           /\ books[Book(s)] \in Entry /\ EntryOK(books[Book(s)])
           /\ Provider[s] # "page" => Book(s) = s
<1>1. Book(s) \in Sessions \cup Collections
  BY AtHome
<1>2. EntryOK(books[Book(s)])
  BY <1>1 DEF BooksOK
<1> QED
  BY <1>2, StrongAt, HomeTyped DEF Book

\* The books: a session is opened.
LEMMA CreateMoves ==
    ASSUME PayInv, Summed, BooksOK, NEW s \in Sessions, NEW a \in 1..Amount, CreateSession(s, a)
    PROVE  Outcome(s)
<1> DEFINE d == db[Home[s]]
           old == d.ses[s]
           b == books[Book(s)]
           row == [NoRow EXCEPT !.status = "pending", !.amount = a]
           m == [d EXCEPT !.ses[s] = row]
<1>1. PICK e \in IF Provider[s] = "page" THEN PaytrCreateSession(b, a) ELSE ManualCreateSession(books[s], a) :
         Call(s, WriteCollectionTotals(m, d.held, d.taken, d.back), e, NoOne)
  BY DEF CreateSession
<1>2. old.status = "none"
  BY DEF CreateSession
<1>3. /\ Home[s] \in Collections /\ s \in SessionsOf(Home[s]) /\ d \in LedgerOf(Home[s])
      /\ old \in Row /\ RowOK(old) /\ d.held \in Int /\ d.taken \in Int /\ d.back \in Int
      /\ b \in Entry /\ EntryOK(b) /\ (Provider[s] # "page" => b = books[s])
  BY BeforeCall
<1>4. row \in Row /\ row.status = "pending" /\ row.amount = a /\ row.paid = 0 /\ row.back = 0 /\ row.hold = 0
  <2>1. a \in Money /\ 0 \in Money
    BY PaymentAssumption DEF Money
  <2> QED
    BY <2>1 DEF NoRow, Row, Statuses
<1> HIDE DEF row
<1>5. m \in LedgerOf(Home[s]) /\ m.ses[s] = row
  BY <1>3, <1>4, RowSet DEF Rewrites
<1> HIDE DEF m
<1>6. tx'[Home[s]].db.ses[s] = row /\ tx'[Home[s]].entry = e
  BY <1>1, <1>3, <1>5, CallLeaves
<1>7. /\ b.status = "none" => e.status = "pending" /\ e.amount = a /\ e.taken = 0 /\ e.back = 0
      /\ b.status # "none" => e = b /\ e.amount = a
  BY <1>1, <1>3 DEF PaytrCreateSession, ManualCreateSession, NoEntry
<1>8. b.taken \in Nat /\ b.back \in Nat /\ a \in Nat /\ (b.status = "none" => b.taken = 0 /\ b.back = 0)
  BY <1>3, EntryNumbers DEF EntryOK
<1>9. Charge(old) = 0 /\ Charge(row) = a /\ old.paid = 0 /\ old.back = 0
  <2>1. Charge(row) = a
    BY <1>4, <1>8 DEF Charge, Reserves
  <2> QED
    BY <1>2, <1>3, <2>1, ChargeNumber
<1>10. EntryOK(e) /\ Later(b, e) /\ Real(row, e)
  BY <1>3, <1>4, <1>7, <1>8 DEF EntryOK, Later, Real
<1>11. PageRow(row, e)
  BY <1>4, <1>7 DEF PageRow
<1>12. old.status # "captured" /\ row.back = 0
  BY <1>2, <1>4
<1> HIDE DEF old, b
<1>13. ~(b.back < b.taken /\ Covers(old, b))
  BY <1>8, <1>9, <1>12 DEF Covers
<1>14. row.back + b.back <= e.back + old.back
  BY <1>7, <1>8, <1>9, <1>12
<1>15. Moves(s, old, b, row, e)
  BY <1>7, <1>8, <1>9, <1>10, <1>11, <1>13, <1>14 DEF Moves
<1> QED
  BY <1>6, <1>15 DEF Outcome, old, b

\* A status and a hold are written.
LEMMA HoldMoves ==
    ASSUME PayInv, Summed, BooksOK, NEW s \in Sessions,
           NEW st \in {"authorized", "failed", "canceled"}, NEW h \in Money, NEW x \in Int, NEW e \in Entry,
           LET d == db[Home[s]]
               old == d.ses[s]
               b == books[Book(s)]
           IN  /\ Call(s, WriteCollectionTotals(Held(d, s, st, h), x, d.taken, d.back), e, NoOne)
               /\ old.status # "captured"
               /\ EntryOK(e) /\ Later(b, e)
               /\ Provider[s] # "page" => e.taken = 0
               /\ Provider[s] = "page" =>
                     /\ e.taken = b.taken
                     /\ IF b.status = "none" THEN FALSE ELSE e.status = b.status /\ e.amount = b.amount
                     /\ st = "authorized" => e.status = "captured" /\ h = e.taken
                     /\ st = "canceled" /\ b.back < b.taken => e.back = e.taken
                     /\ st # "failed"
    PROVE  Outcome(s)
<1> DEFINE d == db[Home[s]]
           old == d.ses[s]
           b == books[Book(s)]
           m == Held(d, s, st, h)
           row == HeldRow(old, st, h)
<1>1. /\ Home[s] \in Collections /\ s \in SessionsOf(Home[s]) /\ d \in LedgerOf(Home[s])
      /\ old \in Row /\ RowOK(old) /\ d.held \in Int /\ d.taken \in Int /\ d.back \in Int
      /\ b \in Entry
  BY BeforeCall
<1>2. st \in Statuses
  BY DEF Statuses
<1>3. row \in Row /\ m \in LedgerOf(Home[s]) /\ m.ses[s] = row
  BY <1>1, <1>2, HoldSet DEF Rewrites
<1>4. row.status = st /\ row.hold = h /\ row.paid = old.paid /\ row.back = old.back
  BY <1>1 DEF HeldRow, Row
<1>5. /\ Call(s, WriteCollectionTotals(m, x, d.taken, d.back), e, NoOne)
      /\ old.status # "captured"
      /\ EntryOK(e) /\ Later(b, e)
      /\ Provider[s] # "page" => e.taken = 0
      /\ Provider[s] = "page" =>
            /\ e.taken = b.taken
            /\ b.status # "none" /\ e.status = b.status /\ e.amount = b.amount
            /\ st = "authorized" => e.status = "captured" /\ h = e.taken
            /\ st = "canceled" /\ b.back < b.taken => e.back = e.taken
            /\ st # "failed"
  OBVIOUS
<1> HIDE DEF row, m
<1>6. tx'[Home[s]].db.ses[s] = row /\ tx'[Home[s]].entry = e
  BY <1>1, <1>3, <1>5, CallLeaves
<1>7. old.paid = 0 /\ old.back = 0 /\ Charge(old) \in Nat /\ b.taken \in Nat /\ b.back \in Nat
      /\ old.status \in Statuses
  BY <1>1, <1>5, ChargeNumber, EntryNumbers, RowNumbers DEF Statuses
<1>8. h \in Nat
  BY PaymentAssumption DEF Money
<1>9. Charge(row) \in Nat /\ (st = "authorized" => Charge(row) = h)
  BY <1>4, <1>7, <1>8 DEF Charge, Reserves
<1>10. Real(old, b) => Real(row, e)
  BY <1>4, <1>5, <1>7, EntryNumbers DEF Real, Later
<1>11. Provider[s] = "page" => PageRow(row, e)
  BY <1>4, <1>5 DEF PageRow
<1>12. row.back = old.back
  BY <1>4
<1> HIDE DEF old, b
<1>13. Provider[s] = "page" => row.back + b.back <= e.back + old.back
  BY <1>5, <1>7, <1>12, EntryNumbers DEF Later
<1>14. Provider[s] = "page" /\ b.back < b.taken /\ Covers(old, b) => e.back = e.taken \/ Covers(row, e)
  BY <1>5, <1>7, <1>9 DEF Covers
<1>15. Moves(s, old, b, row, e)
  BY <1>5, <1>7, <1>9, <1>10, <1>11, <1>13, <1>14 DEF Moves
<1> QED
  BY <1>6, <1>15 DEF Outcome, old, b

\* The books: an authorization.
LEMMA AuthorizeMoves ==
    ASSUME PayInv, Summed, BooksOK, NEW s \in Sessions, AuthorizePayment(s)
    PROVE  Outcome(s)
<1> DEFINE d == db[Home[s]]
           old == d.ses[s]
           b == books[Book(s)]
<1>1. /\ old \in Row /\ RowOK(old) /\ d.held \in Int /\ b \in Entry /\ EntryOK(b)
      /\ (Provider[s] # "page" => b = books[s])
  BY BeforeCall
<1>2. old.status = "pending"
  BY DEF AuthorizePayment
<1>3. b.taken \in Nat /\ b.back \in Nat
  BY <1>1, EntryNumbers
<1>4. CASE Provider[s] = "page"
  <2>1. PICK e \in PaytrAuthorize(b) :
           /\ e.taken <= old.amount
           /\ Call(s, WriteCollectionTotals(Held(d, s, "authorized", e.taken), d.held + e.taken, d.taken, d.back),
                   e, NoOne)
    BY <1>4 DEF AuthorizePayment, Held
  <2>2. e = b /\ b.status = "captured"
    BY DEF PaytrAuthorize
  <2>3. e \in Entry /\ e.taken \in Money /\ d.held + e.taken \in Int
    BY <1>1, <1>3, <2>2 DEF Entry
  <2>4. EntryOK(e) /\ Later(b, e)
    BY <1>1, <1>3, <2>2 DEF Later
  <2> DEFINE x == d.held + e.taken
             h == e.taken
  <2>5. Call(s, WriteCollectionTotals(Held(d, s, "authorized", h), x, d.taken, d.back), e, NoOne)
        /\ x \in Int /\ h \in Money /\ h = e.taken
    BY <2>1, <2>3
  <2> HIDE DEF x, h
  <2> QED
    BY <1>2, <1>4, <2>2, <2>3, <2>4, <2>5, HoldMoves
<1>5. CASE Provider[s] # "page"
  <2>1. PICK e \in ManualAuthorize(books[s]) :
            \/ /\ e.status = "authorized" /\ e.hold <= old.amount
               /\ Call(s, WriteCollectionTotals(Held(d, s, "authorized", e.hold), d.held + e.hold, d.taken, d.back),
                       e, NoOne)
            \/ /\ e.status = "failed"
               /\ Call(s, WriteCollectionTotals(Held(d, s, "failed", 0), d.held, d.taken, d.back), e, NoOne)
    BY <1>5 DEF AuthorizePayment, Held
  <2>2. e \in Entry
    <3>1. books[s] \in Entry
      BY HomeTyped
    <3>2. \A h \in 1..books[s].amount : h \in Money
      BY <3>1, PaymentAssumption DEF Entry, Money
    <3> QED
      BY <3>1, <3>2 DEF ManualAuthorize, Entry, Statuses
  <2>3. e.taken = b.taken /\ e.back = b.back
    <3>1. books[s] \in Entry
      BY HomeTyped
    <3>2. e.taken = books[s].taken /\ e.back = books[s].back
      BY <3>1 DEF ManualAuthorize, Entry
    <3> QED
      BY <1>1, <1>5, <3>2
  <2>4. b.taken = 0
    BY <1>1, <1>5, <2>1 DEF ManualAuthorize, EntryOK
  <2>5. EntryOK(e) /\ Later(b, e) /\ e.taken = 0
    BY <1>1, <1>3, <2>3, <2>4 DEF Later, EntryOK
  <2>6. e.hold \in Money /\ d.held + e.hold \in Int /\ 0 \in Money
    BY <1>1, <2>2, PaymentAssumption DEF Entry, Money
  <2>7. CASE Call(s, WriteCollectionTotals(Held(d, s, "failed", 0), d.held, d.taken, d.back), e, NoOne)
    BY <1>1, <1>2, <1>5, <2>2, <2>5, <2>6, <2>7, HoldMoves
  <2>8. CASE Call(s, WriteCollectionTotals(Held(d, s, "authorized", e.hold), d.held + e.hold, d.taken, d.back),
                  e, NoOne)
    <3> DEFINE x == d.held + e.hold
    <3>1. Call(s, WriteCollectionTotals(Held(d, s, "authorized", e.hold), x, d.taken, d.back), e, NoOne) /\ x \in Int
      BY <2>6, <2>8
    <3> HIDE DEF x
    <3> QED
      BY <1>2, <1>5, <2>2, <2>5, <2>6, <3>1, HoldMoves
  <2> QED
    BY <2>1, <2>7, <2>8
<1> QED
  BY <1>4, <1>5

\* The books: a cancellation; a page cannot be voided.
LEMMA CancelMoves ==
    ASSUME PayInv, Summed, BooksOK, NEW s \in Sessions, CancelPayment(s),
           Provider[s] = "page" => PageRow(db[Home[s]].ses[s], books[Book(s)])
    PROVE  Outcome(s)
<1> DEFINE d == db[Home[s]]
           old == d.ses[s]
           b == books[Book(s)]
           x == d.held - old.hold
<1>1. PICK e \in IF Provider[s] = "page" THEN PaytrCancel(b) ELSE ManualCancel(books[s]) :
         Call(s, WriteCollectionTotals(Held(d, s, "canceled", 0), x, d.taken, d.back), e, NoOne)
  BY DEF CancelPayment, Held
<1>2. /\ old \in Row /\ RowOK(old) /\ d.held \in Int /\ b \in Entry /\ EntryOK(b)
      /\ (Provider[s] # "page" => b = books[s])
  BY BeforeCall
<1>3. old.status # "captured" /\ old.status # "none"
  BY DEF CancelPayment
<1>4. b.taken \in Nat /\ b.back \in Nat /\ 0 \in Money /\ x \in Int
  BY <1>2, EntryNumbers, RowNumbers, PaymentAssumption DEF Money
<1>5. e \in Entry
  <2>1. ASSUME NEW f \in Entry PROVE PaytrCancel(f) \subseteq Entry /\ ManualCancel(f) \subseteq Entry
    BY <1>4, <2>1 DEF PaytrCancel, ManualCancel, Entry, Statuses
  <2> QED
    BY <1>1, <1>2, <2>1
<1>6. Provider[s] # "page" => e.taken = 0 /\ b.taken = 0 /\ e.back = b.back
  BY <1>1, <1>2 DEF ManualCancel, EntryOK, Entry
<1>7. Provider[s] = "page" => /\ e.taken = b.taken /\ e.status = b.status /\ e.amount = b.amount
                              /\ b.status = "captured" => e.back = e.taken
                              /\ b.status # "captured" => e.back = b.back
  BY <1>1, <1>2 DEF PaytrCancel, Entry
<1>8. EntryOK(e) /\ Later(b, e)
  BY <1>2, <1>4, <1>5, <1>6, <1>7 DEF EntryOK, Later
<1>9. Provider[s] = "page" => b.status # "none" /\ (b.back < b.taken => e.back = e.taken)
  BY <1>2, <1>3, <1>4, <1>7 DEF PageRow, EntryOK
<1> HIDE DEF x
<1> QED
  BY <1>1, <1>3, <1>4, <1>5, <1>6, <1>7, <1>8, <1>9, HoldMoves

\* The books: a capture.
LEMMA CaptureMoves ==
    ASSUME PayInv, Summed, BooksOK, NEW s \in Sessions, NEW a \in 1..Amount, CapturePayment(s, a)
    PROVE  Outcome(s)
<1> DEFINE d == db[Home[s]]
           old == d.ses[s]
           b == books[Book(s)]
           m == Captured(d, s, a)
           row == CapturedRow(old, a)
           x == d.held - old.hold
           y == d.taken + a
<1>1. PICK e \in IF Provider[s] = "page" THEN PaytrCapture(b, a) ELSE ManualCapture(books[s], a) :
         Call(s, WriteCollectionTotals(m, x, y, d.back), e, NoOne)
  BY DEF CapturePayment, Captured
<1>2. old.status = "authorized" /\ a <= old.hold
  BY DEF CapturePayment
<1>3. /\ Home[s] \in Collections /\ s \in SessionsOf(Home[s]) /\ d \in LedgerOf(Home[s])
      /\ old \in Row /\ RowOK(old) /\ d.held \in Int /\ d.taken \in Int /\ d.back \in Int
      /\ b \in Entry /\ EntryOK(b) /\ (Provider[s] # "page" => b = books[s])
  BY BeforeCall
<1>4. a \in Money /\ a \in Nat /\ x \in Int /\ y \in Int
  BY <1>3, RowNumbers, PaymentAssumption DEF Money
<1>5. row \in Row /\ m \in LedgerOf(Home[s]) /\ m.ses[s] = row
  BY <1>3, <1>4, CaptureSet DEF Rewrites
<1>6. row.status = "captured" /\ row.paid = a /\ row.back = old.back
  BY <1>3 DEF CapturedRow, Row
<1> HIDE DEF m, row, x, y
<1>7. tx'[Home[s]].db.ses[s] = row /\ tx'[Home[s]].entry = e
  BY <1>1, <1>3, <1>4, <1>5, CallLeaves
<1>8. /\ old.paid = 0 /\ old.back = 0 /\ Charge(old) = old.hold /\ old.hold \in Nat
      /\ Charge(row) = a
  BY <1>2, <1>3, <1>4, <1>6, ChargeNumber, RowNumbers DEF Charge, Reserves
<1>9. b.taken \in Nat /\ b.back \in Nat
  BY <1>3, EntryNumbers
<1>10. Provider[s] # "page" => e.status = "captured" /\ e.taken = a /\ e.back = b.back /\ (b.taken = 0 \/ b.taken = a)
  BY <1>1, <1>3 DEF ManualCapture, Entry, EntryOK
<1>11. Provider[s] = "page" => e = b /\ b.status = "captured" /\ a <= b.taken
  BY <1>1, <1>3, <1>4, <1>9 DEF PaytrCapture
<1>12. EntryOK(e) /\ Later(b, e) /\ Real(row, e)
  BY <1>3, <1>4, <1>6, <1>8, <1>9, <1>10, <1>11 DEF EntryOK, Later, Real
<1>13. Provider[s] = "page" => PageRow(row, e)
  BY <1>6, <1>11 DEF PageRow
<1>14. Covers(row, e) /\ row.back = 0
  BY <1>6, <1>8 DEF Covers
<1> HIDE DEF old, b
<1>15. Moves(s, old, b, row, e)
  BY <1>2, <1>4, <1>8, <1>9, <1>10, <1>11, <1>12, <1>13, <1>14 DEF Moves
<1> QED
  BY <1>7, <1>15 DEF Outcome, old, b

\* The books: a refund.
LEMMA RefundMovesBooks ==
    ASSUME PayInv, Summed, BooksOK, NEW s \in Sessions, NEW a, NEW k, MayRefund(s, a, k),
           NEW e \in RefundOutcomes(s, a), NEW r, Call(s, RefundedBy(db[Home[s]], s, a), e, r)
    PROVE  Outcome(s)
<1> DEFINE d == db[Home[s]]
           old == d.ses[s]
           b == books[Book(s)]
           m == Back(d, s, a)
           row == BackRow(old, a)
           z == d.back + a
<1>1. /\ Home[s] \in Collections /\ s \in SessionsOf(Home[s]) /\ d \in LedgerOf(Home[s])
      /\ old \in Row /\ RowOK(old) /\ d.held \in Int /\ d.taken \in Int /\ d.back \in Int
      /\ b \in Entry /\ EntryOK(b) /\ (Provider[s] # "page" => b = books[s])
  BY BeforeCall
<1>2. a <= old.paid - old.back /\ a \in Nat
  BY DEF MayRefund, Refundable
<1>3. old.back + a \in Money /\ z \in Int
  BY <1>1, <1>2, PaymentAssumption DEF Row, Money
<1>4. row \in Row /\ m \in LedgerOf(Home[s]) /\ m.ses[s] = row
  BY <1>1, <1>2, <1>3, BackSet DEF Rewrites
<1>5. /\ row.status = old.status /\ row.hold = old.hold /\ row.paid = old.paid
      /\ row.amount = old.amount /\ row.back = old.back + a
  BY <1>1 DEF BackRow, Row
<1>6. Call(s, WriteCollectionTotals(m, d.held, d.taken, z), e, r)
  BY DEF RefundedBy, Back
<1> HIDE DEF m, row, z
<1>7. tx'[Home[s]].db.ses[s] = row /\ tx'[Home[s]].entry = e
  BY <1>1, <1>3, <1>4, <1>6, CallLeaves
<1>8. b.taken \in Nat /\ b.back \in Nat /\ old.back \in Nat /\ old.paid \in Nat /\ Charge(old) \in Nat
  BY <1>1, EntryNumbers, RowNumbers, ChargeNumber
<1>9. /\ b.status = "captured" /\ a <= b.taken - b.back
      /\ e.status = b.status /\ e.amount = b.amount /\ e.taken = b.taken /\ e.back = b.back + a
  BY <1>1 DEF RefundOutcomes, PaytrRefund, ManualRefund, Entry
<1>10. Charge(row) = Charge(old)
  BY <1>5 DEF Charge, Reserves
<1>11. EntryOK(e) /\ Later(b, e) /\ (Real(old, b) => Real(row, e))
  BY <1>2, <1>5, <1>8, <1>9 DEF EntryOK, Later, Real
<1>12. PageRow(old, b) => PageRow(row, e)
  BY <1>5, <1>9 DEF PageRow
<1>13. Covers(old, b) => Covers(row, e)
  BY <1>5, <1>9, <1>10 DEF Covers
<1>14. row.back = old.back + a
  BY <1>5
<1> HIDE DEF old, b
<1>15. row.back + b.back <= e.back + old.back
  BY <1>2, <1>8, <1>9, <1>14
<1>16. Moves(s, old, b, row, e)
  BY <1>8, <1>9, <1>10, <1>11, <1>12, <1>13, <1>15 DEF Moves
<1> QED
  BY <1>7, <1>16 DEF Outcome, old, b

-----------------------------------------------------------------------------
(* What holds between two calls.  Each part is stated for a session's      *)
(* ledger d, the transaction t of its collection and an entry.             *)

Busy(s, t) == t.open /\ t.ses = s

\* A driven provider took no more than the row takes of the amount, before the commit
\* and after it.
DrivenAt(s, d, t, e) ==
    /\ e.taken <= Charge(d.ses[s])
    /\ Busy(s, t) => /\ t.entry.taken <= Charge(t.db.ses[s])
                     /\ Provider[s] # "inside" => e.taken <= Charge(t.db.ses[s])

PageAt(s, d, t, e) ==
    /\ PageRow(d.ses[s], e)
    /\ Busy(s, t) => PageRow(t.db.ses[s], e)

RealAt(s, d, t, e) ==
    /\ Real(d.ses[s], e)
    /\ Busy(s, t) => /\ Real(t.db.ses[s], t.entry)
                     /\ Provider[s] # "inside" => Real(t.db.ses[s], e)

\* What a page keeps, one of its sessions takes of the amount, or one was captured.
CoveredAt(c, d, t, e) ==
    e.back < e.taken =>
        \E s \in SessionsOf(c) : /\ Provider[s] = "page"
                                 /\ Covers(d.ses[s], e)
                                 /\ t.open => Covers(t.db.ses[s], e)

\* The sessions that share the page of a collection gave back together no more than
\* the page did.
OnPage(c) == {s \in SessionsOf(c) : Provider[s] = "page"}
PageBacks(c, d) == SumFunctionOnSet(Backs(d), OnPage(c))

ReturnedAt(c, d, t, e) ==
    /\ PageBacks(c, d) <= e.back
    /\ t.open => PageBacks(c, t.db) <= e.back

Driven == \A s \in Sessions : Provider[s] # "page" => DrivenAt(s, db[Home[s]], tx[Home[s]], books[s])

Paged ==
    \A s \in Sessions : Provider[s] = "page" =>
        /\ books[s].taken = 0 /\ books[s].back = 0
        /\ PageAt(s, db[Home[s]], tx[Home[s]], books[Home[s]])

Covered == \A c \in Collections \ stray : CoveredAt(c, db[c], tx[c], books[c])

RealRows == \A s \in Sessions : RealAt(s, db[Home[s]], tx[Home[s]], books[Book(s)])

Returned == \A c \in Collections : ReturnedAt(c, db[c], tx[c], books[c])

Behind == BooksOK /\ Driven /\ Paged

\* The facts about the books, in the state after a step.
LEMMA NextForms ==
    /\ BooksOK' <=> /\ \A x \in Sessions \cup Collections : EntryOK(books'[x])
                    /\ \A c \in Collections : tx'[c].open => EntryOK(tx'[c].entry)
    /\ Driven' <=> \A s \in Sessions : Provider[s] # "page" => DrivenAt(s, db'[Home[s]], tx'[Home[s]], books'[s])
    /\ Paged' <=> \A s \in Sessions : Provider[s] = "page" =>
                     /\ books'[s].taken = 0 /\ books'[s].back = 0
                     /\ PageAt(s, db'[Home[s]], tx'[Home[s]], books'[Home[s]])
    /\ Covered' <=> \A c \in Collections \ stray' : CoveredAt(c, db'[c], tx'[c], books'[c])
    /\ RealRows' <=> \A s \in Sessions : RealAt(s, db'[Home[s]], tx'[Home[s]], books'[Book(s)])
    /\ Returned' <=> \A c \in Collections : ReturnedAt(c, db'[c], tx'[c], books'[c])
<1>1. BooksOK' <=> /\ \A x \in Sessions \cup Collections : EntryOK(books'[x])
                   /\ \A c \in Collections : tx'[c].open => EntryOK(tx'[c].entry)
  BY DEF BooksOK, EntryOK
<1>2. Driven' <=> \A s \in Sessions : Provider[s] # "page" => DrivenAt(s, db'[Home[s]], tx'[Home[s]], books'[s])
  BY DEF Driven, DrivenAt, Busy, Charge, Reserves
<1>3. Paged' <=> \A s \in Sessions : Provider[s] = "page" =>
                    /\ books'[s].taken = 0 /\ books'[s].back = 0
                    /\ PageAt(s, db'[Home[s]], tx'[Home[s]], books'[Home[s]])
  BY DEF Paged, PageAt, Busy, PageRow
<1>4. Covered' <=> \A c \in Collections \ stray' : CoveredAt(c, db'[c], tx'[c], books'[c])
  BY DEF Covered, CoveredAt, Covers, SessionsOf, Charge, Reserves
<1>5. RealRows' <=> \A s \in Sessions : RealAt(s, db'[Home[s]], tx'[Home[s]], books'[Book(s)])
  BY DEF RealRows, RealAt, Busy, Real, Book
<1>6. Returned' <=> \A c \in Collections : ReturnedAt(c, db'[c], tx'[c], books'[c])
  BY DEF Returned, ReturnedAt, PageBacks, OnPage, SessionsOf, Backs
<1> QED
  BY <1>1, <1>2, <1>3, <1>4, <1>5, <1>6

\* What a call changes: the transaction of its collection, and one entry.
LEMMA CallShape ==
    ASSUME PayInv, PayInv', NEW s \in Sessions, NEW d, NEW e, NEW r, Call(s, d, e, r)
    PROVE  /\ Home[s] \in Collections /\ ~tx[Home[s]].open
           /\ tx'[Home[s]].open /\ tx'[Home[s]].ses = s /\ tx'[Home[s]].entry = e
           /\ db' = db /\ stray' = stray
           /\ \A c \in Collections : c # Home[s] => tx'[c] = tx[c]
           /\ \A u \in SessionsOf(Home[s]) : u # s => tx'[Home[s]].db.ses[u] = db[Home[s]].ses[u]
           /\ \A x \in Sessions \cup Collections : x # Book(s) => books'[x] = books[x]
           /\ books'[Book(s)] = IF Provider[s] = "inside" THEN books[Book(s)] ELSE e
<1>1. Home[s] \in Collections /\ Book(s) \in Sessions \cup Collections
  BY AtHome
<1>2. /\ ~tx[Home[s]].open /\ db' = db /\ stray' = stray
      /\ tx'[Home[s]].open /\ tx'[Home[s]].ses = s /\ tx'[Home[s]].entry = e
      /\ \A c \in Collections : c # Home[s] => tx'[c] = tx[c]
  BY <1>1 DEF Call, PayInv, Transactions
<1>3. books \in [Sessions \cup Collections -> Entry]
  BY DEF PayInv, Rest
<1>4. /\ \A x \in Sessions \cup Collections : x # Book(s) => books'[x] = books[x]
      /\ books'[Book(s)] = IF Provider[s] = "inside" THEN books[Book(s)] ELSE e
  BY <1>1, <1>3 DEF Call
<1>5. \A u \in SessionsOf(Home[s]) : u # s => tx'[Home[s]].db.ses[u] = db[Home[s]].ses[u]
  <2>1. (tx[Home[s]].open => Opened(Home[s], db[Home[s]], tx[Home[s]]))'
    BY <1>1, OpenIs DEF PayInv, Transactions, NoTx
  <2>2. \A u \in SessionsOf(Home[s]) : u # tx'[Home[s]].ses => tx'[Home[s]].db.ses[u] = db'[Home[s]].ses[u]
    BY <1>2, <2>1 DEF Opened, SessionsOf
  <2> QED
    BY <1>2, <2>2
<1> QED
  BY <1>1, <1>2, <1>4, <1>5

\* What the sessions of a page gave back is told by their rows.
LEMMA PageNumbers ==
    ASSUME NEW c, NEW d \in LedgerOf(c)
    PROVE  /\ IsFiniteSet(OnPage(c)) /\ Numbers(Backs(d), OnPage(c))
           /\ \A s \in OnPage(c) : Backs(d)[s] = d.ses[s].back
<1>1. OnPage(c) \subseteq SessionsOf(c)
  BY DEF OnPage
<1> QED
  BY <1>1, LedgerNumbers, FS_Subset DEF Numbers

\* It stays with them,
LEMMA PageSame ==
    ASSUME NEW c, NEW d \in LedgerOf(c), NEW n \in LedgerOf(c)
    PROVE  /\ PageBacks(c, d) \in Int
           /\ (\A s \in OnPage(c) : n.ses[s] = d.ses[s]) => PageBacks(c, n) = PageBacks(c, d)
<1>1. PageBacks(c, d) \in Int
  BY PageNumbers, SumInt DEF PageBacks
<1>2. ASSUME \A s \in OnPage(c) : n.ses[s] = d.ses[s] PROVE PageBacks(c, n) = PageBacks(c, d)
  <2>1. \A s \in OnPage(c) : Backs(n)[s] = Backs(d)[s]
    BY <1>2, PageNumbers
  <2> QED
    BY <2>1, PageNumbers, SumSame DEF PageBacks
<1> QED
  BY <1>1, <1>2

\* and changes with the row of one.
LEMMA PageChange ==
    ASSUME NEW c, NEW d \in LedgerOf(c), NEW n \in LedgerOf(c), NEW s \in OnPage(c),
           \A u \in OnPage(c) : u # s => n.ses[u] = d.ses[u]
    PROVE  PageBacks(c, n) = PageBacks(c, d) - d.ses[s].back + n.ses[s].back
<1> DEFINE S == OnPage(c)
           f == Backs(d)
           e == Backs(n)
<1>1. IsFiniteSet(S) /\ Numbers(f, S) /\ Numbers(e, S) /\ f[s] = d.ses[s].back /\ e[s] = n.ses[s].back
  BY PageNumbers
<1>2. \A u \in S : u # s => e[u] = f[u]
  BY PageNumbers
<1> HIDE DEF S, e, f
<1>3. s \in S
  BY DEF S
<1>4. SumFunctionOnSet(e, S) = SumFunctionOnSet(f, S) - f[s] + e[s]
  BY <1>1, <1>2, <1>3, SumChange
<1> QED
  BY <1>1, <1>4 DEF PageBacks, S, e, f

\* What a call that moves the books soundly keeps.
LEMMA CallBehind ==
    ASSUME PayInv, PayInv', Behind, NEW s \in Sessions, NEW d, NEW e, NEW r, Call(s, d, e, r), Outcome(s)
    PROVE  /\ Behind'
           /\ Covered => Covered'
           /\ RealRows => RealRows'
           /\ Returned => Returned'
<1> DEFINE c == Home[s]
           old == db[c].ses[s]
           b == books[Book(s)]
           n == tx'[c].db.ses[s]
<1>1. /\ c \in Collections /\ ~tx[c].open
      /\ tx'[c].open /\ tx'[c].ses = s /\ tx'[c].entry = e
      /\ db' = db /\ stray' = stray
      /\ \A x \in Collections : x # c => tx'[x] = tx[x]
      /\ \A u \in SessionsOf(c) : u # s => tx'[c].db.ses[u] = db[c].ses[u]
      /\ \A x \in Sessions \cup Collections : x # Book(s) => books'[x] = books[x]
      /\ books'[Book(s)] = IF Provider[s] = "inside" THEN b ELSE e
  BY CallShape
<1>2. Moves(s, old, b, n, e)
  BY <1>1 DEF Outcome
<1>3. /\ Provider[s] = "page" => Book(s) = c
      /\ Provider[s] # "page" => Book(s) = s
      /\ s \notin Collections /\ c \notin Sessions /\ Book(s) \in Sessions \cup Collections
  BY <1>1, AtHome, PaymentAssumption DEF Book
<1>4. \A u \in Sessions : Home[u] \in Collections /\ u \in SessionsOf(Home[u]) /\ u \notin Collections
                          /\ Home[u] \notin Sessions
  BY AtHome, PaymentAssumption
<1>5. BooksOK'
  <2>1. EntryOK(e)
    BY <1>2 DEF Moves
  <2>2. \A x \in Sessions \cup Collections : EntryOK(books'[x])
    BY <1>1, <2>1 DEF Behind, BooksOK
  <2>3. \A x \in Collections : tx'[x].open => EntryOK(tx'[x].entry)
    BY <1>1, <2>1 DEF Behind, BooksOK
  <2> QED
    BY <2>2, <2>3, NextForms
<1>6. Driven'
  <2> SUFFICES ASSUME NEW u \in Sessions, Provider[u] # "page"
               PROVE  DrivenAt(u, db[Home[u]], tx'[Home[u]], books'[u])
    BY <1>1, NextForms
  <2>1. DrivenAt(u, db[Home[u]], tx[Home[u]], books[u])
    BY DEF Behind, Driven
  <2>2. CASE u = s
    <3>1. b = books[s] /\ b.taken <= Charge(old)
      BY <1>3, <2>1, <2>2 DEF DrivenAt
    <3>2. e.taken <= Charge(old) /\ e.taken <= Charge(n)
      BY <1>2, <2>2, <3>1 DEF Moves
    <3>3. books'[s] = b \/ books'[s] = e
      BY <1>1, <1>3, <2>2
    <3>4. Provider[s] # "inside" => books'[s] = e
      BY <1>1, <1>3, <2>2
    <3> QED
      BY <1>1, <2>2, <3>1, <3>2, <3>3, <3>4 DEF DrivenAt
  <2>3. CASE u # s
    <3>1. books'[u] = books[u]
      BY <1>1, <1>3, <1>4, <2>3
    <3>2. Busy(u, tx'[Home[u]]) => tx'[Home[u]] = tx[Home[u]]
      BY <1>1, <1>4, <2>3 DEF Busy
    <3> QED
      BY <2>1, <3>1, <3>2 DEF DrivenAt
  <2> QED
    BY <2>2, <2>3
<1>7. Paged'
  <2> SUFFICES ASSUME NEW u \in Sessions, Provider[u] = "page"
               PROVE  /\ books'[u].taken = 0 /\ books'[u].back = 0
                      /\ PageAt(u, db[Home[u]], tx'[Home[u]], books'[Home[u]])
    BY <1>1, NextForms
  <2>1. /\ books[u].taken = 0 /\ books[u].back = 0
        /\ PageAt(u, db[Home[u]], tx[Home[u]], books[Home[u]])
    BY DEF Behind, Paged
  <2>2. books'[u] = books[u]
    BY <1>1, <1>3, <1>4
  <2>3. CASE Home[u] = c /\ Provider[s] = "page"
    <3>1. books[c] = b /\ books'[c] = e
      BY <1>1, <1>3, <2>3
    <3>2. IF b.status = "none" THEN e.status = "pending" ELSE e.status = b.status /\ e.amount = b.amount
      BY <1>2, <2>3 DEF Moves
    <3>3. ASSUME NEW row, PageRow(row, b) PROVE PageRow(row, e)
      BY <3>2, <3>3 DEF PageRow
    <3>4. PageRow(db[c].ses[u], b)
      BY <2>1, <2>3, <3>1 DEF PageAt
    <3>5. u = s => PageRow(n, e)
      BY <1>2, <2>3, <3>4 DEF Moves
    <3>6. Busy(u, tx'[c]) => u = s
      BY <1>1 DEF Busy
    <3> QED
      BY <2>1, <2>2, <2>3, <3>1, <3>3, <3>4, <3>5, <3>6 DEF PageAt
  <2>4. CASE Home[u] = c /\ Provider[s] # "page"
    <3>1. books'[c] = books[c]
      BY <1>1, <1>3, <2>4
    <3>2. ~Busy(u, tx'[c])
      BY <1>1, <2>4 DEF Busy
    <3> QED
      BY <2>1, <2>2, <2>4, <3>1, <3>2 DEF PageAt
  <2>5. CASE Home[u] # c
    <3>1. Book(s) # Home[u]
      BY <1>3, <1>4, <2>5
    <3>2. books'[Home[u]] = books[Home[u]] /\ tx'[Home[u]] = tx[Home[u]]
      BY <1>1, <1>4, <2>5, <3>1
    <3> QED
      BY <2>1, <2>2, <3>2
  <2> QED
    BY <2>3, <2>4, <2>5
<1>8. ASSUME Covered PROVE Covered'
  <2> SUFFICES ASSUME NEW x \in Collections \ stray
               PROVE  CoveredAt(x, db[x], tx'[x], books'[x])
    BY <1>1, NextForms
  <2>1. CoveredAt(x, db[x], tx[x], books[x])
    BY <1>8 DEF Covered
  <2>2. CASE x # c
    <3>1. books'[x] = books[x] /\ tx'[x] = tx[x]
      BY <1>1, <1>3, <2>2
    <3> QED
      BY <2>1, <3>1
  <2>3. CASE x = c /\ Provider[s] # "page"
    <3>1. books'[c] = books[c]
      BY <1>1, <1>3, <2>3
    <3>2. \A u \in SessionsOf(c) : Provider[u] = "page" => tx'[c].db.ses[u] = db[c].ses[u]
      BY <1>1, <2>3
    <3> QED
      BY <2>1, <2>3, <3>1, <3>2 DEF CoveredAt
  <2>4. CASE x = c /\ Provider[s] = "page"
    <3>1. books[c] = b /\ books'[c] = e
      BY <1>1, <1>3, <2>4
    <3>2. /\ e.taken = b.taken /\ b.back <= e.back
          /\ b.back < b.taken /\ Covers(old, b) => e.back = e.taken \/ Covers(n, e)
      BY <1>2, <2>4 DEF Moves, Later
    <3>3. b \in Entry /\ e \in Entry
      <4>1. books'[c] \in Entry /\ books[c] \in Entry
        BY <1>1 DEF PayInv, Rest
      <4> QED
        BY <3>1, <4>1
    <3>4. b.back \in Nat /\ b.taken \in Nat /\ e.back \in Nat /\ e.taken \in Nat
      BY <3>3, EntryNumbers
    <3> SUFFICES ASSUME e.back < e.taken
                 PROVE  \E u \in SessionsOf(c) : /\ Provider[u] = "page"
                                                 /\ Covers(db[c].ses[u], e)
                                                 /\ Covers(tx'[c].db.ses[u], e)
      BY <2>4, <3>1 DEF CoveredAt
    <3>5. b.back < b.taken
      BY <3>2, <3>4
    <3>6. PICK u \in SessionsOf(c) : Provider[u] = "page" /\ Covers(db[c].ses[u], b)
      BY <2>1, <2>4, <3>1, <3>5 DEF CoveredAt
    <3>7. Covers(db[c].ses[u], e)
      BY <3>2, <3>6 DEF Covers
    <3>8. CASE u = s
      <4>1. Covers(n, e)
        BY <3>2, <3>4, <3>5, <3>6, <3>8
      <4> QED
        BY <3>6, <3>7, <3>8, <4>1
    <3>9. CASE u # s
      BY <1>1, <3>6, <3>7, <3>9
    <3> QED
      BY <3>8, <3>9
  <2> QED
    BY <2>2, <2>3, <2>4
<1>9. /\ db[c] \in LedgerOf(c) /\ tx'[c].db \in LedgerOf(c) /\ old \in Row /\ n \in Row
       /\ b \in Entry /\ e \in Entry
  <2>1. Opened(c, db[c], tx[c])'
    BY <1>1, OpenIs DEF PayInv, Transactions, NoTx
  <2>2. tx'[c].db \in LedgerOf(c) /\ tx'[c].entry \in Entry
    BY <2>1 DEF Opened, Good, LedgerOf, Entry, Row, Statuses, Money, SessionsOf, CollectionStatuses
  <2>3. s \in SessionsOf(c)
    BY <1>4
  <2> QED
    BY <1>1, <2>2, <2>3, HomeTyped, LedgerNumbers
<1>10. \A row \in Row : Real(row, b) => Real(row, e)
  <2>1. Later(b, e) /\ b.taken \in Nat /\ b.back \in Nat /\ e.taken \in Nat /\ e.back \in Nat
    BY <1>2, <1>9, EntryNumbers DEF Moves
  <2> SUFFICES ASSUME NEW row \in Row, Real(row, b) PROVE Real(row, e)
    OBVIOUS
  <2>2. row.paid \in Nat /\ row.back \in Nat
    BY RowNumbers
  <2> HIDE DEF b
  <2> QED
    BY <2>1, <2>2 DEF Real, Later
<1>11. ASSUME RealRows PROVE RealRows'
  <2> SUFFICES ASSUME NEW u \in Sessions
               PROVE  RealAt(u, db[Home[u]], tx'[Home[u]], books'[Book(u)])
    BY <1>1, NextForms
  <2>1. RealAt(u, db[Home[u]], tx[Home[u]], books[Book(u)])
    BY <1>11 DEF RealRows
  <2>2. Book(u) \in Sessions \cup Collections
    BY AtHome
  <2>3. CASE u = s
    <3>1. Real(old, b) /\ Real(n, e)
      BY <1>2, <2>1, <2>3 DEF RealAt, Moves
    <3>2. Real(old, e)
      BY <1>9, <1>10, <3>1
    <3>3. books'[Book(s)] = b \/ books'[Book(s)] = e
      BY <1>1
    <3>4. Provider[s] # "inside" => books'[Book(s)] = e
      BY <1>1
    <3> QED
      BY <1>1, <2>3, <3>1, <3>2, <3>3, <3>4 DEF RealAt
  <2>4. CASE u # s
    <3>1. Busy(u, tx'[Home[u]]) => tx'[Home[u]] = tx[Home[u]] /\ Home[u] # c
      BY <1>1, <1>4, <2>4 DEF Busy
    <3>2. CASE Book(u) # Book(s)
      <4>1. books'[Book(u)] = books[Book(u)]
        BY <1>1, <2>2, <3>2
      <4> QED
        BY <2>1, <3>1, <4>1 DEF RealAt
    <3>3. CASE Book(u) = Book(s)
      <4>1. Home[u] = c
        BY <1>3, <1>4, <2>4, <3>3 DEF Book
      <4>2. ~Busy(u, tx'[Home[u]])
        BY <3>1, <4>1
      <4>3. db[Home[u]].ses[u] \in Row
        BY HomeTyped
      <4>4. Real(db[Home[u]].ses[u], b)
        BY <2>1, <3>3 DEF RealAt
      <4>5. Real(db[Home[u]].ses[u], e)
        BY <1>10, <4>3, <4>4
      <4>6. books'[Book(u)] = b \/ books'[Book(u)] = e
        BY <1>1, <3>3
      <4> QED
        BY <4>2, <4>4, <4>5, <4>6 DEF RealAt
    <3> QED
      BY <3>2, <3>3
  <2> QED
    BY <2>3, <2>4
<1>12. ASSUME Returned PROVE Returned'
  <2> SUFFICES ASSUME NEW x \in Collections
               PROVE  ReturnedAt(x, db[x], tx'[x], books'[x])
    BY <1>1, NextForms
  <2>1. ReturnedAt(x, db[x], tx[x], books[x])
    BY <1>12 DEF Returned
  <2>2. CASE x # c
    <3>1. books'[x] = books[x] /\ tx'[x] = tx[x]
      BY <1>1, <1>3, <2>2
    <3> QED
      BY <2>1, <3>1
  <2>3. CASE x = c /\ Provider[s] # "page"
    <3>1. books'[c] = books[c]
      BY <1>1, <1>3, <2>3
    <3>2. \A u \in OnPage(c) : tx'[c].db.ses[u] = db[c].ses[u]
      BY <1>1, <2>3 DEF OnPage
    <3>3. PageBacks(c, tx'[c].db) = PageBacks(c, db[c])
      BY <1>9, <3>2, PageSame
    <3> QED
      BY <1>1, <2>1, <2>3, <3>1, <3>3 DEF ReturnedAt
  <2>4. CASE x = c /\ Provider[s] = "page"
    <3>1. books[c] = b /\ books'[c] = e
      BY <1>1, <1>3, <2>4
    <3>2. s \in OnPage(c) /\ \A u \in OnPage(c) : u # s => tx'[c].db.ses[u] = db[c].ses[u]
      BY <1>1, <1>4, <2>4 DEF OnPage
    <3>3. PageBacks(c, tx'[c].db) = PageBacks(c, db[c]) - old.back + n.back
      BY <1>9, <3>2, PageChange
    <3>4. n.back + b.back <= e.back + old.back /\ b.back <= e.back
      BY <1>2, <2>4 DEF Moves, Later
    <3>5. PageBacks(c, db[c]) <= b.back /\ PageBacks(c, db[c]) \in Int
      BY <1>9, <2>1, <2>4, <3>1, PageSame DEF ReturnedAt
    <3>6. b.back \in Nat /\ e.back \in Nat /\ old.back \in Nat /\ n.back \in Nat
      BY <1>9, EntryNumbers, RowNumbers
    <3> DEFINE y == PageBacks(c, db[c])
               z == PageBacks(c, tx'[c].db)
    <3> HIDE DEF old, b, n, y, z
    <3>7. y <= e.back /\ z <= e.back
      <4>1. y \in Int /\ y <= b.back /\ z = y - old.back + n.back
        BY <3>3, <3>5 DEF y, z
      <4> QED
        BY <3>4, <3>6, <4>1
    <3> QED
      BY <2>4, <3>1, <3>7 DEF ReturnedAt, y, z
  <2> QED
    BY <2>2, <2>3, <2>4
<1> QED
  BY <1>5, <1>6, <1>7, <1>8, <1>11, <1>12 DEF Behind

\* A commit: the rows are what the transaction showed.
LEMMA CommitBehind ==
    ASSUME PayInv, Behind, NEW c \in Collections, Commit(c)
    PROVE  /\ Behind'
           /\ Covered => Covered'
           /\ RealRows => RealRows'
           /\ Returned => Returned'
<1> DEFINE s == tx[c].ses
           t == tx[c]
<1>1. /\ t.open /\ db' = [db EXCEPT ![c] = t.db] /\ tx' = [tx EXCEPT ![c] = NoTx] /\ stray' = stray
      /\ books' = IF Provider[s] = "inside" THEN [books EXCEPT ![s] = t.entry] ELSE books
  BY DEF Commit
<1>2. Opened(c, db[c], t)
  BY <1>1, OpenIs
<1>3. db'[c] = t.db /\ \A x \in Collections : x # c => db'[x] = db[x]
  BY <1>1 DEF PayInv, Ledgers
<1>4. ~tx'[c].open /\ \A x \in Collections : x # c => tx'[x] = tx[x]
  BY <1>1, EndKeeps
<1>5. s \in Sessions /\ Home[s] = c /\ \A u \in SessionsOf(c) : u # s => t.db.ses[u] = db[c].ses[u]
  BY <1>2 DEF Opened, SessionsOf
<1>6. books \in [Sessions \cup Collections -> Entry]
  BY DEF PayInv, Rest
<1>7. /\ \A x \in Sessions \cup Collections : x # s => books'[x] = books[x]
      /\ Provider[s] = "inside" => books'[s] = t.entry
      /\ Provider[s] # "inside" => books'[s] = books[s]
  BY <1>1, <1>5, <1>6
<1>8. \A u \in Sessions : Home[u] \in Collections /\ u \in SessionsOf(Home[u]) /\ u \notin Collections
                          /\ Home[u] \notin Sessions
  BY AtHome, PaymentAssumption
<1>9. \A x \in Collections : books'[x] = books[x]
  BY <1>5, <1>7, <1>8
<1>10. BooksOK'
  <2>1. EntryOK(t.entry)
    BY <1>1 DEF Behind, BooksOK
  <2>2. \A x \in Sessions \cup Collections : EntryOK(books'[x])
    BY <1>7, <2>1 DEF Behind, BooksOK
  <2>3. \A x \in Collections : tx'[x].open => EntryOK(tx'[x].entry)
    BY <1>4 DEF Behind, BooksOK
  <2> QED
    BY <2>2, <2>3, NextForms
<1>11. \A u \in Sessions : /\ Home[u] = c => ~Busy(u, tx'[Home[u]])
                           /\ Home[u] # c => tx'[Home[u]] = tx[Home[u]] /\ db'[Home[u]] = db[Home[u]] /\ u # s
                           /\ Home[u] = c /\ u # s => db'[Home[u]].ses[u] = db[Home[u]].ses[u]
                           /\ u = s => Busy(u, tx[Home[u]]) /\ db'[Home[u]].ses[u] = t.db.ses[s] /\ Home[u] = c
  BY <1>1, <1>3, <1>4, <1>5, <1>8 DEF Busy
<1>12. Driven'
  <2> SUFFICES ASSUME NEW u \in Sessions, Provider[u] # "page"
               PROVE  DrivenAt(u, db'[Home[u]], tx'[Home[u]], books'[u])
    BY NextForms
  <2>1. DrivenAt(u, db[Home[u]], tx[Home[u]], books[u])
    BY DEF Behind, Driven
  <2>2. CASE u = s
    <3>1. /\ Busy(u, tx[Home[u]]) /\ ~Busy(u, tx'[Home[u]]) /\ Home[u] = c
          /\ db'[Home[u]].ses[u] = tx[Home[u]].db.ses[u]
      BY <1>11, <2>2
    <3>2. IF Provider[u] = "inside" THEN books'[u] = tx[Home[u]].entry ELSE books'[u] = books[u]
      BY <1>5, <1>7, <2>2
    <3> QED
      BY <2>1, <3>1, <3>2 DEF DrivenAt
  <2>3. CASE u # s
    BY <1>7, <1>11, <2>1, <2>3 DEF DrivenAt
  <2> QED
    BY <2>2, <2>3
<1>13. Paged'
  <2> SUFFICES ASSUME NEW u \in Sessions, Provider[u] = "page"
               PROVE  /\ books'[u].taken = 0 /\ books'[u].back = 0
                      /\ PageAt(u, db'[Home[u]], tx'[Home[u]], books'[Home[u]])
    BY NextForms
  <2>1. /\ books[u].taken = 0 /\ books[u].back = 0
        /\ PageAt(u, db[Home[u]], tx[Home[u]], books[Home[u]])
    BY DEF Behind, Paged
  <2>2. books'[u] = books[u] /\ books'[Home[u]] = books[Home[u]]
    BY <1>7, <1>8, <1>9
  <2>3. CASE u = s
    <3>1. /\ Busy(u, tx[Home[u]]) /\ ~Busy(u, tx'[Home[u]]) /\ Home[u] = c
          /\ db'[Home[u]].ses[u] = tx[Home[u]].db.ses[u]
      BY <1>11, <2>3
    <3> QED
      BY <2>1, <2>2, <3>1 DEF PageAt
  <2>4. CASE u # s
    BY <1>11, <2>1, <2>2, <2>4 DEF PageAt
  <2> QED
    BY <2>3, <2>4
<1>14. ASSUME Covered PROVE Covered'
  <2> SUFFICES ASSUME NEW x \in Collections \ stray
               PROVE  CoveredAt(x, db'[x], tx'[x], books'[x])
    BY <1>1, NextForms
  <2>1. CoveredAt(x, db[x], tx[x], books[x]) /\ books'[x] = books[x]
    BY <1>9, <1>14 DEF Covered
  <2>2. CASE x = c
    BY <1>1, <1>3, <1>4, <2>1, <2>2 DEF CoveredAt
  <2>3. CASE x # c
    BY <1>3, <1>4, <2>1, <2>3
  <2> QED
    BY <2>2, <2>3
<1>15. ASSUME RealRows PROVE RealRows'
  <2> SUFFICES ASSUME NEW u \in Sessions
               PROVE  RealAt(u, db'[Home[u]], tx'[Home[u]], books'[Book(u)])
    BY NextForms
  <2>1. RealAt(u, db[Home[u]], tx[Home[u]], books[Book(u)])
    BY <1>15 DEF RealRows
  <2>2. CASE u = s
    <3>1. IF Provider[s] = "inside" THEN books'[Book(s)] = t.entry ELSE books'[Book(s)] = books[Book(s)]
      BY <1>7, <1>5, <1>8, <1>9 DEF Book
    <3>2. /\ Busy(u, tx[Home[u]]) /\ ~Busy(u, tx'[Home[u]]) /\ Home[u] = c
          /\ db'[Home[u]].ses[u] = tx[Home[u]].db.ses[u]
      BY <1>11, <2>2
    <3> QED
      BY <2>1, <2>2, <3>1, <3>2 DEF RealAt
  <2>3. CASE u # s
    <3>1. books'[Book(u)] = books[Book(u)]
      BY <1>7, <1>8, <1>9, <2>3 DEF Book
    <3> QED
      BY <1>11, <2>1, <2>3, <3>1 DEF RealAt
  <2> QED
    BY <2>2, <2>3
<1>16. ASSUME Returned PROVE Returned'
  <2> SUFFICES ASSUME NEW x \in Collections
               PROVE  ReturnedAt(x, db'[x], tx'[x], books'[x])
    BY NextForms
  <2>1. ReturnedAt(x, db[x], tx[x], books[x]) /\ books'[x] = books[x]
    BY <1>9, <1>16 DEF Returned
  <2>2. CASE x = c
    BY <1>1, <1>3, <1>4, <2>1, <2>2 DEF ReturnedAt
  <2>3. CASE x # c
    BY <1>3, <1>4, <2>1, <2>3
  <2> QED
    BY <2>2, <2>3
<1> QED
  BY <1>10, <1>12, <1>13, <1>14, <1>15, <1>16 DEF Behind

\* The books: a lost commit leaves what the provider did.
LEMMA RollbackBehind ==
    ASSUME PayInv, Behind, NEW c \in Collections, Rollback(c)
    PROVE  /\ Behind'
           /\ Covered => Covered'
           /\ RealRows => RealRows'
           /\ Returned => Returned'
<1>1. UNCHANGED <<db, books, stray>>
  BY DEF Rollback
<1>2. ~tx'[c].open /\ \A x \in Collections : x # c => tx'[x] = tx[x]
  BY EndKeeps DEF Rollback
<1>3. \A x \in Collections : tx'[x].open => tx'[x] = tx[x]
  BY <1>2
<1>4. \A u \in Sessions : Home[u] \in Collections
  BY AtHome
<1>5. \A u \in Sessions : Busy(u, tx'[Home[u]]) => tx'[Home[u]] = tx[Home[u]]
  BY <1>3, <1>4 DEF Busy
<1>6. BooksOK'
  BY <1>1, <1>3, NextForms DEF Behind, BooksOK
<1>7. Driven'
  BY <1>1, <1>5, NextForms DEF Behind, Driven, DrivenAt
<1>8. Paged'
  BY <1>1, <1>5, NextForms DEF Behind, Paged, PageAt
<1>9. Covered => Covered'
  BY <1>1, <1>3, NextForms DEF Covered, CoveredAt
<1>10. RealRows => RealRows'
  BY <1>1, <1>5, NextForms DEF RealRows, RealAt
<1>11. Returned => Returned'
  BY <1>1, <1>3, NextForms DEF Returned, ReturnedAt
<1> QED
  BY <1>6, <1>7, <1>8, <1>9, <1>10, <1>11 DEF Behind

\* The customer pays: the page of c has one session at least that is for its amount, or
\* the payment is a stray one.
LEMMA PagePaidBehind ==
    ASSUME PayInv, Summed, Behind, NEW c \in Collections, PagePaid(c)
    PROVE  /\ Behind'
           /\ Covered => Covered'
           /\ RealRows => RealRows'
           /\ Returned => Returned'
<1> DEFINE b == books[c]
           f == books'[c]
<1>1. UNCHANGED <<db, tx>> /\ b.status = "pending"
  BY DEF PagePaid
<1>2. books \in [Sessions \cup Collections -> Entry] /\ b \in Entry
  BY DEF PayInv, Rest
<1>3. b.taken = 0 /\ b.back = 0 /\ b.amount \in Nat
  <2>1. EntryOK(b)
    BY DEF Behind, BooksOK
  <2> QED
    BY <1>1, <1>2, <2>1, EntryNumbers DEF EntryOK
<1>4. /\ \A x \in Sessions \cup Collections : x # c => books'[x] = books[x]
      /\ f.amount = b.amount /\ f.back = 0
      /\ \/ f.status = "captured" /\ f.taken \in 1..b.amount
         \/ f.status = "failed" /\ f.taken = 0
  <2>1. CASE \E a \in 1..books[c].amount : books' = [books EXCEPT ![c].status = "captured", ![c].taken = a]
    <3>1. PICK a \in 1..books[c].amount : books' = [books EXCEPT ![c].status = "captured", ![c].taken = a]
      BY <2>1
    <3> QED
      BY <1>2, <1>3, <3>1 DEF Entry
  <2>2. CASE books' = [books EXCEPT ![c].status = "failed"]
    BY <1>2, <1>3, <2>2 DEF Entry
  <2> QED
    BY <2>1, <2>2 DEF PagePaid
<1>5. f.taken \in Nat /\ f.taken <= b.amount
  BY <1>3, <1>4
<1>6. \A u \in Sessions : Home[u] \in Collections /\ u \in SessionsOf(Home[u]) /\ u # c /\ books'[u] = books[u]
  BY <1>4, AtHome, PaymentAssumption
<1> HIDE DEF b, f
<1>7. EntryOK(f) /\ Later(b, f)
  BY <1>3, <1>4, <1>5 DEF EntryOK, Later
<1>8. BooksOK'
  <2>1. \A x \in Sessions \cup Collections : EntryOK(books'[x])
    BY <1>4, <1>7 DEF Behind, BooksOK, f
  <2> QED
    BY <1>1, <2>1, NextForms DEF Behind, BooksOK
<1>9. Driven'
  BY <1>1, <1>6, NextForms DEF Behind, Driven
<1>10. Paged'
  <2> SUFFICES ASSUME NEW u \in Sessions, Provider[u] = "page"
               PROVE  /\ books'[u].taken = 0 /\ books'[u].back = 0
                      /\ PageAt(u, db[Home[u]], tx[Home[u]], books'[Home[u]])
    BY <1>1, NextForms
  <2>1. /\ books[u].taken = 0 /\ books[u].back = 0
        /\ PageAt(u, db[Home[u]], tx[Home[u]], books[Home[u]])
    BY DEF Behind, Paged
  <2>2. ASSUME NEW row, PageRow(row, b) PROVE PageRow(row, f)
    BY <1>1, <1>4, <2>2 DEF PageRow, b
  <2>3. CASE Home[u] = c
    BY <1>6, <2>1, <2>2, <2>3 DEF PageAt, b, f
  <2>4. CASE Home[u] # c
    BY <1>4, <1>6, <2>1, <2>4
  <2> QED
    BY <2>3, <2>4
<1>11. ASSUME Covered PROVE Covered'
  <2> SUFFICES ASSUME NEW x \in Collections \ stray'
               PROVE  CoveredAt(x, db[x], tx[x], books'[x])
    BY <1>1, NextForms
  <2>1. x \notin stray
    BY DEF PagePaid
  <2>2. CASE x # c
    BY <1>4, <1>11, <2>1, <2>2 DEF Covered
  <2>3. CASE x = c
    <3> SUFFICES ASSUME f.back < f.taken
                 PROVE  \E s \in SessionsOf(c) : /\ Provider[s] = "page"
                                                 /\ f.taken <= Charge(db[c].ses[s])
                                                 /\ tx[c].open => f.taken <= Charge(tx[c].db.ses[s])
      BY <2>3 DEF CoveredAt, Covers, f
    <3>1. f.status # "failed"
      BY <1>4, <1>5
    <3> DEFINE live == Live(db[c]) \cap Live(Upcoming(c)) \cap {s \in SessionsOf(c) : Provider[s] = "page"}
    <3>2. stray' = IF live # {} THEN stray ELSE stray \cup {c}
      <4>1. books' # [books EXCEPT ![c].status = "failed"]
        BY <1>2, <3>1 DEF f, b, Entry
      <4> QED
        BY <4>1 DEF PagePaid
    <3>3. PICK s \in Live(db[c]) \cap Live(Upcoming(c)) : Provider[s] = "page"
      <4>1. live # {}
        BY <2>3, <3>2
      <4> QED
        BY <4>1
    <3>4. db[c] \in LedgerOf(c) /\ (tx[c].open => tx[c].db \in LedgerOf(c))
      <4>1. tx[c].open => Good(c, tx[c].db)
        BY OpenIs DEF Opened
      <4> QED
        BY <4>1 DEF PayInv, Ledgers, Good
    <3>5. s \in SessionsOf(c) /\ s \in Sessions /\ Home[s] = c
      BY <3>3, <3>4 DEF Live, LedgerOf, SessionsOf
    <3>6. PageAt(s, db[c], tx[c], b)
      BY <3>3, <3>5 DEF Behind, Paged, b
    <3>7. ASSUME NEW row \in Row, RowOK(row), PageRow(row, b), row.status \in {"pending", "authorized"}
          PROVE  f.taken <= Charge(row)
      <4>1. row.status = "pending" /\ row.amount = b.amount
        BY <1>1, <3>7 DEF PageRow, b
      <4> QED
        BY <1>5, <3>7, <4>1, ChargeNumber
    <3>8. f.taken <= Charge(db[c].ses[s])
      <4>1. db[c].ses[s] \in Row /\ RowOK(db[c].ses[s])
        BY <3>4, <3>5 DEF LedgerOf, Summed, Strong
      <4>2. db[c].ses[s].status \in {"pending", "authorized"}
        BY <3>3 DEF Live
      <4> QED
        BY <3>6, <3>7, <4>1, <4>2 DEF PageAt
    <3>9. ASSUME tx[c].open PROVE f.taken <= Charge(tx[c].db.ses[s])
      <4>1. tx[c].db.ses[s] \in Row /\ RowOK(tx[c].db.ses[s])
        BY <3>4, <3>5, <3>9 DEF LedgerOf, Summed, Strong
      <4>2. tx[c].db.ses[s].status \in {"pending", "authorized"}
        BY <3>3, <3>9 DEF Live, Upcoming
      <4>3. CASE tx[c].ses = s
        BY <3>6, <3>7, <3>9, <4>1, <4>2, <4>3 DEF PageAt, Busy
      <4>4. CASE tx[c].ses # s
        <5>1. tx[c].db.ses[s] = db[c].ses[s]
          BY <3>5, <3>9, <4>4, OpenIs DEF Opened
        <5> QED
          BY <3>8, <5>1
      <4> QED
        BY <4>3, <4>4
    <3> QED
      BY <3>3, <3>5, <3>8, <3>9
  <2> QED
    BY <2>2, <2>3
<1>12. ASSUME RealRows PROVE RealRows'
  <2> SUFFICES ASSUME NEW u \in Sessions
               PROVE  RealAt(u, db[Home[u]], tx[Home[u]], books'[Book(u)])
    BY <1>1, NextForms
  <2>1. RealAt(u, db[Home[u]], tx[Home[u]], books[Book(u)])
    BY <1>12 DEF RealRows
  <2>2. CASE Book(u) # c
    BY <1>4, <2>1, <2>2, AtHome
  <2>3. CASE Book(u) = c
    <3>1. Home[u] = c /\ u \in SessionsOf(c)
      BY <1>6, <2>3 DEF Book
    <3>2. ASSUME NEW row \in Row, Real(row, b) PROVE Real(row, f)
      BY <1>3, <1>4, <1>5, <3>2, RowNumbers DEF Real
    <3>3. db[c].ses[u] \in Row
      BY <3>1, HomeTyped
    <3>4. Busy(u, tx[c]) => tx[c].db.ses[u] \in Row
      <4>1. tx[c].open => Good(c, tx[c].db)
        BY OpenIs DEF Opened
      <4> QED
        BY <3>1, <4>1 DEF Good, LedgerOf, Busy
    <3> QED
      BY <2>1, <2>3, <3>1, <3>2, <3>3, <3>4 DEF RealAt, b, f
  <2> QED
    BY <2>2, <2>3
<1>13. ASSUME Returned PROVE Returned'
  <2>1. \A x \in Collections : books'[x].back = books[x].back
    BY <1>3, <1>4 DEF b, f
  <2> QED
    BY <1>1, <1>13, <2>1, NextForms DEF Returned, ReturnedAt
<1> QED
  BY <1>8, <1>9, <1>10, <1>11, <1>12, <1>13 DEF Behind

\* The books: a step that touches neither them nor the ledgers.
LEMMA SameBehind ==
    ASSUME Behind, UNCHANGED <<db, books, tx, stray>>
    PROVE  /\ Behind'
           /\ Covered => Covered'
           /\ RealRows => RealRows'
           /\ Returned => Returned'
<1>1. BooksOK' /\ Driven' /\ Paged'
  BY NextForms DEF Behind, BooksOK, Driven, Paged
<1>2. (Covered => Covered') /\ (RealRows => RealRows') /\ (Returned => Returned')
  BY NextForms DEF Covered, RealRows, Returned
<1> QED
  BY <1>1, <1>2 DEF Behind

PayAll == PayInv /\ Agree /\ Ceilings

\* The empty ledgers satisfy the invariant.
LEMMA StartAll == Init => PayAll
<1> SUFFICES ASSUME Init PROVE PayAll
  OBVIOUS
<1>1. 0 \in Money /\ 0 \in Nat /\ 0 <= Ceiling
  BY PaymentAssumption DEF Money
<1>2. \A c \in Collections : db[c] = Empty(c) /\ tx[c] = NoTx /\ ~tx[c].open
  BY DEF Init, NoTx
<1>3. NoRow \in Row /\ NoEntry \in Entry
  BY <1>1 DEF NoRow, Row, NoEntry, Entry, Statuses
<1>4. ASSUME NEW c \in Collections
      PROVE  Good(c, Empty(c)) /\ Empty(c).held = 0 /\ Empty(c).taken = 0 /\ Empty(c).back = 0
  <2>1. Empty(c).order = <<>> /\ \A s \in SessionsOf(c) : Empty(c).ses[s] = NoRow
    BY DEF Empty
  <2>2. Empty(c) \in LedgerOf(c)
    BY <1>1, <1>3 DEF Empty, LedgerOf, CollectionStatuses
  <2>3. NoRow.status # "pending" /\ Len(Empty(c).order) = 0
    BY <2>1 DEF NoRow
  <2>4. Good(c, Empty(c))
    BY <2>1, <2>2, <2>3 DEF Good
  <2> QED
    BY <2>4 DEF Empty
<1>5. Ledgers
  BY <1>1, <1>2, <1>4 DEF Ledgers, Init
<1>6. Transactions /\ Rest
  BY <1>2, <1>3 DEF Init, Transactions, Rest, Aged
<1>7. Refunds
  BY DEF Init, Refunds, Idle
<1>8. Agree
  <2>1. ASSUME NEW s \in Sessions PROVE books[s] = Mirror(db[Home[s]].ses[s]) /\ ~tx[Home[s]].open
    <3>1. db[Home[s]].ses[s] = NoRow /\ ~tx[Home[s]].open
      <4>1. Home[s] \in Collections /\ s \in SessionsOf(Home[s])
        BY AtHome
      <4>2. db[Home[s]] = Empty(Home[s]) /\ ~tx[Home[s]].open
        BY <1>2, <4>1
      <4>3. Empty(Home[s]).ses[s] = NoRow
        BY <4>1 DEF Empty
      <4> QED
        BY <4>2, <4>3
    <3>2. books[s] = NoEntry
      BY DEF Init
    <3> QED
      BY <3>1, <3>2 DEF NoEntry, NoRow, Mirror
  <2> QED
    BY <2>1 DEF Agree
<1>9. Ceilings
  BY <1>1, <1>2 DEF Init, Ceilings
<1> QED
  BY <1>5, <1>6, <1>7, <1>8, <1>9 DEF PayAll, PayInv

\* The books: nothing is taken at the start.
LEMMA StartBehind == ASSUME Init PROVE Behind /\ Covered /\ RealRows /\ Returned
<1>1. \A x \in Sessions \cup Collections : books[x] = NoEntry
  BY DEF Init
<1>2. \A s \in Sessions : /\ Home[s] \in Collections /\ db[Home[s]].ses[s] = NoRow /\ ~tx[Home[s]].open
                          /\ Book(s) \in Sessions \cup Collections
  <2> SUFFICES ASSUME NEW s \in Sessions
               PROVE  /\ Home[s] \in Collections /\ db[Home[s]].ses[s] = NoRow /\ ~tx[Home[s]].open
                      /\ Book(s) \in Sessions \cup Collections
    OBVIOUS
  <2>1. Home[s] \in Collections /\ s \in SessionsOf(Home[s]) /\ Book(s) \in Sessions \cup Collections
    BY AtHome
  <2>2. db[Home[s]] = Empty(Home[s]) /\ ~tx[Home[s]].open
    BY <2>1 DEF Init, NoTx
  <2>3. Empty(Home[s]).ses[s] = NoRow
    BY <2>1 DEF Empty
  <2> QED
    BY <2>1, <2>2, <2>3
<1>3. /\ EntryOK(NoEntry) /\ NoEntry.taken = 0 /\ NoEntry.back = 0 /\ Charge(NoRow) = 0
      /\ PageRow(NoRow, NoEntry) /\ Real(NoRow, NoEntry)
  BY DEF EntryOK, NoEntry, Charge, Reserves, NoRow, PageRow, Real
<1>4. \A c \in Collections : ~tx[c].open
  BY DEF Init, NoTx
<1>5. BooksOK
  BY <1>1, <1>3, <1>4 DEF BooksOK
<1>6. Driven
  BY <1>1, <1>2, <1>3 DEF Driven, DrivenAt, Busy
<1>7. Paged
  BY <1>1, <1>2, <1>3 DEF Paged, PageAt, Busy
<1>8. Covered
  BY <1>1, <1>3 DEF Covered, CoveredAt
<1>9. RealRows
  BY <1>1, <1>2, <1>3 DEF RealRows, RealAt, Busy
<1>10. Returned
  <2> SUFFICES ASSUME NEW c \in Collections PROVE PageBacks(c, db[c]) <= books[c].back
    BY <1>4 DEF Returned, ReturnedAt
  <2>1. db[c] \in LedgerOf(c)
    BY StartAll DEF PayAll, PayInv, Ledgers, Good
  <2>2. \A s \in OnPage(c) : Backs(db[c])[s] = 0
    <3>1. \A s \in SessionsOf(c) : db[c].ses[s] = NoRow
      BY DEF Init, Empty
    <3>2. NoRow.back = 0
      BY DEF NoRow
    <3>3. OnPage(c) \subseteq SessionsOf(c)
      BY DEF OnPage
    <3>4. \A s \in OnPage(c) : Backs(db[c])[s] = db[c].ses[s].back
      BY <2>1, PageNumbers
    <3> QED
      BY <3>1, <3>2, <3>3, <3>4
  <2>3. PageBacks(c, db[c]) = 0
    BY <2>1, <2>2, PageNumbers, SumZero DEF PageBacks
  <2> QED
    BY <1>1, <1>3, <2>3
<1> QED
  BY <1>5, <1>6, <1>7, <1>8, <1>9, <1>10 DEF Behind

\* Every step, with the types before and after it.
LEMMA StepBehind ==
    ASSUME PayInv, PayInv', Summed, Behind, [Next]_vars
    PROVE  /\ Behind'
           /\ Covered => Covered'
           /\ RealRows => RealRows'
           /\ Returned => Returned'
<1> DEFINE Goal == /\ Behind'
                   /\ Covered => Covered'
                   /\ RealRows => RealRows'
                   /\ Returned => Returned'
<1>0. BooksOK
  BY DEF Behind
<1>1. ASSUME NEW s \in Sessions, NEW d, NEW e, NEW r, Call(s, d, e, r), Outcome(s) PROVE Goal
  BY <1>1, CallBehind
<1> HIDE DEF Goal
<1>2. ASSUME NEW s \in Sessions, NEW a \in 1..Amount, CreateSession(s, a) PROVE Goal
  <2>1. \E d, e, r : Call(s, d, e, r)
    BY <1>2 DEF CreateSession
  <2> QED
    BY <1>0, <1>1, <1>2, <2>1, CreateMoves
<1>3. ASSUME NEW s \in Sessions, NEW a \in 1..Amount, CapturePayment(s, a) PROVE Goal
  <2>1. \E d, e, r : Call(s, d, e, r)
    BY <1>3 DEF CapturePayment
  <2> QED
    BY <1>0, <1>1, <1>3, <2>1, CaptureMoves
<1>4. ASSUME NEW s \in Sessions, AuthorizePayment(s) PROVE Goal
  <2>1. \E d, e, r : Call(s, d, e, r)
    BY <1>4 DEF AuthorizePayment
  <2> QED
    BY <1>0, <1>1, <1>4, <2>1, AuthorizeMoves
<1>5. ASSUME NEW s \in Sessions, CancelPayment(s) PROVE Goal
  <2>1. \E d, e, r : Call(s, d, e, r)
    BY <1>5 DEF CancelPayment
  <2>2. Provider[s] = "page" => PageRow(db[Home[s]].ses[s], books[Book(s)])
    BY DEF Behind, Paged, PageAt, Book
  <2>3. Outcome(s)
    BY <1>0, <1>5, <2>2, CancelMoves
  <2> QED
    BY <1>1, <2>1, <2>3
<1>6. ASSUME NEW s \in Sessions, NEW a, NEW k, NEW e \in RefundOutcomes(s, a), NEW r, MayRefund(s, a, k),
             Call(s, RefundedBy(db[Home[s]], s, a), e, r)
      PROVE  Goal
  <2>1. Outcome(s)
    BY <1>0, <1>6, RefundMovesBooks
  <2> QED
    BY <1>1, <1>6, <2>1
<1>7. ASSUME NEW s \in Sessions, NEW a \in 1..Amount, RefundPayment(s, a) PROVE Goal
  BY <1>6, <1>7 DEF RefundPayment
<1>8. ASSUME UNCHANGED <<db, books, tx, stray>> PROVE Goal
  BY <1>8, SameBehind DEF Goal
<1>9. ASSUME NEW r \in Refunders, RefundPart(r) PROVE Goal
  <2> DEFINE k == refunding[r].cause
             a == Head(refunding[r].left).amount
  <2>1. \/ UNCHANGED <<db, books, tx, stray>>
        \/ \E s \in SessionsOf(Drawn[k]) :
              /\ MayRefund(s, a, k)
              /\ \E e \in RefundOutcomes(s, a) : Call(s, RefundedBy(db[Home[s]], s, a), e, r)
    BY <1>9 DEF RefundPart
  <2> HIDE DEF k, a
  <2> QED
    BY <1>6, <1>8, <2>1 DEF SessionsOf
<1>10. ASSUME NEW c \in Collections, Commit(c) PROVE Goal
  BY <1>10, CommitBehind DEF Goal
<1>11. ASSUME NEW c \in Collections, Rollback(c) PROVE Goal
  BY <1>11, RollbackBehind DEF Goal
<1>12. ASSUME NEW c \in Collections, PagePaid(c) PROVE Goal
  BY <1>12, PagePaidBehind DEF Goal
<1>13. ASSUME \/ UNCHANGED vars
              \/ Reconcile
              \/ \E s \in Sessions : Settle(s) \/ WindowEnds(s) \/ ReconcileOne(s) \/ ReconcileUnreachable(s)
              \/ \E r \in Refunders : \/ \E k \in Causes : RefundCollection(r, k)
                                      \/ \E ask \in Money : PlanRefund(r, ask)
       PROVE  Goal
  <2>1. UNCHANGED <<db, books, tx, stray>>
    BY <1>13 DEF vars, Reconcile, Settle, WindowEnds, ReconcileOne, ReconcileUnreachable, RefundCollection, PlanRefund
  <2> QED
    BY <1>8, <2>1
<1>14. Goal
  BY <1>2, <1>3, <1>4, <1>5, <1>7, <1>9, <1>10, <1>11, <1>12, <1>13 DEF Next
<1> QED
  BY <1>14 DEF Goal

-----------------------------------------------------------------------------
(* The theorems.                                                           *)

\* A sound call keeps the types, the two ledgers together and the ceilings.
LEMMA CallStep ==
    ASSUME PayAll, NEW s \in Sessions, CallsOut(s), UNCHANGED refunding
    PROVE  PayAll'
<1>1. PICK d, e : Call(s, d, e, NoOne) /\ Sound(s, d, e)
  BY DEF CallsOut
<1>2. NoOne \in Refunders \cup {NoOne}
  OBVIOUS
<1>3. PayInv'
  BY <1>1, <1>2, CallKeeps DEF PayAll
<1>4. Agree'
  BY <1>1, CallAgrees DEF PayAll
<1>5. Ceilings'
  BY <1>1, CallFits DEF PayAll
<1> QED
  BY <1>3, <1>4, <1>5 DEF PayAll

\* So does the refund of one payment.
LEMMA RefundPaymentStep ==
    ASSUME PayAll, NEW s \in Sessions, NEW a \in 1..Amount, RefundPayment(s, a)
    PROVE  PayAll'
<1>1. PICK e \in RefundOutcomes(s, a) : Call(s, RefundedBy(db[Home[s]], s, a), e, NoOne)
  BY DEF RefundPayment
<1>2. MayRefund(s, a, NoOne) /\ UNCHANGED refunding /\ ~tx[Home[s]].open /\ a \in Nat
  BY <1>1 DEF RefundPayment, Call
<1>3. Sound(s, RefundedBy(db[Home[s]], s, a), e)
  BY <1>2, RefundIsSound DEF PayAll
<1>4. CallsOut(s)
  BY <1>1, <1>3 DEF CallsOut
<1> QED
  BY <1>2, <1>4, CallStep

\* Every step keeps it.
LEMMA StepAll == PayAll /\ [Next]_vars => PayAll'
<1> SUFFICES ASSUME PayAll, [Next]_vars PROVE PayAll'
  OBVIOUS
<1> USE DEF PayAll
<1>1. ASSUME NEW s \in Sessions, NEW a \in 1..Amount, CreateSession(s, a) PROVE PayAll'
  BY <1>1, CreateIsSound, CallStep
<1>2. ASSUME NEW s \in Sessions, NEW a \in 1..Amount, CapturePayment(s, a) PROVE PayAll'
  BY <1>2, CaptureIsSound, CallStep
<1>3. ASSUME NEW s \in Sessions, NEW a \in 1..Amount, RefundPayment(s, a) PROVE PayAll'
  BY <1>3, RefundPaymentStep
<1>4. ASSUME NEW s \in Sessions, AuthorizePayment(s) PROVE PayAll'
  BY <1>4, AuthorizeIsSound, CallStep
<1>5. ASSUME NEW s \in Sessions, CancelPayment(s) PROVE PayAll'
  BY <1>5, CancelIsSound, CallStep
<1>6. CASE Quiet
  BY <1>6, QuietKeeps
<1>7. ASSUME NEW c \in Collections, Commit(c) PROVE PayAll'
  BY <1>7, CommitKeeps, CommitAgrees, CommitFits
<1>8. ASSUME NEW c \in Collections, Rollback(c) PROVE PayAll'
  BY <1>8, RollbackKeeps
<1>9. ASSUME NEW c \in Collections, PagePaid(c) PROVE PayAll'
  BY <1>9, PagePaidKeeps
<1>10. ASSUME NEW r \in Refunders, NEW k \in Causes, RefundCollection(r, k) PROVE PayAll'
  BY <1>10, RefundCollectionKeeps
<1>11. ASSUME NEW r \in Refunders, NEW ask \in Money, PlanRefund(r, ask) PROVE PayAll'
  BY <1>11, PlanRefundKeeps
<1>12. ASSUME NEW r \in Refunders, RefundPart(r) PROVE PayAll'
  BY <1>12, RefundPartKeeps
<1> QED
  BY <1>1, <1>2, <1>3, <1>4, <1>5, <1>6, <1>7, <1>8, <1>9, <1>10, <1>11, <1>12 DEF Next, Quiet

\* Every reachable state has its types, its two ledgers together and its ceilings.
LEMMA AlwaysAll == Spec => []PayAll
BY StartAll, StepAll, PTL DEF Spec

\* The types, for every number of sessions, collections and calls: what is committed
\* passed the checks, and the captures of a collection are listed once.
THEOREM PaymentTyped == Spec => []TypeOK
<1>1. ASSUME PayAll PROVE TypeOK
  <2>1. ASSUME NEW c \in Collections
        PROVE  /\ db[c].status \in CollectionStatuses /\ db[c].ses \in [SessionsOf(c) -> Row]
               /\ IsInjective(db[c].order) /\ ToSet(db[c].order) \subseteq SessionsOf(c)
    <3>1. Good(c, db[c])
      BY <1>1 DEF PayAll, PayInv, Ledgers
    <3>2. db[c].order \in Seq(SessionsOf(c)) /\ db[c].status \in CollectionStatuses
          /\ db[c].ses \in [SessionsOf(c) -> Row]
      BY <3>1 DEF Good, LedgerOf
    <3>3. DOMAIN db[c].order = 1..Len(db[c].order)
      BY <3>2
    <3>4. IsInjective(db[c].order)
      BY <3>1, <3>3 DEF Good, IsInjective
    <3>5. ToSet(db[c].order) \subseteq SessionsOf(c)
      BY <3>2, <3>3 DEF ToSet
    <3> QED
      BY <3>2, <3>4, <3>5
  <2> QED
    BY <1>1, <2>1 DEF TypeOK, PayAll, PayInv, Ledgers, Refunds, Rest, Aged, Ceilings
<1> QED
  BY <1>1, AlwaysAll, PTL

\* The two ledgers of a session part only by a transaction that did not commit.
THEOREM BooksFollowTheRows == Spec => []ApartOnlyByALostCommit
<1>1. PayAll => ApartOnlyByALostCommit
  BY DEF PayAll, Agree, Mirror, ApartOnlyByALostCommit
<1> QED
  BY <1>1, AlwaysAll, PTL

\* The refunds naming a cause never pass its ceiling.
THEOREM CeilingHeld == Spec => []CauseHoldsItsCeiling
<1>1. PayAll => CauseHoldsItsCeiling
  BY DEF PayAll, Ceilings, CauseHoldsItsCeiling, RefundedForReference
<1> QED
  BY <1>1, AlwaysAll, PTL

\* Every reachable state has its sums as well.
LEMMA AlwaysSummed == Spec => [](PayAll /\ Summed)
<1>1. Init => PayAll /\ Summed
  BY StartAll, StartSums
<1>2. PayAll /\ Summed /\ [Next]_vars => (PayAll /\ Summed)'
  BY StepAll, StepSums DEF PayAll
<1> QED
  BY <1>1, <1>2, PTL DEF Spec

\* The totals of every collection are the sums over its sessions, however many there
\* are, committed or about to be.
THEOREM TotalsAreTheSums == Spec => []TotalsAddUp
<1>1. ASSUME PayAll, Summed PROVE TotalsAddUp
  <2>1. ASSUME NEW c \in Collections, NEW d \in LedgerOf(c), Strong(c, d)
        PROVE  /\ d.held = Total(d, LAMBDA row : IF row.status = "authorized" THEN row.hold ELSE 0)
               /\ d.taken = Total(d, LAMBDA row : row.paid)
               /\ d.back = Total(d, LAMBDA row : row.back)
               /\ d.status = CollectionStatusFor(d)
    <3>1. DOMAIN d.ses = SessionsOf(c)
      BY LedgerNumbers
    <3> QED
      BY <2>1, <3>1 DEF Strong, Total, SumFunction, HoldsOf, HoldOf, Takes, Backs
  <2>2. ASSUME NEW c \in Collections
        PROVE  /\ db[c] \in LedgerOf(c) /\ Strong(c, db[c])
               /\ tx[c].open => tx[c].db \in LedgerOf(c) /\ Strong(c, tx[c].db)
    <3>1. tx[c].open => tx[c].db \in LedgerOf(c)
      BY <1>1, OpenIs DEF PayAll, Opened, Good
    <3> QED
      BY <1>1, <3>1 DEF PayAll, PayInv, Ledgers, Good, Summed
  <2>3. ASSUME NEW d \in {db[c] : c \in Collections} \cup {tx[c].db : c \in {x \in Collections : tx[x].open}}
        PROVE  \E c \in Collections : d \in LedgerOf(c) /\ Strong(c, d)
    BY <2>2
  <2> QED
    BY <2>1, <2>3 DEF TotalsAddUp
<1> QED
  BY <1>1, AlwaysSummed, PTL

\* A transaction that has called its provider passes every check that follows the call.
THEOREM ChecksHold == Spec => []ChecksNeverStrandMoney
<1>1. ASSUME PayAll, Summed PROVE ChecksNeverStrandMoney
  <2> SUFFICES ASSUME NEW c \in Collections, tx[c].open PROVE Checks(tx[c].db)
    BY DEF ChecksNeverStrandMoney
  <2>1. tx[c].db \in LedgerOf(c)
    BY <1>1, OpenIs DEF PayAll, Opened, Good
  <2>2. Strong(c, tx[c].db)
    BY <1>1 DEF Summed
  <2>3. PICK d : d = tx[c].db
    OBVIOUS
  <2> DEFINE S == SessionsOf(c)
             claims == SumFunctionOnSet(Claims(d), S)
  <2>4. /\ IsFiniteSet(S) /\ DOMAIN d.ses = S
        /\ \A s \in S : /\ d.ses[s] \in Row /\ RowOK(d.ses[s])
                        /\ HoldsOf(d)[s] = HoldOf(d.ses[s]) /\ Takes(d)[s] = d.ses[s].paid
                        /\ Backs(d)[s] = d.ses[s].back /\ Claims(d)[s] = Reserves(d.ses[s])
        /\ Numbers(HoldsOf(d), S) /\ Numbers(Takes(d), S) /\ Numbers(Backs(d), S) /\ Numbers(Claims(d), S)
    BY <2>1, <2>2, <2>3, LedgerNumbers DEF Strong
  <2>5. \A s \in S : /\ HoldsOf(d)[s] \in Nat /\ Takes(d)[s] \in Nat /\ Backs(d)[s] \in Nat /\ Claims(d)[s] \in Nat
                     /\ HoldsOf(d)[s] <= Claims(d)[s] /\ Backs(d)[s] <= Takes(d)[s]
    BY <2>4, RowNumbers DEF RowOK
  <2>6. d.held \in Nat /\ d.taken \in Nat /\ d.back \in Nat /\ claims \in Nat
    <3>1. ASSUME NEW f, \A s \in S : f[s] \in Nat PROVE SumFunctionOnSet(f, S) \in Nat
      <4>1. CASE S = {}
        BY <4>1, SumEmpty
      <4>2. CASE S # {}
        <5>1. PICK s \in S : TRUE
          BY <4>2
        <5> QED
          BY <2>4, <3>1, <5>1, SumHasPart
      <4> QED
        BY <4>1, <4>2
    <3>2. /\ \A s \in S : HoldsOf(d)[s] \in Nat
          /\ \A s \in S : Takes(d)[s] \in Nat
          /\ \A s \in S : Backs(d)[s] \in Nat
          /\ \A s \in S : Claims(d)[s] \in Nat
      BY <2>5
    <3> QED
      BY <2>2, <2>3, <3>1, <3>2 DEF Strong
  <2>7. d.held <= claims
    <3>1. \A s \in S : HoldsOf(d)[s] <= Claims(d)[s]
      BY <2>5
    <3>2. SumFunctionOnSet(HoldsOf(d), S) <= claims
      BY <2>4, <3>1, SumOrdered
    <3> QED
      BY <2>2, <2>3, <3>2 DEF Strong
  <2>8. d.back <= d.taken
    <3>1. \A s \in S : Backs(d)[s] <= Takes(d)[s]
      BY <2>5
    <3>2. SumFunctionOnSet(Backs(d), S) <= SumFunctionOnSet(Takes(d), S)
      BY <2>4, <3>1, SumOrdered
    <3> QED
      BY <2>2, <2>3, <3>2 DEF Strong
  <2>9. d.taken + claims <= Amount
    BY <2>2, <2>3 DEF Strong
  <2> HIDE DEF claims
  <2>10. d.held \in Money /\ d.taken \in Money
    BY <2>6, <2>7, <2>9, PaymentAssumption DEF Money
  <2>11. \A s \in S : d.ses[s].hold \in 0..d.ses[s].amount /\ d.ses[s].back \in 0..d.ses[s].paid
    BY <2>4, RowNumbers DEF RowOK
  <2> QED
    BY <2>3, <2>4, <2>6, <2>8, <2>10, <2>11 DEF Checks
<1> QED
  BY <1>1, AlwaysSummed, PTL

\* What is booked was really moved by the provider, whatever commit was lost: every
\* capture, by itself, and the refunds of a provider's book together, also where several
\* sessions of a collection share a page.
THEOREM BookingsAreReal == Spec => []BookedIsReal
<1> DEFINE Inv == PayAll /\ Summed /\ Behind /\ RealRows /\ Returned
<1>1. Init => Inv
  BY StartAll, StartSums, StartBehind
<1>2. Inv /\ [Next]_vars => Inv'
  <2> SUFFICES ASSUME Inv, [Next]_vars PROVE Inv'
    OBVIOUS
  <2>1. PayAll' /\ Summed'
    BY StepAll, StepSums DEF PayAll
  <2>2. PayInv /\ PayInv'
    BY <2>1 DEF PayAll
  <2> QED
    BY <2>1, <2>2, StepBehind
<1>3. ASSUME Inv PROVE BookedIsReal
  <2>1. \A s \in Sessions : Real(db[Home[s]].ses[s], books[Book(s)]) /\ db[Home[s]].ses[s] \in Row
    BY <1>3, HomeTyped DEF PayAll, RealRows, RealAt
  <2>2. ASSUME NEW x \in Sessions \cup Collections
        PROVE  Booked({s \in Sessions : Book(s) = x}, LAMBDA row : row.back) <= books[x].back
    <3> DEFINE S == {s \in Sessions : Book(s) = x}
               back == [s \in S |-> db[Home[s]].ses[s].back]
    <3>1. books[x].back \in Nat
      BY <1>3, EntryNumbers DEF PayAll, PayInv, Rest
    <3>2. SumFunctionOnSet(back, S) <= books[x].back
      <4>1. CASE x \in Collections
        <5>1. S = OnPage(x) /\ \A s \in S : Home[s] = x
          BY <4>1, PaymentAssumption DEF Book, OnPage, SessionsOf
        <5>2. db[x] \in LedgerOf(x)
          BY <1>3, <4>1 DEF PayAll, PayInv, Ledgers, Good
        <5>3. \A s \in S : back[s] = Backs(db[x])[s]
          BY <5>1, <5>2, PageNumbers
        <5>4. SumFunctionOnSet(Backs(db[x]), OnPage(x)) <= books[x].back
          BY <1>3, <4>1 DEF Returned, ReturnedAt, PageBacks
        <5>5. IsFiniteSet(OnPage(x)) /\ Numbers(Backs(db[x]), OnPage(x))
          BY <5>2, PageNumbers
        <5> HIDE DEF back, S
        <5>6. SumFunctionOnSet(Backs(db[x]), OnPage(x)) = SumFunctionOnSet(back, S)
          BY <5>1, <5>3, <5>5, SumSame
        <5> QED
          BY <5>4, <5>6
      <4>2. CASE S = {}
        <5>1. SumFunctionOnSet(back, {}) = 0
          BY SumEmpty
        <5> HIDE DEF back
        <5> QED
          BY <3>1, <4>2, <5>1
      <4>3. CASE x \notin Collections /\ S # {}
        <5>1. PICK s \in S : TRUE
          BY <4>3
        <5>2. S = {x} /\ x \in Sessions /\ Book(x) = x
          BY <4>3, <5>1, AtHome, PaymentAssumption DEF Book
        <5>3. back[x] = db[Home[x]].ses[x].back
          BY <5>2
        <5>4. back[x] \in Nat /\ back[x] <= books[x].back
          BY <2>1, <5>2, <5>3, RowNumbers DEF Real
        <5>5. Numbers(back, {x}) /\ IsFiniteSet({x}) /\ x \in {x} /\ {x} \ {x} = {}
          <6> HIDE DEF back
          <6>1. Numbers(back, {x})
            BY <5>4 DEF Numbers
          <6>2. IsFiniteSet({x})
            BY FS_Singleton
          <6> QED
            BY <6>1, <6>2
        <5> HIDE DEF back, S
        <5>6. SumFunctionOnSet(back, {x}) = back[x] + SumFunctionOnSet(back, {})
          BY <5>5, SumRemove
        <5>7. SumFunctionOnSet(back, {}) = 0
          BY SumEmpty
        <5> QED
          BY <5>2, <5>4, <5>6, <5>7
      <4> QED
        BY <4>1, <4>2, <4>3
    <3>3. DOMAIN back = S
      OBVIOUS
    <3>4. Booked(S, LAMBDA row : row.back) = SumFunctionOnSet(back, S)
      BY <3>3 DEF Booked, SumFunction
    <3> HIDE DEF back
    <3> QED
      BY <3>2, <3>4
  <2> QED
    BY <2>1, <2>2 DEF BookedIsReal, Real
<1> HIDE DEF Inv
<1> QED
  BY <1>1, <1>2, <1>3, PTL DEF Spec

\* The providers keep no more than the collection is for, with any number of sessions,
\* driven or on a page, of any part of the amount, and no more than the uncaptured rest
\* above it where a page was captured in part: unless a customer paid a page that no
\* live session was on.
THEOREM NothingTwice == Spec => []ChargedWithinTheAmount
<1> DEFINE Inv == PayAll /\ Summed /\ Behind /\ Covered
<1>1. Init => Inv
  BY StartAll, StartSums, StartBehind
<1>2. Inv /\ [Next]_vars => Inv'
  <2> SUFFICES ASSUME Inv, [Next]_vars PROVE Inv'
    OBVIOUS
  <2>1. PayAll' /\ Summed'
    BY StepAll, StepSums DEF PayAll
  <2>2. PayInv /\ PayInv'
    BY <2>1 DEF PayAll
  <2> QED
    BY <2>1, <2>2, StepBehind
<1>3. ASSUME Inv, NEW c \in Collections \ stray, NEW rest \in Int,
             \/ rest = 0 /\ Unreleased(c) = {}
             \/ rest \in Unreleased(c)
      PROVE  SumFunction([x \in SessionsOf(c) \cup {c} |-> books[x].taken - books[x].back]) <= Amount + rest
  <2> DEFINE S == SessionsOf(c)
             d == db[c]
             kept == [x \in S \cup {c} |-> books[x].taken - books[x].back]
             charge == [s \in S |-> Charge(d.ses[s])]
  <2>1. /\ d \in LedgerOf(c) /\ Strong(c, d)
    BY <1>3 DEF PayAll, PayInv, Ledgers, Good, Summed
  <2>2. IsFiniteSet(S) /\ c \notin S /\ S \subseteq Sessions /\ \A s \in S : Home[s] = c
    <3>1. IsFiniteSet(S)
      BY <2>1, LedgerNumbers
    <3>2. S \subseteq Sessions /\ \A s \in S : Home[s] = c
      BY DEF SessionsOf
    <3> QED
      BY <3>1, <3>2, PaymentAssumption
  <2>3. IsFiniteSet(S \cup {c}) /\ (S \cup {c}) \ {c} = S
    BY <2>2, FS_AddElement
  <2>4. \A x \in S \cup {c} : /\ books[x].taken \in Nat /\ books[x].back \in Nat
                              /\ kept[x] = books[x].taken - books[x].back
    <3>1. \A x \in S \cup {c} : books[x] \in Entry
      BY <1>3, <2>2 DEF PayAll, PayInv, Rest
    <3> QED
      BY <3>1, EntryNumbers
  <2>5. \A s \in S : /\ charge[s] = Charge(d.ses[s]) /\ charge[s] \in Nat
                     /\ charge[s] = Takes(d)[s] + Claims(d)[s]
    <3>1. \A s \in S : d.ses[s] \in Row /\ RowOK(d.ses[s])
      BY <2>1, LedgerNumbers DEF Strong
    <3>2. \A s \in S : charge[s] = Charge(d.ses[s]) /\ charge[s] \in Nat
      BY <3>1, ChargeNumber
    <3>3. \A s \in S : Takes(d)[s] = d.ses[s].paid /\ Claims(d)[s] = Reserves(d.ses[s])
      BY <2>1, LedgerNumbers
    <3> QED
      BY <3>2, <3>3 DEF Charge
  <2>6. \A s \in S : kept[s] <= charge[s] /\ (Provider[s] = "page" => kept[s] = 0)
    <3> SUFFICES ASSUME NEW s \in S PROVE kept[s] <= charge[s] /\ (Provider[s] = "page" => kept[s] = 0)
      OBVIOUS
    <3>1. kept[s] = books[s].taken - books[s].back /\ charge[s] = Charge(d.ses[s]) /\ charge[s] \in Nat
          /\ books[s].taken \in Nat /\ books[s].back \in Nat /\ s \in Sessions /\ Home[s] = c
      BY <2>2, <2>4, <2>5
    <3>2. CASE Provider[s] = "page"
      <4>1. books[s].taken = 0 /\ books[s].back = 0
        BY <1>3, <3>1, <3>2 DEF Behind, Paged
      <4> QED
        BY <3>1, <4>1
    <3>3. CASE Provider[s] # "page"
      <4>1. books[s].taken <= Charge(d.ses[s])
        BY <1>3, <3>1, <3>3 DEF Behind, Driven, DrivenAt
      <4> HIDE DEF kept, charge
      <4> QED
        BY <3>1, <3>3, <4>1
    <3> QED
      BY <3>2, <3>3
  <2>7. \/ kept[c] - rest <= 0
        \/ \E s \in S : Provider[s] = "page" /\ kept[c] - rest <= charge[s]
    <3>1. kept[c] = books[c].taken - books[c].back /\ books[c].taken \in Nat /\ books[c].back \in Nat
      BY <2>4
    <3>2. CASE rest = 0 /\ Unreleased(c) = {}
      <4>1. CoveredAt(c, d, tx[c], books[c])
        BY <1>3 DEF Covered
      <4>2. \A s \in S : Provider[s] = "page" => d.ses[s].status # "captured"
        BY <3>2 DEF Unreleased
      <4>3. \/ ~(books[c].back < books[c].taken)
            \/ \E s \in S : Provider[s] = "page" /\ books[c].taken <= Charge(d.ses[s])
        BY <4>1, <4>2 DEF CoveredAt, Covers
      <4> HIDE DEF kept, charge, S, d
      <4> QED
        BY <2>5, <3>1, <3>2, <4>3
    <3>3. CASE rest \in Unreleased(c)
      <4>1. PICK s \in S : /\ Provider[s] = "page" /\ d.ses[s].status = "captured"
                           /\ rest = books[c].taken - d.ses[s].paid
        BY <3>3 DEF Unreleased
      <4>2. d.ses[s] \in Row /\ RowOK(d.ses[s])
        BY <2>1, LedgerNumbers DEF Strong
      <4>3. charge[s] = d.ses[s].paid /\ d.ses[s].paid \in Nat
        BY <2>5, <4>1, <4>2, ChargeNumber, RowNumbers
      <4> HIDE DEF kept, charge, S, d
      <4> QED
        BY <3>1, <4>1, <4>3
    <3> QED
      BY <1>3, <3>2, <3>3
  <2>8. Numbers(kept, S \cup {c}) /\ Numbers(kept, S) /\ Numbers(charge, S)
    <3> HIDE DEF kept, charge, S
    <3> QED
      BY <2>4, <2>5 DEF Numbers
  <2>9. SumFunctionOnSet(charge, S) <= Amount
    <3>1. Numbers(Takes(d), S) /\ Numbers(Claims(d), S)
      BY <2>1, LedgerNumbers
    <3>2. \A s \in S : charge[s] = Takes(d)[s] + Claims(d)[s]
      BY <2>5
    <3>3. d.taken = SumFunctionOnSet(Takes(d), S) /\ d.taken + SumFunctionOnSet(Claims(d), S) <= Amount
      BY <2>1 DEF Strong
    <3> HIDE DEF charge, S, d
    <3>4. SumFunctionOnSet(charge, S) = SumFunctionOnSet(Takes(d), S) + SumFunctionOnSet(Claims(d), S)
      BY <2>2, <3>1, <3>2, SumPlus
    <3> QED
      BY <3>3, <3>4
  <2>10. SumFunction(kept) = SumFunctionOnSet(kept, S \cup {c})
    BY DEF SumFunction
  <2> HIDE DEF kept, charge, S, d
  <2>11. SumFunctionOnSet(kept, S \cup {c}) = kept[c] + SumFunctionOnSet(kept, S)
    <3>1. SumFunctionOnSet(kept, S \cup {c}) = kept[c] + SumFunctionOnSet(kept, (S \cup {c}) \ {c})
      BY <2>3, <2>8, SumRemove
    <3> QED
      BY <2>3, <3>1
  <2>12. SumFunctionOnSet(kept, S) \in Int /\ SumFunctionOnSet(charge, S) \in Int /\ kept[c] \in Int
    BY <2>2, <2>8, SumInt DEF Numbers
  <2>13. SumFunctionOnSet(kept, S \cup {c}) <= SumFunctionOnSet(charge, S) + rest
    <3>1. CASE kept[c] - rest <= 0
      <4>1. SumFunctionOnSet(kept, S) <= SumFunctionOnSet(charge, S)
        BY <2>2, <2>6, <2>8, SumOrdered
      <4> QED
        BY <2>11, <2>12, <3>1, <4>1
    <3>2. ASSUME NEW p \in S, Provider[p] = "page", kept[c] - rest <= charge[p]
          PROVE  SumFunctionOnSet(kept, S \cup {c}) <= SumFunctionOnSet(charge, S) + rest
      <4> DEFINE g == [x \in S |-> IF x = p THEN kept[c] - rest ELSE kept[x]]
      <4>1. /\ g[p] = kept[c] - rest /\ \A y \in S : y # p => g[y] = kept[y]
        BY <3>2
      <4>2. Numbers(g, S)
        BY <2>8, <2>12 DEF Numbers
      <4>3. \A y \in S : g[y] <= charge[y]
        BY <2>6, <3>2
      <4> HIDE DEF g
      <4>4. SumFunctionOnSet(g, S) = SumFunctionOnSet(kept, S) - kept[p] + g[p]
        BY <2>2, <2>8, <3>2, <4>1, <4>2, SumChange
      <4>5. SumFunctionOnSet(g, S) <= SumFunctionOnSet(charge, S)
        BY <2>2, <2>8, <4>2, <4>3, SumOrdered
      <4>6. kept[p] = 0
        BY <2>6, <3>2
      <4> QED
        BY <2>11, <2>12, <4>1, <4>4, <4>5, <4>6
    <3> QED
      BY <2>7, <3>1, <3>2
  <2>14. SumFunction(kept) <= Amount + rest
    <3>1. Amount \in Int /\ SumFunctionOnSet(kept, S \cup {c}) \in Int
      BY <2>11, <2>12, PaymentAssumption
    <3> QED
      BY <2>9, <2>10, <2>12, <2>13, <3>1
  <2> QED
    BY <2>14 DEF kept, S
<1>4. ASSUME Inv PROVE ChargedWithinTheAmount
  <2> SUFFICES ASSUME NEW c \in Collections \ stray
               PROVE  LET kept == SumFunction([x \in SessionsOf(c) \cup {c} |-> books[x].taken - books[x].back])
                      IN  IF Unreleased(c) = {} THEN kept <= Amount
                          ELSE \A rest \in Unreleased(c) : kept <= Amount + rest
    BY DEF ChargedWithinTheAmount
  <2> DEFINE kept == SumFunction([x \in SessionsOf(c) \cup {c} |-> books[x].taken - books[x].back])
  <2>1. Unreleased(c) \subseteq Int
    <3>1. books[c].taken \in Nat
      BY <1>4, EntryNumbers DEF PayAll, PayInv, Rest
    <3>2. \A s \in SessionsOf(c) : db[c].ses[s].paid \in Nat
      BY <1>4, HomeTyped, RowNumbers DEF PayAll, SessionsOf
    <3> QED
      BY <3>1, <3>2 DEF Unreleased
  <2>2. Unreleased(c) = {} => kept <= Amount + 0
    BY <1>3, <1>4
  <2>3. \A rest \in Unreleased(c) : kept <= Amount + rest
    BY <1>3, <1>4, <2>1
  <2> HIDE DEF kept
  <2>4. Amount + 0 = Amount
    BY PaymentAssumption
  <2> QED
    BY <2>2, <2>3, <2>4 DEF kept
<1> HIDE DEF Inv
<1> QED
  BY <1>1, <1>2, <1>4, PTL DEF Spec

=============================================================================
