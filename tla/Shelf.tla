------------------------------- MODULE Shelf -------------------------------
(***************************************************************************)
(* The stock behind one order: the levels of the item its lines sell       *)
(* (internal/modules/inventory), the claims of its backordered lines, its  *)
(* parcels (internal/modules/fulfillment) and its write-offs               *)
(* (internal/modules/order), the checkout's last step                      *)
(* (internal/workflows/checkout/clear_cart.go) and the cancellation flow   *)
(* (internal/workflows/ordercancel), which hears of every write-off and of *)
(* every parcel that was canceled or came back, at least once, in any      *)
(* order and several at a time.                                            *)
(*                                                                         *)
(* Every line sells the same item, a unit of a line is a unit of the item, *)
(* and a parcel holds units of one line.  Returns and replacements of      *)
(* delivered goods are left out, so nothing is spoken for.  A database     *)
(* transaction is one step; reads made outside it are steps of their own.  *)
(***************************************************************************)
EXTENDS Integers, FiniteSets, FiniteSetsExt, Functions

CONSTANTS
    Lines,        \* the lines of the order, numbered as the cart has them
    Reserved,     \* the lines the stock step reserved; the others are backordered
    Bought,       \* the units every line sold
    Places,       \* the warehouses, numbered by the rank fulfillment gives them
    Shelves,      \* what the warehouses may hold beyond the reservations at first
    Parcels,
    Handlers,     \* deliveries of events under way
    NoPlace,
    MaxArrivals,  \* bound on the units that arrive
    MaxWrittenOff, \* bound on the units written off
    MaxFaults     \* bound on failing calls and repeated deliveries

ASSUME ShelfAssumption ==
    /\ Lines \subseteq Nat \ {0} /\ IsFiniteSet(Lines)
    /\ Reserved \subseteq Lines /\ Reserved # Lines
    /\ Bought \in Nat \ {0}
    /\ Places \subseteq Nat \ {0} /\ 1 \in Places /\ IsFiniteSet(Places)
    /\ Shelves \subseteq [Places -> 0 .. Bought - 1]
    /\ IsFiniteSet(Parcels)
    /\ NoPlace \notin Places
    /\ {MaxArrivals, MaxWrittenOff, MaxFaults} \subseteq Nat

VARIABLES
    stocked,    \* the physical count of a level
    reserved,   \* the part of it that is promised
    claim,      \* the backorder claim of a line
    sold,       \* the reserved lines whose reservation was confirmed
    returned,   \* the units of a line its write-offs put back, and where
    canceled,   \* the units of a line that were written off
    parcel,
    dispatch,   \* the parcel that holds the order's dispatch lock
    events,     \* what the outbox has published
    todo,       \* the events no delivery of which was handled yet
    handler,    \* where a delivery stands
    checkout,   \* where the checkout's last step stands
    spent,      \* arrivals, written-off units and faults so far
    excused     \* history: lines that met a window the flows leave open, which are
                \*   a claim, a settlement or a confirm that failed with a warning;
                \*   a parcel the checkout counts otherwise than the flow (D268);
                \*   a parcel opened against a ceiling a write-off has lowered (D265);
                \*   a reserved line whose event was handled before its confirm;
                \*   a claim filled after it was recorded and before it was settled

stock == <<stocked, reserved, claim, sold, returned>>
order == <<canceled, parcel, dispatch, events>>
vars == <<stock, order, todo, handler, checkout, spent, excused>>

Backordered == Lines \ Reserved
Units == 0..Bought
NoParcel == [status |-> "none", line |-> 0, units |-> 0, ceiling |-> 0]
NoClaim == [status |-> "none", withdrawn |-> 0, at |-> NoPlace]

\* A waiting claim, and one that waits and names no warehouse
Unfilled == {"waiting", "unplaced"}
Idle == [pc |-> "idle"]

LineEvents == [about : {"line"}, line : Lines, total : 1..Bought]
ParcelEvents == [about : {"parcel"}, line : Lines, of : Parcels]

TypeOK ==
    /\ \A p \in Places : 0 <= reserved[p] /\ reserved[p] <= stocked[p]
    /\ claim \in [Lines -> [status : {"none", "filled", "withdrawn"} \cup Unfilled,
                            withdrawn : Units, at : Places \cup {NoPlace}]]
    /\ sold \subseteq Reserved
    /\ returned \in [Lines -> [units : Units, at : SUBSET Places]]
    /\ canceled \in [Lines -> Units]
    /\ \A x \in Parcels : parcel[x].status \in {"none", "asked", "opening", "live",
                                                 "canceled", "returned"}
    /\ dispatch \in SUBSET Parcels /\ Cardinality(dispatch) <= 1
    /\ events \subseteq LineEvents \cup ParcelEvents /\ todo \subseteq events
    /\ \A h \in Handlers : handler[h].pc \in {"idle", "count", "sold", "settle", "drain", "put"}
    /\ checkout.pc \in {"claim", "read", "count", "settle", "drain", "confirm", "done"}
    /\ excused \subseteq Lines

\* The reservations of the reserved lines are held at the first warehouse, and no
\* warehouse can cover another line whole
Init ==
    /\ \E spare \in Shelves :
          stocked = [p \in Places |-> spare[p] +
                       (IF p = 1 THEN Bought * Cardinality(Reserved) ELSE 0)]
    /\ reserved = [p \in Places |-> IF p = 1 THEN Bought * Cardinality(Reserved) ELSE 0]
    /\ claim = [l \in Lines |-> NoClaim]
    /\ sold = {}
    /\ returned = [l \in Lines |-> [units |-> 0, at |-> {}]]
    /\ canceled = [l \in Lines |-> 0]
    /\ parcel = [x \in Parcels |-> NoParcel]
    /\ dispatch = {}
    /\ events = {}
    /\ todo = {}
    /\ handler = [h \in Handlers |-> Idle]
    /\ checkout = [pc |-> "claim", left |-> Backordered, as |-> "waiting"]
    /\ spent = [arrivals |-> 0, writtenOff |-> 0, faults |-> 0]
    /\ excused = {}

MayFail == spent.faults < MaxFaults
Fail == spent' = [spent EXCEPT !.faults = @ + 1]

-----------------------------------------------------------------------------
(* The inventory module: levels, and the claims waiting at them.           *)

Available(p) == stocked[p] - reserved[p]
Owed(l) == Bought - claim[l].withdrawn

\* Slip: only a filled claim is answered
UndeductedFilled(c) == IF c.status = "filled" THEN c.withdrawn ELSE 0

Undeducted(c) == IF c.status = "filled" THEN c.withdrawn
                 ELSE IF c.status = "none" THEN 0 ELSE Bought

\* What the claims of a set of lines still wait for, together
OwedTo(S) == SumFunction([l \in Lines |-> IF l \in S THEN Owed(l) ELSE 0])

\* The claims the units complete: oldest first, each of them whole, from what the
\* older ones left
Fillable(available) ==
    LET waiting == {l \in Lines : claim[l].status = "waiting"}
    IN CHOOSE fill \in SUBSET waiting :
          \A l \in waiting :
              l \in fill <=> OwedTo({older \in fill : older < l}) + Owed(l) <= available

\* fillWaiting after a write that left count and promise at p
FillWaiting(p, count, promise, fill) ==
    /\ stocked' = [stocked EXCEPT ![p] = count - OwedTo(fill)]
    /\ reserved' = [reserved EXCEPT ![p] = promise]
    /\ claim' = [l \in Lines |-> IF l \in fill
                                 THEN [claim[l] EXCEPT !.status = "filled", !.at = p]
                                 ELSE claim[l]]

WriteQuantities(p, count, promise) ==
    FillWaiting(p, count, promise,
                IF count - promise > Available(p) THEN Fillable(count - promise) ELSE {})

\* Units arrive: a receipt, a count, a correction
Arrive(p) ==
    /\ spent.arrivals < MaxArrivals
    /\ spent' = [spent EXCEPT !.arrivals = @ + 1]
    /\ WriteQuantities(p, stocked[p] + 1, reserved[p])
    /\ UNCHANGED <<sold, returned, order, todo, handler, checkout, excused>>

\* The withdrawal: a claim that waits is brought up to the window
SettledClaim(l, window) ==
    LET c == claim[l]
        withdrawn == Max({c.withdrawn, window})
    IN IF c.status \notin Unfilled THEN c
       ELSE [c EXCEPT !.withdrawn = withdrawn,
                      !.status = IF withdrawn = Bought THEN "withdrawn" ELSE @]

SettleBackorder(l, window) ==
    /\ claim' = [claim EXCEPT ![l] = SettledClaim(l, window)]
    /\ UNCHANGED <<stocked, reserved>>

\* Slip: what is there already is not looked at
DrainAtArrivals(p) == UNCHANGED <<stocked, reserved, claim>>

\* One warehouse of the drain, which fills from what is there
DrainAt(p) ==
    IF Available(p) <= 0 THEN UNCHANGED <<stocked, reserved, claim>>
    ELSE FillWaiting(p, stocked[p], reserved[p], Fillable(Available(p)))

-----------------------------------------------------------------------------
(* The order module: write-offs.                                           *)

Publish(e) == events' = events \cup {e} /\ todo' = todo \cup {e}

\* The ceiling is checked and the event written under the order's lock
CancelOrderLine(l, n) ==
    /\ spent.writtenOff + n <= MaxWrittenOff
    /\ spent' = [spent EXCEPT !.writtenOff = @ + n]
    /\ canceled[l] + n <= Bought
    /\ canceled' = [canceled EXCEPT ![l] = @ + n]
    /\ Publish([about |-> "line", line |-> l, total |-> canceled[l] + n])
    /\ UNCHANGED <<stock, parcel, dispatch, handler, checkout, excused>>

-----------------------------------------------------------------------------
(* The fulfillment module: the parcels and the order's dispatch lock.      *)

Sum(S) == SumFunction([x \in Parcels |-> IF x \in S THEN parcel[x].units ELSE 0])
ParcelsOf(l, statuses) == {x \in Parcels : parcel[x].line = l /\ parcel[x].status \in statuses}

\* Counted by the reference on each item; a parcel that came back holds what is
\* spoken for, which is nothing
Held(l) == Sum(ParcelsOf(l, {"live"}))

\* The ceiling is read before the transaction
OpenAsked(x, l, n) ==
    /\ parcel[x].status = "none"
    /\ n <= Bought - canceled[l]
    /\ parcel' = [parcel EXCEPT ![x] = [status |-> "asked", line |-> l, units |-> n,
                                        ceiling |-> Bought - canceled[l]]]
    /\ UNCHANGED <<stock, canceled, dispatch, events, todo, handler, checkout, spent, excused>>

FitsCeiling(x) == Held(parcel[x].line) + parcel[x].units <= parcel[x].ceiling

\* The transaction takes the order's lock and counts what its parcels hold.  A
\* write-off since the ceiling was read is not seen (ADR 0430, gaps D265)
OpenLocked(x) ==
    /\ parcel[x].status = "asked"
    /\ dispatch = {}
    /\ IF FitsCeiling(x)
       THEN /\ parcel' = [parcel EXCEPT ![x].status = "opening", ![x].ceiling = 0]
            /\ dispatch' = {x}
            /\ excused' = excused \cup
                  {l \in {parcel[x].line} : Held(l) + parcel[x].units > Bought - canceled[l]}
       ELSE /\ parcel' = [parcel EXCEPT ![x] = NoParcel]
            /\ UNCHANGED <<dispatch, excused>>
    /\ UNCHANGED <<stock, canceled, events, todo, handler, checkout, spent>>

\* The carrier answered, and the parcel and its items are committed
OpenCommits(x) ==
    /\ parcel[x].status = "opening"
    /\ parcel' = [parcel EXCEPT ![x].status = "live"]
    /\ dispatch' = {}
    /\ UNCHANGED <<stock, canceled, events, todo, handler, checkout, spent, excused>>

\* The carrier refused, or the transaction was lost
OpenFails(x) ==
    /\ parcel[x].status = "opening"
    /\ parcel' = [parcel EXCEPT ![x] = NoParcel]
    /\ dispatch' = {}
    /\ UNCHANGED <<stock, canceled, events, todo, handler, checkout, spent, excused>>

CancelFulfillment(x) ==
    /\ parcel[x].status = "live"
    /\ parcel' = [parcel EXCEPT ![x] = [NoParcel EXCEPT !.status = "canceled"]]
    /\ Publish([about |-> "parcel", line |-> parcel[x].line, of |-> x])
    /\ UNCHANGED <<stock, canceled, dispatch, handler, checkout, spent, excused>>

\* A parcel that comes back before the checkout has counted is counted whole there
\* (gaps D268)
MarkReturned(x) ==
    /\ parcel[x].status = "live"
    /\ parcel' = [parcel EXCEPT ![x].status = "returned"]
    /\ Publish([about |-> "parcel", line |-> parcel[x].line, of |-> x])
    /\ excused' = excused \cup {l \in {parcel[x].line} :
                                  checkout.pc \in {"claim", "read", "count"}}
    /\ UNCHANGED <<stock, canceled, dispatch, handler, checkout, spent>>

-----------------------------------------------------------------------------
(* The cancellation flow: a delivery of an event.                          *)

\* How many of a line's written-off units will not leave
TargetOnShelf(total, committed) == Max({0, Min({total, Bought - committed})})

Stand(h, at) == handler' = [handler EXCEPT ![h] = at]
Handled(h) == /\ Stand(h, Idle)
              /\ todo' = IF handler[h].failed THEN todo \cup {handler[h].event}
                         ELSE todo \ {handler[h].event}

\* Slip: the count does not ask for the order's dispatch lock
CountableAnyTime == TRUE

\* heldUnderLock: the count waits while a parcel of the order is being opened
Countable == dispatch = {}

\* committedQuantity, and the line's window
Count(h, e, total) ==
    LET window == TargetOnShelf(total, Held(e.line))
    IN /\ Countable
       /\ IF window = 0
          THEN Stand(h, Idle) /\ todo' = todo \ {e}
          ELSE Stand(h, [pc |-> "sold", event |-> e, line |-> e.line, window |-> window])
               /\ UNCHANGED todo

\* A delivery may repeat one that was handled or is being handled
Delivered(e) ==
    \/ e \in todo /\ UNCHANGED spent
    \/ e \notin todo /\ MayFail /\ Fail

\* The total is on the event
HandleLineCanceled(h, e) ==
    /\ handler[h] = Idle
    /\ e.about = "line"
    /\ Delivered(e)
    /\ Count(h, e, e.total)
    /\ UNCHANGED <<stock, order, checkout, excused>>

\* The total is read with the order's lines, before the count
RecountParcel(h, e) ==
    /\ handler[h] = Idle
    /\ e.about = "parcel"
    /\ Delivered(e)
    /\ Stand(h, [pc |-> "count", event |-> e, total |-> canceled[e.line]])
    /\ UNCHANGED <<stock, order, todo, checkout, excused>>

CountHeld(h) ==
    /\ handler[h].pc = "count"
    /\ Count(h, handler[h].event, handler[h].total)
    /\ UNCHANGED <<stock, order, checkout, spent, excused>>

\* SaleLocations: the shelf of the order's sale, fills of claims left out
ReadShelves(h) ==
    /\ handler[h].pc = "sold"
    /\ Stand(h, [pc |-> "settle", event |-> handler[h].event, line |-> handler[h].line,
                 window |-> handler[h].window,
                 soldAt |-> IF sold = {} THEN NoPlace ELSE 1])
    /\ UNCHANGED <<stock, order, todo, checkout, spent, excused>>

Settle(h) ==
    /\ handler[h].pc = "settle"
    /\ LET l == handler[h].line
           c == SettledClaim(l, handler[h].window)
       IN /\ SettleBackorder(l, handler[h].window)
          /\ Stand(h, [pc |-> IF c.status = "waiting" THEN "drain" ELSE "put",
                       event |-> handler[h].event, line |-> l, failed |-> FALSE,
                       target |-> Max({0, handler[h].window - Undeducted(c)}),
                       shelf |-> IF c.status = "filled" THEN c.at ELSE handler[h].soldAt,
                       left |-> IF c.status = "waiting" THEN Places ELSE {}])
    /\ UNCHANGED <<sold, returned, order, todo, checkout, spent, excused>>

\* One warehouse of the drain; it ends when the claim is filled
Drain(h) ==
    /\ handler[h].pc = "drain"
    /\ LET p == Min(handler[h].left)
           left == handler[h].left \ {p}
       IN /\ DrainAt(p)
          /\ handler' = IF left = {} \/ claim'[handler[h].line].status # "waiting"
                        THEN [handler EXCEPT ![h].pc = "put", ![h].left = {}]
                        ELSE [handler EXCEPT ![h].left = left]
    /\ UNCHANGED <<sold, returned, order, todo, checkout, spent, excused>>

\* An error of the drain is returned after the put-back, so that the bus calls again
DrainFails(h) ==
    /\ handler[h].pc = "drain"
    /\ MayFail /\ Fail
    /\ handler' = [handler EXCEPT ![h].pc = "put", ![h].left = {}, ![h].failed = TRUE]
    /\ UNCHANGED <<stock, order, todo, checkout, excused>>

\* What brings a line's returned units up to the target, read under the level's lock
Quantity(l, target) == Max({0, target - returned[l].units})

\* putBack and ReturnCanceledInventory.  A line whose sale is not in the ledger yet
\* is given up on, though the checkout may confirm it later
PutBack(h) ==
    /\ handler[h].pc = "put"
    /\ LET l == handler[h].line
           p == handler[h].shelf
           q == Quantity(l, handler[h].target)
       IN IF handler[h].target = 0 \/ p = NoPlace \/ q = 0
          THEN /\ UNCHANGED <<stocked, reserved, claim, returned>>
               /\ excused' = excused \cup {m \in {l} \cap Reserved : p = NoPlace}
          ELSE /\ WriteQuantities(p, stocked[p] + q, reserved[p])
               /\ returned' = [returned EXCEPT ![l] = [units |-> @.units + q, at |-> @.at \cup {p}]]
               /\ UNCHANGED excused
    /\ Handled(h)
    /\ UNCHANGED <<sold, order, checkout, spent>>

\* A call fails, the lock stays busy or the process dies: the bus delivers again
DeliveryFails(h) ==
    /\ handler[h] # Idle
    /\ MayFail /\ Fail
    /\ Stand(h, Idle)
    /\ todo' = todo \cup {handler[h].event}
    /\ UNCHANGED <<stock, order, checkout, excused>>

-----------------------------------------------------------------------------
(* The checkout's last step.                                               *)

Confirming == [pc |-> IF Reserved = {} THEN "done" ELSE "confirm", left |-> Reserved]

AfterClaims(left, claims) ==
    IF left # {} THEN [checkout EXCEPT !.left = left]
    ELSE IF \E l \in Lines : claims[l].status # "none" THEN [pc |-> "read"]
    ELSE Confirming

\* The warehouses are ranked once, before the first claim: a warning on the checkout's
\* answer, and the claims name none
RankingFails ==
    /\ checkout.pc = "claim" /\ checkout.left = Backordered /\ checkout.as = "waiting"
    /\ MayFail /\ Fail
    /\ checkout' = [checkout EXCEPT !.as = "unplaced"]
    /\ UNCHANGED <<stock, order, todo, handler, excused>>

ClaimBackorder ==
    /\ checkout.pc = "claim"
    /\ LET l == Min(checkout.left)
       IN /\ claim' = [claim EXCEPT ![l].status = checkout.as]
          /\ checkout' = AfterClaims(checkout.left \ {l}, claim')
    /\ UNCHANGED <<stocked, reserved, sold, returned, order, todo, handler, spent, excused>>

\* A warning on the checkout's answer; the line is owed nothing (gaps D242)
ClaimFails ==
    /\ checkout.pc = "claim"
    /\ MayFail /\ Fail
    /\ excused' = excused \cup {Min(checkout.left)}
    /\ checkout' = AfterClaims(checkout.left \ {Min(checkout.left)}, claim)
    /\ UNCHANGED <<stock, order, todo, handler>>

\* The write-offs are read after the claims, and the parcels after the write-offs
ReadWriteOffs ==
    /\ checkout.pc = "read"
    /\ checkout' = [pc |-> "count", canceled |-> canceled]
    /\ UNCHANGED <<stock, order, todo, handler, spent, excused>>

\* Slip: the parcels are taken off the write-offs rather than off what was bought
UnitsThatWillNotLeaveLess(written, committed) == Max({0, written - committed})

UnitsThatWillNotLeave(written, committed) == Max({0, Min({written, Bought - committed})})

\* The checkout counts through the links and without the dispatch lock: a parcel that
\* is being opened, or is open and not linked to its order yet, is missed
CountParcels ==
    /\ checkout.pc = "count"
    /\ \E unlinked \in SUBSET {x \in Parcels : parcel[x].status = "live"} :
          LET missed(l) == Sum(ParcelsOf(l, {"opening"}) \cup (ParcelsOf(l, {"live"}) \cap unlinked))
              counted(l) == Sum(ParcelsOf(l, {"live", "returned"}) \ unlinked)
              window(l, n) == UnitsThatWillNotLeave(checkout.canceled[l], n)
          IN /\ checkout' = [pc |-> "settle", left |-> {l \in Lines : claim[l].status # "none"},
                             window |-> [l \in Lines |-> window(l, counted(l))]]
             /\ excused' = excused \cup {l \in Backordered :
                              window(l, counted(l)) # window(l, counted(l) + missed(l))}
    /\ UNCHANGED <<stock, order, todo, handler, spent>>

NextLine(left) == IF left = {} THEN Confirming
                  ELSE [pc |-> "settle", left |-> left, window |-> checkout.window]

\* The settlement's answer is dropped: nothing is put back of a claim that was filled
\* since it was recorded
SettleClaim ==
    /\ checkout.pc = "settle"
    /\ LET l == Min(checkout.left)
           left == checkout.left \ {l}
           window == checkout.window[l]
       IN /\ SettleBackorder(l, window)
          /\ excused' = excused \cup {m \in {l} : claim[m].status = "filled" /\ window > 0}
          /\ checkout' = IF SettledClaim(l, window).status = "waiting"
                         THEN [pc |-> "drain", left |-> left, window |-> checkout.window,
                               line |-> l, places |-> Places]
                         ELSE NextLine(left)
    /\ UNCHANGED <<sold, returned, order, todo, handler, spent>>

DrainClaim ==
    /\ checkout.pc = "drain"
    /\ LET p == Min(checkout.places)
           places == checkout.places \ {p}
       IN /\ DrainAt(p)
          /\ checkout' = IF places = {} \/ claim'[checkout.line].status # "waiting"
                         THEN NextLine(checkout.left)
                         ELSE [checkout EXCEPT !.places = places]
    /\ UNCHANGED <<sold, returned, order, todo, handler, spent, excused>>

\* A read or a settlement fails: a warning, and the checkout goes on
SettlementFails ==
    /\ checkout.pc \in {"read", "count", "settle", "drain"}
    /\ MayFail /\ Fail
    /\ LET skipped == CASE checkout.pc = "settle" -> {Min(checkout.left)}
                        [] checkout.pc = "drain" -> {checkout.line}
                        [] OTHER -> Backordered
       IN /\ excused' = excused \cup skipped
          /\ checkout' = IF checkout.pc \in {"settle", "drain"}
                         THEN NextLine(checkout.left \ skipped) ELSE Confirming
    /\ UNCHANGED <<stock, order, todo, handler>>

AfterConfirm == IF checkout.left \ {Min(checkout.left)} = {} THEN [pc |-> "done"]
                ELSE [checkout EXCEPT !.left = @ \ {Min(@)}]

\* The reservation's units leave the count; the movement names the order
ConfirmLine ==
    /\ checkout.pc = "confirm"
    /\ WriteQuantities(1, stocked[1] - Bought, reserved[1] - Bought)
    /\ sold' = sold \cup {Min(checkout.left)}
    /\ checkout' = AfterConfirm
    /\ UNCHANGED <<returned, order, todo, handler, spent, excused>>

\* A warning on the checkout's answer; the reservation stays held
ConfirmFails ==
    /\ checkout.pc = "confirm"
    /\ MayFail /\ Fail
    /\ excused' = excused \cup {Min(checkout.left)}
    /\ checkout' = AfterConfirm
    /\ UNCHANGED <<stock, order, todo, handler>>

-----------------------------------------------------------------------------
Operator ==
    \/ \E l \in Lines, n \in 1..Bought : CancelOrderLine(l, n)
    \/ \E x \in Parcels, l \in Lines, n \in 1..Bought : OpenAsked(x, l, n)
    \/ \E x \in Parcels : \/ OpenLocked(x) \/ OpenCommits(x) \/ OpenFails(x)
                          \/ CancelFulfillment(x) \/ MarkReturned(x)

Delivery(h) ==
    \/ \E e \in events : HandleLineCanceled(h, e) \/ RecountParcel(h, e)
    \/ CountHeld(h) \/ ReadShelves(h) \/ Settle(h) \/ Drain(h) \/ DrainFails(h)
    \/ PutBack(h) \/ DeliveryFails(h)

LastStep ==
    \/ RankingFails \/ ClaimBackorder \/ ClaimFails \/ ReadWriteOffs \/ CountParcels \/ SettleClaim
    \/ DrainClaim \/ SettlementFails \/ ConfirmLine \/ ConfirmFails

Next == (\E p \in Places : Arrive(p)) \/ Operator \/ LastStep \/ \E h \in Handlers : Delivery(h)

Spec == Init /\ [][Next]_vars

-----------------------------------------------------------------------------
(* Properties.                                                             *)

\* The units the inventory module took off a shelf for a line, holds reserved for it
\* or lets it wait for
SetAside(l) == IF l \in Reserved THEN Bought ELSE Owed(l)

\* The units of a line that are still to leave or have left
Due(l) == Max({Bought - canceled[l], Held(l)})

\* However the write-off, the parcel's cancellation, their repeated deliveries and the
\* checkout's own settlement are ordered, they never put back or withdraw a unit that
\* the order still owes or that sits in a parcel: the shelf is not credited with
\* eight units for a cancellation of five (D82), and not while a parcel is opened
\* (D265).  Excused are the lines that met one of the windows named at `excused`: a
\* parcel opened against a stale ceiling or missed by the checkout's count is due and
\* was given back
NothingDueIsGivenBack ==
    \A l \in Lines \ excused : SetAside(l) - returned[l].units >= Due(l)

\* Once every event was handled, every written-off unit that no parcel holds is on
\* the shelf again or no longer waited for, unless its line is excused: the call that
\* would have claimed, settled or confirmed it failed with a warning, a parcel was
\* opened against a stale ceiling or counted by the checkout otherwise than by the
\* flow, its reservation was confirmed after its event was handled, or its claim was
\* filled before the checkout settled it.  The last two are orders of the acts that do
\* lose units, without any failure; no other order does
EverythingIsBack ==
    (todo = {} /\ checkout.pc = "done" /\ \A h \in Handlers : handler[h] = Idle)
    => \A l \in Lines \ excused : SetAside(l) - returned[l].units = Due(l)

\* A backordered line's units are credited only as far as a fill deducted them, and to
\* the shelf it deducted them from: a line whose stock lost nothing creates none when
\* another line of the order sold the same item (D242)
CreditedWhereTaken ==
    \A l \in Backordered \ excused :
        /\ returned[l].units <= (IF claim[l].status = "filled" THEN Owed(l) ELSE 0)
        /\ returned[l].at \subseteq {claim[l].at}

\* Units an order waits for are not on sale: whatever raised a level's sellable units,
\* an arrival, a write-off's return or a smaller claim, no warehouse is left with
\* enough for a claim that still waits at it.  A claim recorded while the warehouses
\* could not be ranked waits at none of them, whatever they have on sale
WaitingIsNotOnSale ==
    checkout.pc \in {"confirm", "done"} =>
        \A l \in Backordered \ excused :
            \/ claim[l].status # "waiting"
            \/ \E e \in todo : e.line = l
            \/ \A p \in Places : Available(p) < Owed(l)

=============================================================================
