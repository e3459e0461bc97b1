---------------------------- MODULE ShelfProofs ----------------------------
(***************************************************************************)
(* Proofs about the stock behind an order, module Shelf, for every number  *)
(* of lines, warehouses, parcels and deliveries under way and for every    *)
(* bound.                                                                  *)
(***************************************************************************)
EXTENDS Shelf, Sums, TLAPS

-----------------------------------------------------------------------------
(* Numbers.                                                                *)

\* The greater of two numbers.
LEMMA MaxOfTwo ==
    ASSUME NEW a \in Int, NEW b \in Int
    PROVE  Max({a, b}) = IF a >= b THEN a ELSE b
<1>1. \E x \in {a, b} : \A y \in {a, b} : x >= y
  OBVIOUS
<1>2. Max({a, b}) \in {a, b} /\ \A y \in {a, b} : Max({a, b}) >= y
  BY <1>1 DEF Max
<1> QED
  BY <1>2

\* The lesser of two numbers.
LEMMA MinOfTwo ==
    ASSUME NEW a \in Int, NEW b \in Int
    PROVE  Min({a, b}) = IF a <= b THEN a ELSE b
<1>1. \E x \in {a, b} : \A y \in {a, b} : x <= y
  OBVIOUS
<1>2. Min({a, b}) \in {a, b} /\ \A y \in {a, b} : Min({a, b}) <= y
  BY <1>1 DEF Min
<1> QED
  BY <1>2

\* The first of a set of lines or of warehouses.
LEMMA MinIsIn ==
    ASSUME NEW S \in SUBSET Nat, S # {}
    PROVE  Min(S) \in S
BY LeastNatural DEF Min

\* A finite set of naturals has a bound.
LEMMA FiniteIsBounded ==
    ASSUME NEW S \in SUBSET Nat, IsFiniteSet(S)
    PROVE  \E n \in Nat : \A s \in S : s <= n
<1> DEFINE T == {s \in SUBSET S : \E n \in Nat : \A i \in s : i <= n}
<1>1. {} \in T
  OBVIOUS
<1>2. ASSUME NEW s \in SUBSET S, NEW x \in s, s \ {x} \in T
      PROVE  s \in T
  <2>1. PICK n \in Nat : \A i \in s \ {x} : i <= n
    BY <1>2
  <2>2. x \in Nat /\ s \subseteq Nat
    OBVIOUS
  <2>3. \A i \in s : i <= n + x
    BY <2>1, <2>2
  <2>4. n + x \in Nat
    BY <2>2
  <2> QED
    BY <2>3, <2>4
<1> HIDE DEF T
<1>3. Grows(S, T)
  BY <1>1, <1>2 DEF Grows
<1>4. S \in T
  BY <1>3, SizeInduction
<1> QED
  BY <1>4 DEF T

-----------------------------------------------------------------------------
(* The fill: which claims a number of units completes.                     *)

\* What the lines of S are owed together, if line l is owed o[l]
Total(o, S) == SumFunctionOnSet([l \in Lines |-> IF l \in S THEN o[l] ELSE 0], Lines)

\* F is the fill of the claims of W from a units
IsFill(o, W, a, F) ==
    \A l \in W : l \in F <=> Total(o, {older \in F : older < l}) + o[l] <= a

\* One line after another, the fill exists.
LEMMA FillExists ==
    ASSUME NEW o, NEW a, NEW W \in SUBSET Lines
    PROVE  \E F \in SUBSET W : IsFill(o, W, a, F)
<1> DEFINE Upto(n, F) ==
              /\ \A l \in F : l <= n
              /\ \A l \in W : l <= n => (l \in F <=> Total(o, {older \in F : older < l}) + o[l] <= a)
           T == {n \in Nat : \E F \in SUBSET W : Upto(n, F)}
<1>w. W \subseteq Nat /\ 0 \notin W /\ IsFiniteSet(W)
  BY ShelfAssumption, FS_Subset
<1>1. 0 \in T
  <2>1. Upto(0, {})
    BY <1>w
  <2> QED
    BY <2>1
<1>2. ASSUME NEW n \in Nat, n \in T PROVE n + 1 \in T
  <2>1. PICK F \in SUBSET W : Upto(n, F)
    BY <1>2
  <2> DEFINE fits == n + 1 \in W /\ Total(o, F) + o[n + 1] <= a
             E == IF fits THEN F \cup {n + 1} ELSE F
  <2>2. \A l \in W : l <= n + 1 => {older \in E : older < l} = {older \in F : older < l}
    BY <1>w
  <2>3. {older \in F : older < n + 1} = F
    <3>1. \A l \in F : l \in Nat /\ l <= n
      BY <1>w, <2>1
    <3>2. \A l \in F : l < n + 1
      BY <3>1
    <3> QED
      BY <3>2, Zenon
  <2>4. n + 1 \notin F
    BY <1>w, <2>1
  <2>5. E \in SUBSET W /\ \A l \in E : l <= n + 1
    <3>1. \A l \in F : l \in W /\ l \in Nat /\ l <= n
      BY <1>w, <2>1
    <3>2. \A l \in E : l \in F \/ (l = n + 1 /\ l \in W)
      OBVIOUS
    <3> HIDE DEF E
    <3> QED
      BY <3>1, <3>2
  <2>6. ASSUME NEW l \in W, l <= n + 1
        PROVE  l \in E <=> Total(o, {older \in E : older < l}) + o[l] <= a
    <3>1. CASE l = n + 1
      <4>1. {older \in E : older < l} = F
        BY <2>2, <2>3, <2>6, <3>1
      <4>2. l \in E <=> fits
        BY <2>4, <3>1
      <4> QED
        BY <4>1, <4>2, <3>1
    <3>2. CASE l <= n
      <4>1. l \in E <=> l \in F
        BY <1>w, <3>2
      <4> QED
        BY <4>1, <2>2, <2>1, <3>2, <2>6
    <3> QED
      BY <3>1, <3>2, <2>6, <1>w
  <2>7. Upto(n + 1, E)
    BY <2>5, <2>6
  <2>8. \E G \in SUBSET W : Upto(n + 1, G)
    BY <2>5, <2>7
  <2> HIDE DEF Upto
  <2> QED
    BY <2>8
<1> HIDE DEF T
<1>3. \A n \in Nat : n \in T
  BY <1>1, <1>2, SetInduction
<1>4. PICK n \in Nat : \A l \in W : l <= n
  BY <1>w, FiniteIsBounded
<1>5. PICK F \in SUBSET W : Upto(n, F)
  BY <1>3 DEF T
<1> QED
  BY <1>4, <1>5 DEF IsFill

Owing(cl) == [l \in Lines |-> Bought - cl[l].withdrawn]

Waiters(cl) == {l \in Lines : cl[l].status = "waiting"}

\* The claims as the proofs need them: a claim that waits is owed something.
ClaimOK(l, c) ==
    /\ c \in [status : {"none", "waiting", "unplaced", "filled", "withdrawn"}, withdrawn : Units,
              at : Places \cup {NoPlace}]
    /\ c.status = "none" => c = NoClaim
    /\ c.status \in {"waiting", "unplaced"} => c.withdrawn < Bought
    /\ c.status = "withdrawn" => c.withdrawn = Bought
    /\ c.status = "filled" => c.at \in Places
    /\ l \in Reserved => c.status = "none"

ClaimsOK(cl) == DOMAIN cl = Lines /\ cl = [l \in Lines |-> cl[l]] /\ \A l \in Lines : ClaimOK(l, cl[l])

\* What a line is owed is a number, and not zero while its claim waits.
LEMMA OwingNat ==
    ASSUME NEW cl, ClaimsOK(cl)
    PROVE  \A l \in Lines : Owing(cl)[l] \in Nat /\ (cl[l].status = "waiting" => Owing(cl)[l] > 0)
<1> SUFFICES ASSUME NEW l \in Lines
             PROVE  Owing(cl)[l] \in Nat /\ (cl[l].status = "waiting" => Owing(cl)[l] > 0)
  OBVIOUS
<1>1. ClaimOK(l, cl[l])
  BY DEF ClaimsOK
<1>2. cl[l].withdrawn \in 0..Bought /\ (cl[l].status = "waiting" => cl[l].withdrawn < Bought)
  BY <1>1 DEF ClaimOK, Units
<1> QED
  BY <1>2, ShelfAssumption DEF Owing

\* What a set of lines is owed is a number.
LEMMA TotalInt ==
    ASSUME NEW o, \A l \in Lines : o[l] \in Nat, NEW S
    PROVE  Total(o, S) \in Int
<1> DEFINE f == [l \in Lines |-> IF l \in S THEN o[l] ELSE 0]
<1>1. Numbers(f, Lines)
  BY DEF Numbers
<1> HIDE DEF f
<1>2. SumFunctionOnSet(f, Lines) \in Int
  BY <1>1, SumInt, ShelfAssumption
<1> QED
  BY <1>2 DEF Total, f

\* More lines are owed no less.
LEMMA TotalOrdered ==
    ASSUME NEW o, \A l \in Lines : o[l] \in Nat, NEW S, NEW R \in SUBSET S
    PROVE  Total(o, R) <= Total(o, S)
<1> DEFINE f == [l \in Lines |-> IF l \in R THEN o[l] ELSE 0]
           e == [l \in Lines |-> IF l \in S THEN o[l] ELSE 0]
<1>1. Numbers(f, Lines) /\ Numbers(e, Lines) /\ \A l \in Lines : f[l] <= e[l]
  BY DEF Numbers
<1> HIDE DEF f, e
<1>2. SumFunctionOnSet(f, Lines) <= SumFunctionOnSet(e, Lines)
  BY <1>1, SumOrdered, ShelfAssumption
<1> QED
  BY <1>2 DEF Total, f, e

\* A fill takes claims that wait, and leaves less than any claim it passed over needs.
LEMMA FillLeavesTooLittle ==
    ASSUME NEW available \in Int, ClaimsOK(claim)
    PROVE  /\ Fillable(available) \subseteq Waiters(claim)
           /\ OwedTo(Fillable(available)) \in Int
           /\ \A l \in Waiters(claim) \ Fillable(available) :
                 available - OwedTo(Fillable(available)) < Owed(l)
<1> DEFINE o == Owing(claim)
           W == Waiters(claim)
           F == Fillable(available)
<1>1. \A S : OwedTo(S) = Total(o, S)
  <2> SUFFICES ASSUME NEW S PROVE OwedTo(S) = Total(o, S)
    OBVIOUS
  <2>1. [l \in Lines |-> IF l \in S THEN Owed(l) ELSE 0] = [l \in Lines |-> IF l \in S THEN o[l] ELSE 0]
    BY DEF Owing, Owed
  <2> QED
    BY <2>1 DEF OwedTo, Total, SumFunction
<1>2. \A l \in Lines : Owed(l) = o[l]
  BY DEF Owing, Owed
<1>3. W \subseteq Lines
  BY DEF Waiters
<1>4. \E fill \in SUBSET W : IsFill(o, W, available, fill)
  BY <1>3, FillExists
<1>5. \A fill \in SUBSET W : IsFill(o, W, available, fill) <=>
         \A l \in W : l \in fill <=> OwedTo({older \in fill : older < l}) + Owed(l) <= available
  BY <1>1, <1>2, <1>3 DEF IsFill
<1>6. F = CHOOSE fill \in SUBSET W :
             \A l \in W : l \in fill <=> OwedTo({older \in fill : older < l}) + Owed(l) <= available
  BY DEF Fillable, Waiters
<1>7. F \in SUBSET W /\ \A l \in W : l \in F <=> OwedTo({older \in F : older < l}) + Owed(l) <= available
  BY <1>4, <1>5, <1>6
<1>8. \A l \in Lines : o[l] \in Nat
  BY OwingNat
<1> HIDE DEF o, W, F
<1>9. OwedTo(F) \in Int
  BY <1>1, <1>8, TotalInt
<1>10. ASSUME NEW l \in W \ F PROVE available - OwedTo(F) < Owed(l)
  <2>1. OwedTo({older \in F : older < l}) <= OwedTo(F)
    BY <1>1, <1>8, TotalOrdered
  <2>2. OwedTo({older \in F : older < l}) \in Int
    BY <1>1, <1>8, TotalInt
  <2>3. ~(OwedTo({older \in F : older < l}) + Owed(l) <= available)
    BY <1>7
  <2>4. Owed(l) \in Int
    BY <1>2, <1>3, <1>8
  <2> QED
    BY <2>1, <2>2, <2>3, <2>4, <1>9
<1> QED
  BY <1>7, <1>9, <1>10 DEF F, W

-----------------------------------------------------------------------------
(* The parcels: what they hold of a line.                                  *)

ParcelOK(q) ==
    /\ q \in [status : {"none", "asked", "opening", "live", "canceled", "returned"},
              line : Lines \cup {0}, units : Units, ceiling : Units]
    /\ q.status \in {"asked", "opening", "live", "returned"} => q.line \in Lines

\* Every parcel is well formed, and the one that is being opened holds the dispatch lock
ParcelsOK(par, dis) ==
    /\ DOMAIN par = Parcels /\ par = [x \in Parcels |-> par[x]]
    /\ \A x \in Parcels : ParcelOK(par[x]) /\ (par[x].status = "opening" <=> x \in dis)
    /\ dis = {} \/ \E x \in Parcels : dis = {x}

Load(q, l, statuses) == IF q.line = l /\ q.status \in statuses THEN q.units ELSE 0

LoadSum(par, l, statuses) == SumFunctionOnSet([x \in Parcels |-> Load(par[x], l, statuses)], Parcels)

AllParcelsOK(par) == \A x \in Parcels : ParcelOK(par[x])

\* What a parcel counts for a line is a number.
LEMMA LoadNat == ASSUME NEW q, ParcelOK(q), NEW l, NEW statuses PROVE Load(q, l, statuses) \in Nat
<1>1. q.units \in 0..Bought
  BY DEF ParcelOK, Units
<1> QED
  BY <1>1, ShelfAssumption DEF Load

\* So it is for every parcel.
LEMMA LoadsAreNumbers ==
    ASSUME NEW par, AllParcelsOK(par), NEW l, NEW statuses
    PROVE  Numbers([x \in Parcels |-> Load(par[x], l, statuses)], Parcels)
BY LoadNat DEF Numbers, AllParcelsOK

\* What all parcels count for a line is a number.
LEMMA LoadSumNat ==
    ASSUME NEW par, AllParcelsOK(par), NEW l, NEW statuses
    PROVE  LoadSum(par, l, statuses) \in Nat
<1> DEFINE f == [x \in Parcels |-> Load(par[x], l, statuses)]
           z == [x \in Parcels |-> 0]
<1>1. \A x \in Parcels : f[x] \in Nat
  BY LoadNat DEF AllParcelsOK
<1>2. Numbers(f, Parcels) /\ Numbers(z, Parcels) /\ (\A x \in Parcels : z[x] <= f[x]) /\ \A x \in Parcels : z[x] = 0
  BY <1>1 DEF Numbers
<1> HIDE DEF f, z
<1>3. SumFunctionOnSet(z, Parcels) <= SumFunctionOnSet(f, Parcels) /\ SumFunctionOnSet(z, Parcels) = 0
      /\ SumFunctionOnSet(f, Parcels) \in Int
  BY <1>2, SumOrdered, SumZero, SumInt, ShelfAssumption
<1> QED
  BY <1>3 DEF LoadSum, f

\* One parcel changes.
LEMMA LoadChange ==
    ASSUME NEW par, AllParcelsOK(par), NEW x \in Parcels, NEW q, ParcelOK(q), NEW to,
           \A y \in Parcels : to[y] = IF y = x THEN q ELSE par[y],
           NEW l, NEW statuses
    PROVE  LoadSum(to, l, statuses) =
              LoadSum(par, l, statuses) - Load(par[x], l, statuses) + Load(q, l, statuses)
<1> DEFINE f == [y \in Parcels |-> Load(par[y], l, statuses)]
           e == [y \in Parcels |-> Load(to[y], l, statuses)]
<1>1. AllParcelsOK(to)
  BY DEF AllParcelsOK
<1>2. Numbers(f, Parcels) /\ Numbers(e, Parcels)
  BY <1>1, LoadsAreNumbers
<1>3. \A y \in Parcels : y # x => e[y] = f[y]
  OBVIOUS
<1>4. f[x] = Load(par[x], l, statuses) /\ e[x] = Load(q, l, statuses)
  OBVIOUS
<1> HIDE DEF f, e
<1>5. SumFunctionOnSet(e, Parcels) = SumFunctionOnSet(f, Parcels) - f[x] + e[x]
  BY <1>2, <1>3, SumChange, ShelfAssumption
<1> QED
  BY <1>4, <1>5 DEF LoadSum, f, e

\* Parcels that each count less count less together.
LEMMA LoadOrdered ==
    ASSUME NEW par, AllParcelsOK(par), NEW l, NEW few, NEW many,
           \A x \in Parcels : Load(par[x], l, few) <= Load(par[x], l, many)
    PROVE  LoadSum(par, l, few) <= LoadSum(par, l, many)
<1> DEFINE f == [y \in Parcels |-> Load(par[y], l, few)]
           e == [y \in Parcels |-> Load(par[y], l, many)]
<1>1. Numbers(f, Parcels) /\ Numbers(e, Parcels)
  BY LoadsAreNumbers
<1>2. \A x \in Parcels : f[x] <= e[x]
  OBVIOUS
<1> HIDE DEF f, e
<1>3. SumFunctionOnSet(f, Parcels) <= SumFunctionOnSet(e, Parcels)
  BY <1>1, <1>2, SumOrdered, ShelfAssumption
<1> QED
  BY <1>3 DEF LoadSum, f, e

\* The sum over the parcels of a line is the sum of what every parcel counts for it.
LEMMA SumIsLoad ==
    ASSUME NEW l, NEW statuses
    PROVE  Sum(ParcelsOf(l, statuses)) = LoadSum(parcel, l, statuses)
<1>1. [x \in Parcels |-> IF x \in ParcelsOf(l, statuses) THEN parcel[x].units ELSE 0]
      = [x \in Parcels |-> Load(parcel[x], l, statuses)]
  BY DEF ParcelsOf, Load
<1> QED
  BY <1>1 DEF Sum, SumFunction, LoadSum

\* The units of a line in parcels that are open or being opened
Committed(l) == LoadSum(parcel, l, {"live", "opening"})

\* What live parcels hold is a number, and the parcels being opened come on top of it.
LEMMA HeldIs ==
    ASSUME NEW l, ParcelsOK(parcel, dispatch)
    PROVE  /\ Held(l) = LoadSum(parcel, l, {"live"})
           /\ Held(l) \in Nat /\ Committed(l) \in Nat
           /\ Held(l) <= Committed(l)
           /\ dispatch = {} => Committed(l) = Held(l)
<1>1. AllParcelsOK(parcel)
  BY DEF ParcelsOK, AllParcelsOK
<1>2. Held(l) = LoadSum(parcel, l, {"live"})
  BY SumIsLoad DEF Held
<1>3. Held(l) \in Nat /\ Committed(l) \in Nat
  BY <1>1, <1>2, LoadSumNat DEF Committed
<1>4. Held(l) <= Committed(l)
  <2>1. \A x \in Parcels : Load(parcel[x], l, {"live"}) <= Load(parcel[x], l, {"live", "opening"})
    <3> SUFFICES ASSUME NEW x \in Parcels
                 PROVE  Load(parcel[x], l, {"live"}) <= Load(parcel[x], l, {"live", "opening"})
      OBVIOUS
    <3>1. Load(parcel[x], l, {"live", "opening"}) \in Nat
      BY <1>1, LoadNat DEF AllParcelsOK
    <3> QED
      BY <3>1 DEF Load
  <2> QED
    BY <1>1, <1>2, <2>1, LoadOrdered DEF Committed
<1>5. ASSUME dispatch = {} PROVE Committed(l) = Held(l)
  <2>1. \A x \in Parcels : Load(parcel[x], l, {"live"}) = Load(parcel[x], l, {"live", "opening"})
    BY <1>5 DEF Load, ParcelsOK
  <2> QED
    BY <1>2, <2>1 DEF Committed, LoadSum
<1> QED
  BY <1>2, <1>3, <1>4, <1>5

-----------------------------------------------------------------------------
(* What every state is made of.                                            *)

StockOK(st, rs) == st \in [Places -> Int] /\ rs \in [Places -> Int]

ReturnsOK(re, cn) ==
    re \in [Lines -> [units : Units, at : SUBSET Places]] /\ cn \in [Lines -> Units]

\* A published write-off is in the order's count, and a parcel is heard of once it is
\* canceled or back
EventsOK(ev, td, cn, par) ==
    /\ ev \subseteq LineEvents \cup ParcelEvents /\ td \subseteq ev
    /\ \A e \in ev : /\ e.about = "line" => e.total <= cn[e.line]
                     /\ e.about = "parcel" => par[e.of].status \in {"canceled", "returned"}

Counting(ev) == [pc : {"count"}, event : ev, total : Units]
Selling(ev) == [pc : {"sold"}, event : ev, line : Lines, window : 1..Bought]
Settling(ev) == [pc : {"settle"}, event : ev, line : Lines, window : 1..Bought,
                 soldAt : Places \cup {NoPlace}]
Putting(ev) == [pc : {"drain", "put"}, event : ev, line : Lines, failed : BOOLEAN,
                target : Units, shelf : Places \cup {NoPlace}, left : SUBSET Places]

HandlerOK(m, ev, cn, sd) ==
    \/ m = Idle
    \/ m \in Counting(ev) /\ m.total <= cn[m.event.line]
    \/ m \in Selling(ev) /\ m.line = m.event.line
    \/ m \in Settling(ev) /\ m.line = m.event.line /\ (m.soldAt # NoPlace => sd # {})
    \/ m \in Putting(ev) /\ m.line = m.event.line /\ (m.pc = "drain" => m.left # {} /\ ~m.failed)

HandlersOK(hd, ev, cn, sd) ==
    /\ DOMAIN hd = Handlers /\ hd = [h \in Handlers |-> hd[h]]
    /\ \A h \in Handlers : HandlerOK(hd[h], ev, cn, sd)

Windows == [Lines -> Units]

CheckoutOK(co, cl, cn) ==
    \/ /\ co \in [pc : {"claim"}, left : SUBSET Backordered, as : {"waiting", "unplaced"}]
       /\ co.left # {} /\ \A l \in co.left : cl[l].status = "none"
    \/ co = [pc |-> "read"] /\ \E l \in Lines : cl[l].status # "none"
    \/ /\ co \in [pc : {"count"}, canceled : Windows] /\ \A l \in Lines : co.canceled[l] <= cn[l]
       /\ \E l \in Lines : cl[l].status # "none"
    \/ co \in [pc : {"settle"}, left : SUBSET Backordered, window : Windows] /\ co.left # {}
    \/ /\ co \in [pc : {"drain"}, left : SUBSET Backordered, window : Windows, line : Backordered,
                  places : SUBSET Places]
       /\ co.places # {}
    \/ co \in [pc : {"confirm"}, left : SUBSET Reserved] /\ co.left # {}
    \/ co.pc = "done"

\* A backordered line has its claim once the checkout is past it, or it is excused
ClaimedOK(cl, ex, co) ==
    \A l \in Backordered \ ex : cl[l].status = "none" => co.pc = "claim" /\ l \in co.left

SoldOK(sd, co) == sd # {} => co.pc \in {"confirm", "done"}

\* A parcel that came back early excused its line
EarlyReturns(par, co, ex) ==
    \A x \in Parcels : par[x].status = "returned" /\ co.pc \in {"claim", "read", "count"}
                       => par[x].line \in ex

Typed ==
    /\ StockOK(stocked, reserved) /\ ClaimsOK(claim) /\ ReturnsOK(returned, canceled)
    /\ ParcelsOK(parcel, dispatch) /\ EventsOK(events, todo, canceled, parcel)
    /\ HandlersOK(handler, events, canceled, sold) /\ CheckoutOK(checkout, claim, canceled)
    /\ ClaimedOK(claim, excused, checkout) /\ SoldOK(sold, checkout)
    /\ EarlyReturns(parcel, checkout, excused)
    /\ excused \subseteq Lines

\* A handler hears of more and more.
LEMMA HandlerKept ==
    ASSUME NEW m, NEW ev, NEW cn, NEW sd, HandlerOK(m, ev, cn, sd), NEW ev2, NEW cn2, NEW sd2,
           ev \subseteq ev2, \A e \in ev : e.line \in Lines,
           \A l \in Lines : cn[l] \in Int /\ cn2[l] \in Int /\ cn[l] <= cn2[l], sd \subseteq sd2
    PROVE  HandlerOK(m, ev2, cn2, sd2)
<1>1. CASE m = Idle
  BY <1>1 DEF HandlerOK
<1>2. CASE m \in Counting(ev) /\ m.total <= cn[m.event.line]
  <2>1. m \in Counting(ev2) /\ m.event.line \in Lines /\ m.total \in Int
    BY <1>2 DEF Counting, Units
  <2>2. m.total <= cn2[m.event.line]
    BY <1>2, <2>1
  <2> QED
    BY <2>1, <2>2 DEF HandlerOK
<1>3. CASE m \in Selling(ev) /\ m.line = m.event.line
  BY <1>3 DEF HandlerOK, Selling
<1>4. CASE m \in Settling(ev) /\ m.line = m.event.line /\ (m.soldAt # NoPlace => sd # {})
  BY <1>4 DEF HandlerOK, Settling
<1>5. CASE m \in Putting(ev) /\ m.line = m.event.line /\ (m.pc = "drain" => m.left # {} /\ ~m.failed)
  BY <1>5 DEF HandlerOK, Putting
<1> QED
  BY <1>1, <1>2, <1>3, <1>4, <1>5 DEF HandlerOK

\* An event names a line, with units that were written off or a parcel that ended.
LEMMA EventLines ==
    ASSUME NEW ev, ev \subseteq LineEvents \cup ParcelEvents
    PROVE  \A e \in ev : /\ e.line \in Lines /\ e.about \in {"line", "parcel"}
                         /\ e.about = "line" => e.total \in 1..Bought
                         /\ e.about = "parcel" => e.of \in Parcels
BY DEF LineEvents, ParcelEvents

\* More is written off, published or sold.
LEMMA HandlersKept ==
    ASSUME NEW hd, NEW ev, NEW cn, NEW sd, HandlersOK(hd, ev, cn, sd), NEW ev2, NEW cn2, NEW sd2,
           ev \subseteq ev2, ev \subseteq LineEvents \cup ParcelEvents,
           \A l \in Lines : cn[l] \in Int /\ cn2[l] \in Int /\ cn[l] <= cn2[l], sd \subseteq sd2
    PROVE  HandlersOK(hd, ev2, cn2, sd2)
<1>1. \A e \in ev : e.line \in Lines
  BY EventLines
<1>2. ASSUME NEW h \in Handlers PROVE HandlerOK(hd[h], ev2, cn2, sd2)
  BY <1>1, HandlerKept DEF HandlersOK
<1> QED
  BY <1>2 DEF HandlersOK

\* One handler moves.
LEMMA HandlerSet ==
    ASSUME NEW hd, NEW ev, NEW cn, NEW sd, HandlersOK(hd, ev, cn, sd), NEW h \in Handlers, NEW m,
           HandlerOK(m, ev, cn, sd)
    PROVE  HandlersOK([hd EXCEPT ![h] = m], ev, cn, sd)
<1> DEFINE to == [hd EXCEPT ![h] = m]
<1>1. DOMAIN to = Handlers /\ to = [g \in Handlers |-> to[g]]
  BY DEF HandlersOK
<1>2. \A g \in Handlers : to[g] = IF g = h THEN m ELSE hd[g]
  BY DEF HandlersOK
<1> HIDE DEF to
<1>3. \A g \in Handlers : HandlerOK(to[g], ev, cn, sd)
  BY <1>2 DEF HandlersOK
<1>4. HandlersOK(to, ev, cn, sd)
  BY <1>1, <1>3 DEF HandlersOK
<1> QED
  BY <1>4 DEF to

\* What a handler's place says of it.
LEMMA HandlerFields ==
    ASSUME NEW m, NEW ev, NEW cn, NEW sd, HandlerOK(m, ev, cn, sd)
    PROVE  /\ m.pc = "idle" => m = Idle
           /\ m.pc # "idle" => m.event \in ev
           /\ m.pc = "count" => m \in Counting(ev) /\ m.total \in Units /\ m.total <= cn[m.event.line]
           /\ m.pc = "sold" => m \in Selling(ev) /\ m.line \in Lines /\ m.line = m.event.line
                               /\ m.window \in 1..Bought
           /\ m.pc = "settle" => /\ m \in Settling(ev) /\ m.line \in Lines /\ m.line = m.event.line
                                 /\ m.window \in 1..Bought /\ m.soldAt \in Places \cup {NoPlace}
                                 /\ m.soldAt # NoPlace => sd # {}
           /\ m.pc \in {"drain", "put"} =>
                 /\ m \in Putting(ev) /\ m.line \in Lines /\ m.line = m.event.line /\ m.target \in Units
                 /\ m.shelf \in Places \cup {NoPlace} /\ m.left \in SUBSET Places /\ m.failed \in BOOLEAN
           /\ m.pc = "drain" => m.left # {} /\ ~m.failed
           /\ m.pc \in {"idle", "count", "sold", "settle", "drain", "put"}
<1>1. CASE m = Idle
  BY <1>1 DEF Idle
<1>2. CASE m \in Counting(ev) /\ m.total <= cn[m.event.line]
  BY <1>2 DEF Counting
<1>3. CASE m \in Selling(ev) /\ m.line = m.event.line
  BY <1>3 DEF Selling
<1>4. CASE m \in Settling(ev) /\ m.line = m.event.line /\ (m.soldAt # NoPlace => sd # {})
  BY <1>4 DEF Settling
<1>5. CASE m \in Putting(ev) /\ m.line = m.event.line /\ (m.pc = "drain" => m.left # {} /\ ~m.failed)
  <2>1. m.pc \in {"drain", "put"} /\ m.event \in ev /\ m.line \in Lines /\ m.target \in Units
        /\ m.shelf \in Places \cup {NoPlace} /\ m.left \in SUBSET Places /\ m.failed \in BOOLEAN
    BY <1>5 DEF Putting
  <2> QED
    BY <1>5, <2>1
<1> QED
  BY <1>1, <1>2, <1>3, <1>4, <1>5 DEF HandlerOK

\* What the checkout has in hand at each of its points.
LEMMA CheckoutFields ==
    ASSUME NEW co, NEW cl, NEW cn, CheckoutOK(co, cl, cn)
    PROVE  /\ co.pc = "claim" => /\ co \in [pc : {"claim"}, left : SUBSET Backordered,
                                           as : {"waiting", "unplaced"}]
                                 /\ co.left \in SUBSET Backordered /\ co.left # {}
                                 /\ \A l \in co.left : cl[l].status = "none"
           /\ co.pc \in {"read", "count"} => \E l \in Lines : cl[l].status # "none"
           /\ co.pc = "count" => co.canceled \in Windows /\ \A l \in Lines : co.canceled[l] <= cn[l]
           /\ co.pc = "settle" => co.left \in SUBSET Backordered /\ co.left # {} /\ co.window \in Windows
           /\ co.pc = "drain" =>
                 /\ co \in [pc : {"drain"}, left : SUBSET Backordered, window : Windows,
                            line : Backordered, places : SUBSET Places]
                 /\ co.left \in SUBSET Backordered /\ co.window \in Windows
                 /\ co.line \in Backordered /\ co.places \in SUBSET Places /\ co.places # {}
           /\ co.pc = "confirm" => /\ co \in [pc : {"confirm"}, left : SUBSET Reserved]
                                   /\ co.left \in SUBSET Reserved /\ co.left # {}
           /\ co.pc \in {"claim", "read", "count", "settle", "drain", "confirm", "done"}
<1>1. CASE /\ co \in [pc : {"claim"}, left : SUBSET Backordered, as : {"waiting", "unplaced"}]
           /\ co.left # {} /\ \A l \in co.left : cl[l].status = "none"
  BY <1>1
<1>2. CASE co = [pc |-> "read"] /\ \E l \in Lines : cl[l].status # "none"
  BY <1>2
<1>3. CASE /\ co \in [pc : {"count"}, canceled : Windows] /\ \A l \in Lines : co.canceled[l] <= cn[l]
           /\ \E l \in Lines : cl[l].status # "none"
  BY <1>3
<1>4. CASE co \in [pc : {"settle"}, left : SUBSET Backordered, window : Windows] /\ co.left # {}
  BY <1>4
<1>5. CASE /\ co \in [pc : {"drain"}, left : SUBSET Backordered, window : Windows, line : Backordered,
                      places : SUBSET Places]
           /\ co.places # {}
  BY <1>5
<1>6. CASE co \in [pc : {"confirm"}, left : SUBSET Reserved] /\ co.left # {}
  BY <1>6
<1>7. CASE co.pc = "done"
  BY <1>7
<1> QED
  BY <1>1, <1>2, <1>3, <1>4, <1>5, <1>6, <1>7 DEF CheckoutOK

-----------------------------------------------------------------------------
(* What the inventory module's writes do to levels and claims.             *)

FilledAt(c, p) == [c EXCEPT !.status = "filled", !.at = p]

\* Claims that waited are filled from p, the others stay
Fills(p, from, to) ==
    \A l \in Lines : \/ to[l] = from[l]
                     \/ from[l].status = "waiting" /\ to[l] = FilledAt(from[l], p)

\* A write at p: no other level changes
WritesAt(p) ==
    /\ StockOK(stocked', reserved') /\ ClaimsOK(claim') /\ Fills(p, claim, claim')
    /\ \A q \in Places : q # p => stocked'[q] = stocked[q] /\ reserved'[q] = reserved[q]

\* After it, p has less than any claim waits for
LeavesTooLittle(p) == \A l \in Waiters(claim') : stocked'[p] - reserved'[p] < Owed(l)

\* A waiting claim that a warehouse fills is a filled claim of that warehouse.
LEMMA ClaimFilled ==
    ASSUME NEW l \in Lines, NEW c, ClaimOK(l, c), c.status = "waiting", NEW p \in Places
    PROVE  /\ ClaimOK(l, FilledAt(c, p))
           /\ FilledAt(c, p).status = "filled" /\ FilledAt(c, p).at = p
           /\ FilledAt(c, p).withdrawn = c.withdrawn
BY DEF ClaimOK, FilledAt

\* A write that fills some waiting claims deducts what they are owed and leaves the
\* others.
LEMMA FillShape ==
    ASSUME Typed, NEW p \in Places, NEW count \in Int, NEW promise \in Int, NEW fill,
           fill \subseteq Waiters(claim), OwedTo(fill) \in Int, FillWaiting(p, count, promise, fill)
    PROVE  /\ WritesAt(p)
           /\ stocked'[p] = count - OwedTo(fill) /\ reserved'[p] = promise
           /\ \A l \in Waiters(claim') : l \in Waiters(claim) \ fill
<1>1. StockOK(stocked, reserved) /\ ClaimsOK(claim)
  BY DEF Typed
<1>2. /\ stocked' = [stocked EXCEPT ![p] = count - OwedTo(fill)]
      /\ reserved' = [reserved EXCEPT ![p] = promise]
      /\ claim' = [l \in Lines |-> IF l \in fill THEN FilledAt(claim[l], p) ELSE claim[l]]
  BY DEF FillWaiting, FilledAt
<1>3. /\ StockOK(stocked', reserved')
      /\ \A q \in Places : q # p => stocked'[q] = stocked[q] /\ reserved'[q] = reserved[q]
      /\ stocked'[p] = count - OwedTo(fill) /\ reserved'[p] = promise
  BY <1>1, <1>2 DEF StockOK
<1>4. \A l \in Lines : claim'[l] = IF l \in fill THEN FilledAt(claim[l], p) ELSE claim[l]
  BY <1>2
<1>5. DOMAIN claim' = Lines /\ claim' = [l \in Lines |-> claim'[l]]
  BY <1>2, <1>4
<1>6. \A l \in Lines : ClaimOK(l, claim[l]) /\ (l \in fill => claim[l].status = "waiting")
  BY <1>1 DEF ClaimsOK, Waiters
<1>7. \A l \in Lines : ClaimOK(l, claim'[l]) /\ (l \in fill => claim'[l].status = "filled")
  BY <1>4, <1>6, ClaimFilled
<1>8. ClaimsOK(claim')
  BY <1>5, <1>7 DEF ClaimsOK
<1>9. Fills(p, claim, claim')
  BY <1>4, <1>6 DEF Fills
<1>10. \A l \in Waiters(claim') : l \in Waiters(claim) \ fill
  BY <1>4, <1>7 DEF Waiters
<1> QED
  BY <1>3, <1>8, <1>9, <1>10 DEF WritesAt

\* No claims are owed nothing.
LEMMA OwedToNone == OwedTo({}) = 0
<1> DEFINE f == [l \in Lines |-> IF l \in {} THEN Owed(l) ELSE 0]
<1>1. \A l \in Lines : f[l] = 0
  OBVIOUS
<1>2. DOMAIN f = Lines
  OBVIOUS
<1> HIDE DEF f
<1>3. SumFunctionOnSet(f, Lines) = 0
  BY <1>1, SumZero, ShelfAssumption
<1> QED
  BY <1>2, <1>3 DEF OwedTo, SumFunction, f

\* A level's write fills what it can, or leaves the sellable units no higher.
LEMMA WriteShape ==
    ASSUME Typed, NEW p \in Places, NEW count \in Int, NEW promise \in Int,
           WriteQuantities(p, count, promise)
    PROVE  /\ WritesAt(p)
           /\ \/ LeavesTooLittle(p)
              \/ stocked'[p] - reserved'[p] <= Available(p)
<1>1. StockOK(stocked, reserved) /\ ClaimsOK(claim)
  BY DEF Typed
<1>2. Available(p) \in Int
  BY <1>1 DEF StockOK, Available
<1>3. CASE count - promise > Available(p)
  <2> DEFINE fill == Fillable(count - promise)
  <2>1. FillWaiting(p, count, promise, fill)
    BY <1>3 DEF WriteQuantities
  <2>2. count - promise \in Int
    OBVIOUS
  <2>3. /\ fill \subseteq Waiters(claim) /\ OwedTo(fill) \in Int
        /\ \A l \in Waiters(claim) \ fill : count - promise - OwedTo(fill) < Owed(l)
    BY <1>1, <2>2, FillLeavesTooLittle
  <2> HIDE DEF fill
  <2>4. /\ WritesAt(p) /\ stocked'[p] = count - OwedTo(fill) /\ reserved'[p] = promise
        /\ \A l \in Waiters(claim') : l \in Waiters(claim) \ fill
    BY <2>1, <2>3, FillShape
  <2>5. count - OwedTo(fill) - promise = count - promise - OwedTo(fill)
    BY <2>3
  <2> QED
    BY <2>3, <2>4, <2>5 DEF LeavesTooLittle
<1>4. CASE ~(count - promise > Available(p))
  <2>1. FillWaiting(p, count, promise, {})
    BY <1>4 DEF WriteQuantities
  <2>2. WritesAt(p) /\ stocked'[p] = count - OwedTo({}) /\ reserved'[p] = promise
    BY <2>1, FillShape, OwedToNone
  <2> QED
    BY <1>2, <1>4, <2>2, OwedToNone
<1> QED
  BY <1>3, <1>4

\* One warehouse of a drain: a claim that still waits needs more than it has.
LEMMA DrainShape ==
    ASSUME Typed, NEW p \in Places, DrainAt(p)
    PROVE  WritesAt(p) /\ LeavesTooLittle(p)
<1>1. StockOK(stocked, reserved) /\ ClaimsOK(claim)
  BY DEF Typed
<1>2. Available(p) \in Int /\ stocked[p] \in Int /\ reserved[p] \in Int
  BY <1>1 DEF StockOK, Available
<1>3. CASE Available(p) <= 0
  <2>1. stocked' = stocked /\ reserved' = reserved /\ claim' = claim
    BY <1>3 DEF DrainAt
  <2>2. WritesAt(p)
    BY <1>1, <2>1 DEF WritesAt, Fills
  <2>3. ASSUME NEW l \in Waiters(claim) PROVE Owed(l) \in Int /\ Owed(l) > 0
    <3>1. l \in Lines /\ claim[l].status = "waiting"
      BY DEF Waiters
    <3>2. Owing(claim)[l] \in Nat /\ Owing(claim)[l] > 0
      BY <1>1, <3>1, OwingNat
    <3> QED
      BY <3>1, <3>2 DEF Owing, Owed
  <2>4. LeavesTooLittle(p)
    BY <1>2, <1>3, <2>1, <2>3 DEF LeavesTooLittle, Available
  <2> QED
    BY <2>2, <2>4
<1>4. CASE ~(Available(p) <= 0)
  <2> DEFINE fill == Fillable(Available(p))
  <2>1. FillWaiting(p, stocked[p], reserved[p], fill)
    BY <1>4 DEF DrainAt
  <2>2. /\ fill \subseteq Waiters(claim) /\ OwedTo(fill) \in Int
        /\ \A l \in Waiters(claim) \ fill : Available(p) - OwedTo(fill) < Owed(l)
    BY <1>1, <1>2, FillLeavesTooLittle
  <2> HIDE DEF fill
  <2>3. /\ WritesAt(p) /\ stocked'[p] = stocked[p] - OwedTo(fill) /\ reserved'[p] = reserved[p]
        /\ \A l \in Waiters(claim') : l \in Waiters(claim) \ fill
    BY <1>2, <2>1, <2>2, FillShape
  <2>4. stocked[p] - OwedTo(fill) - reserved[p] = Available(p) - OwedTo(fill)
    BY <1>2, <2>2 DEF Available
  <2> QED
    BY <2>2, <2>3, <2>4 DEF LeavesTooLittle
<1> QED
  BY <1>3, <1>4

\* The withdrawal.
LEMMA SettledShape ==
    ASSUME NEW l \in Lines, ClaimOK(l, claim[l]), NEW window \in Units
    PROVE  /\ ClaimOK(l, SettledClaim(l, window))
           /\ claim[l].status \notin {"waiting", "unplaced"} => SettledClaim(l, window) = claim[l]
           /\ claim[l].status \in {"waiting", "unplaced"} =>
                 /\ SettledClaim(l, window).status \in {claim[l].status, "withdrawn"}
                 /\ SettledClaim(l, window).withdrawn >= window
                 /\ SettledClaim(l, window).withdrawn \in {claim[l].withdrawn, window}
                 /\ SettledClaim(l, window).withdrawn >= claim[l].withdrawn
                 /\ SettledClaim(l, window).at = claim[l].at
<1>1. CASE claim[l].status \notin {"waiting", "unplaced"}
  BY <1>1 DEF SettledClaim, Unfilled
<1>2. CASE claim[l].status \in {"waiting", "unplaced"}
  <2> DEFINE c == claim[l]
             w == Max({c.withdrawn, window})
  <2>1. c \in [status : {"none", "waiting", "unplaced", "filled", "withdrawn"}, withdrawn : Units,
               at : Places \cup {NoPlace}] /\ c.withdrawn \in 0..Bought /\ window \in 0..Bought
        /\ (l \notin Reserved)
    BY <1>2 DEF ClaimOK, Units
  <2>2. w = IF c.withdrawn >= window THEN c.withdrawn ELSE window
    BY <2>1, MaxOfTwo
  <2>3. SettledClaim(l, window) =
          [c EXCEPT !.withdrawn = w, !.status = IF w = Bought THEN "withdrawn" ELSE c.status]
    BY <1>2, <2>1 DEF SettledClaim, Unfilled
  <2>4. w \in 0..Bought /\ w >= window /\ w >= c.withdrawn /\ w \in {c.withdrawn, window}
    BY <2>1, <2>2
  <2> HIDE DEF w, c
  <2>5. SettledClaim(l, window) = [status |-> IF w = Bought THEN "withdrawn" ELSE c.status,
                                   withdrawn |-> w, at |-> c.at]
    BY <2>1, <2>3
  <2>6. c.at \in Places \cup {NoPlace} /\ c = claim[l]
    BY <2>1 DEF c
  <2> QED
    BY <1>2, <2>1, <2>4, <2>5, <2>6, ShelfAssumption DEF ClaimOK, Units
<1> QED
  BY <1>1, <1>2

\* One claim changes.
LEMMA ClaimSet ==
    ASSUME ClaimsOK(claim), NEW l \in Lines, NEW c, ClaimOK(l, c), claim' = [claim EXCEPT ![l] = c]
    PROVE  ClaimsOK(claim') /\ \A m \in Lines : claim'[m] = IF m = l THEN c ELSE claim[m]
<1>1. \A m \in Lines : claim'[m] = IF m = l THEN c ELSE claim[m]
  BY DEF ClaimsOK
<1>2. DOMAIN claim' = Lines /\ claim' = [m \in Lines |-> claim'[m]]
  BY DEF ClaimsOK
<1>3. \A m \in Lines : ClaimOK(m, claim'[m])
  BY <1>1 DEF ClaimsOK
<1> QED
  BY <1>1, <1>2, <1>3 DEF ClaimsOK

-----------------------------------------------------------------------------
(* Every step leaves a state of that kind.                                 *)

\* The same lines have no claim
SameNone(from, to) == \A l \in Lines : from[l].status = "none" <=> to[l].status = "none"

\* Filling claims makes none and removes none.
LEMMA FillsNone ==
    ASSUME NEW p \in Places, NEW to, ClaimsOK(claim), Fills(p, claim, to)
    PROVE  SameNone(claim, to)
<1> SUFFICES ASSUME NEW l \in Lines PROVE claim[l].status = "none" <=> to[l].status = "none"
  BY DEF SameNone
<1>1. CASE to[l] = claim[l]
  BY <1>1
<1>2. CASE claim[l].status = "waiting" /\ to[l] = FilledAt(claim[l], p)
  BY <1>2, ClaimFilled DEF ClaimsOK
<1> QED
  BY <1>1, <1>2 DEF Fills

\* What the checkout has in hand stays in order while others write off and fill.
LEMMA CheckoutKept ==
    ASSUME NEW co, NEW cl, NEW cn, CheckoutOK(co, cl, cn), NEW cl2, SameNone(cl, cl2), NEW cn2,
           \A l \in Lines : cn[l] \in Int /\ cn2[l] \in Int /\ cn[l] <= cn2[l]
    PROVE  CheckoutOK(co, cl2, cn2)
<1>1. \A l \in Lines : cl[l].status = "none" <=> cl2[l].status = "none"
  BY DEF SameNone
<1>2. Backordered \subseteq Lines
  BY DEF Backordered
<1>3. CASE co.pc = "claim"
  BY <1>1, <1>2, <1>3 DEF CheckoutOK
<1>4. CASE co.pc = "read"
  BY <1>1, <1>4 DEF CheckoutOK
<1>5. CASE co.pc = "count"
  <2>1. co \in [pc : {"count"}, canceled : Windows] /\ (\A l \in Lines : co.canceled[l] <= cn[l])
        /\ \E l \in Lines : cl[l].status # "none"
    BY <1>5 DEF CheckoutOK
  <2>w. co.canceled \in [Lines -> 0..Bought]
    BY <2>1 DEF Windows, Units
  <2>2. \A l \in Lines : co.canceled[l] \in Int
    BY <2>w
  <2>3. \A l \in Lines : co.canceled[l] <= cn2[l]
    BY <2>1, <2>2
  <2> QED
    BY <1>1, <2>1, <2>3 DEF CheckoutOK
<1>6. CASE co.pc \notin {"claim", "read", "count"}
  BY <1>6 DEF CheckoutOK
<1> QED
  BY <1>3, <1>4, <1>5, <1>6

\* A backordered line past the claims has its claim or is excused, whatever others do.
LEMMA ClaimedKept ==
    ASSUME NEW cl, NEW ex, NEW co, ClaimedOK(cl, ex, co), NEW cl2, SameNone(cl, cl2), NEW ex2,
           ex \subseteq ex2
    PROVE  ClaimedOK(cl2, ex2, co)
BY DEF ClaimedOK, SameNone, Backordered

\* Claims that do not change are as many.
LEMMA SameNoneSame == ASSUME NEW cl PROVE SameNone(cl, cl)
BY DEF SameNone

\* What is written off of a line is a number up to what was bought.
LEMMA CanceledInt ==
    ASSUME Typed
    PROVE  \A l \in Lines : canceled[l] \in Int /\ canceled[l] \in 0..Bought
BY ShelfAssumption DEF Typed, ReturnsOK, Units

\* What touches the levels, the claims and the handlers leaves the rest well formed.
LEMMA TypedStock ==
    ASSUME Typed, StockOK(stocked', reserved'), ClaimsOK(claim'), SameNone(claim, claim'),
           ReturnsOK(returned', canceled), excused \subseteq excused', excused' \subseteq Lines,
           UNCHANGED <<sold, canceled, parcel, dispatch, events, checkout>>,
           todo' \subseteq events, HandlersOK(handler', events, canceled, sold)
    PROVE  Typed'
<1>1. CheckoutOK(checkout, claim', canceled)
  BY CheckoutKept, CanceledInt DEF Typed
<1>2. ClaimedOK(claim', excused', checkout)
  BY ClaimedKept DEF Typed
<1>3. EarlyReturns(parcel, checkout, excused')
  BY DEF Typed, EarlyReturns
<1>4. EventsOK(events, todo', canceled, parcel)
  BY DEF Typed, EventsOK
<1> QED
  BY <1>1, <1>2, <1>3, <1>4 DEF Typed

\* Types: a write of one warehouse's level, with the claims it fills.
LEMMA TypedWrite ==
    ASSUME Typed, NEW p \in Places, WritesAt(p), ReturnsOK(returned', canceled),
           excused \subseteq excused', excused' \subseteq Lines,
           UNCHANGED <<sold, canceled, parcel, dispatch, events, checkout>>,
           todo' \subseteq events, HandlersOK(handler', events, canceled, sold)
    PROVE  Typed'
<1>1. SameNone(claim, claim')
  BY FillsNone DEF Typed, WritesAt
<1> QED
  BY <1>1, TypedStock DEF WritesAt

\* A delivery moves and touches nothing else.
LEMMA TypedHandler ==
    ASSUME Typed, NEW h \in Handlers, NEW m, HandlerOK(m, events, canceled, sold),
           handler' = [handler EXCEPT ![h] = m], todo' \subseteq events,
           UNCHANGED <<stocked, reserved, claim, sold, returned, canceled, parcel, dispatch, events,
                       checkout, excused>>
    PROVE  Typed'
<1>1. HandlersOK(handler', events, canceled, sold)
  BY HandlerSet DEF Typed
<1> QED
  BY <1>1, SameNoneSame, TypedStock DEF Typed

\* Types: stock arrives at a warehouse and fills the queue.
LEMMA TypedArrive ==
    ASSUME Typed, NEW p \in Places, Arrive(p)
    PROVE  Typed'
<1>1. stocked[p] + 1 \in Int /\ reserved[p] \in Int
  BY DEF Typed, StockOK
<1>2. WritesAt(p)
  BY <1>1, WriteShape DEF Arrive
<1>3. todo' \subseteq events
  BY DEF Arrive, Typed, EventsOK
<1> QED
  BY <1>2, <1>3, TypedWrite DEF Arrive, Typed, order

\* Types: units of a line are written off and the event is in the outbox.
LEMMA TypedCancelOrderLine ==
    ASSUME Typed, NEW l \in Lines, NEW n \in 1..Bought, CancelOrderLine(l, n)
    PROVE  Typed'
<1> DEFINE e == [about |-> "line", line |-> l, total |-> canceled[l] + n]
<1>1. /\ canceled[l] + n <= Bought /\ canceled' = [canceled EXCEPT ![l] = canceled[l] + n]
      /\ events' = events \cup {e} /\ todo' = todo \cup {e}
      /\ UNCHANGED <<stocked, reserved, claim, sold, returned, parcel, dispatch, handler, checkout, excused>>
  BY DEF CancelOrderLine, Publish, stock
<1>2. canceled[l] + n \in 1..Bought
  BY <1>1, CanceledInt
<1>3. canceled' \in [Lines -> Units] /\ \A m \in Lines : canceled'[m] = IF m = l THEN canceled[l] + n ELSE canceled[m]
  BY <1>1, <1>2 DEF Typed, ReturnsOK, Units
<1>4. \A m \in Lines : canceled[m] \in Int /\ canceled'[m] \in Int /\ canceled[m] <= canceled'[m]
  BY <1>2, <1>3, CanceledInt
<1>5. e \in LineEvents
  BY <1>2 DEF LineEvents
<1>6. e.about = "line" /\ e.line = l /\ e.total = canceled'[l]
  BY <1>3
<1> HIDE DEF e
<1>7. EventsOK(events', todo', canceled', parcel')
  <2>1. events \subseteq LineEvents \cup ParcelEvents /\ todo \subseteq events
    BY DEF Typed, EventsOK
  <2>2. ASSUME NEW d \in events
        PROVE  /\ d.about = "line" => d.total <= canceled'[d.line]
               /\ d.about = "parcel" => parcel[d.of].status \in {"canceled", "returned"}
    <3>1. d.line \in Lines /\ (d.about = "line" => d.total \in 1..Bought)
      BY <2>1, EventLines
    <3>2. /\ d.about = "line" => d.total <= canceled[d.line]
          /\ d.about = "parcel" => parcel[d.of].status \in {"canceled", "returned"}
      BY DEF Typed, EventsOK
    <3> QED
      BY <3>1, <3>2, <1>4
  <2>3. canceled'[l] \in Int
    BY <1>4
  <2> QED
    BY <1>1, <1>5, <1>6, <2>1, <2>2, <2>3 DEF EventsOK
<1>8. HandlersOK(handler', events', canceled', sold')
  BY <1>1, <1>4, HandlersKept DEF Typed, EventsOK
<1>9. CheckoutOK(checkout, claim, canceled')
  BY <1>4, SameNoneSame, CheckoutKept DEF Typed
<1> QED
  BY <1>1, <1>3, <1>7, <1>8, <1>9 DEF Typed, ReturnsOK

\* One parcel changes; the one that is being opened holds the lock.
LEMMA ParcelSet ==
    ASSUME Typed, NEW x \in Parcels, NEW q, ParcelOK(q), parcel' = [parcel EXCEPT ![x] = q],
           \/ dispatch' = dispatch /\ q.status # "opening" /\ parcel[x].status # "opening"
           \/ dispatch = {} /\ dispatch' = {x} /\ q.status = "opening"
           \/ parcel[x].status = "opening" /\ dispatch' = {} /\ q.status # "opening",
           parcel[x].status \notin {"canceled", "returned"}
    PROVE  /\ ParcelsOK(parcel', dispatch')
           /\ \A y \in Parcels : parcel'[y] = IF y = x THEN q ELSE parcel[y]
           /\ EventsOK(events, todo, canceled, parcel')
<1>1. /\ DOMAIN parcel = Parcels /\ parcel = [y \in Parcels |-> parcel[y]]
      /\ \A y \in Parcels : ParcelOK(parcel[y]) /\ (parcel[y].status = "opening" <=> y \in dispatch)
      /\ dispatch = {} \/ \E y \in Parcels : dispatch = {y}
  BY DEF Typed, ParcelsOK
<1>2. \A y \in Parcels : parcel'[y] = IF y = x THEN q ELSE parcel[y]
  BY <1>1
<1>3. DOMAIN parcel' = Parcels /\ parcel' = [y \in Parcels |-> parcel'[y]]
  BY <1>1
<1>4. \A y \in Parcels : ParcelOK(parcel'[y])
  BY <1>1, <1>2
<1>5. /\ \A y \in Parcels : parcel'[y].status = "opening" <=> y \in dispatch'
      /\ dispatch' = {} \/ \E y \in Parcels : dispatch' = {y}
  <2>1. CASE dispatch' = dispatch /\ q.status # "opening" /\ parcel[x].status # "opening"
    BY <1>1, <1>2, <2>1
  <2>2. CASE dispatch = {} /\ dispatch' = {x} /\ q.status = "opening"
    BY <1>1, <1>2, <2>2
  <2>3. CASE parcel[x].status = "opening" /\ dispatch' = {} /\ q.status # "opening"
    BY <1>1, <1>2, <2>3
  <2> QED
    BY <2>1, <2>2, <2>3
<1>6. EventsOK(events, todo, canceled, parcel')
  <2>1. events \subseteq LineEvents \cup ParcelEvents /\ todo \subseteq events
    BY DEF Typed, EventsOK
  <2>2. ASSUME NEW e \in events
        PROVE  e.about = "parcel" => parcel'[e.of].status \in {"canceled", "returned"}
    <3>1. e.about = "parcel" => e.of \in Parcels /\ parcel[e.of].status \in {"canceled", "returned"}
      BY <2>1, EventLines DEF Typed, EventsOK
    <3> QED
      BY <3>1, <1>2
  <2> QED
    BY <2>1, <2>2 DEF Typed, EventsOK
<1> QED
  BY <1>2, <1>3, <1>4, <1>5, <1>6 DEF ParcelsOK

\* The opening of a parcel, as far as it changes parcels only.
LEMMA TypedParcel ==
    ASSUME Typed, NEW x \in Parcels, NEW q, ParcelOK(q), parcel' = [parcel EXCEPT ![x] = q],
           \/ dispatch' = dispatch /\ q.status # "opening" /\ parcel[x].status # "opening"
           \/ dispatch = {} /\ dispatch' = {x} /\ q.status = "opening"
           \/ parcel[x].status = "opening" /\ dispatch' = {} /\ q.status # "opening",
           parcel[x].status \notin {"canceled", "returned"}, q.status # "returned",
           UNCHANGED <<stocked, reserved, claim, sold, returned, canceled, events, todo, handler, checkout>>,
           excused \subseteq excused', excused' \subseteq Lines
    PROVE  Typed'
<1>1. /\ ParcelsOK(parcel', dispatch')
      /\ \A y \in Parcels : parcel'[y] = IF y = x THEN q ELSE parcel[y]
      /\ EventsOK(events, todo, canceled, parcel')
  BY ParcelSet
<1>2. EarlyReturns(parcel', checkout, excused')
  BY <1>1 DEF Typed, EarlyReturns
<1>3. ClaimedOK(claim, excused', checkout)
  BY ClaimedKept, SameNoneSame DEF Typed
<1> QED
  BY <1>1, <1>2, <1>3 DEF Typed

\* A parcel that was not opened, and one whose opening was given up, are parcels.
LEMMA NoParcelOK == ParcelOK(NoParcel) /\ ParcelOK([NoParcel EXCEPT !.status = "canceled"])
                    /\ [NoParcel EXCEPT !.status = "canceled"].status = "canceled"
BY ShelfAssumption DEF ParcelOK, NoParcel, Units

\* The fields of a parcel.
LEMMA ParcelIs ==
    ASSUME Typed, NEW x \in Parcels
    PROVE  /\ ParcelOK(parcel[x])
           /\ parcel[x] \in [status : {"none", "asked", "opening", "live", "canceled", "returned"},
                             line : Lines \cup {0}, units : Units, ceiling : Units]
           /\ \A f : [parcel EXCEPT ![x] = f][x] = f
BY DEF Typed, ParcelsOK, ParcelOK

\* Types: the opening of a parcel reads its ceiling, before the lock.
LEMMA TypedOpenAsked ==
    ASSUME Typed, NEW x \in Parcels, NEW l \in Lines, NEW n \in 1..Bought, OpenAsked(x, l, n)
    PROVE  Typed'
<1> DEFINE q == [status |-> "asked", line |-> l, units |-> n, ceiling |-> Bought - canceled[l]]
<1>1. /\ parcel[x].status = "none" /\ parcel' = [parcel EXCEPT ![x] = q] /\ excused' = excused
      /\ UNCHANGED <<stocked, reserved, claim, sold, returned, canceled, dispatch, events, todo, handler, checkout>>
  BY DEF OpenAsked, stock
<1>2. Bought - canceled[l] \in 0..Bought
  BY CanceledInt, ShelfAssumption
<1>3. ParcelOK(q) /\ q.status = "asked"
  BY <1>2 DEF ParcelOK, Units
<1> HIDE DEF q
<1>4. excused' \subseteq Lines
  BY <1>1 DEF Typed
<1> QED
  BY <1>1, <1>3, <1>4, TypedParcel

\* Types: the opening takes the lock if its units fit the ceiling it read, else it is off.
LEMMA TypedOpenLocked ==
    ASSUME Typed, NEW x \in Parcels, OpenLocked(x)
    PROVE  Typed'
<1>1. /\ parcel[x].status = "asked" /\ dispatch = {}
      /\ UNCHANGED <<stocked, reserved, claim, sold, returned, canceled, events, todo, handler, checkout>>
  BY DEF OpenLocked, stock
<1>2. excused \subseteq Lines /\ parcel[x].line \in Lines
  BY <1>1, ParcelIs DEF Typed, ParcelOK
<1>3. CASE FitsCeiling(x)
  <2> DEFINE q == [parcel[x] EXCEPT !.status = "opening", !.ceiling = 0]
  <2>1. /\ parcel' = [parcel EXCEPT ![x].status = "opening", ![x].ceiling = 0] /\ dispatch' = {x}
        /\ excused' = excused \cup {l \in {parcel[x].line} : Held(l) + parcel[x].units > Bought - canceled[l]}
    BY <1>3 DEF OpenLocked
  <2>2. parcel' = [parcel EXCEPT ![x] = q]
    BY <2>1, ParcelIs
  <2>z. 0 \in Units
    BY ShelfAssumption DEF Units
  <2>3. ParcelOK(q) /\ q.status = "opening"
    BY <1>1, <2>z, ParcelIs DEF ParcelOK
  <2>4. excused \subseteq excused' /\ excused' \subseteq Lines
    BY <1>2, <2>1
  <2> HIDE DEF q
  <2> QED
    BY <1>1, <2>1, <2>2, <2>3, <2>4, TypedParcel
<1>4. CASE ~FitsCeiling(x)
  <2>1. parcel' = [parcel EXCEPT ![x] = NoParcel] /\ dispatch' = dispatch /\ excused' = excused
    BY <1>4 DEF OpenLocked
  <2>2. NoParcel.status = "none"
    BY DEF NoParcel
  <2> QED
    BY <1>1, <1>2, <2>1, <2>2, NoParcelOK, TypedParcel
<1> QED
  BY <1>3, <1>4

\* Types: the parcel is there, the lock is free.
LEMMA TypedOpenCommits ==
    ASSUME Typed, NEW x \in Parcels, OpenCommits(x)
    PROVE  Typed'
<1> DEFINE q == [parcel[x] EXCEPT !.status = "live"]
<1>1. /\ parcel[x].status = "opening" /\ parcel' = [parcel EXCEPT ![x].status = "live"]
      /\ dispatch' = {} /\ excused' = excused
      /\ UNCHANGED <<stocked, reserved, claim, sold, returned, canceled, events, todo, handler, checkout>>
  BY DEF OpenCommits, stock
<1>2. parcel' = [parcel EXCEPT ![x] = q]
  BY <1>1, ParcelIs
<1>3. ParcelOK(q) /\ q.status = "live"
  BY <1>1, ParcelIs DEF ParcelOK
<1> HIDE DEF q
<1>4. excused' \subseteq Lines
  BY <1>1 DEF Typed
<1> QED
  BY <1>1, <1>2, <1>3, <1>4, TypedParcel

\* Types: the opening gives up, the lock is free.
LEMMA TypedOpenFails ==
    ASSUME Typed, NEW x \in Parcels, OpenFails(x)
    PROVE  Typed'
<1>1. /\ parcel[x].status = "opening" /\ parcel' = [parcel EXCEPT ![x] = NoParcel]
      /\ dispatch' = {} /\ excused' = excused
      /\ UNCHANGED <<stocked, reserved, claim, sold, returned, canceled, events, todo, handler, checkout>>
  BY DEF OpenFails, stock
<1>2. NoParcel.status = "none"
  BY DEF NoParcel
<1>3. excused' \subseteq Lines
  BY <1>1 DEF Typed
<1> QED
  BY <1>1, <1>2, <1>3, NoParcelOK, TypedParcel

\* A parcel ends, and the order hears of it.
LEMMA TypedParcelEnds ==
    ASSUME Typed, NEW x \in Parcels, NEW q, ParcelOK(q), parcel' = [parcel EXCEPT ![x] = q],
           parcel[x].status = "live", q.status \in {"canceled", "returned"}, dispatch' = dispatch,
           Publish([about |-> "parcel", line |-> parcel[x].line, of |-> x]),
           UNCHANGED <<stocked, reserved, claim, sold, returned, canceled, handler, checkout>>,
           excused \subseteq excused', excused' \subseteq Lines, EarlyReturns(parcel', checkout, excused')
    PROVE  Typed'
<1> DEFINE e == [about |-> "parcel", line |-> parcel[x].line, of |-> x]
<1>1. /\ ParcelsOK(parcel', dispatch')
      /\ \A y \in Parcels : parcel'[y] = IF y = x THEN q ELSE parcel[y]
      /\ EventsOK(events, todo, canceled, parcel')
  BY ParcelSet
<1>2. events' = events \cup {e} /\ todo' = todo \cup {e}
  BY DEF Publish
<1>3. e \in ParcelEvents /\ e.about = "parcel" /\ e.of = x
  BY ParcelIs DEF ParcelEvents, ParcelOK
<1> HIDE DEF e
<1>4. EventsOK(events', todo', canceled, parcel')
  BY <1>1, <1>2, <1>3 DEF EventsOK
<1>5. HandlersOK(handler, events', canceled, sold)
  BY <1>2, HandlersKept, CanceledInt DEF Typed, EventsOK
<1>6. ClaimedOK(claim, excused', checkout)
  BY ClaimedKept, SameNoneSame DEF Typed
<1> QED
  BY <1>1, <1>4, <1>5, <1>6 DEF Typed

\* Types: a parcel is canceled and publishes its event.
LEMMA TypedCancelFulfillment ==
    ASSUME Typed, NEW x \in Parcels, CancelFulfillment(x)
    PROVE  Typed'
<1> DEFINE q == [NoParcel EXCEPT !.status = "canceled"]
<1>1. /\ parcel[x].status = "live" /\ parcel' = [parcel EXCEPT ![x] = q] /\ dispatch' = dispatch
      /\ Publish([about |-> "parcel", line |-> parcel[x].line, of |-> x]) /\ excused' = excused
      /\ UNCHANGED <<stocked, reserved, claim, sold, returned, canceled, handler, checkout>>
  BY DEF CancelFulfillment, stock
<1>2. ParcelOK(q) /\ q.status = "canceled"
  BY NoParcelOK
<1> HIDE DEF q
<1>3. \A y \in Parcels : parcel'[y] = IF y = x THEN q ELSE parcel[y]
  BY <1>1, <1>2, ParcelSet
<1>4. EarlyReturns(parcel', checkout, excused')
  BY <1>1, <1>2, <1>3 DEF Typed, EarlyReturns
<1>5. excused' \subseteq Lines
  BY <1>1 DEF Typed
<1> QED
  BY <1>1, <1>2, <1>4, <1>5, TypedParcelEnds

\* Types: a parcel comes back and publishes its event.
LEMMA TypedMarkReturned ==
    ASSUME Typed, NEW x \in Parcels, MarkReturned(x)
    PROVE  Typed'
<1> DEFINE q == [parcel[x] EXCEPT !.status = "returned"]
<1>1. /\ parcel[x].status = "live" /\ parcel' = [parcel EXCEPT ![x].status = "returned"] /\ dispatch' = dispatch
      /\ Publish([about |-> "parcel", line |-> parcel[x].line, of |-> x])
      /\ excused' = excused \cup {l \in {parcel[x].line} : checkout.pc \in {"claim", "read", "count"}}
      /\ UNCHANGED <<stocked, reserved, claim, sold, returned, canceled, handler, checkout>>
  BY DEF MarkReturned, stock
<1>2. parcel' = [parcel EXCEPT ![x] = q]
  BY <1>1, ParcelIs
<1>3. ParcelOK(q) /\ q.status = "returned" /\ q.line = parcel[x].line /\ q.line \in Lines
  BY <1>1, ParcelIs DEF ParcelOK
<1> HIDE DEF q
<1>4. \A y \in Parcels : parcel'[y] = IF y = x THEN q ELSE parcel[y]
  BY <1>1, <1>2, <1>3, ParcelSet
<1>5. EarlyReturns(parcel', checkout, excused')
  BY <1>1, <1>3, <1>4 DEF Typed, EarlyReturns
<1>6. excused' \subseteq Lines /\ excused \subseteq excused'
  BY <1>1, <1>3 DEF Typed
<1> QED
  BY <1>1, <1>2, <1>3, <1>5, <1>6, TypedParcelEnds

\* The deliveries.
LEMMA HandlerIs ==
    ASSUME Typed, NEW h \in Handlers
    PROVE  HandlerOK(handler[h], events, canceled, sold)
BY DEF Typed, HandlersOK

\* What a published event tells is true: so much was written off, that parcel ended.
LEMMA EventIs ==
    ASSUME Typed, NEW e \in events
    PROVE  /\ e.line \in Lines /\ e.about \in {"line", "parcel"}
           /\ e.about = "line" => e.total \in 1..Bought /\ e.total <= canceled[e.line]
           /\ e.about = "parcel" => e.of \in Parcels /\ parcel[e.of].status \in {"canceled", "returned"}
BY EventLines DEF Typed, EventsOK

\* The window of a line.
LEMMA WindowIs ==
    ASSUME NEW total \in Units, NEW committed \in Nat
    PROVE  /\ TargetOnShelf(total, committed) \in Units
           /\ TargetOnShelf(total, committed) <= total
           /\ TargetOnShelf(total, committed) > 0 => TargetOnShelf(total, committed) + committed <= Bought
           /\ \A w \in Nat : w <= total /\ w + committed <= Bought => w <= TargetOnShelf(total, committed)
           /\ UnitsThatWillNotLeave(total, committed) = TargetOnShelf(total, committed)
<1>1. total \in 0..Bought /\ Bought \in Nat /\ Bought - committed \in Int
  BY ShelfAssumption DEF Units
<1>2. Min({total, Bought - committed}) = IF total <= Bought - committed THEN total ELSE Bought - committed
  BY <1>1, MinOfTwo
<1> DEFINE m == Min({total, Bought - committed})
<1>3. m \in Int
  BY <1>1, <1>2
<1>4. Max({0, m}) = IF 0 >= m THEN 0 ELSE m
  BY <1>3, MaxOfTwo
<1>5. TargetOnShelf(total, committed) = Max({0, m}) /\ UnitsThatWillNotLeave(total, committed) = Max({0, m})
  BY DEF TargetOnShelf, UnitsThatWillNotLeave
<1> HIDE DEF m
<1>6. m = IF total <= Bought - committed THEN total ELSE Bought - committed
  BY <1>2 DEF m
<1> QED
  BY <1>1, <1>4, <1>5, <1>6 DEF Units

\* Types: a delivery is with the event it was called for.
LEMMA TypedCount ==
    ASSUME Typed, NEW h \in Handlers, NEW e \in events, NEW total \in Units, Count(h, e, total),
           UNCHANGED <<stocked, reserved, claim, sold, returned, canceled, parcel, dispatch, events,
                       checkout, excused>>
    PROVE  Typed'
<1> DEFINE window == TargetOnShelf(total, Held(e.line))
           m == [pc |-> "sold", event |-> e, line |-> e.line, window |-> window]
<1>1. window \in Units
  BY WindowIs, HeldIs DEF Typed
<1>2. CASE window = 0
  <2>1. handler' = [handler EXCEPT ![h] = Idle] /\ todo' \subseteq events
    BY <1>2 DEF Count, Stand, Typed, EventsOK
  <2> QED
    BY <2>1, TypedHandler DEF HandlerOK
<1>3. CASE window # 0
  <2>1. handler' = [handler EXCEPT ![h] = m] /\ todo' \subseteq events
    BY <1>3 DEF Count, Stand, Typed, EventsOK
  <2>2. window \in 1..Bought /\ e.line \in Lines
    BY <1>1, <1>3, EventIs DEF Units
  <2> HIDE DEF window
  <2>3. m \in Selling(events) /\ m.line = m.event.line
    BY <2>2 DEF Selling
  <2> HIDE DEF m
  <2> QED
    BY <2>1, <2>3, TypedHandler DEF HandlerOK
<1> QED
  BY <1>2, <1>3

\* Types: a delivery of a write-off begins with the total the event carries.
LEMMA TypedHandleLineCanceled ==
    ASSUME Typed, NEW h \in Handlers, NEW e \in events, HandleLineCanceled(h, e)
    PROVE  Typed'
<1>1. Count(h, e, e.total) /\ e.about = "line"
      /\ UNCHANGED <<stocked, reserved, claim, sold, returned, canceled, parcel, dispatch, events,
                     checkout, excused>>
  BY DEF HandleLineCanceled, stock, order
<1>2. e.total \in Units
  BY <1>1, EventIs DEF Units
<1> QED
  BY <1>1, <1>2, TypedCount

\* Types: a delivery of a parcel's end begins with the total the order shows.
LEMMA TypedRecountParcel ==
    ASSUME Typed, NEW h \in Handlers, NEW e \in events, RecountParcel(h, e)
    PROVE  Typed'
<1> DEFINE m == [pc |-> "count", event |-> e, total |-> canceled[e.line]]
<1>1. handler' = [handler EXCEPT ![h] = m] /\ todo' = todo
      /\ UNCHANGED <<stocked, reserved, claim, sold, returned, canceled, parcel, dispatch, events,
                     checkout, excused>>
  BY DEF RecountParcel, Stand, stock, order
<1>2. e.line \in Lines /\ canceled[e.line] \in Units /\ canceled[e.line] \in Int
  BY EventIs, CanceledInt DEF Units
<1>3. m \in Counting(events) /\ m.total <= canceled[m.event.line]
  BY <1>2 DEF Counting
<1> HIDE DEF m
<1>4. todo' \subseteq events
  BY <1>1 DEF Typed, EventsOK
<1> QED
  BY <1>1, <1>3, <1>4, TypedHandler DEF HandlerOK

\* Types: a delivery counts what parcels hold and has its window.
LEMMA TypedCountHeld ==
    ASSUME Typed, NEW h \in Handlers, CountHeld(h)
    PROVE  Typed'
<1>1. Count(h, handler[h].event, handler[h].total) /\ handler[h].pc = "count"
      /\ UNCHANGED <<stocked, reserved, claim, sold, returned, canceled, parcel, dispatch, events,
                     checkout, excused>>
  BY DEF CountHeld, stock, order
<1>2. handler[h].event \in events /\ handler[h].total \in Units
  BY <1>1, HandlerIs, HandlerFields
<1> QED
  BY <1>1, <1>2, TypedCount

\* Types: a delivery has read where the line was sold from.
LEMMA TypedReadShelves ==
    ASSUME Typed, NEW h \in Handlers, ReadShelves(h)
    PROVE  Typed'
<1> DEFINE s == IF sold = {} THEN NoPlace ELSE 1
           m == [pc |-> "settle", event |-> handler[h].event, line |-> handler[h].line,
                 window |-> handler[h].window, soldAt |-> s]
<1>1. handler[h].pc = "sold" /\ handler' = [handler EXCEPT ![h] = m] /\ todo' = todo
      /\ UNCHANGED <<stocked, reserved, claim, sold, returned, canceled, parcel, dispatch, events,
                     checkout, excused>>
  BY DEF ReadShelves, Stand, stock, order
<1>2. handler[h].event \in events /\ handler[h].line \in Lines /\ handler[h].line = handler[h].event.line
      /\ handler[h].window \in 1..Bought
  BY <1>1, HandlerIs, HandlerFields
<1>3. s \in Places \cup {NoPlace} /\ (s # NoPlace => sold # {})
  BY ShelfAssumption
<1> HIDE DEF s
<1>4. m \in Settling(events) /\ m.line = m.event.line /\ (m.soldAt # NoPlace => sold # {})
  BY <1>2, <1>3 DEF Settling
<1> HIDE DEF m
<1>5. todo' \subseteq events
  BY <1>1 DEF Typed, EventsOK
<1> QED
  BY <1>1, <1>4, <1>5, TypedHandler DEF HandlerOK

\* What a settlement writes into its handler, given the claim it left.
Target(window, c) == Max({0, window - Undeducted(c)})

Settled(m, c) ==
    [pc |-> IF c.status = "waiting" THEN "drain" ELSE "put",
     event |-> m.event, line |-> m.line, failed |-> FALSE,
     target |-> Target(m.window, c),
     shelf |-> IF c.status = "filled" THEN c.at ELSE m.soldAt,
     left |-> IF c.status = "waiting" THEN Places ELSE {}]

\* What a settlement asks to give back, for each status of the claim.
LEMMA TargetIs ==
    ASSUME NEW l, NEW c, ClaimOK(l, c), NEW window \in Units
    PROVE  /\ Target(window, c) \in Units
           /\ c.status = "none" => Target(window, c) = window
           /\ c.status \in {"waiting", "unplaced", "withdrawn"} => Target(window, c) = 0
           /\ c.status = "filled" => /\ Target(window, c) >= window - c.withdrawn
                                     /\ Target(window, c) > 0 => Target(window, c) = window - c.withdrawn
<1>1. window \in 0..Bought /\ c.withdrawn \in 0..Bought /\ Bought \in Nat
      /\ c.status \in {"none", "waiting", "unplaced", "filled", "withdrawn"}
  BY ShelfAssumption DEF ClaimOK, Units
<1>2. Undeducted(c) = IF c.status = "filled" THEN c.withdrawn ELSE IF c.status = "none" THEN 0 ELSE Bought
  BY DEF Undeducted
<1>3. Undeducted(c) \in 0..Bought
  BY <1>1, <1>2
<1>4. Target(window, c) = IF 0 >= window - Undeducted(c) THEN 0 ELSE window - Undeducted(c)
  BY <1>1, <1>3, MaxOfTwo DEF Target
<1> QED
  BY <1>1, <1>2, <1>3, <1>4 DEF Units

\* A settlement, step by step.
LEMMA SettleShape ==
    ASSUME Typed, NEW h \in Handlers, Settle(h)
    PROVE  LET m == handler[h]
               c == SettledClaim(m.line, m.window)
           IN /\ m.pc = "settle" /\ m.line \in Lines /\ m.line = m.event.line /\ m.event \in events
              /\ m.window \in 1..Bought /\ m.window \in Units
              /\ m.soldAt \in Places \cup {NoPlace} /\ (m.soldAt # NoPlace => sold # {})
              /\ handler' = [handler EXCEPT ![h] = Settled(m, c)]
              /\ claim' = [claim EXCEPT ![m.line] = c]
              /\ ClaimOK(m.line, c)
              /\ UNCHANGED <<stocked, reserved, sold, returned, canceled, parcel, dispatch, events, todo,
                             checkout, excused>>
<1> DEFINE m == handler[h]
           c == SettledClaim(m.line, m.window)
<1>1. m.pc = "settle"
  BY DEF Settle
<1>2. /\ m.line \in Lines /\ m.line = m.event.line /\ m.event \in events /\ m.window \in 1..Bought
      /\ m.soldAt \in Places \cup {NoPlace} /\ (m.soldAt # NoPlace => sold # {})
  BY <1>1, HandlerIs, HandlerFields
<1>3. m.window \in Units
  BY <1>2 DEF Units
<1>4. claim' = [claim EXCEPT ![m.line] = c] /\ stocked' = stocked /\ reserved' = reserved
  BY DEF Settle, SettleBackorder
<1>5. handler' = [handler EXCEPT ![h] = Settled(m, c)]
  BY DEF Settle, Stand, Settled, Target
<1>6. ClaimOK(m.line, c)
  BY <1>2, <1>3, SettledShape DEF Typed, ClaimsOK
<1>7. UNCHANGED <<sold, returned, canceled, parcel, dispatch, events, todo, checkout, excused>>
  BY DEF Settle, order
<1> QED
  BY <1>1, <1>2, <1>3, <1>4, <1>5, <1>6, <1>7

\* A settlement changes one claim, and makes none and removes none.
LEMMA SettledNone ==
    ASSUME NEW l \in Lines, ClaimsOK(claim), NEW window \in Units,
           claim' = [claim EXCEPT ![l] = SettledClaim(l, window)]
    PROVE  /\ ClaimsOK(claim') /\ SameNone(claim, claim')
           /\ \A m \in Lines : claim'[m] = IF m = l THEN SettledClaim(l, window) ELSE claim[m]
<1> DEFINE c == SettledClaim(l, window)
<1>1. /\ ClaimOK(l, c)
      /\ claim[l].status \notin {"waiting", "unplaced"} => c = claim[l]
      /\ claim[l].status \in {"waiting", "unplaced"} => c.status \in {"waiting", "unplaced", "withdrawn"}
  BY SettledShape DEF ClaimsOK
<1>2. ClaimsOK(claim') /\ \A m \in Lines : claim'[m] = IF m = l THEN c ELSE claim[m]
  BY <1>1, ClaimSet
<1> HIDE DEF c
<1>3. SameNone(claim, claim')
  BY <1>1, <1>2 DEF SameNone
<1> QED
  BY <1>2, <1>3 DEF c

\* Types: a delivery settles the claim of its line under the claim's lock.
LEMMA TypedSettle ==
    ASSUME Typed, NEW h \in Handlers, Settle(h)
    PROVE  Typed'
<1> DEFINE m == handler[h]
           c == SettledClaim(m.line, m.window)
           t == Settled(m, c)
<1>1. /\ m.pc = "settle" /\ m.line \in Lines /\ m.line = m.event.line /\ m.event \in events
      /\ m.window \in 1..Bought /\ m.window \in Units
      /\ m.soldAt \in Places \cup {NoPlace} /\ (m.soldAt # NoPlace => sold # {})
      /\ handler' = [handler EXCEPT ![h] = t]
      /\ claim' = [claim EXCEPT ![m.line] = c]
      /\ ClaimOK(m.line, c)
      /\ UNCHANGED <<stocked, reserved, sold, returned, canceled, parcel, dispatch, events, todo,
                     checkout, excused>>
  BY SettleShape
<1>2. ClaimsOK(claim') /\ SameNone(claim, claim')
  BY <1>1, SettledNone DEF Typed
<1>3. Target(m.window, c) \in Units
  BY <1>1, TargetIs
<1>4. c.status = "filled" => c.at \in Places
  BY <1>1 DEF ClaimOK
<1> HIDE DEF c
<1>5. 1 \in Places
  BY ShelfAssumption
<1>6. t.pc \in {"drain", "put"} /\ t.left \in SUBSET Places /\ t.shelf \in Places \cup {NoPlace}
      /\ (t.pc = "drain" => t.left # {} /\ ~t.failed) /\ t.line = t.event.line
  BY <1>1, <1>4, <1>5 DEF Settled
<1>7. t \in Putting(events)
  BY <1>1, <1>3, <1>6 DEF Putting, Settled
<1> HIDE DEF t
<1>8. HandlerOK(t, events, canceled, sold)
  BY <1>6, <1>7 DEF HandlerOK
<1>9. HandlersOK(handler', events, canceled, sold)
  BY <1>1, <1>8, HandlerSet DEF Typed
<1>10. todo' \subseteq events
  BY <1>1 DEF Typed, EventsOK
<1> QED
  BY <1>1, <1>2, <1>9, <1>10, TypedStock DEF Typed

\* A handler that is draining goes on, or goes to put back.
LEMMA PuttingMoves ==
    ASSUME NEW ev, NEW m \in Putting(ev), NEW left \in SUBSET Places
    PROVE  /\ [m EXCEPT !.left = left] \in Putting(ev)
           /\ [m EXCEPT !.pc = "put", !.left = {}] \in Putting(ev)
           /\ [m EXCEPT !.pc = "put", !.left = {}, !.failed = TRUE] \in Putting(ev)
BY DEF Putting

\* Where a drain step leaves its handler
Drained(m, left, over) ==
    IF over THEN [m EXCEPT !.pc = "put", !.left = {}] ELSE [m EXCEPT !.left = left]

\* What serving the queue from one warehouse does to a delivery.
LEMMA DrainSteps ==
    ASSUME Typed, NEW h \in Handlers, Drain(h)
    PROVE  LET m == handler[h]
               p == Min(m.left)
               left == m.left \ {p}
           IN /\ m.pc = "drain" /\ m \in Putting(events) /\ m.line \in Lines /\ m.line = m.event.line
              /\ m.event \in events /\ ~m.failed
              /\ p \in m.left /\ p \in Places /\ left \in SUBSET Places
              /\ WritesAt(p) /\ LeavesTooLittle(p)
              /\ handler' = [handler EXCEPT ![h] =
                     Drained(m, left, left = {} \/ claim'[m.line].status # "waiting")]
              /\ UNCHANGED <<sold, returned, canceled, parcel, dispatch, events, todo, checkout, excused>>
<1> DEFINE m == handler[h]
           p == Min(m.left)
           left == m.left \ {p}
           over == left = {} \/ claim'[m.line].status # "waiting"
<1>1. m.pc = "drain"
  BY DEF Drain
<1>2. /\ m \in Putting(events) /\ m.line \in Lines /\ m.line = m.event.line /\ m.event \in events
      /\ ~m.failed /\ m.left # {} /\ m.left \in SUBSET Places
  BY <1>1, HandlerIs, HandlerFields
<1>3. m.left \in SUBSET Nat
  BY <1>2, ShelfAssumption
<1>4. p \in m.left
  BY <1>2, <1>3, MinIsIn
<1>5. p \in Places /\ left \in SUBSET Places
  BY <1>2, <1>4
<1>6. DrainAt(p)
  BY DEF Drain
<1>7. WritesAt(p) /\ LeavesTooLittle(p)
  BY <1>5, <1>6, DrainShape
<1>8. handler' = IF over THEN [handler EXCEPT ![h].pc = "put", ![h].left = {}]
                 ELSE [handler EXCEPT ![h].left = left]
  BY DEF Drain
<1>9. handler' = [handler EXCEPT ![h] = Drained(m, left, over)]
  <2>1. DOMAIN handler = Handlers
    BY DEF Typed, HandlersOK
  <2>2. CASE over
    BY <1>8, <2>1, <2>2 DEF Drained
  <2>3. CASE ~over
    BY <1>8, <2>1, <2>3 DEF Drained
  <2> QED
    BY <2>2, <2>3
<1>10. UNCHANGED <<sold, returned, canceled, parcel, dispatch, events, todo, checkout, excused>>
  BY DEF Drain, order
<1> QED
  BY <1>1, <1>2, <1>4, <1>5, <1>7, <1>9, <1>10

\* A delivery that served one warehouse goes on to the next or to giving back.
LEMMA DrainedFields ==
    ASSUME NEW ev, NEW m \in Putting(ev), m.pc = "drain", ~m.failed, NEW left \in SUBSET Places,
           NEW over \in BOOLEAN
    PROVE  LET t == Drained(m, left, over)
           IN /\ t \in Putting(ev)
              /\ t.event = m.event /\ t.line = m.line /\ t.target = m.target /\ t.shelf = m.shelf
              /\ t.failed = m.failed
              /\ over => t.pc = "put"
              /\ ~over => t.pc = "drain" /\ t.left = left
BY DEF Drained, Putting

\* Types: a delivery lets the queue have what one warehouse has.
LEMMA TypedDrain ==
    ASSUME Typed, NEW h \in Handlers, Drain(h)
    PROVE  Typed'
<1> DEFINE m == handler[h]
           p == Min(m.left)
           left == m.left \ {p}
           over == left = {} \/ claim'[m.line].status # "waiting"
           t == Drained(m, left, over)
<1>1. /\ m.pc = "drain" /\ m \in Putting(events) /\ m.line = m.event.line /\ ~m.failed
      /\ p \in Places /\ left \in SUBSET Places /\ WritesAt(p)
      /\ handler' = [handler EXCEPT ![h] = t]
      /\ UNCHANGED <<sold, returned, canceled, parcel, dispatch, events, todo, checkout, excused>>
  BY DrainSteps
<1>2. over \in BOOLEAN /\ (~over => left # {})
  OBVIOUS
<1> HIDE DEF over, left, p
<1>3. /\ t \in Putting(events) /\ t.event = m.event /\ t.line = m.line /\ t.failed = m.failed
      /\ over => t.pc = "put"
      /\ ~over => t.pc = "drain" /\ t.left = left
  BY <1>1, <1>2, DrainedFields
<1> HIDE DEF t
<1>4. HandlerOK(t, events, canceled, sold)
  BY <1>1, <1>2, <1>3 DEF HandlerOK
<1>5. HandlersOK(handler', events, canceled, sold)
  BY <1>1, <1>4, HandlerSet DEF Typed
<1>6. todo' \subseteq events /\ ReturnsOK(returned', canceled) /\ excused' \subseteq Lines
  BY <1>1 DEF Typed, EventsOK
<1> QED
  BY <1>1, <1>5, <1>6, TypedWrite

\* What a delivery does whose queue could not be served.
LEMMA DrainFailsShape ==
    ASSUME Typed, NEW h \in Handlers, DrainFails(h)
    PROVE  LET m == handler[h]
               t == [m EXCEPT !.pc = "put", !.left = {}, !.failed = TRUE]
           IN /\ m.pc = "drain" /\ m.line \in Lines /\ m.line = m.event.line /\ m.event \in events
              /\ t \in Putting(events) /\ t.pc = "put" /\ t.failed /\ t.event = m.event
              /\ t.line = m.line /\ t.target = m.target /\ t.shelf = m.shelf
              /\ handler' = [handler EXCEPT ![h] = t]
              /\ UNCHANGED <<stocked, reserved, claim, sold, returned, canceled, parcel, dispatch, events,
                             todo, checkout, excused>>
<1> DEFINE m == handler[h]
           t == [m EXCEPT !.pc = "put", !.left = {}, !.failed = TRUE]
<1>1. m.pc = "drain"
  BY DEF DrainFails
<1>2. m \in Putting(events) /\ m.line \in Lines /\ m.line = m.event.line /\ m.event \in events
  BY <1>1, HandlerIs, HandlerFields
<1>3. /\ t \in Putting(events) /\ t.pc = "put" /\ t.failed /\ t.event = m.event
      /\ t.line = m.line /\ t.target = m.target /\ t.shelf = m.shelf
  BY <1>2 DEF Putting
<1>4. handler' = [handler EXCEPT ![h] = t]
  <2>1. DOMAIN handler = Handlers
    BY DEF Typed, HandlersOK
  <2> QED
    BY <2>1 DEF DrainFails
<1>5. UNCHANGED <<stocked, reserved, claim, sold, returned, canceled, parcel, dispatch, events, todo,
                  checkout, excused>>
  BY DEF DrainFails, stock, order
<1> QED
  BY <1>1, <1>2, <1>3, <1>4, <1>5

\* Types: a delivery goes on with a queue it could not serve, and asks to be called again.
LEMMA TypedDrainFails ==
    ASSUME Typed, NEW h \in Handlers, DrainFails(h)
    PROVE  Typed'
<1> DEFINE m == handler[h]
           t == [m EXCEPT !.pc = "put", !.left = {}, !.failed = TRUE]
<1>1. /\ m.line = m.event.line /\ t \in Putting(events) /\ t.pc = "put" /\ t.event = m.event
      /\ t.line = m.line /\ handler' = [handler EXCEPT ![h] = t]
      /\ UNCHANGED <<stocked, reserved, claim, sold, returned, canceled, parcel, dispatch, events,
                     todo, checkout, excused>>
  BY DrainFailsShape
<1> HIDE DEF t
<1>2. HandlerOK(t, events, canceled, sold)
  BY <1>1 DEF HandlerOK
<1>3. todo' \subseteq events
  BY <1>1 DEF Typed, EventsOK
<1> QED
  BY <1>1, <1>2, <1>3, TypedHandler

\* What a delivery gives back tops the line up to its target, and no further.
LEMMA QuantityIs ==
    ASSUME Typed, NEW l \in Lines, NEW target \in Units
    PROVE  /\ Quantity(l, target) \in Units
           /\ returned[l].units \in Units /\ returned[l].units \in Int
           /\ returned[l].units + Quantity(l, target)
                = IF returned[l].units >= target THEN returned[l].units ELSE target
           /\ Quantity(l, target) = 0 <=> returned[l].units >= target
<1>1. returned[l].units \in 0..Bought /\ target \in 0..Bought /\ Bought \in Nat
  BY ShelfAssumption DEF Typed, ReturnsOK, Units
<1>2. Quantity(l, target) = IF 0 >= target - returned[l].units THEN 0 ELSE target - returned[l].units
  BY <1>1, MaxOfTwo DEF Quantity
<1> QED
  BY <1>1, <1>2 DEF Units

\* A put-back is skipped, or it brings the line's returned units up to the target.
Skips(h) ==
    /\ \/ handler[h].target = 0 \/ handler[h].shelf = NoPlace
       \/ returned[handler[h].line].units >= handler[h].target
    /\ UNCHANGED <<stocked, reserved, claim, returned>>
    /\ excused' = excused \cup {m \in {handler[h].line} \cap Reserved : handler[h].shelf = NoPlace}

Credits(h) ==
    LET l == handler[h].line
        p == handler[h].shelf
    IN /\ handler[h].target > 0 /\ p \in Places /\ returned[l].units < handler[h].target
       /\ WritesAt(p)
       /\ LeavesTooLittle(p) \/ stocked'[p] - reserved'[p] <= Available(p)
       /\ returned' = [returned EXCEPT ![l] = [units |-> handler[h].target, at |-> returned[l].at \cup {p}]]
       /\ excused' = excused

\* The last step of a delivery gives back or passes, and settles its event.
LEMMA PutBackShape ==
    ASSUME Typed, NEW h \in Handlers, PutBack(h)
    PROVE  LET m == handler[h]
           IN /\ m.pc = "put" /\ m.line \in Lines /\ m.line = m.event.line /\ m.event \in events
              /\ m.target \in Units /\ m.shelf \in Places \cup {NoPlace} /\ m.failed \in BOOLEAN
              /\ handler' = [handler EXCEPT ![h] = Idle]
              /\ todo' = IF m.failed THEN todo \cup {m.event} ELSE todo \ {m.event}
              /\ Skips(h) \/ Credits(h)
              /\ UNCHANGED <<sold, canceled, parcel, dispatch, events, checkout>>
<1> DEFINE m == handler[h]
           l == m.line
           p == m.shelf
           q == Quantity(l, m.target)
<1>1. m.pc = "put"
  BY DEF PutBack
<1>2. /\ m.line \in Lines /\ m.line = m.event.line /\ m.event \in events
      /\ m.target \in Units /\ m.shelf \in Places \cup {NoPlace} /\ m.failed \in BOOLEAN
  BY <1>1, HandlerIs, HandlerFields
<1>3. /\ handler' = [handler EXCEPT ![h] = Idle]
      /\ todo' = IF m.failed THEN todo \cup {m.event} ELSE todo \ {m.event}
      /\ UNCHANGED <<sold, canceled, parcel, dispatch, events, checkout>>
  BY DEF PutBack, Handled, Stand, order
<1>4. /\ q \in Units /\ returned[l].units \in Units /\ returned[l].units \in Int
      /\ returned[l].units + q = IF returned[l].units >= m.target THEN returned[l].units ELSE m.target
      /\ q = 0 <=> returned[l].units >= m.target
  BY <1>2, QuantityIs
<1>5. CASE m.target = 0 \/ p = NoPlace \/ q = 0
  <2>1. UNCHANGED <<stocked, reserved, claim, returned>>
        /\ excused' = excused \cup {n \in {l} \cap Reserved : p = NoPlace}
    BY <1>5 DEF PutBack
  <2>2. Skips(h)
    BY <1>4, <1>5, <2>1 DEF Skips
  <2> QED
    BY <1>1, <1>2, <1>3, <2>2
<1>6. CASE ~(m.target = 0 \/ p = NoPlace \/ q = 0)
  <2>1. /\ WriteQuantities(p, stocked[p] + q, reserved[p]) /\ excused' = excused
        /\ returned' = [returned EXCEPT ![l] = [units |-> returned[l].units + q, at |-> returned[l].at \cup {p}]]
    BY <1>6 DEF PutBack
  <2>2. p \in Places /\ m.target \in 0..Bought /\ q \in 0..Bought
    BY <1>2, <1>4, <1>6 DEF Units
  <2>3. stocked[p] + q \in Int /\ reserved[p] \in Int
    BY <2>2 DEF Typed, StockOK
  <2>4. WritesAt(p) /\ (LeavesTooLittle(p) \/ stocked'[p] - reserved'[p] <= Available(p))
    BY <2>1, <2>2, <2>3, WriteShape
  <2>5. returned[l].units < m.target /\ m.target > 0 /\ returned[l].units + q = m.target
    BY <1>4, <1>6, <2>2
  <2>6. Credits(h)
    BY <2>1, <2>2, <2>4, <2>5 DEF Credits
  <2> QED
    BY <1>1, <1>2, <1>3, <2>6
<1> QED
  BY <1>5, <1>6

\* Types: a delivery gives units back, unless the line has them already.
LEMMA TypedPutBack ==
    ASSUME Typed, NEW h \in Handlers, PutBack(h)
    PROVE  Typed'
<1> DEFINE m == handler[h]
<1>1. /\ m.line \in Lines /\ m.event \in events /\ m.target \in Units /\ m.failed \in BOOLEAN
      /\ handler' = [handler EXCEPT ![h] = Idle]
      /\ todo' = IF m.failed THEN todo \cup {m.event} ELSE todo \ {m.event}
      /\ Skips(h) \/ Credits(h)
      /\ UNCHANGED <<sold, canceled, parcel, dispatch, events, checkout>>
  BY PutBackShape
<1>2. HandlersOK(handler', events, canceled, sold)
  BY <1>1, HandlerSet DEF Typed, HandlerOK
<1>3. todo' \subseteq events
  BY <1>1 DEF Typed, EventsOK
<1>4. excused \subseteq Lines /\ ReturnsOK(returned, canceled)
  BY DEF Typed
<1>5. CASE Skips(h)
  <2>1. UNCHANGED <<stocked, reserved, claim, returned>> /\ excused \subseteq excused' /\ excused' \subseteq Lines
    BY <1>1, <1>4, <1>5 DEF Skips
  <2> QED
    BY <1>1, <1>2, <1>3, <1>4, <2>1, SameNoneSame, TypedStock DEF Typed
<1>6. CASE Credits(h)
  <2>1. /\ m.shelf \in Places /\ WritesAt(m.shelf) /\ excused' = excused
        /\ returned' = [returned EXCEPT ![m.line] = [units |-> m.target, at |-> returned[m.line].at \cup {m.shelf}]]
    BY <1>6 DEF Credits
  <2>2. ReturnsOK(returned', canceled)
    BY <1>1, <1>4, <2>1 DEF ReturnsOK
  <2> QED
    BY <1>1, <1>2, <1>3, <1>4, <2>1, <2>2, TypedWrite
<1> QED
  BY <1>1, <1>5, <1>6

\* A delivery that fails leaves its event to be handled.
LEMMA DeliveryFailsShape ==
    ASSUME Typed, NEW h \in Handlers, DeliveryFails(h)
    PROVE  /\ handler[h].pc # "idle" /\ handler[h].event \in events
           /\ handler' = [handler EXCEPT ![h] = Idle] /\ todo' = todo \cup {handler[h].event}
           /\ UNCHANGED <<stocked, reserved, claim, sold, returned, canceled, parcel, dispatch, events,
                          checkout, excused>>
<1>1. handler[h] # Idle /\ handler' = [handler EXCEPT ![h] = Idle] /\ todo' = todo \cup {handler[h].event}
      /\ UNCHANGED <<stocked, reserved, claim, sold, returned, canceled, parcel, dispatch, events,
                     checkout, excused>>
  BY DEF DeliveryFails, Stand, stock, order
<1>2. handler[h].pc # "idle" /\ handler[h].event \in events
  BY <1>1, HandlerIs, HandlerFields
<1> QED
  BY <1>1, <1>2

\* Types: a delivery ends with an error and its event comes again.
LEMMA TypedDeliveryFails ==
    ASSUME Typed, NEW h \in Handlers, DeliveryFails(h)
    PROVE  Typed'
<1>1. /\ handler[h].event \in events
      /\ handler' = [handler EXCEPT ![h] = Idle] /\ todo' = todo \cup {handler[h].event}
      /\ UNCHANGED <<stocked, reserved, claim, sold, returned, canceled, parcel, dispatch, events,
                     checkout, excused>>
  BY DeliveryFailsShape
<1>2. todo' \subseteq events
  BY <1>1 DEF Typed, EventsOK
<1> QED
  BY <1>1, <1>2, TypedHandler DEF HandlerOK

\* The checkout.
Early == {"claim", "read", "count"}

\* Types: a step of the checkout.
LEMMA TypedCheckout ==
    ASSUME Typed, StockOK(stocked', reserved'), ClaimsOK(claim'), CheckoutOK(checkout', claim', canceled),
           ClaimedOK(claim', excused', checkout'), sold \subseteq sold', SoldOK(sold', checkout'),
           checkout'.pc \in Early => checkout.pc \in Early,
           excused \subseteq excused', excused' \subseteq Lines,
           UNCHANGED <<returned, canceled, parcel, dispatch, events, todo, handler>>
    PROVE  Typed'
<1>1. EarlyReturns(parcel, checkout', excused')
  BY DEF Typed, EarlyReturns, Early
<1>2. HandlersOK(handler, events, canceled, sold')
  BY HandlersKept, CanceledInt DEF Typed, EventsOK
<1> QED
  BY <1>1, <1>2 DEF Typed

\* The checkout is in order.
LEMMA CheckoutIs == ASSUME Typed PROVE CheckoutOK(checkout, claim, canceled)
BY DEF Typed

\* The checkout goes on to its reservations with nothing else in hand.
LEMMA ConfirmingOK ==
    ASSUME NEW cl, NEW cn
    PROVE  CheckoutOK(Confirming, cl, cn) /\ Confirming.pc \in {"confirm", "done"}
<1>1. CASE Reserved = {}
  BY <1>1 DEF Confirming, CheckoutOK
<1>2. CASE Reserved # {}
  BY <1>2 DEF Confirming, CheckoutOK
<1> QED
  BY <1>1, <1>2

\* The checkout goes on to its next claim, or to its reservations.
LEMMA NextLineOK ==
    ASSUME NEW left \in SUBSET Backordered, checkout.window \in Windows, NEW cl, NEW cn
    PROVE  /\ CheckoutOK(NextLine(left), cl, cn)
           /\ left = {} => NextLine(left).pc \in {"confirm", "done"}
           /\ left # {} => /\ NextLine(left).pc = "settle" /\ NextLine(left).left = left
                           /\ NextLine(left).window = checkout.window
<1>1. CASE left = {}
  BY <1>1, ConfirmingOK DEF NextLine
<1>2. CASE left # {}
  BY <1>2 DEF NextLine, CheckoutOK
<1> QED
  BY <1>1, <1>2

\* The first of some lines is one of them.
LEMMA FirstLine ==
    ASSUME NEW S \in SUBSET Lines, S # {}
    PROVE  Min(S) \in S /\ Min(S) \in Lines
<1>1. S \in SUBSET Nat
  BY ShelfAssumption
<1> QED
  BY <1>1, MinIsIn

\* Nothing was sold before the checkout confirms.
LEMMA UnsoldYet ==
    ASSUME Typed, checkout.pc \notin {"confirm", "done"}
    PROVE  sold = {} /\ \A co : SoldOK(sold, co)
BY DEF Typed, SoldOK

\* The claim the checkout records: of the ranked warehouses, or of none
Recorded == [status |-> checkout.as, withdrawn |-> 0, at |-> NoPlace]

\* What recording a claim does.
LEMMA ClaimBackorderShape ==
    ASSUME Typed, ClaimBackorder
    PROVE  LET l == Min(checkout.left)
           IN /\ checkout.pc = "claim" /\ l \in Backordered /\ l \in Lines /\ l \in checkout.left
              /\ claim[l] = NoClaim /\ ClaimsOK(claim')
              /\ \A m \in Lines : claim'[m] = IF m = l THEN Recorded ELSE claim[m]
              /\ checkout.as \in {"waiting", "unplaced"}
              /\ checkout \in [pc : {"claim"}, left : SUBSET Backordered, as : {"waiting", "unplaced"}]
              /\ \/ checkout' = [checkout EXCEPT !.left = checkout.left \ {l}] /\ checkout.left \ {l} # {}
                 \/ checkout' = [pc |-> "read"] /\ checkout.left \ {l} = {}
              /\ UNCHANGED <<stocked, reserved, sold, returned, canceled, parcel, dispatch, events, todo,
                             handler, excused>>
<1> DEFINE l == Min(checkout.left)
<1>1. checkout.pc = "claim" /\ claim' = [claim EXCEPT ![l].status = checkout.as]
      /\ checkout' = AfterClaims(checkout.left \ {l}, claim')
      /\ UNCHANGED <<stocked, reserved, sold, returned, canceled, parcel, dispatch, events, todo,
                     handler, excused>>
  BY DEF ClaimBackorder, order
<1>2. /\ checkout.left \in SUBSET Backordered /\ checkout.left # {} /\ \A m \in checkout.left : claim[m].status = "none"
      /\ checkout \in [pc : {"claim"}, left : SUBSET Backordered, as : {"waiting", "unplaced"}]
  BY <1>1, CheckoutIs, CheckoutFields
<1>a. checkout.as \in {"waiting", "unplaced"}
  BY <1>2
<1>3. l \in checkout.left /\ l \in Lines /\ l \in Backordered
  BY <1>2, FirstLine DEF Backordered
<1> HIDE DEF l
<1>4. claim[l] = NoClaim /\ ClaimsOK(claim)
  BY <1>2, <1>3 DEF Typed, ClaimsOK, ClaimOK
<1>w. [NoClaim EXCEPT !.status = checkout.as] = Recorded
  BY DEF Recorded, NoClaim
<1>v. claim' = [claim EXCEPT ![l] = [claim[l] EXCEPT !.status = checkout.as]]
  BY <1>1 DEF ClaimsOK
<1>5. claim' = [claim EXCEPT ![l] = Recorded]
  BY <1>4, <1>v, <1>w
<1>6. ClaimOK(l, Recorded)
  BY <1>3, <1>a, ShelfAssumption DEF ClaimOK, Recorded, Units, Backordered
<1>7. ClaimsOK(claim') /\ \A m \in Lines : claim'[m] = IF m = l THEN Recorded ELSE claim[m]
  BY <1>3, <1>4, <1>5, <1>6, ClaimSet
<1>8. claim'[l].status # "none"
  BY <1>3, <1>7, <1>a DEF Recorded
<1>9. \/ checkout' = [checkout EXCEPT !.left = checkout.left \ {l}] /\ checkout.left \ {l} # {}
      \/ checkout' = [pc |-> "read"] /\ checkout.left \ {l} = {}
  BY <1>1, <1>3, <1>8 DEF AfterClaims
<1> QED
  BY <1>1, <1>2, <1>3, <1>4, <1>7, <1>9, <1>a DEF l

\* Types: the checkout records the claim of its next line.
LEMMA TypedClaimBackorder ==
    ASSUME Typed, ClaimBackorder
    PROVE  Typed'
<1>1. PICK l : l = Min(checkout.left)
  OBVIOUS
<1>2. /\ checkout.pc = "claim" /\ l \in Backordered /\ l \in Lines /\ l \in checkout.left
      /\ ClaimsOK(claim')
      /\ \A m \in Lines : claim'[m] = IF m = l THEN Recorded ELSE claim[m]
      /\ checkout.as \in {"waiting", "unplaced"}
      /\ checkout \in [pc : {"claim"}, left : SUBSET Backordered, as : {"waiting", "unplaced"}]
      /\ \/ checkout' = [checkout EXCEPT !.left = checkout.left \ {l}] /\ checkout.left \ {l} # {}
         \/ checkout' = [pc |-> "read"] /\ checkout.left \ {l} = {}
      /\ UNCHANGED <<stocked, reserved, sold, returned, canceled, parcel, dispatch, events, todo,
                     handler, excused>>
  BY <1>1, ClaimBackorderShape
<1>3. checkout.left \in SUBSET Backordered /\ \A m \in checkout.left : claim[m].status = "none"
  BY <1>2, CheckoutIs, CheckoutFields
<1>4. CheckoutOK(checkout', claim', canceled)
  <2>1. CASE checkout' = [checkout EXCEPT !.left = checkout.left \ {l}] /\ checkout.left \ {l} # {}
    <3>1. \A m \in checkout.left \ {l} : claim'[m].status = "none"
      BY <1>2, <1>3 DEF Backordered
    <3> QED
      BY <1>2, <1>3, <2>1, <3>1 DEF CheckoutOK
  <2>2. CASE checkout' = [pc |-> "read"]
    <3>1. claim'[l].status # "none"
      BY <1>2 DEF Recorded
    <3> QED
      BY <1>2, <2>2, <3>1 DEF CheckoutOK
  <2> QED
    BY <1>2, <2>1, <2>2
<1>5. ClaimedOK(claim', excused, checkout')
  <2> SUFFICES ASSUME NEW m \in Backordered \ excused, claim'[m].status = "none"
               PROVE  checkout'.pc = "claim" /\ m \in checkout'.left
    BY DEF ClaimedOK
  <2>1. m # l /\ claim[m].status = "none"
    BY <1>2 DEF Backordered, Recorded
  <2>2. m \in checkout.left
    BY <2>1 DEF Typed, ClaimedOK
  <2> QED
    BY <1>2, <2>1, <2>2
<1>6. sold = {} /\ SoldOK(sold, checkout')
  BY <1>2, UnsoldYet
<1> QED
  BY <1>2, <1>4, <1>5, <1>6, TypedCheckout DEF Typed, Early

\* What the checkout that cannot rank the warehouses leaves.
LEMMA RankingFailsShape ==
    ASSUME Typed, RankingFails
    PROVE  /\ checkout \in [pc : {"claim"}, left : SUBSET Backordered, as : {"waiting", "unplaced"}]
           /\ checkout' = [checkout EXCEPT !.as = "unplaced"]
           /\ checkout'.pc = "claim" /\ checkout.pc = "claim" /\ checkout'.left = checkout.left
           /\ checkout.left # {} /\ \A m \in checkout.left : claim[m].status = "none"
           /\ UNCHANGED <<stocked, reserved, claim, sold, returned, canceled, parcel, dispatch, events,
                          todo, handler, excused>>
<1>1. /\ checkout.pc = "claim" /\ checkout' = [checkout EXCEPT !.as = "unplaced"]
      /\ UNCHANGED <<stocked, reserved, claim, sold, returned, canceled, parcel, dispatch, events,
                     todo, handler, excused>>
  BY DEF RankingFails, stock, order
<1>2. /\ checkout \in [pc : {"claim"}, left : SUBSET Backordered, as : {"waiting", "unplaced"}]
      /\ checkout.left # {} /\ \A m \in checkout.left : claim[m].status = "none"
  BY <1>1, CheckoutIs, CheckoutFields
<1> QED
  BY <1>1, <1>2

\* Types: the checkout that cannot rank the warehouses goes on with claims of none.
LEMMA TypedRankingFails ==
    ASSUME Typed, RankingFails
    PROVE  Typed'
<1>1. /\ checkout \in [pc : {"claim"}, left : SUBSET Backordered, as : {"waiting", "unplaced"}]
      /\ checkout' = [checkout EXCEPT !.as = "unplaced"]
      /\ checkout'.pc = "claim" /\ checkout.pc = "claim" /\ checkout'.left = checkout.left
      /\ checkout.left # {} /\ \A m \in checkout.left : claim[m].status = "none"
      /\ UNCHANGED <<stocked, reserved, claim, sold, returned, canceled, parcel, dispatch, events,
                     todo, handler, excused>>
  BY RankingFailsShape
<1>2. CheckoutOK(checkout', claim', canceled)
  BY <1>1 DEF CheckoutOK
<1>3. ClaimedOK(claim', excused', checkout')
  BY <1>1 DEF Typed, ClaimedOK
<1>4. sold = {} /\ SoldOK(sold, checkout')
  BY <1>1, UnsoldYet
<1>5. StockOK(stocked', reserved') /\ ClaimsOK(claim') /\ excused \subseteq excused' /\ excused' \subseteq Lines
  BY <1>1 DEF Typed
<1> QED
  BY <1>1, <1>2, <1>3, <1>4, <1>5, TypedCheckout DEF Early

\* What a claim that could not be recorded leaves.
LEMMA ClaimFailsShape ==
    ASSUME Typed, ClaimFails
    PROVE  LET l == Min(checkout.left)
           IN /\ checkout.pc = "claim" /\ l \in Backordered /\ l \in Lines /\ l \in checkout.left
              /\ excused' = excused \cup {l}
              /\ \/ /\ checkout' = [checkout EXCEPT !.left = checkout.left \ {l}]
                    /\ checkout'.pc = "claim" /\ checkout.left \ {l} # {}
                 \/ /\ checkout' = [pc |-> "read"] /\ checkout.left \ {l} = {}
                    /\ \E m \in Lines : claim[m].status # "none"
                 \/ /\ checkout' = Confirming /\ checkout.left \ {l} = {}
                    /\ \A m \in Lines : claim[m].status = "none"
              /\ UNCHANGED <<stocked, reserved, claim, sold, returned, canceled, parcel, dispatch, events,
                             todo, handler>>
<1> DEFINE l == Min(checkout.left)
<1>1. checkout.pc = "claim" /\ excused' = excused \cup {l}
      /\ checkout' = AfterClaims(checkout.left \ {l}, claim)
      /\ UNCHANGED <<stocked, reserved, claim, sold, returned, canceled, parcel, dispatch, events, todo,
                     handler>>
  BY DEF ClaimFails, order, stock
<1>2. /\ checkout.left \in SUBSET Backordered /\ checkout.left # {}
      /\ checkout \in [pc : {"claim"}, left : SUBSET Backordered, as : {"waiting", "unplaced"}]
  BY <1>1, CheckoutIs, CheckoutFields
<1>3. l \in checkout.left /\ l \in Lines /\ l \in Backordered
  BY <1>2, FirstLine DEF Backordered
<1>4. LET co == [checkout EXCEPT !.left = checkout.left \ {l}] IN co.pc = "claim"
  BY <1>2
<1> QED
  BY <1>1, <1>3, <1>4 DEF AfterClaims

\* Types: a claim that could not be recorded excuses its line.
LEMMA TypedClaimFails ==
    ASSUME Typed, ClaimFails
    PROVE  Typed'
<1>1. PICK l : l = Min(checkout.left)
  OBVIOUS
<1>2. /\ checkout.pc = "claim" /\ l \in Backordered /\ l \in Lines /\ l \in checkout.left
      /\ excused' = excused \cup {l}
      /\ \/ checkout' = [checkout EXCEPT !.left = checkout.left \ {l}] /\ checkout.left \ {l} # {}
         \/ /\ checkout' = [pc |-> "read"] /\ checkout.left \ {l} = {}
            /\ \E m \in Lines : claim[m].status # "none"
         \/ checkout' = Confirming /\ checkout.left \ {l} = {}
      /\ UNCHANGED <<stocked, reserved, claim, sold, returned, canceled, parcel, dispatch, events, todo,
                     handler>>
  BY <1>1, ClaimFailsShape
<1>3. /\ checkout.left \in SUBSET Backordered /\ \A m \in checkout.left : claim[m].status = "none"
      /\ checkout \in [pc : {"claim"}, left : SUBSET Backordered, as : {"waiting", "unplaced"}]
  BY <1>2, CheckoutIs, CheckoutFields
<1>4. CheckoutOK(checkout', claim', canceled) /\ (checkout.left \ {l} # {} => checkout'.pc = "claim"
         /\ checkout'.left = checkout.left \ {l})
  <2>1. CASE checkout' = [checkout EXCEPT !.left = checkout.left \ {l}] /\ checkout.left \ {l} # {}
    BY <1>2, <1>3, <2>1 DEF CheckoutOK
  <2>2. CASE checkout' = [pc |-> "read"] /\ checkout.left \ {l} = {} /\ \E m \in Lines : claim[m].status # "none"
    BY <1>2, <2>2 DEF CheckoutOK
  <2>3. CASE checkout' = Confirming /\ checkout.left \ {l} = {}
    BY <2>3, ConfirmingOK
  <2> QED
    BY <1>2, <2>1, <2>2, <2>3
<1>5. ClaimedOK(claim', excused', checkout')
  <2> SUFFICES ASSUME NEW m \in Backordered \ excused', claim'[m].status = "none"
               PROVE  checkout'.pc = "claim" /\ m \in checkout'.left
    BY DEF ClaimedOK
  <2>1. m # l /\ claim[m].status = "none" /\ m \notin excused
    BY <1>2
  <2>2. m \in checkout.left
    BY <2>1 DEF Typed, ClaimedOK
  <2> QED
    BY <1>4, <2>1, <2>2
<1>6. sold = {} /\ SoldOK(sold, checkout')
  BY <1>2, UnsoldYet
<1>7. excused \subseteq excused' /\ excused' \subseteq Lines
  BY <1>2 DEF Typed
<1> QED
  BY <1>2, <1>4, <1>5, <1>6, <1>7, TypedCheckout DEF Typed, Early

\* Types: the checkout has read what was written off meanwhile.
LEMMA TypedReadWriteOffs ==
    ASSUME Typed, ReadWriteOffs
    PROVE  Typed'
<1>1. checkout.pc = "read" /\ checkout' = [pc |-> "count", canceled |-> canceled]
      /\ UNCHANGED <<stocked, reserved, claim, sold, returned, canceled, parcel, dispatch, events, todo,
                     handler, excused>>
  BY DEF ReadWriteOffs, stock, order
<1>2. \E l \in Lines : claim[l].status # "none"
  BY <1>1, CheckoutIs, CheckoutFields
<1>3. canceled \in Windows /\ \A l \in Lines : canceled[l] <= canceled[l]
  BY CanceledInt DEF Typed, ReturnsOK, Windows
<1>4. CheckoutOK(checkout', claim', canceled)
  BY <1>1, <1>2, <1>3 DEF CheckoutOK
<1>5. ClaimedOK(claim', excused', checkout')
  BY <1>1 DEF ClaimedOK, Typed
<1>6. sold = {} /\ SoldOK(sold, checkout')
  BY <1>1, UnsoldYet
<1> QED
  BY <1>1, <1>4, <1>5, <1>6, TypedCheckout DEF Typed, Early

\* Sums over any set of parcels.
Part(S) == [x \in Parcels |-> IF x \in S THEN parcel[x].units ELSE 0]

\* The units of some parcels, as a sum over all of them.
LEMMA PartIs ==
    ASSUME AllParcelsOK(parcel), NEW S
    PROVE  /\ Numbers(Part(S), Parcels) /\ \A x \in Parcels : Part(S)[x] \in Nat
           /\ Sum(S) = SumFunctionOnSet(Part(S), Parcels) /\ Sum(S) \in Nat
<1>1. \A x \in Parcels : parcel[x].units \in Nat
  BY ShelfAssumption DEF AllParcelsOK, ParcelOK, Units
<1>2. \A x \in Parcels : Part(S)[x] \in Nat
  BY <1>1 DEF Part
<1>3. Numbers(Part(S), Parcels)
  BY <1>2 DEF Numbers
<1>4. Sum(S) = SumFunctionOnSet(Part(S), Parcels)
  BY DEF Sum, SumFunction, Part
<1> DEFINE f == Part(S)
           z == [x \in Parcels |-> 0]
<1>5. Numbers(z, Parcels) /\ (\A x \in Parcels : z[x] <= f[x]) /\ \A x \in Parcels : z[x] = 0
  BY <1>2 DEF Numbers
<1> HIDE DEF f, z
<1>6. SumFunctionOnSet(z, Parcels) <= SumFunctionOnSet(f, Parcels) /\ SumFunctionOnSet(z, Parcels) = 0
      /\ SumFunctionOnSet(f, Parcels) \in Int
  BY <1>3, <1>5, SumOrdered, SumZero, SumInt, ShelfAssumption DEF f
<1> QED
  BY <1>2, <1>3, <1>4, <1>6 DEF f

\* Parcels that are in two sets together.
LEMMA PartsCover ==
    ASSUME AllParcelsOK(parcel), NEW A, NEW B, NEW C, C \subseteq A \cup B
    PROVE  Sum(C) <= Sum(A) + Sum(B)
<1> DEFINE a == Part(A)
           b == Part(B)
           c == Part(C)
           g == [x \in Parcels |-> a[x] + b[x]]
<1>1. /\ Numbers(a, Parcels) /\ Numbers(b, Parcels) /\ Numbers(c, Parcels)
      /\ \A x \in Parcels : a[x] \in Nat /\ b[x] \in Nat /\ c[x] \in Nat
  BY PartIs
<1>2. Numbers(g, Parcels)
  BY <1>1 DEF Numbers
<1>3. \A x \in Parcels : c[x] <= g[x]
  <2> SUFFICES ASSUME NEW x \in Parcels PROVE c[x] <= g[x]
    OBVIOUS
  <2>1. /\ x \in A => a[x] = parcel[x].units
        /\ x \in B => b[x] = parcel[x].units
        /\ c[x] = IF x \in C THEN parcel[x].units ELSE 0
    BY DEF Part
  <2>2. g[x] = a[x] + b[x] /\ a[x] \in Nat /\ b[x] \in Nat /\ c[x] \in Nat
    BY <1>1
  <2> HIDE DEF a, b, c, g
  <2> QED
    BY <2>1, <2>2
<1>4. \A x \in Parcels : g[x] = a[x] + b[x]
  OBVIOUS
<1>5. Sum(A) = SumFunctionOnSet(a, Parcels) /\ Sum(B) = SumFunctionOnSet(b, Parcels)
      /\ Sum(C) = SumFunctionOnSet(c, Parcels)
  BY PartIs
<1> HIDE DEF a, b, c, g
<1>6. SumFunctionOnSet(g, Parcels) = SumFunctionOnSet(a, Parcels) + SumFunctionOnSet(b, Parcels)
  BY <1>1, <1>4, SumPlus, ShelfAssumption
<1>7. SumFunctionOnSet(c, Parcels) <= SumFunctionOnSet(g, Parcels)
  BY <1>1, <1>2, <1>3, SumOrdered, ShelfAssumption
<1> QED
  BY <1>5, <1>6, <1>7

\* Fewer parcels hold no more.
LEMMA PartOrdered ==
    ASSUME AllParcelsOK(parcel), NEW A, NEW C, C \subseteq A
    PROVE  Sum(C) <= Sum(A)
<1>1. Sum(C) <= Sum(A) + Sum({})
  BY PartsCover
<1>2. Sum({}) = 0
  <2>1. \A x \in Parcels : Part({})[x] = 0
    BY DEF Part
  <2> QED
    BY <2>1, PartIs, SumZero, ShelfAssumption
<1>3. Sum(C) \in Nat /\ Sum(A) \in Nat
  BY PartIs
<1> QED
  BY <1>1, <1>2, <1>3

\* The checkout's count: a line that is not excused gets a window that fits what its
\* parcels hold and that is as wide as the write-offs it read and the parcels allow.
GoodWindow(l, w) ==
    /\ w <= checkout.canceled[l]
    /\ w > 0 => w + Committed(l) <= Bought
    /\ \A v \in Nat : v <= checkout.canceled[l] /\ v + Held(l) <= Bought => v <= w

\* What the checkout has after it counted the parcels: good windows, but for excused
\* lines.
LEMMA CountParcelsShape ==
    ASSUME Typed, CountParcels
    PROVE  /\ checkout.pc = "count" /\ checkout'.pc = "settle"
           /\ checkout'.left = {l \in Lines : claim[l].status # "none"} /\ checkout'.left \in SUBSET Backordered
           /\ checkout'.left # {} /\ checkout'.window \in Windows
           /\ checkout' \in [pc : {"settle"}, left : SUBSET Backordered, window : Windows]
           /\ excused \subseteq excused' /\ excused' \subseteq Lines
           /\ \A l \in Backordered \ excused' : GoodWindow(l, checkout'.window[l])
           /\ UNCHANGED <<stocked, reserved, claim, sold, returned, canceled, parcel, dispatch, events, todo,
                          handler>>
<1>1. checkout.pc = "count" /\ UNCHANGED <<stocked, reserved, claim, sold, returned, canceled, parcel,
                                           dispatch, events, todo, handler>>
  BY DEF CountParcels, stock, order
<1>p. AllParcelsOK(parcel)
  BY DEF Typed, ParcelsOK, AllParcelsOK
<1>2. PICK unlinked \in SUBSET {x \in Parcels : parcel[x].status = "live"} :
          LET missed(l) == Sum(ParcelsOf(l, {"opening"}) \cup (ParcelsOf(l, {"live"}) \cap unlinked))
              counted(l) == Sum(ParcelsOf(l, {"live", "returned"}) \ unlinked)
              window(l, n) == UnitsThatWillNotLeave(checkout.canceled[l], n)
          IN /\ checkout' = [pc |-> "settle", left |-> {l \in Lines : claim[l].status # "none"},
                             window |-> [l \in Lines |-> window(l, counted(l))]]
             /\ excused' = excused \cup {l \in Backordered :
                              window(l, counted(l)) # window(l, counted(l) + missed(l))}
  BY DEF CountParcels
<1> DEFINE missed(l) == Sum(ParcelsOf(l, {"opening"}) \cup (ParcelsOf(l, {"live"}) \cap unlinked))
           counted(l) == Sum(ParcelsOf(l, {"live", "returned"}) \ unlinked)
           window(l, n) == UnitsThatWillNotLeave(checkout.canceled[l], n)
           left == {l \in Lines : claim[l].status # "none"}
           wide == [l \in Lines |-> window(l, counted(l))]
<1>3. /\ checkout' = [pc |-> "settle", left |-> left, window |-> wide]
      /\ excused' = excused \cup {l \in Backordered : window(l, counted(l)) # window(l, counted(l) + missed(l))}
  BY <1>2
<1>4. \A l \in Lines : checkout.canceled[l] \in Units
  BY <1>1, CheckoutIs, CheckoutFields DEF Windows
<1>5. \A l : missed(l) \in Nat /\ counted(l) \in Nat
  BY <1>p, PartIs
<1>6. \A l : Committed(l) <= counted(l) + missed(l)
  <2> SUFFICES ASSUME NEW l PROVE Committed(l) <= counted(l) + missed(l)
    OBVIOUS
  <2>1. ParcelsOf(l, {"live", "opening"}) \subseteq
           (ParcelsOf(l, {"live", "returned"}) \ unlinked)
           \cup (ParcelsOf(l, {"opening"}) \cup (ParcelsOf(l, {"live"}) \cap unlinked))
    BY DEF ParcelsOf
  <2> QED
    BY <1>p, <2>1, PartsCover, SumIsLoad DEF Committed
<1>7. \A l \in Lines \ excused : counted(l) <= Held(l)
  <2> SUFFICES ASSUME NEW l \in Lines \ excused PROVE counted(l) <= Held(l)
    OBVIOUS
  <2>1. ParcelsOf(l, {"live", "returned"}) \ unlinked \subseteq ParcelsOf(l, {"live"})
    BY <1>1 DEF ParcelsOf, Typed, EarlyReturns
  <2> QED
    BY <1>p, <2>1, PartOrdered DEF Held
<1>8. left \in SUBSET Backordered /\ left # {}
  <2>1. \A l \in Reserved : l \in Lines /\ claim[l].status = "none"
    BY ShelfAssumption DEF Typed, ClaimsOK, ClaimOK
  <2>2. \E l \in Lines : claim[l].status # "none"
    BY <1>1, CheckoutIs, CheckoutFields
  <2> QED
    BY <2>1, <2>2 DEF Backordered
<1> HIDE DEF missed, counted
<1>9. \A l \in Lines : window(l, counted(l)) \in Units
  <2> SUFFICES ASSUME NEW l \in Lines PROVE window(l, counted(l)) \in Units
    OBVIOUS
  <2> QED
    BY <1>4, <1>5, WindowIs
<1>10. wide \in Windows /\ \A l \in Lines : wide[l] = window(l, counted(l))
  BY <1>9 DEF Windows
<1>11. ASSUME NEW l \in Backordered \ excused' PROVE GoodWindow(l, wide[l])
  <2>1. l \in Lines /\ l \notin excused /\ wide[l] = window(l, counted(l) + missed(l))
        /\ wide[l] = window(l, counted(l))
    BY <1>3, <1>10 DEF Backordered
  <2>2. counted(l) + missed(l) \in Nat /\ counted(l) \in Nat /\ missed(l) \in Nat /\ Committed(l) \in Nat /\ Held(l) \in Nat
    BY <1>5, HeldIs DEF Typed
  <2>3. checkout.canceled[l] \in Units
    BY <1>4, <2>1
  <2>4. /\ TargetOnShelf(checkout.canceled[l], counted(l) + missed(l)) = wide[l]
        /\ wide[l] \in Units /\ wide[l] <= checkout.canceled[l]
        /\ wide[l] > 0 => wide[l] + (counted(l) + missed(l)) <= Bought
    BY <2>1, <2>2, <2>3, WindowIs
  <2>5. \A w \in Nat : w <= checkout.canceled[l] /\ w + counted(l) <= Bought => w <= wide[l]
    BY <2>1, <2>2, <2>3, WindowIs
  <2>6. Committed(l) <= counted(l) + missed(l) /\ counted(l) <= Held(l)
    BY <1>6, <1>7, <2>1
  <2>7. wide[l] \in Nat /\ Bought \in Nat
    BY <2>4, ShelfAssumption DEF Units
  <2> HIDE DEF wide, window
  <2>8. wide[l] > 0 => wide[l] + Committed(l) <= Bought
    BY <2>2, <2>4, <2>6, <2>7
  <2>9. \A v \in Nat : v <= checkout.canceled[l] /\ v + Held(l) <= Bought => v <= wide[l]
    BY <2>2, <2>5, <2>6, <2>7
  <2> QED
    BY <2>4, <2>8, <2>9 DEF GoodWindow
<1>12. excused \subseteq excused' /\ excused' \subseteq Lines
  BY <1>3 DEF Typed, Backordered
<1> HIDE DEF wide, left
<1>13. checkout'.pc = "settle" /\ checkout'.left = left /\ checkout'.window = wide
  BY <1>3
<1>14. checkout' \in [pc : {"settle"}, left : SUBSET Backordered, window : Windows]
  BY <1>3, <1>8, <1>10
<1> QED
  BY <1>1, <1>8, <1>10, <1>11, <1>12, <1>13, <1>14 DEF left

\* Types: the checkout has the windows of its lines, what parcels hold taken off.
LEMMA TypedCountParcels ==
    ASSUME Typed, CountParcels
    PROVE  Typed'
<1>1. /\ checkout.pc = "count" /\ checkout'.pc = "settle" /\ checkout'.left # {}
      /\ checkout' \in [pc : {"settle"}, left : SUBSET Backordered, window : Windows]
      /\ excused \subseteq excused' /\ excused' \subseteq Lines
      /\ UNCHANGED <<stocked, reserved, claim, sold, returned, canceled, parcel, dispatch, events, todo,
                     handler>>
  BY CountParcelsShape
<1>2. CheckoutOK(checkout', claim', canceled)
  BY <1>1 DEF CheckoutOK
<1>3. ClaimedOK(claim', excused', checkout')
  BY <1>1 DEF ClaimedOK, Typed
<1>4. sold = {} /\ SoldOK(sold, checkout')
  BY <1>1, UnsoldYet
<1> QED
  BY <1>1, <1>2, <1>3, <1>4, TypedCheckout DEF Typed, Early

\* A settlement of the checkout.
LEMMA SettleClaimShape ==
    ASSUME Typed, SettleClaim
    PROVE  LET l == Min(checkout.left)
               left == checkout.left \ {l}
               window == checkout.window[l]
           IN /\ checkout.pc = "settle" /\ l \in checkout.left /\ l \in Lines /\ l \in Backordered
              /\ checkout.left \in SUBSET Backordered /\ checkout.window \in Windows /\ window \in Units
              /\ claim' = [claim EXCEPT ![l] = SettledClaim(l, window)]
              /\ excused' = excused \cup {m \in {l} : claim[m].status = "filled" /\ window > 0}
              /\ checkout' = IF SettledClaim(l, window).status = "waiting"
                             THEN [pc |-> "drain", left |-> left, window |-> checkout.window,
                                   line |-> l, places |-> Places]
                             ELSE NextLine(left)
              /\ UNCHANGED <<stocked, reserved, sold, returned, canceled, parcel, dispatch, events, todo,
                             handler>>
<1> DEFINE l == Min(checkout.left)
           window == checkout.window[l]
<1>1. checkout.pc = "settle"
  BY DEF SettleClaim
<1>2. checkout.left \in SUBSET Backordered /\ checkout.left # {} /\ checkout.window \in Windows
  BY <1>1, CheckoutIs, CheckoutFields
<1>3. l \in checkout.left /\ l \in Lines /\ l \in Backordered
  BY <1>2, FirstLine DEF Backordered
<1>4. window \in Units
  BY <1>2, <1>3 DEF Windows
<1>5. /\ claim' = [claim EXCEPT ![l] = SettledClaim(l, window)]
      /\ excused' = excused \cup {m \in {l} : claim[m].status = "filled" /\ window > 0}
      /\ checkout' = IF SettledClaim(l, window).status = "waiting"
                     THEN [pc |-> "drain", left |-> checkout.left \ {l}, window |-> checkout.window,
                           line |-> l, places |-> Places]
                     ELSE NextLine(checkout.left \ {l})
      /\ UNCHANGED <<stocked, reserved, sold, returned, canceled, parcel, dispatch, events, todo, handler>>
  BY DEF SettleClaim, SettleBackorder, order
<1> QED
  BY <1>1, <1>2, <1>3, <1>4, <1>5

\* A step of the checkout behind the claims leaves every line its claim.
LEMMA TypedLater ==
    ASSUME Typed, StockOK(stocked', reserved'), ClaimsOK(claim'), CheckoutOK(checkout', claim', canceled),
           SameNone(claim, claim'), checkout.pc # "claim", checkout'.pc \notin Early,
           sold \subseteq sold', SoldOK(sold', checkout'),
           excused \subseteq excused', excused' \subseteq Lines,
           UNCHANGED <<returned, canceled, parcel, dispatch, events, todo, handler>>
    PROVE  Typed'
<1>1. ClaimedOK(claim', excused', checkout')
  BY DEF Typed, ClaimedOK, SameNone, Backordered
<1> QED
  BY <1>1, TypedCheckout

\* Types: the checkout settles a claim against its window.
LEMMA TypedSettleClaim ==
    ASSUME Typed, SettleClaim
    PROVE  Typed'
<1>1. PICK l, left, window : l = Min(checkout.left) /\ left = checkout.left \ {l} /\ window = checkout.window[l]
  OBVIOUS
<1>2. /\ checkout.pc = "settle" /\ l \in checkout.left /\ l \in Lines /\ l \in Backordered
      /\ checkout.left \in SUBSET Backordered /\ checkout.window \in Windows /\ window \in Units
      /\ claim' = [claim EXCEPT ![l] = SettledClaim(l, window)]
      /\ excused' = excused \cup {m \in {l} : claim[m].status = "filled" /\ window > 0}
      /\ checkout' = IF SettledClaim(l, window).status = "waiting"
                     THEN [pc |-> "drain", left |-> left, window |-> checkout.window,
                           line |-> l, places |-> Places]
                     ELSE NextLine(left)
      /\ UNCHANGED <<stocked, reserved, sold, returned, canceled, parcel, dispatch, events, todo,
                     handler>>
  BY <1>1, SettleClaimShape
<1>3. ClaimsOK(claim') /\ SameNone(claim, claim')
  BY <1>2, SettledNone DEF Typed
<1>4. left \in SUBSET Backordered
  BY <1>1, <1>2
<1>5. CheckoutOK(checkout', claim', canceled) /\ checkout'.pc \notin Early
  <2>1. CASE SettledClaim(l, window).status = "waiting"
    <3>1. checkout' = [pc |-> "drain", left |-> left, window |-> checkout.window, line |-> l, places |-> Places]
      BY <1>2, <2>1
    <3>2. Places # {} /\ Places \in SUBSET Places
      BY ShelfAssumption
    <3> QED
      BY <1>2, <1>4, <3>1, <3>2 DEF CheckoutOK, Early
  <2>2. CASE SettledClaim(l, window).status # "waiting"
    BY <1>2, <1>4, <2>2, NextLineOK DEF Early
  <2> QED
    BY <2>1, <2>2
<1>6. sold = {} /\ SoldOK(sold, checkout')
  BY <1>2, UnsoldYet
<1>7. excused \subseteq excused' /\ excused' \subseteq Lines
  BY <1>2 DEF Typed
<1> QED
  BY <1>2, <1>3, <1>5, <1>6, <1>7, TypedLater DEF Typed

\* What serving the queue from one warehouse does to the checkout.
LEMMA DrainClaimShape ==
    ASSUME Typed, DrainClaim
    PROVE  LET p == Min(checkout.places)
               places == checkout.places \ {p}
           IN /\ checkout.pc = "drain" /\ p \in checkout.places /\ p \in Places /\ places \in SUBSET Places
              /\ checkout.line \in Backordered /\ checkout.line \in Lines
              /\ checkout.left \in SUBSET Backordered /\ checkout.window \in Windows
              /\ WritesAt(p) /\ LeavesTooLittle(p)
              /\ \/ /\ checkout' = NextLine(checkout.left)
                    /\ places = {} \/ claim'[checkout.line].status # "waiting"
                 \/ /\ checkout' = [pc |-> "drain", left |-> checkout.left, window |-> checkout.window,
                                    line |-> checkout.line, places |-> places]
                    /\ places # {}
              /\ UNCHANGED <<sold, returned, canceled, parcel, dispatch, events, todo, handler, excused>>
<1> DEFINE p == Min(checkout.places)
           places == checkout.places \ {p}
<1>1. checkout.pc = "drain"
  BY DEF DrainClaim
<1>2. /\ checkout \in [pc : {"drain"}, left : SUBSET Backordered, window : Windows,
                       line : Backordered, places : SUBSET Places]
      /\ checkout.line \in Backordered /\ checkout.places \in SUBSET Places /\ checkout.places # {}
      /\ checkout.left \in SUBSET Backordered /\ checkout.window \in Windows
  BY <1>1, CheckoutIs, CheckoutFields
<1>3. checkout.line \in Lines
  BY <1>2 DEF Backordered
<1>4. checkout.places \in SUBSET Nat
  BY <1>2, ShelfAssumption
<1>5. p \in checkout.places
  BY <1>2, <1>4, MinIsIn
<1>6. p \in Places /\ places \in SUBSET Places
  BY <1>2, <1>5
<1>7. WritesAt(p) /\ LeavesTooLittle(p)
  <2>1. DrainAt(p)
    BY DEF DrainClaim
  <2> QED
    BY <1>6, <2>1, DrainShape
<1>8. checkout' = IF places = {} \/ claim'[checkout.line].status # "waiting"
                  THEN NextLine(checkout.left) ELSE [checkout EXCEPT !.places = places]
  BY DEF DrainClaim
<1>9. [checkout EXCEPT !.places = places] = [pc |-> "drain", left |-> checkout.left, window |-> checkout.window,
                                             line |-> checkout.line, places |-> places]
  BY <1>2
<1>10. UNCHANGED <<sold, returned, canceled, parcel, dispatch, events, todo, handler, excused>>
  BY DEF DrainClaim, order
<1> HIDE DEF p, places
<1>11. \/ /\ checkout' = NextLine(checkout.left)
          /\ places = {} \/ claim'[checkout.line].status # "waiting"
       \/ /\ checkout' = [pc |-> "drain", left |-> checkout.left, window |-> checkout.window,
                          line |-> checkout.line, places |-> places]
          /\ places # {}
  BY <1>8, <1>9
<1> QED
  BY <1>1, <1>2, <1>3, <1>5, <1>6, <1>7, <1>10, <1>11 DEF p, places

\* Types: the checkout lets the queue have what one warehouse has.
LEMMA TypedDrainClaim ==
    ASSUME Typed, DrainClaim
    PROVE  Typed'
<1>1. PICK p, places : p = Min(checkout.places) /\ places = checkout.places \ {p}
  OBVIOUS
<1>2. /\ checkout.pc = "drain" /\ p \in Places /\ places \in SUBSET Places
      /\ checkout.line \in Backordered
      /\ checkout.left \in SUBSET Backordered /\ checkout.window \in Windows
      /\ WritesAt(p)
      /\ \/ checkout' = NextLine(checkout.left)
         \/ /\ checkout' = [pc |-> "drain", left |-> checkout.left, window |-> checkout.window,
                            line |-> checkout.line, places |-> places]
            /\ places # {}
      /\ UNCHANGED <<sold, returned, canceled, parcel, dispatch, events, todo, handler, excused>>
  BY <1>1, DrainClaimShape
<1>3. SameNone(claim, claim') /\ StockOK(stocked', reserved') /\ ClaimsOK(claim')
  BY <1>2, FillsNone DEF Typed, WritesAt
<1>4. CheckoutOK(checkout', claim', canceled) /\ checkout'.pc \notin Early
  <2>1. CASE checkout' = NextLine(checkout.left)
    BY <1>2, <2>1, NextLineOK DEF Early
  <2>2. CASE /\ checkout' = [pc |-> "drain", left |-> checkout.left, window |-> checkout.window,
                             line |-> checkout.line, places |-> places]
             /\ places # {}
    BY <1>2, <2>2 DEF CheckoutOK, Early
  <2> QED
    BY <1>2, <2>1, <2>2
<1>5. sold = {} /\ SoldOK(sold, checkout')
  BY <1>2, UnsoldYet
<1>6. excused' = excused /\ excused' \subseteq Lines
  BY <1>2 DEF Typed
<1> QED
  BY <1>2, <1>3, <1>4, <1>5, <1>6, TypedLater

\* What the checkout does after a settlement that failed.
LEMMA SettlementFailsShape ==
    ASSUME Typed, SettlementFails
    PROVE  /\ \/ /\ checkout.pc \in {"read", "count"} /\ excused' = excused \cup Backordered
                 /\ checkout' = Confirming
              \/ \E l \in Lines :
                    /\ \/ checkout.pc = "settle" /\ l = Min(checkout.left) /\ l \in checkout.left
                       \/ checkout.pc = "drain" /\ l = checkout.line
                    /\ excused' = excused \cup {l} /\ checkout' = NextLine(checkout.left \ {l})
                    /\ checkout.left \in SUBSET Backordered /\ checkout.window \in Windows
           /\ UNCHANGED <<stocked, reserved, claim, sold, returned, canceled, parcel, dispatch, events, todo,
                          handler>>
<1>1. checkout.pc \in {"read", "count", "settle", "drain"}
      /\ UNCHANGED <<stocked, reserved, claim, sold, returned, canceled, parcel, dispatch, events, todo, handler>>
  BY DEF SettlementFails, stock, order
<1>2. CASE checkout.pc \in {"read", "count"}
  BY <1>1, <1>2 DEF SettlementFails
<1>3. CASE checkout.pc = "settle"
  <2>1. checkout.left \in SUBSET Backordered /\ checkout.left # {} /\ checkout.window \in Windows
    BY <1>3, CheckoutIs, CheckoutFields
  <2>2. Min(checkout.left) \in checkout.left /\ Min(checkout.left) \in Lines
    BY <2>1, FirstLine DEF Backordered
  <2>3. excused' = excused \cup {Min(checkout.left)} /\ checkout' = NextLine(checkout.left \ {Min(checkout.left)})
    BY <1>3 DEF SettlementFails
  <2> QED
    BY <1>1, <1>3, <2>1, <2>2, <2>3
<1>4. CASE checkout.pc = "drain"
  <2>1. checkout.left \in SUBSET Backordered /\ checkout.window \in Windows /\ checkout.line \in Lines
    BY <1>4, CheckoutIs, CheckoutFields DEF Backordered
  <2>2. excused' = excused \cup {checkout.line} /\ checkout' = NextLine(checkout.left \ {checkout.line})
    BY <1>4 DEF SettlementFails
  <2> QED
    BY <1>1, <1>4, <2>1, <2>2
<1> QED
  BY <1>1, <1>2, <1>3, <1>4

\* Types: a settlement the checkout gave up excuses its lines.
LEMMA TypedSettlementFails ==
    ASSUME Typed, SettlementFails
    PROVE  Typed'
<1>1. UNCHANGED <<stocked, reserved, claim, sold, returned, canceled, parcel, dispatch, events, todo, handler>>
  BY SettlementFailsShape
<1>2. checkout.pc \in {"read", "count", "settle", "drain"}
  BY DEF SettlementFails
<1>3. CheckoutOK(checkout', claim', canceled) /\ checkout'.pc \notin Early
      /\ excused \subseteq excused' /\ excused' \subseteq Lines
  <2>1. CASE /\ checkout.pc \in {"read", "count"} /\ excused' = excused \cup Backordered
             /\ checkout' = Confirming
    BY <2>1, ConfirmingOK DEF Typed, Backordered, Early
  <2>2. CASE \E l \in Lines :
                /\ excused' = excused \cup {l} /\ checkout' = NextLine(checkout.left \ {l})
                /\ checkout.left \in SUBSET Backordered /\ checkout.window \in Windows
    <3>1. PICK l \in Lines :
                /\ excused' = excused \cup {l} /\ checkout' = NextLine(checkout.left \ {l})
                /\ checkout.left \in SUBSET Backordered /\ checkout.window \in Windows
      BY <2>2
    <3>2. checkout.left \ {l} \in SUBSET Backordered
      BY <3>1
    <3> QED
      BY <3>1, <3>2, NextLineOK DEF Typed, Early
  <2> QED
    BY <2>1, <2>2, SettlementFailsShape
<1>4. sold = {} /\ SoldOK(sold, checkout')
  BY <1>2, UnsoldYet
<1> QED
  BY <1>1, <1>2, <1>3, <1>4, SameNoneSame, TypedLater DEF Typed

\* The checkout goes on to its next reservation, or is done.
LEMMA AfterConfirmOK ==
    ASSUME checkout \in [pc : {"confirm"}, left : SUBSET Reserved], NEW cl, NEW cn
    PROVE  CheckoutOK(AfterConfirm, cl, cn) /\ AfterConfirm.pc \in {"confirm", "done"}
<1> DEFINE left == checkout.left \ {Min(checkout.left)}
<1>1. AfterConfirm = IF left = {} THEN [pc |-> "done"] ELSE [checkout EXCEPT !.left = left]
  BY DEF AfterConfirm
<1>2. left \in SUBSET Reserved
  OBVIOUS
<1> HIDE DEF left
<1>3. [checkout EXCEPT !.left = left] = [pc |-> "confirm", left |-> left]
  OBVIOUS
<1>4. CASE left = {}
  BY <1>1, <1>4 DEF CheckoutOK
<1>5. CASE left # {}
  BY <1>1, <1>2, <1>3, <1>5 DEF CheckoutOK
<1> QED
  BY <1>4, <1>5

\* A confirmed reservation writes the first warehouse and leaves no more on sale there
\* than a waiting claim can do without.
LEMMA ConfirmLineShape ==
    ASSUME Typed, ConfirmLine
    PROVE  /\ checkout.pc = "confirm" /\ 1 \in Places /\ WritesAt(1)
           /\ LeavesTooLittle(1) \/ stocked'[1] - reserved'[1] <= Available(1)
           /\ sold \subseteq sold'
           /\ CheckoutOK(checkout', claim', canceled) /\ checkout'.pc \in {"confirm", "done"}
           /\ UNCHANGED <<returned, canceled, parcel, dispatch, events, todo, handler, excused>>
<1>1. checkout.pc = "confirm" /\ WriteQuantities(1, stocked[1] - Bought, reserved[1] - Bought)
      /\ sold \subseteq sold' /\ checkout' = AfterConfirm
      /\ UNCHANGED <<returned, canceled, parcel, dispatch, events, todo, handler, excused>>
  BY DEF ConfirmLine, order
<1>2. checkout \in [pc : {"confirm"}, left : SUBSET Reserved]
  BY <1>1, CheckoutIs, CheckoutFields
<1>3. 1 \in Places /\ Bought \in Int
  BY ShelfAssumption
<1>4. stocked[1] - Bought \in Int /\ reserved[1] - Bought \in Int
  BY <1>3 DEF Typed, StockOK
<1>5. WritesAt(1) /\ (LeavesTooLittle(1) \/ stocked'[1] - reserved'[1] <= Available(1))
  BY <1>1, <1>3, <1>4, WriteShape
<1>6. CheckoutOK(checkout', claim', canceled) /\ checkout'.pc \in {"confirm", "done"}
  BY <1>1, <1>2, AfterConfirmOK
<1> QED
  BY <1>1, <1>3, <1>5, <1>6

\* Types: a reservation becomes a sale and what it frees fills the queue.
LEMMA TypedConfirmLine ==
    ASSUME Typed, ConfirmLine
    PROVE  Typed'
<1>1. /\ checkout.pc = "confirm" /\ 1 \in Places /\ WritesAt(1) /\ sold \subseteq sold'
      /\ CheckoutOK(checkout', claim', canceled) /\ checkout'.pc \in {"confirm", "done"}
      /\ UNCHANGED <<returned, canceled, parcel, dispatch, events, todo, handler, excused>>
  BY ConfirmLineShape
<1>2. SameNone(claim, claim') /\ StockOK(stocked', reserved') /\ ClaimsOK(claim')
  BY <1>1, FillsNone DEF Typed, WritesAt
<1>3. SoldOK(sold', checkout') /\ checkout'.pc \notin Early /\ checkout.pc # "claim"
  BY <1>1 DEF SoldOK, Early
<1>4. excused' = excused /\ excused' \subseteq Lines
  BY <1>1 DEF Typed
<1> QED
  BY <1>1, <1>2, <1>3, <1>4, TypedLater

\* What a reservation that could not be confirmed leaves.
LEMMA ConfirmFailsShape ==
    ASSUME Typed, ConfirmFails
    PROVE  /\ checkout.pc = "confirm" /\ excused \subseteq excused' /\ excused' \subseteq Lines
           /\ CheckoutOK(checkout', claim', canceled) /\ checkout'.pc \in {"confirm", "done"}
           /\ UNCHANGED <<stocked, reserved, claim, sold, returned, canceled, parcel, dispatch, events, todo,
                          handler>>
<1>1. checkout.pc = "confirm" /\ excused' = excused \cup {Min(checkout.left)} /\ checkout' = AfterConfirm
      /\ UNCHANGED <<stocked, reserved, claim, sold, returned, canceled, parcel, dispatch, events, todo,
                     handler>>
  BY DEF ConfirmFails, stock, order
<1>2. checkout \in [pc : {"confirm"}, left : SUBSET Reserved] /\ checkout.left \in SUBSET Reserved /\ checkout.left # {}
  BY <1>1, CheckoutIs, CheckoutFields
<1>3. checkout.left \in SUBSET Lines
  BY <1>2, ShelfAssumption
<1>4. Min(checkout.left) \in Lines
  BY <1>2, <1>3, FirstLine
<1>5. CheckoutOK(checkout', claim', canceled) /\ checkout'.pc \in {"confirm", "done"}
  BY <1>1, <1>2, AfterConfirmOK
<1>6. excused' \subseteq Lines
  BY <1>1, <1>4 DEF Typed
<1> QED
  BY <1>1, <1>5, <1>6

\* Types: a reservation that could not be confirmed excuses its line.
LEMMA TypedConfirmFails ==
    ASSUME Typed, ConfirmFails
    PROVE  Typed'
<1>1. /\ checkout.pc = "confirm" /\ excused \subseteq excused' /\ excused' \subseteq Lines
      /\ CheckoutOK(checkout', claim', canceled) /\ checkout'.pc \in {"confirm", "done"}
      /\ UNCHANGED <<stocked, reserved, claim, sold, returned, canceled, parcel, dispatch, events, todo,
                     handler>>
  BY ConfirmFailsShape
<1>2. SoldOK(sold', checkout') /\ checkout'.pc \notin Early /\ checkout.pc # "claim"
  BY <1>1 DEF SoldOK, Early
<1> QED
  BY <1>1, <1>2, SameNoneSame, TypedLater DEF Typed

\* Types: the first state.
LEMMA TypedInit == ASSUME Init PROVE Typed
<1>1. Bought \in Nat /\ Cardinality(Reserved) \in Nat
  BY ShelfAssumption, FS_Subset, FS_CardinalityType
<1>2. PICK k \in Nat : k = Bought * Cardinality(Reserved)
  BY <1>1
<1>3. StockOK(stocked, reserved)
  <2>1. PICK spare \in Shelves : stocked = [p \in Places |-> spare[p] + (IF p = 1 THEN k ELSE 0)]
    BY <1>2 DEF Init
  <2>2. reserved = [p \in Places |-> IF p = 1 THEN k ELSE 0]
    BY <1>2 DEF Init
  <2>3. spare \in [Places -> 0 .. Bought - 1]
    BY ShelfAssumption
  <2>4. \A p \in Places : spare[p] \in Int
    BY <2>3
  <2> QED
    BY <2>1, <2>2, <2>4 DEF StockOK
<1>4. /\ claim = [l \in Lines |-> NoClaim] /\ sold = {}
      /\ returned = [l \in Lines |-> [units |-> 0, at |-> {}]] /\ canceled = [l \in Lines |-> 0]
      /\ parcel = [x \in Parcels |-> NoParcel] /\ dispatch = {} /\ events = {} /\ todo = {}
      /\ handler = [h \in Handlers |-> Idle] /\ checkout = [pc |-> "claim", left |-> Backordered, as |-> "waiting"]
      /\ excused = {}
  BY DEF Init
<1>5. NoClaim.status = "none" /\ \A l \in Lines : ClaimOK(l, NoClaim)
  BY <1>1 DEF NoClaim, ClaimOK, Units
<1>6. ClaimsOK(claim) /\ \A l \in Lines : claim[l].status = "none"
  BY <1>4, <1>5 DEF ClaimsOK
<1>7. ReturnsOK(returned, canceled)
  BY <1>1, <1>4 DEF ReturnsOK, Units
<1>8. ParcelsOK(parcel, dispatch) /\ \A x \in Parcels : parcel[x].status = "none"
  <2>1. NoParcel.status = "none"
    BY DEF NoParcel
  <2> QED
    BY <1>4, <2>1, NoParcelOK DEF ParcelsOK
<1>9. EventsOK(events, todo, canceled, parcel)
  BY <1>4 DEF EventsOK
<1>10. HandlersOK(handler, events, canceled, sold)
  BY <1>4 DEF HandlersOK, HandlerOK
<1>11. Backordered \subseteq Lines /\ Backordered # {}
  BY ShelfAssumption DEF Backordered
<1>12. CheckoutOK(checkout, claim, canceled) /\ ClaimedOK(claim, excused, checkout) /\ SoldOK(sold, checkout)
  BY <1>4, <1>6, <1>11 DEF CheckoutOK, ClaimedOK, SoldOK
<1>13. EarlyReturns(parcel, checkout, excused) /\ excused \subseteq Lines
  BY <1>4, <1>8 DEF EarlyReturns
<1> QED
  BY <1>3, <1>6, <1>7, <1>8, <1>9, <1>10, <1>12, <1>13 DEF Typed

\* Types: every step.
LEMMA TypedNext == ASSUME Typed, [Next]_vars PROVE Typed'
<1>1. ASSUME NEW p \in Places, Arrive(p) PROVE Typed'
  BY <1>1, TypedArrive
<1>2. ASSUME Operator PROVE Typed'
  BY <1>2, TypedCancelOrderLine, TypedOpenAsked, TypedOpenLocked, TypedOpenCommits, TypedOpenFails,
     TypedCancelFulfillment, TypedMarkReturned DEF Operator
<1>3. ASSUME LastStep PROVE Typed'
  BY <1>3, TypedRankingFails, TypedClaimBackorder, TypedClaimFails, TypedReadWriteOffs, TypedCountParcels, TypedSettleClaim,
     TypedDrainClaim, TypedSettlementFails, TypedConfirmLine, TypedConfirmFails DEF LastStep
<1>4. ASSUME NEW h \in Handlers, Delivery(h) PROVE Typed'
  BY <1>4, TypedHandleLineCanceled, TypedRecountParcel, TypedCountHeld, TypedReadShelves, TypedSettle,
     TypedDrain, TypedDrainFails, TypedPutBack, TypedDeliveryFails DEF Delivery
<1>5. CASE UNCHANGED vars
  BY <1>5 DEF vars, stock, order, Typed
<1> QED
  BY <1>1, <1>2, <1>3, <1>4, <1>5 DEF Next

\* Every reachable state has its types.
LEMMA TypedAlways == Spec => []Typed
BY TypedInit, TypedNext, PTL DEF Spec

-----------------------------------------------------------------------------
(* What may be given back of a line: no more than was written off, and no  *)
(* more than its parcels leave.                                            *)

\* x units of a line may be given back, if n are written off and k are in parcels
Fit(x, n, k) == x <= n /\ x + k <= Bought

\* Whatever could be given back still can
Looser(n, k, n2, k2) == \A x \in Nat : Fit(x, n, k) => Fit(x, n2, k2)

\* Only units that a fill deducted were credited, and where it did
Credit(l, c, r) ==
    l \in Backordered => /\ c.status # "filled" => r.units = 0 /\ r.at = {}
                         /\ r.at \subseteq {c.at}

CheckoutFits(l, co, n, k) ==
    co.pc \in {"settle", "drain"} /\ l \in Backordered => Fit(co.window[l], n, k)

\* The window of a delivery fits, and so does what it is about to put back
HandlerFits(l, m, c, n, k) ==
    /\ m.pc \in {"sold", "settle"} /\ m.line = l => Fit(m.window, n, k)
    /\ m.pc \in {"drain", "put"} /\ m.line = l /\ m.target > 0 /\ m.shelf # NoPlace =>
          /\ Fit(c.withdrawn + m.target, n, k)
          /\ l \in Backordered => c.status = "filled" /\ m.shelf = c.at

LimitOf(l, n, k, c, r, co, hd) ==
    /\ Fit(c.withdrawn + r.units, n, k)
    /\ Credit(l, c, r)
    /\ CheckoutFits(l, co, n, k)
    /\ \A h \in Handlers : HandlerFits(l, hd[h], c, n, k)

Limits == \A l \in Lines \ excused :
             LimitOf(l, canceled[l], Committed(l), claim[l], returned[l], checkout, handler)

\* The claim of a reserved line, and a claim that was filled, never change again
Stays(l, c, c2) == c.status = "filled" \/ l \in Reserved => c2 = c

\* A credit stays right, since a filled claim never changes again.
LEMMA CreditKept ==
    ASSUME NEW l, NEW c, NEW r, Credit(l, c, r), NEW c2, Stays(l, c, c2)
    PROVE  Credit(l, c2, r)
<1>1. CASE c.status = "filled"
  BY <1>1 DEF Stays
<1>2. CASE c.status # "filled"
  BY <1>2 DEF Credit
<1> QED
  BY <1>1, <1>2

\* The windows of the checkout stay until it is past the settlements
WindowsStay(co, co2) ==
    co2.pc \in {"settle", "drain"} => co.pc \in {"settle", "drain"} /\ co2.window = co.window

\* The window of a delivery still fits when no less may be given back.
LEMMA HandlerFitsKept ==
    ASSUME NEW m, NEW ev, NEW cn, NEW sd, HandlerOK(m, ev, cn, sd), NEW l \in Lines, NEW c, ClaimOK(l, c),
           NEW n, NEW k, NEW n2, NEW k2, HandlerFits(l, m, c, n, k), Looser(n, k, n2, k2),
           NEW c2, Stays(l, c, c2)
    PROVE  HandlerFits(l, m, c2, n2, k2)
<1>1. ASSUME m.pc \in {"sold", "settle"}, m.line = l PROVE Fit(m.window, n2, k2)
  <2>1. m.window \in 1..Bought
    BY <1>1, HandlerFields
  <2>2. m.window \in Nat
    BY <2>1
  <2> QED
    BY <1>1, <2>2 DEF HandlerFits, Looser
<1>2. ASSUME m.pc \in {"drain", "put"}, m.line = l, m.target > 0, m.shelf # NoPlace
      PROVE  Fit(c2.withdrawn + m.target, n2, k2) /\ (l \in Backordered => c2.status = "filled" /\ m.shelf = c2.at)
  <2>1. m.target \in Units
    BY <1>2, HandlerFields
  <2>2. c.withdrawn + m.target \in Nat
    BY <2>1, ShelfAssumption DEF ClaimOK, Units
  <2>3. Fit(c.withdrawn + m.target, n, k) /\ (l \in Backordered => c.status = "filled" /\ m.shelf = c.at)
    BY <1>2 DEF HandlerFits
  <2>4. c2 = c
    BY <2>3 DEF Stays, Backordered
  <2> QED
    BY <2>2, <2>3, <2>4 DEF Looser
<1> QED
  BY <1>1, <1>2 DEF HandlerFits

\* What a step has to show of a line for its limit to hold afterwards.
LEMMA LimitStep ==
    ASSUME Typed, Limits, NEW l \in Lines, l \notin excused, NEW n2, NEW k2,
           Looser(canceled[l], Committed(l), n2, k2), NEW c2, Stays(l, claim[l], c2),
           NEW r2, (c2.withdrawn = claim[l].withdrawn /\ r2 = returned[l])
                   \/ (Fit(c2.withdrawn + r2.units, n2, k2) /\ Credit(l, c2, r2)),
           NEW co2, WindowsStay(checkout, co2) \/ CheckoutFits(l, co2, n2, k2),
           NEW hd2, \A h \in Handlers : hd2[h] = handler[h] \/ HandlerFits(l, hd2[h], c2, n2, k2)
    PROVE  LimitOf(l, n2, k2, c2, r2, co2, hd2)
<1>1. LimitOf(l, canceled[l], Committed(l), claim[l], returned[l], checkout, handler)
  BY DEF Limits
<1>2. ClaimOK(l, claim[l]) /\ returned[l].units \in Units
  BY DEF Typed, ClaimsOK, ReturnsOK
<1>3. Fit(c2.withdrawn + r2.units, n2, k2) /\ Credit(l, c2, r2)
  <2>1. ASSUME c2.withdrawn = claim[l].withdrawn, r2 = returned[l]
        PROVE  Fit(c2.withdrawn + r2.units, n2, k2) /\ Credit(l, c2, r2)
    <3>1. claim[l].withdrawn + returned[l].units \in Nat
      BY <1>2, ShelfAssumption DEF ClaimOK, Units
    <3>2. Fit(c2.withdrawn + r2.units, n2, k2)
      BY <1>1, <2>1, <3>1 DEF LimitOf, Looser
    <3> QED
      BY <1>1, <2>1, <3>2, CreditKept DEF LimitOf
  <2> QED
    BY <2>1
<1>4. CheckoutFits(l, co2, n2, k2)
  <2>1. ASSUME WindowsStay(checkout, co2), co2.pc \in {"settle", "drain"}, l \in Backordered
        PROVE  Fit(co2.window[l], n2, k2)
    <3>1. checkout.pc \in {"settle", "drain"} /\ co2.window = checkout.window
      BY <2>1 DEF WindowsStay
    <3>2. checkout.window \in Windows
      BY <3>1, CheckoutIs, CheckoutFields
    <3>3. checkout.window[l] \in Nat
      BY <3>2, ShelfAssumption DEF Windows, Units
    <3> QED
      BY <1>1, <2>1, <3>1, <3>3 DEF LimitOf, CheckoutFits, Looser
  <2> QED
    BY <2>1 DEF CheckoutFits
<1>5. ASSUME NEW h \in Handlers PROVE HandlerFits(l, hd2[h], c2, n2, k2)
  <2>1. HandlerOK(handler[h], events, canceled, sold)
    BY HandlerIs
  <2>2. HandlerFits(l, handler[h], claim[l], canceled[l], Committed(l))
    BY <1>1 DEF LimitOf
  <2> HIDE DEF Limits
  <2>3. HandlerFits(l, handler[h], c2, n2, k2)
    BY <1>2, <2>1, <2>2, HandlerFitsKept
  <2> QED
    BY <2>3
<1> QED
  BY <1>3, <1>4, <1>5 DEF LimitOf

\* The write-offs and the parcels only widen what may be given back.
LEMMA LooserSame == ASSUME NEW n, NEW k PROVE Looser(n, k, n, k)
BY DEF Looser

\* More written off and less in parcels: no less may be given back.
LEMMA LooserWhen ==
    ASSUME NEW n \in Int, NEW k \in Int, NEW n2 \in Int, NEW k2 \in Int, n <= n2, k2 <= k
    PROVE  Looser(n, k, n2, k2)
BY ShelfAssumption DEF Looser, Fit

\* A parcel that changes moves what parcels hold, or are about to, by the difference.
LEMMA CommittedChange ==
    ASSUME Typed, NEW x \in Parcels, NEW q, ParcelOK(q),
           \A y \in Parcels : parcel'[y] = IF y = x THEN q ELSE parcel[y], NEW l
    PROVE  /\ Committed(l)' = Committed(l) - Load(parcel[x], l, {"live", "opening"})
                                           + Load(q, l, {"live", "opening"})
           /\ Load(parcel[x], l, {"live", "opening"}) \in Nat /\ Load(q, l, {"live", "opening"}) \in Nat
           /\ Committed(l) \in Nat
           /\ canceled[l] \in 0..Bought \/ l \notin Lines
<1>1. AllParcelsOK(parcel) /\ ParcelOK(parcel[x])
  BY DEF Typed, ParcelsOK, AllParcelsOK
<1>2. Load(parcel[x], l, {"live", "opening"}) \in Nat /\ Load(q, l, {"live", "opening"}) \in Nat
  BY <1>1, LoadNat
<1>3. LoadSum(parcel', l, {"live", "opening"}) =
         LoadSum(parcel, l, {"live", "opening"}) - Load(parcel[x], l, {"live", "opening"})
            + Load(q, l, {"live", "opening"})
  BY <1>1, LoadChange
<1>4. Committed(l) \in Nat
  BY HeldIs DEF Typed
<1> QED
  BY <1>2, <1>3, <1>4, CanceledInt DEF Committed

\* A parcel that is not opened by the step.
LEMMA LooserParcel ==
    ASSUME Typed, NEW x \in Parcels, NEW q, ParcelOK(q),
           \A y \in Parcels : parcel'[y] = IF y = x THEN q ELSE parcel[y],
           q.status \in {"live", "opening"} => /\ parcel[x].status \in {"live", "opening"}
                                               /\ q.line = parcel[x].line /\ q.units = parcel[x].units,
           canceled' = canceled, NEW l \in Lines
    PROVE  Looser(canceled[l], Committed(l), canceled'[l], Committed(l)')
<1> DEFINE a == Load(parcel[x], l, {"live", "opening"})
           b == Load(q, l, {"live", "opening"})
<1>1. Committed(l)' = Committed(l) - a + b /\ a \in Nat /\ b \in Nat /\ Committed(l) \in Nat
      /\ canceled[l] \in Int
  BY CommittedChange, CanceledInt
<1>2. b <= a
  <2>1. CASE q.status \in {"live", "opening"}
    BY <1>1, <2>1 DEF Load
  <2>2. CASE q.status \notin {"live", "opening"}
    <3>1. b = 0
      BY <2>2 DEF Load
    <3> QED
      BY <1>1, <3>1
  <2> QED
    BY <2>1, <2>2
<1> HIDE DEF a, b
<1>3. Committed(l)' \in Int /\ Committed(l)' <= Committed(l)
  BY <1>1, <1>2
<1> QED
  BY <1>1, <1>3, LooserWhen

\* A parcel opened against a stale ceiling takes a window away from an excused line only.
LEMMA LooserOpenLocked ==
    ASSUME Typed, NEW x \in Parcels, OpenLocked(x), NEW l \in Lines \ excused'
    PROVE  Looser(canceled[l], Committed(l), canceled'[l], Committed(l)')
<1>1. parcel[x].status = "asked" /\ dispatch = {} /\ canceled' = canceled
  BY DEF OpenLocked
<1>p. DOMAIN parcel = Parcels
  BY DEF Typed, ParcelsOK
<1>2. CASE FitsCeiling(x)
  <2> DEFINE q == [parcel[x] EXCEPT !.status = "opening", !.ceiling = 0]
  <2>1. /\ parcel' = [parcel EXCEPT ![x].status = "opening", ![x].ceiling = 0]
        /\ excused' = excused \cup {m \in {parcel[x].line} : Held(m) + parcel[x].units > Bought - canceled[m]}
    BY <1>2 DEF OpenLocked
  <2>2. parcel' = [parcel EXCEPT ![x] = q]
    BY <2>1, ParcelIs
  <2>z. 0 \in Units
    BY ShelfAssumption DEF Units
  <2>3. ParcelOK(q) /\ q.status = "opening" /\ q.line = parcel[x].line /\ q.units = parcel[x].units
    BY <1>1, <2>z, ParcelIs DEF ParcelOK
  <2>4. \A y \in Parcels : parcel'[y] = IF y = x THEN q ELSE parcel[y]
    BY <1>p, <2>2
  <2> HIDE DEF q
  <2> DEFINE a == Load(parcel[x], l, {"live", "opening"})
             b == Load(q, l, {"live", "opening"})
  <2>5. Committed(l)' = Committed(l) - a + b /\ a \in Nat /\ b \in Nat /\ Committed(l) \in Nat
        /\ canceled[l] \in 0..Bought
    BY <2>3, <2>4, CommittedChange, CanceledInt
  <2>6. a = 0
    BY <1>1 DEF Load
  <2>7. b = IF parcel[x].line = l THEN parcel[x].units ELSE 0
    BY <2>3 DEF Load
  <2> HIDE DEF a, b
  <2>8. CASE parcel[x].line = l
    <3>1. ~(Held(l) + parcel[x].units > Bought - canceled[l])
      BY <2>1, <2>8
    <3>2. Committed(l) = Held(l)
      BY <1>1, HeldIs DEF Typed
    <3>3. Committed(l)' = Committed(l) + parcel[x].units /\ parcel[x].units \in Nat
      BY <2>5, <2>6, <2>7, <2>8
    <3>4. Committed(l)' \in Nat /\ Committed(l)' + canceled[l] <= Bought
      BY <2>5, <3>1, <3>2, <3>3, ShelfAssumption
    <3>5. \A v \in Nat : v <= canceled[l] => v + Committed(l)' <= Bought
      BY <2>5, <3>4, ShelfAssumption
    <3> QED
      BY <1>1, <3>5 DEF Looser, Fit
  <2>9. CASE parcel[x].line # l
    <3>1. Committed(l)' = Committed(l)
      BY <2>5, <2>6, <2>7, <2>9
    <3> QED
      BY <1>1, <3>1, LooserSame
  <2> QED
    BY <2>8, <2>9
<1>3. CASE ~FitsCeiling(x)
  <2>1. parcel' = [parcel EXCEPT ![x] = NoParcel]
    BY <1>3 DEF OpenLocked
  <2>2. \A y \in Parcels : parcel'[y] = IF y = x THEN NoParcel ELSE parcel[y]
    BY <1>p, <2>1
  <2>3. NoParcel.status = "none"
    BY DEF NoParcel
  <2> QED
    BY <1>1, <2>2, <2>3, NoParcelOK, LooserParcel
<1> QED
  BY <1>2, <1>3

\* Nothing an operator does takes a window away.
LEMMA LooserOperator ==
    ASSUME Typed, Operator, NEW l \in Lines \ excused'
    PROVE  Looser(canceled[l], Committed(l), canceled'[l], Committed(l)')
<1>p. DOMAIN parcel = Parcels /\ DOMAIN canceled = Lines
  BY DEF Typed, ParcelsOK, ReturnsOK
<1>1. ASSUME NEW m \in Lines, NEW n \in 1..Bought, CancelOrderLine(m, n)
      PROVE  Looser(canceled[l], Committed(l), canceled'[l], Committed(l)')
  <2>1. canceled' = [canceled EXCEPT ![m] = canceled[m] + n] /\ parcel' = parcel
    BY <1>1 DEF CancelOrderLine
  <2>2. canceled'[l] = IF l = m THEN canceled[l] + n ELSE canceled[l]
    BY <1>p, <2>1
  <2>3. canceled[l] \in Int /\ canceled'[l] \in Int /\ canceled[l] <= canceled'[l]
    BY <2>2, CanceledInt
  <2>4. Committed(l)' = Committed(l) /\ Committed(l) \in Int
    BY <2>1, HeldIs DEF Committed, Typed
  <2> QED
    BY <2>3, <2>4, LooserWhen
<1>2. ASSUME NEW x \in Parcels, NEW m \in Lines, NEW n \in 1..Bought, OpenAsked(x, m, n)
      PROVE  Looser(canceled[l], Committed(l), canceled'[l], Committed(l)')
  <2> DEFINE q == [status |-> "asked", line |-> m, units |-> n, ceiling |-> Bought - canceled[m]]
  <2>1. parcel' = [parcel EXCEPT ![x] = q] /\ canceled' = canceled
    BY <1>2 DEF OpenAsked
  <2>2. Bought - canceled[m] \in 0..Bought
    BY CanceledInt, ShelfAssumption
  <2>3. ParcelOK(q) /\ q.status = "asked"
    BY <2>2 DEF ParcelOK, Units
  <2> HIDE DEF q
  <2>4. \A y \in Parcels : parcel'[y] = IF y = x THEN q ELSE parcel[y]
    BY <1>p, <2>1
  <2> QED
    BY <2>1, <2>3, <2>4, LooserParcel
<1>3. ASSUME NEW x \in Parcels, OpenCommits(x)
      PROVE  Looser(canceled[l], Committed(l), canceled'[l], Committed(l)')
  <2> DEFINE q == [parcel[x] EXCEPT !.status = "live"]
  <2>1. parcel[x].status = "opening" /\ parcel' = [parcel EXCEPT ![x].status = "live"] /\ canceled' = canceled
    BY <1>3 DEF OpenCommits
  <2>2. parcel' = [parcel EXCEPT ![x] = q]
    BY <2>1, ParcelIs
  <2>3. ParcelOK(q) /\ q.line = parcel[x].line /\ q.units = parcel[x].units
    BY <2>1, ParcelIs DEF ParcelOK
  <2> HIDE DEF q
  <2>4. \A y \in Parcels : parcel'[y] = IF y = x THEN q ELSE parcel[y]
    BY <1>p, <2>2
  <2> QED
    BY <2>1, <2>3, <2>4, LooserParcel
<1>4. ASSUME NEW x \in Parcels, OpenFails(x)
      PROVE  Looser(canceled[l], Committed(l), canceled'[l], Committed(l)')
  <2>1. parcel' = [parcel EXCEPT ![x] = NoParcel] /\ canceled' = canceled
    BY <1>4 DEF OpenFails
  <2>2. \A y \in Parcels : parcel'[y] = IF y = x THEN NoParcel ELSE parcel[y]
    BY <1>p, <2>1
  <2>3. NoParcel.status = "none"
    BY DEF NoParcel
  <2> QED
    BY <2>1, <2>2, <2>3, NoParcelOK, LooserParcel
<1>5. ASSUME NEW x \in Parcels, CancelFulfillment(x)
      PROVE  Looser(canceled[l], Committed(l), canceled'[l], Committed(l)')
  <2> DEFINE q == [NoParcel EXCEPT !.status = "canceled"]
  <2>1. parcel' = [parcel EXCEPT ![x] = q] /\ canceled' = canceled
    BY <1>5 DEF CancelFulfillment
  <2>2. \A y \in Parcels : parcel'[y] = IF y = x THEN q ELSE parcel[y]
    BY <1>p, <2>1
  <2>3. ParcelOK(q) /\ q.status = "canceled"
    BY NoParcelOK
  <2> HIDE DEF q
  <2> QED
    BY <2>1, <2>2, <2>3, LooserParcel
<1>6. ASSUME NEW x \in Parcels, MarkReturned(x)
      PROVE  Looser(canceled[l], Committed(l), canceled'[l], Committed(l)')
  <2> DEFINE q == [parcel[x] EXCEPT !.status = "returned"]
  <2>1. parcel[x].status = "live" /\ parcel' = [parcel EXCEPT ![x].status = "returned"] /\ canceled' = canceled
    BY <1>6 DEF MarkReturned
  <2>2. parcel' = [parcel EXCEPT ![x] = q]
    BY <2>1, ParcelIs
  <2>3. ParcelOK(q) /\ q.status = "returned"
    BY <2>1, ParcelIs DEF ParcelOK
  <2> HIDE DEF q
  <2>4. \A y \in Parcels : parcel'[y] = IF y = x THEN q ELSE parcel[y]
    BY <1>p, <2>2
  <2> QED
    BY <2>1, <2>3, <2>4, LooserParcel
<1> QED
  BY <1>1, <1>2, <1>3, <1>4, <1>5, <1>6, LooserOpenLocked DEF Operator

\* The claims that the steps leave alone.
LEMMA WritesStay ==
    ASSUME Typed, NEW p \in Places, WritesAt(p), NEW l \in Lines
    PROVE  Stays(l, claim[l], claim'[l]) /\ claim'[l].withdrawn = claim[l].withdrawn
<1>1. ClaimOK(l, claim[l])
  BY DEF Typed, ClaimsOK
<1>2. CASE claim'[l] = claim[l]
  BY <1>2 DEF Stays
<1>3. CASE claim[l].status = "waiting" /\ claim'[l] = FilledAt(claim[l], p)
  BY <1>1, <1>3, ClaimFilled DEF Stays, ClaimOK
<1> QED
  BY <1>2, <1>3 DEF WritesAt, Fills

\* A settlement leaves filled claims and other lines' claims alone.
LEMMA SettleStays ==
    ASSUME Typed, NEW l \in Lines, NEW window \in Units,
           claim' = [claim EXCEPT ![l] = SettledClaim(l, window)], NEW m \in Lines
    PROVE  /\ Stays(m, claim[m], claim'[m])
           /\ m # l => claim'[m] = claim[m]
           /\ claim'[l] = SettledClaim(l, window)
<1>1. \A i \in Lines : claim'[i] = IF i = l THEN SettledClaim(l, window) ELSE claim[i]
  BY SettledNone DEF Typed
<1>2. ClaimOK(l, claim[l])
  BY DEF Typed, ClaimsOK
<1>3. claim[l].status \notin {"waiting", "unplaced"} => SettledClaim(l, window) = claim[l]
  BY <1>2, SettledShape
<1>4. l \in Reserved => claim[l].status = "none"
  BY <1>2 DEF ClaimOK
<1> QED
  BY <1>1, <1>3, <1>4 DEF Stays

\* Parcels that do not change hold the same.
LEMMA CommittedSame == ASSUME parcel' = parcel, NEW l PROVE Committed(l)' = Committed(l)
BY DEF Committed

\* A step that gives nothing back and settles nothing.
LEMMA LimitsQuiet ==
    ASSUME Typed, Limits, excused \subseteq excused', UNCHANGED <<canceled, parcel, returned>>,
           \A l \in Lines : Stays(l, claim[l], claim'[l]) /\ claim'[l].withdrawn = claim[l].withdrawn,
           WindowsStay(checkout, checkout'),
           \A h \in Handlers : \/ handler'[h] = handler[h]
                               \/ \A l \in Lines \ excused :
                                     HandlerFits(l, handler'[h], claim'[l], canceled[l], Committed(l))
    PROVE  Limits'
<1> SUFFICES ASSUME NEW l \in Lines \ excused'
             PROVE  LimitOf(l, canceled'[l], Committed(l)', claim'[l], returned'[l], checkout', handler')
  BY DEF Limits
<1>1. l \notin excused /\ canceled' = canceled /\ returned' = returned /\ Committed(l)' = Committed(l)
  BY CommittedSame
<1>2. Looser(canceled[l], Committed(l), canceled[l], Committed(l))
  BY LooserSame
<1>3. \A h \in Handlers : handler'[h] = handler[h]
                          \/ HandlerFits(l, handler'[h], claim'[l], canceled[l], Committed(l))
  BY <1>1
<1>4. Stays(l, claim[l], claim'[l]) /\ claim'[l].withdrawn = claim[l].withdrawn
  OBVIOUS
<1>5. LimitOf(l, canceled[l], Committed(l), claim'[l], returned[l], checkout', handler')
  BY <1>1, <1>2, <1>3, <1>4, LimitStep
<1> QED
  BY <1>1, <1>5

\* A checkout that does not move keeps its windows.
LEMMA WindowsStaySame == ASSUME NEW co PROVE WindowsStay(co, co)
BY DEF WindowsStay

\* A claim that does not change stays.
LEMMA StaysSame == ASSUME NEW l, NEW c PROVE Stays(l, c, c)
BY DEF Stays

\* One delivery moves.
LEMMA LimitsHandler ==
    ASSUME Typed, Limits, NEW h \in Handlers, NEW m, handler' = [handler EXCEPT ![h] = m],
           UNCHANGED <<claim, returned, canceled, parcel, checkout, excused>>,
           \A l \in Lines \ excused : HandlerFits(l, m, claim[l], canceled[l], Committed(l))
    PROVE  Limits'
<1>1. \A g \in Handlers : handler'[g] = IF g = h THEN m ELSE handler[g]
  BY DEF Typed, HandlersOK
<1>2. \A g \in Handlers : \/ handler'[g] = handler[g]
                          \/ \A l \in Lines \ excused :
                                HandlerFits(l, handler'[g], claim'[l], canceled[l], Committed(l))
  BY <1>1
<1>3. \A l \in Lines : Stays(l, claim[l], claim'[l]) /\ claim'[l].withdrawn = claim[l].withdrawn
  BY StaysSame
<1>4. WindowsStay(checkout, checkout')
  BY WindowsStaySame
<1> QED
  BY <1>2, <1>3, <1>4, LimitsQuiet

\* A delivery that has not counted has no window to fit.
LEMMA FitsNothing ==
    ASSUME NEW m, m.pc \in {"idle", "count"}, NEW l, NEW c, NEW n, NEW k
    PROVE  HandlerFits(l, m, c, n, k)
BY DEF HandlerFits

\* What may be given back: a delivery is with the event it was called for.
LEMMA LimitsCount ==
    ASSUME Typed, Limits, NEW h \in Handlers, NEW e \in events, NEW total \in Units,
           total <= canceled[e.line], Count(h, e, total),
           UNCHANGED <<claim, returned, canceled, parcel, checkout, excused>>
    PROVE  Limits'
<1> DEFINE window == TargetOnShelf(total, Held(e.line))
           m == [pc |-> "sold", event |-> e, line |-> e.line, window |-> window]
<1>1. CASE window = 0
  <2>1. handler' = [handler EXCEPT ![h] = Idle] /\ Idle.pc = "idle"
    BY <1>1 DEF Count, Stand, Idle
  <2>2. \A l \in Lines \ excused : HandlerFits(l, Idle, claim[l], canceled[l], Committed(l))
    BY <2>1, FitsNothing
  <2> QED
    BY <2>1, <2>2, LimitsHandler
<1>2. CASE window # 0
  <2>1. handler' = [handler EXCEPT ![h] = m] /\ dispatch = {}
    BY <1>2 DEF Count, Stand, Countable
  <2>2. e.line \in Lines /\ Held(e.line) \in Nat /\ Committed(e.line) = Held(e.line)
    BY <2>1, EventIs, HeldIs DEF Typed
  <2>3. window \in Units /\ window <= total /\ (window > 0 => window + Held(e.line) <= Bought)
    BY <2>2, WindowIs
  <2> HIDE DEF window
  <2>4. canceled[e.line] \in Int /\ total \in 0..Bought /\ window \in 0..Bought
    BY <2>2, <2>3, CanceledInt DEF Units
  <2>5. Fit(window, canceled[e.line], Committed(e.line))
    BY <1>2, <2>2, <2>3, <2>4 DEF Fit
  <2>6. m.pc = "sold" /\ m.line = e.line /\ m.window = window
    OBVIOUS
  <2> HIDE DEF m
  <2>7. \A l \in Lines \ excused : HandlerFits(l, m, claim[l], canceled[l], Committed(l))
    BY <2>5, <2>6 DEF HandlerFits
  <2> QED
    BY <2>1, <2>7, LimitsHandler
<1> QED
  BY <1>1, <1>2

\* What may be given back: a delivery of a write-off begins with the total the event
\* carries.
LEMMA LimitsHandleLineCanceled ==
    ASSUME Typed, Limits, NEW h \in Handlers, NEW e \in events, HandleLineCanceled(h, e)
    PROVE  Limits'
<1>1. Count(h, e, e.total) /\ e.about = "line"
      /\ UNCHANGED <<claim, returned, canceled, parcel, checkout, excused>>
  BY DEF HandleLineCanceled, stock, order
<1>2. e.total \in Units /\ e.total <= canceled[e.line]
  BY <1>1, EventIs DEF Units
<1> QED
  BY <1>1, <1>2, LimitsCount

\* What may be given back: a delivery counts what parcels hold and has its window.
LEMMA LimitsCountHeld ==
    ASSUME Typed, Limits, NEW h \in Handlers, CountHeld(h)
    PROVE  Limits'
<1>1. Count(h, handler[h].event, handler[h].total) /\ handler[h].pc = "count"
      /\ UNCHANGED <<claim, returned, canceled, parcel, checkout, excused>>
  BY DEF CountHeld, stock, order
<1>2. handler[h].event \in events /\ handler[h].total \in Units
      /\ handler[h].total <= canceled[handler[h].event.line]
  BY <1>1, HandlerIs, HandlerFields
<1> QED
  BY <1>1, <1>2, LimitsCount

\* What may be given back: a delivery of a parcel's end begins with the total the order
\* shows.
LEMMA LimitsRecountParcel ==
    ASSUME Typed, Limits, NEW h \in Handlers, NEW e \in events, RecountParcel(h, e)
    PROVE  Limits'
<1> DEFINE m == [pc |-> "count", event |-> e, total |-> canceled[e.line]]
<1>1. handler' = [handler EXCEPT ![h] = m] /\ m.pc = "count"
      /\ UNCHANGED <<claim, returned, canceled, parcel, checkout, excused>>
  BY DEF RecountParcel, Stand, stock, order
<1> HIDE DEF m
<1>2. \A l \in Lines \ excused : HandlerFits(l, m, claim[l], canceled[l], Committed(l))
  BY <1>1, FitsNothing
<1> QED
  BY <1>1, <1>2, LimitsHandler

\* What may be given back: a delivery has read where the line was sold from.
LEMMA LimitsReadShelves ==
    ASSUME Typed, Limits, NEW h \in Handlers, ReadShelves(h)
    PROVE  Limits'
<1> DEFINE m == [pc |-> "settle", event |-> handler[h].event, line |-> handler[h].line,
                 window |-> handler[h].window, soldAt |-> IF sold = {} THEN NoPlace ELSE 1]
<1>1. handler[h].pc = "sold" /\ handler' = [handler EXCEPT ![h] = m]
      /\ m.pc = "settle" /\ m.line = handler[h].line /\ m.window = handler[h].window
      /\ UNCHANGED <<claim, returned, canceled, parcel, checkout, excused>>
  BY DEF ReadShelves, Stand, stock, order
<1> HIDE DEF m
<1>2. \A l \in Lines \ excused : HandlerFits(l, handler[h], claim[l], canceled[l], Committed(l))
  BY DEF Limits, LimitOf
<1>3. \A l \in Lines \ excused : HandlerFits(l, m, claim[l], canceled[l], Committed(l))
  BY <1>1, <1>2 DEF HandlerFits
<1> QED
  BY <1>1, <1>3, LimitsHandler

\* What may be given back: a delivery ends with an error and its event comes again.
LEMMA LimitsDeliveryFails ==
    ASSUME Typed, Limits, NEW h \in Handlers, DeliveryFails(h)
    PROVE  Limits'
<1>1. handler' = [handler EXCEPT ![h] = Idle] /\ Idle.pc = "idle"
      /\ UNCHANGED <<claim, returned, canceled, parcel, checkout, excused>>
  BY DeliveryFailsShape DEF Idle
<1>2. \A l \in Lines \ excused : HandlerFits(l, Idle, claim[l], canceled[l], Committed(l))
  BY <1>1, FitsNothing
<1> QED
  BY <1>1, <1>2, LimitsHandler

\* What a handler puts back fits as long as it says the same of it.
LEMMA FitsAlike ==
    ASSUME NEW m, NEW t, m.pc = "drain", t.pc \in {"drain", "put"}, t.line = m.line, t.target = m.target,
           t.shelf = m.shelf, NEW l, NEW c, NEW n, NEW k, HandlerFits(l, m, c, n, k)
    PROVE  HandlerFits(l, t, c, n, k)
BY DEF HandlerFits

\* What may be given back: a delivery goes on with a queue it could not serve, and asks to
\* be called again.
LEMMA LimitsDrainFails ==
    ASSUME Typed, Limits, NEW h \in Handlers, DrainFails(h)
    PROVE  Limits'
<1> DEFINE m == handler[h]
           t == [m EXCEPT !.pc = "put", !.left = {}, !.failed = TRUE]
<1>1. /\ m.pc = "drain" /\ t.pc = "put" /\ t.line = m.line /\ t.target = m.target /\ t.shelf = m.shelf
      /\ handler' = [handler EXCEPT ![h] = t]
      /\ UNCHANGED <<claim, returned, canceled, parcel, checkout, excused>>
  BY DrainFailsShape
<1> HIDE DEF t
<1>2. \A l \in Lines \ excused : HandlerFits(l, handler[h], claim[l], canceled[l], Committed(l))
  BY DEF Limits, LimitOf
<1>3. \A l \in Lines \ excused : HandlerFits(l, t, claim[l], canceled[l], Committed(l))
  BY <1>1, <1>2, FitsAlike
<1> QED
  BY <1>1, <1>3, LimitsHandler

\* A waiting claim is brought up to a window that fits.
LEMMA SettledGone ==
    ASSUME Typed, Limits, NEW l \in Lines \ excused, NEW window \in Units,
           Fit(window, canceled[l], Committed(l))
    PROVE  LET c == SettledClaim(l, window)
           IN \/ c.withdrawn = claim[l].withdrawn
              \/ /\ Fit(c.withdrawn + returned[l].units, canceled[l], Committed(l))
                 /\ Credit(l, c, returned[l])
<1> DEFINE c == SettledClaim(l, window)
<1>1. ClaimOK(l, claim[l]) /\ Credit(l, claim[l], returned[l])
  BY DEF Typed, ClaimsOK, Limits, LimitOf
<1>2. CASE claim[l].status \notin {"waiting", "unplaced"}
  BY <1>1, <1>2, SettledShape
<1>3. CASE claim[l].status \in {"waiting", "unplaced"}
  <2>1. c.withdrawn = claim[l].withdrawn \/ c.withdrawn = window
    BY <1>1, <1>3, SettledShape
  <2>2. l \in Backordered
    BY <1>1, <1>3 DEF ClaimOK, Backordered
  <2>3. returned[l].units = 0 /\ returned[l].at = {}
    BY <1>1, <1>3, <2>2 DEF Credit
  <2>4. window + returned[l].units = window
    BY <2>3 DEF Units
  <2> HIDE DEF c
  <2>5. Credit(l, c, returned[l])
    BY <2>3 DEF Credit
  <2>6. c.withdrawn = window => Fit(c.withdrawn + returned[l].units, canceled[l], Committed(l))
    BY <2>4
  <2> QED
    BY <2>1, <2>5, <2>6 DEF c
<1> QED
  BY <1>2, <1>3

\* What the delivery will then put back is the rest of its window.
LEMMA SettledFits ==
    ASSUME Typed, NEW l \in Lines \ excused, NEW m, m.window \in Units,
           Fit(m.window, canceled[l], Committed(l)), m.soldAt # NoPlace => sold # {}
    PROVE  LET c == SettledClaim(l, m.window)
           IN HandlerFits(l, Settled(m, c), c, canceled[l], Committed(l))
<1> DEFINE c == SettledClaim(l, m.window)
           t == Settled(m, c)
<1>1. ClaimOK(l, claim[l]) /\ ClaimOK(l, c)
  BY SettledShape DEF Typed, ClaimsOK
<1>2. c.status = "none" => claim[l].status = "none"
  BY <1>1, SettledShape
<1>3. /\ t.pc \in {"drain", "put"} /\ t.target = Target(m.window, c)
      /\ t.shelf = IF c.status = "filled" THEN c.at ELSE m.soldAt
  BY DEF Settled
<1> HIDE DEF t, c
<1>4. ASSUME t.target > 0, t.shelf # NoPlace
      PROVE  /\ Fit(c.withdrawn + t.target, canceled[l], Committed(l))
             /\ l \in Backordered => c.status = "filled" /\ t.shelf = c.at
  <2>1. /\ c.status = "none" => t.target = m.window
        /\ c.status \in {"waiting", "unplaced", "withdrawn"} => t.target = 0
        /\ c.status = "filled" => t.target = m.window - c.withdrawn
    BY <1>1, <1>3, <1>4, TargetIs
  <2>2. CASE c.status = "filled"
    <3>1. c.withdrawn + t.target = m.window
      BY <1>1, <2>1, <2>2 DEF ClaimOK, Units
    <3> QED
      BY <1>3, <2>2, <3>1
  <2>3. CASE c.status = "none"
    <3>1. c.withdrawn = 0
      BY <1>1, <2>3 DEF ClaimOK, NoClaim
    <3>2. c.withdrawn + t.target = m.window
      BY <2>1, <2>3, <3>1 DEF Units
    <3>3. l \notin Backordered
      <4>1. SUFFICES ASSUME l \in Backordered PROVE FALSE
        OBVIOUS
      <4>2. checkout.pc = "claim"
        BY <1>2, <2>3, <4>1 DEF Typed, ClaimedOK
      <4>3. sold = {}
        BY <4>2, UnsoldYet
      <4> QED
        BY <1>3, <1>4, <2>3, <4>3
    <3> QED
      BY <3>2, <3>3
  <2>4. CASE c.status \in {"waiting", "unplaced", "withdrawn"}
    BY <1>4, <2>1, <2>4
  <2> QED
    BY <1>1, <2>2, <2>3, <2>4 DEF ClaimOK
<1>5. HandlerFits(l, t, c, canceled[l], Committed(l))
  BY <1>3, <1>4 DEF HandlerFits
<1> QED
  BY <1>5 DEF c, t

\* What may be given back: a delivery settles the claim of its line under the claim's
\* lock.
LEMMA LimitsSettle ==
    ASSUME Typed, Limits, NEW h \in Handlers, Settle(h)
    PROVE  Limits'
<1> SUFFICES ASSUME NEW l \in Lines \ excused'
             PROVE  LimitOf(l, canceled'[l], Committed(l)', claim'[l], returned'[l], checkout', handler')
  BY DEF Limits
<1> DEFINE m == handler[h]
           c == SettledClaim(m.line, m.window)
           t == Settled(m, c)
<1>1. /\ m.pc = "settle" /\ m.line \in Lines /\ m.window \in Units
      /\ m.soldAt # NoPlace => sold # {}
      /\ handler' = [handler EXCEPT ![h] = t]
      /\ claim' = [claim EXCEPT ![m.line] = c]
      /\ UNCHANGED <<returned, canceled, parcel, checkout, excused>>
  BY SettleShape
<1>2. \A g \in Handlers : handler'[g] = IF g = h THEN t ELSE handler[g]
  BY <1>1 DEF Typed, HandlersOK
<1>3. Stays(l, claim[l], claim'[l]) /\ (l # m.line => claim'[l] = claim[l]) /\ claim'[m.line] = c
  BY <1>1, SettleStays
<1>4. l \notin excused /\ Committed(l)' = Committed(l) /\ Looser(canceled[l], Committed(l), canceled[l], Committed(l))
      /\ WindowsStay(checkout, checkout)
  BY <1>1, CommittedSame, LooserSame, WindowsStaySame
<1>5. t.line = m.line
  BY DEF Settled
<1>6. HandlerFits(l, m, claim[l], canceled[l], Committed(l))
  BY <1>4 DEF Limits, LimitOf
<1> HIDE DEF t
<1>7. CASE l # m.line
  <2>1. HandlerFits(l, t, claim'[l], canceled[l], Committed(l))
    <3>1. t.pc \in {"drain", "put"}
      BY DEF t, Settled
    <3> QED
      BY <1>5, <1>7, <3>1 DEF HandlerFits
  <2>2. claim'[l].withdrawn = claim[l].withdrawn
    BY <1>3, <1>7
  <2>3. \A g \in Handlers : handler'[g] = handler[g] \/ HandlerFits(l, handler'[g], claim'[l], canceled[l], Committed(l))
    BY <1>2, <2>1
  <2>4. LimitOf(l, canceled[l], Committed(l), claim'[l], returned[l], checkout, handler')
    BY <1>3, <1>4, <2>2, <2>3, LimitStep
  <2> QED
    BY <1>1, <1>4, <2>4
<1>8. CASE l = m.line
  <2>1. Fit(m.window, canceled[l], Committed(l))
    BY <1>1, <1>6, <1>8 DEF HandlerFits
  <2>2. claim'[l] = c /\ c = SettledClaim(l, m.window)
    BY <1>3, <1>8
  <2>3. HandlerFits(l, t, claim'[l], canceled[l], Committed(l))
    BY <1>1, <1>4, <2>1, <2>2, SettledFits DEF t
  <2>4. \/ claim'[l].withdrawn = claim[l].withdrawn
        \/ /\ Fit(claim'[l].withdrawn + returned[l].units, canceled[l], Committed(l))
           /\ Credit(l, claim'[l], returned[l])
    BY <1>1, <1>4, <2>1, <2>2, SettledGone
  <2>5. \A g \in Handlers : handler'[g] = handler[g] \/ HandlerFits(l, handler'[g], claim'[l], canceled[l], Committed(l))
    BY <1>2, <2>3
  <2>6. LimitOf(l, canceled[l], Committed(l), claim'[l], returned[l], checkout, handler')
    BY <1>3, <1>4, <2>4, <2>5, LimitStep
  <2> QED
    BY <1>1, <1>4, <2>6
<1> QED
  BY <1>7, <1>8

\* What may be given back: a delivery lets the queue have what one warehouse has.
LEMMA LimitsDrain ==
    ASSUME Typed, Limits, NEW h \in Handlers, Drain(h)
    PROVE  Limits'
<1> DEFINE m == handler[h]
           p == Min(m.left)
           left == m.left \ {p}
           over == left = {} \/ claim'[m.line].status # "waiting"
           t == Drained(m, left, over)
<1>1. /\ m.pc = "drain" /\ m \in Putting(events) /\ ~m.failed /\ p \in Places /\ left \in SUBSET Places
      /\ WritesAt(p) /\ handler' = [handler EXCEPT ![h] = t]
      /\ UNCHANGED <<returned, canceled, parcel, checkout, excused>>
  BY DrainSteps
<1>2. over \in BOOLEAN
  OBVIOUS
<1> HIDE DEF over, left, p
<1>3. t.line = m.line /\ t.target = m.target /\ t.shelf = m.shelf /\ t.pc \in {"drain", "put"}
  BY <1>1, <1>2, DrainedFields
<1> HIDE DEF t
<1>4. \A g \in Handlers : handler'[g] = IF g = h THEN t ELSE handler[g]
  BY <1>1 DEF Typed, HandlersOK
<1>5. \A l \in Lines : Stays(l, claim[l], claim'[l]) /\ claim'[l].withdrawn = claim[l].withdrawn
  BY <1>1, WritesStay
<1>6. ASSUME NEW l \in Lines \ excused
      PROVE  HandlerFits(l, t, claim'[l], canceled[l], Committed(l))
  <2>1. HandlerFits(l, m, claim[l], canceled[l], Committed(l)) /\ ClaimOK(l, claim[l])
    BY DEF Limits, LimitOf, Typed, ClaimsOK
  <2>2. HandlerOK(m, events, canceled, sold)
    BY HandlerIs
  <2>3. HandlerFits(l, m, claim'[l], canceled[l], Committed(l))
    BY <1>5, <2>1, <2>2, LooserSame, HandlerFitsKept
  <2> QED
    BY <1>1, <1>3, <2>3, FitsAlike
<1>7. \A g \in Handlers : \/ handler'[g] = handler[g]
                          \/ \A l \in Lines \ excused :
                                HandlerFits(l, handler'[g], claim'[l], canceled[l], Committed(l))
  BY <1>4, <1>6
<1>8. WindowsStay(checkout, checkout')
  BY <1>1, WindowsStaySame
<1> QED
  BY <1>1, <1>5, <1>7, <1>8, LimitsQuiet

\* What is put back fits, and was taken from that shelf.
LEMMA CreditsFit ==
    ASSUME Typed, Limits, NEW h \in Handlers, handler[h].pc = "put", handler[h].line \notin excused,
           handler[h].line \in Lines, handler[h].target \in Units, Credits(h)
    PROVE  LET l == handler[h].line
           IN /\ Fit(claim'[l].withdrawn + returned'[l].units, canceled[l], Committed(l))
              /\ Credit(l, claim'[l], returned'[l])
<1> DEFINE l == handler[h].line
           p == handler[h].shelf
<1>1. /\ handler[h].target > 0 /\ p \in Places /\ p # NoPlace /\ WritesAt(p)
      /\ returned' = [returned EXCEPT ![l] = [units |-> handler[h].target, at |-> returned[l].at \cup {p}]]
  BY ShelfAssumption DEF Credits
<1>2. returned'[l].units = handler[h].target /\ returned'[l].at = returned[l].at \cup {p}
  BY <1>1 DEF Typed, ReturnsOK
<1>3. HandlerFits(l, handler[h], claim[l], canceled[l], Committed(l)) /\ Credit(l, claim[l], returned[l])
  BY DEF Limits, LimitOf
<1>4. Fit(claim[l].withdrawn + handler[h].target, canceled[l], Committed(l))
      /\ (l \in Backordered => claim[l].status = "filled" /\ p = claim[l].at)
  BY <1>1, <1>3 DEF HandlerFits
<1>5. Stays(l, claim[l], claim'[l]) /\ claim'[l].withdrawn = claim[l].withdrawn
  BY <1>1, WritesStay
<1>6. l \in Backordered => claim'[l] = claim[l]
  BY <1>4, <1>5 DEF Stays
<1>7. Credit(l, claim'[l], returned'[l])
  BY <1>2, <1>3, <1>4, <1>6 DEF Credit
<1> QED
  BY <1>2, <1>4, <1>5, <1>7

\* What may be given back: a delivery gives units back, unless the line has them already.
LEMMA LimitsPutBack ==
    ASSUME Typed, Limits, NEW h \in Handlers, PutBack(h)
    PROVE  Limits'
<1> DEFINE m == handler[h]
<1>1. /\ m.pc = "put" /\ m.line \in Lines /\ m.target \in Units
      /\ handler' = [handler EXCEPT ![h] = Idle]
      /\ Skips(h) \/ Credits(h)
      /\ UNCHANGED <<canceled, parcel, checkout>>
  BY PutBackShape
<1>2. \A g \in Handlers : handler'[g] = IF g = h THEN Idle ELSE handler[g]
  BY <1>1 DEF Typed, HandlersOK
<1>3. \A g \in Handlers : \/ handler'[g] = handler[g]
                          \/ \A l \in Lines \ excused :
                                HandlerFits(l, handler'[g], claim'[l], canceled[l], Committed(l))
  <2>1. Idle.pc \in {"idle", "count"}
    BY DEF Idle
  <2> QED
    BY <1>2, <2>1, FitsNothing
<1>4. WindowsStay(checkout, checkout')
  BY <1>1, WindowsStaySame
<1>5. CASE Skips(h)
  <2>1. UNCHANGED <<claim, returned>> /\ excused \subseteq excused'
    BY <1>5 DEF Skips
  <2>2. \A l \in Lines : Stays(l, claim[l], claim'[l]) /\ claim'[l].withdrawn = claim[l].withdrawn
    BY <2>1, StaysSame
  <2> QED
    BY <1>1, <1>3, <1>4, <2>1, <2>2, LimitsQuiet
<1>6. CASE Credits(h)
  <2> SUFFICES ASSUME NEW l \in Lines \ excused'
               PROVE  LimitOf(l, canceled'[l], Committed(l)', claim'[l], returned'[l], checkout', handler')
    BY DEF Limits
  <2>1. PICK p \in Places : WritesAt(p)
    BY <1>6 DEF Credits
  <2>2. excused' = excused
        /\ returned' = [returned EXCEPT ![m.line] = [units |-> m.target, at |-> returned[m.line].at \cup {m.shelf}]]
    BY <1>6 DEF Credits
  <2>3. Stays(l, claim[l], claim'[l]) /\ claim'[l].withdrawn = claim[l].withdrawn
    BY <2>1, WritesStay
  <2>4. \/ returned'[l] = returned[l]
        \/ /\ Fit(claim'[l].withdrawn + returned'[l].units, canceled[l], Committed(l))
           /\ Credit(l, claim'[l], returned'[l])
    <3>1. CASE l = m.line
      BY <1>1, <1>6, <2>2, <3>1, CreditsFit
    <3>2. CASE l # m.line
      BY <2>2, <3>2 DEF Typed, ReturnsOK
    <3> QED
      BY <3>1, <3>2
  <2>5. Looser(canceled[l], Committed(l), canceled[l], Committed(l)) /\ Committed(l)' = Committed(l)
    BY <1>1, LooserSame, CommittedSame
  <2>6. \A g \in Handlers : handler'[g] = handler[g] \/ HandlerFits(l, handler'[g], claim'[l], canceled[l], Committed(l))
    BY <1>3, <2>2
  <2>7. LimitOf(l, canceled[l], Committed(l), claim'[l], returned'[l], checkout', handler')
    BY <1>4, <2>2, <2>3, <2>4, <2>5, <2>6, LimitStep
  <2> QED
    BY <1>1, <2>5, <2>7
<1> QED
  BY <1>1, <1>5, <1>6

\* The steps of the others.
LEMMA LimitsWrite ==
    ASSUME Typed, Limits, NEW p \in Places, WritesAt(p), excused \subseteq excused',
           UNCHANGED <<canceled, parcel, returned, handler>>, WindowsStay(checkout, checkout')
    PROVE  Limits'
<1>1. \A l \in Lines : Stays(l, claim[l], claim'[l]) /\ claim'[l].withdrawn = claim[l].withdrawn
  BY WritesStay
<1> QED
  BY <1>1, LimitsQuiet

\* What may be given back: stock arrives at a warehouse and fills the queue.
LEMMA LimitsArrive ==
    ASSUME Typed, Limits, NEW p \in Places, Arrive(p)
    PROVE  Limits'
<1>1. WriteQuantities(p, stocked[p] + 1, reserved[p])
      /\ UNCHANGED <<canceled, parcel, returned, handler, checkout, excused>>
  BY DEF Arrive, order
<1>2. stocked[p] + 1 \in Int /\ reserved[p] \in Int
  BY DEF Typed, StockOK
<1>3. WritesAt(p)
  BY <1>1, <1>2, WriteShape
<1> QED
  BY <1>1, <1>3, WindowsStaySame, LimitsWrite

\* What may be given back: an operator writes units off or moves a parcel.
LEMMA LimitsOperator ==
    ASSUME Typed, Limits, Operator
    PROVE  Limits'
<1> SUFFICES ASSUME NEW l \in Lines \ excused'
             PROVE  LimitOf(l, canceled'[l], Committed(l)', claim'[l], returned'[l], checkout', handler')
  BY DEF Limits
<1>1. UNCHANGED <<claim, returned, checkout, handler>> /\ excused \subseteq excused'
  BY DEF Operator, CancelOrderLine, OpenAsked, OpenLocked, OpenCommits, OpenFails, CancelFulfillment,
         MarkReturned, stock
<1>2. Looser(canceled[l], Committed(l), canceled'[l], Committed(l)')
  BY LooserOperator
<1>3. PICK n2, k2 : n2 = canceled'[l] /\ k2 = Committed(l)'
  OBVIOUS
<1>4. Stays(l, claim[l], claim[l]) /\ WindowsStay(checkout, checkout)
  BY StaysSame, WindowsStaySame
<1>5. LimitOf(l, n2, k2, claim[l], returned[l], checkout, handler)
  BY <1>1, <1>2, <1>3, <1>4, LimitStep
<1> QED
  BY <1>1, <1>3, <1>5

\* A step of the checkout that leaves the claims as they are, or only records one.
LEMMA LimitsCheckout ==
    ASSUME Typed, Limits, UNCHANGED <<canceled, parcel, returned, handler>>, excused \subseteq excused',
           \A l \in Lines : claim'[l] = claim[l] \/ (claim[l] = NoClaim /\ l \in Backordered /\ claim'[l].withdrawn = 0),
           WindowsStay(checkout, checkout')
    PROVE  Limits'
<1>1. ASSUME NEW l \in Lines
      PROVE  Stays(l, claim[l], claim'[l]) /\ claim'[l].withdrawn = claim[l].withdrawn
  <2>1. CASE claim'[l] = claim[l]
    BY <2>1, StaysSame
  <2>2. CASE claim[l] = NoClaim /\ l \in Backordered /\ claim'[l].withdrawn = 0
    BY <2>2 DEF Stays, NoClaim, Backordered
  <2> QED
    BY <2>1, <2>2
<1> QED
  BY <1>1, LimitsQuiet

\* What may be given back: the checkout records the claim of its next line.
LEMMA LimitsClaimBackorder ==
    ASSUME Typed, Limits, ClaimBackorder
    PROVE  Limits'
<1> DEFINE l == Min(checkout.left)
<1>1. /\ l \in Backordered /\ claim[l] = NoClaim
      /\ \A m \in Lines : claim'[m] = IF m = l THEN Recorded ELSE claim[m]
      /\ checkout'.pc \in {"claim", "read"}
      /\ UNCHANGED <<returned, canceled, parcel, handler, excused>>
  BY ClaimBackorderShape
<1> HIDE DEF l
<1>2. \A m \in Lines : claim'[m] = claim[m] \/ (claim[m] = NoClaim /\ m \in Backordered /\ claim'[m].withdrawn = 0)
  BY <1>1 DEF Recorded
<1>3. WindowsStay(checkout, checkout')
  BY <1>1 DEF WindowsStay
<1> QED
  BY <1>1, <1>2, <1>3, LimitsCheckout

\* What may be given back: a step of the checkout that gives no window.
LEMMA LimitsPasses ==
    ASSUME Typed, Limits, UNCHANGED <<claim, canceled, parcel, returned, handler>>, excused \subseteq excused',
           WindowsStay(checkout, checkout')
    PROVE  Limits'
BY LimitsCheckout

\* What may be given back: the checkout cannot rank the warehouses.
LEMMA LimitsRankingFails ==
    ASSUME Typed, Limits, RankingFails
    PROVE  Limits'
<1>1. checkout'.pc = "claim" /\ UNCHANGED <<claim, returned, canceled, parcel, handler, excused>>
  BY RankingFailsShape
<1>2. WindowsStay(checkout, checkout')
  BY <1>1 DEF WindowsStay
<1> QED
  BY <1>1, <1>2, LimitsPasses

\* What may be given back: a claim that could not be recorded excuses its line.
LEMMA LimitsClaimFails ==
    ASSUME Typed, Limits, ClaimFails
    PROVE  Limits'
<1>1. /\ checkout'.pc = "claim" \/ checkout'.pc = "read" \/ checkout' = Confirming
      /\ excused \subseteq excused' /\ UNCHANGED <<claim, returned, canceled, parcel, handler>>
  BY ClaimFailsShape
<1>2. Confirming.pc \in {"confirm", "done"}
  BY ConfirmingOK
<1>3. WindowsStay(checkout, checkout')
  BY <1>1, <1>2 DEF WindowsStay
<1> QED
  BY <1>1, <1>3, LimitsPasses

\* What may be given back: the checkout has read what was written off meanwhile.
LEMMA LimitsReadWriteOffs ==
    ASSUME Typed, Limits, ReadWriteOffs
    PROVE  Limits'
<1>1. checkout'.pc = "count" /\ UNCHANGED <<claim, returned, canceled, parcel, handler, excused>>
  BY DEF ReadWriteOffs, stock, order
<1>2. WindowsStay(checkout, checkout')
  BY <1>1 DEF WindowsStay
<1> QED
  BY <1>1, <1>2, LimitsPasses

\* What may be given back: the checkout has the windows of its lines, what parcels hold
\* taken off.
LEMMA LimitsCountParcels ==
    ASSUME Typed, Limits, CountParcels
    PROVE  Limits'
<1> SUFFICES ASSUME NEW l \in Lines \ excused'
             PROVE  LimitOf(l, canceled'[l], Committed(l)', claim'[l], returned'[l], checkout', handler')
  BY DEF Limits
<1>1. /\ checkout.pc = "count" /\ checkout'.window \in Windows /\ excused \subseteq excused'
      /\ l \in Backordered => GoodWindow(l, checkout'.window[l])
      /\ UNCHANGED <<claim, returned, canceled, parcel, handler>>
  BY CountParcelsShape
<1>2. checkout.canceled \in Windows /\ checkout.canceled[l] <= canceled[l]
  BY <1>1, CheckoutIs, CheckoutFields
<1>3. /\ checkout.canceled[l] \in Int /\ canceled[l] \in Int /\ Committed(l) \in Nat
      /\ checkout'.window[l] \in 0..Bought /\ Bought \in Nat
  BY <1>1, <1>2, CanceledInt, HeldIs, ShelfAssumption DEF Windows, Units, Typed
<1>4. Fit(claim[l].withdrawn + returned[l].units, canceled[l], Committed(l))
  BY <1>1 DEF Limits, LimitOf
<1>5. claim[l].withdrawn \in 0..Bought /\ returned[l].units \in 0..Bought
  BY DEF Typed, ClaimsOK, ClaimOK, ReturnsOK, Units
<1>6. Committed(l) <= Bought
  BY <1>3, <1>4, <1>5 DEF Fit
<1>7. PICK w \in 0..Bought : w = checkout'.window[l]
  BY <1>3
<1>8. l \in Backordered => Fit(w, canceled[l], Committed(l))
  <2>1. SUFFICES ASSUME l \in Backordered PROVE Fit(w, canceled[l], Committed(l))
    OBVIOUS
  <2>2. w <= checkout.canceled[l] /\ (w > 0 => w + Committed(l) <= Bought)
    BY <1>1, <1>7, <2>1 DEF GoodWindow
  <2> QED
    BY <1>2, <1>3, <1>6, <2>2 DEF Fit
<1>9. CheckoutFits(l, checkout', canceled[l], Committed(l))
  BY <1>7, <1>8 DEF CheckoutFits
<1>10. Committed(l)' = Committed(l) /\ Looser(canceled[l], Committed(l), canceled[l], Committed(l))
       /\ Stays(l, claim[l], claim[l])
  BY <1>1, LooserSame, CommittedSame, StaysSame
<1>11. LimitOf(l, canceled[l], Committed(l), claim[l], returned[l], checkout', handler)
  BY <1>1, <1>9, <1>10, LimitStep
<1> QED
  BY <1>1, <1>10, <1>11

\* The checkout keeps its windows from one line to the next.
LEMMA NextLineWindows ==
    ASSUME checkout.pc \in {"settle", "drain"}, checkout.window \in Windows, NEW left \in SUBSET Backordered,
           checkout' = NextLine(left)
    PROVE  WindowsStay(checkout, checkout')
<1>1. left = {} => NextLine(left).pc \in {"confirm", "done"}
  BY NextLineOK
<1>2. left # {} => NextLine(left).window = checkout.window
  BY NextLineOK
<1> QED
  BY <1>1, <1>2 DEF WindowsStay

\* What may be given back: the checkout settles a claim against its window.
LEMMA LimitsSettleClaim ==
    ASSUME Typed, Limits, SettleClaim
    PROVE  Limits'
<1> SUFFICES ASSUME NEW l \in Lines \ excused'
             PROVE  LimitOf(l, canceled'[l], Committed(l)', claim'[l], returned'[l], checkout', handler')
  BY DEF Limits
<1> DEFINE m == Min(checkout.left)
           left == checkout.left \ {m}
           window == checkout.window[m]
           c == SettledClaim(m, window)
<1>1. /\ checkout.pc = "settle" /\ m \in Lines /\ m \in Backordered /\ checkout.left \in SUBSET Backordered
      /\ checkout.window \in Windows /\ window \in Units
      /\ claim' = [claim EXCEPT ![m] = c] /\ excused \subseteq excused'
      /\ checkout' = IF c.status = "waiting"
                     THEN [pc |-> "drain", left |-> left, window |-> checkout.window,
                           line |-> m, places |-> Places]
                     ELSE NextLine(left)
      /\ UNCHANGED <<returned, canceled, parcel, handler>>
  BY SettleClaimShape
<1>2. left \in SUBSET Backordered
  BY <1>1
<1> HIDE DEF left, c
<1>3. WindowsStay(checkout, checkout')
  <2>1. CASE c.status = "waiting"
    BY <1>1, <2>1 DEF WindowsStay
  <2>2. CASE c.status # "waiting"
    BY <1>1, <1>2, <2>2, NextLineWindows
  <2> QED
    BY <2>1, <2>2
<1>4. Stays(l, claim[l], claim'[l]) /\ (l # m => claim'[l] = claim[l]) /\ claim'[m] = c
  BY <1>1, SettleStays DEF c
<1>5. \/ claim'[l].withdrawn = claim[l].withdrawn
      \/ /\ Fit(claim'[l].withdrawn + returned[l].units, canceled[l], Committed(l))
         /\ Credit(l, claim'[l], returned[l])
  <2>1. CASE l # m
    BY <1>4, <2>1
  <2>2. CASE l = m
    <3>1. CheckoutFits(l, checkout, canceled[l], Committed(l)) /\ l \notin excused
      BY <1>1 DEF Limits, LimitOf
    <3>2. Fit(window, canceled[l], Committed(l))
      BY <1>1, <2>2, <3>1 DEF CheckoutFits
    <3> QED
      BY <1>1, <1>4, <2>2, <3>1, <3>2, SettledGone DEF c
  <2> QED
    BY <2>1, <2>2
<1>6. Committed(l)' = Committed(l) /\ Looser(canceled[l], Committed(l), canceled[l], Committed(l))
  BY <1>1, LooserSame, CommittedSame
<1>7. \A h \in Handlers : handler[h] = handler[h]
  OBVIOUS
<1>8. l \notin excused
  BY <1>1
<1>9. LimitOf(l, canceled[l], Committed(l), claim'[l], returned[l], checkout', handler)
  BY <1>3, <1>4, <1>5, <1>6, <1>7, <1>8, LimitStep
<1> QED
  BY <1>1, <1>6, <1>9

\* What may be given back: the checkout lets the queue have what one warehouse has.
LEMMA LimitsDrainClaim ==
    ASSUME Typed, Limits, DrainClaim
    PROVE  Limits'
<1> DEFINE p == Min(checkout.places)
           places == checkout.places \ {p}
<1>1. /\ checkout.pc = "drain" /\ p \in Places /\ checkout.left \in SUBSET Backordered
      /\ checkout.window \in Windows /\ WritesAt(p)
      /\ \/ checkout' = NextLine(checkout.left)
         \/ checkout' = [pc |-> "drain", left |-> checkout.left, window |-> checkout.window,
                         line |-> checkout.line, places |-> places]
      /\ UNCHANGED <<returned, canceled, parcel, handler, excused>>
  BY DrainClaimShape
<1>2. WindowsStay(checkout, checkout')
  <2>1. CASE checkout' = NextLine(checkout.left)
    BY <1>1, <2>1, NextLineWindows
  <2>2. CASE checkout' = [pc |-> "drain", left |-> checkout.left, window |-> checkout.window,
                          line |-> checkout.line, places |-> places]
    BY <1>1, <2>2 DEF WindowsStay
  <2> QED
    BY <1>1, <2>1, <2>2
<1> QED
  BY <1>1, <1>2, LimitsWrite

\* What may be given back: a settlement the checkout gave up excuses its lines.
LEMMA LimitsSettlementFails ==
    ASSUME Typed, Limits, SettlementFails
    PROVE  Limits'
<1>1. /\ \/ /\ excused' = excused \cup Backordered
            /\ checkout' = Confirming
         \/ \E l \in Lines :
               /\ checkout.pc \in {"settle", "drain"}
               /\ excused' = excused \cup {l} /\ checkout' = NextLine(checkout.left \ {l})
               /\ checkout.left \in SUBSET Backordered /\ checkout.window \in Windows
      /\ UNCHANGED <<claim, returned, canceled, parcel, handler>>
  BY SettlementFailsShape
<1>2. CASE excused' = excused \cup Backordered /\ checkout' = Confirming
  <2>1. WindowsStay(checkout, checkout')
    BY <1>2, ConfirmingOK DEF WindowsStay
  <2> QED
    BY <1>1, <1>2, <2>1, LimitsPasses
<1>3. ASSUME NEW l \in Lines, checkout.pc \in {"settle", "drain"}, excused' = excused \cup {l},
             checkout' = NextLine(checkout.left \ {l}), checkout.left \in SUBSET Backordered,
             checkout.window \in Windows
      PROVE  Limits'
  <2>1. WindowsStay(checkout, checkout')
    BY <1>3, NextLineWindows
  <2> QED
    BY <1>1, <1>3, <2>1, LimitsPasses
<1> QED
  BY <1>1, <1>2, <1>3

\* What may be given back: a reservation becomes a sale and what it frees fills the queue.
LEMMA LimitsConfirmLine ==
    ASSUME Typed, Limits, ConfirmLine
    PROVE  Limits'
<1>1. /\ 1 \in Places /\ WritesAt(1) /\ checkout'.pc \in {"confirm", "done"}
      /\ UNCHANGED <<returned, canceled, parcel, handler, excused>>
  BY ConfirmLineShape
<1>2. WindowsStay(checkout, checkout')
  BY <1>1 DEF WindowsStay
<1> QED
  BY <1>1, <1>2, LimitsWrite

\* What may be given back: a reservation that could not be confirmed excuses its line.
LEMMA LimitsConfirmFails ==
    ASSUME Typed, Limits, ConfirmFails
    PROVE  Limits'
<1>1. /\ checkout'.pc \in {"confirm", "done"} /\ excused \subseteq excused'
      /\ UNCHANGED <<claim, returned, canceled, parcel, handler>>
  BY ConfirmFailsShape
<1>2. WindowsStay(checkout, checkout')
  BY <1>1 DEF WindowsStay
<1> QED
  BY <1>1, <1>2, LimitsPasses

\* What may be given back: nothing yet.
LEMMA LimitsInit ==
    ASSUME Init
    PROVE  Limits
<1> SUFFICES ASSUME NEW l \in Lines
             PROVE  LimitOf(l, canceled[l], Committed(l), claim[l], returned[l], checkout, handler)
  BY DEF Limits
<1>1. /\ claim = [m \in Lines |-> NoClaim] /\ canceled = [m \in Lines |-> 0]
      /\ returned = [m \in Lines |-> [units |-> 0, at |-> {}]]
      /\ parcel = [x \in Parcels |-> NoParcel] /\ handler = [h \in Handlers |-> Idle]
      /\ checkout = [pc |-> "claim", left |-> Backordered, as |-> "waiting"]
  BY DEF Init
<1>2. Committed(l) = 0
  <2> DEFINE f == [x \in Parcels |-> Load(parcel[x], l, {"live", "opening"})]
  <2>1. \A x \in Parcels : f[x] = 0
    BY <1>1 DEF Load, NoParcel
  <2> HIDE DEF f
  <2>2. SumFunctionOnSet(f, Parcels) = 0
    BY <2>1, SumZero, ShelfAssumption
  <2> QED
    BY <2>2 DEF Committed, LoadSum, f
<1>3. claim[l] = NoClaim /\ NoClaim.withdrawn = 0 /\ canceled[l] = 0
      /\ returned[l].units = 0 /\ returned[l].at = {}
  BY <1>1 DEF NoClaim
<1>4. Fit(claim[l].withdrawn + returned[l].units, canceled[l], Committed(l))
  BY <1>2, <1>3, ShelfAssumption DEF Fit
<1>5. Credit(l, claim[l], returned[l])
  BY <1>3 DEF Credit
<1>6. CheckoutFits(l, checkout, canceled[l], Committed(l))
  BY <1>1 DEF CheckoutFits
<1>7. Idle.pc \in {"idle", "count"}
  BY DEF Idle
<1>8. \A h \in Handlers : HandlerFits(l, handler[h], claim[l], canceled[l], Committed(l))
  BY <1>1, <1>7, FitsNothing
<1> QED
  BY <1>4, <1>5, <1>6, <1>8 DEF LimitOf

\* What may be given back: every step.
LEMMA LimitsNext == ASSUME Typed, Limits, [Next]_vars PROVE Limits'
<1>1. ASSUME NEW p \in Places, Arrive(p) PROVE Limits'
  BY <1>1, LimitsArrive
<1>2. ASSUME Operator PROVE Limits'
  BY <1>2, LimitsOperator
<1>3. ASSUME LastStep PROVE Limits'
  BY <1>3, LimitsRankingFails, LimitsClaimBackorder, LimitsClaimFails, LimitsReadWriteOffs, LimitsCountParcels,
     LimitsSettleClaim, LimitsDrainClaim, LimitsSettlementFails, LimitsConfirmLine, LimitsConfirmFails
  DEF LastStep
<1>4. ASSUME NEW h \in Handlers, Delivery(h) PROVE Limits'
  BY <1>4, LimitsHandleLineCanceled, LimitsRecountParcel, LimitsCountHeld, LimitsReadShelves, LimitsSettle,
     LimitsDrain, LimitsDrainFails, LimitsPutBack, LimitsDeliveryFails DEF Delivery
<1>5. CASE UNCHANGED vars
  <2>1. UNCHANGED <<claim, canceled, parcel, returned, handler, checkout, excused>>
    BY <1>5 DEF vars, stock, order
  <2> QED
    BY <2>1, WindowsStaySame, LimitsPasses
<1> QED
  BY <1>1, <1>2, <1>3, <1>4, <1>5 DEF Next

\* No reachable state lets more be given back than was written off and is in no parcel.
LEMMA LimitsAlways == Spec => [](Typed /\ Limits)
<1>1. Init => Typed /\ Limits
  BY TypedInit, LimitsInit
<1>2. Typed /\ Limits /\ [Next]_vars => (Typed /\ Limits)'
  BY TypedNext, LimitsNext
<1> QED
  BY <1>1, <1>2, PTL DEF Spec

\* The numbers of a line that is not excused.
LEMMA LineNumbers ==
    ASSUME Typed, Limits, NEW l \in Lines \ excused
    PROVE  /\ Bought \in Nat /\ canceled[l] \in 0..Bought /\ Held(l) \in Nat
           /\ claim[l].withdrawn \in 0..Bought /\ returned[l].units \in 0..Bought
           /\ claim[l].withdrawn + returned[l].units <= canceled[l]
           /\ claim[l].withdrawn + returned[l].units + Held(l) <= Bought
           /\ l \in Reserved => claim[l] = NoClaim /\ claim[l].withdrawn = 0
           /\ Credit(l, claim[l], returned[l])
<1>1. ClaimOK(l, claim[l])
  BY DEF Typed, ClaimsOK
<1>2. claim[l].withdrawn \in 0..Bought /\ (l \in Reserved => claim[l] = NoClaim /\ claim[l].withdrawn = 0)
  BY <1>1 DEF ClaimOK, NoClaim, Units
<1>3. returned[l].units \in 0..Bought
  BY DEF Typed, ReturnsOK, Units
<1>4. Held(l) \in Nat /\ Committed(l) \in Nat /\ Held(l) <= Committed(l)
  BY HeldIs DEF Typed
<1>5. Bought \in Nat /\ canceled[l] \in 0..Bought
  BY ShelfAssumption, CanceledInt
<1>6. Fit(claim[l].withdrawn + returned[l].units, canceled[l], Committed(l)) /\ Credit(l, claim[l], returned[l])
  BY DEF Limits, LimitOf
<1>7. claim[l].withdrawn + returned[l].units + Held(l) <= Bought
  BY <1>2, <1>3, <1>4, <1>5, <1>6 DEF Fit
<1> QED
  BY <1>2, <1>3, <1>4, <1>5, <1>6, <1>7 DEF Fit

\* What is set aside for a line, and what is due, as sums of units.
LEMMA SetAsideIs ==
    ASSUME Typed, Limits, NEW l \in Lines \ excused
    PROVE  /\ SetAside(l) = Bought - claim[l].withdrawn
           /\ Due(l) = IF Bought - canceled[l] >= Held(l) THEN Bought - canceled[l] ELSE Held(l)
<1>1. /\ Bought \in Nat /\ canceled[l] \in 0..Bought /\ Held(l) \in Nat
      /\ l \in Reserved => claim[l].withdrawn = 0
  BY LineNumbers
<1>2. SetAside(l) = Bought - claim[l].withdrawn
  BY <1>1 DEF SetAside, Owed
<1>3. Bought - canceled[l] \in Int /\ Held(l) \in Int
  BY <1>1
<1>4. Max({Bought - canceled[l], Held(l)}) = IF Bought - canceled[l] >= Held(l) THEN Bought - canceled[l] ELSE Held(l)
  BY <1>3, MaxOfTwo
<1> QED
  BY <1>2, <1>4 DEF Due

\* However the write-offs, the parcels' ends, their repeated deliveries and the checkout's
\* own settlement are ordered, they never put back or withdraw a unit that the order
\* still owes or that sits in a parcel, except on the lines that met a window of `excused`.
THEOREM NothingDue == Spec => []NothingDueIsGivenBack
<1>1. Typed /\ Limits => NothingDueIsGivenBack
  <2> SUFFICES ASSUME Typed, Limits, NEW l \in Lines \ excused
               PROVE  SetAside(l) - returned[l].units >= Due(l)
    BY DEF NothingDueIsGivenBack
  <2>1. /\ SetAside(l) = Bought - claim[l].withdrawn
        /\ Due(l) = IF Bought - canceled[l] >= Held(l) THEN Bought - canceled[l] ELSE Held(l)
    BY SetAsideIs
  <2>2. /\ Bought \in Nat /\ canceled[l] \in 0..Bought /\ Held(l) \in Nat
        /\ claim[l].withdrawn \in 0..Bought /\ returned[l].units \in 0..Bought
        /\ claim[l].withdrawn + returned[l].units <= canceled[l]
        /\ claim[l].withdrawn + returned[l].units + Held(l) <= Bought
    BY LineNumbers
  <2> QED
    BY <2>1, <2>2
<1> QED
  BY <1>1, LimitsAlways, PTL

\* A backordered line's units are credited only as far as a fill deducted them, and to
\* the shelf it deducted them from, except on the lines that met a window of `excused`.
THEOREM CreditedThere == Spec => []CreditedWhereTaken
<1>1. Typed /\ Limits => CreditedWhereTaken
  <2> SUFFICES ASSUME Typed, Limits, NEW l \in Backordered, l \notin excused
               PROVE  /\ returned[l].units <= (IF claim[l].status = "filled" THEN Owed(l) ELSE 0)
                      /\ returned[l].at \subseteq {claim[l].at}
    BY DEF CreditedWhereTaken
  <2>1. l \in Lines \ excused
    BY DEF Backordered
  <2>2. /\ Bought \in Nat /\ canceled[l] \in 0..Bought
        /\ claim[l].withdrawn \in 0..Bought /\ returned[l].units \in 0..Bought
        /\ claim[l].withdrawn + returned[l].units <= canceled[l]
        /\ Credit(l, claim[l], returned[l])
    BY <2>1, LineNumbers
  <2>3. returned[l].units <= Owed(l)
    BY <2>2 DEF Owed
  <2>4. (claim[l].status # "filled" => returned[l].units = 0) /\ returned[l].at \subseteq {claim[l].at}
    BY <2>2 DEF Credit
  <2> QED
    BY <2>3, <2>4
<1> QED
  BY <1>1, LimitsAlways, PTL

-----------------------------------------------------------------------------
(* What is given back in the end: every number of units that is written    *)
(* off and that the parcels leave is back, or somebody is about to see to  *)
(* it.                                                                     *)

\* A delivery that stands at m sees to w units of line l, whose claim is c
Commits(m, c, l, w) ==
    /\ m.pc = "count" => m.total >= w
    /\ m.pc \in {"sold", "settle"} => m.window >= w
    /\ m.pc \in {"drain", "put"} =>
          \/ m.failed
          \/ /\ m.target + c.withdrawn >= w
             /\ l \in Backordered => c.status = "filled" /\ m.shelf # NoPlace

\* An event that tells of w units of a line, and every delivery of it sees to them
Tells(e, l, w) == e.line = l /\ (e.about = "line" => e.total >= w)

Tracks(e, hd, c, l, w) ==
    \A h \in Handlers : hd[h].pc # "idle" /\ hd[h].event = e => Commits(hd[h], c, l, w)

Pending(l, w, c, td, hd) == \E e \in td : Tells(e, l, w) /\ Tracks(e, hd, c, l, w)

\* The checkout will settle w units of a backordered line itself
ByCheckout(l, w, co) ==
    /\ l \in Backordered
    /\ \/ co.pc \in {"claim", "read"}
       \/ co.pc = "count" /\ co.canceled[l] >= w
       \/ co.pc \in {"settle", "drain"} /\ l \in co.left /\ co.window[l] >= w

Covers(l, w, c, r, td, hd, co) ==
    \/ c.withdrawn + r.units >= w
    \/ Pending(l, w, c, td, hd)
    \/ ByCheckout(l, w, co)

\* w units of a line may be given back
Opens(w, n, held) == w <= n /\ w + held <= Bought

Coverage ==
    \A l \in Lines \ excused, w \in 1..Bought :
        Opens(w, canceled[l], Held(l)) =>
           Covers(l, w, claim[l], returned[l], todo, handler, checkout)

\* A delivery that sees to some units still does when other claims change.
LEMMA CommitsKept ==
    ASSUME NEW m, NEW l \in Lines, NEW w, NEW c, NEW c2, Commits(m, c, l, w), Stays(l, c, c2)
    PROVE  Commits(m, c2, l, w)
<1>1. CASE m.pc \in {"drain", "put"} /\ ~m.failed
  <2>1. m.target + c.withdrawn >= w /\ (l \in Backordered => c.status = "filled" /\ m.shelf # NoPlace)
    BY <1>1 DEF Commits
  <2>2. c2 = c
    BY <2>1 DEF Stays, Backordered
  <2> QED
    BY <2>2
<1>2. CASE ~(m.pc \in {"drain", "put"} /\ ~m.failed)
  BY <1>2 DEF Commits
<1> QED
  BY <1>1, <1>2

\* So do all deliveries of an event.
LEMMA TracksKept ==
    ASSUME NEW e, NEW hd, NEW l \in Lines, NEW w, NEW c, NEW c2, Tracks(e, hd, c, l, w), Stays(l, c, c2)
    PROVE  Tracks(e, hd, c2, l, w)
BY CommitsKept DEF Tracks

\* A step that no delivery takes.
LEMMA CoversKept ==
    ASSUME NEW l \in Lines, NEW w \in 1..Bought, NEW c, NEW r, NEW td, NEW hd, NEW co,
           Covers(l, w, c, r, td, hd, co), NEW c2, NEW r2, NEW td2, NEW co2,
           Stays(l, c, c2), c.withdrawn + r.units >= w => c2.withdrawn + r2.units >= w, td \subseteq td2,
           ByCheckout(l, w, co) => Covers(l, w, c2, r2, td2, hd, co2)
    PROVE  Covers(l, w, c2, r2, td2, hd, co2)
<1>1. CASE c.withdrawn + r.units >= w
  BY <1>1 DEF Covers
<1>2. ASSUME NEW e \in td, Tells(e, l, w), Tracks(e, hd, c, l, w)
      PROVE  Covers(l, w, c2, r2, td2, hd, co2)
  <2>1. e \in td2 /\ Tracks(e, hd, c2, l, w)
    BY <1>2, TracksKept
  <2> QED
    BY <1>2, <2>1 DEF Covers, Pending
<1> QED
  BY <1>1, <1>2 DEF Covers, Pending

\* A delivery's step, from m to t.
LEMMA CoversMoves ==
    ASSUME NEW l \in Lines, NEW w \in 1..Bought, NEW c, NEW r, NEW td, NEW hd, NEW co,
           Covers(l, w, c, r, td, hd, co), NEW c2, NEW r2, NEW td2, NEW hd2, NEW h \in Handlers, NEW t,
           \A g \in Handlers : hd2[g] = IF g = h THEN t ELSE hd[g],
           Stays(l, c, c2), c.withdrawn + r.units >= w => c2.withdrawn + r2.units >= w,
           \A e \in td : Tells(e, l, w) /\ Tracks(e, hd, c, l, w)
              => \/ Covers(l, w, c2, r2, td2, hd2, co)
                 \/ e \in td2 /\ (t.pc # "idle" /\ t.event = e => Commits(t, c2, l, w))
    PROVE  Covers(l, w, c2, r2, td2, hd2, co)
<1>1. CASE c.withdrawn + r.units >= w
  BY <1>1 DEF Covers
<1>2. CASE ByCheckout(l, w, co)
  BY <1>2 DEF Covers
<1>3. ASSUME NEW e \in td, Tells(e, l, w), Tracks(e, hd, c, l, w), e \in td2,
             t.pc # "idle" /\ t.event = e => Commits(t, c2, l, w)
      PROVE  Covers(l, w, c2, r2, td2, hd2, co)
  <2>1. Tracks(e, hd, c2, l, w)
    BY <1>3, TracksKept
  <2>2. Tracks(e, hd2, c2, l, w)
    BY <1>3, <2>1 DEF Tracks
  <2> QED
    BY <1>3, <2>2 DEF Covers, Pending
<1> QED
  BY <1>1, <1>2, <1>3 DEF Covers, Pending

\* Units that are back or withdrawn stay so.
LEMMA GoneStays ==
    ASSUME Typed, NEW l \in Lines, NEW c2, NEW r2, c2.withdrawn \in Units, r2.units \in Units,
           claim[l].withdrawn <= c2.withdrawn, returned[l].units <= r2.units, NEW w \in 1..Bought
    PROVE  claim[l].withdrawn + returned[l].units >= w => c2.withdrawn + r2.units >= w
<1>1. ClaimOK(l, claim[l]) /\ returned[l].units \in Units
  BY DEF Typed, ClaimsOK, ReturnsOK
<1>2. /\ claim[l].withdrawn \in 0..Bought /\ returned[l].units \in 0..Bought
      /\ c2.withdrawn \in 0..Bought /\ r2.units \in 0..Bought
  BY <1>1 DEF ClaimOK, Units
<1> QED
  BY <1>2, ShelfAssumption

\* Parcels that do not change hold the same.
LEMMA HeldSame == ASSUME parcel' = parcel, NEW l PROVE Held(l)' = Held(l)
BY DEF Held, Sum, ParcelsOf

\* A delivery's step that leaves the claims and the shelves alone.
LEMMA CoverageHandler ==
    ASSUME Typed, Coverage, NEW h \in Handlers, NEW t, handler' = [handler EXCEPT ![h] = t],
           UNCHANGED <<claim, returned, canceled, parcel, checkout, excused>>,
           \A l \in Lines \ excused, w \in 1..Bought : \A e \in todo :
              Opens(w, canceled[l], Held(l)) /\ Tells(e, l, w) /\ Tracks(e, handler, claim[l], l, w)
              => e \in todo' /\ (t.pc # "idle" /\ t.event = e => Commits(t, claim[l], l, w))
    PROVE  Coverage'
<1> SUFFICES ASSUME NEW l \in Lines \ excused', NEW w \in 1..Bought, Opens(w, canceled'[l], Held(l)')
             PROVE  Covers(l, w, claim'[l], returned'[l], todo', handler', checkout')
  BY DEF Coverage
<1>1. l \in Lines /\ l \notin excused /\ Opens(w, canceled[l], Held(l))
  BY HeldSame
<1>2. Covers(l, w, claim[l], returned[l], todo, handler, checkout)
  BY <1>1 DEF Coverage
<1>3. \A g \in Handlers : handler'[g] = IF g = h THEN t ELSE handler[g]
  BY DEF Typed, HandlersOK
<1>4. \A e \in todo : Tells(e, l, w) /\ Tracks(e, handler, claim[l], l, w)
              => e \in todo' /\ (t.pc # "idle" /\ t.event = e => Commits(t, claim[l], l, w))
  BY <1>1
<1>5. Stays(l, claim[l], claim[l])
  BY StaysSame
<1>6. PICK c, r, co, td, hd, td2, hd2 : c = claim[l] /\ r = returned[l] /\ co = checkout /\ td = todo /\ hd = handler
                                        /\ td2 = todo' /\ hd2 = handler'
  OBVIOUS
<1>7. Covers(l, w, c, r, td, hd, co) /\ Stays(l, c, c)
  BY <1>2, <1>5, <1>6
<1>8. \A g \in Handlers : hd2[g] = IF g = h THEN t ELSE hd[g]
  BY <1>3, <1>6
<1>9. \A e \in td : Tells(e, l, w) /\ Tracks(e, hd, c, l, w)
          => \/ Covers(l, w, c, r, td2, hd2, co)
             \/ e \in td2 /\ (t.pc # "idle" /\ t.event = e => Commits(t, c, l, w))
  BY <1>4, <1>6
<1>10. c.withdrawn + r.units >= w => c.withdrawn + r.units >= w
  OBVIOUS
<1>11. Covers(l, w, c, r, td2, hd2, co)
  BY <1>1, <1>7, <1>8, <1>9, <1>10, CoversMoves
<1> QED
  BY <1>6, <1>11

\* The count: a window as wide as what is open.
LEMMA CoverageCount ==
    ASSUME Typed, Coverage, NEW h \in Handlers, NEW e \in events, NEW total \in Units, Count(h, e, total),
           UNCHANGED <<claim, returned, canceled, parcel, checkout, excused>>,
           \A l \in Lines \ excused, w \in 1..Bought :
              Tells(e, l, w) /\ Tracks(e, handler, claim[l], l, w) => total >= w
    PROVE  Coverage'
<1> DEFINE window == TargetOnShelf(total, Held(e.line))
           m == [pc |-> "sold", event |-> e, line |-> e.line, window |-> window]
           t == IF window = 0 THEN Idle ELSE m
<1>1. handler' = [handler EXCEPT ![h] = t] /\ (window = 0 => todo' = todo \ {e}) /\ (window # 0 => todo' = todo)
  BY DEF Count, Stand
<1>2. Held(e.line) \in Nat
  BY HeldIs DEF Typed
<1>3. window \in Units /\ \A w \in Nat : w <= total /\ w + Held(e.line) <= Bought => w <= window
  BY <1>2, WindowIs
<1>4. ASSUME NEW l \in Lines \ excused, NEW w \in 1..Bought, Opens(w, canceled[l], Held(l)), Tells(e, l, w),
             Tracks(e, handler, claim[l], l, w)
      PROVE  w <= window
  <2>1. w \in Nat /\ w <= total
    BY <1>4 DEF Units
  <2>2. w + Held(e.line) <= Bought
    BY <1>4 DEF Opens, Tells
  <2> QED
    BY <1>3, <2>1, <2>2
<1> HIDE DEF window
<1>5. window # 0 => t.pc = "sold" /\ t.window = window
  OBVIOUS
<1>6. window = 0 => t.pc = "idle"
  BY DEF Idle
<1> HIDE DEF t
<1>7. ASSUME NEW l \in Lines \ excused, NEW w \in 1..Bought, NEW d \in todo, Opens(w, canceled[l], Held(l)),
             Tells(d, l, w), Tracks(d, handler, claim[l], l, w)
      PROVE  d \in todo' /\ (t.pc # "idle" /\ t.event = d => Commits(t, claim[l], l, w))
  <2>1. CASE d = e
    <3>1. w <= window /\ window # 0
      <4>1. w <= window
        BY <1>4, <1>7, <2>1
      <4> QED
        BY <4>1, <1>3 DEF Units
    <3>2. t.window >= w /\ window \in 0..Bought
      BY <1>3, <1>5, <3>1 DEF Units
    <3> QED
      BY <1>1, <1>5, <3>1, <3>2 DEF Commits
  <2>2. CASE d # e
    <3>1. d \in todo'
      BY <1>1, <2>2
    <3>2. t.pc # "idle" => t.event = e
      BY <1>5, <1>6 DEF t
    <3> QED
      BY <2>2, <3>1, <3>2
  <2> QED
    BY <2>1, <2>2
<1>8. \A l \in Lines \ excused, w \in 1..Bought : \A d \in todo :
              Opens(w, canceled[l], Held(l)) /\ Tells(d, l, w) /\ Tracks(d, handler, claim[l], l, w)
              => d \in todo' /\ (t.pc # "idle" /\ t.event = d => Commits(t, claim[l], l, w))
  BY <1>7
<1> QED
  BY <1>1, <1>8, CoverageHandler

\* What is still to come back: a delivery of a write-off begins with the total the event
\* carries.
LEMMA CoverageHandleLineCanceled ==
    ASSUME Typed, Coverage, NEW h \in Handlers, NEW e \in events, HandleLineCanceled(h, e)
    PROVE  Coverage'
<1>1. Count(h, e, e.total) /\ e.about = "line"
      /\ UNCHANGED <<claim, returned, canceled, parcel, checkout, excused>>
  BY DEF HandleLineCanceled, stock, order
<1>2. e.total \in Units
  BY <1>1, EventIs DEF Units
<1>3. \A l \in Lines \ excused, w \in 1..Bought : Tells(e, l, w) /\ Tracks(e, handler, claim[l], l, w) => e.total >= w
  BY <1>1 DEF Tells
<1> QED
  BY <1>1, <1>2, <1>3, CoverageCount

\* What is still to come back: a delivery counts what parcels hold and has its window.
LEMMA CoverageCountHeld ==
    ASSUME Typed, Coverage, NEW h \in Handlers, CountHeld(h)
    PROVE  Coverage'
<1>1. Count(h, handler[h].event, handler[h].total) /\ handler[h].pc = "count"
      /\ UNCHANGED <<claim, returned, canceled, parcel, checkout, excused>>
  BY DEF CountHeld, stock, order
<1>2. handler[h].event \in events /\ handler[h].total \in Units
  BY <1>1, HandlerIs, HandlerFields
<1>3. \A l \in Lines \ excused, w \in 1..Bought :
         Tells(handler[h].event, l, w) /\ Tracks(handler[h].event, handler, claim[l], l, w) => handler[h].total >= w
  BY <1>1 DEF Tracks, Commits
<1> QED
  BY <1>1, <1>2, <1>3, CoverageCount

\* A delivery that starts or that gives up.
LEMMA CoverageRecountParcel ==
    ASSUME Typed, Coverage, NEW h \in Handlers, NEW e \in events, RecountParcel(h, e)
    PROVE  Coverage'
<1> DEFINE m == [pc |-> "count", event |-> e, total |-> canceled[e.line]]
<1>1. handler' = [handler EXCEPT ![h] = m] /\ m.pc = "count" /\ m.event = e /\ m.total = canceled[e.line]
      /\ UNCHANGED <<claim, returned, canceled, parcel, checkout, excused, todo>>
  BY DEF RecountParcel, Stand, stock, order
<1> HIDE DEF m
<1>2. ASSUME NEW l \in Lines \ excused, NEW w \in 1..Bought, Opens(w, canceled[l], Held(l)), Tells(e, l, w)
      PROVE  Commits(m, claim[l], l, w)
  <2>1. e.line = l /\ w <= canceled[l] /\ canceled[l] \in Int
    BY <1>2, CanceledInt DEF Tells, Opens
  <2> QED
    BY <1>1, <2>1 DEF Commits
<1>3. \A l \in Lines \ excused, w \in 1..Bought : \A d \in todo :
              Opens(w, canceled[l], Held(l)) /\ Tells(d, l, w) /\ Tracks(d, handler, claim[l], l, w)
              => d \in todo' /\ (m.pc # "idle" /\ m.event = d => Commits(m, claim[l], l, w))
  BY <1>1, <1>2
<1> QED
  BY <1>1, <1>3, CoverageHandler

\* What is still to come back: a delivery has read where the line was sold from.
LEMMA CoverageReadShelves ==
    ASSUME Typed, Coverage, NEW h \in Handlers, ReadShelves(h)
    PROVE  Coverage'
<1> DEFINE m == [pc |-> "settle", event |-> handler[h].event, line |-> handler[h].line,
                 window |-> handler[h].window, soldAt |-> IF sold = {} THEN NoPlace ELSE 1]
<1>1. handler[h].pc = "sold" /\ handler' = [handler EXCEPT ![h] = m]
      /\ m.pc = "settle" /\ m.event = handler[h].event /\ m.window = handler[h].window
      /\ UNCHANGED <<claim, returned, canceled, parcel, checkout, excused, todo>>
  BY DEF ReadShelves, Stand, stock, order
<1> HIDE DEF m
<1>2. \A l \in Lines \ excused, w \in 1..Bought : \A d \in todo :
              Opens(w, canceled[l], Held(l)) /\ Tells(d, l, w) /\ Tracks(d, handler, claim[l], l, w)
              => d \in todo' /\ (m.pc # "idle" /\ m.event = d => Commits(m, claim[l], l, w))
  BY <1>1 DEF Tracks, Commits
<1> QED
  BY <1>1, <1>2, CoverageHandler

\* What is still to come back: a delivery goes on with a queue it could not serve, and
\* asks to be called again.
LEMMA CoverageDrainFails ==
    ASSUME Typed, Coverage, NEW h \in Handlers, DrainFails(h)
    PROVE  Coverage'
<1> DEFINE m == handler[h]
           t == [m EXCEPT !.pc = "put", !.left = {}, !.failed = TRUE]
<1>1. /\ t.pc = "put" /\ t.failed /\ handler' = [handler EXCEPT ![h] = t]
      /\ UNCHANGED <<claim, returned, canceled, parcel, checkout, excused, todo>>
  BY DrainFailsShape
<1> HIDE DEF t
<1>2. \A l \in Lines \ excused, w \in 1..Bought : \A d \in todo :
              Opens(w, canceled[l], Held(l)) /\ Tells(d, l, w) /\ Tracks(d, handler, claim[l], l, w)
              => d \in todo' /\ (t.pc # "idle" /\ t.event = d => Commits(t, claim[l], l, w))
  BY <1>1 DEF Commits
<1> QED
  BY <1>1, <1>2, CoverageHandler

\* What is still to come back: a delivery ends with an error and its event comes again.
LEMMA CoverageDeliveryFails ==
    ASSUME Typed, Coverage, NEW h \in Handlers, DeliveryFails(h)
    PROVE  Coverage'
<1>1. /\ Idle.pc = "idle" /\ handler' = [handler EXCEPT ![h] = Idle] /\ todo' = todo \cup {handler[h].event}
      /\ UNCHANGED <<claim, returned, canceled, parcel, checkout, excused>>
  BY DeliveryFailsShape DEF Idle
<1>2. \A l \in Lines \ excused, w \in 1..Bought : \A d \in todo :
              Opens(w, canceled[l], Held(l)) /\ Tells(d, l, w) /\ Tracks(d, handler, claim[l], l, w)
              => d \in todo' /\ (Idle.pc # "idle" /\ Idle.event = d => Commits(Idle, claim[l], l, w))
  BY <1>1
<1> QED
  BY <1>1, <1>2, CoverageHandler

\* A delivery's step that settles or puts back.
LEMMA CoverageDelivery ==
    ASSUME Typed, Typed', Coverage, NEW h \in Handlers, NEW t, handler' = [handler EXCEPT ![h] = t],
           UNCHANGED <<canceled, parcel, checkout>>, excused \subseteq excused',
           \A l \in Lines : /\ Stays(l, claim[l], claim'[l])
                            /\ claim[l].withdrawn <= claim'[l].withdrawn
                            /\ returned[l].units <= returned'[l].units,
           \A l \in Lines \ excused', w \in 1..Bought : \A e \in todo :
              Opens(w, canceled[l], Held(l)) /\ Tells(e, l, w) /\ Tracks(e, handler, claim[l], l, w)
              => \/ claim'[l].withdrawn + returned'[l].units >= w
                 \/ ByCheckout(l, w, checkout)
                 \/ e \in todo' /\ (t.pc # "idle" /\ t.event = e => Commits(t, claim'[l], l, w))
    PROVE  Coverage'
<1> SUFFICES ASSUME NEW l \in Lines \ excused', NEW w \in 1..Bought, Opens(w, canceled'[l], Held(l)')
             PROVE  Covers(l, w, claim'[l], returned'[l], todo', handler', checkout')
  BY DEF Coverage
<1>1. l \in Lines /\ l \notin excused /\ Opens(w, canceled[l], Held(l))
  BY HeldSame
<1>2. Covers(l, w, claim[l], returned[l], todo, handler, checkout)
  BY <1>1 DEF Coverage
<1>3. \A g \in Handlers : handler'[g] = IF g = h THEN t ELSE handler[g]
  BY DEF Typed, HandlersOK
<1>4. \A e \in todo : Tells(e, l, w) /\ Tracks(e, handler, claim[l], l, w)
         => \/ claim'[l].withdrawn + returned'[l].units >= w
            \/ ByCheckout(l, w, checkout)
            \/ e \in todo' /\ (t.pc # "idle" /\ t.event = e => Commits(t, claim'[l], l, w))
  BY <1>1
<1>5. claim'[l].withdrawn \in Units /\ returned'[l].units \in Units
  <2>1. ClaimsOK(claim') /\ ReturnsOK(returned', canceled')
    BY DEF Typed
  <2>2. ClaimOK(l, claim'[l])
    BY <2>1 DEF ClaimsOK
  <2> QED
    BY <2>1, <2>2 DEF ClaimOK, ReturnsOK
<1>6. PICK c, r, co, td, hd, td2, hd2, c2, r2 :
         /\ c = claim[l] /\ r = returned[l] /\ co = checkout /\ td = todo /\ hd = handler
         /\ td2 = todo' /\ hd2 = handler' /\ c2 = claim'[l] /\ r2 = returned'[l]
  OBVIOUS
<1>7. Covers(l, w, c, r, td, hd, co) /\ Stays(l, c, c2)
  BY <1>1, <1>2, <1>6
<1>8. \A g \in Handlers : hd2[g] = IF g = h THEN t ELSE hd[g]
  BY <1>3, <1>6
<1>9. \A e \in td : Tells(e, l, w) /\ Tracks(e, hd, c, l, w)
          => \/ Covers(l, w, c2, r2, td2, hd2, co)
             \/ e \in td2 /\ (t.pc # "idle" /\ t.event = e => Commits(t, c2, l, w))
  BY <1>4, <1>6 DEF Covers
<1>10. c.withdrawn + r.units >= w => c2.withdrawn + r2.units >= w
  <2>1. claim[l].withdrawn <= c2.withdrawn /\ returned[l].units <= r2.units
    BY <1>1, <1>6
  <2>2. c2.withdrawn \in Units /\ r2.units \in Units
    BY <1>5, <1>6
  <2>3. claim[l].withdrawn + returned[l].units >= w => c2.withdrawn + r2.units >= w
    BY <1>1, <2>1, <2>2, GoneStays
  <2> QED
    BY <1>6, <2>3
<1>11. Covers(l, w, c2, r2, td2, hd2, co)
  BY <1>1, <1>7, <1>8, <1>9, <1>10, CoversMoves
<1> QED
  BY <1>6, <1>11

\* A settlement either withdraws the window, or carries the rest of it to the put-back.
LEMMA SettledSees ==
    ASSUME NEW l \in Lines, ClaimOK(l, claim[l]), NEW m, m.window \in Units, NEW w \in 1..Bought, m.window >= w
    PROVE  LET c == SettledClaim(l, m.window)
           IN \/ c.withdrawn >= w
              \/ l \in Backordered /\ claim[l].status = "none"
              \/ Commits(Settled(m, c), c, l, w)
<1> DEFINE c == SettledClaim(l, m.window)
           t == Settled(m, c)
<1>1. /\ ClaimOK(l, c)
      /\ claim[l].status \notin {"waiting", "unplaced"} => c = claim[l]
      /\ claim[l].status \in {"waiting", "unplaced"} =>
            c.status \in {"waiting", "unplaced", "withdrawn"} /\ c.withdrawn >= m.window
  BY SettledShape
<1>2. /\ t.pc \in {"drain", "put"} /\ t.target = Target(m.window, c)
      /\ c.status = "filled" => t.shelf = c.at
  BY DEF Settled
<1> HIDE DEF t, c
<1>3. /\ c.status = "none" => t.target = m.window
      /\ c.status = "filled" => t.target >= m.window - c.withdrawn
      /\ t.target \in Units
  BY <1>1, <1>2, TargetIs
<1>4. /\ m.window \in 0..Bought /\ c.withdrawn \in 0..Bought /\ t.target \in 0..Bought /\ Bought \in Nat
      /\ c.status \in {"none", "waiting", "unplaced", "filled", "withdrawn"}
  BY <1>1, <1>3, ShelfAssumption DEF ClaimOK, Units
<1>5. CASE c.status = "filled"
  <2>1. t.target + c.withdrawn >= w
    BY <1>3, <1>4, <1>5
  <2>2. t.shelf # NoPlace
    BY <1>1, <1>2, <1>5, ShelfAssumption DEF ClaimOK
  <2> QED
    BY <1>2, <1>5, <2>1, <2>2 DEF Commits, c, t
<1>6. CASE c.status = "none"
  <2>1. claim[l].status = "none"
    BY <1>1, <1>6
  <2>2. c.withdrawn = 0 /\ t.target + c.withdrawn >= w
    BY <1>1, <1>3, <1>4, <1>6 DEF ClaimOK, NoClaim
  <2> QED
    BY <1>2, <2>1, <2>2 DEF Commits, c, t
<1>7. CASE c.status = "withdrawn"
  <2>1. c.withdrawn = Bought
    BY <1>1, <1>7 DEF ClaimOK
  <2> QED
    BY <1>4, <2>1 DEF c
<1>8. CASE c.status \in {"waiting", "unplaced"}
  <2>1. c.withdrawn >= m.window
    BY <1>1, <1>8
  <2> QED
    BY <1>4, <2>1 DEF c
<1> QED
  BY <1>4, <1>5, <1>6, <1>7, <1>8

\* What is still to come back: a delivery settles the claim of its line under the claim's
\* lock.
LEMMA CoverageSettle ==
    ASSUME Typed, Typed', Coverage, NEW h \in Handlers, Settle(h)
    PROVE  Coverage'
<1> DEFINE m == handler[h]
           c == SettledClaim(m.line, m.window)
           t == Settled(m, c)
<1>1. /\ m.pc = "settle" /\ m.line \in Lines /\ m.line = m.event.line /\ m.window \in Units
      /\ handler' = [handler EXCEPT ![h] = t]
      /\ claim' = [claim EXCEPT ![m.line] = c]
      /\ UNCHANGED <<returned, canceled, parcel, checkout, excused, todo>>
  BY SettleShape
<1>2. \A l \in Lines : Stays(l, claim[l], claim'[l]) /\ (l # m.line => claim'[l] = claim[l]) /\ claim'[m.line] = c
  BY <1>1, SettleStays
<1>3. ClaimOK(m.line, claim[m.line]) /\ t.event = m.event
  BY <1>1 DEF Typed, ClaimsOK, Settled
<1>4. ASSUME NEW l \in Lines
      PROVE  claim[l].withdrawn <= claim'[l].withdrawn /\ returned[l].units <= returned'[l].units
  <2>1. returned[l].units \in 0..Bought /\ claim[l].withdrawn \in 0..Bought
    BY DEF Typed, ReturnsOK, ClaimsOK, ClaimOK, Units
  <2>2. l = m.line => claim[l].withdrawn <= c.withdrawn
    <3>1. CASE claim[m.line].status \in {"waiting", "unplaced"}
      BY <1>1, <1>3, <3>1, SettledShape
    <3>2. CASE claim[m.line].status \notin {"waiting", "unplaced"}
      BY <1>1, <1>3, <2>1, <3>2, SettledShape
    <3> QED
      BY <3>1, <3>2
  <2> QED
    BY <1>1, <1>2, <2>1, <2>2
<1> HIDE DEF t
<1>5. ASSUME NEW l \in Lines \ excused', NEW w \in 1..Bought, NEW e \in todo,
             Tells(e, l, w), Tracks(e, handler, claim[l], l, w), e = m.event
      PROVE  \/ claim'[l].withdrawn + returned'[l].units >= w
             \/ ByCheckout(l, w, checkout)
             \/ Commits(t, claim'[l], l, w)
  <2>1. l = m.line
    BY <1>1, <1>5 DEF Tells
  <2>2. m.window >= w
    BY <1>1, <1>5 DEF Tracks, Commits
  <2>3. \/ c.withdrawn >= w
        \/ l \in Backordered /\ claim[l].status = "none"
        \/ Commits(t, c, l, w)
    BY <1>1, <1>3, <2>1, <2>2, SettledSees DEF t
  <2>4. l \in Backordered /\ claim[l].status = "none" => ByCheckout(l, w, checkout)
    BY <1>1 DEF Typed, ClaimedOK, ByCheckout
  <2>5. ClaimOK(l, claim'[l]) /\ returned[l].units \in 0..Bought /\ returned' = returned
    BY <1>1 DEF Typed, ReturnsOK, ClaimsOK, Units
  <2>6. claim'[l] = c /\ claim'[l].withdrawn \in 0..Bought
    BY <1>2, <2>1, <2>5 DEF ClaimOK, Units
  <2>7. c.withdrawn >= w => claim'[l].withdrawn + returned'[l].units >= w
    BY <2>5, <2>6
  <2> QED
    BY <2>3, <2>4, <2>6, <2>7
<1>6. \A l \in Lines \ excused', w \in 1..Bought : \A e \in todo :
              Opens(w, canceled[l], Held(l)) /\ Tells(e, l, w) /\ Tracks(e, handler, claim[l], l, w)
              => \/ claim'[l].withdrawn + returned'[l].units >= w
                 \/ ByCheckout(l, w, checkout)
                 \/ e \in todo' /\ (t.pc # "idle" /\ t.event = e => Commits(t, claim'[l], l, w))
  BY <1>1, <1>3, <1>5
<1>7. \A l \in Lines : /\ Stays(l, claim[l], claim'[l])
                       /\ claim[l].withdrawn <= claim'[l].withdrawn
                       /\ returned[l].units <= returned'[l].units
  BY <1>2, <1>4
<1> QED
  BY <1>1, <1>6, <1>7, CoverageDelivery

\* The numbers of a line's claim and returns, before and after.
LEMMA GoneNumbers ==
    ASSUME Typed, NEW l \in Lines
    PROVE  returned[l].units \in 0..Bought /\ claim[l].withdrawn \in 0..Bought /\ Bought \in Nat
BY ShelfAssumption DEF Typed, ReturnsOK, ClaimsOK, ClaimOK, Units

\* What is still to come back: a delivery lets the queue have what one warehouse has.
LEMMA CoverageDrain ==
    ASSUME Typed, Typed', Coverage, NEW h \in Handlers, Drain(h)
    PROVE  Coverage'
<1> DEFINE m == handler[h]
           p == Min(m.left)
           left == m.left \ {p}
           over == left = {} \/ claim'[m.line].status # "waiting"
           t == Drained(m, left, over)
<1>1. /\ m.pc = "drain" /\ m \in Putting(events) /\ ~m.failed /\ p \in Places /\ left \in SUBSET Places
      /\ WritesAt(p) /\ handler' = [handler EXCEPT ![h] = t]
      /\ UNCHANGED <<returned, canceled, parcel, checkout, excused, todo>>
  BY DrainSteps
<1>2. over \in BOOLEAN
  OBVIOUS
<1> HIDE DEF over, left, p
<1>3. t.event = m.event /\ t.target = m.target /\ t.shelf = m.shelf /\ t.pc \in {"drain", "put"}
  BY <1>1, <1>2, DrainedFields
<1> HIDE DEF t
<1>4. \A l \in Lines : Stays(l, claim[l], claim'[l]) /\ claim'[l].withdrawn = claim[l].withdrawn
  BY <1>1, WritesStay
<1>5. \A l \in Lines : /\ Stays(l, claim[l], claim'[l])
                       /\ claim[l].withdrawn <= claim'[l].withdrawn
                       /\ returned[l].units <= returned'[l].units
  BY <1>1, <1>4, GoneNumbers
<1>6. ASSUME NEW l \in Lines, NEW w \in 1..Bought, Tracks(m.event, handler, claim[l], l, w)
      PROVE  Commits(t, claim'[l], l, w)
  <2>1. Commits(m, claim[l], l, w)
    BY <1>1, <1>6 DEF Tracks
  <2>2. Commits(m, claim'[l], l, w)
    BY <1>4, <2>1, CommitsKept
  <2> QED
    BY <1>1, <1>3, <2>2 DEF Commits
<1>7. \A l \in Lines \ excused', w \in 1..Bought : \A e \in todo :
              Opens(w, canceled[l], Held(l)) /\ Tells(e, l, w) /\ Tracks(e, handler, claim[l], l, w)
              => \/ claim'[l].withdrawn + returned'[l].units >= w
                 \/ ByCheckout(l, w, checkout)
                 \/ e \in todo' /\ (t.pc # "idle" /\ t.event = e => Commits(t, claim'[l], l, w))
  BY <1>1, <1>3, <1>6
<1> QED
  BY <1>1, <1>5, <1>7, CoverageDelivery

\* After the put-back of a delivery that saw to w units, they are back.
LEMMA PutBackSees ==
    ASSUME Typed, Typed', NEW h \in Handlers, PutBack(h), NEW l \in Lines, l \notin excused',
           handler[h].line = l, ~handler[h].failed, NEW w \in 1..Bought, Commits(handler[h], claim[l], l, w)
    PROVE  claim'[l].withdrawn + returned'[l].units >= w
<1> DEFINE m == handler[h]
<1>1. m.pc = "put" /\ m.target \in Units /\ (Skips(h) \/ Credits(h))
  BY PutBackShape
<1>2. m.target + claim[l].withdrawn >= w /\ (l \in Backordered => m.shelf # NoPlace)
  BY <1>1 DEF Commits
<1>3. /\ returned[l].units \in 0..Bought /\ claim[l].withdrawn \in 0..Bought /\ Bought \in Nat
      /\ m.target \in 0..Bought
  BY <1>1, GoneNumbers DEF Units
<1>4. CASE Skips(h)
  <2>1. claim'[l] = claim[l] /\ returned'[l] = returned[l]
    BY <1>4 DEF Skips
  <2>2. m.shelf # NoPlace
    BY <1>2, <1>4 DEF Skips, Backordered
  <2>3. m.target = 0 \/ returned[l].units >= m.target
    BY <1>4, <2>2 DEF Skips
  <2> QED
    BY <1>2, <1>3, <2>1, <2>3
<1>5. CASE Credits(h)
  <2>1. PICK p \in Places : WritesAt(p)
    BY <1>5 DEF Credits
  <2>2. claim'[l].withdrawn = claim[l].withdrawn
    BY <2>1, WritesStay
  <2>3. returned'[l].units = m.target
    BY <1>5 DEF Credits, Typed, ReturnsOK
  <2> QED
    BY <1>2, <1>3, <2>2, <2>3
<1> QED
  BY <1>1, <1>4, <1>5

\* What is still to come back: a delivery gives units back, unless the line has them
\* already.
LEMMA CoveragePutBack ==
    ASSUME Typed, Typed', Coverage, NEW h \in Handlers, PutBack(h)
    PROVE  Coverage'
<1> DEFINE m == handler[h]
<1>1. /\ m.pc = "put" /\ m.line \in Lines /\ m.line = m.event.line /\ m.target \in Units
      /\ handler' = [handler EXCEPT ![h] = Idle]
      /\ todo' = IF m.failed THEN todo \cup {m.event} ELSE todo \ {m.event}
      /\ Skips(h) \/ Credits(h)
      /\ UNCHANGED <<canceled, parcel, checkout>>
  BY PutBackShape
<1>2. excused \subseteq excused'
  BY <1>1 DEF Skips, Credits
<1>3. ASSUME NEW l \in Lines
      PROVE  /\ Stays(l, claim[l], claim'[l])
             /\ claim[l].withdrawn <= claim'[l].withdrawn
             /\ returned[l].units <= returned'[l].units
  <2>1. returned[l].units \in 0..Bought /\ claim[l].withdrawn \in 0..Bought
    BY GoneNumbers
  <2>2. CASE Skips(h)
    <3>1. claim'[l] = claim[l] /\ returned'[l] = returned[l]
      BY <2>2 DEF Skips
    <3> QED
      BY <2>1, <3>1, StaysSame
  <2>3. CASE Credits(h)
    <3>1. PICK p \in Places : WritesAt(p)
      BY <2>3 DEF Credits
    <3>2. Stays(l, claim[l], claim'[l]) /\ claim'[l].withdrawn = claim[l].withdrawn
      BY <3>1, WritesStay
    <3>3. returned'[l] = returned[l] \/ (l = m.line /\ returned'[l].units = m.target /\ returned[l].units < m.target)
      BY <2>3 DEF Credits, Typed, ReturnsOK
    <3>4. m.target \in Int
      BY <1>1 DEF Units
    <3> QED
      BY <2>1, <3>2, <3>3, <3>4
  <2> QED
    BY <1>1, <2>2, <2>3
<1>4. ASSUME NEW l \in Lines \ excused', NEW w \in 1..Bought, NEW e \in todo,
             Tells(e, l, w), Tracks(e, handler, claim[l], l, w)
      PROVE  claim'[l].withdrawn + returned'[l].units >= w \/ e \in todo'
  <2>1. CASE e = m.event /\ ~m.failed
    <3>1. m.line = l /\ Commits(m, claim[l], l, w)
      BY <1>1, <1>4, <2>1 DEF Tells, Tracks
    <3> QED
      BY <2>1, <3>1, PutBackSees
  <2>2. CASE ~(e = m.event /\ ~m.failed)
    BY <1>1, <2>2
  <2> QED
    BY <2>1, <2>2
<1>5. Idle.pc = "idle"
  BY DEF Idle
<1>6. \A l \in Lines \ excused', w \in 1..Bought : \A e \in todo :
              Opens(w, canceled[l], Held(l)) /\ Tells(e, l, w) /\ Tracks(e, handler, claim[l], l, w)
              => \/ claim'[l].withdrawn + returned'[l].units >= w
                 \/ ByCheckout(l, w, checkout)
                 \/ e \in todo' /\ (Idle.pc # "idle" /\ Idle.event = e => Commits(Idle, claim'[l], l, w))
  BY <1>4, <1>5
<1> QED
  BY <1>1, <1>2, <1>3, <1>6, CoverageDelivery

\* A step that no delivery takes: what was open stays seen to, what opens is told of.
LEMMA CoverageOthers ==
    ASSUME Typed, Typed', Coverage, UNCHANGED <<handler, returned>>, excused \subseteq excused', todo \subseteq todo',
           \A l \in Lines : Stays(l, claim[l], claim'[l]) /\ claim[l].withdrawn <= claim'[l].withdrawn,
           \A l \in Lines \ excused', w \in 1..Bought :
              Opens(w, canceled'[l], Held(l)') =>
                 \/ Pending(l, w, claim'[l], todo', handler')
                 \/ /\ Opens(w, canceled[l], Held(l))
                    /\ ByCheckout(l, w, checkout) =>
                          Covers(l, w, claim'[l], returned'[l], todo', handler', checkout')
    PROVE  Coverage'
<1> SUFFICES ASSUME NEW l \in Lines \ excused', NEW w \in 1..Bought, Opens(w, canceled'[l], Held(l)')
             PROVE  Covers(l, w, claim'[l], returned'[l], todo', handler', checkout')
  BY DEF Coverage
<1>1. CASE Pending(l, w, claim'[l], todo', handler')
  BY <1>1 DEF Covers
<1>2. CASE /\ Opens(w, canceled[l], Held(l))
           /\ ByCheckout(l, w, checkout) =>
                 Covers(l, w, claim'[l], returned'[l], todo', handler', checkout')
  <2>1. Covers(l, w, claim[l], returned[l], todo, handler, checkout)
    BY <1>2 DEF Coverage
  <2>2. Stays(l, claim[l], claim'[l]) /\ claim[l].withdrawn <= claim'[l].withdrawn
        /\ returned[l].units <= returned'[l].units
    BY GoneNumbers
  <2>3. claim'[l].withdrawn \in Units /\ returned'[l].units \in Units
    BY DEF Typed, ClaimsOK, ClaimOK, ReturnsOK
  <2>4. claim[l].withdrawn + returned[l].units >= w => claim'[l].withdrawn + returned'[l].units >= w
    BY <2>2, <2>3, GoneStays
  <2>5. PICK c, r, td, hd, co, c2, r2, td2, co2 :
           /\ c = claim[l] /\ r = returned[l] /\ td = todo /\ hd = handler /\ co = checkout
           /\ c2 = claim'[l] /\ r2 = returned'[l] /\ td2 = todo' /\ co2 = checkout'
    OBVIOUS
  <2>6. /\ Covers(l, w, c, r, td, hd, co) /\ Stays(l, c, c2) /\ td \subseteq td2
        /\ c.withdrawn + r.units >= w => c2.withdrawn + r2.units >= w
        /\ ByCheckout(l, w, co) => Covers(l, w, c2, r2, td2, hd, co2)
    BY <1>2, <2>1, <2>2, <2>4, <2>5
  <2>7. Covers(l, w, c2, r2, td2, hd, co2)
    BY <2>6, CoversKept
  <2> QED
    BY <2>5, <2>7
<1> QED
  BY <1>1, <1>2

\* What is still to come back: stock arrives at a warehouse and fills the queue.
LEMMA CoverageArrive ==
    ASSUME Typed, Typed', Coverage, NEW p \in Places, Arrive(p)
    PROVE  Coverage'
<1>1. WriteQuantities(p, stocked[p] + 1, reserved[p])
      /\ UNCHANGED <<canceled, parcel, returned, handler, todo, checkout, excused>>
  BY DEF Arrive, order
<1>2. stocked[p] + 1 \in Int /\ reserved[p] \in Int
  BY DEF Typed, StockOK
<1>3. WritesAt(p)
  BY <1>1, <1>2, WriteShape
<1>4. \A l \in Lines : Stays(l, claim[l], claim'[l]) /\ claim[l].withdrawn <= claim'[l].withdrawn
  BY <1>3, WritesStay, GoneNumbers
<1>5. \A l \in Lines \ excused', w \in 1..Bought :
         Opens(w, canceled'[l], Held(l)') =>
            /\ Opens(w, canceled[l], Held(l))
            /\ ByCheckout(l, w, checkout) =>
                  Covers(l, w, claim'[l], returned'[l], todo', handler', checkout')
  BY <1>1, HeldSame DEF Covers
<1> QED
  BY <1>1, <1>4, <1>5, CoverageOthers

\* No delivery has heard of an event that is only now published.
LEMMA NewlyTold ==
    ASSUME Typed, NEW e, e \notin events, NEW td, e \in td, NEW l, NEW w, Tells(e, l, w), NEW c
    PROVE  Pending(l, w, c, td, handler)
<1>1. \A h \in Handlers : handler[h].pc # "idle" => handler[h].event \in events
  BY HandlerIs, HandlerFields
<1> QED
  BY <1>1 DEF Pending, Tracks

\* A parcel that changes moves what live parcels hold by the difference.
LEMMA HeldChange ==
    ASSUME Typed, NEW x \in Parcels, NEW q, ParcelOK(q),
           \A y \in Parcels : parcel'[y] = IF y = x THEN q ELSE parcel[y], NEW l
    PROVE  /\ LoadSum(parcel', l, {"live"}) = Held(l) - Load(parcel[x], l, {"live"}) + Load(q, l, {"live"})
           /\ Held(l)' = LoadSum(parcel', l, {"live"})
           /\ Load(parcel[x], l, {"live"}) \in Nat /\ Load(q, l, {"live"}) \in Nat /\ Held(l) \in Nat
<1>1. AllParcelsOK(parcel) /\ ParcelOK(parcel[x])
  BY DEF Typed, ParcelsOK, AllParcelsOK
<1>2. Load(parcel[x], l, {"live"}) \in Nat /\ Load(q, l, {"live"}) \in Nat
  BY <1>1, LoadNat
<1>3. LoadSum(parcel', l, {"live"}) =
         LoadSum(parcel, l, {"live"}) - Load(parcel[x], l, {"live"}) + Load(q, l, {"live"})
  BY <1>1, LoadChange
<1>4. Held(l) = LoadSum(parcel, l, {"live"}) /\ Held(l) \in Nat
  BY HeldIs DEF Typed
<1>5. Held(l)' = LoadSum(parcel', l, {"live"})
  <2>1. [y \in Parcels |-> IF y \in ParcelsOf(l, {"live"})' THEN parcel'[y].units ELSE 0]
        = [y \in Parcels |-> Load(parcel'[y], l, {"live"})]
    BY DEF ParcelsOf, Load
  <2> QED
    BY <2>1 DEF Held, Sum, SumFunction, LoadSum
<1> QED
  BY <1>2, <1>3, <1>4, <1>5

\* A parcel that is not open before the step.
LEMMA HeldGrows ==
    ASSUME Typed, NEW x \in Parcels, NEW q, ParcelOK(q),
           \A y \in Parcels : parcel'[y] = IF y = x THEN q ELSE parcel[y], NEW l,
           parcel[x].status # "live" \/ parcel[x].line # l
    PROVE  Held(l) \in Nat /\ Held(l)' \in Nat /\ Held(l) <= Held(l)'
<1>1. Load(parcel[x], l, {"live"}) = 0
  BY DEF Load
<1>2. PICK b \in Nat : Held(l)' = Held(l) - 0 + b /\ Held(l) \in Nat
  BY <1>1, HeldChange
<1> QED
  BY <1>2

\* What the operators do to the parcels and to the events.
ParcelMoves(x, q) ==
    /\ ParcelOK(q) /\ \A y \in Parcels : parcel'[y] = IF y = x THEN q ELSE parcel[y]
    /\ canceled' = canceled
    /\ \/ parcel[x].status # "live" /\ UNCHANGED <<events, todo>>
       \/ parcel[x].status = "live" /\ Publish([about |-> "parcel", line |-> parcel[x].line, of |-> x])

\* What an operator does is a write-off or one parcel's move, and it takes no event back.
LEMMA OperatorShape ==
    ASSUME Typed, Operator
    PROVE  /\ \/ \E l \in Lines, n \in 1..Bought : CancelOrderLine(l, n)
              \/ \E x \in Parcels, q \in [status : {"none", "asked", "opening", "live", "canceled", "returned"},
                                          line : Lines \cup {0}, units : Units, ceiling : Units] : ParcelMoves(x, q)
           /\ UNCHANGED <<stocked, reserved, claim, sold, returned, handler, checkout>>
           /\ excused \subseteq excused' /\ todo \subseteq todo'
<1>p. DOMAIN parcel = Parcels
  BY DEF Typed, ParcelsOK
<1>q. \A q : ParcelOK(q) => q \in [status : {"none", "asked", "opening", "live", "canceled", "returned"},
                                  line : Lines \cup {0}, units : Units, ceiling : Units]
  BY DEF ParcelOK
<1>z. 0 \in Units
  BY ShelfAssumption DEF Units
<1>0. /\ UNCHANGED <<stocked, reserved, claim, sold, returned, handler, checkout>>
      /\ excused \subseteq excused' /\ todo \subseteq todo'
  BY DEF Operator, CancelOrderLine, OpenAsked, OpenLocked, OpenCommits, OpenFails, CancelFulfillment,
         MarkReturned, stock, Publish
<1> DEFINE Moved == \E x \in Parcels, q \in [status : {"none", "asked", "opening", "live", "canceled", "returned"},
                                          line : Lines \cup {0}, units : Units, ceiling : Units] : ParcelMoves(x, q)
<1>1. ASSUME NEW x \in Parcels, NEW m \in Lines, NEW n \in 1..Bought, OpenAsked(x, m, n)
      PROVE  Moved
  <2> DEFINE q == [status |-> "asked", line |-> m, units |-> n, ceiling |-> Bought - canceled[m]]
  <2>1. parcel' = [parcel EXCEPT ![x] = q] /\ canceled' = canceled /\ parcel[x].status = "none"
        /\ UNCHANGED <<events, todo>>
    BY <1>1 DEF OpenAsked
  <2>2. Bought - canceled[m] \in 0..Bought
    BY CanceledInt, ShelfAssumption
  <2>3. ParcelOK(q)
    BY <2>2 DEF ParcelOK, Units
  <2> HIDE DEF q
  <2>4. ParcelMoves(x, q)
    BY <1>p, <2>1, <2>3 DEF ParcelMoves
  <2> QED
    BY <1>q, <2>3, <2>4
<1>2. ASSUME NEW x \in Parcels, OpenLocked(x)
      PROVE  Moved
  <2> DEFINE o == [parcel[x] EXCEPT !.status = "opening", !.ceiling = 0]
  <2>1. parcel[x].status = "asked" /\ canceled' = canceled /\ UNCHANGED <<events, todo>>
    BY <1>2 DEF OpenLocked
  <2>2. parcel' = [parcel EXCEPT ![x].status = "opening", ![x].ceiling = 0] \/ parcel' = [parcel EXCEPT ![x] = NoParcel]
    BY <1>2 DEF OpenLocked
  <2>3. parcel' = [parcel EXCEPT ![x] = o] \/ parcel' = [parcel EXCEPT ![x] = NoParcel]
    BY <2>2, ParcelIs
  <2>4. ParcelOK(o)
    BY <1>z, <2>1, ParcelIs DEF ParcelOK
  <2> HIDE DEF o
  <2>5. ParcelMoves(x, o) \/ ParcelMoves(x, NoParcel)
    BY <1>p, <2>1, <2>3, <2>4, NoParcelOK DEF ParcelMoves
  <2> QED
    BY <1>q, <2>4, <2>5, NoParcelOK
<1>3. ASSUME NEW x \in Parcels, OpenCommits(x)
      PROVE  Moved
  <2> DEFINE q == [parcel[x] EXCEPT !.status = "live"]
  <2>1. parcel[x].status = "opening" /\ parcel' = [parcel EXCEPT ![x].status = "live"] /\ canceled' = canceled
        /\ UNCHANGED <<events, todo>>
    BY <1>3 DEF OpenCommits
  <2>2. parcel' = [parcel EXCEPT ![x] = q]
    BY <2>1, ParcelIs
  <2>3. ParcelOK(q)
    BY <2>1, ParcelIs DEF ParcelOK
  <2> HIDE DEF q
  <2>4. ParcelMoves(x, q)
    BY <1>p, <2>1, <2>2, <2>3 DEF ParcelMoves
  <2> QED
    BY <1>q, <2>3, <2>4
<1>4. ASSUME NEW x \in Parcels, OpenFails(x)
      PROVE  Moved
  <2>1. parcel' = [parcel EXCEPT ![x] = NoParcel] /\ canceled' = canceled /\ parcel[x].status = "opening"
        /\ UNCHANGED <<events, todo>>
    BY <1>4 DEF OpenFails
  <2>2. ParcelMoves(x, NoParcel)
    BY <1>p, <2>1, NoParcelOK DEF ParcelMoves
  <2> QED
    BY <1>q, <2>2, NoParcelOK
<1>5. ASSUME NEW x \in Parcels, CancelFulfillment(x)
      PROVE  Moved
  <2> DEFINE q == [NoParcel EXCEPT !.status = "canceled"]
  <2>1. parcel' = [parcel EXCEPT ![x] = q] /\ canceled' = canceled /\ parcel[x].status = "live"
        /\ Publish([about |-> "parcel", line |-> parcel[x].line, of |-> x])
    BY <1>5 DEF CancelFulfillment
  <2>2. ParcelOK(q)
    BY NoParcelOK
  <2> HIDE DEF q
  <2>3. ParcelMoves(x, q)
    BY <1>p, <2>1, <2>2 DEF ParcelMoves
  <2> QED
    BY <1>q, <2>2, <2>3
<1>6. ASSUME NEW x \in Parcels, MarkReturned(x)
      PROVE  Moved
  <2> DEFINE q == [parcel[x] EXCEPT !.status = "returned"]
  <2>1. parcel[x].status = "live" /\ parcel' = [parcel EXCEPT ![x].status = "returned"] /\ canceled' = canceled
        /\ Publish([about |-> "parcel", line |-> parcel[x].line, of |-> x])
    BY <1>6 DEF MarkReturned
  <2>2. parcel' = [parcel EXCEPT ![x] = q]
    BY <2>1, ParcelIs
  <2>3. ParcelOK(q)
    BY <2>1, ParcelIs DEF ParcelOK
  <2> HIDE DEF q
  <2>4. ParcelMoves(x, q)
    BY <1>p, <2>1, <2>2, <2>3 DEF ParcelMoves
  <2> QED
    BY <1>q, <2>3, <2>4
<1> QED
  BY <1>0, <1>1, <1>2, <1>3, <1>4, <1>5, <1>6 DEF Operator

\* What is still to come back: an operator writes units off or moves a parcel.
LEMMA CoverageOperator ==
    ASSUME Typed, Typed', Coverage, Operator
    PROVE  Coverage'
<1>1. /\ UNCHANGED <<claim, returned, handler, checkout>>
      /\ excused \subseteq excused' /\ todo \subseteq todo'
  BY OperatorShape
<1>2. \A l \in Lines : Stays(l, claim[l], claim'[l]) /\ claim[l].withdrawn <= claim'[l].withdrawn
  BY <1>1, StaysSame, GoneNumbers
<1>3. ASSUME NEW m \in Lines, NEW n \in 1..Bought, CancelOrderLine(m, n),
             NEW l \in Lines \ excused', NEW w \in 1..Bought, Opens(w, canceled'[l], Held(l)')
      PROVE  Pending(l, w, claim'[l], todo', handler') \/ Opens(w, canceled[l], Held(l))
  <2> DEFINE e == [about |-> "line", line |-> m, total |-> canceled[m] + n]
  <2>1. canceled' = [canceled EXCEPT ![m] = canceled[m] + n] /\ parcel' = parcel /\ e \in todo'
    BY <1>3 DEF CancelOrderLine, Publish
  <2>2. \A k \in Lines : canceled'[k] = IF k = m THEN canceled[m] + n ELSE canceled[k]
    BY <2>1 DEF Typed, ReturnsOK
  <2>3. Held(l)' = Held(l)
    BY <2>1, HeldSame
  <2>4. CASE l = m
    <3>1. e.total = canceled[m] + n /\ e.line = m /\ e.about = "line" /\ canceled[m] \in Int
      BY CanceledInt
    <3> HIDE DEF e
    <3>2. e \notin events
      BY <3>1, EventIs
    <3>3. w <= canceled[m] + n
      BY <1>3, <2>2, <2>4 DEF Opens
    <3>4. Tells(e, l, w)
      BY <2>4, <3>1, <3>3 DEF Tells
    <3> QED
      BY <1>1, <2>1, <3>2, <3>4, NewlyTold
  <2>5. CASE l # m
    BY <1>3, <2>2, <2>3, <2>5
  <2> QED
    BY <2>4, <2>5
<1>4. ASSUME NEW x \in Parcels, NEW q, ParcelMoves(x, q),
             NEW l \in Lines \ excused', NEW w \in 1..Bought, Opens(w, canceled'[l], Held(l)')
      PROVE  Pending(l, w, claim'[l], todo', handler') \/ Opens(w, canceled[l], Held(l))
  <2>1. ParcelOK(q) /\ (\A y \in Parcels : parcel'[y] = IF y = x THEN q ELSE parcel[y]) /\ canceled' = canceled
    BY <1>4 DEF ParcelMoves
  <2>2. CASE parcel[x].status = "live" /\ parcel[x].line = l
    <3> DEFINE e == [about |-> "parcel", line |-> parcel[x].line, of |-> x]
    <3>1. e \in todo'
      BY <1>4, <2>2 DEF ParcelMoves, Publish
    <3>2. e.about = "parcel" /\ e.of = x /\ e.line = l
      BY <2>2
    <3> HIDE DEF e
    <3>3. e \notin events
      BY <2>2, <3>2, EventIs
    <3>4. Tells(e, l, w)
      BY <3>2 DEF Tells
    <3> QED
      BY <1>1, <3>1, <3>3, <3>4, NewlyTold
  <2>3. CASE parcel[x].status # "live" \/ parcel[x].line # l
    <3>1. Held(l) \in Nat /\ Held(l)' \in Nat /\ Held(l) <= Held(l)'
      BY <2>1, <2>3, HeldGrows
    <3>2. PICK a \in Nat, b \in Nat : a = Held(l) /\ b = Held(l)' /\ a <= b
      BY <3>1
    <3>3. w <= canceled[l] /\ w + b <= Bought
      BY <1>4, <2>1, <3>2 DEF Opens
    <3>4. w + a <= Bought
      BY <3>2, <3>3, ShelfAssumption
    <3> QED
      BY <3>2, <3>3, <3>4 DEF Opens
  <2> QED
    BY <2>2, <2>3
<1>5. \A l \in Lines \ excused', w \in 1..Bought :
         Opens(w, canceled'[l], Held(l)') =>
            Pending(l, w, claim'[l], todo', handler') \/ Opens(w, canceled[l], Held(l))
  BY <1>3, <1>4, OperatorShape
<1>6. \A l \in Lines \ excused', w \in 1..Bought :
         ByCheckout(l, w, checkout) => Covers(l, w, claim'[l], returned'[l], todo', handler', checkout')
  BY <1>1 DEF Covers
<1>7. \A l \in Lines \ excused', w \in 1..Bought :
         Opens(w, canceled'[l], Held(l)') =>
            \/ Pending(l, w, claim'[l], todo', handler')
            \/ /\ Opens(w, canceled[l], Held(l))
               /\ ByCheckout(l, w, checkout) =>
                     Covers(l, w, claim'[l], returned'[l], todo', handler', checkout')
  BY <1>5, <1>6
<1> QED
  BY <1>1, <1>2, <1>7, CoverageOthers

\* A step of the checkout.
LEMMA CoverageCheckout ==
    ASSUME Typed, Typed', Coverage, UNCHANGED <<handler, returned, canceled, parcel, todo>>, excused \subseteq excused',
           \A l \in Lines : Stays(l, claim[l], claim'[l]) /\ claim[l].withdrawn <= claim'[l].withdrawn,
           \A l \in Backordered \ excused', w \in 1..Bought :
              Opens(w, canceled[l], Held(l)) /\ ByCheckout(l, w, checkout) =>
                 claim'[l].withdrawn >= w \/ ByCheckout(l, w, checkout')
    PROVE  Coverage'
<1>1. ASSUME NEW l \in Lines \ excused', NEW w \in 1..Bought, Opens(w, canceled'[l], Held(l)'),
             ByCheckout(l, w, checkout)
      PROVE  Covers(l, w, claim'[l], returned'[l], todo', handler', checkout')
  <2>1. l \in Backordered /\ Opens(w, canceled[l], Held(l))
    BY <1>1, HeldSame DEF ByCheckout
  <2>2. claim'[l].withdrawn >= w \/ ByCheckout(l, w, checkout')
    BY <1>1, <2>1
  <2>3. ClaimOK(l, claim'[l]) /\ returned'[l].units \in 0..Bought
    BY DEF Typed, ClaimsOK, ReturnsOK, Units
  <2>4. claim'[l].withdrawn \in 0..Bought
    BY <2>3 DEF ClaimOK, Units
  <2>5. claim'[l].withdrawn >= w => claim'[l].withdrawn + returned'[l].units >= w
    BY <2>3, <2>4
  <2> QED
    BY <2>2, <2>5 DEF Covers
<1>2. \A l \in Lines \ excused', w \in 1..Bought :
         Opens(w, canceled'[l], Held(l)') =>
            /\ Opens(w, canceled[l], Held(l))
            /\ ByCheckout(l, w, checkout) =>
                  Covers(l, w, claim'[l], returned'[l], todo', handler', checkout')
  BY <1>1, HeldSame
<1> QED
  BY <1>2, CoverageOthers

\* What is still to come back: a step of the checkout that settles nothing.
LEMMA CoveragePasses ==
    ASSUME Typed, Typed', Coverage, UNCHANGED <<claim, handler, returned, canceled, parcel, todo>>,
           excused \subseteq excused',
           \A l \in Backordered \ excused', w \in 1..Bought :
              Opens(w, canceled[l], Held(l)) /\ ByCheckout(l, w, checkout) => ByCheckout(l, w, checkout')
    PROVE  Coverage'
<1>1. \A l \in Lines : Stays(l, claim[l], claim'[l]) /\ claim[l].withdrawn <= claim'[l].withdrawn
  BY StaysSame, GoneNumbers
<1> QED
  BY <1>1, CoverageCheckout

\* What is still to come back: the checkout records the claim of its next line.
LEMMA CoverageClaimBackorder ==
    ASSUME Typed, Typed', Coverage, ClaimBackorder
    PROVE  Coverage'
<1> DEFINE l == Min(checkout.left)
<1>1. /\ l \in Backordered /\ claim[l] = NoClaim
      /\ \A m \in Lines : claim'[m] = IF m = l THEN Recorded ELSE claim[m]
      /\ checkout'.pc \in {"claim", "read"}
      /\ UNCHANGED <<returned, canceled, parcel, todo, handler, excused>>
  BY ClaimBackorderShape
<1> HIDE DEF l
<1>2. ASSUME NEW m \in Lines PROVE Stays(m, claim[m], claim'[m]) /\ claim[m].withdrawn <= claim'[m].withdrawn
  <2>1. CASE m = l
    BY <1>1, <2>1 DEF Stays, Recorded, NoClaim, Backordered
  <2>2. CASE m # l
    BY <1>1, <2>2, StaysSame, GoneNumbers
  <2> QED
    BY <2>1, <2>2
<1>3. \A m \in Backordered, w \in 1..Bought : ByCheckout(m, w, checkout')
  BY <1>1 DEF ByCheckout
<1> QED
  BY <1>1, <1>2, <1>3, CoverageCheckout

\* What is still to come back: the checkout cannot rank the warehouses.
LEMMA CoverageRankingFails ==
    ASSUME Typed, Typed', Coverage, RankingFails
    PROVE  Coverage'
<1>1. checkout'.pc = "claim" /\ UNCHANGED <<claim, returned, canceled, parcel, todo, handler, excused>>
  BY RankingFailsShape
<1>2. \A m \in Backordered, w \in 1..Bought : ByCheckout(m, w, checkout')
  BY <1>1 DEF ByCheckout
<1> QED
  BY <1>1, <1>2, CoveragePasses

\* What is still to come back: a claim that could not be recorded excuses its line.
LEMMA CoverageClaimFails ==
    ASSUME Typed, Typed', Coverage, ClaimFails
    PROVE  Coverage'
<1> DEFINE l == Min(checkout.left)
<1>1. /\ checkout.pc = "claim" /\ excused' = excused \cup {l}
      /\ \/ checkout'.pc = "claim"
         \/ checkout'.pc = "read"
         \/ checkout.left \ {l} = {} /\ \A m \in Lines : claim[m].status = "none"
      /\ UNCHANGED <<claim, returned, canceled, parcel, todo, handler>>
  BY ClaimFailsShape
<1> HIDE DEF l
<1>2. ASSUME NEW m \in Backordered \ excused', NEW w \in 1..Bought
      PROVE  ByCheckout(m, w, checkout')
  <2>1. CASE checkout'.pc \in {"claim", "read"}
    BY <2>1 DEF ByCheckout
  <2>2. CASE checkout.left \ {l} = {} /\ \A k \in Lines : claim[k].status = "none"
    <3>1. m \in checkout.left
      BY <1>1, <2>2 DEF Typed, ClaimedOK, Backordered
    <3> QED
      BY <1>1, <2>2, <3>1
  <2> QED
    BY <1>1, <2>1, <2>2
<1> QED
  BY <1>1, <1>2, CoveragePasses

\* What is still to come back: the checkout has read what was written off meanwhile.
LEMMA CoverageReadWriteOffs ==
    ASSUME Typed, Typed', Coverage, ReadWriteOffs
    PROVE  Coverage'
<1>1. checkout' = [pc |-> "count", canceled |-> canceled]
      /\ UNCHANGED <<claim, returned, canceled, parcel, todo, handler, excused>>
  BY DEF ReadWriteOffs, stock, order
<1>2. checkout'.pc = "count" /\ checkout'.canceled = canceled
  BY <1>1
<1>3. \A l \in Backordered \ excused', w \in 1..Bought : w <= canceled[l] => ByCheckout(l, w, checkout')
  BY <1>2, CanceledInt DEF ByCheckout, Backordered
<1>4. \A l \in Backordered \ excused', w \in 1..Bought :
              Opens(w, canceled[l], Held(l)) /\ ByCheckout(l, w, checkout) => ByCheckout(l, w, checkout')
  BY <1>3 DEF Opens
<1> QED
  BY <1>1, <1>4, CoveragePasses

\* What is still to come back: the checkout has the windows of its lines, what parcels
\* hold taken off.
LEMMA CoverageCountParcels ==
    ASSUME Typed, Typed', Coverage, CountParcels
    PROVE  Coverage'
<1>1. /\ checkout.pc = "count" /\ checkout'.pc = "settle"
      /\ checkout'.left = {l \in Lines : claim[l].status # "none"}
      /\ checkout'.window \in Windows /\ excused \subseteq excused'
      /\ \A l \in Backordered \ excused' : GoodWindow(l, checkout'.window[l])
      /\ UNCHANGED <<claim, returned, canceled, parcel, todo, handler>>
  BY CountParcelsShape
<1>2. checkout.canceled \in Windows
  BY <1>1, CheckoutIs, CheckoutFields
<1>3. ASSUME NEW l \in Backordered \ excused', NEW w \in 1..Bought,
             Opens(w, canceled[l], Held(l)), ByCheckout(l, w, checkout)
      PROVE  ByCheckout(l, w, checkout')
  <2>1. l \in Lines /\ l \notin excused
    BY <1>1 DEF Backordered
  <2>2. l \in checkout'.left
    BY <1>1, <2>1 DEF Typed, ClaimedOK
  <2>3. checkout.canceled[l] >= w /\ checkout.canceled[l] \in 0..Bought /\ checkout'.window[l] \in 0..Bought
    BY <1>1, <1>2, <1>3, <2>1 DEF ByCheckout, Windows, Units
  <2>4. w <= checkout'.window[l]
    <3>1. w \in Nat /\ w <= checkout.canceled[l] /\ w + Held(l) <= Bought
      BY <1>3, <2>3 DEF Opens
    <3>2. GoodWindow(l, checkout'.window[l])
      BY <1>1
    <3> QED
      BY <3>1, <3>2 DEF GoodWindow
  <2> QED
    BY <1>1, <2>2, <2>3, <2>4 DEF ByCheckout
<1>4. \A l \in Backordered \ excused', w \in 1..Bought :
              Opens(w, canceled[l], Held(l)) /\ ByCheckout(l, w, checkout) => ByCheckout(l, w, checkout')
  BY <1>3
<1> QED
  BY <1>1, <1>4, CoveragePasses

\* A line whose turn is still to come.
LEMMA LaterLine ==
    ASSUME checkout.pc \in {"settle", "drain"}, checkout.window \in Windows, NEW left \in SUBSET Backordered,
           checkout' = NextLine(left), NEW l \in Backordered, NEW w, ByCheckout(l, w, checkout), l \in left
    PROVE  ByCheckout(l, w, checkout')
<1>1. checkout.window[l] >= w
  BY DEF ByCheckout
<1>2. checkout'.pc = "settle" /\ checkout'.left = left /\ checkout'.window = checkout.window
  BY NextLineOK
<1> QED
  BY <1>1, <1>2 DEF ByCheckout

\* What is still to come back: the checkout settles a claim against its window.
LEMMA CoverageSettleClaim ==
    ASSUME Typed, Typed', Coverage, SettleClaim
    PROVE  Coverage'
<1> DEFINE m == Min(checkout.left)
           left == checkout.left \ {m}
           window == checkout.window[m]
           c == SettledClaim(m, window)
<1>1. /\ checkout.pc = "settle" /\ m \in Lines /\ m \in Backordered /\ checkout.left \in SUBSET Backordered
      /\ checkout.window \in Windows /\ window \in Units
      /\ claim' = [claim EXCEPT ![m] = c]
      /\ excused' = excused \cup {k \in {m} : claim[k].status = "filled" /\ window > 0}
      /\ checkout' = IF c.status = "waiting"
                     THEN [pc |-> "drain", left |-> left, window |-> checkout.window,
                           line |-> m, places |-> Places]
                     ELSE NextLine(left)
      /\ UNCHANGED <<returned, canceled, parcel, todo, handler>>
  BY SettleClaimShape
<1>2. left \in SUBSET Backordered /\ excused \subseteq excused'
  BY <1>1
<1>3. \A l \in Lines : Stays(l, claim[l], claim'[l]) /\ (l # m => claim'[l] = claim[l]) /\ claim'[m] = c
  BY <1>1, SettleStays
<1>4. /\ ClaimOK(m, claim[m]) /\ window \in 0..Bought /\ claim[m].withdrawn \in 0..Bought
      /\ claim[m].status \notin {"waiting", "unplaced"} => c = claim[m]
      /\ claim[m].status \in {"waiting", "unplaced"} =>
            c.withdrawn >= window /\ c.withdrawn >= claim[m].withdrawn
  BY <1>1, GoneNumbers, SettledShape DEF Typed, ClaimsOK, Units
<1>k. \A k \in Lines : k \in left => k # m
  OBVIOUS
<1>m. \A k \in Lines : k \in checkout.left /\ k # m => k \in left
  OBVIOUS
<1> HIDE DEF left, c
<1>5. ASSUME NEW l \in Lines
      PROVE  Stays(l, claim[l], claim'[l]) /\ claim[l].withdrawn <= claim'[l].withdrawn
  <2>1. CASE l = m
    BY <1>3, <1>4, <2>1
  <2>2. CASE l # m
    BY <1>3, <2>2, GoneNumbers
  <2> QED
    BY <2>1, <2>2
<1>6. ASSUME NEW l \in Backordered \ excused', NEW w \in 1..Bought, ByCheckout(l, w, checkout)
      PROVE  claim'[l].withdrawn >= w \/ ByCheckout(l, w, checkout')
  <2>0. l \in Lines /\ l \in checkout.left /\ checkout.window[l] >= w /\ l \notin excused
    BY <1>1, <1>6 DEF ByCheckout, Backordered
  <2>1. CASE l = m
    <3>1. window >= w /\ window > 0
      BY <1>4, <2>0, <2>1
    <3>2. claim[m].status # "filled"
      BY <1>1, <1>6, <2>1, <3>1
    <3>3. claim[m].status # "none"
      BY <1>1, <2>0, <2>1 DEF Typed, ClaimedOK
    <3>s. claim[m].status \in {"none", "waiting", "unplaced", "filled", "withdrawn"}
      BY <1>4 DEF ClaimOK
    <3>4. claim'[l] = c /\ claim[m].status \in {"waiting", "unplaced", "withdrawn"}
      BY <1>1, <1>3, <2>1, <3>2, <3>3, <3>s
    <3>5. CASE claim[m].status \in {"waiting", "unplaced"}
      <4>1. c.withdrawn >= window /\ ClaimOK(m, claim'[m])
        BY <1>1, <1>4, <3>5 DEF Typed, ClaimsOK
      <4>2. c.withdrawn \in 0..Bought
        BY <2>1, <3>4, <4>1 DEF ClaimOK, Units
      <4> QED
        BY <1>4, <3>1, <3>4, <4>1, <4>2
    <3>6. CASE claim[m].status = "withdrawn"
      <4>1. c = claim[m] /\ claim[m].withdrawn = Bought
        BY <1>4, <3>6 DEF ClaimOK
      <4> QED
        BY <3>4, <4>1, ShelfAssumption
    <3> QED
      BY <3>4, <3>5, <3>6
  <2>2. CASE l # m
    <3>1. l \in left
      BY <1>m, <2>0, <2>2
    <3>2. CASE c.status = "waiting"
      <4>1. checkout'.pc = "drain" /\ checkout'.left = left /\ checkout'.window = checkout.window
        BY <1>1, <3>2
      <4> QED
        BY <2>0, <3>1, <4>1 DEF ByCheckout
    <3>3. CASE c.status # "waiting"
      BY <1>1, <1>2, <1>6, <3>1, <3>3, LaterLine
    <3> QED
      BY <3>2, <3>3
  <2> QED
    BY <2>1, <2>2
<1>7. \A l \in Backordered \ excused', w \in 1..Bought :
              Opens(w, canceled[l], Held(l)) /\ ByCheckout(l, w, checkout) =>
                 claim'[l].withdrawn >= w \/ ByCheckout(l, w, checkout')
  BY <1>6
<1> QED
  BY <1>1, <1>2, <1>5, <1>7, CoverageCheckout

\* What is still to come back: the checkout lets the queue have what one warehouse has.
LEMMA CoverageDrainClaim ==
    ASSUME Typed, Typed', Coverage, DrainClaim
    PROVE  Coverage'
<1> DEFINE p == Min(checkout.places)
           places == checkout.places \ {p}
<1>1. /\ checkout.pc = "drain" /\ p \in Places /\ checkout.left \in SUBSET Backordered
      /\ checkout.window \in Windows /\ WritesAt(p)
      /\ \/ checkout' = NextLine(checkout.left)
         \/ checkout' = [pc |-> "drain", left |-> checkout.left, window |-> checkout.window,
                         line |-> checkout.line, places |-> places]
      /\ UNCHANGED <<returned, canceled, parcel, todo, handler, excused>>
  BY DrainClaimShape
<1> HIDE DEF places
<1>2. \A l \in Lines : Stays(l, claim[l], claim'[l]) /\ claim[l].withdrawn <= claim'[l].withdrawn
  BY <1>1, WritesStay, GoneNumbers
<1>3. ASSUME NEW l \in Backordered \ excused', NEW w \in 1..Bought, ByCheckout(l, w, checkout)
      PROVE  ByCheckout(l, w, checkout')
  <2>1. l \in checkout.left /\ checkout.window[l] >= w
    BY <1>1, <1>3 DEF ByCheckout
  <2>2. CASE checkout' = NextLine(checkout.left)
    BY <1>1, <1>3, <2>1, <2>2, LaterLine
  <2>3. CASE checkout' = [pc |-> "drain", left |-> checkout.left, window |-> checkout.window,
                          line |-> checkout.line, places |-> places]
    BY <2>1, <2>3 DEF ByCheckout
  <2> QED
    BY <1>1, <2>2, <2>3
<1>4. \A l \in Backordered \ excused', w \in 1..Bought :
              Opens(w, canceled[l], Held(l)) /\ ByCheckout(l, w, checkout) =>
                 claim'[l].withdrawn >= w \/ ByCheckout(l, w, checkout')
  BY <1>3
<1> QED
  BY <1>1, <1>2, <1>4, CoverageCheckout

\* What is still to come back: a settlement the checkout gave up excuses its lines.
LEMMA CoverageSettlementFails ==
    ASSUME Typed, Typed', Coverage, SettlementFails
    PROVE  Coverage'
<1>1. /\ \/ excused' = excused \cup Backordered
         \/ \E k \in Lines :
               /\ checkout.pc \in {"settle", "drain"}
               /\ excused' = excused \cup {k} /\ checkout' = NextLine(checkout.left \ {k})
               /\ checkout.left \in SUBSET Backordered /\ checkout.window \in Windows
      /\ UNCHANGED <<claim, returned, canceled, parcel, todo, handler>>
  BY SettlementFailsShape
<1>2. ASSUME NEW l \in Backordered \ excused', NEW w \in 1..Bought, ByCheckout(l, w, checkout)
      PROVE  ByCheckout(l, w, checkout')
  <2>1. PICK k \in Lines :
               /\ checkout.pc \in {"settle", "drain"}
               /\ excused' = excused \cup {k} /\ checkout' = NextLine(checkout.left \ {k})
               /\ checkout.left \in SUBSET Backordered /\ checkout.window \in Windows
    BY <1>1, <1>2
  <2>2. l \in checkout.left \ {k} /\ checkout.left \ {k} \in SUBSET Backordered
    BY <1>2, <2>1 DEF ByCheckout
  <2> QED
    BY <1>2, <2>1, <2>2, LaterLine
<1>3. excused \subseteq excused'
  BY <1>1
<1>4. \A l \in Backordered \ excused', w \in 1..Bought :
              Opens(w, canceled[l], Held(l)) /\ ByCheckout(l, w, checkout) => ByCheckout(l, w, checkout')
  BY <1>2
<1> QED
  BY <1>1, <1>3, <1>4, CoveragePasses

\* What is still to come back: a reservation becomes a sale and what it frees fills the
\* queue.
LEMMA CoverageConfirmLine ==
    ASSUME Typed, Typed', Coverage, ConfirmLine
    PROVE  Coverage'
<1>1. /\ checkout.pc = "confirm" /\ 1 \in Places /\ WritesAt(1)
      /\ UNCHANGED <<returned, canceled, parcel, todo, handler, excused>>
  BY ConfirmLineShape
<1>2. \A l \in Lines : Stays(l, claim[l], claim'[l]) /\ claim[l].withdrawn <= claim'[l].withdrawn
  BY <1>1, WritesStay, GoneNumbers
<1>3. \A l, w : ~ByCheckout(l, w, checkout)
  BY <1>1 DEF ByCheckout
<1> QED
  BY <1>1, <1>2, <1>3, CoverageCheckout

\* What is still to come back: a reservation that could not be confirmed excuses its line.
LEMMA CoverageConfirmFails ==
    ASSUME Typed, Typed', Coverage, ConfirmFails
    PROVE  Coverage'
<1>1. /\ checkout.pc = "confirm" /\ excused \subseteq excused'
      /\ UNCHANGED <<claim, returned, canceled, parcel, todo, handler>>
  BY ConfirmFailsShape
<1>2. \A l, w : ~ByCheckout(l, w, checkout)
  BY <1>1 DEF ByCheckout
<1> QED
  BY <1>1, <1>2, CoveragePasses

\* What is still to come back: nothing yet.
LEMMA CoverageInit ==
    ASSUME Init
    PROVE  Coverage
<1>1. checkout = [pc |-> "claim", left |-> Backordered, as |-> "waiting"] /\ canceled = [l \in Lines |-> 0]
  BY DEF Init
<1>2. \A l \in Lines, w \in 1..Bought : ~Opens(w, canceled[l], Held(l))
  BY <1>1 DEF Opens
<1> QED
  BY <1>2 DEF Coverage

\* What is still to come back: every step.
LEMMA CoverageNext == ASSUME Typed, Coverage, [Next]_vars PROVE Coverage'
<1>0. Typed'
  BY TypedNext
<1>1. ASSUME NEW p \in Places, Arrive(p) PROVE Coverage'
  BY <1>0, <1>1, CoverageArrive
<1>2. ASSUME Operator PROVE Coverage'
  BY <1>0, <1>2, CoverageOperator
<1>3. ASSUME LastStep PROVE Coverage'
  BY <1>0, <1>3, CoverageRankingFails, CoverageClaimBackorder, CoverageClaimFails, CoverageReadWriteOffs, CoverageCountParcels,
     CoverageSettleClaim, CoverageDrainClaim, CoverageSettlementFails, CoverageConfirmLine, CoverageConfirmFails
  DEF LastStep
<1>4. ASSUME NEW h \in Handlers, Delivery(h) PROVE Coverage'
  BY <1>0, <1>4, CoverageHandleLineCanceled, CoverageCountHeld, CoverageRecountParcel, CoverageReadShelves,
     CoverageSettle, CoverageDrain, CoverageDrainFails, CoveragePutBack, CoverageDeliveryFails DEF Delivery
<1>5. CASE UNCHANGED vars
  <2>1. UNCHANGED <<claim, handler, returned, canceled, parcel, todo, checkout, excused>>
    BY <1>5 DEF vars, stock, order
  <2> QED
    BY <1>0, <2>1, CoveragePasses
<1> QED
  BY <1>1, <1>2, <1>3, <1>4, <1>5 DEF Next

\* In every reachable state somebody sees to the units that are not back.
LEMMA CoverageAlways == Spec => [](Typed /\ Limits /\ Coverage)
<1>1. Init => Typed /\ Limits /\ Coverage
  BY TypedInit, LimitsInit, CoverageInit
<1>2. Typed /\ Limits /\ Coverage /\ [Next]_vars => (Typed /\ Limits /\ Coverage)'
  BY TypedNext, LimitsNext, CoverageNext
<1> QED
  BY <1>1, <1>2, PTL DEF Spec

\* Once every event was handled and the checkout is through, every written-off unit
\* that no parcel holds is on the shelf again or no longer waited for, except on the lines
\* that met a window of `excused`.  Two of those windows are orders of the acts that lose
\* units without any failure: a reservation confirmed after its event was handled, and a
\* claim filled before the checkout settled it.  No other order and no repeated or failed
\* delivery does.
THEOREM AllIsBack == Spec => []EverythingIsBack
<1>1. Typed /\ Limits /\ Coverage => EverythingIsBack
  <2> SUFFICES ASSUME Typed, Limits, Coverage, todo = {}, checkout.pc = "done", NEW l \in Lines \ excused
               PROVE  SetAside(l) - returned[l].units = Due(l)
    BY DEF EverythingIsBack
  <2>1. /\ SetAside(l) = Bought - claim[l].withdrawn
        /\ Due(l) = IF Bought - canceled[l] >= Held(l) THEN Bought - canceled[l] ELSE Held(l)
    BY SetAsideIs
  <2>2. /\ Bought \in Nat /\ canceled[l] \in 0..Bought /\ Held(l) \in Nat
        /\ claim[l].withdrawn \in 0..Bought /\ returned[l].units \in 0..Bought
        /\ claim[l].withdrawn + returned[l].units <= canceled[l]
        /\ claim[l].withdrawn + returned[l].units + Held(l) <= Bought
    BY LineNumbers
  <2>3. ASSUME NEW w \in 1..Bought, w <= canceled[l], w + Held(l) <= Bought
        PROVE  claim[l].withdrawn + returned[l].units >= w
    <3>1. Covers(l, w, claim[l], returned[l], todo, handler, checkout)
      BY <2>3 DEF Coverage, Opens
    <3>2. ~Pending(l, w, claim[l], todo, handler) /\ ~ByCheckout(l, w, checkout)
      BY DEF Pending, ByCheckout
    <3> QED
      BY <3>1, <3>2 DEF Covers
  <2>4. CASE Bought - canceled[l] >= Held(l)
    <3>1. canceled[l] > 0 => claim[l].withdrawn + returned[l].units >= canceled[l]
      <4>1. ASSUME canceled[l] > 0 PROVE claim[l].withdrawn + returned[l].units >= canceled[l]
        <5>1. canceled[l] \in 1..Bought /\ canceled[l] <= canceled[l] /\ canceled[l] + Held(l) <= Bought
          BY <2>2, <2>4, <4>1
        <5> QED
          BY <2>3, <5>1
      <4> QED
        BY <4>1
    <3>2. PICK n \in Nat, k \in Nat, a \in Nat, r \in Nat :
             n = canceled[l] /\ k = Held(l) /\ a = claim[l].withdrawn /\ r = returned[l].units
      BY <2>2
    <3>3. a + r = n
      BY <2>2, <3>1, <3>2
    <3>4. SetAside(l) = Bought - a /\ Due(l) = Bought - n
      BY <2>1, <2>4, <3>2
    <3> QED
      BY <2>2, <3>2, <3>3, <3>4
  <2>5. CASE ~(Bought - canceled[l] >= Held(l))
    <3>1. Bought - Held(l) > 0 => claim[l].withdrawn + returned[l].units >= Bought - Held(l)
      <4>1. ASSUME Bought - Held(l) > 0 PROVE claim[l].withdrawn + returned[l].units >= Bought - Held(l)
        <5>1. PICK w \in Int : w = Bought - Held(l)
          BY <2>2
        <5>2. w \in 1..Bought /\ w <= canceled[l] /\ w + Held(l) <= Bought
          BY <2>2, <2>5, <4>1, <5>1
        <5> QED
          BY <2>3, <5>1, <5>2
      <4> QED
        BY <4>1
    <3> QED
      BY <2>1, <2>2, <2>5, <3>1
  <2> QED
    BY <2>4, <2>5
<1> QED
  BY <1>1, CoverageAlways, PTL

-----------------------------------------------------------------------------
(* What a waiting claim still needs is nowhere on sale, or a delivery or    *)
(* the checkout is still going to look at the warehouses.                  *)

Clear(st, rs, c, P) == \A p \in P : st[p] - rs[p] < Bought - c.withdrawn

\* A delivery will still look at every warehouse, or has found too little so far
Seen(m, st, rs, c) ==
    /\ m.pc = "count" => m.total >= 1
    /\ m.pc = "drain" => Clear(st, rs, c, Places \ m.left)
    /\ m.pc = "put" => m.failed

Queues(e, l, hd, st, rs, c) ==
    e.line = l /\ \A h \in Handlers : hd[h].pc # "idle" /\ hd[h].event = e => Seen(hd[h], st, rs, c)

\* The checkout will
SweptByCheckout(l, st, rs, c, co) ==
    \/ co.pc \in Early
    \/ co.pc \in {"settle", "drain"} /\ l \in co.left
    \/ co.pc = "drain" /\ co.line = l /\ Clear(st, rs, c, Places \ co.places)

Sweep(l, st, rs, c, td, hd, co) ==
    c.status = "waiting" =>
       \/ SweptByCheckout(l, st, rs, c, co)
       \/ Clear(st, rs, c, Places)
       \/ c.withdrawn > 0 /\ \E e \in td : Queues(e, l, hd, st, rs, c)

Swept == \A l \in Backordered \ excused :
            Sweep(l, stocked, reserved, claim[l], todo, handler, checkout)

\* A claim that still waits is the same, and where it was short it still is
Steady(st, rs, c, st2, rs2, c2) ==
    c2.status = "waiting" =>
       c2 = c /\ \A P \in SUBSET Places : Clear(st, rs, c, P) => Clear(st2, rs2, c2, P)

\* What a delivery found short of a waiting claim's need is still short.
LEMMA SeenKept ==
    ASSUME NEW m, NEW st, NEW rs, NEW c, NEW st2, NEW rs2, NEW c2, Steady(st, rs, c, st2, rs2, c2),
           c2.status = "waiting", Seen(m, st, rs, c)
    PROVE  Seen(m, st2, rs2, c2)
BY DEF Seen, Steady

\* A step that no delivery takes.
LEMMA SweepKept ==
    ASSUME NEW l, NEW st, NEW rs, NEW c, NEW td, NEW hd, NEW co, Sweep(l, st, rs, c, td, hd, co),
           NEW st2, NEW rs2, NEW c2, NEW td2, NEW co2, Steady(st, rs, c, st2, rs2, c2), td \subseteq td2,
           SweptByCheckout(l, st, rs, c, co) => Sweep(l, st2, rs2, c2, td2, hd, co2)
    PROVE  Sweep(l, st2, rs2, c2, td2, hd, co2)
<1> SUFFICES ASSUME c2.status = "waiting"
             PROVE  Sweep(l, st2, rs2, c2, td2, hd, co2)
  BY DEF Sweep
<1>1. c2 = c /\ \A P \in SUBSET Places : Clear(st, rs, c, P) => Clear(st2, rs2, c2, P)
  BY DEF Steady
<1>2. CASE SweptByCheckout(l, st, rs, c, co)
  BY <1>2
<1>3. CASE Clear(st, rs, c, Places)
  <2>1. Clear(st2, rs2, c2, Places)
    BY <1>1, <1>3
  <2> QED
    BY <2>1 DEF Sweep
<1>4. ASSUME c.withdrawn > 0, NEW e \in td, Queues(e, l, hd, st, rs, c)
      PROVE  Sweep(l, st2, rs2, c2, td2, hd, co2)
  <2>1. Queues(e, l, hd, st2, rs2, c2)
    BY <1>4, SeenKept DEF Queues
  <2>2. e \in td2 /\ c2.withdrawn > 0
    BY <1>1, <1>4
  <2> QED
    BY <2>1, <2>2 DEF Sweep
<1> QED
  BY <1>1, <1>2, <1>3, <1>4 DEF Sweep

\* A delivery's step, to t.
LEMMA SweepMoves ==
    ASSUME NEW l, NEW st, NEW rs, NEW c, NEW td, NEW hd, NEW co, Sweep(l, st, rs, c, td, hd, co),
           NEW st2, NEW rs2, NEW c2, NEW td2, NEW hd2, NEW h \in Handlers, NEW t,
           \A g \in Handlers : hd2[g] = IF g = h THEN t ELSE hd[g],
           Steady(st, rs, c, st2, rs2, c2),
           c2.status = "waiting" /\ c.withdrawn > 0 =>
              \A e \in td : Queues(e, l, hd, st, rs, c)
                 => \/ Clear(st2, rs2, c2, Places)
                    \/ e \in td2 /\ (t.pc # "idle" /\ t.event = e => Seen(t, st2, rs2, c2))
    PROVE  Sweep(l, st2, rs2, c2, td2, hd2, co)
<1> SUFFICES ASSUME c2.status = "waiting"
             PROVE  Sweep(l, st2, rs2, c2, td2, hd2, co)
  BY DEF Sweep
<1>1. c2 = c /\ \A P \in SUBSET Places : Clear(st, rs, c, P) => Clear(st2, rs2, c2, P)
  BY DEF Steady
<1>2. CASE SweptByCheckout(l, st, rs, c, co)
  <2>1. SweptByCheckout(l, st2, rs2, c2, co)
    BY <1>1, <1>2 DEF SweptByCheckout
  <2> QED
    BY <2>1 DEF Sweep
<1>3. CASE Clear(st, rs, c, Places)
  <2>1. Clear(st2, rs2, c2, Places)
    BY <1>1, <1>3
  <2> QED
    BY <2>1 DEF Sweep
<1>4. ASSUME c.withdrawn > 0, NEW e \in td, Queues(e, l, hd, st, rs, c)
      PROVE  Sweep(l, st2, rs2, c2, td2, hd2, co)
  <2>1. Queues(e, l, hd, st2, rs2, c2)
    BY <1>4, SeenKept DEF Queues
  <2>2. CASE Clear(st2, rs2, c2, Places)
    BY <2>2 DEF Sweep
  <2>3. CASE e \in td2 /\ (t.pc # "idle" /\ t.event = e => Seen(t, st2, rs2, c2))
    <3>1. Queues(e, l, hd2, st2, rs2, c2)
      BY <2>1, <2>3 DEF Queues
    <3>2. c2.withdrawn > 0
      BY <1>1, <1>4
    <3> QED
      BY <2>3, <3>1, <3>2 DEF Sweep
  <2> QED
    BY <1>4, <2>2, <2>3
<1> QED
  BY <1>1, <1>2, <1>3, <1>4 DEF Sweep

\* Writes to a level leave too little there, or no more than before.
Sweeps(p) == WritesAt(p) /\ (LeavesTooLittle(p) \/ stocked'[p] - reserved'[p] <= Available(p))

\* A write that fills the queue as far as it can leaves no waiting claim better off.
LEMMA WriteSteady ==
    ASSUME Typed, NEW p \in Places, Sweeps(p), NEW l \in Lines
    PROVE  Steady(stocked, reserved, claim[l], stocked', reserved', claim'[l])
<1> SUFFICES ASSUME claim'[l].status = "waiting"
             PROVE  /\ claim'[l] = claim[l]
                    /\ \A P \in SUBSET Places : Clear(stocked, reserved, claim[l], P) =>
                                                Clear(stocked', reserved', claim'[l], P)
  BY DEF Steady
<1>1. WritesAt(p) /\ ClaimOK(l, claim[l])
  BY DEF Sweeps, Typed, ClaimsOK
<1>2. claim'[l] = claim[l]
  <2>1. claim[l].status = "waiting" /\ claim'[l] = FilledAt(claim[l], p) => claim'[l].status = "filled"
    BY <1>1, ClaimFilled
  <2> QED
    BY <1>1, <2>1 DEF WritesAt, Fills
<1>3. /\ StockOK(stocked, reserved) /\ StockOK(stocked', reserved')
      /\ \A q \in Places : q # p => stocked'[q] = stocked[q] /\ reserved'[q] = reserved[q]
  BY <1>1 DEF WritesAt, Typed
<1>4. Owed(l) = Bought - claim[l].withdrawn /\ Owed(l) \in Int
  BY GoneNumbers DEF Owed
<1>5. l \in Waiters(claim')
  BY DEF Waiters
<1>6. ASSUME NEW P \in SUBSET Places, Clear(stocked, reserved, claim[l], P), NEW q \in P
      PROVE  stocked'[q] - reserved'[q] < Bought - claim'[l].withdrawn
  <2>1. stocked[q] - reserved[q] < Owed(l) /\ q \in Places
    BY <1>4, <1>6 DEF Clear
  <2>2. CASE q # p
    BY <1>2, <1>3, <1>4, <2>1, <2>2
  <2>3. CASE q = p /\ LeavesTooLittle(p)
    BY <1>2, <1>4, <1>5, <2>3 DEF LeavesTooLittle
  <2>4. CASE q = p /\ stocked'[p] - reserved'[p] <= Available(p)
    <3>1. stocked'[p] \in Int /\ reserved'[p] \in Int /\ stocked[p] \in Int /\ reserved[p] \in Int
      BY <1>3 DEF StockOK
    <3>2. stocked'[p] - reserved'[p] <= stocked[p] - reserved[p]
      BY <2>4 DEF Available
    <3> QED
      BY <1>2, <1>4, <2>1, <2>4, <3>1, <3>2
  <2> QED
    BY <2>2, <2>3, <2>4 DEF Sweeps
<1>7. \A P \in SUBSET Places : Clear(stocked, reserved, claim[l], P) => Clear(stocked', reserved', claim'[l], P)
  BY <1>6 DEF Clear
<1> QED
  BY <1>2, <1>7

\* One warehouse more.
LEMMA ClearedOne ==
    ASSUME Typed, NEW p \in Places, WritesAt(p), LeavesTooLittle(p), NEW l \in Lines, claim'[l].status = "waiting",
           NEW P \in SUBSET Places, Clear(stocked, reserved, claim[l], P \ {p})
    PROVE  Clear(stocked', reserved', claim'[l], P)
<1>1. Steady(stocked, reserved, claim[l], stocked', reserved', claim'[l])
  BY WriteSteady DEF Sweeps
<1>2. claim'[l] = claim[l] /\ Clear(stocked', reserved', claim'[l], P \ {p})
  BY <1>1 DEF Steady
<1>3. stocked'[p] - reserved'[p] < Bought - claim'[l].withdrawn
  <2>1. stocked'[p] - reserved'[p] < Owed(l)
    BY DEF LeavesTooLittle, Waiters
  <2> QED
    BY <1>2, <2>1 DEF Owed
<1> QED
  BY <1>2, <1>3 DEF Clear

\* Levels and claims that do not change are steady.
LEMMA SteadySame == ASSUME NEW st, NEW rs, NEW c PROVE Steady(st, rs, c, st, rs, c)
BY DEF Steady

\* What a waiting claim needs: a step of one delivery.
LEMMA SweptDelivery ==
    ASSUME Typed, Swept, NEW h \in Handlers, NEW t, handler' = [handler EXCEPT ![h] = t],
           checkout' = checkout, excused \subseteq excused',
           \A l \in Lines : Steady(stocked, reserved, claim[l], stocked', reserved', claim'[l]),
           \A l \in Backordered \ excused' :
              claim'[l].status = "waiting" /\ claim[l].withdrawn > 0 =>
                 \A e \in todo : Queues(e, l, handler, stocked, reserved, claim[l])
                    => \/ Clear(stocked', reserved', claim'[l], Places)
                       \/ e \in todo' /\ (t.pc # "idle" /\ t.event = e => Seen(t, stocked', reserved', claim'[l]))
    PROVE  Swept'
<1> SUFFICES ASSUME NEW l \in Backordered \ excused'
             PROVE  Sweep(l, stocked', reserved', claim'[l], todo', handler', checkout')
  BY DEF Swept
<1>1. l \in Lines /\ l \in Backordered \ excused
  BY DEF Backordered
<1>2. PICK st, rs, c, td, hd, co, st2, rs2, c2, td2, hd2 :
         /\ st = stocked /\ rs = reserved /\ c = claim[l] /\ td = todo /\ hd = handler /\ co = checkout
         /\ st2 = stocked' /\ rs2 = reserved' /\ c2 = claim'[l] /\ td2 = todo' /\ hd2 = handler'
  OBVIOUS
<1>3. Sweep(l, st, rs, c, td, hd, co)
  BY <1>1, <1>2 DEF Swept
<1>4. \A g \in Handlers : hd2[g] = IF g = h THEN t ELSE hd[g]
  BY <1>2 DEF Typed, HandlersOK
<1>5. Steady(st, rs, c, st2, rs2, c2)
  BY <1>1, <1>2
<1>6. c2.status = "waiting" /\ c.withdrawn > 0 =>
         \A e \in td : Queues(e, l, hd, st, rs, c)
            => \/ Clear(st2, rs2, c2, Places)
               \/ e \in td2 /\ (t.pc # "idle" /\ t.event = e => Seen(t, st2, rs2, c2))
  BY <1>2
<1>7. Sweep(l, st2, rs2, c2, td2, hd2, co)
  BY <1>3, <1>4, <1>5, <1>6, SweepMoves
<1> QED
  BY <1>2, <1>7

\* A delivery's step that leaves the claims and the levels alone.
LEMMA SweptHandler ==
    ASSUME Typed, Swept, NEW h \in Handlers, NEW t, handler' = [handler EXCEPT ![h] = t],
           UNCHANGED <<stocked, reserved, claim, checkout, excused>>,
           \A l \in Backordered \ excused : claim[l].withdrawn > 0 =>
              \A e \in todo : Queues(e, l, handler, stocked, reserved, claim[l])
                 => e \in todo' /\ (t.pc # "idle" /\ t.event = e => Seen(t, stocked, reserved, claim[l]))
    PROVE  Swept'
<1>1. \A l \in Lines : Steady(stocked, reserved, claim[l], stocked', reserved', claim'[l])
  BY SteadySame
<1> QED
  BY <1>1, SweptDelivery

\* Of a line that something was withdrawn from, a later count withdraws something too.
LEMMA SweptCount ==
    ASSUME Typed, Limits, Swept, NEW h \in Handlers, NEW e \in events, NEW total \in Units, Count(h, e, total),
           UNCHANGED <<stocked, reserved, claim, checkout, excused>>,
           \A l \in Backordered \ excused : Queues(e, l, handler, stocked, reserved, claim[l]) => total >= 1
    PROVE  Swept'
<1> DEFINE window == TargetOnShelf(total, Held(e.line))
           m == [pc |-> "sold", event |-> e, line |-> e.line, window |-> window]
           t == IF window = 0 THEN Idle ELSE m
<1>1. handler' = [handler EXCEPT ![h] = t] /\ (window = 0 => todo' = todo \ {e}) /\ (window # 0 => todo' = todo)
  BY DEF Count, Stand
<1>2. Held(e.line) \in Nat
  BY HeldIs DEF Typed
<1>3. window \in Units /\ \A w \in Nat : w <= total /\ w + Held(e.line) <= Bought => w <= window
  BY <1>2, WindowIs
<1>4. ASSUME NEW l \in Backordered \ excused, claim[l].withdrawn > 0,
             Queues(e, l, handler, stocked, reserved, claim[l])
      PROVE  window # 0
  <2>1. l \in Lines \ excused /\ e.line = l /\ total >= 1
    BY <1>4 DEF Backordered, Queues
  <2>2. /\ Bought \in Nat /\ Held(l) \in Nat /\ claim[l].withdrawn \in 0..Bought /\ returned[l].units \in 0..Bought
        /\ claim[l].withdrawn + returned[l].units + Held(l) <= Bought
    BY <2>1, LineNumbers
  <2>3. 1 + Held(e.line) <= Bought
    BY <1>4, <2>1, <2>2
  <2>4. 1 <= total
    BY <2>1 DEF Units
  <2>5. 1 <= window
    BY <1>3, <2>3, <2>4
  <2> QED
    BY <2>5
<1> HIDE DEF window
<1>5. window # 0 => t.pc = "sold"
  OBVIOUS
<1>6. t.pc # "idle" => t.event = e /\ window # 0
  BY DEF Idle
<1> HIDE DEF t
<1>7. \A l \in Backordered \ excused : claim[l].withdrawn > 0 =>
              \A d \in todo : Queues(d, l, handler, stocked, reserved, claim[l])
                 => d \in todo' /\ (t.pc # "idle" /\ t.event = d => Seen(t, stocked, reserved, claim[l]))
  BY <1>1, <1>4, <1>5, <1>6 DEF Seen
<1> QED
  BY <1>1, <1>7, SweptHandler

\* What a waiting claim needs: a delivery of a write-off begins with the total the event
\* carries.
LEMMA SweptHandleLineCanceled ==
    ASSUME Typed, Limits, Swept, NEW h \in Handlers, NEW e \in events, HandleLineCanceled(h, e)
    PROVE  Swept'
<1>1. Count(h, e, e.total) /\ e.about = "line"
      /\ UNCHANGED <<stocked, reserved, claim, checkout, excused>>
  BY DEF HandleLineCanceled, stock, order
<1>2. e.total \in Units /\ e.total >= 1
  BY <1>1, EventIs DEF Units
<1> QED
  BY <1>1, <1>2, SweptCount

\* What a waiting claim needs: a delivery counts what parcels hold and has its window.
LEMMA SweptCountHeld ==
    ASSUME Typed, Limits, Swept, NEW h \in Handlers, CountHeld(h)
    PROVE  Swept'
<1>1. Count(h, handler[h].event, handler[h].total) /\ handler[h].pc = "count"
      /\ UNCHANGED <<stocked, reserved, claim, checkout, excused>>
  BY DEF CountHeld, stock, order
<1>2. handler[h].event \in events /\ handler[h].total \in Units
  BY <1>1, HandlerIs, HandlerFields
<1>3. \A l \in Backordered \ excused :
         Queues(handler[h].event, l, handler, stocked, reserved, claim[l]) => handler[h].total >= 1
  BY <1>1 DEF Queues, Seen
<1> QED
  BY <1>1, <1>2, <1>3, SweptCount

\* What a waiting claim needs: a delivery of a parcel's end begins with the total the
\* order shows.
LEMMA SweptRecountParcel ==
    ASSUME Typed, Limits, Swept, NEW h \in Handlers, NEW e \in events, RecountParcel(h, e)
    PROVE  Swept'
<1> DEFINE m == [pc |-> "count", event |-> e, total |-> canceled[e.line]]
<1>1. handler' = [handler EXCEPT ![h] = m] /\ m.pc = "count" /\ m.event = e /\ m.total = canceled[e.line]
      /\ UNCHANGED <<stocked, reserved, claim, checkout, excused, todo>>
  BY DEF RecountParcel, Stand, stock, order
<1> HIDE DEF m
<1>2. ASSUME NEW l \in Backordered \ excused, claim[l].withdrawn > 0, e.line = l
      PROVE  Seen(m, stocked, reserved, claim[l])
  <2>1. l \in Lines \ excused
    BY DEF Backordered
  <2>2. /\ canceled[l] \in 0..Bought /\ claim[l].withdrawn \in 0..Bought /\ returned[l].units \in 0..Bought
        /\ claim[l].withdrawn + returned[l].units <= canceled[l]
    BY <2>1, LineNumbers
  <2>3. canceled[l] >= 1
    BY <1>2, <2>2
  <2> QED
    BY <1>1, <1>2, <2>3 DEF Seen
<1>3. \A l \in Backordered \ excused : claim[l].withdrawn > 0 =>
              \A d \in todo : Queues(d, l, handler, stocked, reserved, claim[l])
                 => d \in todo' /\ (m.pc # "idle" /\ m.event = d => Seen(m, stocked, reserved, claim[l]))
  BY <1>1, <1>2 DEF Queues
<1> QED
  BY <1>1, <1>3, SweptHandler

\* What a waiting claim needs: a delivery has read where the line was sold from.
LEMMA SweptReadShelves ==
    ASSUME Typed, Swept, NEW h \in Handlers, ReadShelves(h)
    PROVE  Swept'
<1> DEFINE m == [pc |-> "settle", event |-> handler[h].event, line |-> handler[h].line,
                 window |-> handler[h].window, soldAt |-> IF sold = {} THEN NoPlace ELSE 1]
<1>1. handler' = [handler EXCEPT ![h] = m] /\ m.pc = "settle"
      /\ UNCHANGED <<stocked, reserved, claim, checkout, excused, todo>>
  BY DEF ReadShelves, Stand, stock, order
<1> HIDE DEF m
<1>2. \A l \in Backordered \ excused : claim[l].withdrawn > 0 =>
              \A d \in todo : Queues(d, l, handler, stocked, reserved, claim[l])
                 => d \in todo' /\ (m.pc # "idle" /\ m.event = d => Seen(m, stocked, reserved, claim[l]))
  BY <1>1 DEF Seen
<1> QED
  BY <1>1, <1>2, SweptHandler

\* What a waiting claim needs: a delivery goes on with a queue it could not serve, and
\* asks to be called again.
LEMMA SweptDrainFails ==
    ASSUME Typed, Swept, NEW h \in Handlers, DrainFails(h)
    PROVE  Swept'
<1> DEFINE m == handler[h]
           t == [m EXCEPT !.pc = "put", !.left = {}, !.failed = TRUE]
<1>1. /\ t.pc = "put" /\ t.failed /\ handler' = [handler EXCEPT ![h] = t]
      /\ UNCHANGED <<stocked, reserved, claim, checkout, excused, todo>>
  BY DrainFailsShape
<1> HIDE DEF t
<1>2. \A l \in Backordered \ excused : claim[l].withdrawn > 0 =>
              \A d \in todo : Queues(d, l, handler, stocked, reserved, claim[l])
                 => d \in todo' /\ (t.pc # "idle" /\ t.event = d => Seen(t, stocked, reserved, claim[l]))
  BY <1>1 DEF Seen
<1> QED
  BY <1>1, <1>2, SweptHandler

\* What a waiting claim needs: a delivery ends with an error and its event comes again.
LEMMA SweptDeliveryFails ==
    ASSUME Typed, Swept, NEW h \in Handlers, DeliveryFails(h)
    PROVE  Swept'
<1>1. /\ Idle.pc = "idle" /\ handler' = [handler EXCEPT ![h] = Idle] /\ todo' = todo \cup {handler[h].event}
      /\ UNCHANGED <<stocked, reserved, claim, checkout, excused>>
  BY DeliveryFailsShape DEF Idle
<1>2. \A l \in Backordered \ excused : claim[l].withdrawn > 0 =>
              \A d \in todo : Queues(d, l, handler, stocked, reserved, claim[l])
                 => d \in todo' /\ (Idle.pc # "idle" /\ Idle.event = d => Seen(Idle, stocked, reserved, claim[l]))
  BY <1>1
<1> QED
  BY <1>1, <1>2, SweptHandler

\* What a waiting claim needs: a delivery lets the queue have what one warehouse has.
LEMMA SweptDrain ==
    ASSUME Typed, Swept, NEW h \in Handlers, Drain(h)
    PROVE  Swept'
<1> DEFINE m == handler[h]
           p == Min(m.left)
           left == m.left \ {p}
           over == left = {} \/ claim'[m.line].status # "waiting"
           t == Drained(m, left, over)
<1>1. /\ m.pc = "drain" /\ m \in Putting(events) /\ ~m.failed /\ p \in Places /\ left \in SUBSET Places
      /\ m.line = m.event.line
      /\ WritesAt(p) /\ LeavesTooLittle(p) /\ handler' = [handler EXCEPT ![h] = t]
      /\ UNCHANGED <<checkout, excused, todo>>
  BY DrainSteps
<1>2. over \in BOOLEAN
  OBVIOUS
<1>3. (Places \ left) \ {p} \subseteq Places \ m.left
  OBVIOUS
<1>o. over <=> (left = {} \/ claim'[m.line].status # "waiting")
  OBVIOUS
<1> HIDE DEF over, left, p
<1>4. /\ t.event = m.event
      /\ over => t.pc = "put"
      /\ ~over => t.pc = "drain" /\ t.left = left
  BY <1>1, <1>2, DrainedFields
<1> HIDE DEF t
<1>5. \A l \in Lines : Steady(stocked, reserved, claim[l], stocked', reserved', claim'[l])
  BY <1>1, WriteSteady DEF Sweeps
<1>6. ASSUME NEW l \in Backordered \ excused', claim'[l].status = "waiting",
             Queues(m.event, l, handler, stocked, reserved, claim[l])
      PROVE  \/ Clear(stocked', reserved', claim'[l], Places)
             \/ Seen(t, stocked', reserved', claim'[l])
  <2>1. l \in Lines /\ m.line = l /\ Clear(stocked, reserved, claim[l], Places \ m.left)
    BY <1>1, <1>6 DEF Queues, Seen, Backordered
  <2>2. Clear(stocked, reserved, claim[l], (Places \ left) \ {p})
    BY <1>3, <2>1 DEF Clear
  <2>3. Places \ left \in SUBSET Places
    OBVIOUS
  <2>4. Clear(stocked', reserved', claim'[l], Places \ left)
    BY <1>1, <1>6, <2>1, <2>2, <2>3, ClearedOne
  <2>5. CASE over
    <3>1. left = {}
      BY <1>6, <1>o, <2>1, <2>5
    <3> QED
      BY <2>4, <3>1
  <2>6. CASE ~over
    BY <1>4, <2>4, <2>6 DEF Seen
  <2> QED
    BY <2>5, <2>6
<1>7. \A l \in Backordered \ excused' :
              claim'[l].status = "waiting" /\ claim[l].withdrawn > 0 =>
                 \A e \in todo : Queues(e, l, handler, stocked, reserved, claim[l])
                    => \/ Clear(stocked', reserved', claim'[l], Places)
                       \/ e \in todo' /\ (t.pc # "idle" /\ t.event = e => Seen(t, stocked', reserved', claim'[l]))
  BY <1>1, <1>4, <1>6
<1> QED
  BY <1>1, <1>5, <1>7, SweptDelivery

\* What a waiting claim needs: a delivery gives units back, unless the line has them
\* already.
LEMMA SweptPutBack ==
    ASSUME Typed, Swept, NEW h \in Handlers, PutBack(h)
    PROVE  Swept'
<1> DEFINE m == handler[h]
<1>1. /\ m.pc = "put" /\ handler' = [handler EXCEPT ![h] = Idle]
      /\ todo' = IF m.failed THEN todo \cup {m.event} ELSE todo \ {m.event}
      /\ Skips(h) \/ Credits(h)
      /\ checkout' = checkout
  BY PutBackShape
<1>2. excused \subseteq excused'
  BY <1>1 DEF Skips, Credits
<1>3. \A l \in Lines : Steady(stocked, reserved, claim[l], stocked', reserved', claim'[l])
  <2>1. CASE Skips(h)
    BY <2>1, SteadySame DEF Skips
  <2>2. CASE Credits(h)
    <3>1. PICK p \in Places : Sweeps(p)
      BY <2>2 DEF Credits, Sweeps
    <3> QED
      BY <3>1, WriteSteady
  <2> QED
    BY <1>1, <2>1, <2>2
<1>4. \A l : \A e \in todo : Queues(e, l, handler, stocked, reserved, claim[l]) => e \in todo'
  BY <1>1 DEF Queues, Seen
<1>5. Idle.pc = "idle"
  BY DEF Idle
<1>6. \A l \in Backordered \ excused' :
              claim'[l].status = "waiting" /\ claim[l].withdrawn > 0 =>
                 \A e \in todo : Queues(e, l, handler, stocked, reserved, claim[l])
                    => \/ Clear(stocked', reserved', claim'[l], Places)
                       \/ e \in todo' /\ (Idle.pc # "idle" /\ Idle.event = e => Seen(Idle, stocked', reserved', claim'[l]))
  BY <1>4, <1>5
<1> QED
  BY <1>1, <1>2, <1>3, <1>6, SweptDelivery

\* A settlement that withdraws more: the deliveries that see to so much are still to come.
LEMMA RaisedIsQueued ==
    ASSUME Typed, Limits, Coverage, NEW l \in Backordered \ excused, claim[l].status = "waiting",
           NEW w \in 1..Bought, Fit(w, canceled[l], Committed(l)), claim[l].withdrawn < w
    PROVE  \/ \A st, rs, c : SweptByCheckout(l, st, rs, c, checkout)
           \/ \E e \in todo : e.line = l /\ \A g \in Handlers : handler[g].pc # "idle" /\ handler[g].event = e =>
                 /\ handler[g].pc = "count" => handler[g].total >= 1
                 /\ handler[g].pc # "drain"
                 /\ handler[g].pc = "put" => handler[g].failed
<1>1. l \in Lines \ excused
  BY DEF Backordered
<1>2. Held(l) \in Nat /\ Committed(l) \in Nat /\ Held(l) <= Committed(l)
  BY HeldIs DEF Typed
<1>3. Opens(w, canceled[l], Held(l))
  BY <1>2, ShelfAssumption DEF Fit, Opens
<1>4. Covers(l, w, claim[l], returned[l], todo, handler, checkout)
  BY <1>1, <1>3 DEF Coverage
<1>5. returned[l].units = 0 /\ claim[l].withdrawn \in 0..Bought
  BY <1>1, LineNumbers DEF Credit
<1>6. ~(claim[l].withdrawn + returned[l].units >= w)
  BY <1>5
<1>7. CASE ByCheckout(l, w, checkout)
  BY <1>7 DEF ByCheckout, SweptByCheckout, Early
<1>8. ASSUME NEW e \in todo, Tells(e, l, w), Tracks(e, handler, claim[l], l, w)
      PROVE  e.line = l /\ \A g \in Handlers : handler[g].pc # "idle" /\ handler[g].event = e =>
                 /\ handler[g].pc = "count" => handler[g].total >= 1
                 /\ handler[g].pc # "drain"
                 /\ handler[g].pc = "put" => handler[g].failed
  <2> SUFFICES ASSUME NEW g \in Handlers, handler[g].pc # "idle", handler[g].event = e
               PROVE  /\ handler[g].pc = "count" => handler[g].total >= 1
                      /\ handler[g].pc # "drain"
                      /\ handler[g].pc = "put" => handler[g].failed
    BY <1>8 DEF Tells
  <2>1. Commits(handler[g], claim[l], l, w)
    BY <1>8 DEF Tracks
  <2>2. /\ handler[g].pc = "count" => handler[g].total \in Units
        /\ handler[g].pc = "drain" => ~handler[g].failed
    BY HandlerIs, HandlerFields
  <2>3. handler[g].pc \in {"drain", "put"} => handler[g].failed
    BY <2>1 DEF Commits
  <2>4. handler[g].pc = "count" => handler[g].total >= 1
    BY <2>1, <2>2 DEF Commits, Units
  <2> QED
    BY <2>2, <2>3, <2>4
<1> QED
  BY <1>4, <1>6, <1>7, <1>8 DEF Covers, Pending

\* A step that no delivery takes: a claim that still waits is the same and short where it
\* was, or the checkout has yet to look.
LEMMA SweptOthers ==
    ASSUME Typed, Swept, handler' = handler, todo \subseteq todo', excused \subseteq excused',
           \A l \in Backordered \ excused' : claim'[l].status = "waiting" =>
              \/ SweptByCheckout(l, stocked', reserved', claim'[l], checkout')
              \/ /\ Steady(stocked, reserved, claim[l], stocked', reserved', claim'[l])
                 /\ SweptByCheckout(l, stocked, reserved, claim[l], checkout) =>
                       Sweep(l, stocked', reserved', claim'[l], todo', handler', checkout')
    PROVE  Swept'
<1> SUFFICES ASSUME NEW l \in Backordered \ excused', claim'[l].status = "waiting"
             PROVE  Sweep(l, stocked', reserved', claim'[l], todo', handler', checkout')
  BY DEF Swept, Sweep
<1>1. CASE SweptByCheckout(l, stocked', reserved', claim'[l], checkout')
  BY <1>1 DEF Sweep
<1>2. CASE /\ Steady(stocked, reserved, claim[l], stocked', reserved', claim'[l])
           /\ SweptByCheckout(l, stocked, reserved, claim[l], checkout) =>
                 Sweep(l, stocked', reserved', claim'[l], todo', handler', checkout')
  <2>1. PICK st, rs, c, td, hd, co, st2, rs2, c2, td2, co2 :
           /\ st = stocked /\ rs = reserved /\ c = claim[l] /\ td = todo /\ hd = handler /\ co = checkout
           /\ st2 = stocked' /\ rs2 = reserved' /\ c2 = claim'[l] /\ td2 = todo' /\ co2 = checkout'
    OBVIOUS
  <2>2. Sweep(l, st, rs, c, td, hd, co)
    BY <2>1 DEF Swept
  <2>3. Steady(st, rs, c, st2, rs2, c2) /\ td \subseteq td2
    BY <1>2, <2>1
  <2>4. SweptByCheckout(l, st, rs, c, co) => Sweep(l, st2, rs2, c2, td2, hd, co2)
    BY <1>2, <2>1
  <2>5. Sweep(l, st2, rs2, c2, td2, hd, co2)
    BY <2>2, <2>3, <2>4, SweepKept
  <2> QED
    BY <2>1, <2>5
<1> QED
  BY <1>1, <1>2

\* The levels and the claims stay.
LEMMA SweptPasses ==
    ASSUME Typed, Swept, UNCHANGED <<stocked, reserved, claim, handler>>, todo \subseteq todo', excused \subseteq excused',
           \A l \in Backordered \ excused' : claim[l].status = "waiting" =>
              \/ SweptByCheckout(l, stocked, reserved, claim[l], checkout')
              \/ ~SweptByCheckout(l, stocked, reserved, claim[l], checkout)
    PROVE  Swept'
<1>1. \A l \in Backordered \ excused' : Steady(stocked, reserved, claim[l], stocked', reserved', claim'[l])
  BY SteadySame
<1> QED
  BY <1>1, SweptOthers

\* What a waiting claim needs: stock arrives at a warehouse and fills the queue.
LEMMA SweptArrive ==
    ASSUME Typed, Swept, NEW p \in Places, Arrive(p)
    PROVE  Swept'
<1>1. WriteQuantities(p, stocked[p] + 1, reserved[p])
      /\ UNCHANGED <<handler, todo, checkout, excused>>
  BY DEF Arrive, order
<1>2. stocked[p] + 1 \in Int /\ reserved[p] \in Int
  BY DEF Typed, StockOK
<1>3. Sweeps(p)
  BY <1>1, <1>2, WriteShape DEF Sweeps
<1>4. ASSUME NEW l \in Backordered \ excused', claim'[l].status = "waiting"
      PROVE  /\ Steady(stocked, reserved, claim[l], stocked', reserved', claim'[l])
             /\ SweptByCheckout(l, stocked, reserved, claim[l], checkout) =>
                   SweptByCheckout(l, stocked', reserved', claim'[l], checkout')
  <2>1. Steady(stocked, reserved, claim[l], stocked', reserved', claim'[l])
    BY <1>3, WriteSteady DEF Backordered
  <2>2. \A P \in SUBSET Places : Clear(stocked, reserved, claim[l], P) => Clear(stocked', reserved', claim'[l], P)
    BY <1>4, <2>1 DEF Steady
  <2>3. Clear(stocked, reserved, claim[l], Places \ checkout.places) =>
           Clear(stocked', reserved', claim'[l], Places \ checkout.places)
    BY <2>2
  <2> QED
    BY <1>1, <2>1, <2>3 DEF SweptByCheckout
<1>5. \A l \in Backordered \ excused' : claim'[l].status = "waiting" =>
              \/ SweptByCheckout(l, stocked', reserved', claim'[l], checkout')
              \/ /\ Steady(stocked, reserved, claim[l], stocked', reserved', claim'[l])
                 /\ SweptByCheckout(l, stocked, reserved, claim[l], checkout) =>
                       Sweep(l, stocked', reserved', claim'[l], todo', handler', checkout')
  BY <1>4
<1> QED
  BY <1>1, <1>5, SweptOthers

\* What a waiting claim needs: an operator writes units off or moves a parcel.
LEMMA SweptOperator ==
    ASSUME Typed, Swept, Operator
    PROVE  Swept'
<1>1. UNCHANGED <<stocked, reserved, claim, handler, checkout>> /\ excused \subseteq excused' /\ todo \subseteq todo'
  BY OperatorShape
<1> QED
  BY <1>1, SweptPasses

\* What a waiting claim needs: the checkout records the claim of its next line.
LEMMA SweptClaimBackorder ==
    ASSUME Typed, Swept, ClaimBackorder
    PROVE  Swept'
<1>1. checkout'.pc \in {"claim", "read"} /\ UNCHANGED <<handler, todo, excused>>
  BY ClaimBackorderShape
<1>2. \A l : SweptByCheckout(l, stocked', reserved', claim'[l], checkout')
  BY <1>1 DEF SweptByCheckout, Early
<1> QED
  BY <1>1, <1>2, SweptOthers

\* What a waiting claim needs: the checkout cannot rank the warehouses.
LEMMA SweptRankingFails ==
    ASSUME Typed, Swept, RankingFails
    PROVE  Swept'
<1>1. checkout'.pc = "claim" /\ UNCHANGED <<stocked, reserved, claim, handler, todo, excused>>
  BY RankingFailsShape
<1>2. \A l : SweptByCheckout(l, stocked, reserved, claim[l], checkout')
  BY <1>1 DEF SweptByCheckout, Early
<1> QED
  BY <1>1, <1>2, SweptPasses

\* What a waiting claim needs: a claim that could not be recorded excuses its line.
LEMMA SweptClaimFails ==
    ASSUME Typed, Swept, ClaimFails
    PROVE  Swept'
<1>1. /\ \/ checkout'.pc \in {"claim", "read"}
         \/ \A m \in Lines : claim[m].status = "none"
      /\ UNCHANGED <<stocked, reserved, claim, handler, todo>> /\ excused \subseteq excused'
  BY ClaimFailsShape
<1>2. \A l \in Backordered : claim[l].status = "waiting" => SweptByCheckout(l, stocked, reserved, claim[l], checkout')
  BY <1>1 DEF SweptByCheckout, Early, Backordered
<1> QED
  BY <1>1, <1>2, SweptPasses

\* What a waiting claim needs: the checkout has read what was written off meanwhile.
LEMMA SweptReadWriteOffs ==
    ASSUME Typed, Swept, ReadWriteOffs
    PROVE  Swept'
<1>1. checkout'.pc = "count" /\ UNCHANGED <<stocked, reserved, claim, handler, todo, excused>>
  BY DEF ReadWriteOffs, stock, order
<1>2. \A l : SweptByCheckout(l, stocked, reserved, claim[l], checkout')
  BY <1>1 DEF SweptByCheckout, Early
<1> QED
  BY <1>1, <1>2, SweptPasses

\* What a waiting claim needs: the checkout has the windows of its lines, what parcels
\* hold taken off.
LEMMA SweptCountParcels ==
    ASSUME Typed, Swept, CountParcels
    PROVE  Swept'
<1>1. /\ checkout'.pc = "settle" /\ checkout'.left = {l \in Lines : claim[l].status # "none"}
      /\ UNCHANGED <<stocked, reserved, claim, handler, todo>> /\ excused \subseteq excused'
  BY CountParcelsShape
<1>2. \A l \in Backordered : claim[l].status = "waiting" => SweptByCheckout(l, stocked, reserved, claim[l], checkout')
  BY <1>1 DEF SweptByCheckout, Backordered
<1> QED
  BY <1>1, <1>2, SweptPasses

\* A line whose turn is still to come.
LEMMA SweptLater ==
    ASSUME checkout.window \in Windows, NEW left \in SUBSET Backordered, checkout' = NextLine(left), NEW l \in left,
           NEW st, NEW rs, NEW c
    PROVE  SweptByCheckout(l, st, rs, c, checkout')
<1>1. checkout'.pc = "settle" /\ checkout'.left = left
  BY NextLineOK
<1> QED
  BY <1>1 DEF SweptByCheckout

\* What a waiting claim needs: the checkout settles a claim against its window.
LEMMA SweptSettleClaim ==
    ASSUME Typed, Swept, SettleClaim
    PROVE  Swept'
<1> DEFINE m == Min(checkout.left)
           left == checkout.left \ {m}
           window == checkout.window[m]
           c == SettledClaim(m, window)
<1>1. /\ checkout.pc = "settle" /\ m \in Lines /\ checkout.left \in SUBSET Backordered
      /\ checkout.window \in Windows /\ window \in Units
      /\ claim' = [claim EXCEPT ![m] = c]
      /\ excused \subseteq excused'
      /\ checkout' = IF c.status = "waiting"
                     THEN [pc |-> "drain", left |-> left, window |-> checkout.window,
                           line |-> m, places |-> Places]
                     ELSE NextLine(left)
      /\ UNCHANGED <<stocked, reserved, todo, handler>>
  BY SettleClaimShape
<1>2. \A l \in Lines : (l # m => claim'[l] = claim[l]) /\ claim'[m] = c
  BY <1>1, SettleStays
<1>3. left \in SUBSET Backordered /\ \A k : k \in checkout.left /\ k # m => k \in left
  BY <1>1
<1> HIDE DEF left, c, m
<1>4. c.status = "waiting" => /\ checkout'.pc = "drain" /\ checkout'.left = left
                              /\ checkout'.line = m /\ checkout'.places = Places
  BY <1>1
<1>5. ASSUME NEW l \in Backordered \ excused', claim'[l].status = "waiting"
      PROVE  \/ SweptByCheckout(l, stocked', reserved', claim'[l], checkout')
             \/ /\ Steady(stocked, reserved, claim[l], stocked', reserved', claim'[l])
                /\ SweptByCheckout(l, stocked, reserved, claim[l], checkout) =>
                      Sweep(l, stocked', reserved', claim'[l], todo', handler', checkout')
  <2>0. l \in Lines
    BY DEF Backordered
  <2>1. CASE l = m
    <3>1. checkout'.pc = "drain" /\ checkout'.line = l /\ checkout'.places = Places
      BY <1>2, <1>4, <1>5, <2>0, <2>1
    <3> QED
      BY <3>1 DEF SweptByCheckout, Clear
  <2>2. CASE l # m
    <3>1. Steady(stocked, reserved, claim[l], stocked', reserved', claim'[l])
      BY <1>1, <1>2, <2>0, <2>2, SteadySame
    <3>2. ASSUME SweptByCheckout(l, stocked, reserved, claim[l], checkout)
          PROVE  Sweep(l, stocked', reserved', claim'[l], todo', handler', checkout')
      <4>1. l \in left
        BY <1>1, <1>3, <2>2, <3>2 DEF SweptByCheckout, Early
      <4>2. SweptByCheckout(l, stocked', reserved', claim'[l], checkout')
        <5>1. CASE c.status = "waiting"
          BY <1>4, <4>1, <5>1 DEF SweptByCheckout
        <5>2. CASE c.status # "waiting"
          BY <1>1, <1>3, <4>1, <5>2, SweptLater
        <5> QED
          BY <5>1, <5>2
      <4> QED
        BY <4>2 DEF Sweep
    <3> QED
      BY <3>1, <3>2
  <2> QED
    BY <2>1, <2>2
<1> QED
  BY <1>1, <1>5, SweptOthers

\* What a waiting claim needs: the checkout lets the queue have what one warehouse has.
LEMMA SweptDrainClaim ==
    ASSUME Typed, Swept, DrainClaim
    PROVE  Swept'
<1> DEFINE p == Min(checkout.places)
           places == checkout.places \ {p}
<1>1. /\ checkout.pc = "drain" /\ p \in Places /\ places \in SUBSET Places
      /\ checkout.left \in SUBSET Backordered /\ checkout.window \in Windows
      /\ WritesAt(p) /\ LeavesTooLittle(p)
      /\ \/ /\ checkout' = NextLine(checkout.left)
            /\ places = {} \/ claim'[checkout.line].status # "waiting"
         \/ /\ checkout' = [pc |-> "drain", left |-> checkout.left, window |-> checkout.window,
                            line |-> checkout.line, places |-> places]
            /\ places # {}
      /\ UNCHANGED <<todo, handler, excused>>
  BY DrainClaimShape
<1>2. (Places \ places) \ {p} \subseteq Places \ checkout.places /\ Places \ places \in SUBSET Places
  OBVIOUS
<1> HIDE DEF places, p
<1>3. \/ /\ checkout' = NextLine(checkout.left)
         /\ places = {} \/ claim'[checkout.line].status # "waiting"
      \/ /\ checkout'.pc = "drain" /\ checkout'.left = checkout.left
         /\ checkout'.line = checkout.line /\ checkout'.places = places
  BY <1>1
<1>4. ASSUME NEW l \in Backordered \ excused', claim'[l].status = "waiting"
      PROVE  /\ Steady(stocked, reserved, claim[l], stocked', reserved', claim'[l])
             /\ SweptByCheckout(l, stocked, reserved, claim[l], checkout) =>
                   Sweep(l, stocked', reserved', claim'[l], todo', handler', checkout')
  <2>0. l \in Lines
    BY DEF Backordered
  <2>1. Steady(stocked, reserved, claim[l], stocked', reserved', claim'[l])
    BY <1>1, <2>0, WriteSteady DEF Sweeps
  <2>2. CASE l \in checkout.left
    <3>1. SweptByCheckout(l, stocked', reserved', claim'[l], checkout')
      <4>1. CASE checkout' = NextLine(checkout.left)
        BY <1>1, <2>2, <4>1, SweptLater
      <4>2. CASE checkout'.pc = "drain" /\ checkout'.left = checkout.left
        BY <2>2, <4>2 DEF SweptByCheckout
      <4> QED
        BY <1>3, <4>1, <4>2
    <3> QED
      BY <2>1, <3>1 DEF Sweep
  <2>3. ASSUME checkout.line = l, Clear(stocked, reserved, claim[l], Places \ checkout.places)
        PROVE  Sweep(l, stocked', reserved', claim'[l], todo', handler', checkout')
    <3>1. Clear(stocked, reserved, claim[l], (Places \ places) \ {p})
      BY <1>2, <2>3 DEF Clear
    <3>2. Clear(stocked', reserved', claim'[l], Places \ places)
      BY <1>1, <1>2, <1>4, <2>0, <3>1, ClearedOne
    <3>3. CASE places = {}
      <4>1. Clear(stocked', reserved', claim'[l], Places)
        BY <3>2, <3>3
      <4> QED
        BY <4>1 DEF Sweep
    <3>4. CASE places # {}
      <4>1. checkout'.pc = "drain" /\ checkout'.line = l /\ checkout'.places = places
        BY <1>3, <1>4, <2>3, <3>4
      <4>2. SweptByCheckout(l, stocked', reserved', claim'[l], checkout')
        BY <3>2, <4>1 DEF SweptByCheckout
      <4> QED
        BY <4>2 DEF Sweep
    <3> QED
      BY <3>3, <3>4
  <2> QED
    BY <1>1, <2>1, <2>2, <2>3 DEF SweptByCheckout, Early
<1>5. \A l \in Backordered \ excused' : claim'[l].status = "waiting" =>
              \/ SweptByCheckout(l, stocked', reserved', claim'[l], checkout')
              \/ /\ Steady(stocked, reserved, claim[l], stocked', reserved', claim'[l])
                 /\ SweptByCheckout(l, stocked, reserved, claim[l], checkout) =>
                       Sweep(l, stocked', reserved', claim'[l], todo', handler', checkout')
  BY <1>4
<1> QED
  BY <1>1, <1>5, SweptOthers

\* What a waiting claim needs: a settlement the checkout gave up excuses its lines.
LEMMA SweptSettlementFails ==
    ASSUME Typed, Swept, SettlementFails
    PROVE  Swept'
<1>1. /\ \/ excused' = excused \cup Backordered
         \/ \E k \in Lines :
               /\ \/ checkout.pc = "settle"
                  \/ checkout.pc = "drain" /\ k = checkout.line
               /\ excused' = excused \cup {k} /\ checkout' = NextLine(checkout.left \ {k})
               /\ checkout.left \in SUBSET Backordered /\ checkout.window \in Windows
      /\ UNCHANGED <<stocked, reserved, claim, todo, handler>>
  BY SettlementFailsShape
<1>2. ASSUME NEW l \in Backordered \ excused', SweptByCheckout(l, stocked, reserved, claim[l], checkout)
      PROVE  SweptByCheckout(l, stocked, reserved, claim[l], checkout')
  <2>1. PICK k \in Lines :
               /\ \/ checkout.pc = "settle"
                  \/ checkout.pc = "drain" /\ k = checkout.line
               /\ excused' = excused \cup {k} /\ checkout' = NextLine(checkout.left \ {k})
               /\ checkout.left \in SUBSET Backordered /\ checkout.window \in Windows
    BY <1>1, <1>2
  <2>2. l # k
    BY <1>2, <2>1
  <2>3. l \in checkout.left \ {k} /\ checkout.left \ {k} \in SUBSET Backordered
    BY <1>2, <2>1, <2>2 DEF SweptByCheckout, Early
  <2> QED
    BY <2>1, <2>3, SweptLater
<1>3. excused \subseteq excused'
  BY <1>1
<1> QED
  BY <1>1, <1>2, <1>3, SweptPasses

\* What a waiting claim needs: a reservation becomes a sale and what it frees fills the
\* queue.
LEMMA SweptConfirmLine ==
    ASSUME Typed, Swept, ConfirmLine
    PROVE  Swept'
<1>1. /\ checkout.pc = "confirm" /\ 1 \in Places /\ Sweeps(1)
      /\ UNCHANGED <<todo, handler, excused>>
  BY ConfirmLineShape DEF Sweeps
<1>2. \A l, st, rs, c : ~SweptByCheckout(l, st, rs, c, checkout)
  BY <1>1 DEF SweptByCheckout, Early
<1>3. \A l \in Backordered \ excused' : Steady(stocked, reserved, claim[l], stocked', reserved', claim'[l])
  BY <1>1, WriteSteady DEF Backordered
<1> QED
  BY <1>1, <1>2, <1>3, SweptOthers

\* What a waiting claim needs: a reservation that could not be confirmed excuses its line.
LEMMA SweptConfirmFails ==
    ASSUME Typed, Swept, ConfirmFails
    PROVE  Swept'
<1>1. /\ checkout.pc = "confirm" /\ excused \subseteq excused'
      /\ UNCHANGED <<stocked, reserved, claim, todo, handler>>
  BY ConfirmFailsShape
<1>2. \A l, st, rs, c : ~SweptByCheckout(l, st, rs, c, checkout)
  BY <1>1 DEF SweptByCheckout, Early
<1> QED
  BY <1>1, <1>2, SweptPasses

\* A claim is its status, what was withdrawn of it and where it was filled.
LEMMA SameClaim ==
    ASSUME NEW l \in Lines, NEW c, ClaimOK(l, c), NEW d, ClaimOK(l, d), c.status = d.status,
           c.withdrawn = d.withdrawn, c.at = d.at
    PROVE  c = d
<1>1. \A x \in [status : {"none", "waiting", "unplaced", "filled", "withdrawn"}, withdrawn : Units, at : Places \cup {NoPlace}] :
         x = [status |-> x.status, withdrawn |-> x.withdrawn, at |-> x.at]
  OBVIOUS
<1> QED
  BY <1>1 DEF ClaimOK

\* What a waiting claim needs: a delivery settles the claim of its line under the claim's
\* lock.
LEMMA SweptSettle ==
    ASSUME Typed, Limits, Coverage, Swept, NEW h \in Handlers, Settle(h)
    PROVE  Swept'
<1> SUFFICES ASSUME NEW l \in Backordered \ excused', claim'[l].status = "waiting"
             PROVE  Sweep(l, stocked', reserved', claim'[l], todo', handler', checkout')
  BY DEF Swept, Sweep
<1> DEFINE m == handler[h]
           c == SettledClaim(m.line, m.window)
           t == Settled(m, c)
<1>1. /\ m.pc = "settle" /\ m.line \in Lines /\ m.line = m.event.line
      /\ m.window \in 1..Bought /\ m.window \in Units
      /\ handler' = [handler EXCEPT ![h] = t]
      /\ claim' = [claim EXCEPT ![m.line] = c]
      /\ ClaimOK(m.line, c)
      /\ UNCHANGED <<stocked, reserved, todo, checkout, excused>>
  BY SettleShape
<1>2. \A g \in Handlers : handler'[g] = IF g = h THEN t ELSE handler[g]
  BY <1>1 DEF Typed, HandlersOK
<1>3. l \in Lines /\ l \notin excused
  BY <1>1 DEF Backordered
<1>4. (l # m.line => claim'[l] = claim[l]) /\ claim'[m.line] = c /\ ClaimOK(l, claim[l])
  BY <1>1, <1>3, SettleStays DEF Typed, ClaimsOK
<1>5. t.event = m.event /\ (c.status = "waiting" => t.pc = "drain" /\ t.left = Places)
  BY DEF Settled
<1> HIDE DEF t
<1>6. l = m.line => \A st, rs, d : Seen(t, st, rs, d)
  BY <1>1, <1>4, <1>5 DEF Seen, Clear
<1>7. CASE claim'[l] = claim[l]
  <2>1. PICK st, rs, d, td, hd, co, hd2 :
           /\ st = stocked /\ rs = reserved /\ d = claim[l] /\ td = todo /\ hd = handler /\ co = checkout
           /\ hd2 = handler'
    OBVIOUS
  <2>2. Sweep(l, st, rs, d, td, hd, co) /\ Steady(st, rs, d, st, rs, d)
    BY <1>3, <2>1, SteadySame DEF Swept
  <2>3. \A g \in Handlers : hd2[g] = IF g = h THEN t ELSE hd[g]
    BY <1>2, <2>1
  <2>4. \A e \in td : Queues(e, l, hd, st, rs, d) => (t.pc # "idle" /\ t.event = e => Seen(t, st, rs, d))
    BY <1>1, <1>5, <1>6 DEF Queues
  <2>5. Sweep(l, st, rs, d, td, hd2, co)
    BY <2>2, <2>3, <2>4, SweepMoves
  <2> QED
    BY <1>1, <1>7, <2>1, <2>5
<1>8. CASE claim'[l] # claim[l]
  <2>1. l = m.line /\ claim'[l] = c /\ c = SettledClaim(l, m.window)
    BY <1>4, <1>8
  <2>2. /\ claim[l].status \notin {"waiting", "unplaced"} => c = claim[l]
        /\ claim[l].status \in {"waiting", "unplaced"} => /\ c.status \in {claim[l].status, "withdrawn"}
                                                         /\ c.withdrawn \in {claim[l].withdrawn, m.window}
                                                         /\ c.withdrawn >= claim[l].withdrawn
                                                         /\ c.at = claim[l].at
    <3>1. /\ claim[l].status \notin {"waiting", "unplaced"} => SettledClaim(l, m.window) = claim[l]
          /\ claim[l].status \in {"waiting", "unplaced"} =>
                /\ SettledClaim(l, m.window).status \in {claim[l].status, "withdrawn"}
                /\ SettledClaim(l, m.window).withdrawn \in {claim[l].withdrawn, m.window}
                /\ SettledClaim(l, m.window).withdrawn >= claim[l].withdrawn
                /\ SettledClaim(l, m.window).at = claim[l].at
      BY <1>1, <1>3, <1>4, SettledShape
    <3> HIDE DEF c
    <3> QED
      BY <2>1, <3>1
  <2>3. claim[l].status = "waiting"
    BY <1>8, <2>1, <2>2
  <2>4. c.withdrawn # claim[l].withdrawn
    BY <1>1, <1>3, <1>4, <1>8, <2>1, <2>2, <2>3, SameClaim
  <2>5. claim[l].withdrawn \in 0..Bought /\ Bought \in Nat
    BY <1>3, GoneNumbers
  <2>6. c.withdrawn = m.window /\ claim[l].withdrawn < m.window /\ m.window > 0
    <3>1. c.withdrawn = m.window /\ c.withdrawn >= claim[l].withdrawn
      BY <2>2, <2>3, <2>4
    <3> QED
      BY <1>1, <2>4, <2>5, <3>1
  <2>7. Fit(m.window, canceled[l], Committed(l))
    <3>1. HandlerFits(l, m, claim[l], canceled[l], Committed(l))
      BY <1>3 DEF Limits, LimitOf
    <3> QED
      BY <1>1, <2>1, <3>1 DEF HandlerFits
  <2>8. \/ \A st, rs, d : SweptByCheckout(l, st, rs, d, checkout)
        \/ \E e \in todo : e.line = l /\ \A g \in Handlers : handler[g].pc # "idle" /\ handler[g].event = e =>
              /\ handler[g].pc = "count" => handler[g].total >= 1
              /\ handler[g].pc # "drain"
              /\ handler[g].pc = "put" => handler[g].failed
    <3>1. l \in Backordered \ excused
      BY <1>1
    <3> QED
      BY <1>1, <2>3, <2>6, <2>7, <3>1, RaisedIsQueued
  <2>9. CASE \A st, rs, d : SweptByCheckout(l, st, rs, d, checkout)
    <3>1. SweptByCheckout(l, stocked', reserved', claim'[l], checkout')
      BY <1>1, <2>9
    <3> QED
      BY <3>1 DEF Sweep
  <2>10. ASSUME NEW e \in todo, e.line = l,
                \A g \in Handlers : handler[g].pc # "idle" /\ handler[g].event = e =>
                   /\ handler[g].pc = "count" => handler[g].total >= 1
                   /\ handler[g].pc # "drain"
                   /\ handler[g].pc = "put" => handler[g].failed
         PROVE  Sweep(l, stocked', reserved', claim'[l], todo', handler', checkout')
    <3>1. ASSUME NEW g \in Handlers, handler'[g].pc # "idle", handler'[g].event = e
          PROVE  Seen(handler'[g], stocked', reserved', claim'[l])
      <4>1. CASE g = h
        BY <1>2, <1>6, <2>1, <4>1
      <4>2. CASE g # h
        BY <1>2, <2>10, <3>1, <4>2 DEF Seen
      <4> QED
        BY <4>1, <4>2
    <3>2. Queues(e, l, handler', stocked', reserved', claim'[l])
      BY <2>10, <3>1 DEF Queues
    <3>3. claim'[l].withdrawn > 0 /\ e \in todo'
      BY <1>1, <2>1, <2>6
    <3> QED
      BY <3>2, <3>3 DEF Sweep
  <2> QED
    BY <2>8, <2>9, <2>10
<1> QED
  BY <1>7, <1>8

\* What a waiting claim needs: no claim waits yet.
LEMMA SweptInit ==
    ASSUME Init
    PROVE  Swept
<1>1. \A l \in Lines : claim[l].status = "none"
  BY DEF Init, NoClaim
<1> QED
  BY <1>1 DEF Swept, Sweep, Backordered

\* What a waiting claim needs: every step.
LEMMA SweptNext == ASSUME Typed, Limits, Coverage, Swept, [Next]_vars PROVE Swept'
<1>1. ASSUME NEW p \in Places, Arrive(p) PROVE Swept'
  BY <1>1, SweptArrive
<1>2. ASSUME Operator PROVE Swept'
  BY <1>2, SweptOperator
<1>3. ASSUME LastStep PROVE Swept'
  BY <1>3, SweptRankingFails, SweptClaimBackorder, SweptClaimFails, SweptReadWriteOffs, SweptCountParcels,
     SweptSettleClaim, SweptDrainClaim, SweptSettlementFails, SweptConfirmLine, SweptConfirmFails
  DEF LastStep
<1>4. ASSUME NEW h \in Handlers, Delivery(h) PROVE Swept'
  BY <1>4, SweptHandleLineCanceled, SweptCountHeld, SweptRecountParcel, SweptReadShelves,
     SweptSettle, SweptDrain, SweptDrainFails, SweptPutBack, SweptDeliveryFails DEF Delivery
<1>5. CASE UNCHANGED vars
  <2>1. UNCHANGED <<stocked, reserved, claim, handler, todo, checkout, excused>>
    BY <1>5 DEF vars, stock, order
  <2> QED
    BY <2>1, SweptPasses
<1> QED
  BY <1>1, <1>2, <1>3, <1>4, <1>5 DEF Next

\* In every reachable state a waiting claim is short everywhere, or somebody is going to
\* look.
LEMMA SweptAlways == Spec => [](Typed /\ Limits /\ Coverage /\ Swept)
<1>1. Init => Typed /\ Limits /\ Coverage /\ Swept
  BY TypedInit, LimitsInit, CoverageInit, SweptInit
<1>2. Typed /\ Limits /\ Coverage /\ Swept /\ [Next]_vars => (Typed /\ Limits /\ Coverage /\ Swept)'
  BY TypedNext, LimitsNext, CoverageNext, SweptNext
<1> QED
  BY <1>1, <1>2, PTL DEF Spec

\* Units an order waits for are not on sale: whatever raised a level's sellable units, an
\* arrival, a confirmed sale, a write-off's return or a smaller claim, no warehouse is left
\* with enough for a claim that waits there, unless an event about its line is still to be
\* handled or its line met a window of `excused`.  A claim recorded while the warehouses
\* could not be ranked waits at none.
THEOREM NotOnSale == Spec => []WaitingIsNotOnSale
<1>1. ASSUME Swept PROVE WaitingIsNotOnSale
  <2> SUFFICES ASSUME checkout.pc \in {"confirm", "done"}, NEW l \in Backordered \ excused,
                      claim[l].status = "waiting"
               PROVE  \/ \E e \in todo : e.line = l
                      \/ \A p \in Places : Available(p) < Owed(l)
    BY DEF WaitingIsNotOnSale
  <2>1. Sweep(l, stocked, reserved, claim[l], todo, handler, checkout)
    BY <1>1 DEF Swept
  <2>2. ~SweptByCheckout(l, stocked, reserved, claim[l], checkout)
    BY DEF SweptByCheckout, Early
  <2>3. CASE Clear(stocked, reserved, claim[l], Places)
    BY <2>3 DEF Clear, Available, Owed
  <2>4. CASE \E e \in todo : Queues(e, l, handler, stocked, reserved, claim[l])
    BY <2>4 DEF Queues
  <2> QED
    BY <2>1, <2>2, <2>3, <2>4 DEF Sweep
<1> QED
  BY <1>1, SweptAlways, PTL

=============================================================================
