-------------------------- MODULE RebalancingProofs --------------------------
(***************************************************************************)
(* What the planner's transfers do to the venues' balances, for any        *)
(* balances, fees and minima, any number of trades and of plans, and books *)
(* that may be behind the venues.                                          *)
(***************************************************************************)
EXTENDS Rebalancing, TLAPS

\* From t to r one balance changes, in its free part.
Credited(t, r, v, a, x) ==
    /\ r \in Books
    /\ r[v][a].free = t[v][a].free + x
    /\ r[v][a].locked = t[v][a].locked
    /\ \A w \in Venues, b \in Assets : w # v \/ b # a => r[w][b] = t[w][b]

LEMMA CreditEffect ==
    ASSUME NEW t \in Books, NEW v \in Venues, NEW a \in Assets, NEW x \in Int
    PROVE  Credited(t, Credit(t, v, a, x), v, a, x)
<1> DEFINE new == [t[v][a] EXCEPT !.free = @ + x]
           row == [t[v] EXCEPT ![a] = new]
<1>1. t[v] \in [Assets -> Balances] /\ t[v][a] \in Balances
  BY DEF Books
<1>2. /\ new \in Balances /\ new.free = t[v][a].free + x
      /\ new.locked = t[v][a].locked
  BY <1>1 DEF Balances
<1>3. Credit(t, v, a, x) = [t EXCEPT ![v] = row]
  BY DEF Credit
<1> HIDE DEF new
<1>4. /\ row \in [Assets -> Balances] /\ row[a] = new
      /\ \A b \in Assets : b # a => row[b] = t[v][b]
  BY <1>1, <1>2
<1> HIDE DEF row
<1>5. /\ Credit(t, v, a, x) \in Books /\ Credit(t, v, a, x)[v] = row
      /\ \A w \in Venues : w # v => Credit(t, v, a, x)[w] = t[w]
  BY <1>3, <1>4 DEF Books
<1> QED BY <1>2, <1>4, <1>5 DEF Credited

----------------------------------------------------------------------------
(* The inductive invariant.  Books may know less than a venue has, and of  *)
(* what trades have taken they may know too little: what a plan spares is  *)
(* spared of the balance without those trades.                             *)

Planned(p) == /\ p.from \in Venues /\ p.to = Other(p.from) /\ p.asset \in TransferAssets
              /\ p.amount \in Nat /\ p.amount >= MinWithdrawal[p.asset]

Typed == /\ funds \in Books /\ books \in Books
         /\ taken \in [Venues -> [Assets -> Nat]]
         /\ \A p \in plan : Planned(p)
         /\ \A m \in transit : m.to \in Venues /\ m.asset \in Assets /\ m.amount \in Nat

\* A venue's balance if no trade had taken from it.
Untraded(v, a) == funds[v][a].free + taken[v][a]

SpareInv ==
    /\ Typed
    /\ \A v \in Venues, a \in Assets : books[v][a].free <= Untraded(v, a)
    /\ \A p \in plan : p.amount + MinOperating[p.asset] <= Untraded(p.from, p.asset)
    /\ \A v \in Venues, a \in Assets : Untraded(v, a) >= Lowest(v, a)

LEMMA LowestBelow ==
    ASSUME NEW v \in Venues, NEW a \in Assets
    PROVE  /\ Lowest(v, a) \in Nat /\ Lowest(v, a) <= MinOperating[a]
           /\ Lowest(v, a) <= InitialFunds[v][a].free
BY RebalancingAssumption DEF RebalancingAssumption, Lowest

LEMMA InitSpare == Init => SpareInv
<1> SUFFICES ASSUME Init PROVE SpareInv
  OBVIOUS
<1>1. InitialFunds \in Books
  BY RebalancingAssumption DEF RebalancingAssumption, Books, Balances
<1>2. Typed
  BY <1>1 DEF Init, Typed
<1>3. ASSUME NEW v \in Venues, NEW a \in Assets
      PROVE  /\ books[v][a].free <= Untraded(v, a)
             /\ Untraded(v, a) >= Lowest(v, a)
  <2>1. /\ funds[v][a].free = InitialFunds[v][a].free /\ taken[v][a] = 0
        /\ books[v][a].free = InitialFunds[v][a].free
    BY DEF Init
  <2>2. InitialFunds[v][a].free \in Int
    BY <1>1 DEF Books, Balances
  <2> QED BY <2>1, <2>2, LowestBelow DEF Untraded
<1> QED BY <1>2, <1>3 DEF Init, SpareInv

\* What the planner computes: between the venue's minimum and what the books
\* have to spare.
LEMMA PlanSpares ==
    ASSUME NEW t \in Books, NEW a \in Assets, NEW p \in Plan(t, a)
    PROVE  /\ Planned(p) /\ p.asset = a
           /\ p.from = Source(t, a)
           /\ p.amount <= ToMove(t, a)
           /\ p.amount + MinOperating[a] <= t[p.from][a].free
<1> DEFINE s == Source(t, a)
           avail == t[s][a].free
<1>1. /\ p = [from |-> s, to |-> Other(s), asset |-> a, amount |-> Amount(t, a)]
      /\ a \in TransferAssets /\ Amount(t, a) >= MinWithdrawal[a]
  BY DEF Plan
<1>2. s \in Venues
  BY DEF Source, Venues
<1>3. avail \in Int /\ Target(t, a) \in Int
  BY <1>2 DEF Books, Balances, Target, Total, Venues
<1>4. MinOperating[a] \in Nat /\ MinWithdrawal[a] \in Nat
  BY <1>1, RebalancingAssumption DEF RebalancingAssumption
<1>5. ToMove(t, a) = avail - Target(t, a) /\ Spare(t, a) = avail - MinOperating[a]
  BY DEF ToMove, Spare, Available
<1>6. ToMove(t, a) \in Int /\ Spare(t, a) \in Int
  BY <1>3, <1>4, <1>5
<1>7. /\ Amount(t, a) \in Int
      /\ Amount(t, a) <= ToMove(t, a) /\ Amount(t, a) <= Spare(t, a)
  BY <1>6 DEF Amount
<1>8. Amount(t, a) \in Nat /\ Amount(t, a) + MinOperating[a] <= avail
  BY <1>1, <1>3, <1>4, <1>5, <1>7
<1> QED BY <1>1, <1>2, <1>7, <1>8 DEF Planned

LEMMA TradeKeepsSpare ==
    ASSUME SpareInv, NEW v \in Venues, NEW a \in Assets, NEW x \in Int,
           NEW booked, Trade(v, a, x, booked)
    PROVE  SpareInv'
<1>1. /\ funds' = Credit(funds, v, a, x)
      /\ books' = IF booked THEN Credit(books, v, a, x) ELSE books
      /\ taken' = IF x < 0 THEN [taken EXCEPT ![v][a] = @ - x] ELSE taken
      /\ plan' = plan /\ transit' = transit
  BY DEF Trade
<1>2. funds \in Books /\ books \in Books /\ taken \in [Venues -> [Assets -> Nat]]
  BY DEF SpareInv, Typed
<1>3. /\ funds' \in Books
      /\ funds'[v][a].free = funds[v][a].free + x
      /\ \A w \in Venues, b \in Assets : w # v \/ b # a => funds'[w][b] = funds[w][b]
  <2> DEFINE r == Credit(funds, v, a, x)
  <2>1. Credited(funds, r, v, a, x)
    BY <1>2, CreditEffect
  <2>2. funds' = r
    BY <1>1
  <2> HIDE DEF r
  <2> QED BY <2>1, <2>2 DEF Credited
<1>4. /\ books' \in Books
      /\ books'[v][a].free = books[v][a].free + x \/ books' = books
      /\ \A w \in Venues, b \in Assets : w # v \/ b # a => books'[w][b] = books[w][b]
  <2>1. CASE booked
    <3> DEFINE r == Credit(books, v, a, x)
    <3>1. Credited(books, r, v, a, x)
      BY <1>2, CreditEffect
    <3>2. books' = r
      BY <1>1, <2>1
    <3> HIDE DEF r
    <3> QED BY <3>1, <3>2 DEF Credited
  <2>2. CASE ~booked
    BY <1>1, <1>2, <2>2
  <2> QED BY <2>1, <2>2
<1>5. /\ taken' \in [Venues -> [Assets -> Nat]]
      /\ taken'[v][a] = taken[v][a] + (IF x < 0 THEN -x ELSE 0)
      /\ \A w \in Venues, b \in Assets : w # v \/ b # a => taken'[w][b] = taken[w][b]
  <2>1. CASE x < 0
    <3>1. taken' = [taken EXCEPT ![v] = [taken[v] EXCEPT ![a] = taken[v][a] - x]]
      BY <1>1, <2>1
    <3>2. taken[v] \in [Assets -> Nat] /\ taken[v][a] - x \in Nat
      BY <1>2, <2>1
    <3> QED BY <1>2, <2>1, <3>1, <3>2
  <2>2. CASE ~ (x < 0)
    <3>1. taken' = taken /\ taken[v][a] \in Nat
      BY <1>1, <1>2, <2>2
    <3> QED BY <1>2, <2>2, <3>1
  <2> QED BY <2>1, <2>2
<1>6. \A w \in Venues, b \in Assets :
          funds[w][b].free \in Int /\ books[w][b].free \in Int /\ taken[w][b] \in Nat
  BY <1>2 DEF Books, Balances
<1>7. \A w \in Venues, b \in Assets : Untraded(w, b)' >= Untraded(w, b)
  <2> SUFFICES ASSUME NEW w \in Venues, NEW b \in Assets
               PROVE  Untraded(w, b)' >= Untraded(w, b)
    OBVIOUS
  <2>1. CASE w = v /\ b = a
    BY <1>3, <1>5, <1>6, <2>1 DEF Untraded
  <2>2. CASE w # v \/ b # a
    BY <1>3, <1>5, <1>6, <2>2 DEF Untraded
  <2> QED BY <2>1, <2>2
<1>8. ASSUME NEW w \in Venues, NEW b \in Assets
      PROVE  /\ books'[w][b].free <= Untraded(w, b)'
             /\ Untraded(w, b)' >= Lowest(w, b)
             /\ Untraded(w, b)' \in Int /\ Untraded(w, b) \in Int
  <2>1. /\ books[w][b].free <= Untraded(w, b) /\ Untraded(w, b) >= Lowest(w, b)
    BY DEF SpareInv
  <2>2. Lowest(w, b) \in Nat
    BY LowestBelow
  <2>3. Untraded(w, b) \in Int
    BY <1>6 DEF Untraded
  <2>4. Untraded(w, b)' \in Int
    <3>1. funds'[w][b].free \in Int /\ taken'[w][b] \in Nat
      BY <1>3, <1>5 DEF Books, Balances
    <3> QED BY <3>1 DEF Untraded
  <2>5. Untraded(w, b)' >= Lowest(w, b)
    BY <1>7, <2>1, <2>2, <2>3, <2>4
  <2>6. books'[w][b].free <= Untraded(w, b)'
    <3>1. CASE books'[w][b] = books[w][b]
      BY <1>6, <1>7, <2>1, <2>3, <2>4, <3>1
    <3>2. CASE w = v /\ b = a /\ books'[v][a].free = books[v][a].free + x
      <4>1. Untraded(v, a)' >= Untraded(v, a) + x
        BY <1>3, <1>5, <1>6 DEF Untraded
      <4> QED BY <1>6, <2>1, <2>3, <2>4, <3>2, <4>1
    <3> QED BY <1>4, <3>1, <3>2
  <2> QED BY <2>3, <2>4, <2>5, <2>6
<1>9. \A p \in plan' : p.amount + MinOperating[p.asset] <= Untraded(p.from, p.asset)'
  <2> SUFFICES ASSUME NEW p \in plan
               PROVE  p.amount + MinOperating[p.asset] <= Untraded(p.from, p.asset)'
    BY <1>1
  <2>1. /\ p.from \in Venues /\ p.asset \in Assets /\ p.amount \in Nat
        /\ MinOperating[p.asset] \in Nat
    BY RebalancingAssumption DEF RebalancingAssumption, SpareInv, Typed, Planned
  <2>2. p.amount + MinOperating[p.asset] <= Untraded(p.from, p.asset)
    BY DEF SpareInv
  <2> QED BY <1>7, <1>8, <2>1, <2>2
<1>10. Typed'
  BY <1>1, <1>3, <1>4, <1>5 DEF SpareInv, Typed
<1> QED BY <1>8, <1>9, <1>10 DEF SpareInv

LEMMA CarryOutKeepsSpare ==
    ASSUME SpareInv, NEW p \in plan, CarryOut(p)
    PROVE  SpareInv'
<1> DEFINE v == p.from
           a == p.asset
           x == -p.amount
           m == [id |-> counts.plans, asset |-> a, to |-> p.to, amount |-> NetAmount(p)]
<1>1. /\ funds' = Credit(funds, v, a, x)
      /\ books' = [books EXCEPT ![v] = funds'[v]]
      /\ transit' = transit \cup {m}
      /\ plan' = {} /\ taken' = taken
  BY DEF CarryOut
<1>2. funds \in Books /\ books \in Books /\ taken \in [Venues -> [Assets -> Nat]]
  BY DEF SpareInv, Typed
<1>3. Planned(p) /\ v \in Venues /\ a \in Assets /\ x \in Int /\ a \in TransferAssets
  BY RebalancingAssumption DEF RebalancingAssumption, SpareInv, Typed, Planned
<1>4. m.to \in Venues /\ m.asset \in Assets /\ m.amount \in Nat
  <2>1. m.to = p.to /\ m.asset = a /\ m.amount = p.amount - WithdrawalFee[a]
    BY DEF NetAmount
  <2>2. p.to \in Venues
    BY <1>3 DEF Planned, Other, Venues
  <2>3. /\ WithdrawalFee[a] \in Nat /\ MinWithdrawal[a] \in Nat
        /\ WithdrawalFee[a] < MinWithdrawal[a]
    BY <1>3, RebalancingAssumption DEF RebalancingAssumption
  <2>4. p.amount \in Nat /\ p.amount >= MinWithdrawal[a]
    BY <1>3 DEF Planned
  <2>5. p.amount - WithdrawalFee[a] \in Nat
    BY <2>3, <2>4
  <2> QED BY <1>3, <2>1, <2>2, <2>5
<1>5. p.amount + MinOperating[a] <= Untraded(v, a) /\ p.amount \in Nat
  BY <1>3 DEF SpareInv, Planned
<1> HIDE DEF v, a, x, m
<1>6. /\ funds' \in Books
      /\ funds'[v][a].free = funds[v][a].free + x
      /\ \A w \in Venues, b \in Assets : w # v \/ b # a => funds'[w][b] = funds[w][b]
  <2> DEFINE r == Credit(funds, v, a, x)
  <2>1. Credited(funds, r, v, a, x)
    BY <1>2, <1>3, CreditEffect
  <2>2. funds' = r
    BY <1>1
  <2> HIDE DEF r
  <2> QED BY <2>1, <2>2 DEF Credited
<1>7. books' \in Books /\ books'[v] = funds'[v]
      /\ \A w \in Venues : w # v => books'[w] = books[w]
  BY <1>1, <1>2, <1>3, <1>6 DEF Books
<1>8. \A w \in Venues, b \in Assets :
          /\ funds[w][b].free \in Int /\ funds'[w][b].free \in Int
          /\ taken[w][b] \in Nat /\ taken' = taken
  BY <1>1, <1>2, <1>6 DEF Books, Balances
<1>9. ASSUME NEW w \in Venues, NEW b \in Assets
      PROVE  /\ books'[w][b].free <= Untraded(w, b)'
             /\ Untraded(w, b)' >= Lowest(w, b)
  <2>1. CASE w = v
    <3>1. books'[w][b].free <= Untraded(w, b)'
      BY <1>7, <1>8, <2>1 DEF Untraded
    <3>2. CASE b = a
      <4>1. Untraded(v, a)' = Untraded(v, a) + x
        BY <1>3, <1>6, <1>8 DEF Untraded
      <4>2. MinOperating[a] \in Nat /\ Untraded(v, a) \in Int
        BY <1>3, <1>8, RebalancingAssumption DEF RebalancingAssumption, Untraded
      <4>3. Untraded(v, a)' >= MinOperating[a]
        BY <1>5, <4>1, <4>2 DEF x
      <4>4. Untraded(v, a)' \in Int
        BY <1>3, <4>1, <4>2
      <4>5. Lowest(v, a) \in Nat /\ Lowest(v, a) <= MinOperating[a]
        BY <1>3, LowestBelow
      <4> QED BY <2>1, <3>1, <3>2, <4>2, <4>3, <4>4, <4>5
    <3>3. CASE b # a
      BY <1>6, <1>8, <3>1, <3>3 DEF SpareInv, Untraded
    <3> QED BY <3>2, <3>3
  <2>2. CASE w # v
    <3>1. Untraded(w, b)' = Untraded(w, b) /\ books'[w] = books[w]
      BY <1>6, <1>7, <1>8, <2>2 DEF Untraded
    <3> QED BY <3>1 DEF SpareInv
  <2> QED BY <2>1, <2>2
<1>10. Typed'
  BY <1>1, <1>2, <1>4, <1>6, <1>7 DEF SpareInv, Typed
<1> QED BY <1>1, <1>9, <1>10 DEF SpareInv

LEMMA ArrivesKeepsSpare ==
    ASSUME SpareInv, NEW m \in transit, Arrives(m)
    PROVE  SpareInv'
<1>1. /\ funds' = Credit(funds, m.to, m.asset, m.amount)
      /\ transit' = transit \ {m}
      /\ UNCHANGED <<books, plan, taken>>
  BY DEF Arrives
<1>2. funds \in Books /\ books \in Books /\ taken \in [Venues -> [Assets -> Nat]]
  BY DEF SpareInv, Typed
<1>3. m.to \in Venues /\ m.asset \in Assets /\ m.amount \in Nat
  BY DEF SpareInv, Typed
<1>4. /\ funds' \in Books
      /\ funds'[m.to][m.asset].free = funds[m.to][m.asset].free + m.amount
      /\ \A w \in Venues, b \in Assets :
            w # m.to \/ b # m.asset => funds'[w][b] = funds[w][b]
  <2> DEFINE v == m.to
             a == m.asset
             x == m.amount
             r == Credit(funds, v, a, x)
  <2>1. v \in Venues /\ a \in Assets /\ x \in Int
    BY <1>3
  <2>2. funds' = r
    BY <1>1
  <2> HIDE DEF v, a, x
  <2>3. Credited(funds, r, v, a, x)
    BY <1>2, <2>1, CreditEffect
  <2> HIDE DEF r
  <2> QED BY <2>2, <2>3 DEF v, a, x, Credited
<1>5. ASSUME NEW w \in Venues, NEW b \in Assets
      PROVE  /\ Untraded(w, b)' >= Untraded(w, b)
             /\ Untraded(w, b)' \in Int /\ Untraded(w, b) \in Int
             /\ books[w][b].free \in Int
  <2>1. /\ funds[w][b].free \in Int /\ funds'[w][b].free \in Int
        /\ taken[w][b] \in Nat /\ taken' = taken /\ books[w][b].free \in Int
    BY <1>1, <1>2, <1>4 DEF Books, Balances
  <2>2. funds'[w][b].free >= funds[w][b].free
    BY <1>3, <1>4, <2>1
  <2> QED BY <2>1, <2>2 DEF Untraded
<1>6. \A w \in Venues, b \in Assets :
         /\ books'[w][b].free <= Untraded(w, b)'
         /\ Untraded(w, b)' >= Lowest(w, b)
  <2> SUFFICES ASSUME NEW w \in Venues, NEW b \in Assets
               PROVE  /\ books[w][b].free <= Untraded(w, b)'
                      /\ Untraded(w, b)' >= Lowest(w, b)
    BY <1>1
  <2>1. books[w][b].free <= Untraded(w, b) /\ Untraded(w, b) >= Lowest(w, b)
    BY DEF SpareInv
  <2>2. Lowest(w, b) \in Nat
    BY LowestBelow
  <2> QED BY <1>5, <2>1, <2>2
<1>7. \A p \in plan' : p.amount + MinOperating[p.asset] <= Untraded(p.from, p.asset)'
  <2> SUFFICES ASSUME NEW p \in plan
               PROVE  p.amount + MinOperating[p.asset] <= Untraded(p.from, p.asset)'
    BY <1>1
  <2>1. /\ p.from \in Venues /\ p.asset \in Assets /\ p.amount \in Nat
        /\ MinOperating[p.asset] \in Nat
    BY RebalancingAssumption DEF RebalancingAssumption, SpareInv, Typed, Planned
  <2>2. p.amount + MinOperating[p.asset] <= Untraded(p.from, p.asset)
    BY DEF SpareInv
  <2> QED BY <1>5, <2>1, <2>2
<1>8. Typed'
  BY <1>1, <1>2, <1>4 DEF SpareInv, Typed
<1> QED BY <1>6, <1>7, <1>8 DEF SpareInv

LEMMA StepKeepsSpare == SpareInv /\ [Next]_vars => SpareInv'
<1> SUFFICES ASSUME SpareInv, [Next]_vars PROVE SpareInv'
  OBVIOUS
<1>1. CASE UNCHANGED <<funds, books, taken, plan, transit>>
  BY <1>1 DEF SpareInv, Typed, Untraded
<1>2. CASE Monitor
  BY <1>1, <1>2 DEF Monitor, Pending, EstimateArb, Expired, Shortfall, BuildTransfer,
     Built, PriceTransfer, Decide, operatorVars
<1>3. ASSUME NEW p, TickPrice(p) PROVE SpareInv'
  BY <1>1, <1>3 DEF TickPrice, operatorVars
<1>4. ASSUME NEW v \in Venues, NEW a \in Assets, NEW x \in TradeAmounts,
             NEW booked \in BOOLEAN, Trade(v, a, x, booked)
      PROVE  SpareInv'
  <2>1. x \in Int
    BY RebalancingAssumption DEF RebalancingAssumption
  <2> QED BY <1>4, <2>1, TradeKeepsSpare
<1>5. ASSUME NEW v \in Venues, Sync(v) PROVE SpareInv'
  <2>1. /\ books' = [books EXCEPT ![v] = funds[v]]
        /\ UNCHANGED <<funds, taken, plan, transit>>
    BY <1>5 DEF Sync, operatorVars
  <2>2. /\ funds \in Books /\ books \in Books
        /\ taken \in [Venues -> [Assets -> Nat]]
    BY DEF SpareInv, Typed
  <2>3. books' \in Books /\ \A w \in Venues : books'[w] = funds[w] \/ books'[w] = books[w]
    BY <2>1, <2>2 DEF Books
  <2>4. ASSUME NEW w \in Venues, NEW b \in Assets
        PROVE  books'[w][b].free <= Untraded(w, b)
    <3>1. funds[w][b].free \in Int /\ taken[w][b] \in Nat
      BY <2>2 DEF Books, Balances
    <3>2. funds[w][b].free <= Untraded(w, b) /\ books[w][b].free <= Untraded(w, b)
      BY <3>1 DEF SpareInv, Untraded
    <3> QED BY <2>3, <3>2
  <2> QED BY <2>1, <2>3, <2>4 DEF SpareInv, Typed, Untraded
<1>6. ASSUME NEW a \in Assets, MakePlan(a) PROVE SpareInv'
  <2>1. plan' = Plan(books, a) /\ UNCHANGED <<funds, books, taken, transit>>
    BY <1>6 DEF MakePlan
  <2>2. books \in Books /\ funds \in Books /\ taken \in [Venues -> [Assets -> Nat]]
    BY DEF SpareInv, Typed
  <2>3. ASSUME NEW p \in plan'
        PROVE  /\ Planned(p)
               /\ p.amount + MinOperating[p.asset] <= Untraded(p.from, p.asset)
    <3>1. /\ Planned(p) /\ p.asset = a
          /\ p.amount + MinOperating[a] <= books[p.from][a].free
      BY <2>1, <2>2, PlanSpares
    <3>2. books[p.from][a].free <= Untraded(p.from, a) /\ p.from \in Venues
      BY <3>1 DEF SpareInv, Planned
    <3>3. /\ books[p.from][a].free \in Int /\ Untraded(p.from, a) \in Int
          /\ p.amount \in Nat /\ MinOperating[a] \in Nat
      BY <2>2, <3>1, <3>2, RebalancingAssumption
         DEF RebalancingAssumption, Books, Balances, Untraded, Planned
    <3>4. p.amount + MinOperating[a] <= Untraded(p.from, a)
      BY <3>1, <3>2, <3>3
    <3> QED BY <3>1, <3>4
  <2> QED BY <2>1, <2>3 DEF SpareInv, Typed, Untraded
<1>7. ASSUME NEW p \in plan, CarryOut(p) PROVE SpareInv'
  BY <1>7, CarryOutKeepsSpare
<1>8. ASSUME NEW p \in plan, Refused(p) PROVE SpareInv'
  BY <1>8 DEF Refused, SpareInv, Typed, Untraded
<1>9. ASSUME NEW m \in transit, Arrives(m) PROVE SpareInv'
  BY <1>9, ArrivesKeepsSpare
<1>10. CASE UNCHANGED vars
  BY <1>1, <1>10 DEF vars
<1> QED BY <1>2, <1>3, <1>4, <1>5, <1>6, <1>7, <1>8, <1>9, <1>10
        DEF Next, Bot, Operator

\* Books are never ahead of a venue by more than trades have taken from it,
\* and a plan spares the operating balance of the venue as it would be without
\* those trades.
THEOREM Invariance == Spec => []SpareInv
BY InitSpare, StepKeepsSpare, PTL DEF Spec

\* However many plans follow one another, on whatever books, their transfers
\* leave every venue the operating balance of every asset, but for what trades
\* take.
THEOREM OperatingBalances == Spec => []OperatingBalanceKept
<1>1. SpareInv => OperatingBalanceKept
  BY DEF SpareInv, Untraded, OperatingBalanceKept
<1> QED BY <1>1, Invariance, PTL

----------------------------------------------------------------------------
(* One plan settles.                                                       *)

\* The planner looks at one asset only.
LEMMA PlanOfOneAsset ==
    ASSUME NEW t, NEW u, NEW a, \A v \in Venues : t[v][a] = u[v][a]
    PROVE  Plan(t, a) = Plan(u, a)
<1>1. t["cex"][a] = u["cex"][a] /\ t["wallet"][a] = u["wallet"][a]
  BY DEF Venues
<1>2. Total(t, a) = Total(u, a) /\ NeedsRebalance(t, a) = NeedsRebalance(u, a)
  <2>1. Total(t, a) = Total(u, a)
    BY <1>1 DEF Total
  <2> QED BY <2>1 DEF NeedsRebalance
<1>3. Source(t, a) = Source(u, a)
  BY <1>1, <1>2 DEF Source, Available, Target
<1>4. Source(t, a) \in Venues
  BY DEF Source, Venues
<1>5. ToMove(t, a) = ToMove(u, a) /\ Spare(t, a) = Spare(u, a)
  BY <1>2, <1>3, <1>4 DEF ToMove, Spare, Available, Target
<1>6. Amount(t, a) = Amount(u, a)
  BY <1>5 DEF Amount
<1> QED BY <1>2, <1>3, <1>5, <1>6 DEF Plan

LEMMA NoPlan ==
    ASSUME NEW t, NEW a,
           ~ (ToMove(t, a) >= MinWithdrawal[a] /\ Amount(t, a) >= MinWithdrawal[a])
    PROVE  Plan(t, a) = {}
BY DEF Plan

LEMMA Halves == \A n \in Int : /\ n \div 2 \in Int
                               /\ n = 2 * (n \div 2) \/ n = 2 * (n \div 2) + 1
OBVIOUS

\* The numbers of a transfer: s and o are available at its source and at its
\* destination, h is half of the total, f the fee, w the minimum, m what must
\* stay; after it k is half of the total.
LEMMA NothingLeftToMove ==
    ASSUME NEW s \in Int, NEW o \in Int, NEW total \in Int, NEW h \in Int,
           NEW k \in Int, NEW f \in Nat, NEW w \in Nat, NEW m \in Nat,
           NEW x \in Int,
           f < w, w > 1, s + o <= total,
           total = 2 * h \/ total = 2 * h + 1,
           total - f = 2 * k \/ total - f = 2 * k + 1,
           x <= s - h, x = s - h \/ x = s - m
    PROVE  /\ (s - x) - k < w \/ (s - x) - m <= 0
           /\ (o + x - f) - k < w
<1>1. total >= 2 * h /\ total <= 2 * h + 1 /\ total - f >= 2 * k /\ total - f <= 2 * k + 1
  OBVIOUS
<1>2. (o + x - f) - k < w
  BY <1>1
<1>3. CASE x = s - h
  BY <1>1, <1>3
<1>4. CASE x = s - m
  BY <1>4
<1> QED BY <1>2, <1>3, <1>4

\* The balances when a transfer p has left its source, and arrived.
Sent(t, p) == Credit(t, p.from, p.asset, -p.amount)
Received(t, p) == Credit(Sent(t, p), p.to, p.asset, NetAmount(p))

LEMMA TransferEffect ==
    ASSUME NEW t \in Books, NEW a \in Assets, NEW p, Planned(p), p.asset = a
    PROVE  /\ Sent(t, p) \in Books /\ Received(t, p) \in Books
           /\ Received(t, p)[p.from][a].free = t[p.from][a].free - p.amount
           /\ Received(t, p)[p.to][a].free
                = t[p.to][a].free + p.amount - WithdrawalFee[a]
           /\ \A v \in Venues : Received(t, p)[v][a].locked = t[v][a].locked
<1> DEFINE v == p.from
           u == p.to
           x == -p.amount
           y == NetAmount(p)
           r == Credit(t, v, a, x)
           q == Credit(r, u, a, y)
<1>1. v \in Venues /\ u \in Venues /\ u # v /\ Venues = {v, u}
  BY DEF Planned, Other, Venues
<1>2. /\ x \in Int /\ y \in Int /\ y = p.amount - WithdrawalFee[a] /\ p.amount \in Nat
      /\ WithdrawalFee[a] \in Nat
  BY RebalancingAssumption DEF RebalancingAssumption, Planned, NetAmount
<1>3. Sent(t, p) = r /\ Received(t, p) = q
  BY DEF Sent, Received
<1>4. x = -p.amount
  OBVIOUS
<1>5. v \in Venues /\ u \in Venues /\ x \in Int /\ y \in Int
  BY <1>1, <1>2
<1> HIDE DEF v, u, x, y
<1>6. Credited(t, r, v, a, x)
  BY <1>5, CreditEffect
<1> HIDE DEF r
<1>7. /\ r \in Books /\ r[v][a].free = t[v][a].free + x
      /\ r[v][a].locked = t[v][a].locked
      /\ \A z \in Venues, b \in Assets : z # v \/ b # a => r[z][b] = t[z][b]
  BY <1>6 DEF Credited
<1>8. Credited(r, q, u, a, y)
  BY <1>5, <1>7, CreditEffect
<1>9. /\ q \in Books /\ q[u][a].free = r[u][a].free + y
      /\ q[u][a].locked = r[u][a].locked
      /\ \A z \in Venues, b \in Assets : z # u \/ b # a => q[z][b] = r[z][b]
  BY <1>8 DEF Credited
<1> HIDE DEF q
<1>10. q[v][a] = r[v][a] /\ r[u][a] = t[u][a]
  BY <1>1, <1>7, <1>9
<1>11. t[v][a].free \in Int /\ t[u][a].free \in Int
  BY <1>1 DEF Books, Balances
<1>12. q[v][a].free = t[v][a].free - p.amount
  BY <1>2, <1>4, <1>7, <1>10, <1>11
<1>13. q[u][a].free = t[u][a].free + p.amount - WithdrawalFee[a]
  BY <1>2, <1>9, <1>10, <1>11
<1>14. \A z \in Venues : q[z][a].locked = t[z][a].locked
  BY <1>1, <1>7, <1>9, <1>10
<1> QED BY <1>3, <1>7, <1>9, <1>12, <1>13, <1>14 DEF v, u

\* When a planned transfer has arrived there is nothing left to plan.
LEMMA TransferSettles ==
    ASSUME NEW t \in Books, NEW a \in Assets, NEW p \in Plan(t, a)
    PROVE  Plan(Received(t, p), a) = {}
<1> DEFINE v == p.from
           u == p.to
           q == Received(t, p)
           s == t[v][a].free
           o == t[u][a].free
           x == p.amount
           f == WithdrawalFee[a]
           w == MinWithdrawal[a]
           m == MinOperating[a]
           h == Target(t, a)
           k == Target(q, a)
<1>1. Planned(p) /\ p.asset = a /\ v = Source(t, a) /\ x = Amount(t, a)
  BY PlanSpares DEF Plan
<1>2. a \in TransferAssets
  BY <1>1 DEF Planned
<1>3. f \in Nat /\ w \in Nat /\ m \in Nat /\ f < w /\ w > 1
  BY <1>2, RebalancingAssumption DEF RebalancingAssumption
<1>4. v \in Venues /\ u \in Venues /\ u # v /\ Venues = {v, u}
  BY <1>1 DEF Planned, Other, Venues
<1>5. /\ q \in Books /\ q[v][a].free = s - x /\ q[u][a].free = o + x - f
      /\ \A z \in Venues : q[z][a].locked = t[z][a].locked
  BY <1>1, TransferEffect
<1>6. /\ s \in Int /\ o \in Int /\ t[v][a].locked \in Nat /\ t[u][a].locked \in Nat
  BY <1>4 DEF Books, Balances
<1>7. ToMove(t, a) = s - h /\ Spare(t, a) = s - m
  BY <1>1 DEF ToMove, Spare, Available
<1> HIDE DEF q
<1>8. Total(t, a) = s + o + t[v][a].locked + t[u][a].locked
  <2>1. (v = "cex" /\ u = "wallet") \/ (v = "wallet" /\ u = "cex")
    BY <1>4 DEF Venues
  <2> QED BY <1>6, <2>1 DEF Total
<1>9. x \in Int
  BY <1>1 DEF Planned
<1>10. Total(q, a) = Total(t, a) - f
  <2>1. (v = "cex" /\ u = "wallet") \/ (v = "wallet" /\ u = "cex")
    BY <1>4 DEF Venues
  <2>2. /\ q[v][a].locked = t[v][a].locked /\ q[u][a].locked = t[u][a].locked
    BY <1>4, <1>5
  <2>3. Total(q, a) = (s - x) + t[v][a].locked + (o + x - f) + t[u][a].locked
    BY <1>3, <1>5, <1>6, <1>9, <2>1, <2>2 DEF Total
  <2> HIDE DEF s, o, f, x, v, u
  <2> QED BY <1>3, <1>6, <1>8, <1>9, <2>3
<1>11. Total(t, a) \in Int /\ Total(q, a) \in Int /\ s + o <= Total(t, a)
  BY <1>3, <1>6, <1>8, <1>10
<1>12. /\ h \in Int /\ k \in Int
       /\ Total(t, a) = 2 * h \/ Total(t, a) = 2 * h + 1
       /\ Total(q, a) = 2 * k \/ Total(q, a) = 2 * k + 1
  BY <1>11, Halves DEF Target
<1>13. x <= s - h /\ (x = s - h \/ x = s - m)
  <2>1. h \in Int
    BY <1>12
  <2> HIDE DEF h
  <2> QED BY <1>1, <1>3, <1>6, <1>7, <2>1 DEF Amount
<1>14. /\ (s - x) - k < w \/ (s - x) - m <= 0
       /\ (o + x - f) - k < w
  <2> DEFINE total == Total(t, a)
  <2>1. /\ total \in Int /\ s + o <= total
        /\ total = 2 * h \/ total = 2 * h + 1
        /\ total - f = 2 * k \/ total - f = 2 * k + 1
        /\ h \in Int /\ k \in Int
    BY <1>10, <1>11, <1>12
  <2> HIDE DEF total, s, o, x, f, w, m, h, k
  <2> QED BY <1>3, <1>6, <1>9, <1>13, <2>1, NothingLeftToMove
<1>15. CASE Source(q, a) = v
  <2>1. ToMove(q, a) = (s - x) - k /\ Spare(q, a) = (s - x) - m
    BY <1>5, <1>15 DEF ToMove, Spare, Available
  <2>2. ToMove(q, a) < w \/ Spare(q, a) <= 0
    BY <1>14, <2>1
  <2>3. ToMove(q, a) \in Int /\ Spare(q, a) \in Int
    BY <1>3, <1>6, <1>9, <1>12, <2>1
  <2> HIDE DEF w
  <2>4. ToMove(q, a) < w \/ Amount(q, a) < w
    BY <1>3, <2>2, <2>3 DEF Amount
  <2>5. ~ (ToMove(q, a) >= w /\ Amount(q, a) >= w)
    BY <1>3, <2>3, <2>4 DEF Amount
  <2> QED BY <2>5, NoPlan DEF q, w
<1>16. CASE Source(q, a) = u
  <2>1. ToMove(q, a) = (o + x - f) - k
    BY <1>5, <1>16 DEF ToMove, Available
  <2>2. ToMove(q, a) < w
    BY <1>14, <2>1
  <2>3. ToMove(q, a) \in Int
    BY <1>3, <1>6, <1>9, <1>12, <2>1
  <2>4. ~ (ToMove(q, a) >= w)
    BY <1>3, <2>2, <2>3
  <2> QED BY <2>4, NoPlan DEF q
<1>17. Source(q, a) \in Venues
  BY DEF Source, Venues
<1> QED BY <1>4, <1>15, <1>16, <1>17 DEF q

\* An asset that only a plan made on exact books has moved: the plan is the
\* one of the venues' balances, then its transfer settles them, then they are
\* settled.
Deciding(a) == /\ \A m \in transit : m.asset # a
               /\ \A p \in plan : p.asset = a => p \in Plan(funds, a)
               /\ (\A p \in plan : p.asset # a) => Plan(funds, a) = {}
Moving(a) == /\ \A p \in plan : p.asset # a
             /\ \E m \in transit :
                   /\ m.asset = a /\ \A n \in transit : n.asset = a => n = m
                   /\ Plan(Credit(funds, m.to, a, m.amount), a) = {}

SettleInv == /\ SpareInv /\ alone \subseteq Assets
             /\ \A p, q \in plan : p = q
             /\ \A a \in alone : Deciding(a) \/ Moving(a)

LEMMA InitSettle == Init => SettleInv
BY InitSpare DEF Init, SettleInv

\* What happens to other assets does not matter.
LEMMA OtherAssets ==
    ASSUME SpareInv, SpareInv', NEW a \in Assets,
           Deciding(a) \/ Moving(a),
           \A v \in Venues : funds'[v][a] = funds[v][a],
           \A m : m.asset = a => (m \in transit' <=> m \in transit),
           \A p : p.asset = a => (p \in plan' <=> p \in plan)
    PROVE  Deciding(a)' \/ Moving(a)'
<1>1. Plan(funds', a) = Plan(funds, a)
  BY PlanOfOneAsset
<1>2. CASE Deciding(a)
  BY <1>1, <1>2 DEF Deciding
<1>3. CASE Moving(a)
  <2>1. PICK m \in transit : /\ m.asset = a /\ \A n \in transit : n.asset = a => n = m
                             /\ Plan(Credit(funds, m.to, a, m.amount), a) = {}
    BY <1>3 DEF Moving
  <2>2. m.to \in Venues /\ m.amount \in Int /\ funds \in Books /\ funds' \in Books
    BY DEF SpareInv, Typed
  <2> DEFINE r == Credit(funds, m.to, a, m.amount)
             q == Credit(funds', m.to, a, m.amount)
  <2>3. \A v \in Venues : q[v][a] = r[v][a]
    <3> DEFINE u == m.to
               x == m.amount
    <3>1. u \in Venues /\ x \in Int
      BY <2>2
    <3> HIDE DEF u, x
    <3>2. Credit(funds, u, a, x) = [funds EXCEPT ![u] =
             [funds[u] EXCEPT ![a] = [funds[u][a] EXCEPT !.free = @ + x]]]
      BY DEF Credit
    <3>3. Credit(funds', u, a, x) = [funds' EXCEPT ![u] =
             [funds'[u] EXCEPT ![a] = [funds'[u][a] EXCEPT !.free = @ + x]]]
      BY DEF Credit
    <3>4. /\ funds[u] \in [Assets -> Balances] /\ funds'[u] \in [Assets -> Balances]
          /\ funds \in [Venues -> [Assets -> Balances]]
          /\ funds' \in [Venues -> [Assets -> Balances]]
      BY <2>2, <3>1 DEF Books
    <3>5. \A v \in Venues : Credit(funds', u, a, x)[v][a] = Credit(funds, u, a, x)[v][a]
      BY <3>1, <3>2, <3>3, <3>4
    <3> QED BY <3>5 DEF u, x
  <2>4. Plan(q, a) = {}
    <3>1. Plan(r, a) = {}
      BY <2>1
    <3> HIDE DEF q, r
    <3> QED BY <2>3, <3>1, PlanOfOneAsset
  <2>5. m \in transit' /\ \A n \in transit' : n.asset = a => n = m
    BY <2>1
  <2>6. \A p \in plan' : p.asset # a
    BY <1>3 DEF Moving
  <2> QED BY <2>1, <2>4, <2>5, <2>6 DEF Moving
<1> QED BY <1>2, <1>3

\* A step that moves nothing of an asset, or takes it out of alone.
LEMMA QuietKeepsSettle ==
    ASSUME SettleInv, SpareInv', NEW moved,
           alone' \subseteq alone \ moved,
           \A a \in Assets \ moved : \A v \in Venues : funds'[v][a] = funds[v][a],
           transit' = transit, plan' = plan
    PROVE  SettleInv'
<1>1. ASSUME NEW a \in alone' PROVE Deciding(a)' \/ Moving(a)'
  <2>1. a \in Assets \ moved /\ (Deciding(a) \/ Moving(a)) /\ SpareInv
    BY <1>1 DEF SettleInv
  <2> QED BY <2>1, OtherAssets
<1> QED BY <1>1 DEF SettleInv

LEMMA MakePlanKeepsSettle ==
    ASSUME SettleInv, SpareInv', NEW a \in Assets, MakePlan(a)
    PROVE  SettleInv'
<1>1. /\ plan = {} /\ plan' = Plan(books, a) /\ plan' # {}
      /\ UNCHANGED <<funds, transit>>
      /\ alone' = IF Exact(a) /\ \A m \in transit : m.asset # a
                  THEN alone \cup {a} ELSE alone \ {a}
  BY DEF MakePlan
<1>2. books \in Books /\ funds \in Books
  BY DEF SettleInv, SpareInv, Typed
<1>3. \A p \in plan' : p.asset = a
  BY <1>1, <1>2, PlanSpares
<1>4. \A p, q \in plan' : p = q
  BY <1>1 DEF Plan
<1>5. ASSUME NEW b \in alone' PROVE Deciding(b)' \/ Moving(b)'
  <2>1. CASE b # a
    <3>1. b \in alone /\ b \in Assets
      BY <1>1, <2>1 DEF SettleInv
    <3>2. \A p : p.asset = b => (p \in plan' <=> p \in plan)
      BY <1>1, <1>3, <2>1
    <3> QED BY <1>1, <3>1, <3>2, OtherAssets DEF SettleInv
  <2>2. CASE b = a
    <3>1. Exact(a) /\ \A m \in transit : m.asset # a
      BY <1>1, <2>2
    <3>2. Plan(books, a) = Plan(funds, a)
      BY <3>1, PlanOfOneAsset DEF Exact
    <3>3. PICK p \in plan' : TRUE
      BY <1>1
    <3>4. \A q \in plan' : q \in Plan(funds', a)
      BY <1>1, <3>2
    <3> QED BY <1>1, <1>3, <2>2, <3>1, <3>3, <3>4 DEF Deciding
  <2> QED BY <2>1, <2>2
<1>6. alone' \subseteq Assets
  BY <1>1 DEF SettleInv
<1> QED BY <1>4, <1>5, <1>6 DEF SettleInv

LEMMA CarryOutKeepsSettle ==
    ASSUME SettleInv, SpareInv', NEW p \in plan, CarryOut(p)
    PROVE  SettleInv'
<1> DEFINE m == [id |-> counts.plans, asset |-> p.asset, to |-> p.to,
                 amount |-> NetAmount(p)]
<1>1. /\ funds' = Sent(funds, p) /\ transit' = transit \cup {m}
      /\ plan' = {} /\ alone' = alone
  BY DEF CarryOut, Sent
<1>2. /\ m.asset = p.asset /\ m.to = p.to /\ m.amount = NetAmount(p)
  OBVIOUS
<1> HIDE DEF m
<1>3. /\ funds \in Books /\ Planned(p) /\ p.from \in Venues /\ p.asset \in Assets
      /\ -p.amount \in Int
  BY RebalancingAssumption
     DEF RebalancingAssumption, SettleInv, SpareInv, Typed, Planned
<1>4. \A q \in plan : q = p
  BY DEF SettleInv
<1>5. ASSUME NEW a \in alone PROVE Deciding(a)' \/ Moving(a)'
  <2>0. a \in Assets /\ (Deciding(a) \/ Moving(a))
    BY DEF SettleInv
  <2>1. CASE a # p.asset
    <3>1. \A v \in Venues : funds'[v][a] = funds[v][a]
      <4> DEFINE u == p.from
                 b == p.asset
                 x == -p.amount
      <4>1. /\ u \in Venues /\ b \in Assets /\ x \in Int
            /\ funds \in Books /\ a \in Assets /\ a # b
        BY <1>3, <2>0, <2>1
      <4>2. funds' = Credit(funds, u, b, x)
        BY <1>1 DEF Sent
      <4> HIDE DEF u, b, x
      <4>3. Credited(funds, Credit(funds, u, b, x), u, b, x)
        BY <4>1, CreditEffect
      <4> QED BY <4>1, <4>2, <4>3 DEF Credited
    <3>2. \A n : n.asset = a => (n \in transit' <=> n \in transit)
      BY <1>1, <1>2, <2>1
    <3>3. \A q : q.asset = a => (q \in plan' <=> q \in plan)
      BY <1>1, <1>4, <2>1
    <3> QED BY <2>0, <3>1, <3>2, <3>3, OtherAssets DEF SettleInv
  <2>2. CASE a = p.asset
    <3>1. Deciding(a)
      BY <2>0, <2>2 DEF Moving
    <3>2. p \in Plan(funds, a) /\ \A n \in transit : n.asset # a
      BY <2>2, <3>1 DEF Deciding
    <3>3. Plan(Received(funds, p), a) = {}
      BY <1>3, <2>0, <3>2, TransferSettles
    <3>4. Received(funds, p) = Credit(funds', m.to, a, m.amount)
      BY <1>1, <1>2, <2>2 DEF Received
    <3>5. Plan(Credit(funds', m.to, a, m.amount), a) = {}
      BY <3>3, <3>4
    <3>6. m \in transit' /\ m.asset = a /\ \A n \in transit' : n.asset = a => n = m
      BY <1>1, <1>2, <2>2, <3>2
    <3> QED BY <1>1, <3>5, <3>6 DEF Moving
  <2> QED BY <2>1, <2>2
<1> QED BY <1>1, <1>5 DEF SettleInv

LEMMA RefusedKeepsSettle ==
    ASSUME SettleInv, SpareInv', NEW p \in plan, Refused(p)
    PROVE  SettleInv'
<1>1. plan' = {} /\ alone' = alone \ {p.asset} /\ UNCHANGED <<funds, transit>>
  BY DEF Refused
<1>2. ASSUME NEW a \in alone' PROVE Deciding(a)' \/ Moving(a)'
  <2>1. /\ a \in Assets /\ a # p.asset /\ (Deciding(a) \/ Moving(a)) /\ SpareInv
    BY <1>1 DEF SettleInv
  <2>2. \A q : q.asset = a => (q \in plan' <=> q \in plan)
    BY <1>1, <2>1 DEF SettleInv
  <2> QED BY <1>1, <2>1, <2>2, OtherAssets
<1> QED BY <1>1, <1>2 DEF SettleInv

LEMMA ArrivesKeepsSettle ==
    ASSUME SettleInv, SpareInv', NEW m \in transit, Arrives(m)
    PROVE  SettleInv'
<1>1. /\ funds' = Credit(funds, m.to, m.asset, m.amount)
      /\ transit' = transit \ {m}
      /\ UNCHANGED <<plan, alone>>
  BY DEF Arrives
<1>2. /\ funds \in Books /\ m.to \in Venues /\ m.asset \in Assets /\ m.amount \in Int
  BY DEF SettleInv, SpareInv, Typed
<1>3. ASSUME NEW a \in alone PROVE Deciding(a)' \/ Moving(a)'
  <2>0. a \in Assets /\ (Deciding(a) \/ Moving(a))
    BY DEF SettleInv
  <2>1. CASE a # m.asset
    <3>1. \A v \in Venues : funds'[v][a] = funds[v][a]
      <4> DEFINE u == m.to
                 b == m.asset
                 x == m.amount
      <4>1. /\ u \in Venues /\ b \in Assets /\ x \in Int
            /\ funds \in Books /\ a \in Assets /\ a # b
        BY <1>2, <2>0, <2>1
      <4>2. funds' = Credit(funds, u, b, x)
        BY <1>1
      <4> HIDE DEF u, b, x
      <4>3. Credited(funds, Credit(funds, u, b, x), u, b, x)
        BY <4>1, CreditEffect
      <4> QED BY <4>1, <4>2, <4>3 DEF Credited
    <3>2. \A n : n.asset = a => (n \in transit' <=> n \in transit)
      BY <1>1, <2>1
    <3>3. \A q : q.asset = a => (q \in plan' <=> q \in plan)
      BY <1>1
    <3> QED BY <2>0, <3>1, <3>2, <3>3, OtherAssets DEF SettleInv
  <2>2. CASE a = m.asset
    <3>1. Moving(a)
      BY <2>0, <2>2 DEF Deciding
    <3>2. PICK n \in transit : /\ n.asset = a /\ \A r \in transit : r.asset = a => r = n
                               /\ Plan(Credit(funds, n.to, a, n.amount), a) = {}
      BY <3>1 DEF Moving
    <3>3. n = m
      BY <2>2, <3>2
    <3>4. Plan(funds', a) = {}
      BY <1>1, <2>2, <3>2, <3>3
    <3>5. \A r \in transit' : r.asset # a
      BY <1>1, <3>2, <3>3
    <3>6. \A q \in plan' : q.asset # a
      BY <1>1, <3>1 DEF Moving
    <3> QED BY <3>4, <3>5, <3>6 DEF Deciding
  <2> QED BY <2>1, <2>2
<1> QED BY <1>1, <1>3 DEF SettleInv

LEMMA StepKeepsSettle == SettleInv /\ [Next]_vars => SettleInv'
<1> SUFFICES ASSUME SettleInv, [Next]_vars PROVE SettleInv'
  OBVIOUS
<1>0. SpareInv'
  BY StepKeepsSpare DEF SettleInv
<1>1. CASE UNCHANGED <<funds, plan, transit, alone>>
  BY <1>0, <1>1, QuietKeepsSettle
<1>2. CASE Monitor
  BY <1>1, <1>2 DEF Monitor, Pending, EstimateArb, Expired, Shortfall, BuildTransfer,
     Built, PriceTransfer, Decide, operatorVars
<1>3. ASSUME NEW p, TickPrice(p) PROVE SettleInv'
  BY <1>1, <1>3 DEF TickPrice, operatorVars
<1>4. ASSUME NEW v \in Venues, NEW a \in Assets, NEW x \in TradeAmounts,
             NEW booked \in BOOLEAN, Trade(v, a, x, booked)
      PROVE  SettleInv'
  <2>1. /\ funds' = Credit(funds, v, a, x) /\ alone' = alone \ {a}
        /\ plan' = plan /\ transit' = transit
    BY <1>4 DEF Trade
  <2>2. x \in Int /\ funds \in Books
    BY RebalancingAssumption DEF RebalancingAssumption, SettleInv, SpareInv, Typed
  <2>3. Credited(funds, Credit(funds, v, a, x), v, a, x)
    BY <2>2, CreditEffect
  <2>4. \A b \in Assets \ {a} : \A u \in Venues : funds'[u][b] = funds[u][b]
    BY <2>1, <2>3 DEF Credited
  <2> QED BY <1>0, <2>1, <2>4, QuietKeepsSettle
<1>5. ASSUME NEW v \in Venues, Sync(v) PROVE SettleInv'
  BY <1>1, <1>5 DEF Sync, operatorVars
<1>6. ASSUME NEW a \in Assets, MakePlan(a) PROVE SettleInv'
  BY <1>0, <1>6, MakePlanKeepsSettle
<1>7. ASSUME NEW p \in plan, CarryOut(p) PROVE SettleInv'
  BY <1>0, <1>7, CarryOutKeepsSettle
<1>8. ASSUME NEW p \in plan, Refused(p) PROVE SettleInv'
  BY <1>0, <1>8, RefusedKeepsSettle
<1>9. ASSUME NEW m \in transit, Arrives(m) PROVE SettleInv'
  BY <1>0, <1>9, ArrivesKeepsSettle
<1>10. CASE UNCHANGED vars
  BY <1>1, <1>10 DEF vars
<1> QED BY <1>2, <1>3, <1>4, <1>5, <1>6, <1>7, <1>8, <1>9, <1>10
        DEF Next, Bot, Operator

\* Whatever the balances, locked ones included, the fees and the minima: a
\* transfer planned on exact books and disturbed by nothing restores the
\* balance, and the planner has no second one, in either direction.
THEOREM OneTransferSettles == Spec => []OnePlanSettles
<1>1. SettleInv => OnePlanSettles
  <2> SUFFICES ASSUME SettleInv, NEW a \in alone, Exact(a),
                      \A m \in plan \cup transit : m.asset # a
               PROVE  Plan(books, a) = {}
    BY DEF OnePlanSettles
  <2>1. Plan(books, a) = Plan(funds, a)
    BY PlanOfOneAsset DEF Exact
  <2>2. Deciding(a)
    BY DEF SettleInv, Moving
  <2> QED BY <2>1, <2>2 DEF Deciding
<1> QED BY <1>1, InitSettle, StepKeepsSettle, PTL DEF Spec

----------------------------------------------------------------------------
(* The predictive rebalancer.  Between the locks it takes, the prices      *)
(* change; what it has added up so far was added at some price of at least *)
(* one, and is at least the fees of the transfers it has looked at.        *)

Fee(t) == WithdrawalFee[t.asset]
OneEach(T) == \A s, t \in T : s.asset = t.asset => s = t
OfTwo(T) == \E x, y \in Assets : \A t \in T : t.asset \in {x, y}
Transferable(T) == \A t \in T : t.asset \in TransferAssets

\* The sum over the subsets of a pair, as the fold goes through them.
SumOver(S, f) ==
    f = [s \in SUBSET S |->
            IF s = {} THEN 0
            ELSE LET x == CHOOSE x \in s : TRUE
                 IN  WithdrawalFee[x.asset] + f[s \ {x}]]

LEMMA FeesFold ==
    ASSUME NEW S
    PROVE  Fees(S) = (CHOOSE f : SumOver(S, f))[S]
BY DEF Fees, MapThenSumSet, MapThenFoldSet, SumOver

LEMMA PairHasSum ==
    ASSUME NEW a, NEW b, NEW S \in SUBSET {a, b}, a # b,
           Fee(a) \in Nat, Fee(b) \in Nat
    PROVE  \E f : SumOver(S, f)
<1> DEFINE f == [s \in SUBSET S |-> (IF a \in s THEN Fee(a) ELSE 0)
                                  + (IF b \in s THEN Fee(b) ELSE 0)]
<1>1. ASSUME NEW s \in SUBSET S
      PROVE  f[s] = IF s = {} THEN 0
                    ELSE LET x == CHOOSE x \in s : TRUE
                         IN  WithdrawalFee[x.asset] + f[s \ {x}]
  <2>1. CASE s = {}
    BY <2>1
  <2>2. CASE s # {}
    <3>1. PICK x : x = CHOOSE y \in s : TRUE
      OBVIOUS
    <3>2. x \in s /\ s \ {x} \in SUBSET S
      BY <2>2, <3>1
    <3>3. f[s] = Fee(x) + f[s \ {x}]
      <4>1. CASE x = a
        BY <3>2, <4>1
      <4>2. CASE x = b
        BY <3>2, <4>2
      <4> QED BY <3>2, <4>1, <4>2
    <3> QED BY <2>2, <3>1, <3>3 DEF Fee
  <2> QED BY <2>1, <2>2
<1>2. f = [s \in SUBSET S |-> IF s = {} THEN 0
                              ELSE LET x == CHOOSE x \in s : TRUE
                                   IN  WithdrawalFee[x.asset] + f[s \ {x}]]
  BY <1>1
<1> HIDE DEF f
<1> QED BY <1>2 DEF SumOver

\* The fees of at most two transfers are what one would think.
LEMMA FeesOfPair ==
    ASSUME NEW a, NEW b, NEW S \in SUBSET {a, b}, a # b,
           Fee(a) \in Nat, Fee(b) \in Nat
    PROVE  Fees(S) = (IF a \in S THEN Fee(a) ELSE 0)
                   + (IF b \in S THEN Fee(b) ELSE 0)
<1>1. PICK f : f = CHOOSE g : SumOver(S, g)
  OBVIOUS
<1>2. SumOver(S, f)
  BY <1>1, PairHasSum
<1>3. \A s \in SUBSET S :
         f[s] = IF s = {} THEN 0
                ELSE LET x == CHOOSE x \in s : TRUE
                     IN  WithdrawalFee[x.asset] + f[s \ {x}]
  BY <1>2 DEF SumOver
<1>4. f[{}] = 0
  BY <1>3
<1>5. ASSUME NEW x \in S PROVE f[{x}] = Fee(x)
  <2>1. PICK y : y = CHOOSE z \in {x} : TRUE
    OBVIOUS
  <2>2. y = x /\ {x} \ {y} = {} /\ {x} # {} /\ {x} \in SUBSET S
    BY <2>1
  <2>3. f[{x}] = WithdrawalFee[y.asset] + f[{x} \ {y}]
    BY <1>3, <2>1, <2>2
  <2>4. x = a \/ x = b
    OBVIOUS
  <2> QED BY <1>4, <2>2, <2>3, <2>4 DEF Fee
<1>6. f[S] = (IF a \in S THEN Fee(a) ELSE 0) + (IF b \in S THEN Fee(b) ELSE 0)
  <2>1. CASE S = {}
    BY <1>4, <2>1
  <2>2. CASE S = {a}
    BY <1>5, <2>2
  <2>3. CASE S = {b}
    BY <1>5, <2>3
  <2>4. CASE S = {a, b}
    <3>1. PICK y : y = CHOOSE z \in S : TRUE
      OBVIOUS
    <3>2. y \in S
      BY <2>4, <3>1
    <3>3. f[S] = WithdrawalFee[y.asset] + f[S \ {y}]
      BY <1>3, <2>4, <3>1
    <3>4. CASE y = a
      <4>1. S \ {y} = {b}
        BY <2>4, <3>4
      <4> QED BY <1>5, <2>4, <3>3, <3>4, <4>1 DEF Fee
    <3>5. CASE y = b
      <4>1. S \ {y} = {a}
        BY <2>4, <3>5
      <4>2. f[S] = Fee(b) + Fee(a)
        BY <1>5, <2>4, <3>3, <3>5, <4>1 DEF Fee
      <4>3. Fee(b) + Fee(a) = Fee(a) + Fee(b)
        OBVIOUS
      <4> QED BY <2>4, <4>2, <4>3
    <3> QED BY <2>4, <3>2, <3>4, <3>5
  <2> QED BY <2>1, <2>2, <2>3, <2>4
<1> QED BY <1>1, <1>6, FeesFold

\* Of two assets, and one of each, there are at most two transfers.
LEMMA AtMostTwo ==
    ASSUME NEW T, OneEach(T), OfTwo(T), Transferable(T)
    PROVE  /\ \A t \in T : Fee(t) \in Nat /\ Fee(t) > 0
           /\ \A t \in T : \E u : u # t /\ Fee(u) \in Nat /\ T \subseteq {t, u}
<1>1. \A t \in T : Fee(t) \in Nat /\ Fee(t) > 0
  BY RebalancingAssumption DEF RebalancingAssumption, Transferable, Fee
<1>2. ASSUME NEW t \in T
      PROVE  \E u : u # t /\ Fee(u) \in Nat /\ T \subseteq {t, u}
  <2>1. CASE \E u \in T : u # t
    <3>1. PICK u \in T : u # t
      BY <2>1
    <3>2. T \subseteq {t, u}
      BY <3>1 DEF OneEach, OfTwo
    <3> QED BY <1>1, <3>1, <3>2
  <2>2. CASE T = {t}
    <3> DEFINE u == [asset |-> t.asset, other |-> t]
               v == [asset |-> t.asset]
    <3>1. u # v /\ u.asset = t.asset /\ v.asset = t.asset
      OBVIOUS
    <3>2. Fee(u) = Fee(t) /\ Fee(v) = Fee(t)
      BY <3>1 DEF Fee
    <3> HIDE DEF u, v
    <3>3. u # t \/ v # t
      BY <3>1
    <3> QED BY <1>1, <2>2, <3>2, <3>3
  <2> QED BY <2>1, <2>2
<1> QED BY <1>1, <1>2

LEMMA FeesOfNone == Fees({}) = 0
<1> DEFINE f == [s \in SUBSET {} |-> 0]
<1>1. SumOver({}, f)
  BY DEF SumOver
<1>2. PICK g : g = CHOOSE h : SumOver({}, h)
  OBVIOUS
<1>3. SumOver({}, g)
  <2> HIDE DEF f
  <2> QED BY <1>1, <1>2
<1>4. g[{}] = 0
  BY <1>3 DEF SumOver
<1> QED BY <1>2, <1>4, FeesFold

LEMMA FeesPositive ==
    ASSUME NEW T, OneEach(T), OfTwo(T), Transferable(T)
    PROVE  Fees(T) \in Nat /\ (T # {} => Fees(T) > 0)
<1>1. CASE T = {}
  BY <1>1, FeesOfNone
<1>2. CASE T # {}
  <2>1. PICK t : t \in T
    BY <1>2
  <2>2. PICK u : u # t /\ Fee(u) \in Nat /\ T \subseteq {t, u}
    BY <2>1, AtMostTwo
  <2>3. Fee(t) \in Nat /\ Fee(t) > 0
    BY <2>1, AtMostTwo
  <2>4. Fees(T) = Fee(t) + (IF u \in T THEN Fee(u) ELSE 0)
    BY <2>1, <2>2, <2>3, FeesOfPair
  <2> QED BY <2>2, <2>3, <2>4
<1> QED BY <1>1, <1>2

\* One transfer more adds its fee.
LEMMA FeesAdd ==
    ASSUME NEW T, OneEach(T), OfTwo(T), Transferable(T),
           NEW todo \in SUBSET T, NEW t \in todo
    PROVE  Fees(T \ (todo \ {t})) = Fees(T \ todo) + Fee(t)
<1>1. PICK u : u # t /\ Fee(u) \in Nat /\ T \subseteq {t, u}
  BY AtMostTwo
<1>2. Fee(t) \in Nat
  BY AtMostTwo
<1> DEFINE before == T \ todo
           after == T \ (todo \ {t})
<1>3. /\ before \in SUBSET {t, u} /\ after \in SUBSET {t, u}
      /\ t \notin before /\ t \in after /\ (u \in after <=> u \in before)
  BY <1>1
<1> HIDE DEF before, after
<1>4. Fees(after) = (IF t \in after THEN Fee(t) ELSE 0)
                  + (IF u \in after THEN Fee(u) ELSE 0)
  BY <1>1, <1>2, <1>3, FeesOfPair, Zenon
<1>5. Fees(before) = (IF t \in before THEN Fee(t) ELSE 0)
                   + (IF u \in before THEN Fee(u) ELSE 0)
  BY <1>1, <1>2, <1>3, FeesOfPair, Zenon
<1>6. Fees(after) = Fees(before) + Fee(t)
  BY <1>1, <1>2, <1>3, <1>4, <1>5
<1> QED BY <1>6 DEF before, after

\* What is known of the monitor's task at each lock it takes.
PriceInv == /\ task.in \in Assets /\ task.out \in Assets
            /\ task.amount \in Nat
Needs == [venue : Venues, asset : Assets, amount : Int]
ShortfallInv == /\ task.profit \in Int /\ task.needs \subseteq Needs
                /\ OneEach(task.needs) /\ OfTwo(task.needs)
BuildInv == /\ task = [pc |-> "build", profit |-> task.profit,
                       short |-> task.short, transfers |-> task.transfers]
            /\ task.profit \in Int
            /\ OneEach(task.short \cup task.transfers)
            /\ task.short \cap task.transfers = {}
            /\ OfTwo(task.short \cup task.transfers)
            /\ Transferable(task.transfers)
CostInv == /\ task = [pc |-> "cost", profit |-> task.profit,
                      transfers |-> task.transfers, todo |-> task.todo,
                      cost |-> task.cost]
           /\ task.profit \in Int /\ task.cost \in Nat
           /\ OneEach(task.transfers) /\ OfTwo(task.transfers)
           /\ Transferable(task.transfers)
           /\ task.todo \subseteq task.transfers
           /\ task.cost >= Fees(task.transfers \ task.todo)

PayInv ==
    /\ prices \in [Assets -> Nat]
    /\ task.pc = "price" => PriceInv
    /\ task.pc = "shortfall" => ShortfallInv
    /\ task.pc = "build" => BuildInv
    /\ task.pc = "cost" => CostInv
    /\ TriggeredPlansPay

LEMMA NothingTriggered ==
    ASSUME preposition.execute = FALSE \/ preposition.transfers = {}
    PROVE  TriggeredPlansPay
BY DEF TriggeredPlansPay, Triggered

LEMMA InitPays == Init => PayInv
<1> SUFFICES ASSUME Init PROVE PayInv
  OBVIOUS
<1>1. preposition.execute = FALSE /\ task.pc = "idle"
  BY DEF Init, NoPreposition, Idle
<1>2. prices \in [Assets -> Nat]
  BY DEF Init
<1> QED BY <1>1, <1>2, NothingTriggered DEF PayInv

\* A price is at least one, whatever the ticks have found.
LEMMA PricesArePositive ==
    ASSUME prices \in [Assets -> Nat], NEW a \in Assets
    PROVE  PriceOf(a) \in Nat /\ PriceOf(a) >= 1
BY DEF PriceOf

\* The steps that leave task, preposition and prices alone.
LEMMA Unconcerned ==
    ASSUME PayInv, UNCHANGED <<task, preposition>>,
           prices' \in [Assets -> Nat]
    PROVE  PayInv'
<1>1. TriggeredPlansPay'
  BY DEF PayInv, TriggeredPlansPay, Triggered
<1>2. /\ task'.pc = "price" => PriceInv'
      /\ task'.pc = "shortfall" => ShortfallInv'
      /\ task'.pc = "build" => BuildInv'
      /\ task'.pc = "cost" => CostInv'
  BY DEF PayInv, PriceInv, ShortfallInv, BuildInv, CostInv
<1> QED BY <1>1, <1>2 DEF PayInv

LEMMA PendingPays ==
    ASSUME PayInv, NEW tx \in Transactions, Pending(tx)
    PROVE  PayInv'
<1>1. task'.pc = "price" /\ PriceInv' /\ prices' = prices
  <2> DEFINE swap == Parsed(tx)
  <2>1. swap.amount \in Nat
    BY MonitorAssumption DEF Parsed
  <2> HIDE DEF swap
  <2>2. /\ {Resolve(swap.in), Resolve(swap.out)} \subseteq KnownTokens
        /\ task' = [pc |-> "price", in |-> Resolve(swap.in),
                    out |-> Resolve(swap.out), amount |-> swap.amount]
        /\ prices' = prices
    BY DEF Pending, swap
  <2> QED BY <2>1, <2>2, MonitorAssumption DEF PriceInv
<1>2. preposition'.execute = FALSE
  BY DEF Pending, NoPreposition
<1>3. TriggeredPlansPay'
  BY <1>2 DEF TriggeredPlansPay, Triggered
<1> QED BY <1>1, <1>3 DEF PayInv

\* The impact is a number, whichever pool of the pair it is.
LEMMA ImpactIsInteger ==
    ASSUME NEW pair \in DOMAIN PairPools, NEW x \in Nat, NEW t
    PROVE  PriceImpact(PairPools[pair], x, t) \in Int
<1> DEFINE p == PairPools[pair]
<1>1. p.kind = "v3" \/ (p.reserve0 \in Nat /\ p.reserve1 \in Nat)
  BY MonitorAssumption DEF MonitorAssumption
<1> HIDE DEF p
<1>2. CASE \/ p.kind = "v3" \/ ReserveIn(p, t) = 0 \/ ReserveOut(p, t) = 0
           \/ x = 0
  <2>1. PriceImpact(p, x, t) = 0 \/ PriceImpact(p, x, t) = 10000
    BY <1>2, SMT DEF PriceImpact
  <2> QED BY <2>1, SMT DEF p
<1>3. CASE ~ (\/ p.kind = "v3" \/ ReserveIn(p, t) = 0 \/ ReserveOut(p, t) = 0
              \/ x = 0)
  <2>1. PICK rin \in Nat, rout \in Nat :
           rin = ReserveIn(p, t) /\ rout = ReserveOut(p, t)
    BY <1>1, <1>3 DEF ReserveIn, ReserveOut
  <2>2. rin > 0 /\ rout > 0 /\ x > 0
    BY <1>3, <2>1
  <2>3. PICK out \in Int : out = V2AmountOut(p, x, t)
    <3>1. rin * 10000 + x * (10000 - FeeBps) \in Nat
          /\ rin * 10000 + x * (10000 - FeeBps) > 0
          /\ x * (10000 - FeeBps) * rout \in Nat
      <4>1. 10000 - FeeBps \in Nat
        BY AmmAssumption, SMT
      <4>2. x * (10000 - FeeBps) \in Nat /\ rin * 10000 > 0
            /\ rin * 10000 \in Nat
        BY <2>2, <4>1, SMT
      <4> QED BY <4>2, SMT
    <3>2. (x * (10000 - FeeBps) * rout)
             \div (rin * 10000 + x * (10000 - FeeBps)) \in Int
      BY <3>1, SMT
    <3>3. V2AmountOut(p, x, t)
             = (x * (10000 - FeeBps) * rout)
                  \div (rin * 10000 + x * (10000 - FeeBps))
      BY <2>1, <2>2, SMT DEF V2AmountOut, V2Out
    <3> QED BY <3>2, <3>3
  <2>4. x * rout \in Nat /\ x * rout > 0
    BY <2>2
  <2>5. (10000 * (x * rout - out * rin)) \div (x * rout) \in Int
    <3>1. 10000 * (x * rout - out * rin) \in Int
      BY <2>4, SMT
    <3> QED BY <2>4, <3>1
  <2>6. PriceImpact(p, x, t)
           = (10000 * (x * rout - out * rin)) \div (x * rout)
    BY <1>3, <2>1, <2>3, SMT DEF PriceImpact
  <2> QED BY <2>5, <2>6 DEF p
<1> QED BY <1>2, <1>3

\* A pool trades two different tokens, so the two needs are of two assets.
LEMMA EstimatePays ==
    ASSUME PayInv, EstimateArb
    PROVE  PayInv'
<1>1. PriceInv /\ prices' = prices /\ prices \in [Assets -> Nat]
      /\ preposition' = preposition
  BY DEF PayInv, EstimateArb
<1>2. TriggeredPlansPay'
  BY <1>1 DEF PayInv, TriggeredPlansPay, Triggered
<1>3. CASE task' = Idle
  BY <1>1, <1>2, <1>3 DEF PayInv, Idle
<1>4. CASE task' # Idle
  <2>1. PICK in \in Assets, out \in Assets :
           in = task.in /\ out = task.out
    BY <1>1 DEF PriceInv
  <2>2. PICK amount \in Nat : amount = task.amount
    BY <1>1 DEF PriceInv
  <2> DEFINE size == amount * PriceOf(in)
             half == amount \div 2
  <2>3. PICK p \in PoolsFor(in, out) :
           task' = [pc |-> "shortfall", profit |-> size * PriceImpact(p, amount, in),
                    needs |-> {[venue |-> "wallet", asset |-> out, amount |-> half],
                               [venue |-> "cex", asset |-> in, amount |-> half]}]
    BY <1>4, <2>1, <2>2 DEF EstimateArb
  <2>4. PICK pair \in DOMAIN PairPools :
           p = PairPools[pair] /\ pair \in {<<in, out>>, <<out, in>>}
    BY DEF PoolsFor
  <2>5. in # out
    <3>1. pair[1] # pair[2]
      BY MonitorAssumption DEF MonitorAssumption
    <3> QED BY <2>4, <3>1
  <2>6. PICK impact \in Int : impact = PriceImpact(p, amount, in)
    BY <2>4, ImpactIsInteger
  <2>7. size * impact \in Int
    <3>1. size \in Int
      BY <1>1, PricesArePositive
    <3> HIDE DEF size
    <3> QED BY <3>1
  <2>8. half \in Int
    OBVIOUS
  <2> HIDE DEF size, half
  <2>9. task'.pc = "shortfall" /\ task'.profit \in Int
        /\ \A n \in task'.needs : n.asset \in {in, out}
        /\ OneEach(task'.needs) /\ task'.needs \subseteq Needs
    BY <2>3, <2>5, <2>6, <2>7, <2>8 DEF OneEach, Needs, Venues
  <2>10. ShortfallInv'
    BY <2>9 DEF ShortfallInv, OfTwo, OneEach
  <2> QED BY <1>1, <1>2, <2>9, <2>10 DEF PayInv
<1> QED BY <1>3, <1>4

LEMMA ShortfallPays ==
    ASSUME PayInv, Shortfall \/ Expired
    PROVE  PayInv'
<1>1. /\ prices' = prices /\ prices \in [Assets -> Nat]
      /\ ShortfallInv /\ TriggeredPlansPay
  BY DEF PayInv, Shortfall, Expired
<1>2. CASE task' = Idle
  <2>1. preposition'.transfers = {}
    BY <1>2 DEF Shortfall, Expired, NoPreposition, Idle
  <2>2. TriggeredPlansPay'
    BY <2>1 DEF TriggeredPlansPay, Triggered
  <2> QED BY <1>1, <1>2, <2>2 DEF PayInv, Idle
<1>3. CASE task' # Idle
  <2> DEFINE lacks(n) == n.amount - Available(books, n.venue, n.asset)
             lacking == {n \in task.needs : lacks(n) > 0}
             short == {[n EXCEPT !.amount = lacks(n)] : n \in lacking}
  <2>1. /\ preposition' = preposition
        /\ task' = [pc |-> "build", profit |-> task.profit, short |-> short,
                    transfers |-> {}]
    BY <1>3 DEF Shortfall, Expired
  <2>2. ASSUME NEW s \in short
        PROVE  \E n \in task.needs :
                  s.asset = n.asset /\ s = [n EXCEPT !.amount = lacks(n)]
    <3>1. PICK n \in task.needs : s = [n EXCEPT !.amount = lacks(n)]
      OBVIOUS
    <3>2. n \in Needs
      BY <1>1 DEF ShortfallInv
    <3>3. s.asset = n.asset
      BY <3>1, <3>2 DEF Needs
    <3> QED BY <3>1, <3>3
  <2>3. OneEach(short)
    BY <1>1, <2>2 DEF OneEach, ShortfallInv
  <2>4. OfTwo(short)
    BY <1>1, <2>2 DEF OfTwo, ShortfallInv
  <2> HIDE DEF short
  <2>5. BuildInv'
    BY <1>1, <2>1, <2>3, <2>4 DEF BuildInv, ShortfallInv, Transferable,
                                  OneEach, OfTwo
  <2>6. TriggeredPlansPay'
    BY <1>1, <2>1 DEF TriggeredPlansPay, Triggered
  <2> QED BY <1>1, <2>1, <2>5, <2>6 DEF PayInv
<1> QED BY <1>2, <1>3

\* A transfer takes the place of the need it is for.
LEMMA BuildPays ==
    ASSUME PayInv, task.pc = "build", NEW s \in task.short, BuildTransfer(s)
    PROVE  PayInv'
<1>1. /\ prices' = prices /\ prices \in [Assets -> Nat] /\ BuildInv
      /\ preposition' = preposition /\ TriggeredPlansPay
  BY DEF PayInv, BuildTransfer
<1>2. PICK short, transfers, profit :
         /\ task = [pc |-> "build", profit |-> profit,
                    short |-> short, transfers |-> transfers]
         /\ short = task.short /\ transfers = task.transfers
         /\ profit = task.profit
  BY <1>1 DEF BuildInv
<1>3. PICK amount, new :
         /\ new = [from |-> Other(s.venue), to |-> s.venue,
                   asset |-> s.asset, amount |-> amount]
         /\ \/ /\ s.asset \in TransferAssets
               /\ task' = [task EXCEPT !.short = short \ {s},
                                       !.transfers = transfers \cup {new}]
            \/ task' = [task EXCEPT !.short = short \ {s},
                                    !.transfers = transfers]
  BY <1>2 DEF BuildTransfer
<1>4. PICK more \in SUBSET {new} :
         /\ task' = [pc |-> "build", profit |-> profit,
                     short |-> short \ {s}, transfers |-> transfers \cup more]
         /\ more # {} => s.asset \in TransferAssets
  <2>1. CASE s.asset \in TransferAssets
             /\ task' = [task EXCEPT !.short = short \ {s},
                                     !.transfers = transfers \cup {new}]
    <3>1. task' = [pc |-> "build", profit |-> profit,
                   short |-> short \ {s}, transfers |-> transfers \cup {new}]
      BY <1>2, <2>1
    <3> QED BY <2>1, <3>1
  <2>2. CASE task' = [task EXCEPT !.short = short \ {s},
                                  !.transfers = transfers]
    <3>1. task' = [pc |-> "build", profit |-> profit,
                   short |-> short \ {s}, transfers |-> transfers]
      BY <1>2, <2>2
    <3>2. transfers = transfers \cup {}
      OBVIOUS
    <3> QED BY <3>1, <3>2
  <2> QED BY <1>3, <2>1, <2>2
<1>5. new.asset = s.asset
  BY <1>3
<1>6. /\ s \in short /\ OneEach(short \cup transfers)
      /\ short \cap transfers = {} /\ OfTwo(short \cup transfers)
      /\ Transferable(transfers) /\ profit \in Int
  BY <1>1, <1>2 DEF BuildInv
<1>7. /\ OneEach((short \ {s}) \cup (transfers \cup more))
      /\ (short \ {s}) \cap (transfers \cup more) = {}
      /\ OfTwo((short \ {s}) \cup (transfers \cup more))
      /\ Transferable(transfers \cup more)
  <2>1. \A u \in (short \ {s}) \cup transfers : u.asset # s.asset
    BY <1>6 DEF OneEach
  <2>2. \A u \in more : u = new
    OBVIOUS
  <2>3. OneEach((short \ {s}) \cup (transfers \cup more))
    BY <1>5, <1>6, <2>1, <2>2 DEF OneEach
  <2>4. (short \ {s}) \cap (transfers \cup more) = {}
    BY <1>5, <1>6, <2>1, <2>2
  <2>5. OfTwo((short \ {s}) \cup (transfers \cup more))
    BY <1>5, <1>6, <2>2 DEF OfTwo
  <2>6. Transferable(transfers \cup more)
    BY <1>4, <1>5, <1>6, <2>2 DEF Transferable
  <2> QED BY <2>3, <2>4, <2>5, <2>6
<1>8. BuildInv' /\ task'.pc = "build"
  <2>1. /\ task'.pc = "build" /\ task'.profit = profit
        /\ task'.short = short \ {s} /\ task'.transfers = transfers \cup more
    BY <1>4
  <2>2. task' = [pc |-> "build", profit |-> task'.profit,
                 short |-> task'.short, transfers |-> task'.transfers]
    BY <1>4, <2>1
  <2> QED BY <1>6, <1>7, <2>1, <2>2
             DEF BuildInv, OneEach, OfTwo, Transferable
<1>9. TriggeredPlansPay'
  BY <1>1 DEF TriggeredPlansPay, Triggered
<1> QED BY <1>1, <1>8, <1>9 DEF PayInv

LEMMA BuiltPays ==
    ASSUME PayInv, Built
    PROVE  PayInv'
<1>1. /\ prices' = prices /\ prices \in [Assets -> Nat] /\ BuildInv
      /\ preposition' = preposition /\ TriggeredPlansPay
      /\ task.short = {}
      /\ task' = [pc |-> "cost", profit |-> task.profit,
                  transfers |-> task.transfers, todo |-> task.transfers,
                  cost |-> 0]
  BY DEF PayInv, Built
<1>2. PICK T : T = task.transfers /\ task.short \cup T = T
  BY <1>1
<1>3. OneEach(T) /\ OfTwo(T) /\ Transferable(T)
  BY <1>1, <1>2 DEF BuildInv
<1>4. T \ T = {} /\ 0 >= Fees({})
  BY FeesOfNone
<1>5. task' = [pc |-> "cost", profit |-> task.profit, transfers |-> T,
               todo |-> T, cost |-> 0] /\ task.profit \in Int
  BY <1>1, <1>2 DEF BuildInv
<1>6. CostInv' /\ task'.pc = "cost"
  <2>1. task'.transfers = T /\ task'.todo = T /\ task'.cost = 0
        /\ task'.profit = task.profit /\ task'.pc = "cost"
    BY <1>5
  <2>2. task'.cost >= Fees(task'.transfers \ task'.todo)
    BY <1>4, <2>1
  <2>3. (Fees(task.transfers \ task.todo))' = Fees(task'.transfers \ task'.todo)
    OBVIOUS
  <2>4. task' = [pc |-> "cost", profit |-> task'.profit,
                 transfers |-> task'.transfers, todo |-> task'.todo,
                 cost |-> task'.cost]
    BY <1>5, <2>1
  <2> QED BY <1>3, <1>5, <2>1, <2>2, <2>3, <2>4
             DEF CostInv, OneEach, OfTwo, Transferable
<1>7. TriggeredPlansPay'
  BY <1>1 DEF TriggeredPlansPay, Triggered
<1> QED BY <1>1, <1>6, <1>7 DEF PayInv

\* The fee is priced at one or more.
LEMMA PricingPays ==
    ASSUME PayInv, task.pc = "cost", NEW t \in task.todo, PriceTransfer(t)
    PROVE  PayInv'
<1>1. /\ prices' = prices /\ prices \in [Assets -> Nat] /\ CostInv
      /\ preposition' = preposition /\ TriggeredPlansPay
  BY DEF PayInv, PriceTransfer
<1>2. PICK T, todo, profit, cost :
         /\ task = [pc |-> "cost", profit |-> profit, transfers |-> T,
                    todo |-> todo, cost |-> cost]
         /\ T = task.transfers /\ todo = task.todo
         /\ profit = task.profit /\ cost = task.cost
  BY <1>1 DEF CostInv
<1>3. /\ OneEach(T) /\ OfTwo(T) /\ Transferable(T) /\ todo \subseteq T
      /\ profit \in Int /\ cost \in Nat /\ cost >= Fees(T \ todo)
      /\ t \in todo
  BY <1>1, <1>2 DEF CostInv
<1> DEFINE more == WithdrawalFee[t.asset] * PriceOf(t.asset)
<1>4. task' = [pc |-> "cost", profit |-> profit, transfers |-> T,
               todo |-> todo \ {t}, cost |-> cost + more]
  <2>1. task' = [task EXCEPT !.todo = todo \ {t}, !.cost = cost + more]
    BY <1>2 DEF PriceTransfer
  <2> HIDE DEF more
  <2> QED BY <1>2, <2>1
<1>5. more \in Nat /\ more >= Fee(t)
  <2>1. PICK fee \in Nat : fee = WithdrawalFee[t.asset]
    BY <1>3, AtMostTwo DEF Fee
  <2>2. t.asset \in Assets
    BY <1>3, RebalancingAssumption DEF RebalancingAssumption, Transferable
  <2>3. PICK price \in Nat : price = PriceOf(t.asset) /\ price >= 1
    BY <1>1, <2>2, PricesArePositive
  <2>4. fee * price \in Nat /\ fee * price >= fee
    <3>1. PICK rest \in Nat : price = rest + 1
      <4>1. price - 1 \in Nat /\ price = (price - 1) + 1
        BY <2>3
      <4> QED BY <4>1
    <3>2. fee * rest \in Nat /\ fee * price = fee * rest + fee
      BY <3>1
    <3> QED BY <3>2
  <2> QED BY <2>1, <2>3, <2>4 DEF Fee
<1> HIDE DEF more
<1>6. cost + more \in Nat /\ cost + more >= Fees(T \ (todo \ {t}))
  <2>1. Fees(T \ (todo \ {t})) = Fees(T \ todo) + Fee(t)
    BY <1>3, FeesAdd
  <2>2. Fee(t) \in Nat
    BY <1>3, AtMostTwo
  <2>3. PICK before \in Nat : before = Fees(T \ todo)
    <3>1. OneEach(T \ todo) /\ OfTwo(T \ todo) /\ Transferable(T \ todo)
      BY <1>3 DEF OneEach, OfTwo, Transferable
    <3> QED BY <3>1, FeesPositive
  <2> QED BY <1>3, <1>5, <2>1, <2>2, <2>3
<1>7. CostInv' /\ task'.pc = "cost"
  <2>1. /\ task'.transfers = T /\ task'.todo = todo \ {t}
        /\ task'.cost = cost + more
        /\ task'.profit = profit /\ task'.pc = "cost"
    BY <1>4
  <2>2. task'.cost >= Fees(task'.transfers \ task'.todo)
    BY <1>6, <2>1
  <2>3. (Fees(task.transfers \ task.todo))' = Fees(task'.transfers \ task'.todo)
    OBVIOUS
  <2>4. task' = [pc |-> "cost", profit |-> task'.profit,
                 transfers |-> task'.transfers, todo |-> task'.todo,
                 cost |-> task'.cost]
    BY <1>4, <2>1
  <2> QED BY <1>3, <1>6, <2>1, <2>2, <2>3, <2>4
             DEF CostInv, OneEach, OfTwo, Transferable
<1>8. TriggeredPlansPay'
  BY <1>1 DEF TriggeredPlansPay, Triggered
<1> QED BY <1>1, <1>7, <1>8 DEF PayInv

\* Worthwhile compares the profit with the cost, and that is enough: there is
\* a cost, since every transfer has a fee.
LEMMA DecidePays ==
    ASSUME PayInv, Decide
    PROVE  PayInv'
<1>1. /\ prices' = prices /\ prices \in [Assets -> Nat] /\ CostInv
      /\ task' = Idle /\ task.todo = {}
      /\ preposition' = [transfers |-> task.transfers, cost |-> task.cost,
                         profit |-> task.profit,
                         execute |-> Worthwhile(task.profit, task.cost)]
  BY DEF PayInv, Decide
<1>2. PICK T, profit, cost :
         T = task.transfers /\ profit = task.profit /\ cost = task.cost
  OBVIOUS
<1>3. /\ OneEach(T) /\ OfTwo(T) /\ Transferable(T)
      /\ profit \in Int /\ cost \in Nat /\ cost >= Fees(T)
  <2>1. T \ task.todo = T
    BY <1>1
  <2> QED BY <1>1, <1>2, <2>1 DEF CostInv
<1>4. TriggeredPlansPay'
  <2> SUFFICES ASSUME Triggered'
               PROVE  /\ preposition'.profit
                            >= MinRatio * 20000 * Fees(preposition'.transfers)
                      /\ OneEach(preposition'.transfers)
    BY DEF TriggeredPlansPay, OneEach
  <2>1. preposition'.transfers = T /\ preposition'.profit = profit
        /\ preposition'.execute = Worthwhile(profit, cost)
    BY <1>1, <1>2
  <2>2. T # {} /\ Worthwhile(profit, cost)
    BY <2>1 DEF Triggered
  <2>3. PICK fees \in Nat : fees = Fees(T) /\ fees > 0
    BY <1>3, <2>2, FeesPositive
  <2>4. profit >= MinRatio * cost * 20000
    BY <1>3, <2>2, <2>3 DEF Worthwhile
  <2>5. MinRatio * cost * 20000 >= MinRatio * 20000 * fees
        /\ MinRatio * cost * 20000 \in Int /\ MinRatio * 20000 * fees \in Int
    <3>1. MinRatio \in Nat
      BY MonitorAssumption
    <3>2. PICK rest \in Nat : cost = fees + rest
      <4>1. cost - fees \in Nat /\ cost = fees + (cost - fees)
        BY <1>3, <2>3
      <4> QED BY <4>1
    <3>3. MinRatio * fees \in Nat /\ MinRatio * rest \in Nat
          /\ MinRatio * cost = MinRatio * fees + MinRatio * rest
          /\ MinRatio * 20000 * fees = 20000 * (MinRatio * fees)
      BY <3>1, <3>2, SMT
    <3> QED BY <3>1, <3>3, SMT
  <2>6. profit >= MinRatio * 20000 * fees
    BY <1>3, <2>4, <2>5
  <2> QED BY <1>3, <2>1, <2>3, <2>6
<1> QED BY <1>1, <1>4 DEF PayInv, Idle

LEMMA StepKeepsPay ==
    ASSUME PayInv, [Next]_vars
    PROVE  PayInv'
<1>1. prices \in [Assets -> Nat]
  BY DEF PayInv
<1>2. ASSUME NEW tx \in Transactions, Pending(tx) PROVE PayInv'
  BY <1>2, PendingPays
<1>3. CASE EstimateArb
  BY <1>3, EstimatePays
<1>4. CASE Expired \/ Shortfall
  BY <1>4, ShortfallPays
<1>5. CASE \E s \in IF task.pc = "build" THEN task.short ELSE {} : BuildTransfer(s)
  BY <1>5, BuildPays
<1>6. CASE Built
  BY <1>6, BuiltPays
<1>7. CASE \E t \in IF task.pc = "cost" THEN task.todo ELSE {} : PriceTransfer(t)
  BY <1>7, PricingPays
<1>8. CASE Decide
  BY <1>8, DecidePays
<1>9. CASE Bot \/ Operator \/ UNCHANGED vars
  <2>1. UNCHANGED <<task, preposition>>
    BY <1>9 DEF Bot, Operator, vars, TickPrice, Trade, Sync, MakePlan,
                CarryOut, Refused, Arrives, monitorVars
  <2>2. prices' \in [Assets -> Nat]
    <3>1. CASE prices' = prices
      BY <1>1, <3>1
    <3>2. CASE \E p \in TickPrices : TickPrice(p)
      BY <1>1, <3>2, MonitorAssumption DEF TickPrice
    <3> QED BY <1>9, <3>1, <3>2
            DEF Bot, Operator, vars, Trade, Sync, MakePlan, CarryOut, Refused,
                Arrives
  <2> QED BY <2>1, <2>2, Unconcerned
<1> QED BY <1>2, <1>3, <1>4, <1>5, <1>6, <1>7, <1>8, <1>9 DEF Next, Monitor

\* For all books, prices and swaps, and whatever happens between the locks,
\* what the callback announces pays at least MinRatio times the fees of all
\* its transfers, and has one transfer for an asset.
THEOREM PrepositionsPay == Spec => []TriggeredPlansPay
<1>1. PayInv => TriggeredPlansPay
  BY DEF PayInv
<1> QED BY <1>1, InitPays, StepKeepsPay, PTL DEF Spec
=============================================================================
