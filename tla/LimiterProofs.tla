---------------------------- MODULE LimiterProofs ----------------------------
(***************************************************************************)
(* RateLimiter, for every set of events, capacity and price: typing, the   *)
(* bound on every window, and that refilling lazily answers as EventBudget *)
(* does.                                                                   *)
(***************************************************************************)
EXTENDS RateLimiter, TLAPS

USE BudgetAssumption

LEMMA Sizes ==
  ASSUME NEW b \in Bucket
  PROVE  /\ Full[b] \in Nat /\ Cost[b] \in Nat
         /\ 0 < Cost[b] /\ Cost[b] <= Full[b]
OBVIOUS

LEMMA NeedsBuckets ==
  ASSUME NEW e \in Event
  PROVE  /\ Needs[e] \in SUBSET Bucket
         /\ "global" \in Needs[e]
BY DEF Needs, Bucket

\* A refill brings a level within its bounds, and never above what was there
\* and what was earned.
LEMMA RefillBounds ==
  ASSUME TypeOK, NEW b \in Bucket
  PROVE  /\ Refilled(b) \in 0..Full[b]
         /\ tokens[b] <= Refilled(b)
         /\ Refilled(b) <= tokens[b] + sinceRefill[b]
BY Sizes DEF TypeOK, Refilled, Capped

\* Whom an event asks, and who pays.
LEMMA AskedAndPaid ==
  ASSUME NEW e \in Event
  PROVE  /\ Paid(e) \subseteq Asked(e)
         /\ Asked(e) \subseteq Needs[e] /\ Needs[e] \subseteq Bucket
         /\ Asked(e) # Needs[e] => ~CanPay("global")
         /\ "global" \in Needs[e]
         /\ \A b \in Bucket : b \in Paid(e) <=> b \in Asked(e) /\ CanPay(b)
BY NeedsBuckets DEF Asked, Paid

\* What an event does to one bucket.
LEMMA AllowCharges ==
  ASSUME NEW e \in Event, Allow(e), NEW b \in Bucket
  PROVE  /\ b \in Paid(e) => /\ tokens'[b] = Refilled(b) - Cost[b]
                             /\ sinceRefill'[b] = 0
                             /\ spent'[b] = spent[b] + Cost[b]
         /\ b \in Asked(e) \ Paid(e) => /\ tokens'[b] = Refilled(b)
                                        /\ sinceRefill'[b] = 0
                                        /\ spent'[b] = spent[b]
         /\ b \notin Asked(e) => /\ tokens'[b] = tokens[b]
                                 /\ sinceRefill'[b] = sinceRefill[b]
                                 /\ spent'[b] = spent[b]
BY AskedAndPaid DEF Allow, Stamped

LEMMA NextTypes == TypeOK /\ [Next]_vars => TypeOK'
<1> SUFFICES ASSUME TypeOK, [Next]_vars
             PROVE  TypeOK'
  OBVIOUS
<1>1. ASSUME NEW e \in Event, Allow(e)
      PROVE  TypeOK'
  <2>1. ASSUME NEW b \in Bucket
        PROVE  /\ tokens'[b] \in 0..Full[b]
               /\ sinceRefill'[b] \in 0..Full[b]
               /\ spent'[b] \in Nat
    <3>1. /\ Refilled(b) \in 0..Full[b] /\ tokens[b] \in 0..Full[b]
          /\ sinceRefill[b] \in 0..Full[b] /\ spent[b] \in Nat
      BY RefillBounds DEF TypeOK
    <3>2. CASE b \in Paid(e)
      BY <1>1, <3>1, <3>2, AllowCharges, AskedAndPaid, Sizes DEF CanPay
    <3>3. CASE b \in Asked(e) \ Paid(e)
      BY <1>1, <3>1, <3>3, AllowCharges, Sizes
    <3>4. CASE b \notin Asked(e)
      BY <1>1, <3>1, <3>4, AllowCharges
    <3> QED BY <3>2, <3>3, <3>4
  <2>2. /\ DOMAIN tokens' = Bucket /\ DOMAIN sinceRefill' = Bucket
        /\ DOMAIN spent' = Bucket /\ spent' = [b \in Bucket |-> spent'[b]]
        /\ verdict' \in {"pass", "drop"} /\ window' = window
    BY <1>1 DEF Allow, Stamped
  <2>3. spent' \in [Bucket -> Nat]
    BY <2>1, <2>2
  <2> QED BY <2>1, <2>2, <2>3 DEF TypeOK
<1>2. ASSUME Tick
      PROVE  TypeOK'
  <2>1. \A b \in Bucket : sinceRefill'[b] \in 0..Full[b]
    BY <1>2, Sizes DEF Tick, TypeOK, Capped
  <2> QED BY <1>2, <2>1 DEF Tick, TypeOK
<1>3. ASSUME Watch
      PROVE  TypeOK'
  BY <1>3 DEF Watch, TypeOK
<1>4. ASSUME UNCHANGED vars
      PROVE  TypeOK'
  BY <1>4 DEF vars, TypeOK
<1> QED BY <1>1, <1>2, <1>3, <1>4 DEF Next

\* Levels stay within the capacities, whatever events come and however long
\* the socket was silent.
THEOREM LimiterTypes == Spec => []TypeOK
<1>1. Init => TypeOK
  BY Sizes DEF Init, TypeOK
<1> QED BY <1>1, NextTypes, PTL DEF Spec

-----------------------------------------------------------------------------
(* What a bucket holds after an event. *)

LEMMA AllowLevel ==
  ASSUME TypeOK, TypeOK', NEW e \in Event, Allow(e), NEW b \in Bucket
  PROVE  Refilled(b)' = IF b \in Paid(e) THEN Refilled(b) - Cost[b] ELSE Refilled(b)
<1>1. /\ Refilled(b)' = Capped(b, tokens'[b] + sinceRefill'[b])
      /\ Refilled(b) = Capped(b, tokens[b] + sinceRefill[b])
  BY DEF Refilled, Capped
<1>2. /\ tokens'[b] \in 0..Full[b] /\ Full[b] \in Nat
  BY Sizes DEF TypeOK
<1>3. ASSUME sinceRefill'[b] = 0
      PROVE  Refilled(b)' = tokens'[b]
  BY <1>1, <1>2, <1>3 DEF Capped
<1>4. CASE b \in Asked(e)
  BY <1>3, <1>4, AllowCharges
<1>5. CASE b \notin Asked(e)
  BY <1>1, <1>5, AllowCharges, AskedAndPaid
<1> QED BY <1>4, <1>5

\* A unit of time is worth a unit of level, up to the capacity, although no
\* bucket is touched: an age that has stopped belongs to a full bucket.
LEMMA TickLevel ==
  ASSUME TypeOK, Tick, NEW b \in Bucket
  PROVE  Refilled(b)' = IF Refilled(b) < Full[b] THEN Refilled(b) + 1 ELSE Full[b]
BY Sizes DEF TypeOK, Tick, Refilled, Capped

LEMMA NextPaced ==
  TypeOK /\ TypeOK' /\ PacedInv /\ [Next]_vars => PacedInv'
<1> SUFFICES ASSUME TypeOK, TypeOK', PacedInv, [Next]_vars, NEW b \in Bucket
             PROVE  spent'[b] + Refilled(b)' <= Full[b] + window'
  BY DEF PacedInv, Refilled, Capped
<1>1. /\ spent[b] \in Nat /\ window \in Nat /\ Full[b] \in Nat /\ Cost[b] \in Nat
      /\ Refilled(b) \in 0..Full[b] /\ spent[b] + Refilled(b) <= Full[b] + window
  BY RefillBounds, Sizes DEF TypeOK, PacedInv
<1>2. ASSUME NEW e \in Event, Allow(e)
      PROVE  spent'[b] + Refilled(b)' <= Full[b] + window'
  <2>1. /\ spent'[b] = IF b \in Paid(e) THEN spent[b] + Cost[b] ELSE spent[b]
        /\ window' = window
    BY <1>2 DEF Allow
  <2>2. Refilled(b)' = IF b \in Paid(e) THEN Refilled(b) - Cost[b] ELSE Refilled(b)
    BY <1>2, AllowLevel
  <2> QED BY <1>1, <2>1, <2>2
<1>3. ASSUME Tick
      PROVE  spent'[b] + Refilled(b)' <= Full[b] + window'
  <2>1. spent'[b] = spent[b] /\ window' = window + 1
    BY <1>3 DEF Tick
  <2> QED BY <1>1, <1>3, <2>1, TickLevel
<1>4. ASSUME Watch
      PROVE  spent'[b] + Refilled(b)' <= Full[b] + window'
  <2>1. spent'[b] = 0 /\ window' = 0 /\ Refilled(b)' = Refilled(b)
    BY <1>4 DEF Watch, Refilled, Capped
  <2> QED BY <1>1, <2>1
<1>5. ASSUME UNCHANGED vars
      PROVE  spent'[b] + Refilled(b)' <= Full[b] + window'
  <2>1. spent' = spent /\ window' = window /\ Refilled(b)' = Refilled(b)
    BY <1>5 DEF vars, Refilled, Capped
  <2> QED BY <1>1, <2>1
<1> QED BY <1>2, <1>3, <1>4, <1>5 DEF Next

\* In every window, what a bucket pays is bounded by its capacity and the
\* window's length: with the program's values, 60 events and 20 a second.
THEOREM EveryWindowIsPaced == Spec => []PacedInEveryWindow
<1>1. Init => PacedInv
  BY Sizes DEF Init, PacedInv, Refilled, Capped
<1>2. TypeOK /\ PacedInv => PacedInEveryWindow
  <2> SUFFICES ASSUME TypeOK, PacedInv, NEW b \in Bucket
               PROVE  spent[b] <= Full[b] + window
    BY DEF PacedInEveryWindow
  <2>1. /\ spent[b] \in Nat /\ window \in Nat /\ Full[b] \in Nat
        /\ Refilled(b) \in 0..Full[b] /\ spent[b] + Refilled(b) <= Full[b] + window
    BY RefillBounds, Sizes DEF TypeOK, PacedInv
  <2> QED BY <2>1
<1> QED BY <1>1, <1>2, LimiterTypes, NextPaced, PTL DEF Spec

-----------------------------------------------------------------------------
(* The refinement. *)

LEMMA AllowImplements ==
  ASSUME TypeOK, TypeOK', NEW e \in Event, Allow(e)
  PROVE  Budget!Pass(e) \/ Budget!Drop(e)
<1>1. verdict' = IF Needs[e] \subseteq Paid(e) THEN "pass" ELSE "drop"
  BY DEF Allow
<1>2. \A b \in Bucket :
        Refilled(b)' = IF b \in Paid(e) THEN Refilled(b) - Cost[b] ELSE Refilled(b)
  BY AllowLevel
<1>3. Level' = [b \in Bucket |-> IF b \in Paid(e) THEN Level[b] - Cost[b] ELSE Level[b]]
  <2>1. Level' = [b \in Bucket |-> Refilled(b)']
    BY DEF Level
  <2>2. \A b \in Bucket : Level[b] = Refilled(b)
    BY DEF Level
  <2> QED BY <1>2, <2>1, <2>2
<1>4. \A b \in Bucket : Budget!Payable(b) <=> CanPay(b)
  BY DEF Budget!Payable, Level, CanPay
<1>5. CASE Needs[e] \subseteq Paid(e)
  <2>1. Paid(e) = Needs[e]
    BY <1>5, AskedAndPaid
  <2>2. \A b \in Needs[e] : Budget!Payable(b)
    BY <1>4, <1>5, AskedAndPaid
  <2>3. Budget!Charge(Needs[e])
    BY <1>3, <2>1 DEF Budget!Charge
  <2> QED BY <1>1, <1>5, <2>2, <2>3 DEF Budget!Pass
<1>6. CASE ~ (Needs[e] \subseteq Paid(e))
  <2>1. \E b \in Needs[e] : ~Budget!Payable(b)
    BY <1>4, <1>6, AskedAndPaid
  <2>2. Paid(e) \in SUBSET {b \in Needs[e] : Budget!Payable(b)}
    BY <1>4, AskedAndPaid
  <2>3. Budget!Charge(Paid(e))
    BY <1>3 DEF Budget!Charge
  <2> QED BY <1>1, <1>6, <2>1, <2>2, <2>3 DEF Budget!Drop
<1> QED BY <1>5, <1>6

LEMMA TickImplements ==
  ASSUME TypeOK, Tick
  PROVE  Budget!Tick
<1>1. \A b \in Bucket : Level[b] = Refilled(b)
  BY DEF Level
<1>2. Level' = [b \in Bucket |-> Refilled(b)']
  BY DEF Level
<1>3. \A b \in Bucket :
        Refilled(b)' = IF Level[b] < Full[b] THEN Level[b] + 1 ELSE Full[b]
  BY TickLevel, <1>1
<1>4. UNCHANGED verdict
  BY DEF Tick
<1> QED BY <1>2, <1>3, <1>4 DEF Budget!Tick

LEMMA SameLevel ==
  ASSUME UNCHANGED <<tokens, sinceRefill, verdict>>
  PROVE  UNCHANGED <<Level, verdict>>
BY DEF Level, Refilled, Capped

\* The limiter answers every event as buckets would that a timer keeps full,
\* for all kinds of events, capacities and prices.
THEOREM LazyBucketsAreEager == Spec => LazyIsEager
<1>1. Init => Budget!Init
  <2> SUFFICES ASSUME Init
               PROVE  Level = Full /\ verdict = "none"
    BY DEF Budget!Init
  <2>1. \A b \in Bucket : Refilled(b) = Full[b]
    BY Sizes DEF Init, Refilled, Capped
  <2> QED BY <2>1 DEF Init, Level
<1>2. TypeOK /\ TypeOK' /\ [Next]_vars => [Budget!Next]_<<Level, verdict>>
  <2> SUFFICES ASSUME TypeOK, TypeOK', [Next]_vars
               PROVE  Budget!Next \/ UNCHANGED <<Level, verdict>>
    OBVIOUS
  <2>1. ASSUME NEW e \in Event, Allow(e)
        PROVE  Budget!Next
    BY <2>1, AllowImplements DEF Budget!Next
  <2>2. ASSUME Tick
        PROVE  Budget!Next
    BY <2>2, TickImplements DEF Budget!Next
  <2>3. ASSUME Watch \/ UNCHANGED vars
        PROVE  UNCHANGED <<Level, verdict>>
    <3>1. UNCHANGED <<tokens, sinceRefill, verdict>>
      BY <2>3 DEF Watch, vars
    <3> QED BY <3>1, SameLevel
  <2> QED BY <2>1, <2>2, <2>3 DEF Next
<1> QED BY <1>1, <1>2, LimiterTypes, PTL DEF Spec, LazyIsEager, Budget!Spec
=============================================================================
