----------------------------- MODULE RateLimiter -----------------------------
(***************************************************************************)
(* The limiter of one socket (createSocketRateLimiter): three token        *)
(* buckets that are refilled when an event asks them, not by a timer.      *)
(*                                                                         *)
(* A token of a bucket is measured by the time its refill takes, so levels *)
(* are integers: the global bucket has Cost 50 ms and Full 60 * 50 ms, the *)
(* expensive one 200 ms and 20 * 200 ms, the identify one 5000 ms and      *)
(* 5 * 5000 ms.  The rounding of the program's floating-point levels and   *)
(* steps of the system clock are left out; so is the count of dropped      *)
(* events, which only the log reads.                                       *)
(*                                                                         *)
(* spent and window belong to an observer that may start a window at any   *)
(* moment; the limiter never reads them.                                   *)
(***************************************************************************)
EXTENDS Integers

CONSTANTS
  Event,      \* kinds of events
  Identify,   \* the event "identify"
  Expensive,  \* EXPENSIVE_EVENTS
  Full,       \* capacity of each bucket, as time
  Cost,       \* price of one event in each bucket, as time
  MaxWindow   \* the longest window the observer watches

Bucket == {"global", "identify", "expensive"}

ASSUME BudgetAssumption ==
  /\ Identify \in Event \ Expensive
  /\ Expensive \subseteq Event
  /\ Full \in [Bucket -> Nat] /\ Cost \in [Bucket -> Nat \ {0}]
  /\ \A b \in Bucket : Cost[b] <= Full[b]
  /\ MaxWindow \in Nat

VARIABLES
  tokens,      \* TokenBucket.tokens: the level at the last refill
  sinceRefill, \* now - TokenBucket.lastRefill
  verdict,     \* what allow returned last
  spent,       \* what each bucket has paid since the window began
  window       \* time since the window began

vars == <<tokens, sinceRefill, verdict, spent, window>>

TypeOK ==
  /\ \A b \in Bucket : tokens[b] \in 0..Full[b] /\ sinceRefill[b] \in 0..Full[b]
  /\ DOMAIN tokens = Bucket /\ DOMAIN sinceRefill = Bucket
  /\ verdict \in {"none", "pass", "drop"}
  /\ spent \in [Bucket -> Nat]
  /\ window \in 0..MaxWindow

-----------------------------------------------------------------------------
\* The buckets allow(e) asks if none refuses, the global one first.
Needs ==
  [e \in Event |-> {"global"} \cup (IF e = Identify THEN {"identify"} ELSE {})
                              \cup (IF e \in Expensive THEN {"expensive"} ELSE {})]

\* Mutant: the capacity is forgotten.
Uncapped(b, level) == level

Capped(b, level) == IF level > Full[b] THEN Full[b] ELSE level

\* The level after the refill at the head of tryConsume.
Refilled(b) == Capped(b, tokens[b] + sinceRefill[b])

\* Mutant: the level is compared before the refill.
CanPayBefore(b) == tokens[b] >= Cost[b]

CanPay(b) == Refilled(b) >= Cost[b]

\* Mutant: lastRefill keeps its value, and time is credited again.
StampKept(asked) == sinceRefill

\* lastRefill = now
Stamped(asked) ==
  [b \in Bucket |-> IF b \in asked THEN 0 ELSE sinceRefill[b]]

\* A socket connects and gets its limiter.
Init ==
  /\ tokens = Full
  /\ sinceRefill = [b \in Bucket |-> 0]
  /\ verdict = "none"
  /\ spent = [b \in Bucket |-> 0]
  /\ window = 0

\* The global bucket is asked first, the event's own one only if it paid.
Asked(e) == IF CanPay("global") THEN Needs[e] ELSE {"global"}
Paid(e)  == {b \in Asked(e) : CanPay(b)}

\* allow(e): what the global bucket paid is not given back on a refusal.
Allow(e) ==
  /\ tokens' = [b \in Bucket |->
       CASE b \in Paid(e)            -> Refilled(b) - Cost[b]
         [] b \in Asked(e) \ Paid(e) -> Refilled(b)
         [] OTHER                    -> tokens[b]]
  /\ sinceRefill' = Stamped(Asked(e))
  /\ verdict' = IF Needs[e] \subseteq Paid(e) THEN "pass" ELSE "drop"
  /\ spent' = [b \in Bucket |->
       IF b \in Paid(e) THEN spent[b] + Cost[b] ELSE spent[b]]
  /\ UNCHANGED window

\* Time passes.  An age stops at the capacity: the bucket is full from there on.
Tick ==
  /\ window < MaxWindow
  /\ sinceRefill' = [b \in Bucket |-> Capped(b, sinceRefill[b] + 1)]
  /\ window' = window + 1
  /\ UNCHANGED <<tokens, verdict, spent>>

\* The observer begins another window.
Watch ==
  /\ window' = 0
  /\ spent' = [b \in Bucket |-> 0]
  /\ UNCHANGED <<tokens, sinceRefill, verdict>>

Next ==
  \/ \E e \in Event : Allow(e)
  \/ Tick
  \/ Watch

Spec == Init /\ [][Next]_vars

-----------------------------------------------------------------------------
\* In whatever window one looks, no bucket pays for more than its capacity and
\* what it earned meanwhile: the global limit holds across all kinds of events
\* (the comment in allow), and the others within their kind.
PacedInEveryWindow == \A b \in Bucket : spent[b] <= Full[b] + window

\* What a bucket would hold if it were refilled all the time.
Level == [b \in Bucket |-> Refilled(b)]

Budget == INSTANCE EventBudget WITH budget <- Level

\* Refilling lazily, and only the buckets an event reaches, answers as
\* buckets would that a timer keeps filling: an event passes exactly when all
\* its buckets can pay, however its socket hammered them before.
LazyIsEager == Budget!Spec

\* The inductive strengthening of PacedInEveryWindow: what is left counts too.
PacedInv == \A b \in Bucket : spent[b] + Refilled(b) <= Full[b] + window
=============================================================================
