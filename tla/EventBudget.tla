----------------------------- MODULE EventBudget -----------------------------
(***************************************************************************)
(* What the per-socket limiter promises: every bucket fills by one unit    *)
(* per unit of time up to its capacity, an event passes exactly when each  *)
(* bucket it needs can pay for it, and a dropped event costs at most what  *)
(* some of them could pay.  When a bucket is looked at has no influence.   *)
(***************************************************************************)
EXTENDS Integers

CONSTANTS
  Event, Bucket,
  Needs,   \* the buckets an event is charged to
  Full,    \* capacity of a bucket, in units of time
  Cost     \* the time in which a bucket earns one event

VARIABLES
  budget,  \* what each bucket holds
  verdict  \* the answer to the last event

Init ==
  /\ budget = Full
  /\ verdict = "none"

Payable(b) == budget[b] >= Cost[b]

Charge(paid) ==
  budget' = [b \in Bucket |-> IF b \in paid THEN budget[b] - Cost[b] ELSE budget[b]]

Pass(e) ==
  /\ \A b \in Needs[e] : Payable(b)
  /\ Charge(Needs[e])
  /\ verdict' = "pass"

Drop(e) ==
  /\ \E b \in Needs[e] : ~Payable(b)
  /\ \E paid \in SUBSET {b \in Needs[e] : Payable(b)} : Charge(paid)
  /\ verdict' = "drop"

Tick ==
  /\ budget' = [b \in Bucket |-> IF budget[b] < Full[b] THEN budget[b] + 1 ELSE Full[b]]
  /\ UNCHANGED verdict

Next ==
  \/ \E e \in Event : Pass(e) \/ Drop(e)
  \/ Tick

Spec == Init /\ [][Next]_<<budget, verdict>>
=============================================================================
