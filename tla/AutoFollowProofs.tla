-------------------------- MODULE AutoFollowProofs --------------------------
(***************************************************************************)
(* Theorems about AutoFollow that hold for every set of fake clients and   *)
(* champions and however many room-states are under way.                   *)
(***************************************************************************)
EXTENDS AutoFollow, FiniteSetTheorems, SequenceTheorems, TLAPS

(***************************************************************************)
(* The invariants                                                          *)
(***************************************************************************)

\* DraftOrchestrator runs one pick at a time, and waits for nothing when it is
\* not running.
OnePickAtATime ==
  /\ \A c \in Fake : InFlight(c, "auto") <=> current = c
  /\ current = Idle => queue = <<>>

\* A client without sockets knows nothing of the room.
TheAbsentForget ==
  \A c \in Fake \ here :
    /\ inbox[c] = <<>> /\ latestRoomState[c] = Nobody
    /\ lifecycle[c] = "lobby" /\ ~autoFollow[c]

\* The room as c will know it when all that is under way to it has landed.
LastWord(c) ==
  IF inbox[c] = <<>> THEN latestRoomState[c] ELSE inbox[c][Len(inbox[c])]

\* Whatever changes on the server is told to everybody.
TheLastWordIsTrue == \A c \in here : LastWord(c) = selected

\* Picks of one client exclude each other, and what is known of one under way.
PickIsSound(c) ==
  /\ InFlight(c, "auto") => lifecycle[c] = "lobby" /\ ~InFlight(c, "hand")
  /\ InFlight(c, "hand") => ~autoFollow[c] /\ c \in here
  /\ \A o \in Origin :
       LET p == pick[c][o]
       IN  /\ p.step # "none" => ended[c] = "no pick"
           /\ p.step \in {"naming", "building"} => p.champ \in Champion
           /\ c \in here /\ p.step \in {"naming", "building"} => championId[c] = p.champ
           /\ c \in here /\ p.step = "building" => selected[c] = p.champ

\* Nobody waits in vain: a follower in the lobby that is not waiting for the
\* orchestrator has yet to look at a room-state, or has seen nobody.
WaitsForSomething(c) ==
  c \in here /\ autoFollow[c] /\ lifecycle[c] = "lobby" /\ ended[c] # "failed" =>
    \/ InFlight(c, "auto") \/ c \in Range(queue)
    \/ inbox[c] # <<>> \/ ~SomeoneElse(c, latestRoomState[c])

\* BelievesTheServer, for one client.
IsAsShown(c) ==
  c \in here /\ (\A o \in Origin : ~InFlight(c, o)) /\ ended[c] # "failed" =>
    /\ selected[c] = championId[c]
    /\ lifecycle[c] = "lobby" <=> championId[c] = NoChampion

IsCareful(c) == PickIsSound(c) /\ WaitsForSomething(c) /\ IsAsShown(c)

\* A client that was dressed by the orchestrator, and is to stay so.
Settled(d) == d \in here /\ ended[d] = "auto"

\* This state of the room shows d as it is.
Shows(state, d) == state[d] = selected[d]

\* Whoever looks at the room, now or later, sees the champions of the settled.
TheSettledAreKnown ==
  \A d \in Fake : Settled(d) =>
    /\ selected[d] \in Champion
    /\ \A c \in here \ {d} :
         /\ latestRoomState[c] = Nobody \/ Shows(latestRoomState[c], d)
         /\ \A state \in Range(inbox[c]) : Shows(state, d)

\* The pick under way avoids them.
TheSettledAreAvoided ==
  \A c \in here, d \in Fake : c # d /\ Settled(d) =>
    LET p == pick[c]["auto"]
    IN  /\ p.step = "choosing" => selected[d] \in p.avoid
        /\ p.step \in {"naming", "building"} => p.champ # selected[d]

TheSettledDiffer ==
  \A c, d \in Fake : c # d /\ Settled(c) /\ Settled(d) => selected[c] # selected[d]

\* What holds of every run.
SafeInv == TypeOK /\ OnePickAtATime /\ TheAbsentForget /\ TheLastWordIsTrue

\* What holds if the operator leaves followers alone.
CarefulInv == SafeInv /\ \A c \in Fake : IsCareful(c)

\* And what holds if room-states are faster than Community Dragon.
FollowInv ==
  CarefulInv /\ TheSettledAreKnown /\ TheSettledAreAvoided /\ TheSettledDiffer

(***************************************************************************)
(* Sequences: queues of clients and room-states under way                  *)
(***************************************************************************)

\* An order of the clients of a set is a queue of them, each once.
LEMMA OrderIsAQueue ==
  ASSUME NEW S \in SUBSET Fake, NEW order \in Orders(S)
  PROVE  order \in Seq(Fake) /\ IsInjective(order) /\ Range(order) = S
<1>1. IsFiniteSet(S)
  BY SimulatorAssumption, FS_Subset
<1>2. Cardinality(S) \in Nat
  BY <1>1, FS_CardinalityType
<1>3. /\ order \in [1..Cardinality(S) -> S] /\ IsInjective(order)
      /\ \A c \in S : \E i \in 1..Cardinality(S) : order[i] = c
  BY DEF Orders, Bijection, Injection, Surjection
<1>4. Range(order) = S
  BY <1>3 DEF Range
<1>5. order \in [1..Cardinality(S) -> Fake]
  BY <1>3
<1>6. order \in Seq(Fake)
  BY <1>2, <1>5, SeqDef
<1> QED BY <1>3, <1>4, <1>6

\* Newcomers are queued after those who wait.
LEMMA QueueAppended ==
  ASSUME NEW q \in Seq(Fake), NEW order \in Seq(Fake),
         IsInjective(q), IsInjective(order), Range(q) \cap Range(order) = {}
  PROVE  /\ q \o order \in Seq(Fake) /\ IsInjective(q \o order)
         /\ Range(q \o order) = Range(q) \cup Range(order)
<1> DEFINE m == Len(q)
           n == Len(order)
           all == q \o order
<1>1. /\ m \in Nat /\ n \in Nat /\ DOMAIN q = 1..m /\ DOMAIN order = 1..n
      /\ all \in Seq(Fake) /\ DOMAIN all = 1..(m + n)
      /\ \A i \in 1..(m + n) : all[i] = IF i <= m THEN q[i] ELSE order[i - m]
  BY ConcatProperties, LenProperties
<1>2. ASSUME NEW i \in 1..(m + n), NEW j \in 1..(m + n), all[i] = all[j]
      PROVE  i = j
  <2> HIDE DEF all, m, n
  <2>1. CASE i <= m /\ j <= m
    <3>1. i \in 1..m /\ j \in 1..m /\ q[i] = q[j]
      BY <1>1, <1>2, <2>1
    <3> QED BY <1>1, <3>1 DEF IsInjective
  <2>2. CASE ~(i <= m) /\ ~(j <= m)
    <3>1. i - m \in 1..n /\ j - m \in 1..n /\ order[i - m] = order[j - m]
      BY <1>1, <1>2, <2>2
    <3>2. i - m = j - m
      BY <1>1, <3>1 DEF IsInjective
    <3> QED BY <1>1, <3>2
  <2>3. \A k, l \in 1..(m + n) : ~(k <= m /\ ~(l <= m) /\ all[k] = all[l])
    <3> SUFFICES ASSUME NEW k \in 1..(m + n), NEW l \in 1..(m + n),
                        k <= m, ~(l <= m), all[k] = all[l]
                 PROVE  FALSE
      OBVIOUS
    <3>1. k \in 1..m /\ l - m \in 1..n /\ q[k] = order[l - m]
      BY <1>1
    <3> QED BY <1>1, <3>1 DEF Range
  <2> QED BY <1>2, <2>1, <2>2, <2>3
<1>3. Range(all) = Range(q) \cup Range(order)
  BY RangeConcatenation
<1> HIDE DEF all
<1>4. IsInjective(all)
  BY <1>1, <1>2 DEF IsInjective
<1> QED BY <1>1, <1>3, <1>4 DEF all

\* The queue from some place on.
LEMMA QueueFrom ==
  ASSUME NEW q \in Seq(Fake), IsInjective(q), NEW i \in DOMAIN q
  PROVE  LET rest == SubSeq(q, i + 1, Len(q))
         IN  /\ rest \in Seq(Fake) /\ IsInjective(rest)
             /\ Range(rest) = {q[k] : k \in {j \in DOMAIN q : i < j}}
<1> DEFINE n == Len(q)
           rest == SubSeq(q, i + 1, n)
<1>1. /\ n \in Nat /\ DOMAIN q = 1..n /\ i \in 1..n
      /\ \A k \in 1..n : q[k] \in Fake
  BY LenProperties, ElementOfSeq
<1>2. /\ rest \in Seq(Fake)
      /\ Len(rest) = n - i
      /\ \A k \in 1..(n - i) : rest[k] = q[i + k]
  <2>1. i + 1 \in Int /\ n \in Int /\ \A k \in (i + 1)..n : q[k] \in Fake
    BY <1>1
  <2>2. /\ rest \in Seq(Fake)
        /\ Len(rest) = IF i + 1 <= n THEN n - (i + 1) + 1 ELSE 0
        /\ \A k \in 1..(n - (i + 1) + 1) : rest[k] = q[(i + 1) + k - 1]
    <3> HIDE DEF n
    <3> QED BY <2>1, SubSeqProperties
  <2> HIDE DEF rest, n
  <2>3. Len(rest) = n - i
    BY <1>1, <2>2
  <2>4. n - (i + 1) + 1 = n - i /\ \A k \in 1..(n - i) : (i + 1) + k - 1 = i + k
    BY <1>1
  <2> QED BY <2>2, <2>3, <2>4
<1>3. DOMAIN rest = 1..(n - i)
  BY <1>2, LenProperties
<1> HIDE DEF n, rest
<1>4. IsInjective(rest)
  <2> SUFFICES ASSUME NEW a \in 1..(n - i), NEW b \in 1..(n - i), rest[a] = rest[b]
               PROVE  a = b
    BY <1>3 DEF IsInjective
  <2>1. i + a \in 1..n /\ i + b \in 1..n /\ q[i + a] = q[i + b]
    BY <1>1, <1>2
  <2>2. i + a = i + b
    BY <1>1, <2>1 DEF IsInjective
  <2> QED BY <1>1, <2>2
<1>5. Range(rest) = {q[k] : k \in {j \in DOMAIN q : i < j}}
  <2>1. \A a \in 1..(n - i) : i + a \in 1..n /\ i < i + a
    BY <1>1
  <2>2. \A k \in 1..n : i < k => k - i \in 1..(n - i) /\ i + (k - i) = k
    BY <1>1
  <2> QED BY <1>1, <1>2, <1>3, <2>1, <2>2 DEF Range
<1> QED BY <1>2, <1>4, <1>5 DEF rest, n

\* The first message is taken.
LEMMA InboxTail ==
  ASSUME NEW S, NEW s \in Seq(S), s # <<>>
  PROVE  /\ Head(s) \in Range(s) /\ Head(s) \in S
         /\ Tail(s) \in Seq(S) /\ Range(Tail(s)) \subseteq Range(s)
         /\ Tail(s) = <<>> => Head(s) = s[Len(s)]
         /\ Tail(s) # <<>> => Tail(s)[Len(Tail(s))] = s[Len(s)]
<1>1. /\ Len(s) \in Nat \ {0} /\ DOMAIN s = 1..Len(s)
      /\ Head(s) \in S /\ Head(s) = s[1]
      /\ Tail(s) \in Seq(S) /\ Len(Tail(s)) = Len(s) - 1
      /\ DOMAIN Tail(s) = 1..Len(Tail(s))
      /\ \A i \in 1..Len(Tail(s)) : Tail(s)[i] = s[i + 1]
  BY HeadTailProperties, EmptySeq, LenProperties
<1>2. Head(s) \in Range(s)
  BY <1>1 DEF Range
<1>3. Range(Tail(s)) \subseteq Range(s)
  <2>1. \A i \in 1..Len(Tail(s)) : i + 1 \in 1..Len(s)
    BY <1>1
  <2> QED BY <1>1, <2>1 DEF Range
<1>4. Tail(s) = <<>> => Head(s) = s[Len(s)]
  <2>1. Tail(s) = <<>> => Len(Tail(s)) = 0
    BY EmptySeq
  <2>2. Tail(s) = <<>> => Len(s) = 1
    BY <1>1, <2>1
  <2> QED BY <1>1, <2>2
<1>5. Tail(s) # <<>> => Tail(s)[Len(Tail(s))] = s[Len(s)]
  <2>1. Tail(s) # <<>> => Len(Tail(s)) \in Nat \ {0}
    BY <1>1, EmptySeq
  <2>2. Tail(s) # <<>> => Len(Tail(s)) \in 1..Len(Tail(s)) /\ Len(Tail(s)) + 1 = Len(s)
    BY <1>1, <2>1
  <2> QED BY <1>1, <2>2
<1> QED BY <1>1, <1>2, <1>3, <1>4, <1>5

\* Messages are sent after those under way.
LEMMA InboxAppended ==
  ASSUME NEW S, NEW s \in Seq(S), NEW more \in Seq(S)
  PROVE  /\ s \o more \in Seq(S) /\ Range(s \o more) = Range(s) \cup Range(more)
         /\ more = <<>> => s \o more = s
         /\ more # <<>> => /\ s \o more # <<>>
                           /\ (s \o more)[Len(s \o more)] = more[Len(more)]
<1>1. /\ s \o more \in Seq(S) /\ Range(s \o more) = Range(s) \cup Range(more)
      /\ more = <<>> => s \o more = s
  BY ConcatProperties, RangeConcatenation, ConcatEmptySeq
<1>2. ASSUME more # <<>>
      PROVE  s \o more # <<>> /\ (s \o more)[Len(s \o more)] = more[Len(more)]
  <2>1. Len(s) \in Nat /\ Len(more) \in Nat \ {0} /\ Len(s \o more) = Len(s) + Len(more)
    BY <1>2, LenProperties, EmptySeq, ConcatProperties
  <2>2. s \o more # <<>>
    BY <1>2, ConcatEqualIffEmpty
  <2>3. (s \o more)[Len(s) + Len(more)] = more[Len(s) + Len(more) - Len(s)]
    <3>1. Len(s) + Len(more) \in 1..(Len(s) + Len(more)) /\ ~(Len(s) + Len(more) <= Len(s))
      BY <2>1
    <3> QED BY <3>1, ConcatProperties
  <2>4. Len(s) + Len(more) - Len(s) = Len(more)
    BY <2>1
  <2> QED BY <2>1, <2>2, <2>3, <2>4
<1> QED BY <1>1, <1>2

(***************************************************************************)
(* Room-states on their way                                                *)
(***************************************************************************)

\* A message of one state.
LEMMA OneState ==
  ASSUME NEW state \in Snapshot
  PROVE  /\ <<state>> \in Seq(Snapshot) /\ <<state>> # <<>>
         /\ Range(<<state>>) = {state} /\ <<state>>[Len(<<state>>)] = state
<1>1. <<state>> \in Seq(Snapshot) /\ Len(<<state>>) = 1 /\ <<state>>[1] = state
  OBVIOUS
<1>2. DOMAIN <<state>> = 1..1
  BY <1>1, LenProperties
<1>3. Range(<<state>>) = {state}
  BY <1>1, <1>2 DEF Range
<1> QED BY <1>1, <1>3, EmptySeq

\* What is sent reaches those who are present, after what is under way.
LEMMA Sent ==
  ASSUME TypeOK, NEW states \in Seq(Snapshot), NEW present, Send(states, present)
  PROVE  /\ inbox' \in [Fake -> Seq(Snapshot)]
         /\ \A c \in Fake :
              /\ c \notin present => inbox'[c] = <<>>
              /\ c \in present =>
                   /\ Range(inbox'[c]) = Range(inbox[c]) \cup Range(states)
                   /\ states = <<>> => inbox'[c] = inbox[c]
                   /\ states # <<>> =>
                        /\ inbox'[c] # <<>>
                        /\ inbox'[c][Len(inbox'[c])] = states[Len(states)]
<1>1. \A c \in Fake : inbox[c] \in Seq(Snapshot)
  BY DEF TypeOK
<1>2. \A c \in Fake : inbox'[c] = IF c \in present THEN inbox[c] \o states ELSE <<>>
  BY DEF Send
<1>3. \A c \in Fake : inbox[c] \o states \in Seq(Snapshot)
  BY <1>1, InboxAppended
<1>4. inbox' \in [Fake -> Seq(Snapshot)]
  <2>1. <<>> \in Seq(Snapshot)
    BY EmptySeq
  <2> QED BY <1>3, <2>1 DEF Send
<1>5. ASSUME NEW c \in Fake, c \in present
      PROVE  /\ Range(inbox'[c]) = Range(inbox[c]) \cup Range(states)
             /\ states = <<>> => inbox'[c] = inbox[c]
             /\ states # <<>> =>
                  /\ inbox'[c] # <<>>
                  /\ inbox'[c][Len(inbox'[c])] = states[Len(states)]
  <2>1. inbox'[c] = inbox[c] \o states
    BY <1>2, <1>5
  <2> QED BY <1>1, <2>1, InboxAppended
<1> QED BY <1>2, <1>4, <1>5

\* The server broadcasts its champions.
SentSelected(present) ==
  /\ inbox' \in [Fake -> Seq(Snapshot)]
  /\ \A c \in Fake :
       /\ c \notin present => inbox'[c] = <<>>
       /\ c \in present =>
            /\ inbox'[c] # <<>>
            /\ inbox'[c][Len(inbox'[c])] = selected'
            /\ \A state \in Range(inbox'[c]) :
                 state \in Range(inbox[c]) \/ state = selected'

LEMMA SelectedSent ==
  ASSUME TypeOK, NEW present, selected' \in Snapshot, Send(<<selected'>>, present)
  PROVE  SentSelected(present)
<1> DEFINE state == selected'
           states == <<state>>
<1>1. /\ states \in Seq(Snapshot) /\ states # <<>>
      /\ Range(states) = {state} /\ states[Len(states)] = state
  <2>1. state \in Snapshot
    OBVIOUS
  <2> HIDE DEF state
  <2> QED BY <2>1, OneState
<1>2. Send(states, present)
  OBVIOUS
<1> HIDE DEF states
<1>3. /\ inbox' \in [Fake -> Seq(Snapshot)]
      /\ \A c \in Fake :
           /\ c \notin present => inbox'[c] = <<>>
           /\ c \in present =>
                /\ Range(inbox'[c]) = Range(inbox[c]) \cup Range(states)
                /\ states = <<>> => inbox'[c] = inbox[c]
                /\ states # <<>> =>
                     /\ inbox'[c] # <<>>
                     /\ inbox'[c][Len(inbox'[c])] = states[Len(states)]
  BY <1>1, <1>2, Sent
<1> QED BY <1>1, <1>3 DEF SentSelected

\* The server stores a champion.
LEMMA Selected ==
  ASSUME TypeOK, NEW m \in Client, NEW x \in Choice, Select(m, x)
  PROVE  /\ selected' \in Snapshot /\ selected'[m] = x
         /\ \A n \in Client \ {m} : selected'[n] = selected[n]
         /\ SentSelected(here)
<1>1. /\ selected' \in Snapshot /\ selected'[m] = x
      /\ \A n \in Client \ {m} : selected'[n] = selected[n]
  BY DEF TypeOK, Snapshot, Select
<1> QED BY <1>1, SelectedSent DEF Select

\* Several clients go back to the lobby one after the other, each with a
\* room-state of its own.
LEMMA LobbySent ==
  ASSUME TypeOK, NEW S \in SUBSET Fake, BackToLobby(S)
  PROVE  /\ inbox' \in [Fake -> Seq(Snapshot)]
         /\ selected' = [m \in Client |-> IF m \in S THEN NoChampion ELSE selected[m]]
         /\ \A c \in Fake :
              /\ c \notin here => inbox'[c] = <<>>
              /\ c \in here =>
                   /\ inbox'[c] # <<>>
                   /\ inbox'[c][Len(inbox'[c])] = selected'
                   /\ \A state \in Range(inbox'[c]) :
                        \/ state \in Range(inbox[c])
                        \/ \A m \in Client \ S : state[m] = selected[m]
<1> DEFINE n == Cardinality(S)
<1>1. n \in Nat /\ n # 0
  <2>1. IsFiniteSet(S)
    BY SimulatorAssumption, FS_Subset
  <2>2. S # {}
    BY DEF BackToLobby
  <2> QED BY <2>1, <2>2, FS_CardinalityType, FS_EmptySet
<1>2. PICK order \in Orders(S) :
        LET Without(k) == [m \in Client |->
              IF \E i \in 1..k : order[i] = m THEN NoChampion ELSE selected[m]]
        IN  /\ selected' = Without(n)
            /\ Send([k \in 1..n |-> Without(k)], here)
  BY DEF BackToLobby
<1> DEFINE Without(k) == [m \in Client |->
             IF \E i \in 1..k : order[i] = m THEN NoChampion ELSE selected[m]]
           states == [k \in 1..n |-> Without(k)]
<1>3. selected' = Without(n) /\ Send(states, here)
  BY <1>2
<1>4. order \in [1..n -> S] /\ \A c \in S : \E i \in 1..n : order[i] = c
  BY DEF Orders, Bijection, Injection, Surjection
<1> HIDE DEF n
<1>5. selected' = [m \in Client |-> IF m \in S THEN NoChampion ELSE selected[m]]
  BY <1>3, <1>4
<1>6. \A k \in 1..n : Without(k) \in Snapshot /\ \A m \in Client \ S : Without(k)[m] = selected[m]
  <2> TAKE k \in 1..n
  <2>1. \A m \in Client : selected[m] \in Choice
    BY DEF TypeOK, Snapshot
  <2>2. Without(k) \in Snapshot
    BY <2>1 DEF Snapshot, Choice
  <2>3. \A i \in 1..k : order[i] \in S
    BY <1>1, <1>4
  <2> QED BY <2>2, <2>3
<1>7. /\ states \in Seq(Snapshot) /\ Len(states) = n /\ states # <<>>
      /\ states[n] = selected'
      /\ \A state \in Range(states) : \A m \in Client \ S : state[m] = selected[m]
  <2>1. states \in [1..n -> Snapshot]
    BY <1>6
  <2>2. states \in Seq(Snapshot)
    <3> HIDE DEF states
    <3> QED BY <1>1, <2>1, SeqDef
  <2>3. DOMAIN states = 1..n
    OBVIOUS
  <2>4. Len(states) = n
    <3> HIDE DEF states
    <3> QED BY <1>1, <2>2, <2>3, LenProperties
  <2>5. states # <<>>
    <3> HIDE DEF states
    <3> QED BY <1>1, <2>4, EmptySeq
  <2>6. states[n] = selected'
    BY <1>1, <1>3
  <2>7. \A state \in Range(states) : \A m \in Client \ S : state[m] = selected[m]
    <3>1. \A state \in Range(states) : \E k \in 1..n : state = Without(k)
      BY DEF Range
    <3> HIDE DEF Without, states
    <3> QED BY <1>6, <3>1
  <2> QED BY <2>2, <2>4, <2>5, <2>6, <2>7
<1> HIDE DEF states, Without
<1>8. /\ inbox' \in [Fake -> Seq(Snapshot)]
      /\ \A c \in Fake :
           /\ c \notin here => inbox'[c] = <<>>
           /\ c \in here =>
                /\ Range(inbox'[c]) = Range(inbox[c]) \cup Range(states)
                /\ states = <<>> => inbox'[c] = inbox[c]
                /\ states # <<>> =>
                     /\ inbox'[c] # <<>>
                     /\ inbox'[c][Len(inbox'[c])] = states[Len(states)]
  BY <1>3, <1>7, Sent
<1> QED BY <1>5, <1>7, <1>8

(***************************************************************************)
(* The orchestrator                                                        *)
(***************************************************************************)

\* What a step of the orchestrator does when the clients of W are to be looked
\* at: each is still queued, or is picking now, or has nothing to pick for.
Orchestrated(W) ==
  /\ queue' \in Seq(Fake) /\ IsInjective(queue')
  /\ \A c \in W : c \in Range(queue') \/ current' = c \/ ~StillDue(c)
  /\ \/ /\ current' = current \/ (current = Resting /\ current' = Idle)
        /\ current' = Idle => queue' = <<>>
        /\ UNCHANGED pickVars
     \/ /\ current \notin Fake
        /\ \E c \in Fake : current' = c /\ StillDue(c) /\ Begin(c)

\* The loop, entered with the clients of q in the queue.
LEMMA QueueRuns ==
  ASSUME NEW q \in Seq(Fake), IsInjective(q), RunQueue(q),
         current \in {Idle, Resting}
  PROVE  Orchestrated(Range(q))
<1> DEFINE due == {i \in DOMAIN q : StillDue(q[i])}
<1>1. CASE due = {}
  <2>1. queue' = <<>> /\ current' = Idle /\ UNCHANGED pickVars
    BY <1>1 DEF RunQueue
  <2>2. <<>> \in Seq(Fake) /\ IsInjective(<<>>)
    BY EmptySeq DEF IsInjective
  <2>3. \A c \in Range(q) : ~StillDue(c)
    BY <1>1 DEF Range
  <2> QED BY <2>1, <2>2, <2>3 DEF Orchestrated
<1>2. CASE due # {}
  <2>1. PICK i \in due : /\ \A k \in due : i <= k
                         /\ queue' = SubSeq(q, i + 1, Len(q))
                         /\ current' = q[i]
                         /\ Begin(q[i])
    BY <1>2 DEF RunQueue
  <2>2. i \in DOMAIN q /\ StillDue(q[i]) /\ q[i] \in Fake
    BY LenProperties, ElementOfSeq
  <2>3. /\ queue' \in Seq(Fake) /\ IsInjective(queue')
        /\ Range(queue') = {q[k] : k \in {j \in DOMAIN q : i < j}}
    BY <2>1, <2>2, QueueFrom
  <2>4. ASSUME NEW c \in Range(q)
        PROVE  c \in Range(queue') \/ current' = c \/ ~StillDue(c)
    <3>1. PICK k \in DOMAIN q : c = q[k]
      BY DEF Range
    <3>2. i \in Nat /\ k \in Nat
      BY <2>2, LenProperties
    <3>3. CASE i < k
      BY <2>3, <3>1, <3>3
    <3>4. CASE i = k
      BY <2>1, <3>1, <3>4
    <3>5. CASE k < i
      <4>1. k \notin due
        BY <2>1, <3>2, <3>5
      <4> QED BY <3>1, <4>1
    <3> QED BY <3>2, <3>3, <3>4, <3>5
  <2>5. current \notin Fake
    BY SimulatorAssumption
  <2> QED BY <2>1, <2>2, <2>3, <2>4, <2>5 DEF Orchestrated
<1> QED BY <1>1, <1>2

\* Requests for the clients of S, while others may be queued.
LEMMA Requested ==
  ASSUME TypeOK, OnePickAtATime, NEW S \in SUBSET Fake, Request(S)
  PROVE  Orchestrated(S \cup Range(queue))
<1> DEFINE new == S \ Range(queue)
<1>1. queue \in Seq(Fake) /\ IsInjective(queue) /\ current \in Fake \cup {Idle, Resting}
  BY DEF TypeOK
<1>2. CASE new = {}
  <2>1. UNCHANGED <<pickVars, queueVars>>
    BY <1>2 DEF Request
  <2> QED BY <1>1, <1>2, <2>1 DEF Orchestrated, OnePickAtATime, queueVars
<1>3. CASE new # {}
  <2>1. PICK order \in Orders(new) :
          IF current = Idle THEN RunQueue(order)
          ELSE queue' = queue \o order /\ UNCHANGED <<current, pickVars>>
    BY <1>3 DEF Request
  <2>2. order \in Seq(Fake) /\ IsInjective(order) /\ Range(order) = new
    BY OrderIsAQueue
  <2>3. CASE current = Idle
    <3>1. Orchestrated(Range(order))
      BY <2>1, <2>2, <2>3, QueueRuns
    <3>2. Range(queue) = {}
      <4>1. queue = <<>>
        BY <2>3 DEF OnePickAtATime
      <4>2. DOMAIN queue = {}
        BY <1>1, <4>1, LenProperties, EmptySeq
      <4> QED BY <4>2 DEF Range
    <3>3. Range(order) = S \cup Range(queue)
      BY <2>2, <3>2
    <3> QED BY <3>1, <3>3
  <2>4. CASE current # Idle
    <3>1. queue' = queue \o order /\ UNCHANGED <<current, pickVars>>
      BY <2>1, <2>4
    <3>2. Range(queue) \cap Range(order) = {}
      BY <2>2
    <3>3. /\ queue' \in Seq(Fake) /\ IsInjective(queue')
          /\ Range(queue') = Range(queue) \cup Range(order)
      BY <1>1, <2>2, <3>1, <3>2, QueueAppended
    <3> QED BY <2>2, <2>4, <3>1, <3>3 DEF Orchestrated
  <2> QED BY <2>3, <2>4
<1> QED BY <1>2, <1>3

\* The types after a step of the orchestrator, which begins one pick at most.
LEMMA OrchestratedTypes ==
  ASSUME TypeOK, OnePickAtATime, latestRoomState' \in [Fake -> Snapshot],
         NEW W, Orchestrated(W)
  PROVE  /\ queue' \in Seq(Fake) /\ IsInjective(queue')
         /\ current' \in Fake \cup {Idle, Resting}
         /\ pick' \in [Fake -> [Origin -> Pick]]
         /\ ended' \in [Fake -> Origin \cup {"no pick", "failed"}]
         /\ OnePickAtATime'
<1>1. /\ pick \in [Fake -> [Origin -> Pick]] /\ current \in Fake \cup {Idle, Resting}
      /\ ended \in [Fake -> Origin \cup {"no pick", "failed"}]
  BY DEF TypeOK
<1>2. queue' \in Seq(Fake) /\ IsInjective(queue')
  BY DEF Orchestrated
<1>3. CASE /\ current' = current \/ (current = Resting /\ current' = Idle)
           /\ current' = Idle => queue' = <<>>
           /\ UNCHANGED pickVars
  <2>1. OnePickAtATime'
    BY <1>3, SimulatorAssumption DEF OnePickAtATime, InFlight, pickVars
  <2> QED BY <1>1, <1>2, <1>3, <2>1 DEF pickVars
<1>4. CASE current \notin Fake /\ \E c \in Fake : current' = c /\ StillDue(c) /\ Begin(c)
  <2>1. PICK c \in Fake : current' = c /\ Begin(c)
    BY <1>4
  <2>2. Taken(c, latestRoomState'[c]) \in SUBSET Champion
    <3>1. latestRoomState'[c] \in Snapshot
      OBVIOUS
    <3> QED BY <3>1 DEF Taken, Snapshot, Choice
  <2>3. pick' = [pick EXCEPT ![c]["auto"] =
                   [step |-> "choosing", champ |-> NoChampion,
                    avoid |-> Taken(c, latestRoomState'[c])]]
    BY <2>1 DEF Begin
  <2>4. [step |-> "choosing", champ |-> NoChampion,
         avoid |-> Taken(c, latestRoomState'[c])] \in Pick
    BY <2>2 DEF Pick, Choice
  <2>5. pick' \in [Fake -> [Origin -> Pick]]
    <3> HIDE DEF Pick
    <3> QED BY <1>1, <2>3, <2>4 DEF Origin
  <2>6. ended' \in [Fake -> Origin \cup {"no pick", "failed"}]
    BY <1>1, <2>1 DEF Begin
  <2>7. /\ pick'[c]["auto"].step = "choosing"
        /\ \A d \in Fake \ {c} : pick'[d] = pick[d]
    BY <1>1, <2>3 DEF Origin
  <2>8. \A d \in Fake : InFlight(d, "auto")' <=> current' = d
    BY <1>4, <2>1, <2>7 DEF OnePickAtATime, InFlight
  <2>9. current' # Idle
    BY <2>1, SimulatorAssumption
  <2>10. OnePickAtATime'
    BY <2>8, <2>9 DEF OnePickAtATime
  <2> QED BY <1>2, <2>1, <2>5, <2>6, <2>10
<1> QED BY <1>3, <1>4 DEF Orchestrated

\* A pick ends.
LEMMA PickOver ==
  ASSUME TypeOK, OnePickAtATime, NEW c \in Fake, NEW o \in Origin,
         NEW how \in Origin \cup {"failed"}, InFlight(c, o), Over(c, o, how)
  PROVE  /\ UNCHANGED queue /\ current' \in Fake \cup {Idle, Resting}
         /\ pick' \in [Fake -> [Origin -> Pick]]
         /\ ended' \in [Fake -> Origin \cup {"no pick", "failed"}]
         /\ pick'[c][o] = NoPick
         /\ \A d \in Fake, p \in Origin :
              d # c \/ p # o => pick'[d][p] = pick[d][p]
         /\ ended'[c] = how /\ \A d \in Fake \ {c} : ended'[d] = ended[d]
         /\ OnePickAtATime'
<1>1. /\ pick \in [Fake -> [Origin -> Pick]] /\ current \in Fake \cup {Idle, Resting}
      /\ ended \in [Fake -> Origin \cup {"no pick", "failed"}]
  BY DEF TypeOK
<1>2. /\ pick' = [pick EXCEPT ![c][o] = NoPick] /\ UNCHANGED queue
      /\ ended' = [ended EXCEPT ![c] = how]
      /\ current' = IF o = "hand" THEN current
                    ELSE IF queue = <<>> THEN Idle ELSE Resting
  BY DEF Over
<1>3. NoPick \in Pick
  BY DEF NoPick, Pick, Choice
<1>4. /\ pick' \in [Fake -> [Origin -> Pick]]
      /\ pick'[c][o] = NoPick
      /\ \A d \in Fake, p \in Origin : d # c \/ p # o => pick'[d][p] = pick[d][p]
  <2> HIDE DEF Pick, NoPick
  <2> QED BY <1>1, <1>2, <1>3
<1>5. /\ ended' \in [Fake -> Origin \cup {"no pick", "failed"}]
      /\ ended'[c] = how /\ \A d \in Fake \ {c} : ended'[d] = ended[d]
  BY <1>1, <1>2
<1>6. current' \in Fake \cup {Idle, Resting}
  BY <1>1, <1>2
<1>7. OnePickAtATime'
  <2>1. CASE o = "hand"
    <3>1. \A d \in Fake : pick'[d]["auto"] = pick[d]["auto"]
      BY <1>4, <2>1 DEF Origin
    <3> QED BY <1>2, <2>1, <3>1 DEF OnePickAtATime, InFlight
  <2>2. CASE o = "auto"
    <3>1. current = c
      BY <2>2 DEF OnePickAtATime
    <3>2. current' \in {Idle, Resting} /\ (current' = Idle => queue' = <<>>)
      BY <1>2, <2>2, SimulatorAssumption
    <3>3. \A d \in Fake : ~InFlight(d, "auto")'
      <4>1. ~InFlight(c, "auto")'
        BY <1>4, <2>2 DEF InFlight, NoPick
      <4>2. \A d \in Fake \ {c} : ~InFlight(d, "auto") /\ pick'[d]["auto"] = pick[d]["auto"]
        BY <1>4, <3>1 DEF OnePickAtATime, Origin
      <4> QED BY <4>1, <4>2 DEF InFlight
    <3> QED BY <3>2, <3>3, SimulatorAssumption DEF OnePickAtATime
  <2> QED BY <2>1, <2>2 DEF Origin
<1> QED BY <1>2, <1>4, <1>5, <1>6, <1>7

\* update-selection is out, and the options are being built.
Announced(c, o) == pick' = [pick EXCEPT ![c][o].step = "building"]

LEMMA PickAnnounced ==
  ASSUME TypeOK, NEW c \in Fake, NEW o \in Origin, Announced(c, o)
  PROVE  /\ pick' \in [Fake -> [Origin -> Pick]]
         /\ pick'[c][o].step = "building" /\ pick'[c][o].champ = pick[c][o].champ
         /\ \A d \in Fake, p \in Origin : d # c \/ p # o => pick'[d][p] = pick[d][p]
<1> DEFINE p == [pick[c][o] EXCEPT !.step = "building"]
<1>1. pick \in [Fake -> [Origin -> Pick]] /\ pick[c][o] \in Pick
  BY DEF TypeOK
<1>2. p \in Pick /\ p.step = "building" /\ p.champ = pick[c][o].champ
  BY <1>1 DEF Pick
<1>3. pick' = [pick EXCEPT ![c] = [pick[c] EXCEPT ![o] = p]]
  BY <1>1 DEF Announced
<1> HIDE DEF p, Pick
<1>4. pick'[c][o] = p /\ pick' \in [Fake -> [Origin -> Pick]]
  BY <1>1, <1>2, <1>3
<1>5. \A d \in Fake, q \in Origin : d # c \/ q # o => pick'[d][q] = pick[d][q]
  BY <1>1, <1>3
<1> QED BY <1>2, <1>4, <1>5

(***************************************************************************)
(* Every step                                                              *)
(***************************************************************************)

\* The operator starts these picks by hand.
ByHand(picks) ==
  /\ Command /\ StartByHand(picks)
  /\ \E D \in SUBSET Drivable : picks \in [D -> Champion]

\* The commands of the menu come down to a few.
LEMMA StepCases ==
  ASSUME TypeOK, [Next]_vars
  PROVE  \/ \E x \in Choice : PlayerSelects(x)
         \/ \E c \in Fake : Swept(c)
         \/ \E c \in Fake : Deliver(c)
         \/ \E c \in Fake : Choose(c)
         \/ \E c \in Fake, o \in Origin : Announce(c, o)
         \/ \E c \in Fake, o \in Origin : Finish(c, o)
         \/ \E c \in Fake, o \in Origin : Fail(c, o)
         \/ WakeUp
         \/ \E c \in Fake : Spawn(c)
         \/ \E c \in Fake : Quit(c)
         \/ \E c \in Fake : Drop(c)
         \/ \E S \in SUBSET Fake, enabled \in BOOLEAN :
              S \subseteq here /\ SetAutoFollow(S, enabled)
         \/ \E picks : ByHand(picks)
         \/ \E S \in SUBSET Fake : BackToLobby(S)
         \/ UNCHANGED vars
<1> DEFINE Goal == \/ \E x \in Choice : PlayerSelects(x)
                   \/ \E c \in Fake : Swept(c)
                   \/ \E c \in Fake : Deliver(c)
                   \/ \E c \in Fake : Choose(c)
                   \/ \E c \in Fake, o \in Origin : Announce(c, o)
                   \/ \E c \in Fake, o \in Origin : Finish(c, o)
                   \/ \E c \in Fake, o \in Origin : Fail(c, o)
                   \/ WakeUp
                   \/ \E c \in Fake : Spawn(c)
                   \/ \E c \in Fake : Quit(c)
                   \/ \E c \in Fake : Drop(c)
                   \/ \E S \in SUBSET Fake, enabled \in BOOLEAN :
                        S \subseteq here /\ SetAutoFollow(S, enabled)
                   \/ \E picks : ByHand(picks)
                   \/ \E S \in SUBSET Fake : BackToLobby(S)
                   \/ UNCHANGED vars
<1>0. here \subseteq Fake
  BY DEF TypeOK
<1>1. ASSUME NEW c \in Fake, NEW o \in Origin, Answer(c, o)
      PROVE  Goal
  BY <1>1 DEF Answer
<1>2. ASSUME NEW c \in Fake, NEW x \in Champion, PickByHand(c, x)
      PROVE  \E picks : ByHand(picks)
  <2> DEFINE picks == [d \in {c} |-> x]
  <2>1. Command /\ c \in Drivable /\ StartByHand(picks)
    BY <1>2 DEF PickByHand
  <2>2. picks \in [{c} -> Champion] /\ {c} \in SUBSET Drivable
    BY <2>1
  <2> HIDE DEF picks
  <2> QED BY <2>1, <2>2 DEF ByHand
<1>3. ASSUME AutoDraftAll
      PROVE  \E picks : ByHand(picks)
  <2> DEFINE lobby == {c \in here : lifecycle[c] = "lobby"}
             free  == Themed \ {championId[c] : c \in here \ lobby}
  <2>1. /\ Command /\ lobby \subseteq Drivable
        /\ \E target \in Choice : \E picks \in OptimalPicks(lobby, free \ {target}) :
             StartByHand(picks)
    BY <1>3 DEF AutoDraftAll
  <2>2. PICK target \in Choice : \E picks \in OptimalPicks(lobby, free \ {target}) :
          StartByHand(picks)
    BY <2>1
  <2>3. PICK picks \in OptimalPicks(lobby, free \ {target}) : StartByHand(picks)
    BY <2>2
  <2>4. free \ {target} \subseteq Champion
    BY SimulatorAssumption
  <2> HIDE DEF lobby, free
  <2>5. \E D \in SUBSET lobby : picks \in [D -> free \ {target}]
    BY DEF OptimalPicks, Injection
  <2>6. PICK D \in SUBSET lobby : picks \in [D -> free \ {target}]
    BY <2>5
  <2>7. D \in SUBSET Drivable /\ picks \in [D -> Champion]
    BY <2>1, <2>4, <2>6
  <2> QED BY <2>1, <2>3, <2>7 DEF ByHand
<1>4. ASSUME NEW c \in Fake, PilotClient(c)
      PROVE  Goal
  <2>1. CASE Toggle(c)
    <3>1. {c} \in SUBSET Fake /\ {c} \subseteq here /\ (~autoFollow[c]) \in BOOLEAN
          /\ SetAutoFollow({c}, ~autoFollow[c])
      BY <2>1 DEF Toggle
    <3> QED BY <3>1
  <2>2. CASE BackToLobby({c})
    <3>1. {c} \in SUBSET Fake
      OBVIOUS
    <3> QED BY <2>2, <3>1
  <2> QED BY <1>2, <1>4, <2>1, <2>2 DEF PilotClient
<1>5. ASSUME FollowAll
      PROVE  Goal
  <2>1. here \ InDraft \in SUBSET Fake /\ here \ InDraft \subseteq here
    BY <1>0
  <2> QED BY <1>5, <2>1 DEF FollowAll
<1>6. ASSUME ToggleAll
      PROVE  Goal
  <2> DEFINE lobby == here \ InDraft
  <2>1. SetAutoFollow(lobby, \E c \in lobby : ~autoFollow[c])
    BY <1>6 DEF ToggleAll
  <2>2. lobby \in SUBSET Fake /\ lobby \subseteq here
        /\ (\E c \in lobby : ~autoFollow[c]) \in BOOLEAN
    BY <1>0
  <2> HIDE DEF lobby
  <2> QED BY <2>1, <2>2
<1>7. ASSUME Reset
      PROVE  Goal
  <2>1. InDraft \in SUBSET Fake /\ BackToLobby(InDraft)
    BY <1>0, <1>7 DEF Reset, InDraft
  <2> QED BY <2>1
<1>8. MainMenu => Goal
  BY <1>3, <1>4, <1>5, <1>6, <1>7 DEF MainMenu
<1> QED BY <1>1, <1>8 DEF Next

LEMMA SimulatorInit == Init => SafeInv
<1> SUFFICES ASSUME Init PROVE SafeInv
  OBVIOUS
<1>1. <<>> \in Seq(Fake) /\ <<>> \in Seq(Snapshot) /\ IsInjective(<<>>)
  BY EmptySeq DEF IsInjective
<1>2. Nobody \in Snapshot /\ NoPick \in Pick /\ NoPick.step = "none"
  BY DEF Nobody, Snapshot, Choice, NoPick, Pick
<1>3. TypeOK
  <2> HIDE DEF Snapshot, Pick, NoPick, Nobody
  <2>1. inbox \in [Fake -> Seq(Snapshot)] /\ queue \in Seq(Fake) /\ IsInjective(queue)
    BY <1>1 DEF Init
  <2> QED BY <1>2, <2>1 DEF Init, TypeOK, Choice
<1>4. OnePickAtATime
  BY <1>2, SimulatorAssumption DEF Init, OnePickAtATime, InFlight, Origin
<1>5. TheAbsentForget /\ TheLastWordIsTrue
  BY DEF Init, TheAbsentForget, TheLastWordIsTrue
<1> QED BY <1>3, <1>4, <1>5 DEF SafeInv

\* Typing, and one pick at a time: whatever the operator does, the requests
\* that come in while a pick is under way are queued behind it.
LEMMA TypeNext ==
  ASSUME TypeOK, OnePickAtATime, [Next]_vars
  PROVE  TypeOK' /\ OnePickAtATime'
<1> DEFINE Goal == TypeOK' /\ OnePickAtATime'
<1>0. /\ selected \in Snapshot
      /\ inbox \in [Fake -> Seq(Snapshot)]
      /\ here \subseteq Fake
      /\ latestRoomState \in [Fake -> Snapshot]
      /\ lifecycle \in [Fake -> {"lobby", "in-draft"}]
      /\ championId \in [Fake -> Choice]
      /\ autoFollow \in [Fake -> BOOLEAN]
      /\ pick \in [Fake -> [Origin -> Pick]]
      /\ ended \in [Fake -> Origin \cup {"no pick", "failed"}]
      /\ queue \in Seq(Fake) /\ IsInjective(queue)
      /\ current \in Fake \cup {Idle, Resting}
  BY DEF TypeOK
<1>a. Fake \subseteq Client /\ Player \in Client /\ NoChampion \in Choice /\ Nobody \in Snapshot
  BY DEF Client, Choice, Nobody, Snapshot
<1>b. /\ \A x : x \in Champion => x \in Choice
      /\ \A c \in Fake, o \in Origin : pick[c][o].champ \in Choice
  BY <1>0 DEF Choice, Pick
<1>1. ASSUME NEW x \in Choice, PlayerSelects(x)
      PROVE  Goal
  <2>1. selected' \in Snapshot /\ inbox' \in [Fake -> Seq(Snapshot)]
    BY <1>a, <1>1, Selected DEF PlayerSelects, SentSelected
  <2>2. UNCHANGED <<here, latestRoomState, localVars, pickVars, queueVars>>
    BY <1>1 DEF PlayerSelects
  <2> QED BY <1>0, <2>1, <2>2
      DEF TypeOK, OnePickAtATime, InFlight, localVars, pickVars, queueVars
<1>2. ASSUME NEW c \in Fake, Swept(c)
      PROVE  Goal
  <2>1. selected' \in Snapshot /\ inbox' \in [Fake -> Seq(Snapshot)]
    BY <1>a, <1>2, Selected DEF Swept, SentSelected
  <2>2. UNCHANGED <<here, latestRoomState, localVars, pickVars, queueVars>>
    BY <1>2 DEF Swept
  <2> QED BY <1>0, <2>1, <2>2
      DEF TypeOK, OnePickAtATime, InFlight, localVars, pickVars, queueVars
<1>3. ASSUME NEW c \in Fake, Deliver(c)
      PROVE  Goal
  <2>1. /\ inbox[c] # <<>> /\ UNCHANGED <<selected, here, localVars>>
        /\ latestRoomState' = [latestRoomState EXCEPT ![c] = Head(inbox[c])]
        /\ inbox' = [inbox EXCEPT ![c] = Tail(@)]
    BY <1>3 DEF Deliver
  <2>2. Head(inbox[c]) \in Snapshot /\ Tail(inbox[c]) \in Seq(Snapshot)
    BY <1>0, <2>1, InboxTail
  <2>3. latestRoomState' \in [Fake -> Snapshot] /\ inbox' \in [Fake -> Seq(Snapshot)]
    BY <1>0, <2>1, <2>2
  <2>4. CASE Request({c})
    <3>1. {c} \in SUBSET Fake
      OBVIOUS
    <3>2. Orchestrated({c} \cup Range(queue))
      BY <2>4, <3>1, Requested
    <3> QED BY <1>0, <2>1, <2>3, <3>2, OrchestratedTypes DEF TypeOK, localVars
  <2>5. CASE UNCHANGED <<pickVars, queueVars>>
    BY <1>0, <2>1, <2>3, <2>5
       DEF TypeOK, OnePickAtATime, InFlight, localVars, pickVars, queueVars
  <2> QED BY <1>3, <2>4, <2>5 DEF Deliver
<1>4. ASSUME NEW c \in Fake, Choose(c)
      PROVE  Goal
  <2>1. /\ InFlight(c, "auto") /\ "auto" \in Origin
        /\ UNCHANGED <<roomVars, here, lifecycle, autoFollow>>
    BY <1>4 DEF Choose, InFlight, Origin
  <2>2. CASE (Over(c, "auto", "failed") \/ Over(c, "auto", "auto")) /\ UNCHANGED championId
    BY <1>0, <2>1, <2>2, PickOver DEF TypeOK, roomVars
  <2>3. CASE \E x \in Themed \ pick[c]["auto"].avoid :
               /\ championId' = [championId EXCEPT ![c] = x]
               /\ pick' = [pick EXCEPT ![c]["auto"] =
                    [step |-> "naming", champ |-> x, avoid |-> {}]]
               /\ UNCHANGED <<ended, queueVars>>
    <3>1. PICK x \in Themed :
               /\ championId' = [championId EXCEPT ![c] = x]
               /\ pick' = [pick EXCEPT ![c]["auto"] =
                    [step |-> "naming", champ |-> x, avoid |-> {}]]
               /\ UNCHANGED <<ended, queueVars>>
      BY <2>3
    <3>2. x \in Choice
      BY <1>b, SimulatorAssumption
    <3>3. [step |-> "naming", champ |-> x, avoid |-> {}] \in Pick
      BY <3>2 DEF Pick
    <3>4. /\ pick' \in [Fake -> [Origin -> Pick]]
          /\ pick'[c]["auto"] = [step |-> "naming", champ |-> x, avoid |-> {}]
          /\ \A d \in Fake \ {c} : pick'[d] = pick[d]
      <4> HIDE DEF Pick
      <4> QED BY <1>0, <2>1, <3>1, <3>3
    <3>5. OnePickAtATime'
      BY <2>1, <3>1, <3>4 DEF OnePickAtATime, InFlight, queueVars
    <3>6. championId' \in [Fake -> Choice]
      BY <1>0, <3>1, <3>2
    <3> QED BY <1>0, <2>1, <3>1, <3>4, <3>5, <3>6 DEF TypeOK, roomVars, queueVars
  <2> QED BY <1>4, <2>2, <2>3 DEF Choose
<1>5. ASSUME NEW c \in Fake, NEW o \in Origin, Announce(c, o)
      PROVE  Goal
  <2>1. InFlight(c, o) /\ UNCHANGED <<here, latestRoomState, localVars>>
    BY <1>5 DEF Announce, InFlight
  <2>2. CASE c \in here
    <3>1. /\ Select(c, pick[c][o].champ) /\ UNCHANGED <<ended, queueVars>>
          /\ pick' = [pick EXCEPT ![c][o].step = "building"]
      BY <1>5, <2>2 DEF Announce
    <3>2. selected' \in Snapshot /\ inbox' \in [Fake -> Seq(Snapshot)]
      BY <1>a, <1>b, <3>1, Selected DEF SentSelected
    <3>3. /\ pick' \in [Fake -> [Origin -> Pick]]
          /\ pick'[c][o].step = "building"
          /\ \A d \in Fake, p \in Origin : d # c \/ p # o => pick'[d][p] = pick[d][p]
      <4>1. TypeOK /\ Announced(c, o)
        BY <1>0, <3>1 DEF Announced
      <4> QED BY <4>1, PickAnnounced
    <3>4. OnePickAtATime'
      BY <2>1, <3>1, <3>3 DEF OnePickAtATime, InFlight, queueVars, Origin
    <3> QED BY <1>0, <2>1, <3>1, <3>2, <3>3, <3>4 DEF TypeOK, localVars, queueVars
  <2>3. CASE c \notin here
    <3>1. Over(c, o, "failed") /\ UNCHANGED <<selected, inbox>>
      BY <1>5, <2>3 DEF Announce
    <3> QED BY <1>0, <2>1, <3>1, PickOver DEF TypeOK, localVars
  <2> QED BY <2>2, <2>3
<1>6. ASSUME NEW c \in Fake, NEW o \in Origin, Finish(c, o)
      PROVE  Goal
  <2>1. InFlight(c, o) /\ UNCHANGED <<here, latestRoomState, championId, autoFollow>>
    BY <1>6 DEF Finish, InFlight
  <2>2. CASE c \in here
    <3>1. /\ Select(c, pick[c][o].champ) /\ Over(c, o, o)
          /\ lifecycle' = [lifecycle EXCEPT ![c] = "in-draft"]
      BY <1>6, <2>2 DEF Finish
    <3>2. selected' \in Snapshot /\ inbox' \in [Fake -> Seq(Snapshot)]
      BY <1>a, <1>b, <3>1, Selected DEF SentSelected
    <3>3. lifecycle' \in [Fake -> {"lobby", "in-draft"}]
      BY <1>0, <3>1
    <3> QED BY <1>0, <2>1, <3>1, <3>2, <3>3, PickOver DEF TypeOK
  <2>3. CASE c \notin here
    <3>1. Over(c, o, "failed") /\ UNCHANGED <<selected, inbox, lifecycle>>
      BY <1>6, <2>3 DEF Finish
    <3> QED BY <1>0, <2>1, <3>1, PickOver DEF TypeOK
  <2> QED BY <2>2, <2>3
<1>7. ASSUME NEW c \in Fake, NEW o \in Origin, Fail(c, o)
      PROVE  Goal
  <2>1. InFlight(c, o) /\ Over(c, o, "failed") /\ UNCHANGED <<roomVars, here, localVars>>
    BY <1>7 DEF Fail
  <2> QED BY <1>0, <2>1, PickOver DEF TypeOK, roomVars, localVars
<1>8. ASSUME WakeUp
      PROVE  Goal
  <2>1. current = Resting /\ RunQueue(queue) /\ UNCHANGED <<roomVars, here, localVars>>
    BY <1>8 DEF WakeUp
  <2>2. Orchestrated(Range(queue))
    BY <1>0, <2>1, QueueRuns
  <2>3. latestRoomState' \in [Fake -> Snapshot]
    BY <1>0, <2>1 DEF roomVars
  <2> QED BY <1>0, <2>1, <2>2, <2>3, OrchestratedTypes DEF TypeOK, roomVars, localVars
<1>9. ASSUME NEW c \in Fake, Spawn(c)
      PROVE  Goal
  <2>1. /\ here' = here \cup {c} /\ Send(<<selected>>, here') /\ selected' = selected
        /\ championId' = [championId EXCEPT ![c] = NoChampion]
        /\ ended' = [ended EXCEPT ![c] = "no pick"]
        /\ UNCHANGED <<latestRoomState, lifecycle, autoFollow, pick, queueVars>>
    BY <1>9 DEF Spawn, TakeSeat
  <2>2. inbox' \in [Fake -> Seq(Snapshot)]
    BY <1>0, <2>1, SelectedSent DEF SentSelected
  <2> QED BY <1>0, <1>a, <2>1, <2>2 DEF TypeOK, OnePickAtATime, InFlight, queueVars
<1>10. ASSUME NEW c \in Fake, Quit(c) \/ Drop(c)
       PROVE  Goal
  <2>1. Forgotten(c) /\ UNCHANGED <<pick, queueVars>>
    BY <1>10 DEF Quit, Drop
  <2>2. selected' \in Snapshot
    BY <1>0, <1>a, <1>10 DEF Quit, Drop, Snapshot
  <2>3. inbox' \in [Fake -> Seq(Snapshot)]
    <3>1. <<>> \in Seq(Snapshot)
      BY EmptySeq
    <3>2. CASE Send(<<>>, here')
      BY <3>1, <3>2, Sent
    <3>3. CASE Send(<<selected'>>, here')
      BY <2>2, <3>3, SelectedSent DEF SentSelected
    <3> QED BY <1>10, <3>2, <3>3 DEF Quit, Drop
  <2> QED BY <1>0, <1>a, <2>1, <2>2, <2>3
      DEF TypeOK, OnePickAtATime, InFlight, Forgotten, queueVars
<1>11. ASSUME NEW S \in SUBSET Fake, NEW enabled \in BOOLEAN, SetAutoFollow(S, enabled)
       PROVE  Goal
  <2> DEFINE due == {c \in S : /\ enabled /\ ~autoFollow[c] /\ lifecycle[c] = "lobby"
                               /\ SomeoneElse(c, latestRoomState[c])}
  <2>1. /\ autoFollow' = [c \in Fake |-> IF c \in S THEN enabled ELSE autoFollow[c]]
        /\ UNCHANGED <<roomVars, here, lifecycle, championId>> /\ Request(due)
    BY <1>11 DEF SetAutoFollow
  <2>2. due \in SUBSET Fake
    OBVIOUS
  <2> HIDE DEF due
  <2>3. Orchestrated(due \cup Range(queue))
    BY <2>1, <2>2, Requested
  <2>4. latestRoomState' \in [Fake -> Snapshot] /\ autoFollow' \in [Fake -> BOOLEAN]
    BY <1>0, <2>1 DEF roomVars
  <2> QED BY <1>0, <2>1, <2>3, <2>4, OrchestratedTypes DEF TypeOK, roomVars
<1>12. ASSUME NEW picks, ByHand(picks)
       PROVE  Goal
  <2>1. PICK D \in SUBSET Drivable : picks \in [D -> Champion]
    BY <1>12 DEF ByHand
  <2>2. /\ championId' =
             [c \in Fake |-> IF c \in DOMAIN picks THEN picks[c] ELSE championId[c]]
        /\ pick' = [c \in Fake |->
             IF c \in DOMAIN picks
             THEN [pick[c] EXCEPT !["hand"] =
                     [step |-> "naming", champ |-> picks[c], avoid |-> {}]]
             ELSE pick[c]]
        /\ ended' = [c \in Fake |-> IF c \in DOMAIN picks THEN "no pick" ELSE ended[c]]
        /\ UNCHANGED <<roomVars, here, lifecycle, autoFollow, queueVars>>
    BY <1>12 DEF ByHand, StartByHand
  <2>3. \A c \in DOMAIN picks : picks[c] \in Choice
    BY <1>b, <2>1
  <2>4. championId' \in [Fake -> Choice]
    BY <1>0, <2>2, <2>3
  <2>5. \A c \in DOMAIN picks : [step |-> "naming", champ |-> picks[c], avoid |-> {}] \in Pick
    BY <2>3 DEF Pick
  <2>6. pick' \in [Fake -> [Origin -> Pick]]
    <3> HIDE DEF Pick
    <3> QED BY <1>0, <2>2, <2>5
  <2>7. \A c \in Fake : pick'[c]["auto"] = pick[c]["auto"]
    BY <1>0, <2>2 DEF Origin
  <2>8. OnePickAtATime'
    BY <2>2, <2>7 DEF OnePickAtATime, InFlight, queueVars
  <2> QED BY <1>0, <2>2, <2>4, <2>6, <2>8 DEF TypeOK, roomVars, queueVars
<1>13. ASSUME NEW S \in SUBSET Fake, BackToLobby(S)
       PROVE  Goal
  <2>1. /\ lifecycle' = [c \in Fake |-> IF c \in S THEN "lobby" ELSE lifecycle[c]]
        /\ championId' = [c \in Fake |-> IF c \in S THEN NoChampion ELSE championId[c]]
        /\ ended' = [c \in Fake |-> IF c \in S THEN "no pick" ELSE ended[c]]
        /\ UNCHANGED <<here, latestRoomState, autoFollow, pick, queueVars>>
    BY <1>13 DEF BackToLobby
  <2>2. /\ inbox' \in [Fake -> Seq(Snapshot)]
        /\ selected' = [m \in Client |-> IF m \in S THEN NoChampion ELSE selected[m]]
    BY <1>13, LobbySent
  <2>3. selected' \in Snapshot
    BY <1>0, <1>a, <2>2 DEF Snapshot
  <2> QED BY <1>0, <1>a, <2>1, <2>2, <2>3 DEF TypeOK, OnePickAtATime, InFlight, queueVars
<1>14. ASSUME UNCHANGED vars
       PROVE  Goal
  BY <1>0, <1>14 DEF TypeOK, OnePickAtATime, InFlight, vars, roomVars, localVars,
     pickVars, queueVars
<1> HIDE DEF Goal
<1>15. Goal
  BY <1>1, <1>2, <1>3, <1>4, <1>5, <1>6, <1>7, <1>8, <1>9, <1>10, <1>11, <1>12, <1>13,
     <1>14, StepCases
<1> QED BY <1>15 DEF Goal

\* What clients know of the room: those who are absent nothing, those who are
\* there the truth, once all has landed.
LEMMA KnowledgeNext ==
  ASSUME SafeInv, [Next]_vars
  PROVE  TheAbsentForget' /\ TheLastWordIsTrue'
<1> DEFINE Goal == TheAbsentForget' /\ TheLastWordIsTrue'
<1>0. /\ TypeOK /\ OnePickAtATime /\ here \subseteq Fake /\ selected \in Snapshot
      /\ inbox \in [Fake -> Seq(Snapshot)] /\ latestRoomState \in [Fake -> Snapshot]
      /\ lifecycle \in [Fake -> {"lobby", "in-draft"}] /\ autoFollow \in [Fake -> BOOLEAN]
      /\ \A c \in Fake \ here :
           /\ inbox[c] = <<>> /\ latestRoomState[c] = Nobody
           /\ lifecycle[c] = "lobby" /\ ~autoFollow[c]
      /\ \A c \in here : LastWord(c) = selected
  BY DEF SafeInv, TypeOK, TheAbsentForget, TheLastWordIsTrue
<1>a. Fake \subseteq Client /\ Player \in Client /\ NoChampion \in Choice
  BY DEF Client, Choice
<1>b. \A c \in Fake, o \in Origin : pick[c][o].champ \in Choice
  BY <1>0 DEF TypeOK, Pick
<1>c. ASSUME SentSelected(here), UNCHANGED <<here, latestRoomState, autoFollow>>,
             \A c \in Fake \ here : lifecycle'[c] = lifecycle[c]
      PROVE  Goal
  BY <1>0, <1>c DEF TheAbsentForget, TheLastWordIsTrue, LastWord, SentSelected
<1>d. ASSUME UNCHANGED <<selected, inbox, here, latestRoomState, lifecycle>>,
             \A c \in Fake \ here : autoFollow'[c] = autoFollow[c]
      PROVE  Goal
  BY <1>0, <1>d DEF TheAbsentForget, TheLastWordIsTrue, LastWord
<1>1. ASSUME NEW x \in Choice, PlayerSelects(x)
      PROVE  Goal
  BY <1>0, <1>a, <1>1, <1>c, Selected DEF PlayerSelects, localVars
<1>2. ASSUME NEW c \in Fake, Swept(c)
      PROVE  Goal
  BY <1>0, <1>a, <1>2, <1>c, Selected DEF Swept, localVars
<1>3. ASSUME NEW c \in Fake, Deliver(c)
      PROVE  Goal
  <2>1. /\ inbox[c] # <<>> /\ UNCHANGED <<selected, here, localVars>>
        /\ latestRoomState' = [latestRoomState EXCEPT ![c] = Head(inbox[c])]
        /\ inbox' = [inbox EXCEPT ![c] = Tail(@)]
    BY <1>3 DEF Deliver
  <2>2. inbox[c] \in Seq(Snapshot) /\ c \in here
    BY <1>0, <2>1
  <2>3. /\ Tail(inbox[c]) = <<>> => Head(inbox[c]) = inbox[c][Len(inbox[c])]
        /\ Tail(inbox[c]) # <<>> =>
             Tail(inbox[c])[Len(Tail(inbox[c]))] = inbox[c][Len(inbox[c])]
    BY <2>1, <2>2, InboxTail
  <2>4. LastWord(c)' = LastWord(c)
    BY <1>0, <2>1, <2>3 DEF LastWord
  <2>5. \A d \in Fake \ {c} : LastWord(d)' = LastWord(d)
    BY <1>0, <2>1 DEF LastWord
  <2>6. TheLastWordIsTrue'
    BY <1>0, <2>1, <2>4, <2>5 DEF TheLastWordIsTrue
  <2>7. TheAbsentForget'
    BY <1>0, <2>1, <2>2 DEF TheAbsentForget, localVars
  <2> QED BY <2>6, <2>7
<1>4. ASSUME NEW c \in Fake, Choose(c)
      PROVE  Goal
  BY <1>4, <1>d DEF Choose, roomVars
<1>5. ASSUME NEW c \in Fake, NEW o \in Origin, Announce(c, o)
      PROVE  Goal
  <2>1. UNCHANGED <<here, latestRoomState, localVars>>
    BY <1>5 DEF Announce
  <2>2. CASE c \in here
    <3>1. Select(c, pick[c][o].champ)
      BY <1>5, <2>2 DEF Announce
    <3>2. SentSelected(here)
      BY <1>0, <1>a, <1>b, <3>1, Selected
    <3> QED BY <1>c, <2>1, <3>2 DEF localVars
  <2>3. CASE c \notin here
    BY <1>5, <1>d, <2>1, <2>3 DEF Announce, localVars
  <2> QED BY <2>2, <2>3
<1>6. ASSUME NEW c \in Fake, NEW o \in Origin, Finish(c, o)
      PROVE  Goal
  <2>1. UNCHANGED <<here, latestRoomState, championId, autoFollow>>
    BY <1>6 DEF Finish
  <2>2. CASE c \in here
    <3>1. /\ Select(c, pick[c][o].champ)
          /\ lifecycle' = [lifecycle EXCEPT ![c] = "in-draft"]
      BY <1>6, <2>2 DEF Finish
    <3>2. SentSelected(here)
      BY <1>0, <1>a, <1>b, <3>1, Selected
    <3>3. \A d \in Fake \ here : lifecycle'[d] = lifecycle[d]
      BY <1>0, <2>2, <3>1
    <3> QED BY <1>c, <2>1, <3>2, <3>3
  <2>3. CASE c \notin here
    BY <1>6, <1>d, <2>1, <2>3 DEF Finish
  <2> QED BY <2>2, <2>3
<1>7. ASSUME NEW c \in Fake, NEW o \in Origin, Fail(c, o)
      PROVE  Goal
  BY <1>7, <1>d DEF Fail, roomVars, localVars
<1>8. ASSUME WakeUp
      PROVE  Goal
  BY <1>8, <1>d DEF WakeUp, roomVars, localVars
<1>9. ASSUME NEW c \in Fake, Spawn(c)
      PROVE  Goal
  <2>1. /\ here' = here \cup {c} /\ Send(<<selected'>>, here') /\ selected' = selected
        /\ UNCHANGED <<latestRoomState, lifecycle, autoFollow>>
    BY <1>9 DEF Spawn, TakeSeat
  <2>2. SentSelected(here')
    BY <1>0, <2>1, SelectedSent
  <2> QED BY <1>0, <2>1, <2>2 DEF TheAbsentForget, TheLastWordIsTrue, LastWord, SentSelected
<1>10. ASSUME NEW c \in Fake, Quit(c)
       PROVE  Goal
  <2>1. /\ Forgotten(c) /\ Send(<<selected'>>, here')
        /\ selected' = [selected EXCEPT ![c] = NoChampion]
    BY <1>10 DEF Quit
  <2>2. SentSelected(here')
    <3>1. selected' \in Snapshot
      BY <1>0, <1>a, <2>1 DEF Snapshot
    <3> QED BY <1>0, <2>1, <3>1, SelectedSent
  <2> QED BY <1>0, <2>1, <2>2
      DEF Forgotten, TheAbsentForget, TheLastWordIsTrue, LastWord, SentSelected
<1>11. ASSUME NEW c \in Fake, Drop(c)
       PROVE  Goal
  <2>1. Forgotten(c) /\ Send(<<>>, here') /\ UNCHANGED selected
    BY <1>11 DEF Drop
  <2>2. \A d \in Fake : inbox'[d] = IF d \in here' THEN inbox[d] ELSE <<>>
    <3>1. <<>> \in Seq(Snapshot)
      BY EmptySeq
    <3> QED BY <1>0, <2>1, <3>1, Sent
  <2> QED BY <1>0, <2>1, <2>2 DEF Forgotten, TheAbsentForget, TheLastWordIsTrue, LastWord
<1>12. ASSUME NEW S \in SUBSET Fake, NEW enabled \in BOOLEAN,
              S \subseteq here, SetAutoFollow(S, enabled)
       PROVE  Goal
  <2>1. /\ autoFollow' = [c \in Fake |-> IF c \in S THEN enabled ELSE autoFollow[c]]
        /\ UNCHANGED <<roomVars, here, lifecycle, championId>>
    BY <1>12 DEF SetAutoFollow
  <2>2. \A c \in Fake \ here : autoFollow'[c] = autoFollow[c]
    BY <1>12, <2>1
  <2> QED BY <1>d, <2>1, <2>2 DEF roomVars
<1>13. ASSUME NEW picks, ByHand(picks)
       PROVE  Goal
  BY <1>13, <1>d DEF ByHand, StartByHand, roomVars
<1>14. ASSUME NEW S \in SUBSET Fake, BackToLobby(S)
       PROVE  Goal
  <2>1. /\ lifecycle' = [c \in Fake |-> IF c \in S THEN "lobby" ELSE lifecycle[c]]
        /\ UNCHANGED <<here, latestRoomState, autoFollow>>
    BY <1>14 DEF BackToLobby
  <2>2. \A c \in Fake :
          /\ c \notin here => inbox'[c] = <<>>
          /\ c \in here => inbox'[c] # <<>> /\ inbox'[c][Len(inbox'[c])] = selected'
    BY <1>0, <1>14, LobbySent
  <2> QED BY <1>0, <2>1, <2>2 DEF TheAbsentForget, TheLastWordIsTrue, LastWord
<1>15. ASSUME UNCHANGED vars
       PROVE  Goal
  BY <1>15, <1>d DEF vars, roomVars, localVars
<1> HIDE DEF Goal
<1>16. Goal
  BY <1>0, <1>1, <1>2, <1>3, <1>4, <1>5, <1>6, <1>7, <1>8, <1>9, <1>10, <1>11, <1>12, <1>13,
     <1>14, <1>15, StepCases
<1> QED BY <1>16 DEF Goal

LEMMA SafeNext == SafeInv /\ [Next]_vars => SafeInv'
BY TypeNext, KnowledgeNext DEF SafeInv

\* The typing of the simulator, its queue and the room-states under way: no
\* client is queued twice.
THEOREM SimulatorTypes == Spec => []TypeOK
<1>1. SafeInv => TypeOK
  BY DEF SafeInv
<1> QED BY <1>1, SimulatorInit, SafeNext, PTL DEF Spec

\* DraftOrchestrator processes the queue strictly sequentially: one of its picks
\* is under way at most, whatever requests come in while it waits, and whatever
\* the operator does meanwhile, with clients that follow too.
THEOREM PicksAreSequential == Spec => []SequentialPicks
<1>1. SafeInv => SequentialPicks
  BY DEF SafeInv, OnePickAtATime, SequentialPicks
<1> QED BY <1>1, SimulatorInit, SafeNext, PTL DEF Spec

(***************************************************************************)
(* An operator that leaves followers alone                                 *)
(***************************************************************************)

\* What holds of a client goes on holding while nothing happens to it, or a
\* room-state is sent to it.
LEMMA ClientUntouched ==
  ASSUME NEW c \in Fake, IsCareful(c),
         \A o \in Origin : pick'[c][o] = pick[c][o],
         lifecycle'[c] = lifecycle[c], autoFollow'[c] = autoFollow[c],
         ended'[c] = ended[c], championId'[c] = championId[c],
         c \in here' <=> c \in here, selected'[c] = selected[c],
         \/ c \in here' => inbox'[c] # <<>>
         \/ /\ inbox'[c] = inbox[c] /\ latestRoomState'[c] = latestRoomState[c]
            /\ c \in Range(queue) => c \in Range(queue')
  PROVE  IsCareful(c)'
<1>1. "auto" \in Origin /\ "hand" \in Origin
  BY DEF Origin
<1>2. PickIsSound(c)'
  BY <1>1 DEF IsCareful, PickIsSound, InFlight
<1>3. WaitsForSomething(c)'
  BY <1>1 DEF IsCareful, WaitsForSomething, InFlight
<1>4. IsAsShown(c)'
  BY DEF IsCareful, IsAsShown, InFlight
<1> QED BY <1>2, <1>3, <1>4 DEF IsCareful

\* A client has one pick under way.
LEMMA PicksExclude ==
  ASSUME NEW c \in Fake, NEW o \in Origin, PickIsSound(c), InFlight(c, o)
  PROVE  \A p \in Origin : p # o => ~InFlight(c, p)
<1>1. o = "auto" \/ o = "hand"
  BY DEF Origin
<1> QED BY <1>1 DEF PickIsSound, Origin

\* A pick of c is over, with its client in the lobby or in draft.
LEMMA PickEnded ==
  ASSUME NEW c \in Fake, NEW o \in Origin, PickIsSound(c), InFlight(c, o),
         pick'[c][o] = NoPick,
         \A p \in Origin : p # o => pick'[c][p] = pick[c][p]
  PROVE  PickIsSound(c)' /\ \A p \in Origin : ~InFlight(c, p)'
<1>2. \A p \in Origin : p # o => ~InFlight(c, p)
  BY PicksExclude
<1>3. \A p \in Origin : pick'[c][p].step = "none"
  BY <1>2 DEF InFlight, NoPick
<1>4. "auto" \in Origin /\ "hand" \in Origin
  BY DEF Origin
<1> QED BY <1>3, <1>4 DEF PickIsSound, InFlight

\* What the orchestrator does to picks: at most, one begins, of a client that
\* follows, is in the lobby, and sees somebody.
LEMMA OrchestratedPicks ==
  ASSUME TypeOK, NEW W, Orchestrated(W)
  PROVE  \/ UNCHANGED pickVars
         \/ \E c \in Fake :
              /\ current' = c /\ StillDue(c)
              /\ pick'[c]["auto"].step = "choosing"
              /\ pick'[c]["auto"].avoid = Taken(c, latestRoomState'[c])
              /\ pick'[c]["hand"] = pick[c]["hand"]
              /\ \A d \in Fake \ {c} : pick'[d] = pick[d]
              /\ ended'[c] = "no pick"
              /\ \A d \in Fake \ {c} : ended'[d] = ended[d]
<1>1. /\ pick \in [Fake -> [Origin -> Pick]]
      /\ ended \in [Fake -> Origin \cup {"no pick", "failed"}]
      /\ "auto" \in Origin /\ "hand" \in Origin
  BY DEF TypeOK, Origin
<1>2. CASE \E c \in Fake : current' = c /\ StillDue(c) /\ Begin(c)
  <2>1. PICK c \in Fake : current' = c /\ StillDue(c) /\ Begin(c)
    BY <1>2
  <2>2. /\ pick' = [pick EXCEPT ![c]["auto"] =
              [step |-> "choosing", champ |-> NoChampion,
               avoid |-> Taken(c, latestRoomState'[c])]]
        /\ ended' = [ended EXCEPT ![c] = "no pick"]
    BY <2>1 DEF Begin
  <2> DEFINE p == [step |-> "choosing", champ |-> NoChampion,
                   avoid |-> Taken(c, latestRoomState'[c])]
  <2>3. p.step = "choosing" /\ p.avoid = Taken(c, latestRoomState'[c])
    OBVIOUS
  <2> HIDE DEF p
  <2>4. pick'[c]["auto"] = p /\ pick'[c]["hand"] = pick[c]["hand"]
    BY <1>1, <2>2 DEF p
  <2> QED BY <1>1, <2>1, <2>2, <2>3, <2>4
<1> QED BY <1>2 DEF Orchestrated

\* All goes on holding when the orchestrator moves.  W are the clients it looks
\* at: those in the queue, and those that begin to have something to wait for.
LEMMA OrchestratedCareful ==
  ASSUME ~Meddling, CarefulInv, OnePickAtATime', NEW W, Orchestrated(W),
         Range(queue) \subseteq W,
         UNCHANGED <<selected, here, lifecycle, championId>>,
         \A c \in Fake :
           /\ InFlight(c, "hand") => ~autoFollow'[c]
           /\ c \in here /\ autoFollow'[c] /\ lifecycle[c] = "lobby" =>
                \/ c \in W \/ InFlight(c, "auto") \/ ~SomeoneElse(c, latestRoomState'[c])
                \/ /\ autoFollow[c] /\ inbox'[c] = inbox[c]
                   /\ latestRoomState'[c] = latestRoomState[c]
  PROVE  \A c \in Fake : IsCareful(c)'
<1>1. /\ TypeOK /\ OnePickAtATime /\ "auto" \in Origin /\ "hand" \in Origin
      /\ \A c \in Fake : PickIsSound(c) /\ WaitsForSomething(c) /\ IsAsShown(c)
  BY DEF CarefulInv, SafeInv, IsCareful, Origin
<1> SUFFICES ASSUME NEW c \in Fake
             PROVE  IsCareful(c)'
  OBVIOUS
<1> DEFINE Goal ==
      /\ InFlight(c, "auto") => InFlight(c, "auto")'
      /\ pick'[c]["hand"] = pick[c]["hand"]
      /\ ended'[c] = ended[c] \/ (InFlight(c, "auto")' /\ ended'[c] = "no pick")
      /\ \/ pick'[c]["auto"] = pick[c]["auto"]
         \/ /\ pick'[c]["auto"].step = "choosing" /\ ended'[c] = "no pick"
            /\ lifecycle[c] = "lobby" /\ autoFollow'[c]
<1>2. Goal
  <2>1. CASE UNCHANGED pickVars
    BY <2>1 DEF pickVars, InFlight
  <2>2. ASSUME NEW d \in Fake, StillDue(d),
               pick'[d]["auto"].step = "choosing",
               pick'[d]["hand"] = pick[d]["hand"],
               \A e \in Fake \ {d} : pick'[e] = pick[e],
               ended'[d] = "no pick",
               \A e \in Fake \ {d} : ended'[e] = ended[e]
        PROVE  Goal
    BY <2>2 DEF InFlight, StillDue
  <2> QED BY <1>1, <2>1, <2>2, OrchestratedPicks
<1>3. PickIsSound(c)'
  <2>1. CASE pick'[c]["auto"] = pick[c]["auto"]
    <3>1. /\ PickIsSound(c) /\ \A o \in Origin : pick'[c][o] = pick[c][o]
          /\ ended'[c] = ended[c] \/ ended'[c] = "no pick"
          /\ InFlight(c, "hand") => ~autoFollow'[c]
      BY <1>1, <1>2, <2>1 DEF Origin
    <3>2. UNCHANGED <<selected, here, lifecycle, championId>>
      OBVIOUS
    <3>3. "auto" \in Origin /\ "hand" \in Origin
      BY DEF Origin
    <3> QED BY ONLY <3>1, <3>2, <3>3 DEF PickIsSound, InFlight
  <2>2. CASE /\ pick'[c]["auto"].step = "choosing" /\ ended'[c] = "no pick"
             /\ lifecycle[c] = "lobby" /\ autoFollow'[c]
    <3>1. pick'[c]["hand"].step = "none"
      BY <1>2, <2>2 DEF InFlight
    <3> QED BY <2>2, <3>1 DEF PickIsSound, InFlight, Origin
  <2> QED BY <1>2, <2>1, <2>2
<1>4. WaitsForSomething(c)'
  <2>1. c \in W => \/ InFlight(c, "auto")' \/ c \in Range(queue')
                   \/ c \notin here \/ ~autoFollow'[c] \/ lifecycle[c] # "lobby"
                   \/ ~SomeoneElse(c, latestRoomState'[c])
    <3>1. current' = c => InFlight(c, "auto")'
      BY DEF OnePickAtATime
    <3> QED BY <3>1 DEF Orchestrated, StillDue
  <2> QED BY <1>1, <1>2, <2>1 DEF WaitsForSomething
<1>5. IsAsShown(c)'
  <2>1. \A o \in Origin : InFlight(c, o) => InFlight(c, o)'
    BY <1>2 DEF InFlight, Origin
  <2> QED BY <1>1, <1>2, <2>1 DEF IsAsShown
<1> QED BY <1>3, <1>4, <1>5 DEF IsCareful

LEMMA CarefulInit == Init => CarefulInv
<1> SUFFICES ASSUME Init PROVE CarefulInv
  OBVIOUS
<1>1. ASSUME NEW c \in Fake PROVE IsCareful(c)
  <2>1. /\ "auto" \in Origin /\ "hand" \in Origin
        /\ \A o \in Origin : pick[c][o].step = "none"
    BY DEF Init, NoPick, Origin
  <2>2. here = {}
    BY DEF Init
  <2>3. PickIsSound(c)
    BY <2>1 DEF PickIsSound, InFlight
  <2> QED BY <2>2, <2>3 DEF IsCareful, WaitsForSomething, IsAsShown
<1> QED BY <1>1, SimulatorInit DEF CarefulInv

\* Every step keeps it.  A step is seen from the client it is about; for the
\* others it is a room-state sent to them, or nothing.
LEMMA CarefulNext ==
  ASSUME ~Meddling, CarefulInv, [Next]_vars
  PROVE  CarefulInv'
<1> DEFINE Goal == \A d \in Fake : IsCareful(d)'
<1>0. /\ SafeInv /\ TypeOK /\ OnePickAtATime /\ here \subseteq Fake /\ selected \in Snapshot
      /\ inbox \in [Fake -> Seq(Snapshot)] /\ latestRoomState \in [Fake -> Snapshot]
      /\ lifecycle \in [Fake -> {"lobby", "in-draft"}] /\ autoFollow \in [Fake -> BOOLEAN]
      /\ championId \in [Fake -> Choice] /\ pick \in [Fake -> [Origin -> Pick]]
      /\ ended \in [Fake -> Origin \cup {"no pick", "failed"}]
      /\ \A c \in Fake \ here :
           /\ inbox[c] = <<>> /\ latestRoomState[c] = Nobody
           /\ lifecycle[c] = "lobby" /\ ~autoFollow[c]
      /\ \A c \in Fake : IsCareful(c)
  BY DEF CarefulInv, SafeInv, TypeOK, TheAbsentForget
<1>t. TypeOK /\ OnePickAtATime
  BY <1>0
<1>a. /\ Fake \subseteq Client /\ Player \in Client /\ Player \notin Fake
      /\ NoChampion \in Choice /\ Champion \subseteq Choice /\ NoChampion \notin Champion
      /\ Themed \subseteq Champion
  BY SimulatorAssumption DEF Client, Choice
<1>b. /\ "auto" \in Origin /\ "hand" \in Origin /\ \A o \in Origin : o = "auto" \/ o = "hand"
      /\ \A c \in Fake, o \in Origin : pick[c][o] \in Pick /\ pick[c][o].champ \in Choice
  <2>1. \A c \in Fake, o \in Origin : pick[c][o] \in Pick
    <3> HIDE DEF Pick
    <3> QED BY <1>0
  <2>2. \A p \in Pick : p.champ \in Choice
    BY DEF Pick
  <2> QED BY <2>1, <2>2 DEF Origin
<1>c. SafeInv' /\ OnePickAtATime'
  BY <1>0, SafeNext DEF SafeInv
\* A pick of c fails, and nothing else happens.
<1>d. ASSUME NEW c \in Fake, NEW o \in Origin, InFlight(c, o), Over(c, o, "failed"),
             UNCHANGED <<roomVars, here, localVars>>
      PROVE  Goal
  <2>1. /\ UNCHANGED queue /\ pick'[c][o] = NoPick
        /\ \A d \in Fake, p \in Origin : d # c \/ p # o => pick'[d][p] = pick[d][p]
        /\ ended'[c] = "failed" /\ \A d \in Fake \ {c} : ended'[d] = ended[d]
    <3>1. InFlight(c, o) /\ Over(c, o, "failed") /\ "failed" \in Origin \cup {"failed"}
      BY <1>d
    <3> QED BY <1>t, <3>1, PickOver
  <2>2. IsCareful(c)'
    <3>1. PickIsSound(c)'
      BY <1>0, <1>d, <2>1, PickEnded DEF IsCareful
    <3> QED BY <2>1, <3>1 DEF IsCareful, WaitsForSomething, IsAsShown
  <2>3. ASSUME NEW d \in Fake \ {c} PROVE IsCareful(d)'
    <3>1. /\ \A p \in Origin : pick'[d][p] = pick[d][p]
          /\ ended'[d] = ended[d] /\ queue' = queue
      BY <2>1
    <3>2. IsCareful(d) /\ UNCHANGED <<roomVars, here, localVars>>
      BY <1>0, <1>d
    <3> QED BY <3>1, <3>2, ClientUntouched DEF roomVars, localVars
  <2> QED BY <2>2, <2>3
<1>1. ASSUME NEW x \in Choice, PlayerSelects(x)
      PROVE  Goal
  <2>1. /\ SentSelected(here) /\ \A d \in Fake : selected'[d] = selected[d]
        /\ UNCHANGED <<here, latestRoomState, localVars, pickVars, queueVars>>
    BY <1>t, <1>a, <1>1, Selected DEF PlayerSelects
  <2> QED BY <1>0, <2>1, ClientUntouched DEF SentSelected, localVars, pickVars, queueVars
<1>2. ASSUME NEW c \in Fake, Swept(c)
      PROVE  Goal
  <2>1. /\ SentSelected(here) /\ \A d \in Fake \ {c} : selected'[d] = selected[d]
        /\ c \notin here
        /\ UNCHANGED <<here, latestRoomState, localVars, pickVars, queueVars>>
    BY <1>0, <1>a, <1>2, Selected DEF Swept
  <2>2. IsCareful(c)'
    BY <1>0, <2>1 DEF IsCareful, PickIsSound, WaitsForSomething, IsAsShown, InFlight,
       localVars, pickVars
  <2>3. ASSUME NEW d \in Fake \ {c} PROVE IsCareful(d)'
    BY <1>0, <2>1, ClientUntouched DEF SentSelected, localVars, pickVars, queueVars
  <2> QED BY <2>2, <2>3
<1>3. ASSUME NEW c \in Fake, Deliver(c)
      PROVE  Goal
  <2>1. /\ UNCHANGED <<selected, here, localVars>>
        /\ latestRoomState' = [latestRoomState EXCEPT ![c] = Head(inbox[c])]
        /\ inbox' = [inbox EXCEPT ![c] = Tail(@)]
    BY <1>3 DEF Deliver
  <2>2. \A d \in Fake \ {c} :
          inbox'[d] = inbox[d] /\ latestRoomState'[d] = latestRoomState[d]
    BY <1>0, <2>1
  <2>3. \A d \in Fake : InFlight(d, "hand") => ~autoFollow'[d]
    BY <1>0, <2>1 DEF IsCareful, PickIsSound, localVars
  <2>4. CASE Request({c})
    <3>1. {c} \in SUBSET Fake
      OBVIOUS
    <3>2. Orchestrated({c} \cup Range(queue))
      BY <1>0, <2>4, <3>1, Requested
    <3> QED BY <1>c, <2>1, <2>2, <2>3, <3>2, OrchestratedCareful DEF localVars
  <2>5. CASE /\ UNCHANGED <<pickVars, queueVars>>
             /\ ~(/\ autoFollow[c] /\ lifecycle[c] = "lobby" /\ ~Busy(c)
                  /\ SomeoneElse(c, Head(inbox[c])))
    <3>1. latestRoomState'[c] = Head(inbox[c])
      BY <1>0, <2>1
    <3>2. IsCareful(c)'
      BY <1>0, <2>1, <2>5, <3>1
         DEF IsCareful, PickIsSound, WaitsForSomething, IsAsShown, InFlight, Busy,
             localVars, pickVars, queueVars
    <3>3. ASSUME NEW d \in Fake \ {c} PROVE IsCareful(d)'
      BY <1>0, <2>1, <2>2, <2>5, ClientUntouched DEF localVars, pickVars, queueVars
    <3> QED BY <3>2, <3>3
  <2> QED BY <1>3, <2>4, <2>5 DEF Deliver
<1>4. ASSUME NEW c \in Fake, Choose(c)
      PROVE  Goal
  <2>1. /\ InFlight(c, "auto") /\ lifecycle[c] = "lobby" /\ ~InFlight(c, "hand")
        /\ pick[c]["auto"].step = "choosing" /\ ended[c] = "no pick"
        /\ UNCHANGED <<roomVars, here, lifecycle, autoFollow>>
    BY <1>0, <1>4, <1>b DEF Choose, InFlight, IsCareful, PickIsSound
  <2>2. CASE Over(c, "auto", "failed") /\ UNCHANGED championId
    BY <1>b, <1>d, <2>1, <2>2 DEF localVars
  <2>3. CASE \E x \in Themed :
               /\ championId' = [championId EXCEPT ![c] = x]
               /\ pick' = [pick EXCEPT ![c]["auto"] =
                    [step |-> "naming", champ |-> x, avoid |-> {}]]
               /\ UNCHANGED <<ended, queueVars>>
    <3>1. PICK x \in Themed :
               /\ championId' = [championId EXCEPT ![c] = x]
               /\ pick' = [pick EXCEPT ![c]["auto"] =
                    [step |-> "naming", champ |-> x, avoid |-> {}]]
               /\ UNCHANGED <<ended, queueVars>>
      BY <2>3
    <3> DEFINE p == [step |-> "naming", champ |-> x, avoid |-> {}]
    <3>2. p.step = "naming" /\ p.champ = x
      OBVIOUS
    <3> HIDE DEF p
    <3>3. /\ pick'[c]["auto"] = p /\ pick'[c]["hand"] = pick[c]["hand"]
          /\ championId'[c] = x /\ x \in Champion
          /\ \A d \in Fake \ {c} : pick'[d] = pick[d] /\ championId'[d] = championId[d]
      <4>1. /\ pick' = [pick EXCEPT ![c]["auto"] = p]
            /\ championId' = [championId EXCEPT ![c] = x]
        BY <3>1 DEF p
      <4>2. /\ pick \in [Fake -> [Origin -> Pick]] /\ championId \in [Fake -> Choice]
            /\ "auto" \in Origin /\ "hand" \in Origin /\ x \in Champion
        BY <1>0, <1>a, <1>b
      <4> HIDE DEF Pick, Choice
      <4> QED BY <4>1, <4>2
    <3>4. IsCareful(c)'
      <4>1. pick'[c]["hand"].step = "none" /\ ended'[c] = "no pick" /\ lifecycle'[c] = "lobby"
        BY <2>1, <3>1, <3>3 DEF InFlight
      <4>2. PickIsSound(c)'
        BY <1>b, <3>2, <3>3, <4>1 DEF PickIsSound, InFlight
      <4>3. InFlight(c, "auto")'
        BY <3>2, <3>3 DEF InFlight
      <4> QED BY <1>b, <4>2, <4>3 DEF IsCareful, WaitsForSomething, IsAsShown
    <3>5. ASSUME NEW d \in Fake \ {c} PROVE IsCareful(d)'
      BY <1>0, <2>1, <3>1, <3>3, ClientUntouched DEF roomVars, queueVars
    <3> QED BY <3>4, <3>5
  <2> QED BY <1>4, <2>1, <2>2, <2>3 DEF Choose
<1>5. ASSUME NEW c \in Fake, NEW o \in Origin, Announce(c, o)
      PROVE  Goal
  <2>1. /\ InFlight(c, o) /\ pick[c][o].step = "naming"
        /\ UNCHANGED <<here, latestRoomState, localVars>>
    BY <1>5 DEF Announce, InFlight
  <2>2. CASE c \in here
    <3>1. /\ Select(c, pick[c][o].champ) /\ UNCHANGED <<ended, queueVars>>
          /\ pick' = [pick EXCEPT ![c][o].step = "building"]
      BY <1>5, <2>2 DEF Announce
    <3>2. /\ selected'[c] = pick[c][o].champ /\ SentSelected(here)
          /\ \A d \in Fake \ {c} : selected'[d] = selected[d]
      BY <1>t, <1>a, <1>b, <3>1, Selected
    <3>3. /\ pick'[c][o].step = "building" /\ pick'[c][o].champ = pick[c][o].champ
          /\ \A d \in Fake, p \in Origin : d # c \/ p # o => pick'[d][p] = pick[d][p]
      <4>1. TypeOK /\ Announced(c, o)
        BY <1>t, <3>1 DEF Announced
      <4> QED BY <4>1, PickAnnounced
    <3>4. IsCareful(c)'
      <4>1. \A p \in Origin : InFlight(c, p)' <=> InFlight(c, p)
        BY <2>1, <3>3 DEF InFlight
      <4>2. \A p \in Origin : p # o => ~InFlight(c, p)
        BY <1>0, <2>1, PicksExclude DEF IsCareful
      <4>3. PickIsSound(c)'
        <5>1. PickIsSound(c) /\ UNCHANGED <<ended, here, localVars>>
          BY <1>0, <2>1, <3>1 DEF IsCareful
        <5>2. \A p \in Origin : p # o => pick'[c][p].step = "none"
          BY <4>1, <4>2 DEF InFlight
        <5>3. /\ ended[c] = "no pick" /\ pick[c][o].champ \in Champion
              /\ championId[c] = pick[c][o].champ
          BY <2>1, <2>2, <5>1 DEF PickIsSound
        <5>4. \A p \in Origin :
                LET q == pick'[c][p]
                IN  /\ q.step # "none" => ended'[c] = "no pick"
                    /\ q.step \in {"naming", "building"} => q.champ \in Champion
                    /\ c \in here' /\ q.step \in {"naming", "building"} =>
                         championId'[c] = q.champ
                    /\ c \in here' /\ q.step = "building" => selected'[c] = q.champ
          BY <3>2, <3>3, <5>1, <5>2, <5>3 DEF localVars
        <5> QED BY <1>b, <4>1, <5>1, <5>4 DEF PickIsSound, localVars
      <4>4. WaitsForSomething(c)'
        BY <2>1, <3>2 DEF WaitsForSomething, SentSelected
      <4>5. IsAsShown(c)'
        BY <2>1, <4>1 DEF IsAsShown
      <4> QED BY <4>3, <4>4, <4>5 DEF IsCareful
    <3>5. ASSUME NEW d \in Fake \ {c} PROVE IsCareful(d)'
      BY <1>0, <2>1, <3>1, <3>2, <3>3, ClientUntouched DEF SentSelected, localVars, queueVars
    <3> QED BY <3>4, <3>5
  <2>3. CASE c \notin here
    BY <1>5, <1>d, <2>1, <2>3 DEF Announce, roomVars
  <2> QED BY <2>2, <2>3
<1>6. ASSUME NEW c \in Fake, NEW o \in Origin, Finish(c, o)
      PROVE  Goal
  <2>1. /\ InFlight(c, o) /\ pick[c][o].step = "building"
        /\ UNCHANGED <<here, latestRoomState, championId, autoFollow>>
    BY <1>6 DEF Finish, InFlight
  <2>2. CASE c \in here
    <3>1. /\ Select(c, pick[c][o].champ) /\ Over(c, o, o)
          /\ lifecycle' = [lifecycle EXCEPT ![c] = "in-draft"]
      BY <1>6, <2>2 DEF Finish
    <3>2. /\ selected'[c] = pick[c][o].champ /\ SentSelected(here)
          /\ \A d \in Fake \ {c} : selected'[d] = selected[d] /\ lifecycle'[d] = lifecycle[d]
          /\ lifecycle'[c] = "in-draft"
      <4>1. /\ selected'[c] = pick[c][o].champ /\ SentSelected(here)
            /\ \A d \in Fake \ {c} : selected'[d] = selected[d]
        BY <1>t, <1>a, <1>b, <3>1, Selected
      <4> QED BY <1>0, <3>1, <4>1
    <3>3. /\ UNCHANGED queue /\ pick'[c][o] = NoPick
          /\ \A d \in Fake, p \in Origin : d # c \/ p # o => pick'[d][p] = pick[d][p]
          /\ \A d \in Fake \ {c} : ended'[d] = ended[d]
      BY <1>t, <2>1, <3>1, PickOver
    <3>4. IsCareful(c)'
      <4>1. PickIsSound(c)'
        BY <1>0, <2>1, <3>3, PickEnded DEF IsCareful
      <4>2. pick[c][o].champ \in Champion /\ championId[c] = pick[c][o].champ
        BY <1>0, <2>1, <2>2 DEF IsCareful, PickIsSound
      <4> QED BY <1>a, <2>1, <3>2, <4>1, <4>2 DEF IsCareful, WaitsForSomething, IsAsShown
    <3>5. ASSUME NEW d \in Fake \ {c} PROVE IsCareful(d)'
      <4>1. /\ \A p \in Origin : pick'[d][p] = pick[d][p]
            /\ (d \in here' <=> d \in here) /\ autoFollow'[d] = autoFollow[d]
            /\ championId'[d] = championId[d] /\ ended'[d] = ended[d]
            /\ d \in here' => inbox'[d] # <<>>
        BY <2>1, <3>2, <3>3 DEF SentSelected
      <4>2. IsCareful(d) /\ selected'[d] = selected[d] /\ lifecycle'[d] = lifecycle[d]
        BY <1>0, <3>2
      <4> QED BY <4>1, <4>2, ClientUntouched
    <3> QED BY <3>4, <3>5
  <2>3. CASE c \notin here
    BY <1>6, <1>d, <2>1, <2>3 DEF Finish, roomVars, localVars
  <2> QED BY <2>2, <2>3
<1>7. ASSUME NEW c \in Fake, NEW o \in Origin, Fail(c, o)
      PROVE  Goal
  BY <1>7, <1>d DEF Fail
<1>8. ASSUME WakeUp
      PROVE  Goal
  <2>1. current = Resting /\ RunQueue(queue) /\ UNCHANGED <<roomVars, here, localVars>>
    BY <1>8 DEF WakeUp
  <2>2. Orchestrated(Range(queue))
    BY <1>0, <2>1, QueueRuns DEF TypeOK
  <2>3. \A d \in Fake : InFlight(d, "hand") => ~autoFollow'[d]
    BY <1>0, <2>1 DEF IsCareful, PickIsSound, localVars
  <2> QED BY <1>c, <2>1, <2>2, <2>3, OrchestratedCareful DEF roomVars, localVars
<1>9. ASSUME NEW c \in Fake, Spawn(c)
      PROVE  Goal
  <2>1. /\ c \notin here /\ selected[c] = NoChampion /\ \A o \in Origin : ~InFlight(c, o)
        /\ here' = here \cup {c} /\ Send(<<selected'>>, here') /\ selected' = selected
        /\ championId' = [championId EXCEPT ![c] = NoChampion]
        /\ ended' = [ended EXCEPT ![c] = "no pick"]
        /\ UNCHANGED <<latestRoomState, lifecycle, autoFollow, pick, queueVars>>
    BY <1>9 DEF Spawn, TakeSeat
  <2>2. SentSelected(here')
    BY <1>0, <2>1, SelectedSent
  <2>3. IsCareful(c)'
    BY <1>0, <1>b, <2>1, <2>2
       DEF IsCareful, PickIsSound, WaitsForSomething, IsAsShown, InFlight
  <2>4. ASSUME NEW d \in Fake \ {c} PROVE IsCareful(d)'
    BY <1>0, <2>1, <2>2, ClientUntouched DEF SentSelected
  <2> QED BY <2>3, <2>4
<1>10. ASSUME NEW c \in Fake, Quit(c) \/ Drop(c)
       PROVE  Goal
  <2>1. /\ Forgotten(c) /\ UNCHANGED <<pick, queueVars>> /\ ~InFlight(c, "hand")
        /\ here' = here \ {c}
    BY <1>10 DEF Quit, Drop, Command, MenuFree, Forgotten
  <2>2. \A d \in Fake \ {c} :
          /\ selected'[d] = selected[d]
          /\ (d \in here' => inbox'[d] # <<>>)
             \/ (inbox'[d] = inbox[d] /\ latestRoomState'[d] = latestRoomState[d])
    <3>1. CASE Quit(c)
      <4>1. selected' = [selected EXCEPT ![c] = NoChampion] /\ Send(<<selected'>>, here')
        BY <3>1 DEF Quit
      <4>2. selected' \in Snapshot /\ \A d \in Fake \ {c} : selected'[d] = selected[d]
        BY <1>0, <1>a, <4>1 DEF Snapshot
      <4>3. SentSelected(here')
        BY <1>0, <4>1, <4>2, SelectedSent
      <4> QED BY <4>2, <4>3 DEF SentSelected
    <3>2. CASE Drop(c)
      <4>1. Send(<<>>, here') /\ UNCHANGED selected
        BY <3>2 DEF Drop
      <4>2. \A d \in Fake : inbox'[d] = IF d \in here' THEN inbox[d] ELSE <<>>
        <5>1. <<>> \in Seq(Snapshot)
          BY EmptySeq
        <5> QED BY <1>0, <4>1, <5>1, Sent
      <4>3. \A d \in Fake \ {c} : inbox'[d] = inbox[d]
        BY <1>0, <2>1, <4>2
      <4> QED BY <1>0, <2>1, <4>1, <4>3 DEF Forgotten
    <3> QED BY <1>10, <3>1, <3>2
  <2>3. IsCareful(c)'
    <3>1. lifecycle'[c] = "lobby" /\ ended'[c] = "no pick" /\ c \notin here'
      BY <1>0, <2>1 DEF Forgotten
    <3> QED BY <1>0, <1>b, <2>1, <3>1
        DEF IsCareful, PickIsSound, WaitsForSomething, IsAsShown, InFlight
  <2>4. ASSUME NEW d \in Fake \ {c} PROVE IsCareful(d)'
    BY <1>0, <2>1, <2>2, ClientUntouched DEF Forgotten, queueVars
  <2> QED BY <2>3, <2>4
<1>11. ASSUME NEW S \in SUBSET Fake, NEW enabled \in BOOLEAN, SetAutoFollow(S, enabled)
       PROVE  Goal
  <2> DEFINE due == {c \in S : /\ enabled /\ ~autoFollow[c] /\ lifecycle[c] = "lobby"
                               /\ SomeoneElse(c, latestRoomState[c])}
  <2>1. /\ autoFollow' = [c \in Fake |-> IF c \in S THEN enabled ELSE autoFollow[c]]
        /\ UNCHANGED <<roomVars, here, lifecycle, championId>> /\ Request(due)
        /\ \A c \in Fake : ~InFlight(c, "hand")
    BY <1>11 DEF SetAutoFollow, Command, MenuFree
  <2>2. due \in SUBSET Fake
    OBVIOUS
  <2>3. Orchestrated(due \cup Range(queue))
    <3> HIDE DEF due
    <3> QED BY <1>0, <2>1, <2>2, Requested
  <2>4. \A c \in Fake : autoFollow'[c] /\ lifecycle[c] = "lobby" =>
          c \in due \/ autoFollow[c] \/ ~SomeoneElse(c, latestRoomState[c])
    BY <2>1
  <2> HIDE DEF due
  <2> QED BY <1>c, <2>1, <2>3, <2>4, OrchestratedCareful DEF roomVars
<1>12. ASSUME NEW picks, ByHand(picks)
       PROVE  Goal
  <2>1. PICK D \in SUBSET Drivable : picks \in [D -> Champion]
    BY <1>12 DEF ByHand
  <2>2. /\ championId' =
             [c \in Fake |-> IF c \in DOMAIN picks THEN picks[c] ELSE championId[c]]
        /\ pick' = [c \in Fake |->
             IF c \in DOMAIN picks
             THEN [pick[c] EXCEPT !["hand"] =
                     [step |-> "naming", champ |-> picks[c], avoid |-> {}]]
             ELSE pick[c]]
        /\ ended' = [c \in Fake |-> IF c \in DOMAIN picks THEN "no pick" ELSE ended[c]]
        /\ UNCHANGED <<roomVars, here, lifecycle, autoFollow, queueVars>>
    BY <1>12 DEF ByHand, StartByHand
  <2>3. ASSUME NEW d \in Fake, d \in D PROVE IsCareful(d)'
    <3> DEFINE p == [step |-> "naming", champ |-> picks[d], avoid |-> {}]
    <3>1. p.step = "naming" /\ p.champ = picks[d]
      OBVIOUS
    <3> HIDE DEF p
    <3>2. /\ d \in here /\ ~autoFollow[d] /\ pick[d]["auto"].step = "none"
          /\ picks[d] \in Champion
      BY <2>1, <2>3 DEF Drivable, InFlight
    <3>3. /\ pick'[d]["hand"] = p /\ pick'[d]["auto"].step = "none"
          /\ championId'[d] = picks[d] /\ ended'[d] = "no pick"
          /\ ~autoFollow'[d] /\ d \in here'
      BY <1>0, <1>b, <2>1, <2>2, <2>3, <3>2 DEF p
    <3>4. PickIsSound(d)'
      BY <1>b, <3>1, <3>2, <3>3 DEF PickIsSound, InFlight
    <3>5. InFlight(d, "hand")'
      BY <3>1, <3>3 DEF InFlight
    <3> QED BY <1>b, <3>3, <3>4, <3>5 DEF IsCareful, WaitsForSomething, IsAsShown
  <2>4. ASSUME NEW d \in Fake, d \notin D PROVE IsCareful(d)'
    <3>1. pick'[d] = pick[d] /\ championId'[d] = championId[d] /\ ended'[d] = ended[d]
      BY <2>1, <2>2, <2>4
    <3> QED BY <1>0, <2>2, <3>1, ClientUntouched DEF roomVars, queueVars
  <2> QED BY <2>3, <2>4
<1>13. ASSUME NEW S \in SUBSET Fake, BackToLobby(S)
       PROVE  Goal
  <2>1. /\ lifecycle' = [c \in Fake |-> IF c \in S THEN "lobby" ELSE lifecycle[c]]
        /\ championId' = [c \in Fake |-> IF c \in S THEN NoChampion ELSE championId[c]]
        /\ ended' = [c \in Fake |-> IF c \in S THEN "no pick" ELSE ended[c]]
        /\ UNCHANGED <<here, latestRoomState, autoFollow, pick, queueVars>>
        /\ \A c \in S : lifecycle[c] = "in-draft" /\ ~InFlight(c, "hand")
    BY <1>13 DEF BackToLobby, InDraft, Command, MenuFree
  <2>2. /\ selected' = [m \in Client |-> IF m \in S THEN NoChampion ELSE selected[m]]
        /\ \A c \in here : inbox'[c] # <<>>
    BY <1>0, <1>13, LobbySent
  <2>3. ASSUME NEW d \in Fake, d \in S PROVE IsCareful(d)'
    <3>1. \A o \in Origin : ~InFlight(d, o)
      BY <1>0, <1>b, <2>1, <2>3 DEF IsCareful, PickIsSound
    <3>2. /\ selected'[d] = NoChampion /\ championId'[d] = NoChampion
          /\ lifecycle'[d] = "lobby"
      BY <1>a, <2>1, <2>2, <2>3
    <3> QED BY <1>b, <2>1, <2>2, <3>1, <3>2
        DEF IsCareful, PickIsSound, WaitsForSomething, IsAsShown, InFlight
  <2>4. ASSUME NEW d \in Fake, d \notin S PROVE IsCareful(d)'
    BY <1>0, <1>a, <2>1, <2>2, <2>4, ClientUntouched
  <2> QED BY <2>3, <2>4
<1>14. ASSUME UNCHANGED vars
       PROVE  Goal
  BY <1>0, <1>14, ClientUntouched DEF vars, roomVars, localVars, pickVars, queueVars
<1> HIDE DEF Goal
<1>15. Goal
  BY <1>0, <1>1, <1>2, <1>3, <1>4, <1>5, <1>6, <1>7, <1>8, <1>9, <1>10, <1>11, <1>12, <1>13,
     <1>14, StepCases
<1> QED BY <1>c, <1>15 DEF Goal, CarefulInv

\* Nobody is forgotten by the orchestrator.
THEOREM NoFollowerIsForgotten ==
  ASSUME ~Meddling
  PROVE  Spec => []NoForgottenFollower
<1>1. CarefulInv => NoForgottenFollower
  BY DEF CarefulInv, SafeInv, TypeOK, IsCareful, WaitsForSomething, TheLastWordIsTrue,
     LastWord, NoForgottenFollower
<1>2. CarefulInv /\ [Next]_vars => CarefulInv'
  BY CarefulNext
<1> QED BY <1>1, <1>2, CarefulInit, PTL DEF Spec

\* What a client believes of itself once its picks have ended is what the
\* server shows.
THEOREM ClientsBelieveTheServer ==
  ASSUME ~Meddling
  PROVE  Spec => []BelievesTheServer
<1>1. CarefulInv => BelievesTheServer
  BY DEF CarefulInv, SafeInv, TypeOK, IsCareful, IsAsShown, BelievesTheServer
<1>2. CarefulInv /\ [Next]_vars => CarefulInv'
  BY CarefulNext
<1> QED BY <1>1, <1>2, CarefulInit, PTL DEF Spec

(***************************************************************************)
(* Followers end up on different champions                                 *)
(***************************************************************************)

\* A step that settles nobody, and leaves the settled their champions.
NobodySettles ==
  \A d \in Fake : Settled(d)' => Settled(d) /\ selected'[d] = selected[d]

\* What clients see, and are sent, is what was under way, or shows the settled.
NewsIsTrue ==
  \A c \in here' :
    /\ latestRoomState'[c] \in {Nobody, latestRoomState[c]} \cup Range(inbox[c])
    /\ \A d \in Fake \ {c}, state \in Range(inbox'[c]) :
         Settled(d)' => state \in Range(inbox[c]) \/ state[d] = selected'[d]

\* A pick of the orchestrator begins, goes on with one of the champions that
\* it may take, or ends.
PickGoesOn(c) ==
  LET p == pick[c]["auto"]  q == pick'[c]["auto"]
  IN  \/ q.step = "none"
      \/ c \in here /\ q = p
      \/ c \in here /\ p.step = "choosing" /\ q.step = "naming" /\ q.champ \notin p.avoid
      \/ c \in here /\ p.step = "naming" /\ q.step = "building" /\ q.champ = p.champ
      \/ /\ q.step = "choosing" /\ q.avoid = Taken(c, latestRoomState'[c])
         /\ SomeoneElse(c, latestRoomState'[c])

\* Such a step leaves the settled known, avoided and different.
LEMMA SettledStay ==
  ASSUME FollowInv, here' \subseteq Fake, NobodySettles, NewsIsTrue,
         \A c \in here' : PickGoesOn(c)
  PROVE  TheSettledAreKnown' /\ TheSettledAreAvoided' /\ TheSettledDiffer'
<1>1. /\ here \subseteq Fake
      /\ \A c \in Fake \ here : inbox[c] = <<>> /\ latestRoomState[c] = Nobody
      /\ TheSettledAreKnown /\ TheSettledAreAvoided /\ TheSettledDiffer
  BY DEF FollowInv, CarefulInv, SafeInv, TypeOK, TheAbsentForget
<1>2. ASSUME NEW d \in Fake, Settled(d), NEW c \in Fake \ {d}
      PROVE  /\ selected[d] \in Champion
             /\ latestRoomState[c] = Nobody \/ latestRoomState[c][d] = selected[d]
             /\ \A state \in Range(inbox[c]) : state[d] = selected[d]
  <2>1. c \notin here => Range(inbox[c]) = {}
    <3>1. DOMAIN <<>> = {}
      OBVIOUS
    <3> QED BY <1>1, <3>1 DEF Range
  <2> QED BY <1>1, <1>2, <2>1 DEF TheSettledAreKnown, Shows
<1>3. ASSUME NEW d \in Fake, Settled(d)'
      PROVE  /\ Settled(d) /\ selected'[d] = selected[d] /\ selected[d] \in Champion
             /\ \A c \in here' \ {d} :
                  /\ latestRoomState'[c] = Nobody \/ latestRoomState'[c][d] = selected[d]
                  /\ \A state \in Range(inbox'[c]) : state[d] = selected[d]
  <2>1. Settled(d) /\ selected'[d] = selected[d]
    BY <1>3 DEF NobodySettles
  <2>2. selected[d] \in Champion
    BY <1>1, <2>1 DEF TheSettledAreKnown
  <2> QED BY <1>2, <1>3, <2>1, <2>2 DEF NewsIsTrue
<1>4. TheSettledAreKnown'
  BY <1>3 DEF TheSettledAreKnown, Shows
<1>5. TheSettledDiffer'
  BY <1>1, <1>3 DEF TheSettledDiffer
<1>6. ASSUME NEW c \in here', NEW d \in Fake, c # d, Settled(d)'
      PROVE  LET q == pick'[c]["auto"]
             IN  /\ q.step = "choosing" => selected'[d] \in q.avoid
                 /\ q.step \in {"naming", "building"} => q.champ # selected'[d]
  <2>1. /\ Settled(d) /\ selected'[d] = selected[d] /\ selected[d] \in Champion
        /\ latestRoomState'[c] = Nobody \/ latestRoomState'[c][d] = selected[d]
    BY <1>3, <1>6
  <2>2. c \in here =>
          LET p == pick[c]["auto"]
          IN  /\ p.step = "choosing" => selected[d] \in p.avoid
              /\ p.step \in {"naming", "building"} => p.champ # selected[d]
    BY <1>1, <1>6, <2>1 DEF TheSettledAreAvoided
  <2>3. ASSUME SomeoneElse(c, latestRoomState'[c])
        PROVE  selected[d] \in Taken(c, latestRoomState'[c])
    <3>1. latestRoomState'[c] # Nobody
      BY <2>3 DEF SomeoneElse, Nobody
    <3>2. d \in Client \ {c} /\ selected[d] # NoChampion
      BY <1>6, <2>1, SimulatorAssumption DEF Client
    <3> QED BY <2>1, <3>1, <3>2 DEF Taken
  <2> QED BY <2>1, <2>2, <2>3 DEF PickGoesOn
<1>7. TheSettledAreAvoided'
  BY <1>6 DEF TheSettledAreAvoided
<1> QED BY <1>4, <1>5, <1>7

\* A pick by auto-follow ends well: when it does, no room-state is under way,
\* so that all know the champion that was announced before.
LEMMA SettledByAutoFollow ==
  ASSUME Prompt, FollowInv, OnePickAtATime', NEW c \in here, Finish(c, "auto")
  PROVE  TheSettledAreKnown' /\ TheSettledAreAvoided' /\ TheSettledDiffer'
<1>0. /\ TypeOK /\ OnePickAtATime /\ here \subseteq Fake /\ c \in Fake
      /\ selected \in Snapshot /\ \A e \in Fake : IsCareful(e)
      /\ \A e \in here : LastWord(e) = selected
      /\ "auto" \in Origin /\ Fake \subseteq Client
  BY DEF FollowInv, CarefulInv, SafeInv, TypeOK, TheLastWordIsTrue, Origin, Client
<1> DEFINE x == pick[c]["auto"].champ
<1>1. /\ pick[c]["auto"].step = "building" /\ InFlight(c, "auto") /\ Landed
      /\ Select(c, x) /\ Over(c, "auto", "auto")
      /\ UNCHANGED <<here, latestRoomState>>
  BY DEF Finish, InFlight
<1>2. x \in Champion /\ selected[c] = x
  BY <1>0, <1>1 DEF IsCareful, PickIsSound
<1> HIDE DEF x
<1>3. /\ selected' \in Snapshot /\ \A m \in Client : selected'[m] = selected[m]
      /\ SentSelected(here)
  BY <1>0, <1>1, <1>2, Selected DEF Choice
<1>4. \A e \in here : inbox[e] = <<>> /\ latestRoomState'[e] = selected
  BY <1>0, <1>1 DEF Landed, LastWord
<1>5. /\ pick'[c]["auto"] = NoPick
      /\ \A d \in Fake \ {c} : pick'[d]["auto"] = pick[d]["auto"] /\ ended'[d] = ended[d]
  <2>1. /\ TypeOK /\ OnePickAtATime /\ c \in Fake
        /\ "auto" \in Origin /\ "auto" \in Origin \cup {"failed"}
    BY <1>0
  <2>2. /\ pick'[c]["auto"] = NoPick
        /\ \A d \in Fake, p \in Origin : d # c \/ p # "auto" => pick'[d][p] = pick[d][p]
        /\ \A d \in Fake \ {c} : ended'[d] = ended[d]
    BY <1>1, <2>1, PickOver
  <2> QED BY <2>1, <2>2
<1>6. \A d \in Fake \ {c} : Settled(d)' => Settled(d)
  BY <1>1, <1>5 DEF Settled
<1>7. \A e \in here, d \in Fake : \A state \in Range(inbox'[e]) : state[d] = selected'[d]
  <2>1. Range(<<>>) = {}
    <3>1. DOMAIN <<>> = {}
      OBVIOUS
    <3> QED BY <3>1 DEF Range
  <2> QED BY <1>0, <1>3, <1>4, <2>1 DEF SentSelected
<1>8. ASSUME NEW d \in Fake, Settled(d)'
      PROVE  /\ selected'[d] \in Champion
             /\ \A e \in here' \ {d} :
                  /\ latestRoomState'[e] = Nobody \/ Shows(latestRoomState[e], d)'
                  /\ \A state \in Range(inbox'[e]) : Shows(state, d)'
  <2>1. selected'[d] \in Champion
    <3>1. CASE d = c
      BY <1>0, <1>2, <1>3, <3>1
    <3>2. CASE d # c
      BY <1>0, <1>3, <1>6, <1>8, <3>2 DEF FollowInv, TheSettledAreKnown
    <3> QED BY <3>1, <3>2
  <2> QED BY <1>0, <1>1, <1>3, <1>4, <1>7, <2>1 DEF Shows
<1>9. TheSettledAreKnown'
  BY <1>8 DEF TheSettledAreKnown
<1>10. TheSettledAreAvoided'
  <2>1. \A e \in Fake : pick'[e]["auto"].step = "none"
    <3>1. \A e \in Fake \ {c} : pick[e]["auto"].step = "none"
      BY <1>0, <1>1 DEF OnePickAtATime, InFlight
    <3> QED BY <1>5, <3>1 DEF NoPick
  <2> QED BY <1>0, <1>1, <2>1 DEF TheSettledAreAvoided
<1>11. TheSettledDiffer'
  <2>1. \A d \in Fake \ {c} : Settled(d) => x # selected[d]
    BY <1>0, <1>1 DEF FollowInv, TheSettledAreAvoided, x
  <2>2. \A d \in Fake \ {c} : Settled(d)' => selected'[d] # selected'[c]
    BY <1>0, <1>2, <1>3, <1>6, <2>1
  <2>3. \A d, e \in Fake \ {c} :
          d # e /\ Settled(d)' /\ Settled(e)' => selected'[d] # selected'[e]
    BY <1>0, <1>3, <1>6 DEF FollowInv, TheSettledDiffer
  <2> QED BY <2>2, <2>3 DEF TheSettledDiffer
<1> QED BY <1>9, <1>10, <1>11

\* No step settles two followers on one champion: the orchestrator looks at the
\* room again before each pick, and nobody else is settled until it has ended.
LEMMA FollowNext ==
  ASSUME ~Meddling, Prompt, FollowInv, [Next]_vars
  PROVE  FollowInv'
<1> DEFINE Goal == TheSettledAreKnown' /\ TheSettledAreAvoided' /\ TheSettledDiffer'
<1>0. /\ TypeOK /\ OnePickAtATime /\ here \subseteq Fake
      /\ inbox \in [Fake -> Seq(Snapshot)] /\ latestRoomState \in [Fake -> Snapshot]
      /\ autoFollow \in [Fake -> BOOLEAN]
      /\ ended \in [Fake -> Origin \cup {"no pick", "failed"}]
      /\ \A c \in Fake : IsCareful(c)
  BY DEF FollowInv, CarefulInv, SafeInv, TypeOK
<1>t. TypeOK /\ OnePickAtATime
  BY <1>0
<1>a. /\ Fake \subseteq Client /\ Player \in Client /\ Player \notin Fake
      /\ NoChampion \in Choice /\ "auto" \in Origin /\ "hand" \in Origin
  BY SimulatorAssumption DEF Client, Choice, Origin
<1>b. \A c \in Fake, o \in Origin :
        /\ pick[c][o].champ \in Choice
        /\ InFlight(c, o) => ended[c] = "no pick"
  <2>1. \A c \in Fake, o \in Origin : pick[c][o] \in Pick
    <3> HIDE DEF Pick
    <3> QED BY <1>0 DEF TypeOK
  <2>2. \A p \in Pick : p.champ \in Choice
    BY DEF Pick
  <2> QED BY <1>0, <2>1, <2>2 DEF IsCareful, PickIsSound, InFlight
<1>c. CarefulInv' /\ OnePickAtATime' /\ here' \subseteq Fake
  BY CarefulNext DEF FollowInv, CarefulInv, SafeInv, TypeOK
<1>d. (NobodySettles /\ NewsIsTrue /\ \A c \in here' : PickGoesOn(c)) => Goal
  BY <1>c, SettledStay
\* Room-states are sent, and no pick moves.
<1>e. ASSUME UNCHANGED <<here, latestRoomState, pickVars>>, SentSelected(here),
             \A d \in here : selected'[d] = selected[d]
      PROVE  Goal
  <2>1. NobodySettles
    BY <1>e DEF NobodySettles, Settled, pickVars
  <2>2. NewsIsTrue
    BY <1>0, <1>e DEF NewsIsTrue, SentSelected
  <2>3. \A c \in here' : PickGoesOn(c)
    BY <1>e DEF PickGoesOn, pickVars
  <2> QED BY <1>d, <2>1, <2>2, <2>3
\* A pick of c fails, and nothing else happens.
<1>f. ASSUME NEW c \in Fake, NEW o \in Origin, InFlight(c, o), Over(c, o, "failed"),
             UNCHANGED <<roomVars, here>>
      PROVE  Goal
  <2>1. /\ pick'[c][o] = NoPick
        /\ \A d \in Fake, p \in Origin : d # c \/ p # o => pick'[d][p] = pick[d][p]
        /\ ended'[c] = "failed" /\ \A d \in Fake \ {c} : ended'[d] = ended[d]
    <3>1. InFlight(c, o) /\ Over(c, o, "failed") /\ "failed" \in Origin \cup {"failed"}
      BY <1>f
    <3> QED BY <1>t, <3>1, PickOver
  <2>2. NobodySettles
    BY <1>f, <2>1 DEF NobodySettles, Settled, roomVars
  <2>3. NewsIsTrue
    BY <1>f DEF NewsIsTrue, roomVars
  <2>4. \A d \in here' : PickGoesOn(d)
    <3>1. \A d \in Fake : \/ pick'[d]["auto"] = pick[d]["auto"]
                         \/ pick'[d]["auto"].step = "none"
      BY <1>a, <2>1 DEF NoPick
    <3> QED BY <1>0, <1>f, <3>1 DEF PickGoesOn
  <2> QED BY <1>d, <2>2, <2>3, <2>4
\* The orchestrator looks at its queue.
<1>g. ASSUME NEW W, Orchestrated(W), UNCHANGED <<selected, here>>, NewsIsTrue
      PROVE  Goal
  <2>1. CASE UNCHANGED pickVars
    <3>1. NobodySettles
      BY <1>g, <2>1 DEF NobodySettles, Settled, pickVars
    <3>2. \A d \in here' : PickGoesOn(d)
      BY <1>g, <2>1 DEF PickGoesOn, pickVars
    <3> QED BY <1>d, <1>g, <3>1, <3>2
  <2>2. ASSUME NEW c \in Fake, StillDue(c),
               pick'[c]["auto"].step = "choosing",
               pick'[c]["auto"].avoid = Taken(c, latestRoomState'[c]),
               \A d \in Fake \ {c} : pick'[d] = pick[d],
               ended'[c] = "no pick",
               \A d \in Fake \ {c} : ended'[d] = ended[d]
        PROVE  Goal
    <3>1. NobodySettles
      BY <1>g, <2>2 DEF NobodySettles, Settled
    <3>2. \A d \in here' : PickGoesOn(d)
      BY <1>0, <1>g, <2>2 DEF PickGoesOn, StillDue
    <3> QED BY <1>d, <1>g, <3>1, <3>2
  <2> QED BY <1>t, <1>g, <2>1, <2>2, OrchestratedPicks
<1> HIDE DEF Goal
<1>1. ASSUME NEW x \in Choice, PlayerSelects(x)
      PROVE  Goal
  <2>1. SentSelected(here) /\ \A d \in Fake : selected'[d] = selected[d]
    BY <1>t, <1>a, <1>1, Selected DEF PlayerSelects
  <2> QED BY <1>0, <1>1, <1>e, <2>1 DEF PlayerSelects
<1>2. ASSUME NEW c \in Fake, Swept(c)
      PROVE  Goal
  <2>1. SentSelected(here) /\ c \notin here /\ \A d \in Fake \ {c} : selected'[d] = selected[d]
    BY <1>t, <1>a, <1>2, Selected DEF Swept
  <2> QED BY <1>0, <1>2, <1>e, <2>1 DEF Swept
<1>3. ASSUME NEW c \in Fake, Deliver(c)
      PROVE  Goal
  <2>1. /\ inbox[c] # <<>> /\ UNCHANGED <<selected, here>>
        /\ latestRoomState' = [latestRoomState EXCEPT ![c] = Head(inbox[c])]
        /\ inbox' = [inbox EXCEPT ![c] = Tail(@)]
    BY <1>3 DEF Deliver
  <2>2. NewsIsTrue
    <3>1. Head(inbox[c]) \in Range(inbox[c]) /\ Range(Tail(inbox[c])) \subseteq Range(inbox[c])
      BY <1>0, <2>1, InboxTail
    <3>2. latestRoomState'[c] = Head(inbox[c]) /\ inbox'[c] = Tail(inbox[c])
      BY <1>0, <2>1
    <3>3. \A d \in Fake \ {c} :
            latestRoomState'[d] = latestRoomState[d] /\ inbox'[d] = inbox[d]
      BY <1>0, <2>1
    <3> QED BY <1>c, <3>1, <3>2, <3>3 DEF NewsIsTrue
  <2>3. CASE Request({c})
    <3>1. {c} \in SUBSET Fake
      OBVIOUS
    <3>2. Orchestrated({c} \cup Range(queue))
      BY <1>t, <2>3, <3>1, Requested
    <3> QED BY <1>g, <2>1, <2>2, <3>2
  <2>4. CASE UNCHANGED <<pickVars, queueVars>>
    <3>1. NobodySettles
      BY <2>1, <2>4 DEF NobodySettles, Settled, pickVars
    <3>2. \A d \in here' : PickGoesOn(d)
      BY <2>1, <2>4 DEF PickGoesOn, pickVars
    <3> QED BY <1>d, <2>2, <3>1, <3>2
  <2> QED BY <1>3, <2>3, <2>4 DEF Deliver
<1>4. ASSUME NEW c \in Fake, Choose(c)
      PROVE  Goal
  <2>1. /\ InFlight(c, "auto") /\ lifecycle[c] = "lobby"
        /\ pick[c]["auto"].step = "choosing"
        /\ UNCHANGED <<roomVars, here>>
    BY <1>0, <1>4, <1>a DEF Choose, InFlight, IsCareful, PickIsSound
  <2>2. CASE Over(c, "auto", "failed")
    BY <1>a, <1>f, <2>1, <2>2
  <2>3. CASE \E x \in Themed \ pick[c]["auto"].avoid :
               /\ pick' = [pick EXCEPT ![c]["auto"] =
                    [step |-> "naming", champ |-> x, avoid |-> {}]]
               /\ UNCHANGED <<ended, queueVars>>
    <3>1. PICK x \in Themed \ pick[c]["auto"].avoid :
               /\ pick' = [pick EXCEPT ![c]["auto"] =
                    [step |-> "naming", champ |-> x, avoid |-> {}]]
               /\ UNCHANGED <<ended, queueVars>>
      BY <2>3
    <3> DEFINE p == [step |-> "naming", champ |-> x, avoid |-> {}]
    <3>2. p.step = "naming" /\ p.champ = x
      OBVIOUS
    <3>3. pick' = [pick EXCEPT ![c]["auto"] = p]
      BY <3>1
    <3> HIDE DEF p
    <3>4. pick'[c]["auto"] = p /\ \A d \in Fake \ {c} : pick'[d] = pick[d]
      <4>1. pick \in [Fake -> [Origin -> Pick]]
        BY <1>0 DEF TypeOK
      <4> HIDE DEF Pick
      <4> QED BY <1>a, <3>3, <4>1
    <3>5. NobodySettles
      BY <2>1, <3>1 DEF NobodySettles, Settled, roomVars
    <3>6. NewsIsTrue
      BY <2>1 DEF NewsIsTrue, roomVars
    <3>7. \A d \in here' : PickGoesOn(d)
      BY <1>c, <2>1, <3>1, <3>2, <3>4 DEF PickGoesOn
    <3> QED BY <1>d, <3>5, <3>6, <3>7
  <2> QED BY <1>4, <2>1, <2>2, <2>3 DEF Choose
<1>5. ASSUME NEW c \in Fake, NEW o \in Origin, Announce(c, o)
      PROVE  Goal
  <2>1. /\ InFlight(c, o) /\ pick[c][o].step = "naming"
        /\ UNCHANGED <<here, latestRoomState>>
    BY <1>5 DEF Announce, InFlight
  <2>2. CASE c \in here
    <3>1. /\ Select(c, pick[c][o].champ) /\ UNCHANGED <<ended, queueVars>>
          /\ pick' = [pick EXCEPT ![c][o].step = "building"]
      BY <1>5, <2>2 DEF Announce
    <3>2. SentSelected(here) /\ \A d \in Fake \ {c} : selected'[d] = selected[d]
      BY <1>t, <1>a, <1>b, <3>1, Selected
    <3>3. /\ pick'[c][o].step = "building" /\ pick'[c][o].champ = pick[c][o].champ
          /\ \A d \in Fake, p \in Origin : d # c \/ p # o => pick'[d][p] = pick[d][p]
      <4>1. TypeOK /\ Announced(c, o)
        BY <1>t, <3>1 DEF Announced
      <4> QED BY <4>1, PickAnnounced
    <3>4. ended'[c] = "no pick"
      BY <1>b, <2>1, <3>1
    <3>5. NobodySettles
      BY <2>1, <3>1, <3>2, <3>4 DEF NobodySettles, Settled
    <3>6. NewsIsTrue
      BY <1>0, <2>1, <3>2 DEF NewsIsTrue, SentSelected
    <3>7. \A d \in here' : PickGoesOn(d)
      BY <1>a, <1>c, <2>1, <3>3 DEF PickGoesOn
    <3> QED BY <1>d, <3>5, <3>6, <3>7
  <2>3. CASE c \notin here
    BY <1>5, <1>f, <2>1, <2>3 DEF Announce, roomVars
  <2> QED BY <2>2, <2>3
<1>6. ASSUME NEW c \in Fake, NEW o \in Origin, Finish(c, o)
      PROVE  Goal
  <2>1. InFlight(c, o) /\ UNCHANGED <<here, latestRoomState>>
    BY <1>6 DEF Finish, InFlight
  <2>2. CASE c \in here /\ o = "auto"
    BY <1>6, <1>c, <2>2, SettledByAutoFollow DEF Goal
  <2>3. CASE c \in here /\ o = "hand"
    <3>1. Select(c, pick[c][o].champ) /\ Over(c, o, o)
      BY <1>6, <2>3 DEF Finish
    <3>2. SentSelected(here) /\ \A d \in Fake \ {c} : selected'[d] = selected[d]
      BY <1>t, <1>a, <1>b, <3>1, Selected
    <3>3. /\ \A d \in Fake : pick'[d]["auto"] = pick[d]["auto"]
          /\ ended'[c] = "hand" /\ \A d \in Fake \ {c} : ended'[d] = ended[d]
      <4>1. /\ \A d \in Fake, p \in Origin : d # c \/ p # o => pick'[d][p] = pick[d][p]
            /\ ended'[c] = o /\ \A d \in Fake \ {c} : ended'[d] = ended[d]
        <5>1. InFlight(c, o) /\ Over(c, o, o) /\ o \in Origin \cup {"failed"}
          BY <2>1, <3>1
        <5> QED BY <1>t, <5>1, PickOver
      <4> QED BY <1>a, <2>3, <4>1
    <3>4. NobodySettles
      BY <2>1, <3>2, <3>3 DEF NobodySettles, Settled
    <3>5. NewsIsTrue
      BY <1>0, <2>1, <3>2 DEF NewsIsTrue, SentSelected
    <3>6. \A d \in here' : PickGoesOn(d)
      BY <1>c, <2>1, <3>3 DEF PickGoesOn
    <3> QED BY <1>d, <3>4, <3>5, <3>6
  <2>4. CASE c \notin here
    BY <1>6, <1>f, <2>1, <2>4 DEF Finish, roomVars
  <2> QED BY <2>2, <2>3, <2>4 DEF Origin
<1>7. ASSUME NEW c \in Fake, NEW o \in Origin, Fail(c, o)
      PROVE  Goal
  BY <1>7, <1>f DEF Fail
<1>8. ASSUME WakeUp
      PROVE  Goal
  <2>1. current = Resting /\ RunQueue(queue) /\ UNCHANGED <<roomVars, here>>
    BY <1>8 DEF WakeUp
  <2>2. Orchestrated(Range(queue))
    BY <1>0, <2>1, QueueRuns DEF TypeOK
  <2>3. NewsIsTrue
    BY <2>1 DEF NewsIsTrue, roomVars
  <2> QED BY <1>g, <2>1, <2>2, <2>3 DEF roomVars
<1>9. ASSUME NEW c \in Fake, Spawn(c)
      PROVE  Goal
  <2>1. /\ c \notin here /\ \A o \in Origin : ~InFlight(c, o)
        /\ here' = here \cup {c} /\ Send(<<selected'>>, here') /\ selected' = selected
        /\ ended' = [ended EXCEPT ![c] = "no pick"]
        /\ UNCHANGED <<latestRoomState, pick>>
    BY <1>9 DEF Spawn, TakeSeat
  <2>2. SentSelected(here')
    <3>1. selected' \in Snapshot
      BY <1>0, <2>1 DEF TypeOK
    <3> QED BY <1>t, <2>1, <3>1, SelectedSent
  <2>3. NobodySettles
    BY <1>0, <2>1 DEF NobodySettles, Settled
  <2>4. NewsIsTrue
    BY <1>c, <2>1, <2>2 DEF NewsIsTrue, SentSelected
  <2>5. \A d \in here' : PickGoesOn(d)
    BY <1>a, <2>1 DEF PickGoesOn, InFlight
  <2> QED BY <1>d, <2>3, <2>4, <2>5
<1>10. ASSUME NEW c \in Fake, Quit(c) \/ Drop(c)
       PROVE  Goal
  <2>1. /\ here' = here \ {c} /\ ended' = [ended EXCEPT ![c] = "no pick"]
        /\ latestRoomState' = [latestRoomState EXCEPT ![c] = Nobody] /\ UNCHANGED pick
    BY <1>10 DEF Quit, Drop, Forgotten
  <2>2. /\ \A d \in Fake \ {c} : selected'[d] = selected[d]
        /\ \A d \in here' : \A state \in Range(inbox'[d]) :
             state \in Range(inbox[d]) \/ state = selected'
    <3>1. CASE Quit(c)
      <4>1. selected' = [selected EXCEPT ![c] = NoChampion] /\ Send(<<selected'>>, here')
        BY <3>1 DEF Quit
      <4>2. selected' \in Snapshot /\ \A d \in Fake \ {c} : selected'[d] = selected[d]
        BY <1>0, <1>a, <4>1 DEF TypeOK, Snapshot
      <4>3. SentSelected(here')
        BY <1>t, <4>1, <4>2, SelectedSent
      <4> QED BY <1>c, <4>2, <4>3 DEF SentSelected
    <3>2. CASE Drop(c)
      <4>1. Send(<<>>, here') /\ UNCHANGED selected
        BY <3>2 DEF Drop
      <4>2. \A d \in Fake : d \in here' => inbox'[d] = inbox[d]
        <5>1. <<>> \in Seq(Snapshot)
          BY EmptySeq
        <5> QED BY <1>t, <4>1, <5>1, Sent
      <4> QED BY <1>c, <4>1, <4>2
    <3> QED BY <1>10, <3>1, <3>2
  <2>3. NobodySettles
    BY <1>0, <2>1, <2>2 DEF NobodySettles, Settled
  <2>4. NewsIsTrue
    <3>1. \A d \in here' : latestRoomState'[d] \in {Nobody, latestRoomState[d]}
      BY <1>0, <1>c, <2>1
    <3> QED BY <2>2, <3>1 DEF NewsIsTrue
  <2>5. \A d \in here' : PickGoesOn(d)
    BY <2>1 DEF PickGoesOn
  <2> QED BY <1>d, <2>3, <2>4, <2>5
<1>11. ASSUME NEW S \in SUBSET Fake, NEW enabled \in BOOLEAN, SetAutoFollow(S, enabled)
       PROVE  Goal
  <2> DEFINE due == {c \in S : /\ enabled /\ ~autoFollow[c] /\ lifecycle[c] = "lobby"
                               /\ SomeoneElse(c, latestRoomState[c])}
  <2>1. UNCHANGED <<roomVars, here>> /\ Request(due)
    BY <1>11 DEF SetAutoFollow
  <2>2. due \in SUBSET Fake
    OBVIOUS
  <2> HIDE DEF due
  <2>3. Orchestrated(due \cup Range(queue))
    BY <1>t, <2>1, <2>2, Requested
  <2>4. NewsIsTrue
    BY <2>1 DEF NewsIsTrue, roomVars
  <2> QED BY <1>g, <2>1, <2>3, <2>4 DEF roomVars
<1>12. ASSUME NEW picks, ByHand(picks)
       PROVE  Goal
  <2>1. /\ pick' = [c \in Fake |->
             IF c \in DOMAIN picks
             THEN [pick[c] EXCEPT !["hand"] =
                     [step |-> "naming", champ |-> picks[c], avoid |-> {}]]
             ELSE pick[c]]
        /\ ended' = [c \in Fake |-> IF c \in DOMAIN picks THEN "no pick" ELSE ended[c]]
        /\ UNCHANGED <<roomVars, here>>
    BY <1>12 DEF ByHand, StartByHand
  <2>2. \A c \in Fake : pick'[c]["auto"] = pick[c]["auto"]
    <3>1. pick \in [Fake -> [Origin -> Pick]]
      BY <1>0 DEF TypeOK
    <3> HIDE DEF Pick
    <3> QED BY <1>a, <2>1, <3>1
  <2>3. NobodySettles
    BY <2>1 DEF NobodySettles, Settled, roomVars
  <2>4. NewsIsTrue
    BY <2>1 DEF NewsIsTrue, roomVars
  <2>5. \A d \in here' : PickGoesOn(d)
    BY <1>c, <2>1, <2>2 DEF PickGoesOn
  <2> QED BY <1>d, <2>3, <2>4, <2>5
<1>13. ASSUME NEW S \in SUBSET Fake, BackToLobby(S)
       PROVE  Goal
  <2>1. /\ ended' = [c \in Fake |-> IF c \in S THEN "no pick" ELSE ended[c]]
        /\ UNCHANGED <<here, latestRoomState, pick>>
    BY <1>13 DEF BackToLobby
  <2>2. /\ selected' = [m \in Client |-> IF m \in S THEN NoChampion ELSE selected[m]]
        /\ \A c \in here : \A state \in Range(inbox'[c]) :
             state \in Range(inbox[c]) \/ \A m \in Client \ S : state[m] = selected[m]
    BY <1>0, <1>13, LobbySent
  <2>3. NobodySettles
    BY <1>a, <2>1, <2>2 DEF NobodySettles, Settled
  <2>4. NewsIsTrue
    <3>1. \A d \in Fake : Settled(d)' => d \in Client \ S /\ selected'[d] = selected[d]
      BY <1>a, <2>1, <2>2 DEF Settled
    <3> QED BY <2>1, <2>2, <3>1 DEF NewsIsTrue
  <2>5. \A d \in here' : PickGoesOn(d)
    BY <2>1 DEF PickGoesOn
  <2> QED BY <1>d, <2>3, <2>4, <2>5
<1>14. ASSUME UNCHANGED vars
       PROVE  Goal
  <2>1. NobodySettles /\ NewsIsTrue
    BY <1>14 DEF NobodySettles, NewsIsTrue, Settled, vars, roomVars, pickVars
  <2>2. \A d \in here' : PickGoesOn(d)
    BY <1>14 DEF PickGoesOn, vars, pickVars
  <2> QED BY <1>d, <2>1, <2>2
<1>15. Goal
  BY <1>t, <1>1, <1>2, <1>3, <1>4, <1>5, <1>6, <1>7, <1>8, <1>9, <1>10, <1>11, <1>12,
     <1>13, <1>14, StepCases
<1> QED BY <1>c, <1>15 DEF Goal, FollowInv

\* README.md of the simulator, "Centralized auto-follow sequencing": the clients
\* that follow end up on different champions, whatever they were looking at.
THEOREM FollowersEndUpApart ==
  ASSUME ~Meddling, Prompt
  PROVE  Spec => []FollowersDiffer
<1>1. Init => FollowInv
  <2>1. Init => here = {}
    BY DEF Init
  <2> QED BY <2>1, CarefulInit
      DEF FollowInv, TheSettledAreKnown, TheSettledAreAvoided, TheSettledDiffer, Settled
<1>2. FollowInv => FollowersDiffer
  <2> SUFFICES ASSUME FollowInv, NEW c \in here, NEW d \in here, c # d,
                      Followed(c), Followed(d)
               PROVE  selected[c] # selected[d]
    BY DEF FollowersDiffer
  <2>1. /\ c \in Fake /\ d \in Fake /\ OnePickAtATime /\ IsCareful(c) /\ IsCareful(d)
        /\ "auto" \in Origin
    BY DEF FollowInv, CarefulInv, SafeInv, TypeOK, Origin
  <2>2. ASSUME NEW e \in {c, d}, pick[e]["auto"].step = "building"
        PROVE  selected[e] = pick[e]["auto"].champ /\ current = e
    BY <2>1, <2>2 DEF IsCareful, PickIsSound, OnePickAtATime, InFlight
  <2>3. CASE ended[c] = "auto" /\ ended[d] = "auto"
    BY <2>1, <2>3 DEF FollowInv, TheSettledDiffer, Settled
  <2>4. CASE ended[c] = "auto" /\ pick[d]["auto"].step = "building"
    BY <2>1, <2>2, <2>4 DEF FollowInv, TheSettledAreAvoided, Settled
  <2>5. CASE pick[c]["auto"].step = "building" /\ ended[d] = "auto"
    BY <2>1, <2>2, <2>5 DEF FollowInv, TheSettledAreAvoided, Settled
  <2>6. CASE pick[c]["auto"].step = "building" /\ pick[d]["auto"].step = "building"
    BY <2>2, <2>6
  <2> QED BY <2>3, <2>4, <2>5, <2>6 DEF Followed
<1>3. FollowInv /\ [Next]_vars => FollowInv'
  BY FollowNext
<1> QED BY <1>1, <1>2, <1>3, PTL DEF Spec
=============================================================================
