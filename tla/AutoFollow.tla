----------------------------- MODULE AutoFollow -----------------------------
(***************************************************************************)
(* The simulator (tools/simulator): fake clients in one room, each with    *)
(* its own copy of the room, and the orchestrator that makes them pick a   *)
(* champion once somebody else has one.                                    *)
(*                                                                         *)
(* The simulator is one Node process, and every await is a point where     *)
(* room-states and other picks come in between.  A pick waits three times: *)
(* for the skin lines of all champions (choosing), for the champion's name *)
(* (naming), and for its skins and chromas (building); it emits            *)
(* update-selection after the second wait and owned-options after the      *)
(* third.  Of the server the module keeps what room-states say of          *)
(* champions.  A room-state takes its time to each client, in order; the   *)
(* way of an event to the server is counted as part of that time.          *)
(*                                                                         *)
(* The operator's menu runs one command at a time and waits for the picks  *)
(* it starts.  Scores of candidates are left out: a pick is any champion   *)
(* that is not excluded.                                                   *)
(***************************************************************************)
EXTENDS Integers, FiniteSets, Sequences, SequencesExt

CONSTANTS
  Fake,         \* fake clients the operator may create
  Player,       \* the operator's own client, in the same room
  Champion,     \* champions
  Themed,       \* those that have a skin of a skin line
  NoChampion,   \* championId 0
  Idle,         \* the orchestrator is not running
  Resting,      \* the orchestrator sleeps for gapMs
  Prompt,       \* room-states, which stay on localhost, land before a request
                \* to Community Dragon is answered
  Meddling,     \* may the operator pick by hand for a client that follows?
  MaxInFlight   \* bound: the operator acts when no client has more
                \* room-states than this to come

ASSUME SimulatorAssumption ==
  /\ IsFiniteSet(Fake) /\ Player \notin Fake
  /\ NoChampion \notin Champion /\ Themed \subseteq Champion
  /\ Idle # Resting /\ Idle \notin Fake /\ Resting \notin Fake
  /\ Prompt \in BOOLEAN /\ Meddling \in BOOLEAN /\ MaxInFlight \in Nat

Client   == Fake \cup {Player}
Choice   == Champion \cup {NoChampion}
Snapshot == [Client -> Choice]
Origin   == {"auto", "hand"}    \* an auto-pick, or a command of the operator
Pick     == [step : {"none", "choosing", "naming", "building"},
             champ : Choice, avoid : SUBSET Champion]
NoPick   == [step |-> "none", champ |-> NoChampion, avoid |-> {}]
Nobody   == [m \in Client |-> NoChampion]

VARIABLES
  selected,         \* the server's Member.championId, NoChampion if not seated
  inbox,            \* room-states under way to a client
  here,             \* fakes whose room socket is connected
  latestRoomState,  \* FakeClient.latestRoomState: the champions in it
  lifecycle,        \* FakeClient.lifecycle
  championId,       \* FakeClient.championId
  autoFollow,       \* FakeClient.autoFollowEnabled
  pick,             \* the picks of a client that are under way
  ended,            \* how its last pick ended
  queue,            \* DraftOrchestrator.queue
  current           \* who it picks for, or Idle, or Resting

roomVars  == <<selected, inbox, latestRoomState>>
localVars == <<lifecycle, championId, autoFollow>>
pickVars  == <<pick, ended>>
queueVars == <<queue, current>>
vars == <<roomVars, here, localVars, pickVars, queueVars>>

TypeOK ==
  /\ selected \in Snapshot
  /\ inbox \in [Fake -> Seq(Snapshot)]
  /\ here \subseteq Fake
  /\ latestRoomState \in [Fake -> Snapshot]
  /\ lifecycle \in [Fake -> {"lobby", "in-draft"}]
  /\ championId \in [Fake -> Choice]
  /\ autoFollow \in [Fake -> BOOLEAN]
  /\ pick \in [Fake -> [Origin -> Pick]]
  /\ ended \in [Fake -> Origin \cup {"no pick", "failed"}]
  /\ queue \in Seq(Fake) /\ IsInjective(queue)
  /\ current \in Fake \cup {Idle, Resting}

-----------------------------------------------------------------------------
(* Helpers *)

\* Somebody else in this room-state has a champion.
SomeoneElse(c, state) == \E m \in Client \ {c} : state[m] # NoChampion

\* The champions of the others, which pickOneOptimalChampion excludes.
Taken(c, state) == {state[m] : m \in Client \ {c}} \ {NoChampion}

InFlight(c, o) == pick[c][o].step # "none"

\* The menu waits for the picks it started.
MenuFree == \A c \in Fake : ~InFlight(c, "hand")
Calm     == \A c \in Fake : Len(inbox[c]) <= MaxInFlight
Command  == MenuFree /\ Calm

\* Mutant: the lifecycle is not looked at.
InDraftOrNot == here

\* The clients leaveChampSelect does something for.
InDraft == {c \in here : lifecycle[c] = "in-draft"}

\* These states of the room go out, in this order, to the clients in it.
Send(states, present) ==
  inbox' = [c \in Fake |-> IF c \in present THEN inbox[c] \o states ELSE <<>>]

\* The server stores a champion and broadcasts.
Select(m, x) ==
  /\ selected' = [selected EXCEPT ![m] = x]
  /\ Send(<<selected'>>, here)

\* The rest of gapMs and a request for skins outlast the room-states under way.
Landed == Prompt => \A c \in Fake : inbox[c] = <<>>

\* The re-validation of runQueue.
StillDue(c) ==
  /\ c \in here /\ autoFollow'[c] /\ lifecycle[c] = "lobby"
  /\ SomeoneElse(c, latestRoomState'[c])

\* autoPickChampion, to its first await.
Begin(c) ==
  /\ pick' = [pick EXCEPT ![c]["auto"] =
       [step |-> "choosing", champ |-> NoChampion,
        avoid |-> Taken(c, latestRoomState'[c])]]
  /\ ended' = [ended EXCEPT ![c] = "no pick"]

\* Mutant: the first request that is no longer due ends the loop.
RunQueueOnce(q) ==
  IF q # <<>> /\ StillDue(Head(q))
  THEN queue' = Tail(q) /\ current' = Head(q) /\ Begin(Head(q))
  ELSE queue' = q /\ current' = Idle /\ UNCHANGED pickVars

\* The loop of runQueue, to the next pick: requests that are no longer due are
\* dropped.
RunQueue(q) ==
  LET due == {i \in DOMAIN q : StillDue(q[i])}
  IN  IF due = {}
      THEN queue' = <<>> /\ current' = Idle /\ UNCHANGED pickVars
      ELSE \E i \in due :
             /\ \A k \in due : i <= k
             /\ queue' = SubSeq(q, i + 1, Len(q))
             /\ current' = q[i]
             /\ Begin(q[i])

\* The clients of S one after the other, in any order.
Orders(S) == Bijection(1..Cardinality(S), S)

\* Mutant: every request starts a loop of its own.
RequestAtOnce(S) ==
  /\ pick' = [c \in Fake |->
       IF c \in S /\ StillDue(c)
       THEN [pick[c] EXCEPT !["auto"] =
               [step |-> "choosing", champ |-> NoChampion,
                avoid |-> Taken(c, latestRoomState'[c])]]
       ELSE pick[c]]
  /\ UNCHANGED <<ended, queueVars>>

\* Mutant: a request is queued whether or not one is waiting.
RequestAgain(S) ==
  \E order \in Orders(S) :
    IF current = Idle THEN RunQueue(order)
    ELSE queue' = queue \o order /\ UNCHANGED <<current, pickVars>>

\* requestPick, for each client of S that is not already queued.
Request(S) ==
  LET new == S \ Range(queue)
  IN  IF new = {} THEN UNCHANGED <<pickVars, queueVars>>
      ELSE \E order \in Orders(new) :
             IF current = Idle THEN RunQueue(order)
             ELSE queue' = queue \o order /\ UNCHANGED <<current, pickVars>>

\* A pick is over.  If it was the orchestrator's, the loop goes on after a
\* rest, or ends when nothing is queued.
Over(c, o, how) ==
  /\ pick' = [pick EXCEPT ![c][o] = NoPick]
  /\ ended' = [ended EXCEPT ![c] = how]
  /\ current' = IF o = "hand" THEN current
                ELSE IF queue = <<>> THEN Idle ELSE Resting
  /\ UNCHANGED queue

-----------------------------------------------------------------------------
Init ==
  /\ selected = Nobody
  /\ inbox = [c \in Fake |-> <<>>]
  /\ here = {}
  /\ latestRoomState = [c \in Fake |-> Nobody]
  /\ lifecycle = [c \in Fake |-> "lobby"]
  /\ championId = [c \in Fake |-> NoChampion]
  /\ autoFollow = [c \in Fake |-> FALSE]
  /\ pick = [c \in Fake |-> [o \in Origin |-> NoPick]]
  /\ ended = [c \in Fake |-> "no pick"]
  /\ queue = <<>> /\ current = Idle

(* The room *)

\* The operator's own client selects a champion, another one, or none.
PlayerSelects(x) ==
  /\ Calm /\ x # selected[Player]
  /\ Select(Player, x)
  /\ UNCHANGED <<here, latestRoomState, localVars, pickVars, queueVars>>

\* A client looks at a room-state only if it has no auto-pick under way.
Busy(c) == InFlight(c, "auto")

\* The room-state handler of connectRoom.
Deliver(c) ==
  /\ inbox[c] # <<>>
  /\ latestRoomState' = [latestRoomState EXCEPT ![c] = Head(inbox[c])]
  /\ inbox' = [inbox EXCEPT ![c] = Tail(@)]
  /\ UNCHANGED <<selected, here, localVars>>
  /\ IF /\ autoFollow[c] /\ lifecycle[c] = "lobby" /\ ~Busy(c)
        /\ SomeoneElse(c, Head(inbox[c]))
     THEN Request({c})
     ELSE UNCHANGED <<pickVars, queueVars>>

(* Picks *)

\* autoPickChampion goes on: a champion is chosen from what was known when the
\* pick began, and enterChampSelect looks at the lifecycle.
Choose(c) ==
  LET p == pick[c]["auto"]
  IN  /\ p.step = "choosing"
      /\ \/ /\ Themed \subseteq p.avoid
            /\ Over(c, "auto", "failed")
            /\ UNCHANGED championId
         \/ \E x \in Themed \ p.avoid :
              IF lifecycle[c] = "in-draft" /\ championId[c] = x
              THEN Over(c, "auto", "auto") /\ UNCHANGED championId
              ELSE /\ championId' = [championId EXCEPT ![c] = x]
                   /\ pick' = [pick EXCEPT ![c]["auto"] =
                        [step |-> "naming", champ |-> x, avoid |-> {}]]
                   /\ UNCHANGED <<ended, queueVars>>
  /\ UNCHANGED <<roomVars, here, lifecycle, autoFollow>>

\* applyChampion knows the name: update-selection, or an error for a client
\* whose socket is gone.
Announce(c, o) ==
  /\ pick[c][o].step = "naming"
  /\ IF c \in here
     THEN /\ Select(c, pick[c][o].champ)
          /\ pick' = [pick EXCEPT ![c][o].step = "building"]
          /\ UNCHANGED <<ended, queueVars>>
     ELSE Over(c, o, "failed") /\ UNCHANGED <<selected, inbox>>
  /\ UNCHANGED <<here, latestRoomState, localVars>>

\* applyChampion has the options: owned-options, and the client is in draft.
Finish(c, o) ==
  /\ pick[c][o].step = "building"
  /\ Landed
  /\ IF c \in here
     THEN /\ Select(c, pick[c][o].champ)
          /\ lifecycle' = [lifecycle EXCEPT ![c] = "in-draft"]
          /\ Over(c, o, o)
     ELSE /\ Over(c, o, "failed")
          /\ UNCHANGED <<selected, inbox, lifecycle>>
  /\ UNCHANGED <<here, latestRoomState, championId, autoFollow>>

\* A request to Community Dragon fails: the pick ends where it stands.
Fail(c, o) ==
  /\ InFlight(c, o)
  /\ pick[c][o].step = "building" => Landed
  /\ Over(c, o, "failed")
  /\ UNCHANGED <<roomVars, here, localVars>>

\* The rest of gapMs is over.
WakeUp ==
  /\ current = Resting /\ Landed
  /\ UNCHANGED <<roomVars, here, localVars>>
  /\ RunQueue(queue)

(* The operator's menu *)

\* joinRoom, with the room-state that greets the newcomer.
TakeSeat(c) ==
  /\ here' = here \cup {c}
  /\ Send(<<selected>>, here')

\* [1], [2], [3]: a fresh client takes its seat, in the lobby.
Spawn(c) ==
  /\ Command /\ c \notin here /\ selected[c] = NoChampion
  /\ \A o \in Origin : ~InFlight(c, o)
  /\ c \notin Range(queue)
  /\ TakeSeat(c)
  /\ championId' = [championId EXCEPT ![c] = NoChampion]
  /\ ended' = [ended EXCEPT ![c] = "no pick"]
  /\ UNCHANGED <<selected, latestRoomState, lifecycle, autoFollow, pick, queueVars>>

\* What a client without sockets knew is not read again, but a pick under way
\* goes on to its next emit.
Forgotten(c) ==
  /\ here' = here \ {c}
  /\ latestRoomState' = [latestRoomState EXCEPT ![c] = Nobody]
  /\ lifecycle' = [lifecycle EXCEPT ![c] = "lobby"]
  /\ championId' = [championId EXCEPT ![c] = NoChampion]
  /\ autoFollow' = [autoFollow EXCEPT ![c] = FALSE]
  /\ ended' = [ended EXCEPT ![c] = "no pick"]

\* [L]: leave-room, and the sockets are closed.
Quit(c) ==
  /\ Command /\ c \in here
  /\ Forgotten(c)
  /\ selected' = [selected EXCEPT ![c] = NoChampion]
  /\ Send(<<selected'>>, here')
  /\ UNCHANGED <<pick, queueVars>>

\* [x]: the sockets are closed.  The server keeps the seat, champion and all,
\* for its grace period.
Drop(c) ==
  /\ Command /\ c \in here
  /\ Forgotten(c)
  /\ Send(<<>>, here')
  /\ UNCHANGED <<selected, pick, queueVars>>

\* The server's sweep takes the seat back.
Swept(c) ==
  /\ Calm /\ c \notin here /\ selected[c] # NoChampion
  /\ Select(c, NoChampion)
  /\ UNCHANGED <<here, latestRoomState, localVars, pickVars, queueVars>>

\* setAutoFollow on each client of S.
SetAutoFollow(S, enabled) ==
  LET due == {c \in S : /\ enabled /\ ~autoFollow[c] /\ lifecycle[c] = "lobby"
                        /\ SomeoneElse(c, latestRoomState[c])}
  IN  /\ Command
      /\ autoFollow' = [c \in Fake |-> IF c \in S THEN enabled ELSE autoFollow[c]]
      /\ UNCHANGED <<roomVars, here, lifecycle, championId>>
      /\ Request(due)

\* [F].
Toggle(c) == c \in here /\ SetAutoFollow({c}, ~autoFollow[c])

\* [8]: off for the clients in the lobby if it is on for all of them.
ToggleAll ==
  LET lobby == here \ InDraft
  IN  /\ lobby # {}
      /\ SetAutoFollow(lobby, \E c \in lobby : ~autoFollow[c])

\* [3] ends with this, when its clients have taken their seats.
FollowAll == SetAutoFollow(here \ InDraft, TRUE)

\* The operator starts a pick of x for c, in or out of champion select.
StartByHand(picks) ==
  /\ championId' =
       [c \in Fake |-> IF c \in DOMAIN picks THEN picks[c] ELSE championId[c]]
  /\ pick' = [c \in Fake |->
       IF c \in DOMAIN picks
       THEN [pick[c] EXCEPT !["hand"] =
               [step |-> "naming", champ |-> picks[c], avoid |-> {}]]
       ELSE pick[c]]
  /\ ended' = [c \in Fake |-> IF c \in DOMAIN picks THEN "no pick" ELSE ended[c]]
  /\ UNCHANGED <<roomVars, here, lifecycle, autoFollow, queueVars>>

\* The clients the operator may pick for by hand.
Drivable ==
  {c \in here : Meddling \/ (~autoFollow[c] /\ ~InFlight(c, "auto")
                             /\ c \notin Range(queue))}

\* [c]: enterChampSelect or changeChampion.
PickByHand(c, x) ==
  /\ Command /\ c \in Drivable
  /\ StartByHand([d \in {c} |-> x])

\* pickOptimalChampions: different champions of `free`, one for each client;
\* some go without when the champions run out.
OptimalPicks(clients, free) ==
  UNION {Injection(who, free) : who \in
    {S \in SUBSET clients \ {{}} :
       S = clients \/ Cardinality(S) = Cardinality(free)}}

\* [7]: everybody in the lobby picks at once, champions that no fake in draft
\* has and that are not the one the operator says the player will take.
AutoDraftAll ==
  LET lobby == {c \in here : lifecycle[c] = "lobby"}
      free  == Themed \ {championId[c] : c \in here \ lobby}
  IN  /\ Command /\ lobby # {} /\ lobby \subseteq Drivable
      /\ \E target \in Choice :
           \E picks \in OptimalPicks(lobby, free \ {target}) : StartByHand(picks)

\* [u] for one client, [9] for all: leaveChampSelect of each in turn, which
\* does nothing for a client in the lobby.
BackToLobby(S) ==
  /\ Command /\ S # {}
  /\ S \subseteq InDraft
  /\ \E order \in Orders(S) :
       LET Without(n) == [m \in Client |->
             IF \E i \in 1..n : order[i] = m THEN NoChampion ELSE selected[m]]
       IN  /\ selected' = Without(Cardinality(S))
           /\ Send([n \in 1..Cardinality(S) |-> Without(n)], here)
  /\ lifecycle' = [c \in Fake |-> IF c \in S THEN "lobby" ELSE lifecycle[c]]
  /\ championId' = [c \in Fake |-> IF c \in S THEN NoChampion ELSE championId[c]]
  /\ ended' = [c \in Fake |-> IF c \in S THEN "no pick" ELSE ended[c]]
  /\ UNCHANGED <<here, latestRoomState, autoFollow, pick, queueVars>>

Reset == BackToLobby(InDraft)

-----------------------------------------------------------------------------
\* What the process owes a pick: each of its requests is answered or refused.
Answer(c, o) == Announce(c, o) \/ Finish(c, o) \/ Fail(c, o)
                \/ (o = "auto" /\ Choose(c))

\* The menu for one client.
PilotClient(c) ==
  \/ \E x \in Champion : PickByHand(c, x)
  \/ Toggle(c)
  \/ BackToLobby({c})
  \/ Quit(c)
  \/ Drop(c)

MainMenu ==
  \/ \E c \in Fake : Spawn(c) \/ PilotClient(c)
  \/ FollowAll \/ AutoDraftAll \/ ToggleAll \/ Reset

Next ==
  \/ \E x \in Choice : PlayerSelects(x)
  \/ \E c \in Fake : Swept(c)
  \/ \E c \in Fake : Deliver(c)
  \/ \E c \in Fake, o \in Origin : Answer(c, o)
  \/ WakeUp
  \/ MainMenu

\* Messages arrive, requests are answered, timers fire.  The operator and the
\* player owe nothing.
Fairness ==
  /\ \A c \in Fake : WF_vars(Deliver(c))
  /\ \A c \in Fake, o \in Origin : WF_vars(Answer(c, o))
  /\ WF_vars(WakeUp)

Spec == Init /\ [][Next]_vars /\ Fairness

-----------------------------------------------------------------------------
(* What the simulator promises *)

\* c has a champion by auto-pick.
Followed(c) == ended[c] = "auto" \/ pick[c]["auto"].step = "building"

\* README.md, "Centralized auto-follow sequencing": fakes that follow end up on
\* different champions, whatever room-states they were looking at.
FollowersDiffer ==
  \A c, d \in here :
    c # d /\ Followed(c) /\ Followed(d) => selected[c] # selected[d]

\* cli.ts:55-58, "processes the queue strictly sequentially": the orchestrator
\* never has two picks under way, whatever requests come in while it waits.
SequentialPicks ==
  \A c, d \in Fake : InFlight(c, "auto") /\ InFlight(d, "auto") => c = d

\* Nobody is forgotten by the orchestrator: a follower in the lobby that has
\* seen all there is to see, with the player in champion select, is queued or
\* picking, or its last pick came to nothing.
NoForgottenFollower ==
  \A c \in here :
    autoFollow[c] /\ lifecycle[c] = "lobby" /\ inbox[c] = <<>>
      /\ SomeoneElse(c, selected) =>
        \/ ended[c] = "failed" \/ InFlight(c, "auto")
        \/ c \in Range(queue)

\* What a client believes of itself is what the server shows of it, once its
\* picks have ended, unless the last one failed half-way.
BelievesTheServer ==
  \A c \in here :
    (\A o \in Origin : ~InFlight(c, o)) /\ ended[c] # "failed" =>
      /\ selected[c] = championId[c]
      /\ lifecycle[c] = "lobby" <=> championId[c] = NoChampion

\* README.md:85 of the simulator: an auto-pick is not started from thin air.
SomebodyIsThere ==
  \A c \in Fake : ~InFlight(c, "auto") /\ pick'[c]["auto"].step = "choosing" =>
    \E m \in Client \ {c} :
      selected[m] # NoChampion \/ (m \in Fake /\ \E o \in Origin : InFlight(m, o))
NoPickFromThinAir == [][SomebodyIsThere]_vars
=============================================================================
