-------------------------------- MODULE Draft --------------------------------
(***************************************************************************)
(* The draft half of one open room: what each member has selected, the     *)
(* skins they can share (synergy), and the combos the server puts on them. *)
(*                                                                         *)
(* The module models recomputeSynergy and the pick generators of           *)
(* room.service.ts with the handlers of server.ts that call them.  Who may *)
(* join, leave or own the room is RoomLifecycle's business: here members   *)
(* come and go freely, and since a room always has an owner among its      *)
(* members (OwnerIsOldest), the owner's requests name no member.           *)
(*                                                                         *)
(* A look is a pair (skinId, chromaId).  A combo dresses a member in the   *)
(* skin of one of its options, with the option's chroma (colour combos) or *)
(* with chroma 0 (skin line combos); a look the player chose is OwnPick.   *)
(* The order of the synergy lists (coverage, combinationCount) is left out:*)
(* no choice below depends on it.  So is the order of members and of a     *)
(* member's options; which colours are left out past the cap of            *)
(* recomputeSynergy depends on it, and is left open.                       *)
(***************************************************************************)
EXTENDS Integers, FiniteSets, Sequences, Functions

CONSTANTS
  Member,
  Champion,      \* champions one can select
  NoChampion,    \* championId 0
  Option,        \* GroupSkinOption: a skin with a chroma
  ChampionOf,    \* the champion an option belongs to, as its owner knows
  Color, NoColor,
  ColorOf,       \* auraColor, NoColor for null
  Line, NoLine,
  LineOf,        \* skinLineId, NoLine for undefined
  Base,          \* the skin line of base skins (id 1)
  Owned,         \* the option lists clients have to send
  OwnPick,       \* any look the player chose
  NoCombo,       \* no activeSynergy yet
  MaxColors,     \* MAX_DISTINCT_AURA_COLORS
  MaxMembers,    \* 5
  HistoryLimit   \* GROUP_HISTORY_LIMIT

ASSUME DraftAssumption ==
  /\ IsFiniteSet(Member)
  /\ NoChampion \notin Champion /\ NoColor \notin Color /\ NoLine \notin Line
  /\ ChampionOf \in [Option -> Champion]
  /\ ColorOf \in [Option -> Color \cup {NoColor}]
  /\ LineOf \in [Option -> Line \cup {NoLine}]
  /\ Owned \subseteq SUBSET Option
  /\ OwnPick \notin Option \X {"chroma", "plain"}
  /\ Color \cap Line = {} /\ NoCombo \notin Color \cup Line
  /\ MaxColors \in Nat /\ MaxMembers \in Nat \ {0} /\ HistoryLimit \in Nat \ {0}

VARIABLES
  members,          \* keys of Room.members
  bots,             \* those among them that addBots made
  champion,         \* Member.championId
  options,          \* Member.options, {} for none
  isReady,          \* Member.isReady
  lockedSkin,       \* Member.lockedSkin
  look,             \* (Member.skinId, Member.chromaId)
  synergy,          \* Room.synergy
  colorsTruncated,  \* history: whether that left colours out
  history,          \* colours of Room.history
  skinLineHistory,  \* lines of Room.skinLineHistory
  activeSynergy,    \* what Room.activeSynergy applied last
  recent            \* whether that was less than 5 s ago

memberVars == <<members, bots>>
choiceVars == <<champion, options, isReady, lockedSkin>>
synergyVars == <<synergy, colorsTruncated>>
comboVars  == <<look, history, skinLineHistory, activeSynergy, recent>>
vars == <<memberVars, choiceVars, comboVars, synergyVars>>

Combo == Color \cup Line
Look  == (Option \X {"chroma", "plain"}) \cup {OwnPick}

TypeOK ==
  /\ members \subseteq Member /\ members # {} /\ bots \subseteq members
  /\ champion \in [Member -> Champion \cup {NoChampion}]
  /\ options \in [Member -> SUBSET Option]
  /\ isReady \in [Member -> BOOLEAN]
  /\ lockedSkin \in [Member -> BOOLEAN]
  /\ look \in [Member -> Look]
  /\ synergy \in [colors : [Color -> SUBSET Member], skinLines : [Line -> SUBSET Member]]
  /\ colorsTruncated \in BOOLEAN
  /\ history \in Seq(Color) /\ Len(history) <= HistoryLimit
  /\ skinLineHistory \in Seq(Line) /\ Len(skinLineHistory) <= HistoryLimit
  /\ activeSynergy \in Combo \cup {NoCombo}
  /\ recent \in BOOLEAN

-----------------------------------------------------------------------------
(* Synergy *)

\* Two participants make an entry; fewer make none.
Entry(participants) ==
  IF Cardinality(participants) >= 2 THEN participants ELSE {}

Offered(entries) == {x \in DOMAIN entries : entries[x] # {}}

\* Whoever has an option of that colour, or of that line, if there are two.
Sharing(seated, opts, kind, x) ==
  Entry({m \in seated : \E o \in opts[m] : kind[o] = x})

ColorsListed(seated, opts) ==
  {ColorOf[o] : o \in UNION {opts[m] : m \in seated}} \ {NoColor}

TooManyColors(seated, opts) == Cardinality(ColorsListed(seated, opts)) > MaxColors

\* Mutant: at the cap the last colour is not collected any more.
CollectedShort(seated, opts) ==
  IF Cardinality(ColorsListed(seated, opts)) < MaxColors
  THEN {ColorsListed(seated, opts)}
  ELSE {found \in SUBSET ColorsListed(seated, opts) : Cardinality(found) = MaxColors - 1}

\* allColors of recomputeSynergy, collected member by member until the cap is
\* reached: all the colours of some members, and some of the next one's.
Collected(seated, opts) ==
  IF TooManyColors(seated, opts)
  THEN {found \in SUBSET ColorsListed(seated, opts) :
          /\ Cardinality(found) = MaxColors
          /\ \E done \in SUBSET seated, m \in seated :
               /\ ColorsListed(done, opts) \subseteq found
               /\ found \subseteq ColorsListed(done \cup {m}, opts)}
  ELSE {ColorsListed(seated, opts)}

\* What recomputeSynergy publishes: who can wear each collected colour and each
\* skin line.  Base counts only when no other line does.
SynergyOf(seated, opts, collected) ==
  LET lines == [l \in Line |-> Sharing(seated, opts, LineOf, l)]
      shown == IF Offered(lines) = {Base} THEN {Base} ELSE Offered(lines) \ {Base}
  IN  [colors |-> [c \in Color |->
                     IF c \in collected THEN Sharing(seated, opts, ColorOf, c) ELSE {}],
       skinLines |-> [l \in Line |-> IF l \in shown THEN lines[l] ELSE {}]]

recomputeSynergy(seated, opts) ==
  /\ \E collected \in Collected(seated, opts) :
       synergy' = SynergyOf(seated, opts, collected)
  /\ colorsTruncated' = TooManyColors(seated, opts)

\* getAvailableSynergies, getAvailableSkinLineSynergies: those not used lately,
\* or all of them when every one was.
Available(entries, past) ==
  LET fresh == Offered(entries) \ Range(past)
  IN  IF fresh # {} THEN fresh ELSE Offered(entries)

\* Mutant: the history is never trimmed.
PushOnly(past, x) == Append(past, x)

\* addToHistory, addSkinLineToHistory: first in, first out.
Push(past, x) ==
  IF Len(past) < HistoryLimit THEN Append(past, x) ELSE Append(Tail(past), x)

(* Combos *)

OfColor(c) == {o \in Option : ColorOf[o] = c}
OfLine(l)  == {o \in Option : LineOf[o] = l}

\* Mutant: the lock is not consulted.
AllChoices(opts, pool) == [m \in Member |-> opts[m] \cap pool]

\* The options of each member a combo may pick from; a locked member has none.
Choices(opts, pool) ==
  [m \in Member |-> IF lockedSkin[m] THEN {} ELSE opts[m] \cap pool]

\* Every member with a choice wears one of its options, the others keep on
\* what they wear.
Dress(choices, finish) ==
  LET dressed == {m \in Member : choices[m] # {}}
  IN  \E pick \in [dressed -> Option] :
        /\ \A m \in dressed : pick[m] \in choices[m]
        /\ look' = [m \in Member |->
                      IF m \in dressed THEN <<pick[m], finish>> ELSE look[m]]

\* The bookkeeping of generateColorPicks and applyColorSynergy.
WearColor(c, choices) ==
  /\ Dress(choices, "chroma")
  /\ history' = Push(history, c)
  /\ activeSynergy' = c /\ recent' = TRUE
  /\ UNCHANGED skinLineHistory

\* The bookkeeping of generateSkinLinePicks and applySkinLineSynergy.
WearLine(l, choices) ==
  /\ Dress(choices, "plain")
  /\ skinLineHistory' = Push(skinLineHistory, l)
  /\ activeSynergy' = l /\ recent' = TRUE
  /\ UNCHANGED history

\* Everybody seated has a champion and options, and there are two of them.
Complete(seated, champs, opts) ==
  /\ Cardinality(seated) >= 2
  /\ \A m \in seated : champs[m] # NoChampion /\ opts[m] # {}

\* shouldAutoApply.
ShouldAutoApply(champs, opts, syn) ==
  /\ Complete(members, champs, opts)
  /\ Offered(syn.skinLines) # {} \/ Offered(syn.colors) # {}
  /\ ~recent

\* generateAutoApplyPicks: a skin line if there is one, else a colour.
AutoApply(opts, syn) ==
  LET lines == Available(syn.skinLines, skinLineHistory)
  IN  IF lines # {}
      THEN \E l \in lines : WearLine(l, Choices(opts, OfLine(l)))
      ELSE \E c \in Available(syn.colors, history) :
             WearColor(c, Choices(opts, OfColor(c)))

-----------------------------------------------------------------------------
\* createRoom, and createBotRoom, whose owner comes ready with a champion.
Init ==
  /\ \E owner \in Member, c \in Champion \cup {NoChampion} :
       /\ members = {owner}
       /\ champion = [m \in Member |-> IF m = owner THEN c ELSE NoChampion]
       /\ isReady = [m \in Member |-> m = owner /\ c # NoChampion]
  /\ bots = {}
  /\ options = [m \in Member |-> {}]
  /\ lockedSkin = [m \in Member |-> FALSE]
  /\ look = [m \in Member |-> OwnPick]
  /\ synergy = SynergyOf({}, options, {})
  /\ colorsTruncated = FALSE
  /\ history = <<>> /\ skinLineHistory = <<>>
  /\ activeSynergy = NoCombo
  /\ recent = FALSE

\* joinRoom: a blank member, and the synergy stays as it is.
JoinRoom(m) ==
  /\ m \notin members /\ Cardinality(members) < MaxMembers
  /\ members' = members \cup {m}
  /\ UNCHANGED <<bots, choiceVars, comboVars, synergyVars>>

\* addBots: ready, with a champion and no options; the synergy is recomputed.
AddBots(new) ==
  /\ new # {} /\ new \cap members = {}
  /\ Cardinality(members \cup new) <= MaxMembers
  /\ members' = members \cup new
  /\ bots' = bots \cup new
  /\ \E c \in Champion :
       champion' = [m \in Member |-> IF m \in new THEN c ELSE champion[m]]
  /\ isReady' = [m \in Member |-> m \in new \/ isReady[m]]
  /\ recomputeSynergy(members', options)
  /\ UNCHANGED <<options, lockedSkin, comboVars>>

\* A seat given up takes all that was chosen on it along.
Vacate(gone) ==
  /\ members' = members \ gone
  /\ bots' = bots \ gone
  /\ champion' = [m \in Member |-> IF m \in gone THEN NoChampion ELSE champion[m]]
  /\ options' = [m \in Member |-> IF m \in gone THEN {} ELSE options[m]]
  /\ isReady' = [m \in Member |-> m \notin gone /\ isReady[m]]
  /\ lockedSkin' = [m \in Member |-> m \notin gone /\ lockedSkin[m]]
  /\ look' = [m \in Member |-> IF m \in gone THEN OwnPick ELSE look[m]]

\* Mutant: a removal does not recompute.
RemoveOnly(gone) ==
  /\ gone # {} /\ gone \subseteq members /\ gone # members
  /\ Vacate(gone)
  /\ UNCHANGED <<synergyVars, history, skinLineHistory, activeSynergy, recent>>

\* removeMember (leave-room, kick-member) and the evictions of one sweep.  A
\* room that loses everybody closes, and its draft with it.
Remove(gone) ==
  /\ gone # {} /\ gone \subseteq members /\ gone # members
  /\ Vacate(gone)
  /\ recomputeSynergy(members', options')
  /\ UNCHANGED <<history, skinLineHistory, activeSynergy, recent>>

\* Mutant: the options of the old champion stay.
SelectOnly(m, c) ==
  /\ m \in members \ bots
  /\ champion' = [champion EXCEPT ![m] = c]
  /\ look' = [look EXCEPT ![m] = OwnPick]
  /\ UNCHANGED <<memberVars, options, isReady, lockedSkin, synergyVars, history,
                 skinLineHistory, activeSynergy, recent>>

\* Mutant: another champion makes a member unready, and keeps its options.
SelectUnready(m, c) ==
  /\ m \in members \ bots
  /\ champion' = [champion EXCEPT ![m] = c]
  /\ isReady' = [isReady EXCEPT ![m] = c = champion[m] /\ @]
  /\ look' = [look EXCEPT ![m] = OwnPick]
  /\ UNCHANGED <<memberVars, options, lockedSkin, synergyVars, history,
                 skinLineHistory, activeSynergy, recent>>

\* "update-selection": another champion voids the options; no recomputation.
UpdateSelection(m, c) ==
  /\ m \in members \ bots
  /\ champion' = [champion EXCEPT ![m] = c]
  /\ options' = [options EXCEPT ![m] = IF c = champion[m] THEN @ ELSE {}]
  /\ isReady' = [isReady EXCEPT ![m] = c = champion[m] /\ @]
  /\ look' = [look EXCEPT ![m] = OwnPick]
  /\ UNCHANGED <<memberVars, lockedSkin, synergyVars, history,
                 skinLineHistory, activeSynergy, recent>>

\* Mutant: the synergy is recomputed before the options are stored.
OwnedOptionsLate(m, c, owned) ==
  /\ m \in members \ bots
  /\ \A o \in owned : ChampionOf[o] = c
  /\ champion' = [champion EXCEPT ![m] = c]
  /\ options' = [options EXCEPT ![m] = owned]
  /\ isReady' = [isReady EXCEPT ![m] = TRUE]
  /\ recomputeSynergy(members, options)
  /\ IF ShouldAutoApply(champion', options', synergy')
     THEN AutoApply(options', synergy')
     ELSE UNCHANGED comboVars
  /\ UNCHANGED <<memberVars, lockedSkin>>

\* "owned-options": the client lists what it owns for its champion; the last
\* list to come in makes the server apply a combo on its own.
OwnedOptions(m, c, owned) ==
  /\ m \in members \ bots
  /\ \A o \in owned : ChampionOf[o] = c
  /\ champion' = [champion EXCEPT ![m] = c]
  /\ options' = [options EXCEPT ![m] = owned]
  /\ isReady' = [isReady EXCEPT ![m] = TRUE]
  /\ recomputeSynergy(members, options')
  /\ IF ShouldAutoApply(champion', options', synergy')
     THEN AutoApply(options', synergy')
     ELSE UNCHANGED comboVars
  /\ UNCHANGED <<memberVars, lockedSkin>>

\* "request-group-reroll": the owner picks a colour on the list, and may narrow
\* the pool to one skin line; applyColorSynergy passes over who is not ready.
GroupReroll(c, pool) ==
  /\ c \in Offered(synergy.colors)
  /\ LET readyOptions == [m \in Member |-> IF isReady[m] THEN options[m] ELSE {}]
     IN  WearColor(c, Choices(readyOptions, OfColor(c) \cap pool))
  /\ UNCHANGED <<memberVars, choiceVars, synergyVars>>

\* "apply-skin-line-synergy": the owner picks a skin line on the list.
ApplySkinLine(l) ==
  /\ l \in Offered(synergy.skinLines)
  /\ WearLine(l, Choices(options, OfLine(l)))
  /\ UNCHANGED <<memberVars, choiceVars, synergyVars>>

\* "set-skin-lock".
SetSkinLock(m) ==
  /\ m \in members \ bots
  /\ lockedSkin' = [lockedSkin EXCEPT ![m] = ~@]
  /\ UNCHANGED <<memberVars, champion, options, isReady, comboVars, synergyVars>>

\* Five seconds have passed since the last combo.
CooldownOver ==
  /\ recent /\ recent' = FALSE
  /\ UNCHANGED <<memberVars, choiceVars, synergyVars, look, history,
                 skinLineHistory, activeSynergy>>

Next ==
  \/ \E m \in Member : JoinRoom(m)
  \/ \E new \in SUBSET Member : AddBots(new)
  \/ \E gone \in SUBSET Member : Remove(gone)
  \/ \E m \in Member, c \in Champion \cup {NoChampion} : UpdateSelection(m, c)
  \/ \E m \in Member, c \in Champion \cup {NoChampion}, owned \in Owned :
       OwnedOptions(m, c, owned)
  \/ \E c \in Color : GroupReroll(c, Option)
  \/ \E c \in Color, l \in Line : GroupReroll(c, OfLine(l))
  \/ \E l \in Line : ApplySkinLine(l)
  \/ \E m \in Member : SetSkinLock(m)
  \/ CooldownOver

Spec == Init /\ [][Next]_vars

-----------------------------------------------------------------------------
(* What a draft promises *)

\* Has an option of that colour, or of that skin line.
Fits(m, x) == \E o \in options[m] : x \in {ColorOf[o], LineOf[o]}

\* However members came, left and switched, the published lists name only
\* seated members, at least two per entry, and such a member can wear what the
\* entry says unless its options were voided since (update-selection).
SynergyIsGrounded ==
  LET Grounded(entries) == \A x \in Offered(entries) :
        /\ Cardinality(entries[x]) >= 2
        /\ \A m \in entries[x] : m \in members /\ (options[m] = {} \/ Fits(m, x))
  IN  Grounded(synergy.colors) /\ Grounded(synergy.skinLines)

\* Though joins and selections do not recompute, an entry that is published
\* misses nobody who can share it, and nothing two members share is unpublished
\* but for two cases: a colour, when more were listed at the last computation
\* than it collects, and Base, when another line is published.
SynergyIsComplete ==
  /\ \A c \in Color :
       \/ Sharing(members, options, ColorOf, c) \subseteq synergy.colors[c]
       \/ synergy.colors[c] = {} /\ colorsTruncated
  /\ \A l \in Line :
       \/ Sharing(members, options, LineOf, l) \subseteq synergy.skinLines[l]
       \/ l = Base /\ synergy.skinLines[l] = {} /\ Offered(synergy.skinLines) # {}

\* The combos agree on whom they pass over: three generators ask for options,
\* applyColorSynergy for isReady, and nobody has the first without the second.
UnreadyHaveNothing == \A m \in Member : options[m] # {} => isReady[m]

\* A combo may have given this look: it is of that colour, or of that line.
Shows(lk, x) == lk # OwnPick /\ x \in {ColorOf[lk[1]], LineOf[lk[1]]}

\* In this step a combo changed what m wears.
Dressed(m) == look'[m] \notin {look[m], OwnPick}

\* A combo never puts a skin of another champion on a member, in whatever order
\* selections and option lists came in (the comment at server.ts:317).
DressesTheChampion ==
  \A m \in Member : Dressed(m) => ChampionOf[look'[m][1]] = champion'[m]
CombosFitChampions == [][DressesTheChampion]_vars

\* A locked member keeps what it wears through every combo, automatic or the
\* owner's (the comment on Member.lockedSkin).
SparesLocked == \A m \in Member : Dressed(m) => ~lockedSkin[m]
LockedLooksStay == [][SparesLocked]_vars

\* An option list that sets off a combo sets off one that is on the list just
\* published, and every unlocked participant of it comes out wearing it.
MakesAMatch ==
  LET entries == IF activeSynergy' \in Color THEN synergy'.colors
                 ELSE synergy'.skinLines
      Matched == /\ activeSynergy' \in Offered(entries)
                 /\ \A m \in entries[activeSynergy'] :
                      lockedSkin[m] \/ Shows(look'[m], activeSynergy')
      AutoApplied == /\ ~recent /\ recent'
                     /\ \E m \in Member, c \in Champion \cup {NoChampion}, owned \in Owned :
                          OwnedOptions(m, c, owned)
  IN  Matched \/ ~AutoApplied
AutoApplyMakesAMatch == [][MakesAMatch]_vars

\* Who is not seated has chosen nothing, and options belong to the champion
\* they were sent for.
ChoicesAreLive ==
  \A m \in Member :
    /\ m \notin members => options[m] = {}
    /\ \A o \in options[m] : ChampionOf[o] = champion[m]

\* The inductive invariant behind the theorems.
DraftInv ==
  /\ TypeOK /\ ChoicesAreLive /\ UnreadyHaveNothing
  /\ SynergyIsGrounded /\ SynergyIsComplete

\* types/index.ts:100 of an entry's members: "ids of members who have at least
\* one option of this color".
ParticipantsHaveTheColor ==
  \A c \in Color : \A m \in synergy.colors[c] : \E o \in options[m] : ColorOf[o] = c

\* README.md:16: a combo is applied once every member has locked their champion
\* (and something can be shared).
CompleteRoomIsDressed ==
  Complete(members, champion, options) /\ Offered(synergy.colors) # {} =>
    activeSynergy # NoCombo
=============================================================================
