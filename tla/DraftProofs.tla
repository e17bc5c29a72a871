---------------------------- MODULE DraftProofs ----------------------------
(***************************************************************************)
(* Theorems about Draft: what the published lists say, and whom the combos *)
(* dress in what.                                                          *)
(***************************************************************************)
EXTENDS Draft, FiniteSetTheorems, TLAPS

(* The synergy *)

\* What recomputeSynergy publishes of each colour and of each line.
LEMMA SynergyEntries ==
  ASSUME NEW S, NEW opts, NEW found
  PROVE  LET syn == SynergyOf(S, opts, found)
         IN  /\ \A c \in Color :
                  syn.colors[c] = IF c \in found THEN Sharing(S, opts, ColorOf, c) ELSE {}
             /\ \A l \in Line :
                  \/ syn.skinLines[l] = Sharing(S, opts, LineOf, l)
                  \/ l = Base /\ syn.skinLines[l] = {} /\ Offered(syn.skinLines) # {}
<1> DEFINE lines == [l \in Line |-> Sharing(S, opts, LineOf, l)]
           shown == IF Offered(lines) = {Base} THEN {Base} ELSE Offered(lines) \ {Base}
           published == [l \in Line |-> IF l \in shown THEN lines[l] ELSE {}]
<1>1. SynergyOf(S, opts, found) =
        [colors |-> [c \in Color |->
                       IF c \in found THEN Sharing(S, opts, ColorOf, c) ELSE {}],
         skinLines |-> published]
  BY DEF SynergyOf
<1>2. \A l \in Line : lines[l] = Sharing(S, opts, LineOf, l)
  OBVIOUS
<1>3. ASSUME NEW l \in Line, published[l] # lines[l]
      PROVE  l = Base /\ published[l] = {} /\ Offered(published) # {}
  <2>1. l \notin shown /\ published[l] = {} /\ lines[l] # {}
    BY <1>3
  <2>2. l \in Offered(lines)
    BY <2>1 DEF Offered
  <2>3. shown = Offered(lines) \ {Base} /\ l = Base
    BY <2>1, <2>2
  <2>4. PICK k \in Offered(lines) : k # Base
    BY <2>1, <2>2, <2>3
  <2>5. k \in Line /\ lines[k] # {}
    BY DEF Offered
  <2>6. published[k] = lines[k]
    BY <2>3, <2>4, <2>5
  <2> HIDE DEF lines, shown
  <2>7. k \in Offered(published)
    BY <2>5, <2>6 DEF Offered
  <2> QED BY <2>1, <2>3, <2>7
<1> HIDE DEF shown, lines, published
<1> QED BY <1>1, <1>2, <1>3

LEMMA EntrySubset ==
  ASSUME NEW P PROVE Entry(P) \subseteq P /\ (Entry(P) # {} => Cardinality(Entry(P)) >= 2)
BY DEF Entry

LEMMA EntryGrows ==
  ASSUME NEW P, NEW Q, IsFiniteSet(Q), P \subseteq Q PROVE Entry(P) \subseteq Entry(Q)
<1>1. Cardinality(P) <= Cardinality(Q) /\ Cardinality(P) \in Nat /\ Cardinality(Q) \in Nat
  BY FS_Subset, FS_CardinalityType
<1> QED BY <1>1 DEF Entry

LEMMA SharingSubset ==
  ASSUME NEW S, NEW opts, NEW kind, NEW x
  PROVE  Sharing(S, opts, kind, x) \subseteq S
<1> DEFINE wearers == {m \in S : \E o \in opts[m] : kind[o] = x}
<1>1. Entry(wearers) \subseteq wearers
  BY EntrySubset
<1> QED BY <1>1 DEF Sharing

LEMMA SynergyType ==
  ASSUME NEW S \in SUBSET Member, NEW opts, NEW found
  PROVE  SynergyOf(S, opts, found) \in
           [colors : [Color -> SUBSET Member], skinLines : [Line -> SUBSET Member]]
<1> DEFINE lines == [l \in Line |-> Sharing(S, opts, LineOf, l)]
           shown == IF Offered(lines) = {Base} THEN {Base} ELSE Offered(lines) \ {Base}
<1>1. SynergyOf(S, opts, found) =
        [colors |-> [c \in Color |->
                       IF c \in found THEN Sharing(S, opts, ColorOf, c) ELSE {}],
         skinLines |-> [l \in Line |-> IF l \in shown THEN lines[l] ELSE {}]]
  BY DEF SynergyOf
<1>2. \A kind, x : Sharing(S, opts, kind, x) \in SUBSET Member
  BY SharingSubset
<1> HIDE DEF shown
<1> QED BY <1>1, <1>2

\* Who is named by an entry is seated and can wear it, and is not alone.
Holds(E, S, opts, kind, x) ==
  /\ E # {} => Cardinality(E) >= 2
  /\ \A m \in E : m \in S /\ \E o \in opts[m] : kind[o] = x

LEMMA SharingHolds ==
  ASSUME NEW S, NEW opts, NEW kind, NEW x
  PROVE  /\ Holds({}, S, opts, kind, x)
         /\ Holds(Sharing(S, opts, kind, x), S, opts, kind, x)
<1> DEFINE wearers == {m \in S : \E o \in opts[m] : kind[o] = x}
<1>1. /\ Entry(wearers) \subseteq wearers
      /\ Entry(wearers) # {} => Cardinality(Entry(wearers)) >= 2
  BY EntrySubset
<1> QED BY <1>1 DEF Holds, Sharing

LEMMA SynergyHolds ==
  ASSUME NEW S, NEW opts, NEW found
  PROVE  LET syn == SynergyOf(S, opts, found)
         IN  /\ \A c \in Color : Holds(syn.colors[c], S, opts, ColorOf, c)
             /\ \A l \in Line : Holds(syn.skinLines[l], S, opts, LineOf, l)
<1> DEFINE syn == SynergyOf(S, opts, found)
<1>1. /\ \A c \in Color :
           syn.colors[c] = IF c \in found THEN Sharing(S, opts, ColorOf, c) ELSE {}
      /\ \A l \in Line :
           syn.skinLines[l] = Sharing(S, opts, LineOf, l) \/ syn.skinLines[l] = {}
  <2>1. /\ \A c \in Color :
             syn.colors[c] = IF c \in found THEN Sharing(S, opts, ColorOf, c) ELSE {}
        /\ \A l \in Line :
             \/ syn.skinLines[l] = Sharing(S, opts, LineOf, l)
             \/ l = Base /\ syn.skinLines[l] = {} /\ Offered(syn.skinLines) # {}
    BY SynergyEntries
  <2> HIDE DEF syn
  <2> QED BY <2>1
<1> HIDE DEF syn
<1>2. /\ \A c \in Color : Holds(syn.colors[c], S, opts, ColorOf, c)
      /\ \A l \in Line : Holds(syn.skinLines[l], S, opts, LineOf, l)
  BY <1>1, SharingHolds
<1> QED BY <1>2 DEF syn

\* With more options seated, nobody who shares anything loses it.
LEMMA SharingGrows ==
  ASSUME NEW S \in SUBSET Member, NEW T \in SUBSET Member, NEW opts, NEW more,
         \A m \in S : opts[m] # {} => m \in T /\ opts[m] \subseteq more[m],
         NEW kind, NEW x
  PROVE  Sharing(S, opts, kind, x) \subseteq Sharing(T, more, kind, x)
<1> DEFINE wearers == {m \in S : \E o \in opts[m] : kind[o] = x}
           later   == {m \in T : \E o \in more[m] : kind[o] = x}
<1>1. wearers \subseteq later
  OBVIOUS
<1>2. IsFiniteSet(later)
  <2>1. later \subseteq Member
    OBVIOUS
  <2> QED BY <2>1, DraftAssumption, FS_Subset
<1> HIDE DEF wearers, later
<1>3. Entry(wearers) \subseteq Entry(later)
  BY <1>1, <1>2, EntryGrows
<1> QED BY <1>3 DEF Sharing, wearers, later

\* A recomputed synergy is grounded and complete.
LEMMA Recomputed ==
  ASSUME members' \in SUBSET Member, options' \in [Member -> SUBSET Option],
         recomputeSynergy(members', options')
  PROVE  SynergyIsGrounded' /\ SynergyIsComplete'
<1>1. PICK found \in Collected(members', options') :
             synergy' = SynergyOf(members', options', found)
  BY DEF recomputeSynergy
<1>2. synergy' \in [colors : [Color -> SUBSET Member], skinLines : [Line -> SUBSET Member]]
  BY <1>1, SynergyType
<1>3. Offered(synergy'.colors) \subseteq Color /\ Offered(synergy'.skinLines) \subseteq Line
  BY <1>2 DEF Offered
<1>4. /\ \A c \in Color : Holds(synergy'.colors[c], members', options', ColorOf, c)
      /\ \A l \in Line : Holds(synergy'.skinLines[l], members', options', LineOf, l)
  BY <1>1, SynergyHolds
<1>5. SynergyIsGrounded'
  BY <1>3, <1>4 DEF SynergyIsGrounded, Holds, Fits, Offered
<1>6. /\ \A c \in Color : synergy'.colors[c] =
             IF c \in found THEN Sharing(members', options', ColorOf, c) ELSE {}
      /\ \A l \in Line :
           \/ synergy'.skinLines[l] = Sharing(members', options', LineOf, l)
           \/ l = Base /\ synergy'.skinLines[l] = {} /\ Offered(synergy'.skinLines) # {}
  BY <1>1, SynergyEntries
<1>7. ASSUME NEW c \in Color, c \notin found, ~colorsTruncated'
      PROVE  Sharing(members', options', ColorOf, c) = {}
  <2>1. found = ColorsListed(members', options')
    BY <1>7 DEF recomputeSynergy, Collected
  <2>2. {m \in members' : \E o \in options'[m] : ColorOf[o] = c} = {}
    BY <1>7, <2>1, DraftAssumption DEF ColorsListed
  <2>3. Entry({}) = {}
    BY EntrySubset
  <2> QED BY <2>2, <2>3 DEF Sharing
<1>8. SynergyIsComplete'
  BY <1>6, <1>7 DEF SynergyIsComplete
<1> QED BY <1>5, <1>8

(* The combos *)

LEMMA PushType ==
  ASSUME NEW S, NEW past \in Seq(S), Len(past) <= HistoryLimit, NEW x \in S
  PROVE  Push(past, x) \in Seq(S) /\ Len(Push(past, x)) <= HistoryLimit
<1>1. HistoryLimit \in Nat \ {0}
  BY DraftAssumption
<1>2. CASE Len(past) < HistoryLimit
  BY <1>1, <1>2 DEF Push
<1>3. CASE ~(Len(past) < HistoryLimit)
  <2>1. past # <<>> /\ Len(past) = HistoryLimit
    BY <1>1, <1>3
  <2>2. Tail(past) \in Seq(S) /\ Len(Tail(past)) = HistoryLimit - 1
    BY <1>1, <2>1
  <2> QED BY <1>1, <1>3, <2>2 DEF Push
<1> QED BY <1>2, <1>3

\* A combo dresses the unlocked members that have an option in its pool.
LEMMA DressLooks ==
  ASSUME NEW opts, NEW pool \in SUBSET Option, NEW finish \in {"chroma", "plain"},
         look \in [Member -> Look], Dress(Choices(opts, pool), finish)
  PROVE  /\ look' \in [Member -> Look]
         /\ \A m \in Member :
              IF lockedSkin[m] \/ opts[m] \cap pool = {} THEN look'[m] = look[m]
              ELSE \E o \in opts[m] \cap pool : look'[m] = <<o, finish>>
<1> DEFINE choices == Choices(opts, pool)
           dressed == {m \in Member : choices[m] # {}}
<1>1. \A m \in Member : choices[m] = IF lockedSkin[m] THEN {} ELSE opts[m] \cap pool
  BY DEF Choices
<1>2. PICK pick \in [dressed -> Option] :
        /\ \A m \in dressed : pick[m] \in choices[m]
        /\ look' = [m \in Member |->
                      IF m \in dressed THEN <<pick[m], finish>> ELSE look[m]]
  BY DEF Dress
<1>3. \A m \in Member : look'[m] = IF m \in dressed THEN <<pick[m], finish>> ELSE look[m]
  BY <1>2
<1>4. \A m \in Member : m \in dressed <=> ~(lockedSkin[m] \/ opts[m] \cap pool = {})
  BY <1>1
<1>5. \A m \in dressed : pick[m] \in opts[m] \cap pool /\ <<pick[m], finish>> \in Look
  BY <1>1, <1>2 DEF Look
<1> HIDE DEF choices, dressed
<1> QED BY <1>2, <1>3, <1>4, <1>5

ComboType ==
  /\ look \in [Member -> Look]
  /\ history \in Seq(Color) /\ Len(history) <= HistoryLimit
  /\ skinLineHistory \in Seq(Line) /\ Len(skinLineHistory) <= HistoryLimit
  /\ activeSynergy \in Combo \cup {NoCombo}
  /\ recent \in BOOLEAN

\* Only unlocked members change what they wear, for an option of theirs.
DressedFrom(opts) ==
  \A m \in Member :
    look'[m] # look[m] => ~lockedSkin[m] /\ \E o \in opts[m] : look'[m][1] = o

LEMMA WornColor ==
  ASSUME ComboType, NEW opts, NEW pool \in SUBSET Option, NEW c \in Color,
         WearColor(c, Choices(opts, pool))
  PROVE  ComboType' /\ DressedFrom(opts)
<1>1. Dress(Choices(opts, pool), "chroma")
  BY DEF WearColor
<1>2. look' \in [Member -> Look] /\ DressedFrom(opts)
  BY <1>1, DressLooks DEF ComboType, DressedFrom
<1>3. history' \in Seq(Color) /\ Len(history') <= HistoryLimit
  BY PushType DEF ComboType, WearColor
<1> QED BY <1>2, <1>3 DEF ComboType, WearColor, Combo

LEMMA WornLine ==
  ASSUME ComboType, NEW opts, NEW pool \in SUBSET Option, NEW l \in Line,
         WearLine(l, Choices(opts, pool))
  PROVE  ComboType' /\ DressedFrom(opts)
<1>1. Dress(Choices(opts, pool), "plain")
  BY DEF WearLine
<1>2. look' \in [Member -> Look] /\ DressedFrom(opts)
  BY <1>1, DressLooks DEF ComboType, DressedFrom
<1>3. skinLineHistory' \in Seq(Line) /\ Len(skinLineHistory') <= HistoryLimit
  BY PushType DEF ComboType, WearLine
<1> QED BY <1>2, <1>3 DEF ComboType, WearLine, Combo

\* generateAutoApplyPicks takes one of the entries on offer.
LEMMA AutoApplyCases ==
  ASSUME NEW opts,
         NEW syn \in [colors : [Color -> SUBSET Member], skinLines : [Line -> SUBSET Member]],
         AutoApply(opts, syn)
  PROVE  \/ \E l \in Offered(syn.skinLines) :
              l \in Line /\ WearLine(l, Choices(opts, OfLine(l)))
         \/ \E c \in Offered(syn.colors) :
              c \in Color /\ WearColor(c, Choices(opts, OfColor(c)))
<1>1. Offered(syn.colors) \subseteq Color /\ Offered(syn.skinLines) \subseteq Line
  BY DEF Offered
<1>2. \A entries, past : Available(entries, past) \subseteq Offered(entries)
  BY DEF Available
<1> QED BY <1>1, <1>2 DEF AutoApply

LEMMA AutoApplied ==
  ASSUME ComboType, NEW opts,
         NEW syn \in [colors : [Color -> SUBSET Member], skinLines : [Line -> SUBSET Member]],
         AutoApply(opts, syn)
  PROVE  ComboType' /\ DressedFrom(opts)
<1>1. CASE \E l \in Offered(syn.skinLines) :
             l \in Line /\ WearLine(l, Choices(opts, OfLine(l)))
  BY <1>1, WornLine DEF OfLine
<1>2. CASE \E c \in Offered(syn.colors) :
             c \in Color /\ WearColor(c, Choices(opts, OfColor(c)))
  BY <1>2, WornColor DEF OfColor
<1> QED BY <1>1, <1>2, AutoApplyCases

-----------------------------------------------------------------------------
(* The inductive invariant *)

\* Who has options is seated, ready, and plays the champion they are for.
ChoiceInv == ChoicesAreLive /\ UnreadyHaveNothing

SeatType ==
  /\ members \subseteq Member /\ members # {} /\ bots \subseteq members
  /\ champion \in [Member -> Champion \cup {NoChampion}]
  /\ options \in [Member -> SUBSET Option]
  /\ isReady \in [Member -> BOOLEAN]
  /\ lockedSkin \in [Member -> BOOLEAN]

SynergyInv ==
  /\ synergy \in [colors : [Color -> SUBSET Member], skinLines : [Line -> SUBSET Member]]
  /\ colorsTruncated \in BOOLEAN
  /\ SynergyIsGrounded /\ SynergyIsComplete

LEMMA InvParts == DraftInv <=> SeatType /\ ComboType /\ SynergyInv /\ ChoiceInv
BY DEF DraftInv, TypeOK, SeatType, ComboType, SynergyInv, ChoiceInv

LEMMA RecomputedInv ==
  ASSUME SeatType', recomputeSynergy(members', options')
  PROVE  SynergyInv'
<1>1. members' \in SUBSET Member /\ options' \in [Member -> SUBSET Option]
  BY DEF SeatType
<1>2. synergy' \in [colors : [Color -> SUBSET Member], skinLines : [Line -> SUBSET Member]]
  BY <1>1, SynergyType DEF recomputeSynergy
<1>3. colorsTruncated' \in BOOLEAN
  BY DEF recomputeSynergy, TooManyColors
<1> QED BY <1>1, <1>2, <1>3, Recomputed DEF SynergyInv

LEMMA InitInv == Init => DraftInv
<1> SUFFICES ASSUME Init PROVE SeatType /\ ComboType /\ SynergyInv /\ ChoiceInv
  BY InvParts
<1>1. SeatType
  BY DEF Init, SeatType
<1>2. ComboType
  <2>1. HistoryLimit \in Nat
    BY DraftAssumption
  <2>2. look \in [Member -> Look] /\ activeSynergy \in Combo \cup {NoCombo} /\ recent \in BOOLEAN
    BY DEF Init, Look
  <2>3. /\ history \in Seq(Color) /\ Len(history) = 0
        /\ skinLineHistory \in Seq(Line) /\ Len(skinLineHistory) = 0
    BY DEF Init
  <2> QED BY <2>1, <2>2, <2>3 DEF ComboType
<1>3. ChoiceInv
  BY DEF Init, ChoiceInv, ChoicesAreLive, UnreadyHaveNothing
<1>4. SynergyInv
  <2>1. synergy = SynergyOf({}, options, {}) /\ colorsTruncated = FALSE
    BY DEF Init
  <2>2. synergy \in [colors : [Color -> SUBSET Member], skinLines : [Line -> SUBSET Member]]
    BY <2>1, SynergyType
  <2>3. /\ \A c \in Color : synergy.colors[c] = {}
        /\ \A l \in Line : synergy.skinLines[l] = {}
    <3>1. /\ \A c \in Color : Holds(synergy.colors[c], {}, options, ColorOf, c)
          /\ \A l \in Line : Holds(synergy.skinLines[l], {}, options, LineOf, l)
      BY <2>1, SynergyHolds
    <3> QED BY <3>1 DEF Holds
  <2>4. SynergyIsGrounded
    BY <2>2, <2>3 DEF SynergyIsGrounded, Offered
  <2>5. \A kind, x : Sharing(members, options, kind, x) = {}
    <3>1. \A m \in members : options[m] = {}
      BY <1>1 DEF Init, SeatType
    <3>2. members \in SUBSET Member /\ {} \in SUBSET Member
      BY <1>1 DEF SeatType
    <3>3. \A kind, x : Sharing({}, options, kind, x) = {}
      BY SharingSubset
    <3> QED BY <3>1, <3>2, <3>3, SharingGrows
  <2>6. SynergyIsComplete
    BY <2>5 DEF SynergyIsComplete
  <2> QED BY <2>1, <2>2, <2>4, <2>6 DEF SynergyInv
<1> QED BY <1>1, <1>2, <1>3, <1>4

\* While the synergy stays, no option may appear, and no member with one leave.
LEMMA KeptInv ==
  ASSUME SeatType, SeatType', SynergyInv, UNCHANGED synergyVars, members \subseteq members',
         \A m \in Member : options'[m] \in {{}, options[m]},
         \A m \in members' : options'[m] # {} => m \in members
  PROVE  SynergyInv'
<1>1. SynergyIsGrounded'
  BY DEF synergyVars, SynergyInv, SynergyIsGrounded, SeatType, Fits, Offered
<1>2. SynergyIsComplete'
  <2>1. \A m \in members' : options'[m] # {} => m \in members /\ options'[m] \subseteq options[m]
    BY DEF SeatType
  <2>2. \A kind, x : Sharing(members', options', kind, x)
                       \subseteq Sharing(members, options, kind, x)
    BY <2>1, SharingGrows DEF SeatType
  <2> QED BY <2>2 DEF synergyVars, SynergyInv, SynergyIsComplete, Offered
<1> QED BY <1>1, <1>2 DEF synergyVars, SynergyInv

\* Before and after a step: what a combo needs and keeps, and what it dresses.
ComboStep(opts) == ComboType' /\ DressedFrom(opts)

LEMMA JoinRoomInv ==
  ASSUME SeatType, SynergyInv, ChoiceInv, NEW m \in Member, JoinRoom(m)
  PROVE  SeatType' /\ SynergyInv' /\ ChoiceInv'
<1>1. SeatType'
  BY DEF JoinRoom, SeatType, choiceVars
<1>2. ChoiceInv'
  BY DEF JoinRoom, choiceVars, ChoiceInv, ChoicesAreLive, UnreadyHaveNothing
<1>3. SynergyInv'
  <2>1. UNCHANGED <<options, synergyVars>> /\ members \subseteq members'
    BY DEF JoinRoom, choiceVars
  <2>2. \A k \in Member : options'[k] # {} => k \in members
    BY <2>1 DEF ChoiceInv, ChoicesAreLive
  <2> QED BY <1>1, <2>1, <2>2, KeptInv DEF SeatType
<1> QED BY <1>1, <1>2, <1>3

LEMMA AddBotsInv ==
  ASSUME SeatType, ChoiceInv, NEW new \in SUBSET Member, AddBots(new)
  PROVE  SeatType' /\ SynergyInv' /\ ChoiceInv'
<1> PICK c \in Champion :
      champion' = [m \in Member |-> IF m \in new THEN c ELSE champion[m]]
  BY DEF AddBots
<1>1. SeatType'
  BY DEF AddBots, SeatType
<1>2. ChoiceInv'
  BY DEF AddBots, SeatType, ChoiceInv, ChoicesAreLive, UnreadyHaveNothing
<1>3. SynergyInv'
  <2>1. recomputeSynergy(members', options')
    BY DEF AddBots
  <2> QED BY <1>1, <2>1, RecomputedInv
<1> QED BY <1>1, <1>2, <1>3

LEMMA RemoveInv ==
  ASSUME SeatType, ChoiceInv, ComboType, NEW gone \in SUBSET Member, Remove(gone)
  PROVE  SeatType' /\ SynergyInv' /\ ChoiceInv' /\ ComboType'
<1>1. SeatType'
  BY DEF Remove, Vacate, SeatType
<1>2. ChoiceInv'
  BY DEF Remove, Vacate, SeatType, ChoiceInv, ChoicesAreLive, UnreadyHaveNothing
<1>3. SynergyInv'
  <2>1. recomputeSynergy(members', options')
    BY DEF Remove
  <2> QED BY <1>1, <2>1, RecomputedInv
<1>4. ComboType'
  BY DEF Remove, Vacate, ComboType, Look
<1> QED BY <1>1, <1>2, <1>3, <1>4

LEMMA UpdateSelectionInv ==
  ASSUME SeatType, SynergyInv, ChoiceInv, ComboType,
         NEW m \in Member, NEW c \in Champion \cup {NoChampion}, UpdateSelection(m, c)
  PROVE  SeatType' /\ SynergyInv' /\ ChoiceInv' /\ ComboType'
<1>1. SeatType'
  BY DEF UpdateSelection, memberVars, SeatType
<1>2. ChoiceInv'
  BY DEF UpdateSelection, memberVars, SeatType, ChoiceInv, ChoicesAreLive, UnreadyHaveNothing
<1>3. SynergyInv'
  <2>1. UNCHANGED <<members, synergyVars>>
    BY DEF UpdateSelection, memberVars
  <2>2. \A k \in Member : options'[k] \in {{}, options[k]}
    BY DEF UpdateSelection, SeatType
  <2> QED BY <1>1, <2>1, <2>2, KeptInv
<1>4. ComboType'
  BY DEF UpdateSelection, ComboType, Look
<1> QED BY <1>1, <1>2, <1>3, <1>4

LEMMA OwnedOptionsInv ==
  ASSUME SeatType, ChoiceInv, ComboType,
         NEW m \in Member, NEW c \in Champion \cup {NoChampion}, NEW owned \in Owned,
         OwnedOptions(m, c, owned)
  PROVE  SeatType' /\ SynergyInv' /\ ChoiceInv' /\ ComboStep(options')
<1>1. owned \in SUBSET Option
  BY DraftAssumption
<1>2. SeatType'
  BY <1>1 DEF OwnedOptions, memberVars, SeatType
<1>3. ChoiceInv'
  BY <1>1 DEF OwnedOptions, memberVars, SeatType, ChoiceInv, ChoicesAreLive, UnreadyHaveNothing
<1>4. SynergyInv'
  <2>1. recomputeSynergy(members', options')
    BY DEF OwnedOptions, memberVars
  <2> QED BY <1>2, <2>1, RecomputedInv
<1>5. ComboStep(options')
  <2>1. CASE AutoApply(options', synergy')
    BY <1>4, <2>1, AutoApplied DEF SynergyInv, ComboStep
  <2>2. CASE UNCHANGED comboVars
    BY <2>2 DEF comboVars, ComboType, DressedFrom, ComboStep
  <2> QED BY <2>1, <2>2 DEF OwnedOptions
<1> QED BY <1>2, <1>3, <1>4, <1>5

LEMMA GroupRerollCombo ==
  ASSUME ComboType, NEW c \in Color, NEW pool, GroupReroll(c, pool)
  PROVE  ComboStep(options)
<1> DEFINE ready == [m \in Member |-> IF isReady[m] THEN options[m] ELSE {}]
<1>1. WearColor(c, Choices(ready, OfColor(c) \cap pool))
  BY DEF GroupReroll
<1>2. ComboType' /\ DressedFrom(ready)
  BY <1>1, WornColor DEF OfColor
<1> QED BY <1>2 DEF ComboStep, DressedFrom

LEMMA ApplySkinLineCombo ==
  ASSUME ComboType, NEW l \in Line, ApplySkinLine(l)
  PROVE  ComboStep(options)
<1>1. WearLine(l, Choices(options, OfLine(l)))
  BY DEF ApplySkinLine
<1> QED BY <1>1, WornLine DEF OfLine, ComboStep

\* What no other state than the combos' own tells apart.
LEMMA SameChoices ==
  ASSUME SeatType, SynergyInv, ChoiceInv, UNCHANGED <<memberVars, choiceVars, synergyVars>>
  PROVE  SeatType' /\ SynergyInv' /\ ChoiceInv'
BY DEF memberVars, choiceVars, synergyVars, SeatType, SynergyInv, ChoiceInv, ChoicesAreLive,
       UnreadyHaveNothing, SynergyIsGrounded, SynergyIsComplete, Fits, Offered

LEMMA NextInv == DraftInv /\ [Next]_vars => DraftInv'
<1> SUFFICES ASSUME SeatType, ComboType, SynergyInv, ChoiceInv, [Next]_vars
             PROVE  SeatType' /\ ComboType' /\ SynergyInv' /\ ChoiceInv'
  <2>1. DraftInv' <=> SeatType' /\ ComboType' /\ SynergyInv' /\ ChoiceInv'
    BY DEF DraftInv, TypeOK, SeatType, ComboType, SynergyInv, ChoiceInv
  <2> QED BY <2>1, InvParts
<1>1. ASSUME NEW m \in Member, JoinRoom(m) PROVE SeatType' /\ ComboType' /\ SynergyInv' /\ ChoiceInv'
  <2>1. ComboType'
    BY <1>1 DEF JoinRoom, comboVars, ComboType
  <2> QED BY <1>1, <2>1, JoinRoomInv
<1>2. ASSUME NEW new \in SUBSET Member, AddBots(new)
      PROVE  SeatType' /\ ComboType' /\ SynergyInv' /\ ChoiceInv'
  <2>1. ComboType'
    BY <1>2 DEF AddBots, comboVars, ComboType
  <2> QED BY <1>2, <2>1, AddBotsInv
<1>3. ASSUME NEW gone \in SUBSET Member, Remove(gone)
      PROVE  SeatType' /\ ComboType' /\ SynergyInv' /\ ChoiceInv'
  BY <1>3, RemoveInv
<1>4. ASSUME NEW m \in Member, NEW c \in Champion \cup {NoChampion}, UpdateSelection(m, c)
      PROVE  SeatType' /\ ComboType' /\ SynergyInv' /\ ChoiceInv'
  BY <1>4, UpdateSelectionInv
<1>5. ASSUME NEW m \in Member, NEW c \in Champion \cup {NoChampion}, NEW owned \in Owned,
             OwnedOptions(m, c, owned)
      PROVE  SeatType' /\ ComboType' /\ SynergyInv' /\ ChoiceInv'
  BY <1>5, OwnedOptionsInv DEF ComboStep
<1>6. ASSUME NEW c \in Color, NEW pool, GroupReroll(c, pool)
      PROVE  SeatType' /\ ComboType' /\ SynergyInv' /\ ChoiceInv'
  <2>1. UNCHANGED <<memberVars, choiceVars, synergyVars>>
    BY <1>6 DEF GroupReroll
  <2> QED BY <1>6, <2>1, SameChoices, GroupRerollCombo DEF ComboStep
<1>7. ASSUME NEW l \in Line, ApplySkinLine(l)
      PROVE  SeatType' /\ ComboType' /\ SynergyInv' /\ ChoiceInv'
  <2>1. UNCHANGED <<memberVars, choiceVars, synergyVars>>
    BY <1>7 DEF ApplySkinLine
  <2> QED BY <1>7, <2>1, SameChoices, ApplySkinLineCombo DEF ComboStep
<1>8. ASSUME NEW m \in Member, SetSkinLock(m)
      PROVE  SeatType' /\ ComboType' /\ SynergyInv' /\ ChoiceInv'
  <2>1. ComboType' /\ SeatType'
    BY <1>8 DEF SetSkinLock, memberVars, comboVars, ComboType, SeatType
  <2>2. ChoiceInv' /\ SynergyInv'
    BY <1>8 DEF SetSkinLock, memberVars, synergyVars, SynergyInv, ChoiceInv, ChoicesAreLive,
                UnreadyHaveNothing, SynergyIsGrounded, SynergyIsComplete, Fits, Offered
  <2> QED BY <2>1, <2>2
<1>9. CASE CooldownOver
  <2>1. UNCHANGED <<memberVars, choiceVars, synergyVars>> /\ ComboType'
    BY <1>9 DEF CooldownOver, ComboType
  <2> QED BY <2>1, SameChoices
<1>10. CASE UNCHANGED vars
  <2>1. UNCHANGED <<memberVars, choiceVars, synergyVars>> /\ ComboType'
    BY <1>10 DEF vars, comboVars, ComboType
  <2> QED BY <2>1, SameChoices
<1> QED BY <1>1, <1>2, <1>3, <1>4, <1>5, <1>6, <1>7, <1>8, <1>9, <1>10 DEF Next

LEMMA DraftSafe == Spec => []DraftInv
<1> QED BY InitInv, NextInv, PTL DEF Spec

-----------------------------------------------------------------------------
(* The theorems *)

\* Every field keeps its type, through every request and every combo.
THEOREM DraftTypes == Spec => []TypeOK
<1>1. DraftInv => TypeOK
  BY DEF DraftInv
<1> QED BY <1>1, DraftSafe, PTL

\* The published lists name seated members that can wear what they say, at
\* least two per entry, unless a selection has voided their options since.
THEOREM SynergyGrounded == Spec => []SynergyIsGrounded
<1>1. DraftInv => SynergyIsGrounded
  BY DEF DraftInv
<1> QED BY <1>1, DraftSafe, PTL

\* A published entry misses nobody who can share it, for all that joins and
\* selections do not recompute; what two members share is unpublished only if it
\* is a colour and the last computation left colours out, or if it is Base and
\* another line is published.
THEOREM SynergyComplete == Spec => []SynergyIsComplete
<1>1. DraftInv => SynergyIsComplete
  BY DEF DraftInv
<1> QED BY <1>1, DraftSafe, PTL

\* Nobody has options without being ready, so the four combo generators pass
\* over the same members.
THEOREM UnreadyAreEmpty == Spec => []UnreadyHaveNothing
<1>1. DraftInv => UnreadyHaveNothing
  BY DEF DraftInv
<1> QED BY <1>1, DraftSafe, PTL

\* What a step puts on a member comes from the options it has after the step,
\* and never on a locked one.
LEMMA StepDresses ==
  ASSUME DraftInv, [Next]_vars, NEW m \in Member, Dressed(m)
  PROVE  ~lockedSkin[m] /\ \E o \in options'[m] : look'[m][1] = o
<1> USE DEF Dressed
<1>0. SeatType /\ ComboType /\ SynergyInv /\ ChoiceInv
  BY InvParts
<1>1. look'[m] # look[m] /\ look'[m] # OwnPick
  OBVIOUS
<1>2. ASSUME NEW k \in Member, JoinRoom(k) PROVE FALSE
  BY <1>1, <1>2 DEF JoinRoom, comboVars
<1>3. ASSUME NEW new, AddBots(new) PROVE FALSE
  BY <1>1, <1>3 DEF AddBots, comboVars
<1>4. ASSUME NEW gone, Remove(gone) PROVE FALSE
  BY <1>1, <1>4 DEF Remove, Vacate
<1>5. ASSUME NEW k \in Member, NEW c, UpdateSelection(k, c) PROVE FALSE
  BY <1>0, <1>1, <1>5 DEF UpdateSelection, ComboType
<1>6. ASSUME NEW k \in Member, NEW c \in Champion \cup {NoChampion}, NEW owned \in Owned,
             OwnedOptions(k, c, owned)
      PROVE  ~lockedSkin[m] /\ \E o \in options'[m] : look'[m][1] = o
  <2>1. ComboStep(options')
    BY <1>0, <1>6, OwnedOptionsInv
  <2> QED BY <1>1, <2>1 DEF ComboStep, DressedFrom
<1>7. ASSUME NEW c \in Color, NEW pool, GroupReroll(c, pool)
      PROVE  ~lockedSkin[m] /\ \E o \in options'[m] : look'[m][1] = o
  <2>1. ComboStep(options)
    BY <1>0, <1>7, GroupRerollCombo
  <2> QED BY <1>1, <1>7, <2>1 DEF ComboStep, DressedFrom, GroupReroll, choiceVars
<1>8. ASSUME NEW l \in Line, ApplySkinLine(l)
      PROVE  ~lockedSkin[m] /\ \E o \in options'[m] : look'[m][1] = o
  <2>1. ComboStep(options)
    BY <1>0, <1>8, ApplySkinLineCombo
  <2> QED BY <1>1, <1>8, <2>1 DEF ComboStep, DressedFrom, ApplySkinLine, choiceVars
<1>9. ASSUME NEW k \in Member, SetSkinLock(k) PROVE FALSE
  BY <1>1, <1>9 DEF SetSkinLock, comboVars
<1>10. CASE CooldownOver
  BY <1>1, <1>10 DEF CooldownOver
<1>11. CASE UNCHANGED vars
  BY <1>1, <1>11 DEF vars, comboVars
<1> QED BY <1>2, <1>3, <1>4, <1>5, <1>6, <1>7, <1>8, <1>9, <1>10, <1>11 DEF Next

\* No combo puts another champion's skin on a member, whatever the order of
\* selections and option lists.
THEOREM CombosFit == Spec => CombosFitChampions
<1>1. DraftInv /\ DraftInv' /\ [Next]_vars => [DressesTheChampion]_vars
  <2> SUFFICES ASSUME DraftInv, DraftInv', [Next]_vars, NEW m \in Member, Dressed(m)
               PROVE  ChampionOf[look'[m][1]] = champion'[m]
    BY DEF DressesTheChampion
  <2>1. PICK o \in options'[m] : look'[m][1] = o
    BY StepDresses
  <2>2. ChampionOf[o] = champion'[m]
    BY DEF DraftInv, ChoicesAreLive
  <2> QED BY <2>1, <2>2
<1> QED BY <1>1, DraftSafe, PTL DEF Spec, CombosFitChampions

\* No combo, automatic or the owner's, changes what a locked member wears.
THEOREM LocksHold == Spec => LockedLooksStay
<1>1. DraftInv /\ [Next]_vars => [SparesLocked]_vars
  BY StepDresses DEF SparesLocked
<1> QED BY <1>1, DraftSafe, PTL DEF Spec, LockedLooksStay

\* An option list that sets off a combo sets off one of the list just
\* published, and all its unlocked participants come out wearing it.
THEOREM AutoApplyMatches == Spec => AutoApplyMakesAMatch
<1>1. DraftInv /\ DraftInv' /\ [Next]_vars => [MakesAMatch]_vars
  <2> DEFINE entries == IF activeSynergy' \in Color THEN synergy'.colors
                        ELSE synergy'.skinLines
  <2> SUFFICES ASSUME DraftInv, DraftInv', ~recent, recent',
                      NEW k \in Member, NEW c \in Champion \cup {NoChampion}, NEW owned \in Owned,
                      OwnedOptions(k, c, owned)
               PROVE  /\ activeSynergy' \in Offered(entries)
                      /\ \A m \in entries[activeSynergy'] :
                           lockedSkin[m] \/ Shows(look'[m], activeSynergy')
    BY DEF MakesAMatch
  <2>1. AutoApply(options', synergy')
    BY DEF OwnedOptions, comboVars
  <2>2. SynergyInv' /\ SeatType' /\ look \in [Member -> Look]
    BY DEF DraftInv, TypeOK, SynergyInv, SeatType
  <2>3. /\ members' \in SUBSET Member
        /\ \E found : synergy' = SynergyOf(members', options', found)
    BY <2>2 DEF OwnedOptions, recomputeSynergy, memberVars, SeatType
  <2>4. /\ \A x \in Color : Holds(synergy'.colors[x], members', options', ColorOf, x)
        /\ \A l \in Line : Holds(synergy'.skinLines[l], members', options', LineOf, l)
    BY <2>3, SynergyHolds
  <2>5. \A o \in Option, f \in {"chroma", "plain"} : <<o, f>> # OwnPick
    BY DraftAssumption
  <2>6. ASSUME NEW l \in Offered(synergy'.skinLines), l \in Line,
               WearLine(l, Choices(options', OfLine(l)))
        PROVE  /\ activeSynergy' \in Offered(entries)
               /\ \A m \in entries[activeSynergy'] :
                    lockedSkin[m] \/ Shows(look'[m], activeSynergy')
    <3>1. activeSynergy' = l /\ entries = synergy'.skinLines
      BY <2>6, DraftAssumption DEF WearLine
    <3>2. ASSUME NEW m \in synergy'.skinLines[l], ~lockedSkin[m] PROVE Shows(look'[m], l)
      <4>1. m \in Member /\ \E o \in options'[m] : LineOf[o] = l
        BY <2>3, <2>4, <2>6 DEF Holds
      <4>2. options'[m] \cap OfLine(l) # {}
        BY <2>2, <4>1 DEF OfLine, SeatType
      <4>3. PICK o \in options'[m] \cap OfLine(l) : look'[m] = <<o, "plain">>
        BY <2>2, <2>6, <3>2, <4>1, <4>2, DressLooks DEF WearLine, OfLine
      <4> QED BY <2>5, <4>3 DEF Shows, OfLine
    <3> QED BY <3>1, <3>2
  <2>7. ASSUME NEW x \in Offered(synergy'.colors), x \in Color,
               WearColor(x, Choices(options', OfColor(x)))
        PROVE  /\ activeSynergy' \in Offered(entries)
               /\ \A m \in entries[activeSynergy'] :
                    lockedSkin[m] \/ Shows(look'[m], activeSynergy')
    <3>1. activeSynergy' = x /\ entries = synergy'.colors
      BY <2>7 DEF WearColor
    <3>2. ASSUME NEW m \in synergy'.colors[x], ~lockedSkin[m] PROVE Shows(look'[m], x)
      <4>1. m \in Member /\ \E o \in options'[m] : ColorOf[o] = x
        BY <2>3, <2>4, <2>7 DEF Holds
      <4>2. options'[m] \cap OfColor(x) # {}
        BY <2>2, <4>1 DEF OfColor, SeatType
      <4>3. PICK o \in options'[m] \cap OfColor(x) : look'[m] = <<o, "chroma">>
        BY <2>2, <2>7, <3>2, <4>1, <4>2, DressLooks DEF WearColor, OfColor
      <4> QED BY <2>5, <4>3 DEF Shows, OfColor
    <3> QED BY <3>1, <3>2
  <2> HIDE DEF entries
  <2> QED BY <2>1, <2>2, <2>6, <2>7, AutoApplyCases DEF SynergyInv
<1> QED BY <1>1, DraftSafe, PTL DEF Spec, AutoApplyMakesAMatch
=============================================================================
