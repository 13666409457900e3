---------------------------- MODULE LobbyProofs ----------------------------
(***************************************************************************)
(* The lobby's invariants hold for any set of players, any limits and any   *)
(* pool of abort channels.  The last part is about PromptSpec.              *)
(***************************************************************************)
EXTENDS LobbyProperties, ListsAndSums

(* Nobody outside the lobby has typed anything: a newcomer starts blank. *)
OutsidersAreBlank == \A p \in PlayerIDs \ players : chars[p] = 0

(* A countdown that still ticks has ticks left. *)
TicksAreLeft ==
  \A c \in Aborts : routine[c] \in {"tick", "sleep"} => left[c] > 0

(* The inductive invariant. *)
LobbyInv ==
  /\ TypeOK
  /\ RosterAgrees
  /\ RacersAreReady
  /\ PhaseHasReason
  /\ PlacesAreThePodium
  /\ AbortIsTheOpenChannel
  /\ CountdownIsCounting
  /\ OutsidersAreBlank
  /\ TicksAreLeft

-----------------------------------------------------------------------------
LEMMA PlayersFinite ==
  ASSUME TypeOK
  PROVE  IsFiniteSet(players) /\ Cardinality(players) \in Nat
BY PlayersAssumption, FS_Subset, FS_CardinalityType DEF TypeOK

(* An open lobby has someone in it, and the order starts with the host. *)
LEMMA HostIsFirst ==
  ASSUME TypeOK, RosterAgrees, ~closed
  PROVE  Len(order) \in Nat \ {0} /\ order[1] = hostID /\ hostID \in players
<1>1. Len(order) \in Nat /\ DOMAIN order = 1..Len(order)
  BY LenProperties DEF TypeOK
<1>2. Len(order) # 0
  BY <1>1 DEF RosterAgrees, ToSet
<1>3. order[1] = Head(order)
  BY <1>1, <1>2 DEF TypeOK
<1> QED
  BY <1>1, <1>2, <1>3 DEF RosterAgrees, ToSet

LEMMA InitInv == Init => LobbyInv
<1> SUFFICES ASSUME Init PROVE LobbyInv
  OBVIOUS
<1> USE DEF Init
<1>1. Len(order) = 1 /\ order[1] = hostID /\ DOMAIN order = {1}
      /\ order \in Seq(PlayerIDs)
  OBVIOUS
<1>2. finishers \in Seq(PlayerIDs) /\ DOMAIN finishers = {}
  OBVIOUS
<1>3. TypeOK
  <2>1. 0 \in 0..PassageLen /\ 0 \in 0..CountdownFrom
    BY BoundsAssumption
  <2>2. /\ chars \in [PlayerIDs -> 0..PassageLen]
        /\ left \in [Aborts -> 0..CountdownFrom]
        /\ routine \in [Aborts -> Routines]
        /\ place \in [PlayerIDs -> Nat]
    BY <2>1 DEF Routines
  <2> QED
    BY <1>1, <1>2, <2>2 DEF TypeOK, Phases
<1>4. RosterAgrees
  <2>1. Cardinality(players) = 1
    BY FS_Singleton
  <2> QED
    BY <1>1, <2>1, BoundsAssumption DEF RosterAgrees, ToSet, IsInjective
<1>5. PlacesAreThePodium
  BY <1>2 DEF PlacesAreThePodium, ToSet, IsInjective
<1>6. RacersAreReady /\ PhaseHasReason /\ AbortIsTheOpenChannel
      /\ CountdownIsCounting /\ OutsidersAreBlank /\ TicksAreLeft
  BY DEF RacersAreReady, PhaseHasReason, AbortIsTheOpenChannel, OpenPhase,
         CountdownIsCounting, OutsidersAreBlank, TicksAreLeft
<1> QED
  BY <1>3, <1>4, <1>5, <1>6 DEF LobbyInv

-----------------------------------------------------------------------------
(* Handlers. *)

LEMMA JoinInv ==
  ASSUME LobbyInv, NEW p \in PlayerIDs, Join(p)
  PROVE  LobbyInv'
<1> USE DEF LobbyInv
<1>1. /\ ~closed /\ p \notin players /\ phase = "Waiting"
      /\ Cardinality(players) < MaxPlayers
      /\ players' = players \cup {p}
      /\ order' = Append(order, p)
      /\ hostID' = hostID /\ phase' = phase /\ closed' = closed
      /\ UNCHANGED scores /\ UNCHANGED channel /\ UNCHANGED goroutines
  BY DEF Join
<1> USE DEF scores, channel, goroutines
<1>2. /\ order' \in Seq(PlayerIDs)
      /\ Len(order') = Len(order) + 1
      /\ \A i \in 1..Len(order) : order'[i] = order[i]
      /\ ToSet(order') = players'
      /\ IsInjective(order')
  BY <1>1, AppendDistinct DEF TypeOK, RosterAgrees
<1>3. TypeOK'
  BY <1>1, <1>2 DEF TypeOK
<1>4. RosterAgrees'
  <2>1. Len(order) \in Nat \ {0} /\ order[1] = hostID
    BY <1>1, HostIsFirst
  <2>2. Head(order') = order'[1] /\ order'[1] = order[1]
    BY <2>1, <1>2
  <2>3. Cardinality(players') <= MaxPlayers
    <3>1. IsFiniteSet(players) /\ Cardinality(players) \in Nat
      BY PlayersFinite
    <3>2. Cardinality(players') = Cardinality(players) + 1
      BY <1>1, <3>1, FS_AddElement
    <3> QED
      BY <1>1, <3>1, <3>2, BoundsAssumption
  <2> QED
    BY <1>1, <1>2, <2>1, <2>2, <2>3 DEF RosterAgrees
<1>5. RacersAreReady' /\ PhaseHasReason'
  BY <1>1 DEF RacersAreReady, PhaseHasReason, OpenPhase, OutsidersAreBlank
<1>6. PlacesAreThePodium'
  <2>1. finishers = <<>> /\ ToSet(finishers) = {} /\ finished = {}
    BY <1>1 DEF PhaseHasReason, OpenPhase, ToSet
  <2> QED
    BY <1>1, <2>1 DEF PlacesAreThePodium
<1>7. AbortIsTheOpenChannel' /\ CountdownIsCounting' /\ OutsidersAreBlank'
      /\ TicksAreLeft'
  BY <1>1 DEF AbortIsTheOpenChannel, CountdownIsCounting, OpenPhase,
              OutsidersAreBlank, TicksAreLeft
<1> QED
  BY <1>3, <1>4, <1>5, <1>6, <1>7

LEMMA SetReadyInv ==
  ASSUME LobbyInv, NEW p \in PlayerIDs, SetReady(p)
  PROVE  LobbyInv'
<1> USE DEF LobbyInv, SetReady, roster, channel, goroutines
<1>1. TypeOK'
  BY DEF TypeOK
<1>2. RosterAgrees' /\ PlacesAreThePodium'
  BY DEF RosterAgrees, PlacesAreThePodium
<1>3. RacersAreReady' /\ PhaseHasReason'
  BY DEF RacersAreReady, PhaseHasReason, OpenPhase
<1>4. AbortIsTheOpenChannel' /\ CountdownIsCounting' /\ OutsidersAreBlank'
      /\ TicksAreLeft'
  BY DEF AbortIsTheOpenChannel, CountdownIsCounting, OpenPhase,
         OutsidersAreBlank, TicksAreLeft
<1> QED
  BY <1>1, <1>2, <1>3, <1>4

LEMMA StartInv ==
  ASSUME LobbyInv, NEW p \in PlayerIDs, Start(p)
  PROVE  LobbyInv'
<1> USE DEF LobbyInv
<1>1. PICK c \in Aborts :
        /\ NewAbort(c)
        /\ routine' = [routine EXCEPT ![c] = CountdownAt(CountdownFrom)]
        /\ left' = [left EXCEPT ![c] = CountdownFrom]
  BY DEF Start
<1>2. /\ ~closed /\ phase = "Waiting" /\ AllReady /\ phase' = "Countdown"
      /\ UNCHANGED roster /\ closed' = closed /\ UNCHANGED scores
  BY DEF Start
<1> USE DEF roster, scores
<1>3. open = {} /\ abort' = c /\ open' = {c}
  BY <1>1, <1>2 DEF NewAbort, AbortIsTheOpenChannel, OpenPhase
<1>4. CountdownAt(CountdownFrom) \in {"tick", "start"}
      /\ (CountdownAt(CountdownFrom) = "tick" => CountdownFrom > 0)
  BY DEF CountdownAt
<1>5. TypeOK'
  BY <1>1, <1>2, <1>3, <1>4, BoundsAssumption
  DEF TypeOK, Phases, Routines
<1>6. RosterAgrees' /\ PlacesAreThePodium' /\ OutsidersAreBlank'
  BY <1>2 DEF RosterAgrees, PlacesAreThePodium, OutsidersAreBlank
<1>7. RacersAreReady' /\ PhaseHasReason'
  BY <1>2 DEF RacersAreReady, PhaseHasReason, OpenPhase, AllReady, TypeOK
<1>8. AbortIsTheOpenChannel'
  BY <1>2, <1>3, AbortsAssumption DEF AbortIsTheOpenChannel, OpenPhase
<1>9. CountdownIsCounting' /\ TicksAreLeft'
  BY <1>1, <1>3, <1>4
  DEF CountdownIsCounting, TicksAreLeft, TypeOK
<1> QED
  BY <1>5, <1>6, <1>7, <1>8, <1>9

LEMMA RecordProgressInv ==
  ASSUME LobbyInv, NEW p \in PlayerIDs, NEW n \in 0..(PassageLen - 1),
         RecordProgress(p, n)
  PROVE  LobbyInv'
<1> USE DEF LobbyInv, RecordProgress, roster, channel, goroutines
<1>1. TypeOK'
  BY BoundsAssumption DEF TypeOK
<1>2. RosterAgrees' /\ PlacesAreThePodium'
  BY DEF RosterAgrees, PlacesAreThePodium
<1>3. RacersAreReady' /\ PhaseHasReason'
  BY DEF RacersAreReady, PhaseHasReason, OpenPhase
<1>4. AbortIsTheOpenChannel' /\ CountdownIsCounting' /\ OutsidersAreBlank'
      /\ TicksAreLeft'
  BY DEF AbortIsTheOpenChannel, CountdownIsCounting, OpenPhase,
         OutsidersAreBlank, TicksAreLeft, TypeOK
<1> QED
  BY <1>1, <1>2, <1>3, <1>4

LEMMA RematchInv ==
  ASSUME LobbyInv, NEW p \in PlayerIDs, Rematch(p)
  PROVE  LobbyInv'
<1> USE DEF LobbyInv, Rematch, roster, channel, goroutines
<1>1. TypeOK'
  <2>1. 0 \in 0..PassageLen
    BY BoundsAssumption
  <2>2. finishers' \in Seq(PlayerIDs)
    OBVIOUS
  <2> QED
    BY <2>1, <2>2 DEF TypeOK, Phases
<1>2. RosterAgrees'
  BY DEF RosterAgrees
<1>3. PlacesAreThePodium'
  BY DEF PlacesAreThePodium, ToSet, IsInjective
<1>4. RacersAreReady' /\ PhaseHasReason' /\ OutsidersAreBlank'
  BY DEF RacersAreReady, PhaseHasReason, OpenPhase, OutsidersAreBlank, TypeOK
<1>5. AbortIsTheOpenChannel' /\ CountdownIsCounting' /\ TicksAreLeft'
  BY DEF AbortIsTheOpenChannel, CountdownIsCounting, OpenPhase, TicksAreLeft
<1> QED
  BY <1>1, <1>2, <1>3, <1>4, <1>5

LEMMA FinishInv ==
  ASSUME LobbyInv, NEW p \in PlayerIDs, Finish(p)
  PROVE  LobbyInv'
<1> USE DEF LobbyInv
<1>1. /\ ~closed /\ p \in players /\ phase = "Racing" /\ p \notin finished
      /\ finished' = finished \cup {p}
      /\ chars' = [chars EXCEPT ![p] = PassageLen]
      /\ finishers' = Append(finishers, p)
      /\ place' = [place EXCEPT ![p] = Len(finishers')]
      /\ UNCHANGED roster /\ closed' = closed /\ ready' = ready
      /\ UNCHANGED goroutines
  BY DEF Finish, PlaceTaken
<1>2. \/ /\ phase' = "Finished" /\ abort' = NoAbort /\ open' = open \ {abort}
         /\ players \subseteq finished'
      \/ /\ phase' = phase /\ abort' = abort /\ open' = open
         /\ ~(players \subseteq finished')
  BY <1>1 DEF Finish, EveryoneFinished, EndRace, CloseAbort, channel
<1> USE DEF roster, goroutines
<1>3. p \notin ToSet(finishers)
  BY <1>1 DEF PlacesAreThePodium
<1>4. /\ finishers' \in Seq(PlayerIDs)
      /\ Len(finishers') = Len(finishers) + 1
      /\ \A i \in 1..Len(finishers) : finishers'[i] = finishers[i]
      /\ finishers'[Len(finishers')] = p
      /\ ToSet(finishers') = ToSet(finishers) \cup {p}
      /\ IsInjective(finishers')
  BY <1>1, <1>3, AppendDistinct DEF TypeOK, PlacesAreThePodium
<1>5. /\ Len(finishers) \in Nat
      /\ DOMAIN finishers = 1..Len(finishers)
      /\ DOMAIN finishers' = 1..(Len(finishers) + 1)
  BY <1>4, LenProperties DEF TypeOK
<1>6. TypeOK'
  <2>1. place' \in [PlayerIDs -> Nat]
    BY <1>1, <1>4, <1>5 DEF TypeOK
  <2>2. chars' \in [PlayerIDs -> 0..PassageLen]
    BY <1>1, BoundsAssumption DEF TypeOK
  <2> QED
    BY <1>1, <1>2, <1>4, <2>1, <2>2 DEF TypeOK, Phases
<1>7. RosterAgrees'
  BY <1>1 DEF RosterAgrees
<1>8. PlacesAreThePodium'
  <2>1. finished' = players' \cap ToSet(finishers')
    BY <1>1, <1>4 DEF PlacesAreThePodium
  <2>2. ASSUME NEW q \in PlayerIDs
        PROVE  IF q \in finished'
               THEN place'[q] \in DOMAIN finishers' /\ finishers'[place'[q]] = q
               ELSE place'[q] = 0
    <3>1. CASE q = p
      BY <3>1, <1>1, <1>4, <1>5 DEF TypeOK
    <3>2. CASE q # p
      <4>1. place'[q] = place[q] /\ (q \in finished' <=> q \in finished)
        BY <3>2, <1>1 DEF TypeOK
      <4> QED
        BY <4>1, <1>1, <1>4, <1>5 DEF PlacesAreThePodium
    <3> QED
      BY <3>1, <3>2
  <2> QED
    BY <2>1, <2>2, <1>4 DEF PlacesAreThePodium
<1>9. RacersAreReady' /\ PhaseHasReason' /\ OutsidersAreBlank'
  BY <1>1, <1>2
  DEF RacersAreReady, PhaseHasReason, OutsidersAreBlank, OpenPhase, TypeOK
<1>10. AbortIsTheOpenChannel' /\ CountdownIsCounting' /\ TicksAreLeft'
  BY <1>1, <1>2
  DEF AbortIsTheOpenChannel, CountdownIsCounting, TicksAreLeft, OpenPhase
<1> QED
  BY <1>6, <1>7, <1>8, <1>9, <1>10

(***************************************************************************)
(* The four ways a departure can leave the lobby's phase.                   *)
(***************************************************************************)
LEMMA LeaveOutcomes ==
  ASSUME NEW p \in PlayerIDs, Leave(p)
  PROVE  \/ /\ players' = {} /\ closed' = TRUE /\ phase' = phase
            /\ abort' = NoAbort /\ open' = open \ {abort}
         \/ /\ players' # {} /\ closed' = closed
            /\ phase = "Countdown" /\ Cardinality(players') < 2
            /\ phase' = "Waiting"
            /\ abort' = NoAbort /\ open' = open \ {abort}
         \/ /\ players' # {} /\ closed' = closed
            /\ phase = "Racing" /\ players' \subseteq finished
            /\ phase' = "Finished"
            /\ abort' = NoAbort /\ open' = open \ {abort}
         \/ /\ players' # {} /\ closed' = closed
            /\ phase = "Countdown" => ~(Cardinality(players') < 2)
            /\ phase = "Racing" => ~(players' \subseteq finished)
            /\ phase' = phase /\ abort' = abort /\ open' = open
BY DEF Leave, ReconcilePhase, CancelCountdown, EndRace, EveryoneFinished,
       CloseLobby, CloseAbort, channel

LEMMA LeaveInv ==
  ASSUME LobbyInv, NEW p \in PlayerIDs, Leave(p)
  PROVE  LobbyInv'
<1> USE DEF LobbyInv
<1>1. /\ ~closed /\ p \in players
      /\ players' = players \ {p}
      /\ ready' = ready \ {p}
      /\ chars' = [chars EXCEPT ![p] = 0]
      /\ finished' = finished \ {p}
      /\ place' = [place EXCEPT ![p] = 0]
      /\ order' = RemoveFirst(order, p)
      /\ hostID' = IF hostID = p /\ Len(order') > 0 THEN Head(order') ELSE hostID
      /\ finishers' = finishers /\ routine' = routine /\ left' = left
  BY DEF Leave, Forget, HostAfter, goroutines
<1>2. /\ order' \in Seq(PlayerIDs)
      /\ Len(order') = Len(order) - 1
      /\ ToSet(order') = players'
      /\ IsInjective(order')
      /\ order[1] # p => order'[1] = order[1]
  BY <1>1, RemoveFirstDistinct DEF TypeOK, RosterAgrees
<1>3. Len(order) \in Nat \ {0} /\ order[1] = hostID
  BY <1>1, HostIsFirst
<1>4. players' # {} => Len(order') > 0 /\ hostID' = Head(order')
  <2>1. DOMAIN order' = 1..Len(order') /\ Len(order') \in Nat
    BY <1>2, LenProperties
  <2>2. players' # {} => Len(order') > 0
    BY <1>2, <2>1 DEF ToSet
  <2>3. Len(order') > 0 => Head(order') = order'[1]
    BY <1>2
  <2> QED
    BY <1>1, <1>2, <1>3, <2>2, <2>3
<1>5. TypeOK'
  <2>1. 0 \in 0..PassageLen
    BY BoundsAssumption
  <2>2. hostID' \in PlayerIDs
    BY <1>1, <1>2 DEF TypeOK
  <2>3. phase' \in Phases /\ closed' \in BOOLEAN
        /\ abort' \in Aborts \cup {NoAbort} /\ open' \subseteq Aborts
    BY LeaveOutcomes DEF TypeOK, Phases
  <2> QED
    BY <1>1, <1>2, <2>1, <2>2, <2>3 DEF TypeOK
<1>6. RosterAgrees'
  <2>1. Cardinality(players') <= MaxPlayers
    <3>1. /\ IsFiniteSet(players) /\ Cardinality(players) \in Nat
      BY PlayersFinite
    <3>2. Cardinality(players') = Cardinality(players) - 1
      BY <1>1, <3>1, FS_RemoveElement
    <3> QED
      BY <3>1, <3>2, BoundsAssumption DEF RosterAgrees
  <2>2. closed' <=> players' = {}
    BY <1>1, LeaveOutcomes
  <2> QED
    BY <1>2, <1>4, <2>1, <2>2 DEF RosterAgrees
<1>7. PlacesAreThePodium'
  <2>1. finished' = players' \cap ToSet(finishers')
    BY <1>1 DEF PlacesAreThePodium
  <2>2. \A q \in PlayerIDs :
          IF q \in finished'
          THEN place'[q] \in DOMAIN finishers' /\ finishers'[place'[q]] = q
          ELSE place'[q] = 0
    BY <1>1 DEF PlacesAreThePodium, TypeOK
  <2> QED
    BY <1>1, <2>1, <2>2 DEF PlacesAreThePodium
<1>8. RacersAreReady'
  BY <1>1, LeaveOutcomes DEF RacersAreReady, OpenPhase
<1>9. PhaseHasReason'
  <2>1. Cardinality(players') \in Nat
    BY <1>5, PlayersAssumption, FS_Subset, FS_CardinalityType DEF TypeOK
  <2>2. (OpenPhase({"Countdown"}) => Cardinality(players) >= 2)'
    <3> SUFFICES ASSUME ~closed', phase' = "Countdown"
                 PROVE  Cardinality(players') >= 2
      BY DEF OpenPhase
    <3>1. phase = "Countdown" /\ ~(Cardinality(players') < 2)
      BY LeaveOutcomes
    <3> QED
      BY <2>1, <3>1
  <2>3. (OpenPhase({"Racing"}) => players \ finished # {})'
    BY <1>1, LeaveOutcomes DEF OpenPhase
  <2>4. (OpenPhase({"Waiting", "Countdown"}) =>
           finished = {} /\ finishers = <<>> /\ \A q \in players : chars[q] = 0)'
    BY <1>1, LeaveOutcomes DEF OpenPhase, PhaseHasReason, TypeOK
  <2> QED
    BY <2>2, <2>3, <2>4 DEF PhaseHasReason
<1>10. AbortIsTheOpenChannel'
  BY <1>1, LeaveOutcomes DEF AbortIsTheOpenChannel, OpenPhase
<1>11. CountdownIsCounting' /\ TicksAreLeft' /\ OutsidersAreBlank'
  BY <1>1, LeaveOutcomes
  DEF CountdownIsCounting, TicksAreLeft, OutsidersAreBlank, OpenPhase, TypeOK
<1> QED
  BY <1>5, <1>6, <1>7, <1>8, <1>9, <1>10, <1>11

-----------------------------------------------------------------------------
(* Goroutines. *)

(* A goroutine that moves without touching the lobby disturbs only types,   *)
(* its own countdown and its ticks.                                         *)
LEMMA QuietGoroutineInv ==
  ASSUME LobbyInv, UNCHANGED lobbyState,
         NEW c \in Aborts, NEW r \in Routines, NEW n \in 0..CountdownFrom,
         Goto(c, r, n),
         r \in {"tick", "sleep"} => n > 0,
         OpenPhase({"Countdown"}) /\ abort = c => r \in {"tick", "sleep", "start"}
  PROVE  LobbyInv'
<1> USE DEF LobbyInv, Goto, lobbyState, roster, scores, channel
<1>1. TypeOK'
  BY DEF TypeOK
<1>2. RosterAgrees' /\ RacersAreReady' /\ PhaseHasReason' /\ PlacesAreThePodium'
      /\ AbortIsTheOpenChannel' /\ OutsidersAreBlank'
  BY DEF RosterAgrees, RacersAreReady, PhaseHasReason, PlacesAreThePodium,
         AbortIsTheOpenChannel, OutsidersAreBlank, OpenPhase
<1>3. CountdownIsCounting' /\ TicksAreLeft'
  BY DEF CountdownIsCounting, TicksAreLeft, OpenPhase, TypeOK
<1> QED
  BY <1>1, <1>2, <1>3

LEMMA CountdownAtFacts ==
  ASSUME NEW n \in Nat
  PROVE  /\ CountdownAt(n) \in {"tick", "start"}
         /\ CountdownAt(n) = "tick" => n > 0
BY DEF CountdownAt

LEMMA CountdownTickInv ==
  ASSUME LobbyInv, NEW c \in Aborts, CountdownTick(c)
  PROVE  LobbyInv'
<1>1. /\ left[c] \in 0..CountdownFrom /\ left[c] > 0
      /\ 0 \in 0..CountdownFrom
  BY BoundsAssumption DEF CountdownTick, LobbyInv, TypeOK, TicksAreLeft
<1>2. CASE phase = "Countdown" /\ Goto(c, "sleep", left[c])
  BY <1>1, <1>2, QuietGoroutineInv DEF CountdownTick, Routines
<1>3. CASE phase # "Countdown" /\ Goto(c, "idle", 0)
  BY <1>1, <1>3, QuietGoroutineInv DEF CountdownTick, Routines, OpenPhase
<1> QED
  BY <1>2, <1>3 DEF CountdownTick

LEMMA CountdownTimerInv ==
  ASSUME LobbyInv, NEW c \in Aborts, CountdownTimer(c)
  PROVE  LobbyInv'
<1> DEFINE n == left[c] - 1
<1>1. n \in 0..CountdownFrom
  BY BoundsAssumption DEF CountdownTimer, LobbyInv, TypeOK, TicksAreLeft
<1>2. CountdownAt(n) \in {"tick", "start"} /\ (CountdownAt(n) = "tick" => n > 0)
  BY <1>1, CountdownAtFacts
<1>3. Goto(c, CountdownAt(n), n) /\ UNCHANGED lobbyState
  BY DEF CountdownTimer
<1> HIDE DEF n
<1> QED
  BY <1>1, <1>2, <1>3, QuietGoroutineInv DEF Routines

(* The select's abort branch: the lobby is not counting on this channel. *)
LEMMA AbortBranchInv ==
  ASSUME LobbyInv, NEW c \in Aborts, c \notin open,
         Goto(c, "idle", 0), UNCHANGED lobbyState
  PROVE  LobbyInv'
<1>1. 0 \in 0..CountdownFrom
  BY BoundsAssumption
<1>2. abort # c
  BY AbortsAssumption DEF LobbyInv, AbortIsTheOpenChannel
<1> QED
  BY <1>1, <1>2, QuietGoroutineInv DEF Routines

LEMMA BeginRaceInv ==
  ASSUME LobbyInv, NEW c \in Aborts, BeginRace(c)
  PROVE  LobbyInv'
<1>0. 0 \in 0..CountdownFrom
  BY BoundsAssumption
<1>1. CASE phase # "Countdown" /\ Goto(c, "idle", 0) /\ UNCHANGED <<phase, finishers>>
  <2>1. UNCHANGED lobbyState
    BY <1>1 DEF BeginRace, lobbyState, scores
  <2> QED
    BY <1>0, <1>1, <2>1, QuietGoroutineInv DEF Routines, OpenPhase
<1>2. CASE phase = "Countdown" /\ phase' = "Racing" /\ finishers' = <<>>
           /\ WatchDeadline(c)
  <2> USE DEF LobbyInv
  <2>1. /\ UNCHANGED <<roster, closed, ready, chars, finished, place, channel>>
        /\ Goto(c, "watch", 0)
    BY <1>2 DEF BeginRace, WatchDeadline
  <2> USE DEF roster, channel, Goto
  <2>2. TypeOK'
    <3>1. finishers' \in Seq(PlayerIDs)
      BY <1>2
    <3> QED
      BY <1>0, <1>2, <2>1, <3>1 DEF TypeOK, Phases, Routines
  <2>3. RosterAgrees' /\ OutsidersAreBlank'
    BY <2>1 DEF RosterAgrees, OutsidersAreBlank
  <2>4. RacersAreReady' /\ PhaseHasReason'
    <3>1. ~closed => finished = {} /\ players # {}
      BY <1>2 DEF PhaseHasReason, OpenPhase, RosterAgrees
    <3> QED
      BY <1>2, <2>1, <3>1 DEF RacersAreReady, PhaseHasReason, OpenPhase
  <2>5. PlacesAreThePodium'
    BY <1>2, <2>1 DEF PlacesAreThePodium, PhaseHasReason, OpenPhase
  <2>6. AbortIsTheOpenChannel'
    BY <1>2, <2>1 DEF AbortIsTheOpenChannel, OpenPhase
  <2>7. CountdownIsCounting' /\ TicksAreLeft'
    BY <1>2, <2>1 DEF CountdownIsCounting, TicksAreLeft, OpenPhase, TypeOK
  <2> QED
    BY <2>2, <2>3, <2>4, <2>5, <2>6, <2>7
<1> QED
  BY <1>1, <1>2 DEF BeginRace

LEMMA DeadlineTimerInv ==
  ASSUME LobbyInv, NEW c \in Aborts, DeadlineTimer(c)
  PROVE  LobbyInv'
<1>1. 0 \in 0..CountdownFrom
  BY BoundsAssumption
<1>2. OpenPhase({"Countdown"}) => abort # c
  BY DEF DeadlineTimer, LobbyInv, CountdownIsCounting
<1> QED
  BY <1>1, <1>2, QuietGoroutineInv DEF DeadlineTimer, Routines

LEMMA CallRaceInv ==
  ASSUME LobbyInv, NEW c \in Aborts, CallRace(c)
  PROVE  LobbyInv'
<1>0. 0 \in 0..CountdownFrom
  BY BoundsAssumption
<1>1. CASE phase # "Racing"
  <2>1. UNCHANGED lobbyState /\ Goto(c, "idle", 0)
    BY <1>1 DEF CallRace, lobbyState
  <2>2. OpenPhase({"Countdown"}) => abort # c
    BY DEF CallRace, LobbyInv, CountdownIsCounting
  <2> QED
    BY <1>0, <2>1, <2>2, QuietGoroutineInv DEF Routines
<1>2. CASE phase = "Racing"
  <2> USE DEF LobbyInv
  <2>1. /\ phase' = "Finished" /\ open' = open \ {abort} /\ abort' = NoAbort
        /\ UNCHANGED <<roster, closed, scores>>
        /\ Goto(c, "idle", 0)
    BY <1>2 DEF CallRace, EndRace, CloseAbort
  <2> USE DEF roster, scores, Goto
  <2>2. TypeOK'
    BY <1>0, <2>1 DEF TypeOK, Phases, Routines
  <2>3. RosterAgrees' /\ OutsidersAreBlank' /\ PlacesAreThePodium'
    BY <2>1 DEF RosterAgrees, OutsidersAreBlank, PlacesAreThePodium
  <2>4. RacersAreReady' /\ PhaseHasReason' /\ AbortIsTheOpenChannel'
    BY <1>2, <2>1
    DEF RacersAreReady, PhaseHasReason, AbortIsTheOpenChannel, OpenPhase
  <2>5. CountdownIsCounting' /\ TicksAreLeft'
    BY <2>1 DEF CountdownIsCounting, TicksAreLeft, OpenPhase, TypeOK
  <2> QED
    BY <2>2, <2>3, <2>4, <2>5
<1> QED
  BY <1>1, <1>2

-----------------------------------------------------------------------------
LEMMA HandlerInv ==
  ASSUME LobbyInv, NEW p \in PlayerIDs, Handler(p)
  PROVE  LobbyInv'
BY JoinInv, LeaveInv, SetReadyInv, RematchInv, FinishInv, RecordProgressInv
DEF Handler

LEMMA GoroutineInv ==
  ASSUME LobbyInv, NEW c \in Aborts, Goroutine(c)
  PROVE  LobbyInv'
<1>1. CASE CountdownAbort(c) \/ DeadlineAbort(c)
  BY <1>1, AbortBranchInv DEF CountdownAbort, DeadlineAbort
<1> QED
  BY <1>1, CountdownTickInv, CountdownTimerInv, BeginRaceInv, DeadlineTimerInv,
     CallRaceInv
  DEF Goroutine

LEMMA StutterInv ==
  ASSUME LobbyInv, UNCHANGED vars
  PROVE  LobbyInv'
BY DEF vars, roster, scores, channel, goroutines, LobbyInv, TypeOK, RosterAgrees,
       RacersAreReady, PhaseHasReason, PlacesAreThePodium, OpenPhase,
       AbortIsTheOpenChannel, CountdownIsCounting, OutsidersAreBlank,
       TicksAreLeft

LEMMA NextInv == LobbyInv /\ [Next]_vars => LobbyInv'
BY HandlerInv, GoroutineInv, StartInv, StutterInv
DEF Next, Starting, Unhurried

(* The inductive invariant holds throughout every behaviour of the lobby. *)
THEOREM LobbyInvariant == Spec => []LobbyInv
BY InitInv, NextInv, PTL DEF Spec

(* The player map, the join order and the host agree (lobby.go:232-312). *)
THEOREM RosterTheorem == Spec => []RosterAgrees
BY LobbyInvariant, PTL DEF LobbyInv

(* Everybody in a countdown or a race has readied up (race.go:18-39). *)
THEOREM ReadyTheorem == Spec => []RacersAreReady
BY LobbyInvariant, PTL DEF LobbyInv

(* No countdown without a rival, no race without a racer (race.go:153-178). *)
THEOREM PhaseTheorem == Spec => []PhaseHasReason
BY LobbyInvariant, PTL DEF LobbyInv

(* Places survive whoever leaves (lobby.go:194-196, race.go:119-148). *)
THEOREM PodiumTheorem == Spec => []PlacesAreThePodium
BY LobbyInvariant, PTL DEF LobbyInv

(* The abort channel is closed once and never leaks (race.go:278-291). *)
THEOREM AbortTheorem == Spec => []AbortIsTheOpenChannel
BY LobbyInvariant, PTL DEF LobbyInv

(* A countdown on display is being counted, leftovers or not. *)
THEOREM CountingTheorem == Spec => []CountdownIsCounting
BY LobbyInvariant, PTL DEF LobbyInv

(* Types, for the reader of the other theorems. *)
THEOREM TypeTheorem == Spec => []TypeOK
BY LobbyInvariant, PTL DEF LobbyInv

-----------------------------------------------------------------------------
(* The standings. *)

Earlier(a, b) ==
  \E i, j \in DOMAIN order : i < j /\ order[i] = a /\ order[j] = b

(* Of two players one joined before the other. *)
LEMMA JoinOrderRanks ==
  ASSUME TypeOK, RosterAgrees
  PROVE  /\ \A a \in players : ~Earlier(a, a)
         /\ \A a, b \in players : a # b => Earlier(a, b) \/ Earlier(b, a)
         /\ \A a, b, c \in players :
              Earlier(a, b) /\ Earlier(b, c) => Earlier(a, c)
<1>1. Len(order) \in Nat /\ DOMAIN order = 1..Len(order)
  BY LenProperties DEF TypeOK
<1>2. \A a \in players : \E i \in DOMAIN order : order[i] = a
  BY DEF RosterAgrees, ToSet
<1>3. \A i, j \in DOMAIN order : order[i] = order[j] => i = j
  BY DEF RosterAgrees, IsInjective
<1>4. ASSUME NEW a \in players, Earlier(a, a) PROVE FALSE
  BY <1>1, <1>3, <1>4 DEF Earlier
<1>5. ASSUME NEW a \in players, NEW b \in players, a # b
      PROVE  Earlier(a, b) \/ Earlier(b, a)
  <2>1. PICK i \in DOMAIN order : order[i] = a
    BY <1>2
  <2>2. PICK j \in DOMAIN order : order[j] = b
    BY <1>2
  <2>3. i < j \/ j < i
    BY <2>1, <2>2, <1>1, <1>5
  <2>4. QED
    BY <2>1, <2>2, <2>3 DEF Earlier
<1>6. ASSUME NEW a \in players, NEW b \in players, NEW c \in players,
             Earlier(a, b), Earlier(b, c)
      PROVE  Earlier(a, c)
  <2>1. PICK i, j \in DOMAIN order : i < j /\ order[i] = a /\ order[j] = b
    BY <1>6 DEF Earlier
  <2>2. PICK k, l \in DOMAIN order : k < l /\ order[k] = b /\ order[l] = c
    BY <1>6 DEF Earlier
  <2>3. j = k
    BY <2>1, <2>2, <1>3
  <2>4. i < l
    BY <2>1, <2>2, <2>3, <1>1
  <2>5. QED
    BY <2>1, <2>2, <2>4 DEF Earlier
<1>7. QED
  BY <1>4, <1>5, <1>6

(* No two finishers share a place. *)
LEMMA PlacesDiffer ==
  ASSUME TypeOK, PlacesAreThePodium, ~closed
  PROVE  /\ \A p \in finished :
              place[p] \in DOMAIN finishers /\ finishers[place[p]] = p
         /\ \A p \in players : place[p] \in Int /\ chars[p] \in Int
         /\ \A p, q \in finished : place[p] = place[q] => p = q
<1>1. \A p \in finished :
        place[p] \in DOMAIN finishers /\ finishers[place[p]] = p
  BY DEF PlacesAreThePodium, TypeOK
<1>2. \A p \in players : place[p] \in Nat /\ chars[p] \in 0..PassageLen
  BY DEF TypeOK
<1>3. QED
  BY <1>1, <1>2, BoundsAssumption

Standing ==
  {pair \in players \X players : StandsAbove(pair[1], pair[2])}

(* resultsLocked compares any two players, and in one way only. *)
LEMMA StandingRanks ==
  ASSUME TypeOK, RosterAgrees, PlacesAreThePodium, ~closed
  PROVE  Ranks(Standing, players)
<1>1. /\ \A a \in players : ~Earlier(a, a)
      /\ \A a, b \in players : a # b => Earlier(a, b) \/ Earlier(b, a)
      /\ \A a, b, c \in players :
           Earlier(a, b) /\ Earlier(b, c) => Earlier(a, c)
  BY JoinOrderRanks
<1>2. /\ \A p \in players : place[p] \in Int /\ chars[p] \in Int
      /\ \A p, q \in finished : place[p] = place[q] => p = q
  BY PlacesDiffer
<1>3. \A a, b \in players :
        <<a, b>> \in Standing <=>
          \/ a \in finished /\ b \notin finished
          \/ a \in finished /\ b \in finished /\ place[a] < place[b]
          \/ /\ a \notin finished /\ b \notin finished
             /\ \/ chars[a] > chars[b]
                \/ chars[a] = chars[b] /\ Earlier(a, b)
  BY DEF Standing, StandsAbove, Earlier
<1>4. ASSUME NEW a \in players PROVE <<a, a>> \notin Standing
  BY <1>1, <1>2, <1>3
<1>5. ASSUME NEW a \in players, NEW b \in players, a # b
      PROVE  <<a, b>> \in Standing \/ <<b, a>> \in Standing
  BY <1>1, <1>2, <1>3, <1>5
<1>6. ASSUME NEW a \in players, NEW b \in players, NEW c \in players,
             <<a, b>> \in Standing, <<b, c>> \in Standing
      PROVE  <<a, c>> \in Standing
  BY <1>1, <1>2, <1>3, <1>6
<1>7. QED
  BY <1>4, <1>5, <1>6 DEF Ranks

(* Results is such a list, sorted. *)
LEMMA ResultsSorted ==
  ASSUME TypeOK, RosterAgrees, PlacesAreThePodium, ~closed
  PROVE  /\ Results \in SetToSeqs(players)
         /\ \A i, j \in DOMAIN Results :
              i < j => StandsAbove(Results[i], Results[j])
<1>1. CanSort(players, Standing)
  BY StandingRanks, PlayersFinite, SortedExists
<1>2. PICK s \in SetToSeqs(players) : InOrder(s, Standing)
  BY <1>1 DEF CanSort
<1>3. \A i, j \in DOMAIN s : i < j => StandsAbove(s[i], s[j])
  <2> SUFFICES ASSUME NEW i \in DOMAIN s, NEW j \in DOMAIN s, i < j
               PROVE  StandsAbove(s[i], s[j])
    OBVIOUS
  <2>1. <<s[i], s[j]>> \in Standing
    BY <1>2 DEF InOrder
  <2>2. QED
    BY <2>1 DEF Standing
<1>4. QED
  BY <1>2, <1>3 DEF Results

LEMMA StandingsFollow == LobbyInv => StandingsFollowTheRace
<1> SUFFICES ASSUME LobbyInv, ~closed, OpenPhase({"Racing", "Finished"})
             PROVE  StandingsFollowTheRace
  BY DEF StandingsFollowTheRace, OpenPhase
<1> USE DEF LobbyInv
<1>1. /\ Results \in SetToSeqs(players)
      /\ \A i, j \in DOMAIN Results :
           i < j => StandsAbove(Results[i], Results[j])
  BY ResultsSorted
<1>2. /\ Len(Results) = Cardinality(players)
      /\ DOMAIN Results = 1..Cardinality(players)
      /\ ToSet(Results) = players
  BY <1>1, PlayersFinite, ListsAll
<1>3. finished = players \cap ToSet(finishers)
  BY DEF PlacesAreThePodium
<1>4. ASSUME NEW i \in DOMAIN Results, NEW j \in DOMAIN Results, i < j,
             NEW a, NEW b, a = Results[i], b = Results[j]
      PROVE  \/ a \in ToSet(finishers) /\ b \notin ToSet(finishers)
             \/ \E k, l \in DOMAIN finishers :
                  k < l /\ finishers[k] = a /\ finishers[l] = b
             \/ {a, b} \cap ToSet(finishers) = {} /\ chars[a] >= chars[b]
  <2>1. a \in players /\ b \in players
    BY <1>2, <1>4 DEF ToSet
  <2>2. StandsAbove(a, b)
    BY <1>1, <1>4
  <2>3. CASE a \in finished /\ b \notin finished
    BY <2>1, <2>3, <1>3
  <2>4. CASE a \in finished /\ b \in finished /\ place[a] < place[b]
    <3>1. /\ place[a] \in DOMAIN finishers /\ finishers[place[a]] = a
          /\ place[b] \in DOMAIN finishers /\ finishers[place[b]] = b
      BY <2>4, PlacesDiffer
    <3>2. QED
      BY <2>4, <3>1
  <2>5. CASE /\ a \notin finished /\ b \notin finished
             /\ chars[a] > chars[b] \/ chars[a] = chars[b]
    <3>1. chars[a] \in Int /\ chars[b] \in Int
      BY <2>1, PlacesDiffer
    <3>2. chars[a] >= chars[b]
      BY <2>5, <3>1
    <3>3. QED
      BY <2>1, <2>5, <3>2, <1>3
  <2>6. QED
    BY <2>2, <2>3, <2>4, <2>5 DEF StandsAbove
<1>5. QED
  BY <1>2, <1>4 DEF StandingsFollowTheRace

(* RaceEnded ranks every player once, as they raced. *)
THEOREM StandingsTheorem == Spec => []StandingsFollowTheRace
BY LobbyInvariant, StandingsFollow, PTL

-----------------------------------------------------------------------------
(* The race cycle: every behaviour of the lobby, leftover goroutines        *)
(* included, is one of RaceCycle.tla.                                       *)

(* What LobbyProperties!Cycle substitutes for the stage. *)
StageOf(shut, ph) ==
  IF shut THEN "gone"
  ELSE CASE ph = "Waiting" -> "waiting"
         [] ph = "Countdown" -> "countdown"
         [] ph = "Racing" -> "racing"
         [] ph = "Finished" -> "finished"

(* For the racers present, being on the podium is having finished. *)
LEMMA CrossedIsFinished ==
  ASSUME LobbyInv, ~closed, NEW R \in SUBSET players
  PROVE  Cycle!AllCrossed(R, finishers) <=> R \subseteq finished
BY DEF Cycle!AllCrossed, Cycle!Range, ToSet, LobbyInv, PlacesAreThePodium

(* The race cycle counts with the same cardinality. *)
LEMMA SameCardinality ==
  ASSUME NEW R
  PROVE  Cycle!Cardinality(R) = Cardinality(R)
BY DEF Cycle!Cardinality, Cardinality

LEMMA InitRefines == Init => Cycle!CycleInit
BY DEF Init, Cycle!CycleInit

LEMMA JoinRefines ==
  ASSUME NEW p \in PlayerIDs, Join(p)
  PROVE  Cycle!Enter(p)
BY DEF Join, Cycle!Enter, scores

LEMMA LeaveRefines ==
  ASSUME LobbyInv, NEW p \in PlayerIDs, Leave(p)
  PROVE  Cycle!Depart(p)
<1>1. /\ ~closed /\ p \in players /\ players' = players \ {p}
      /\ finishers' = finishers
  BY DEF Leave, Forget
<1>2. Cycle!AllCrossed(players', finishers) <=> players' \subseteq finished
  BY <1>1, CrossedIsFinished
<1>3. phase \in Phases
  BY DEF LobbyInv, TypeOK
<1> DEFINE stage == StageOf(closed, phase)
           after == StageOf(closed', phase')
<1>4. after = Cycle!StageAfterDeparture(stage, players', finishers)
  <2> USE DEF Cycle!StageAfterDeparture, StageOf
  <2>1. CASE players' = {} /\ closed' = TRUE
    BY <2>1, <1>1
  <2>2. CASE players' # {} /\ closed' = closed /\ phase = "Countdown"
             /\ Cardinality(players') < 2 /\ phase' = "Waiting"
    BY <2>2, <1>1, SameCardinality
  <2>3. CASE players' # {} /\ closed' = closed /\ phase = "Racing"
             /\ players' \subseteq finished /\ phase' = "Finished"
    BY <2>3, <1>1, <1>2
  <2>4. CASE /\ players' # {} /\ closed' = closed
             /\ phase = "Countdown" => ~(Cardinality(players') < 2)
             /\ phase = "Racing" => ~(players' \subseteq finished)
             /\ phase' = phase
    BY <2>4, <1>1, <1>2, <1>3, SameCardinality DEF Phases
  <2> QED
    BY <2>1, <2>2, <2>3, <2>4, LeaveOutcomes
<1>5. after = "gone" <=> closed'
  BY <1>3, LeaveOutcomes DEF StageOf, Phases
<1> QED
  BY <1>1, <1>4, <1>5 DEF Cycle!Depart, StageOf

LEMMA StartRefines ==
  ASSUME NEW p \in PlayerIDs, Start(p)
  PROVE  Cycle!CountIn
BY SameCardinality DEF Start, AllReady, Cycle!CountIn, roster, scores

LEMMA FinishRefines ==
  ASSUME LobbyInv, NEW p \in PlayerIDs, Finish(p)
  PROVE  Cycle!Cross(p)
<1>1. /\ ~closed /\ closed' = closed /\ phase = "Racing"
      /\ p \in players /\ p \notin finished /\ players' = players
      /\ finishers' = Append(finishers, p)
      /\ finished' = finished \cup {p}
  BY DEF Finish, roster
<1>2. \/ phase' = "Finished" /\ players \subseteq finished'
      \/ phase' = "Racing" /\ ~(players \subseteq finished')
  BY <1>1 DEF Finish, EveryoneFinished, EndRace
<1>3. p \notin Cycle!Range(finishers)
  BY <1>1 DEF Cycle!Range, ToSet, LobbyInv, PlacesAreThePodium
<1>4. Cycle!AllCrossed(players, finishers') <=> players \subseteq finished'
  <2>1. LobbyInv'
    BY FinishInv
  <2> QED
    BY <2>1, <1>1
    DEF LobbyInv, PlacesAreThePodium, Cycle!AllCrossed, Cycle!Range, ToSet
<1> QED
  BY <1>1, <1>2, <1>3, <1>4 DEF Cycle!Cross

LEMMA RematchRefines ==
  ASSUME NEW p \in PlayerIDs, Rematch(p)
  PROVE  Cycle!Again
BY DEF Rematch, Cycle!Again, roster

LEMMA BeginRaceRefines ==
  ASSUME LobbyInv, NEW c \in Aborts, BeginRace(c)
  PROVE  [Cycle!CycleNext]_(Cycle!cycleVars)
<1>1. players' = players /\ closed' = closed
  BY DEF BeginRace, roster
<1>2. CASE ~closed /\ phase = "Countdown" /\ phase' = "Racing" /\ finishers' = <<>>
  <2>1. finishers = <<>>
    BY <1>2 DEF LobbyInv, PhaseHasReason, OpenPhase
  <2>2. Cycle!Open
    BY <1>1, <1>2, <2>1 DEF Cycle!Open
  <2> QED
    BY <2>2 DEF Cycle!CycleNext
<1>3. CASE closed
  BY <1>1, <1>3 DEF Cycle!cycleVars
<1>4. CASE UNCHANGED <<phase, finishers>>
  BY <1>1, <1>4 DEF Cycle!cycleVars
<1> QED
  BY <1>2, <1>3, <1>4 DEF BeginRace

LEMMA CallRaceRefines ==
  ASSUME NEW c \in Aborts, CallRace(c)
  PROVE  [Cycle!CycleNext]_(Cycle!cycleVars)
<1>1. players' = players /\ closed' = closed /\ finishers' = finishers
  BY DEF CallRace, roster, scores
<1>2. CASE ~closed /\ phase = "Racing" /\ phase' = "Finished"
  BY <1>1, <1>2 DEF Cycle!CycleNext, Cycle!Call
<1>3. CASE closed
  BY <1>1, <1>3 DEF Cycle!cycleVars
<1>4. CASE phase' = phase
  BY <1>1, <1>4 DEF Cycle!cycleVars
<1> QED
  BY <1>2, <1>3, <1>4 DEF CallRace, EndRace

LEMMA QuietRefines ==
  ASSUME UNCHANGED <<roster, phase, closed, finishers>>
  PROVE  UNCHANGED Cycle!cycleVars
BY DEF roster, Cycle!cycleVars

LEMMA NextRefines ==
  LobbyInv /\ [Next]_vars => [Cycle!CycleNext]_(Cycle!cycleVars)
<1> SUFFICES ASSUME LobbyInv, [Next]_vars
             PROVE  [Cycle!CycleNext]_(Cycle!cycleVars)
  OBVIOUS
<1>1. ASSUME NEW p \in PlayerIDs, Start(p)
      PROVE  Cycle!CycleNext
  BY <1>1, StartRefines DEF Cycle!CycleNext
<1>2. ASSUME NEW p \in PlayerIDs, Handler(p)
      PROVE  [Cycle!CycleNext]_(Cycle!cycleVars)
  <2>1. CASE SetReady(p) \/ \E n \in 0..(PassageLen - 1) : RecordProgress(p, n)
    BY <2>1, QuietRefines DEF SetReady, RecordProgress
  <2>2. CASE Join(p) \/ Leave(p) \/ Finish(p) \/ Rematch(p)
    BY <2>2, JoinRefines, LeaveRefines, FinishRefines, RematchRefines
    DEF Cycle!CycleNext
  <2> QED
    BY <1>2, <2>1, <2>2 DEF Handler
<1>3. ASSUME NEW c \in Aborts, Goroutine(c)
      PROVE  [Cycle!CycleNext]_(Cycle!cycleVars)
  <2>1. CASE UNCHANGED lobbyState
    BY <2>1, QuietRefines DEF lobbyState, scores
  <2> QED
    BY <1>3, <2>1, BeginRaceRefines, CallRaceRefines
    DEF Goroutine, CountdownTick, CountdownTimer, CountdownAbort, DeadlineTimer,
        DeadlineAbort
<1>4. CASE UNCHANGED vars
  BY <1>4, QuietRefines DEF vars, scores
<1> QED
  BY <1>1, <1>2, <1>3, <1>4 DEF Next, Starting, Unhurried

(* The lobby implements the race cycle (race.go:8-9). *)
THEOREM CycleTheorem == Spec => ImplementsRaceCycle
BY InitRefines, NextRefines, LobbyInvariant, PTL
DEF Spec, ImplementsRaceCycle, Cycle!CycleSpec

-----------------------------------------------------------------------------
(***************************************************************************)
(* When goroutines called off are gone before the next countdown starts,    *)
(* every race has its deadline, opens on its own countdown and is called    *)
(* only by its own deadline.                                                *)
(***************************************************************************)

(* While counting in or racing only the goroutine on l.abort is alive. *)
OnlyOneGoroutine ==
  OpenPhase({"Countdown", "Racing"}) =>
    \A c \in Aborts : routine[c] # "idle" => c = abort

PromptInv == LobbyInv /\ OnlyOneGoroutine /\ RaceHasDeadline

LEMMA PromptInitInv == Init => PromptInv
<1> SUFFICES ASSUME Init PROVE PromptInv
  OBVIOUS
<1> QED
  BY InitInv DEF Init, PromptInv, OnlyOneGoroutine, RaceHasDeadline, OpenPhase

(* A countdown is started with nobody else running, so it runs alone. *)
LEMMA PromptStartInv ==
  ASSUME PromptInv, CalledOffAreGone, NEW p \in PlayerIDs, Start(p)
  PROVE  PromptInv'
<1>1. LobbyInv'
  BY StartInv DEF PromptInv
<1>2. PICK c \in Aborts :
        abort' = c /\ \E r \in Routines : routine' = [routine EXCEPT ![c] = r]
  <2>1. CountdownAt(CountdownFrom) \in Routines
    BY DEF CountdownAt, Routines
  <2> QED
    BY <2>1 DEF Start, NewAbort
<1>3. /\ \A d \in Aborts : routine[d] = "idle"
      /\ phase' = "Countdown"
  BY DEF Start, PromptInv, LobbyInv, AbortIsTheOpenChannel, OpenPhase,
         CalledOffAreGone
<1>4. OnlyOneGoroutine' /\ RaceHasDeadline'
  BY <1>2, <1>3
  DEF OnlyOneGoroutine, RaceHasDeadline, OpenPhase, PromptInv, LobbyInv, TypeOK
<1> QED
  BY <1>1, <1>4 DEF PromptInv

(* No handler but Start brings a goroutine to life or opens a race. *)
LEMMA PromptHandlerInv ==
  ASSUME PromptInv, NEW p \in PlayerIDs, Handler(p)
  PROVE  PromptInv'
<1>1. LobbyInv'
  BY HandlerInv DEF PromptInv
<1>2. routine' = routine
  BY DEF Handler, Join, Leave, SetReady, Rematch, Finish, RecordProgress,
         goroutines
<1>3. OpenPhase({"Countdown"})' => OpenPhase({"Countdown"}) /\ abort' = abort
  BY LeaveOutcomes
  DEF Handler, Join, SetReady, Rematch, Finish, RecordProgress, channel,
      OpenPhase, EndRace, Leave
<1>4. OpenPhase({"Racing"})' => OpenPhase({"Racing"}) /\ abort' = abort
  BY LeaveOutcomes
  DEF Handler, Join, SetReady, Rematch, Finish, RecordProgress, channel,
      OpenPhase, EndRace, Leave
<1>5. OnlyOneGoroutine' /\ RaceHasDeadline'
  BY <1>2, <1>3, <1>4
  DEF PromptInv, OnlyOneGoroutine, RaceHasDeadline, OpenPhase
<1> QED
  BY <1>1, <1>5 DEF PromptInv

LEMMA PromptGoroutineInv ==
  ASSUME PromptInv, NEW c \in Aborts, Goroutine(c)
  PROVE  PromptInv'
<1>1. LobbyInv'
  BY GoroutineInv DEF PromptInv
<1> USE DEF PromptInv
<1>2. CASE UNCHANGED lobbyState
  <2>1. PICK r \in Routines : routine' = [routine EXCEPT ![c] = r]
    BY DEF Goroutine, CountdownTick, CountdownTimer, CountdownAbort, BeginRace,
           DeadlineTimer, DeadlineAbort, CallRace, Goto, WatchDeadline,
           CountdownAt, Routines
  <2>2. routine[c] # "idle"
    BY DEF Goroutine, CountdownTick, CountdownTimer, CountdownAbort, BeginRace,
           DeadlineTimer, DeadlineAbort, CallRace
  <2>3. OnlyOneGoroutine'
    BY <1>2, <2>1, <2>2
    DEF OnlyOneGoroutine, OpenPhase, lobbyState, channel, LobbyInv, TypeOK
  <2>4. RaceHasDeadline'
    <3> SUFFICES ASSUME OpenPhase({"Racing"})
                 PROVE  abort \in Aborts /\ routine'[abort] \in {"watch", "call"}
      BY <1>2 DEF RaceHasDeadline, lobbyState, channel, OpenPhase
    <3>1. c = abort /\ abort \in open /\ routine[c] \in {"watch", "call"}
      BY <2>2, AbortsAssumption
      DEF OnlyOneGoroutine, RaceHasDeadline, OpenPhase, LobbyInv,
          AbortIsTheOpenChannel
    <3>2. phase = "Racing" /\ phase' = phase
      BY <1>2 DEF OpenPhase, lobbyState
    <3>3. DeadlineTimer(c)
      BY <3>1, <3>2
      DEF Goroutine, CountdownTick, CountdownTimer, CountdownAbort, BeginRace,
          DeadlineAbort, CallRace, EndRace
    <3> QED
      BY <3>1, <3>3 DEF DeadlineTimer, Goto, LobbyInv, TypeOK
  <2> QED
    BY <1>1, <2>3, <2>4
<1>3. CASE BeginRace(c) /\ phase = "Countdown"
  <2>1. /\ phase' = "Racing" /\ routine' = [routine EXCEPT ![c] = "watch"]
        /\ closed' = closed /\ abort' = abort
        /\ routine[c] = "start"
    BY <1>3 DEF BeginRace, WatchDeadline, Goto, channel
  <2>2. ~closed => c = abort
    BY <1>3, <2>1 DEF OnlyOneGoroutine, OpenPhase
  <2>3. OnlyOneGoroutine'
    BY <1>3, <2>1, <2>2 DEF OnlyOneGoroutine, OpenPhase, LobbyInv, TypeOK
  <2>4. RaceHasDeadline'
    BY <2>1, <2>2 DEF RaceHasDeadline, OpenPhase, LobbyInv, TypeOK
  <2> QED
    BY <1>1, <2>3, <2>4
<1>4. CASE CallRace(c) /\ phase = "Racing"
  BY <1>1, <1>4
  DEF CallRace, EndRace, OnlyOneGoroutine, RaceHasDeadline, OpenPhase
<1> QED
  BY <1>2, <1>3, <1>4
  DEF Goroutine, CountdownTick, CountdownTimer, CountdownAbort, BeginRace,
      DeadlineTimer, DeadlineAbort, CallRace, lobbyState, scores

LEMMA PromptStutterInv ==
  ASSUME PromptInv, UNCHANGED vars
  PROVE  PromptInv'
BY StutterInv
DEF PromptInv, vars, roster, scores, channel, goroutines, OnlyOneGoroutine,
    RaceHasDeadline, OpenPhase

LEMMA PromptNextInv == PromptInv /\ [PromptNext]_vars => PromptInv'
BY PromptStartInv, PromptHandlerInv, PromptGoroutineInv, PromptStutterInv
DEF PromptNext, Starting, Unhurried

THEOREM PromptInvariant == PromptSpec => []PromptInv
BY PromptInitInv, PromptNextInv, PTL DEF PromptSpec

(* Every live race has a goroutine waiting to call it (race.go:84-96). *)
THEOREM DeadlineTheorem == PromptSpec => []RaceHasDeadline
BY PromptInvariant, PTL DEF PromptInv

(* A race opens when its own countdown is done (race.go:44-82). *)
THEOREM OpeningTheorem == PromptSpec => RaceOpensOnItsCountdown
<1>1. ASSUME PromptInv, [PromptNext]_vars,
             OpenPhase({"Countdown"}), phase' = "Racing"
      PROVE  routine[abort] = "start" /\ routine'[abort] = "watch"
  <2>1. PICK c \in Aborts : Goroutine(c)
    <3>1. \A p \in PlayerIDs : ~Handler(p) /\ ~Start(p)
      BY <1>1, LeaveOutcomes
      DEF OpenPhase, Handler, Join, SetReady, Rematch, Finish, RecordProgress,
          Start
    <3>2. ~UNCHANGED vars
      BY <1>1 DEF vars, OpenPhase
    <3> QED
      BY <1>1, <3>1, <3>2 DEF PromptNext, Starting, Unhurried
  <2>2. BeginRace(c) /\ WatchDeadline(c) /\ routine[c] = "start"
    BY <1>1, <2>1
    DEF Goroutine, CountdownTick, CountdownTimer, CountdownAbort, BeginRace,
        DeadlineTimer, DeadlineAbort, CallRace, EndRace, OpenPhase, lobbyState
  <2>3. c = abort
    BY <1>1, <2>2 DEF PromptInv, OnlyOneGoroutine, OpenPhase
  <2> QED
    BY <1>1, <2>2, <2>3
    DEF WatchDeadline, Goto, PromptInv, LobbyInv, TypeOK
<1> QED
  BY <1>1, PromptInvariant, PTL DEF RaceOpensOnItsCountdown, PromptSpec

(* Only a race's own deadline calls it (race.go:86-96). *)
THEOREM OwnDeadlineTheorem == PromptSpec => DeadlineCallsItsOwnRace
<1>1. ASSUME PromptInv
      PROVE  \A c \in Aborts :
               OpenPhase({"Racing"}) /\ routine[c] = "call" /\ routine'[c] = "idle"
                 => c = abort
  BY <1>1 DEF PromptInv, OnlyOneGoroutine, OpenPhase
<1> QED
  BY <1>1, PromptInvariant, PTL DEF DeadlineCallsItsOwnRace

=============================================================================
