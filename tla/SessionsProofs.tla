--------------------------- MODULE SessionsProofs ---------------------------
(***************************************************************************)
(* First the registry and the channels, under every interleaving: no        *)
(* assumption on how soon navigations, events or removals come.  Then what  *)
(* needs sessions that do not outrun a navigation (SettledSpec), and last   *)
(* what needs sessions that keep up with their events (SteadySpec).         *)
(***************************************************************************)
EXTENDS SessionsProperties, ListsAndSums

RegistryTypes ==
  /\ phase \in [Lobbies -> Phases]
  /\ DOMAIN order = Lobbies
  /\ code \in [Lobbies -> Codes \cup {None}]
  /\ registry \in [Codes -> Lobbies \cup {None}]
  /\ removing \in [Players -> Lobbies \cup {None}]
  /\ DOMAIN session = Players

(* Nobody can leave, and so close, a lobby that is closed or was never open. *)
OnlyLiveHavePlayers == \A l \in Lobbies : order[l] # <<>> => Live(l)

(* What a session has yet to remove is there, closed, and its alone. *)
RemovalsArePending ==
  \A p \in Players : removing[p] # None =>
    LET l == removing[p] IN
    /\ phase[l] = "Closed" /\ code[l] # None /\ registry[code[l]] = l
    /\ \A q \in Players : removing[q] = l => q = p

(* A program ends between two messages. *)
NobodyStopsRemoving == \A p \in Players : session[p] = "stopped" => removing[p] = None

(* Sessions show, go to and are in lobbies that there are. *)
ScreenTypes ==
  /\ screen \in [Players -> Screens]
  /\ DOMAIN navs = Players
  /\ \A p \in Players : BagToSet(navs[p]) \subseteq Screens
  /\ ctxLobby \in [Players -> Lobbies \cup {None}]

RegistryInv ==
  /\ RegistryTypes
  /\ RegistryAgrees
  /\ OnlyLiveHavePlayers
  /\ RemovalsArePending
  /\ NobodyStopsRemoving

-----------------------------------------------------------------------------
LEMMA NobodyInEmpty == \A l : order[l] = <<>> => Members(l) = {}
  BY DEF Members, ToSet

(* The lobbies as they were: only pumps, screens or sessions moved. *)
LEMMA LobbiesKept ==
  ASSUME RegistryInv, UNCHANGED <<phase, order, code, registry, removing>>,
         DOMAIN session' = Players,
         \A p \in Players : session'[p] = "stopped" => removing[p] = None
  PROVE  RegistryInv'
  BY DEF RegistryInv, RegistryTypes, RegistryAgrees, OnlyLiveHavePlayers,
         RemovalsArePending, NobodyStopsRemoving, Live

LEMMA TurnKeeps ==
  ASSUME RegistryInv, NEW l \in Lobbies, NEW ph \in Phases \ {"Unborn", "Closed"},
         Live(l), phase' = [phase EXCEPT ![l] = ph],
         UNCHANGED <<order, code, registry, removing, session>>
  PROVE  RegistryInv'
<1> USE DEF RegistryInv
<1>1. RegistryTypes'
  BY DEF RegistryTypes
<1>2. \A m \in Lobbies : Live(m)' <=> Live(m)
  BY DEF Live, RegistryTypes, Phases
<1>3. RegistryAgrees'
  BY <1>2, NoneAssumption DEF RegistryAgrees, RegistryTypes
<1>4. OnlyLiveHavePlayers'
  BY <1>2 DEF OnlyLiveHavePlayers
<1>5. RemovalsArePending'
  BY NoneAssumption DEF RemovalsArePending, RegistryTypes, Live
<1>6. NobodyStopsRemoving'
  BY DEF NobodyStopsRemoving
<1> QED
  BY <1>1, <1>3, <1>4, <1>5, <1>6

(* A player leaves and others stay, or the last one closes the lobby. *)
LEMMA LeaveKeeps ==
  ASSUME RegistryInv, NEW p \in Players, NEW l \in Lobbies,
         p \in Members(l), removing[p] = None, Leave(p, l),
         DOMAIN session' = Players,
         \A q \in Players : session'[q] = "stopped" => session[q] = "stopped" /\ q # p
  PROVE  RegistryInv'
<1> USE DEF RegistryInv
<1>0. Live(l) /\ UNCHANGED <<code, registry>>
  BY NobodyInEmpty DEF OnlyLiveHavePlayers, Leave
<1>1. DOMAIN order' = Lobbies /\ \A m \in Lobbies : m # l => order'[m] = order[m]
  BY DEF Leave, RegistryTypes
<1>2. CASE order'[l] = <<>> /\ CloseLobby(p, l)
  <2>1. /\ phase' = [phase EXCEPT ![l] = "Closed"]
        /\ removing' = [removing EXCEPT ![p] = l]
    BY <1>2 DEF CloseLobby
  <2>2. RegistryTypes'
    BY <1>0, <1>1, <2>1 DEF RegistryTypes, Phases
  <2>3. \A m \in Lobbies : m # l => (Live(m)' <=> Live(m))
    BY <2>1 DEF Live, RegistryTypes
  <2>4. ~Live(l)'
    BY <2>1 DEF Live, RegistryTypes
  <2>5. RegistryAgrees'
    <3>1. \A m \in Lobbies : Live(m)' => code'[m] # None /\ registry'[code'[m]] = m
      BY <1>0, <2>3, <2>4 DEF RegistryAgrees
    <3>2. ASSUME NEW k \in Codes, NEW m \in Lobbies, registry[k] = m
          PROVE  code[m] = k /\ (Live(m)' \/ \E q \in Players : removing'[q] = m)
      <4>0. m # None
        BY NoneAssumption
      <4>1. code[m] = k
        BY <3>2, <4>0 DEF RegistryAgrees
      <4>2. CASE m = l
        BY <4>1, <4>2, <2>1 DEF RegistryTypes
      <4>3. CASE m # l /\ Live(m)
        BY <4>1, <4>3, <2>3
      <4>4. CASE m # l /\ ~Live(m)
        <5>1. PICK q \in Players : removing[q] = m
          BY <4>4, <3>2, <4>0 DEF RegistryAgrees
        <5>2. removing'[q] = m
          BY <5>1, <4>0, <2>1 DEF RegistryTypes
        <5> QED
          BY <5>2, <4>1
      <4> QED
        BY <4>2, <4>3, <4>4
    <3>3. \A k \in Codes : registry[k] # None => registry[k] \in Lobbies
      BY DEF RegistryTypes
    <3> QED
      BY <1>0, <3>1, <3>2, <3>3 DEF RegistryAgrees
  <2>6. OnlyLiveHavePlayers'
    BY <1>1, <1>2, <2>3 DEF OnlyLiveHavePlayers
  <2>7. RemovalsArePending'
    <3>1. \A q \in Players : removing[q] # l
      BY <1>0, NoneAssumption DEF RemovalsArePending, Live
    <3>2. code[l] # None /\ registry[code[l]] = l
      BY <1>0 DEF RegistryAgrees
    <3>3. phase'[l] = "Closed" /\ \A m \in Lobbies : m # l => phase'[m] = phase[m]
      BY <2>1 DEF RegistryTypes
    <3>4. removing'[p] = l /\ \A q \in Players : q # p => removing'[q] = removing[q]
      BY <2>1 DEF RegistryTypes
    <3> SUFFICES ASSUME NEW q \in Players, removing'[q] # None
                 PROVE  /\ phase'[removing'[q]] = "Closed" /\ code'[removing'[q]] # None
                        /\ registry'[code'[removing'[q]]] = removing'[q]
                        /\ \A r \in Players : removing'[r] = removing'[q] => r = q
      BY DEF RemovalsArePending
    <3>5. CASE q = p
      BY <3>5, <3>1, <3>2, <3>3, <3>4, <1>0
    <3>6. CASE q # p
      <4>1. removing[q] \in Lobbies /\ removing[q] # None /\ removing[q] # l
        BY <3>6, <3>4, <3>1 DEF RegistryTypes
      <4> QED
        BY <4>1, <3>6, <3>3, <3>4, <1>0 DEF RemovalsArePending
    <3> QED
      BY <3>5, <3>6
  <2>8. NobodyStopsRemoving'
    BY <2>1 DEF NobodyStopsRemoving, RegistryTypes
  <2> QED
    BY <2>2, <2>5, <2>6, <2>7, <2>8
<1>3. CASE order'[l] # <<>> /\ UNCHANGED removing
           /\ \E ph \in PhasesAfterLeave(l) : phase' = [phase EXCEPT ![l] = ph]
  <2>1. PICK ph \in PhasesAfterLeave(l) : phase' = [phase EXCEPT ![l] = ph]
    BY <1>3
  <2>2. ph \in Phases \ {"Unborn", "Closed"}
    BY <2>1, <1>0 DEF PhasesAfterLeave, Live, RegistryTypes, Phases
  <2>3. RegistryTypes'
    BY <2>1, <2>2, <1>0, <1>1, <1>3 DEF RegistryTypes
  <2>4. \A m \in Lobbies : Live(m)' <=> Live(m)
    BY <2>1, <2>2, <1>0 DEF Live, RegistryTypes
  <2>5. RegistryAgrees'
    BY <2>4, <1>0, <1>3, NoneAssumption DEF RegistryAgrees, RegistryTypes
  <2>6. OnlyLiveHavePlayers'
    BY <2>4, <1>0, <1>1 DEF OnlyLiveHavePlayers
  <2>7. RemovalsArePending'
    BY <2>1, <1>0, <1>3, NoneAssumption DEF RemovalsArePending, RegistryTypes, Live
  <2>8. NobodyStopsRemoving'
    BY <1>3 DEF NobodyStopsRemoving
  <2> QED
    BY <2>3, <2>5, <2>6, <2>7, <2>8
<1> QED
  BY <1>2, <1>3 DEF Leave

LEMMA LeaveLobbyKeeps ==
  ASSUME RegistryInv, NEW p \in Players, NEW l \in Lobbies,
         removing[p] = None, LeaveLobby(p, l),
         DOMAIN session' = Players,
         \A q \in Players : session'[q] = "stopped" => session[q] = "stopped" /\ q # p
  PROVE  RegistryInv'
<1>1. CASE p \in Members(l) /\ Leave(p, l)
  BY <1>1, LeaveKeeps
<1>2. CASE UNCHANGED <<lobbies, channels>>
  BY <1>2, LobbiesKept DEF RegistryInv, NobodyStopsRemoving, lobbies
<1> QED
  BY <1>1, <1>2 DEF LeaveLobby

LEMMA CreateKeeps ==
  ASSUME RegistryInv, NEW p \in Players, Create(p)
  PROVE  RegistryInv'
<1> USE DEF RegistryInv
<1>1. PICK l \in Lobbies, k \in Codes :
        /\ phase[l] = "Unborn" /\ registry[k] = None
        /\ phase' = [phase EXCEPT ![l] = "Waiting"]
        /\ order' = [order EXCEPT ![l] = <<p>>]
        /\ code' = [code EXCEPT ![l] = k]
        /\ registry' = [registry EXCEPT ![k] = l]
  BY DEF Create, FreeCode
<1>2. UNCHANGED <<removing, session>>
  BY DEF Create
<1>3. RegistryTypes'
  BY <1>1, <1>2 DEF RegistryTypes, Phases
<1>4. \A m \in Lobbies : m # l => (Live(m)' <=> Live(m)) /\ code'[m] = code[m]
  BY <1>1 DEF Live, RegistryTypes
<1>5. Live(l)' /\ ~Live(l) /\ code'[l] = k /\ k # None /\ l # None
  BY <1>1, NoneAssumption DEF Live, RegistryTypes
<1>6. registry'[k] = l /\ \A j \in Codes : j # k => registry'[j] = registry[j]
  BY <1>1 DEF RegistryTypes
<1>7. \A q \in Players : removing[q] # l
  BY <1>1, <1>5 DEF RemovalsArePending
<1>8. RegistryAgrees'
  <2>1. ASSUME NEW m \in Lobbies, Live(m)'
        PROVE  code'[m] # None /\ registry'[code'[m]] = m
    <3>1. CASE m = l
      BY <3>1, <1>5, <1>6
    <3>2. CASE m # l
      <4>1. code[m] # None /\ registry[code[m]] = m /\ code[m] \in Codes
        BY <3>2, <2>1, <1>4 DEF RegistryAgrees, RegistryTypes
      <4>2. code[m] # k
        BY <4>1, <1>1, NoneAssumption
      <4> QED
        BY <3>2, <4>1, <4>2, <1>4, <1>6
    <3> QED
      BY <3>1, <3>2
  <2>2. ASSUME NEW j \in Codes, NEW m \in Lobbies, registry'[j] = m
        PROVE  code'[m] = j /\ (Live(m)' \/ \E q \in Players : removing'[q] = m)
    <3>1. CASE j = k
      BY <3>1, <2>2, <1>5, <1>6
    <3>2. CASE j # k
      <4>1. registry[j] = m /\ m # None
        BY <3>2, <2>2, <1>6, NoneAssumption
      <4>2. code[m] = j /\ (Live(m) \/ \E q \in Players : removing[q] = m)
        BY <4>1 DEF RegistryAgrees
      <4>3. m # l
        BY <4>2, <1>5, <1>7
      <4> QED
        BY <4>2, <4>3, <1>2, <1>4
    <3> QED
      BY <3>1, <3>2
  <2>3. \A j \in Codes : registry'[j] # None => registry'[j] \in Lobbies
    BY <1>3 DEF RegistryTypes
  <2> QED
    BY <2>1, <2>2, <2>3 DEF RegistryAgrees
<1>9. OnlyLiveHavePlayers'
  BY <1>1, <1>4, <1>5 DEF OnlyLiveHavePlayers, RegistryTypes
<1>10. RemovalsArePending'
  <2> SUFFICES ASSUME NEW q \in Players, NEW m \in Lobbies, removing[q] = m
               PROVE  /\ phase'[m] = "Closed" /\ code'[m] # None /\ registry'[code'[m]] = m
                      /\ \A r \in Players : removing[r] = m => r = q
    BY <1>2, <1>3 DEF RemovalsArePending, RegistryTypes
  <2>1. m # None /\ m # l
    BY <1>7, NoneAssumption
  <2>2. /\ phase[m] = "Closed" /\ code[m] # None /\ registry[code[m]] = m
        /\ \A r \in Players : removing[r] = m => r = q
    BY <2>1 DEF RemovalsArePending
  <2>3. code[m] \in Codes /\ code[m] # k
    BY <2>1, <2>2, <1>1 DEF RegistryTypes
  <2>4. phase'[m] = phase[m]
    BY <2>1, <1>1 DEF RegistryTypes
  <2> QED
    BY <2>1, <2>2, <2>3, <2>4, <1>4, <1>6
<1>11. NobodyStopsRemoving'
  BY <1>2 DEF NobodyStopsRemoving
<1> QED
  BY <1>3, <1>8, <1>9, <1>10, <1>11

LEMMA JoinKeeps ==
  ASSUME RegistryInv, NEW p \in Players, Join(p)
  PROVE  RegistryInv'
<1> USE DEF RegistryInv
<1>1. UNCHANGED <<phase, code, registry, removing, session>>
  BY DEF Join
<1>2. /\ DOMAIN order' = Lobbies
      /\ \A l \in Lobbies : order'[l] # <<>> => order[l] # <<>> \/ phase[l] = "Waiting"
  BY DEF Join, RegistryTypes
<1>3. RegistryTypes' /\ RegistryAgrees' /\ RemovalsArePending' /\ NobodyStopsRemoving'
  BY <1>1, <1>2 DEF RegistryTypes, RegistryAgrees, RemovalsArePending, NobodyStopsRemoving, Live
<1>4. OnlyLiveHavePlayers'
  BY <1>1, <1>2 DEF OnlyLiveHavePlayers, Live
<1> QED
  BY <1>3, <1>4

(* Only the lobby that closed is dropped: its code has not gone to another. *)
LEMMA UnregisterKeeps ==
  ASSUME RegistryInv, NEW p \in Players, Unregister(p)
  PROVE  RegistryInv'
<1> USE DEF RegistryInv
<1> DEFINE l == removing[p]
<1>1. /\ l # None
      /\ registry' = [registry EXCEPT ![code[l]] = None]
      /\ removing' = [removing EXCEPT ![p] = None]
      /\ UNCHANGED <<phase, order, code, session>>
  BY DEF Unregister, screens
<1>2. /\ l \in Lobbies /\ code[l] \in Codes /\ ~Live(l) /\ registry[code[l]] = l
      /\ \A q \in Players : removing[q] = l => q = p
  BY <1>1 DEF RemovalsArePending, RegistryTypes, Live
<1> HIDE DEF l
<1>3. RegistryTypes'
  BY <1>1, <1>2 DEF RegistryTypes
<1>4. \A k \in Codes : k # code[l] => registry'[k] = registry[k]
  BY <1>1 DEF RegistryTypes
<1>5. registry'[code[l]] = None
  BY <1>1, <1>2 DEF RegistryTypes
<1>6. \A q \in Players : removing'[q] = IF q = p THEN None ELSE removing[q]
  BY <1>1 DEF RegistryTypes
<1>7. RegistryAgrees'
  <2>1. ASSUME NEW m \in Lobbies, Live(m)
        PROVE  code[m] # None /\ registry'[code[m]] = m
    <3>1. code[m] # None /\ registry[code[m]] = m /\ code[m] \in Codes /\ m # l
      BY <2>1, <1>2 DEF RegistryAgrees, RegistryTypes
    <3> QED
      BY <3>1, <1>2, <1>4
  <2>2. ASSUME NEW k \in Codes, NEW m \in Lobbies, registry'[k] = m
        PROVE  code[m] = k /\ (Live(m) \/ \E q \in Players : removing'[q] = m)
    <3>1. k # code[l] /\ registry[k] = m /\ m # None
      BY <2>2, <1>4, <1>5, NoneAssumption
    <3>2. code[m] = k /\ (Live(m) \/ \E q \in Players : removing[q] = m)
      BY <3>1 DEF RegistryAgrees
    <3>3. m # l
      BY <3>1, <3>2
    <3>4. ASSUME NEW q \in Players, removing[q] = m
          PROVE  removing'[q] = m
      BY <3>3, <3>4, <1>6 DEF l
    <3> QED
      BY <3>2, <3>4
  <2>3. \A k \in Codes : registry'[k] # None => registry'[k] \in Lobbies
    BY <1>3 DEF RegistryTypes
  <2>4. \A m \in Lobbies : Live(m)' <=> Live(m)
    BY <1>1 DEF Live
  <2> QED
    BY <1>1, <2>1, <2>2, <2>3, <2>4 DEF RegistryAgrees
<1>8. OnlyLiveHavePlayers'
  BY <1>1 DEF OnlyLiveHavePlayers, Live
<1>9. RemovalsArePending'
  <2> SUFFICES ASSUME NEW q \in Players, NEW m \in Lobbies, removing'[q] = m
               PROVE  /\ phase[m] = "Closed" /\ code[m] # None /\ registry'[code[m]] = m
                      /\ \A r \in Players : removing'[r] = m => r = q
    BY <1>1, <1>3 DEF RemovalsArePending, RegistryTypes
  <2>1. q # p /\ removing[q] = m /\ m # None
    BY <1>6, NoneAssumption
  <2>2. /\ phase[m] = "Closed" /\ code[m] # None /\ registry[code[m]] = m
        /\ \A r \in Players : removing[r] = m => r = q
    BY <2>1 DEF RemovalsArePending
  <2>3. m # l
    BY <2>1, <1>2
  <2>4. code[m] \in Codes /\ code[m] # code[l]
    BY <2>2, <2>3, <1>2 DEF RegistryTypes
  <2>5. ASSUME NEW r \in Players, removing'[r] = m
        PROVE  r = q
    BY <2>5, <2>1, <2>2, <1>6
  <2> QED
    BY <2>2, <2>4, <2>5, <1>4
<1>10. NobodyStopsRemoving'
  BY <1>1, <1>6 DEF NobodyStopsRemoving
<1> QED
  BY <1>3, <1>7, <1>8, <1>9, <1>10

-----------------------------------------------------------------------------
LEMMA InitRegistry == SessionsInit => RegistryInv
  BY NoneAssumption DEF SessionsInit, RegistryInv, RegistryTypes, RegistryAgrees,
     OnlyLiveHavePlayers, RemovalsArePending, NobodyStopsRemoving, Live, Phases

-----------------------------------------------------------------------------
LEMMA GoTypes ==
  ASSUME ScreenTypes, NEW p \in Players, NEW s \in Screens, Go(p, s)
  PROVE  DOMAIN navs' = Players /\ \A q \in Players : BagToSet(navs'[q]) \subseteq Screens
<1>1. navs' = [navs EXCEPT ![p] = navs[p] (+) SetToBag({s})]
  BY DEF Go
<1>2. BagToSet(navs[p] (+) SetToBag({s})) \subseteq Screens
  BY DEF ScreenTypes, BagToSet, SetToBag, (+)
<1> QED
  BY <1>1, <1>2 DEF ScreenTypes

LEMMA LobbyScreens ==
  /\ Browser \in Screens
  /\ \A l \in Lobbies : \A k \in {"waiting", "race", "results"} : Screen(k, l) \in Screens
  /\ \A s \in Screens : s # Browser => s.lobby \in Lobbies
  /\ \A s \in Screens : \A e : Follow(s, e) \in Screens
<1>1. \A l \in Lobbies : \A k \in {"waiting", "race", "results"} : Screen(k, l) \in Screens
  BY DEF Screens
<1>2. ASSUME NEW s \in Screens, s # Browser
      PROVE  s.lobby \in Lobbies
  BY <1>2 DEF Screens, Screen
<1>3. ASSUME NEW s \in Screens, NEW e
      PROVE  Follow(s, e) \in Screens
  <2>1. CASE s = Browser
    <3>1. s.kind = "browser"
      BY <2>1 DEF Browser, Screen
    <3> QED
      BY <3>1 DEF Follow
  <2>2. CASE s # Browser
    BY <1>1, <1>2, <2>2 DEF Follow
  <2> QED
    BY <2>1, <2>2
<1> QED
  BY <1>1, <1>2, <1>3 DEF Screens

LEMMA NavigateTypes ==
  ASSUME ScreenTypes, NEW p \in Players, Navigate(p)
  PROVE  ScreenTypes'
<1>1. PICK s \in BagToSet(navs[p]) :
        /\ navs' = [navs EXCEPT ![p] = navs[p] (-) SetToBag({s})]
        /\ screen' = [screen EXCEPT ![p] = s]
        /\ (s.kind = "waiting" /\ EnterLobby(p, s.lobby)) \/ UNCHANGED ctxLobby
  BY DEF Navigate
<1>2. s \in Screens
  BY DEF ScreenTypes
<1>3. BagToSet(navs[p] (-) SetToBag({s})) \subseteq Screens
  BY DEF ScreenTypes, BagToSet, SetToBag, (-)
<1>4. s.kind = "waiting" => s.lobby \in Lobbies
  BY <1>2 DEF Screens, Screen, Browser
<1>5. ctxLobby' \in [Players -> Lobbies \cup {None}]
  BY <1>1, <1>4 DEF ScreenTypes, EnterLobby
<1> QED
  BY <1>1, <1>2, <1>3, <1>5 DEF ScreenTypes

LEMMA KeyTypes ==
  ASSUME ScreenTypes, RegistryInv, NEW p \in Players, Key(p)
  PROVE  ScreenTypes'
<1>1. CASE Create(p)
  <2>1. PICK l \in Lobbies : Claim(p, l) /\ Go(p, Screen("waiting", l))
    BY <1>1 DEF Create
  <2> QED
    BY <1>1, <2>1, GoTypes, LobbyScreens DEF Create, Claim, EnterLobby, ScreenTypes
<1>2. CASE Join(p)
  <2>1. PICK l \in Lobbies : Claim(p, l) /\ Go(p, Screen("waiting", l))
    BY <1>2 DEF Join, RegistryInv, RegistryTypes
  <2> QED
    BY <1>2, <2>1, GoTypes, LobbyScreens DEF Join, Claim, EnterLobby, ScreenTypes
<1>3. CASE Wander(p)
  BY <1>3, GoTypes, LobbyScreens DEF Wander, ScreenTypes
<1>4. CASE Escape(p)
  BY <1>4, GoTypes, LobbyScreens DEF Escape, LeaveLobby, ScreenTypes
<1>5. CASE SetReady(p) \/ Start(p) \/ Rematch(p)
  BY <1>5 DEF SetReady, Start, Rematch, Turn, screens, ScreenTypes
<1> QED
  BY <1>1, <1>2, <1>3, <1>4, <1>5 DEF Key

LEMMA HandleTypes ==
  ASSUME ScreenTypes, NEW p \in Players, NEW c \in Channels, Handle(p, c)
  PROVE  ScreenTypes'
<1>1. UNCHANGED <<screen, ctxLobby>>
  BY DEF Handle
<1>2. CASE UNCHANGED navs
  BY <1>1, <1>2 DEF ScreenTypes
<1>3. CASE Go(p, Follow(screen[p], held[c]))
  <2>1. Follow(screen[p], held[c]) \in Screens
    BY LobbyScreens DEF ScreenTypes
  <2> QED
    BY <1>1, <1>3, <2>1, GoTypes DEF ScreenTypes
<1> QED
  BY <1>2, <1>3 DEF Handle

LEMMA KeyKeeps ==
  ASSUME ScreenTypes, RegistryInv, NEW p \in Players, Key(p)
  PROVE  RegistryInv'
<1>1. CASE Create(p)
  BY <1>1, CreateKeeps
<1>2. CASE Join(p)
  BY <1>2, JoinKeeps
<1>3. CASE Wander(p)
  BY <1>3, LobbiesKept DEF Wander, lobbies, RegistryInv, RegistryTypes, NobodyStopsRemoving
<1>4. CASE Escape(p)
  <2>1. removing[p] = None /\ session[p] = "running" /\ UNCHANGED session
    BY <1>4 DEF Escape, Running
  <2>2. screen[p].lobby \in Lobbies
    BY <1>4, LobbyScreens DEF Escape, ScreenTypes
  <2> QED
    BY <1>4, <2>1, <2>2, LeaveLobbyKeeps DEF Escape, RegistryInv, RegistryTypes
<1>5. CASE SetReady(p) \/ Start(p) \/ Rematch(p)
  <2> DEFINE l == screen[p].lobby
  <2>1. l \in Lobbies
    <3>1. screen[p].kind \in {"waiting", "results"}
      BY <1>5 DEF SetReady, Start, Rematch, At
    <3>2. Browser.kind = "browser"
      BY DEF Browser, Screen
    <3> QED
      BY <3>1, <3>2, LobbyScreens DEF ScreenTypes
  <2>2. Live(l) /\ \E ph \in {"Waiting", "Countdown"} : phase' = [phase EXCEPT ![l] = ph]
    BY <1>5 DEF SetReady, Start, Rematch, Turn, Live
  <2>3. UNCHANGED <<order, code, registry, removing, session>>
    BY <1>5 DEF SetReady, Start, Rematch, Turn, screens
  <2> HIDE DEF l
  <2> QED
    BY <2>1, <2>2, <2>3, TurnKeeps DEF Phases
<1> QED
  BY <1>1, <1>2, <1>3, <1>4, <1>5 DEF Key

LEMMA DisconnectKeeps ==
  ASSUME ScreenTypes, RegistryInv, NEW p \in Players, Disconnect(p)
  PROVE  ScreenTypes' /\ RegistryInv'
<1>1. /\ removing[p] = None
      /\ DOMAIN session' = Players
      /\ \A q \in Players : session'[q] = "stopped" => session[q] = "stopped" /\ q # p
  BY DEF Disconnect, RegistryInv, RegistryTypes, NobodyStopsRemoving
<1>2. CASE UNCHANGED <<lobbies, channels, ctxLobby>>
  <2>1. ScreenTypes'
    BY <1>2 DEF Disconnect, ScreenTypes
  <2>2. RegistryInv'
    BY <1>1, <1>2, LobbiesKept DEF lobbies, RegistryInv, NobodyStopsRemoving
  <2> QED
    BY <2>1, <2>2
<1>3. CASE ctxLobby[p] # None /\ LeaveLobby(p, ctxLobby[p])
  <2>1. ScreenTypes'
    BY <1>3 DEF Disconnect, LeaveLobby, ScreenTypes
  <2>2. RegistryInv'
    BY <1>1, <1>3, LeaveLobbyKeeps DEF ScreenTypes
  <2> QED
    BY <2>1, <2>2
<1> QED
  BY <1>2, <1>3 DEF Disconnect

LEMMA StepKeeps ==
  ASSUME ScreenTypes, RegistryInv, [SessionsNext]_sessionVars
  PROVE  ScreenTypes' /\ RegistryInv'
<1>1. ASSUME NEW p \in Players, Navigate(p)
      PROVE  ScreenTypes' /\ RegistryInv'
  <2>1. UNCHANGED <<phase, order, code, registry, removing, session>>
    BY <1>1 DEF Navigate
  <2> QED
    BY <1>1, <2>1, NavigateTypes, LobbiesKept DEF RegistryInv, RegistryTypes, NobodyStopsRemoving
<1>2. ASSUME NEW p \in Players, Unregister(p)
      PROVE  ScreenTypes' /\ RegistryInv'
  BY <1>2, UnregisterKeeps DEF Unregister, screens, ScreenTypes
<1>3. ASSUME NEW p \in Players, Stop(p)
      PROVE  ScreenTypes' /\ RegistryInv'
  <2>1. ScreenTypes'
    BY <1>3 DEF Stop, ScreenTypes, BagToSet, EmptyBag, SetToBag
  <2>2. RegistryInv'
    BY <1>3, LobbiesKept DEF Stop, Running, lobbies, RegistryInv, RegistryTypes, NobodyStopsRemoving
  <2> QED
    BY <2>1, <2>2
<1>4. ASSUME UNCHANGED <<lobbies, screens>>
      PROVE  ScreenTypes' /\ RegistryInv'
  <2>1. ScreenTypes'
    BY <1>4 DEF screens, ScreenTypes
  <2>2. RegistryInv'
    BY <1>4, LobbiesKept DEF lobbies, screens, RegistryInv, RegistryTypes, NobodyStopsRemoving
  <2> QED
    BY <2>1, <2>2
<1>5. ASSUME NEW c \in Channels, Pump(c)
      PROVE  ScreenTypes' /\ RegistryInv'
  BY <1>4, <1>5 DEF Pump, PumpTake, PumpDrop, PumpExit
<1>6. ASSUME NEW p \in Players, NEW c \in Channels, Handle(p, c)
      PROVE  ScreenTypes' /\ RegistryInv'
  <2>1. UNCHANGED <<phase, order, code, registry, removing, session>>
    BY <1>6 DEF Handle, lobbies
  <2> QED
    BY <1>6, <2>1, HandleTypes, LobbiesKept DEF RegistryInv, RegistryTypes, NobodyStopsRemoving
<1>7. ASSUME NEW l \in Lobbies, Race(l) \/ News(l)
      PROVE  ScreenTypes' /\ RegistryInv'
  <2>1. Live(l) /\ \E ph \in Phases \ {"Unborn", "Closed"} : phase' = [phase EXCEPT ![l] = ph]
    BY <1>7 DEF Race, Open, End, News, Turn, Live, Phases, RegistryInv, RegistryTypes
  <2>2. UNCHANGED <<order, code, registry, removing, screens>>
    BY <1>7 DEF Race, Open, End, News, Turn
  <2> QED
    BY <2>1, <2>2, TurnKeeps DEF screens, ScreenTypes
<1>8. CASE UNCHANGED sessionVars
  BY <1>4, <1>8 DEF sessionVars
<1> QED
  BY <1>1, <1>2, <1>3, <1>5, <1>6, <1>7, <1>8, KeyTypes, KeyKeeps, DisconnectKeeps
  DEF SessionsNext, Silent

(***************************************************************************)
(* A live lobby is found under its code and a code leads to no lobby that   *)
(* is gone and stays: Store.remove, called after the lobby's lock was let   *)
(* go, never drops another lobby (lobby.go:307-311, 540-544).               *)
(***************************************************************************)
THEOREM RegistryTheorem == SessionsSpec => []RegistryAgrees
<1>1. SessionsInit => ScreenTypes
  BY LobbyScreens DEF SessionsInit, ScreenTypes, BagToSet, EmptyBag, SetToBag
<1>2. RegistryInv => RegistryAgrees
  BY DEF RegistryInv
<1>3. ScreenTypes /\ RegistryInv /\ [SessionsNext]_sessionVars => ScreenTypes' /\ RegistryInv'
  BY StepKeeps
<1> QED
  BY <1>1, <1>2, <1>3, InitRegistry, PTL DEF SessionsSpec

-----------------------------------------------------------------------------
(* Event channels. *)

ChannelTypes ==
  /\ subs \in [Lobbies -> [Players -> Channels \cup {None}]]
  /\ pump \in [Channels -> {"open", "closed", "free"}]
  /\ reader \in [Channels -> Players \cup {None}]

(* Nobody goes to a lobby that has not been created. *)
LobbiesAreBorn ==
  \A p \in Players : \A s \in BagToSet(navs[p]) \cup {screen[p]} :
    s # Browser => phase[s.lobby] # "Unborn"

ChannelInv == ChannelTypes /\ ChannelsAgree

LEMMA InitChannels == SessionsInit => ChannelInv
  BY NoneAssumption
  DEF SessionsInit, ChannelInv, ChannelTypes, ChannelsAgree, Live

(* Lobbies that live on, subscriptions and the channels they are. *)
LEMMA ChannelsKept ==
  ASSUME ChannelInv, UNCHANGED <<subs, pump, reader>>, \A l \in Lobbies : Live(l) => Live(l)'
  PROVE  ChannelInv'
  BY DEF ChannelInv, ChannelTypes, ChannelsAgree

(* A player's channel, if there is one, is dropped and closed. *)
LEMMA DropKeeps ==
  ASSUME ChannelInv, NEW p \in Players, NEW l \in Lobbies,
         subs' = [subs EXCEPT ![l][p] = None], pump' = CloseSubs({subs[l][p]}),
         UNCHANGED reader, \A m \in Lobbies : Live(m) => Live(m)'
  PROVE  ChannelInv'
<1> USE DEF ChannelInv
<1>1. ChannelTypes'
  BY DEF ChannelTypes, CloseSubs
<1>2. \A m \in Lobbies, q \in Players :
        subs'[m][q] = IF m = l /\ q = p THEN None ELSE subs[m][q]
  BY DEF ChannelTypes
<1>3. \A c \in Channels : pump'[c] = IF c = subs[l][p] THEN "closed" ELSE pump[c]
  BY DEF ChannelTypes, CloseSubs
<1>4. ASSUME NEW c \in Channels
      PROVE  pump'[c] = "open" <=> \E m \in Lobbies, q \in Players : subs'[m][q] = c
  <2>0. c # None
    BY NoneAssumption
  <2>1. CASE c = subs[l][p]
    <3>1. \A m \in Lobbies, q \in Players : subs[m][q] = c => m = l /\ q = p
      BY <2>0, <2>1 DEF ChannelsAgree
    <3>2. \A m \in Lobbies, q \in Players : subs'[m][q] # c
      BY <2>0, <3>1, <1>2
    <3>3. pump'[c] = "closed"
      BY <2>1, <1>3
    <3> QED
      BY <3>2, <3>3
  <2>2. CASE c # subs[l][p]
    <3>1. pump[c] = "open" <=> \E m \in Lobbies, q \in Players : subs[m][q] = c
      BY DEF ChannelsAgree
    <3> QED
      BY <2>0, <2>2, <3>1, <1>2, <1>3
  <2> QED
    BY <2>1, <2>2
<1>5. ASSUME NEW m \in Lobbies, NEW n \in Lobbies, NEW q \in Players, NEW r \in Players,
             subs'[m][q] # None
      PROVE  /\ Live(m)' /\ reader'[subs'[m][q]] = q
             /\ subs'[m][q] = subs'[n][r] => m = n /\ q = r
  BY <1>2, <1>5 DEF ChannelsAgree
<1> QED
  BY <1>1, <1>4, <1>5 DEF ChannelsAgree

(* A channel that nobody reads takes the place of the one there was. *)
LEMMA SubscribeKeeps ==
  ASSUME ChannelInv, NEW p \in Players, NEW l \in Lobbies, Subscribe(p, l),
         phase' \in [Lobbies -> Phases], phase'[l] # "Unborn",
         \A m \in Lobbies : Live(m) => Live(m)'
  PROVE  ChannelInv'
<1>1. CASE phase'[l] = "Closed"
  BY <1>1, DropKeeps DEF Subscribe
<1>2. CASE phase'[l] # "Closed"
  <2> USE DEF ChannelInv
  <2>1. PICK c \in Channels :
          /\ pump[c] = "free"
          /\ subs' = [subs EXCEPT ![l][p] = c]
          /\ pump' = [CloseSubs({subs[l][p]}) EXCEPT ![c] = "open"]
          /\ reader' = [reader EXCEPT ![c] = p]
    BY <1>2 DEF Subscribe
  <2>2. ChannelTypes'
    BY <2>1 DEF ChannelTypes, CloseSubs
  <2>8. \A m \in Lobbies, q \in Players : subs[m][q] # c
    BY <2>1 DEF ChannelsAgree
  <2>9. \A m \in Lobbies, q \in Players :
          subs'[m][q] = IF m = l /\ q = p THEN c ELSE subs[m][q]
    BY <2>1 DEF ChannelTypes
  <2>3. \A m \in Lobbies, q \in Players :
          /\ subs'[m][q] = IF m = l /\ q = p THEN c ELSE subs[m][q]
          /\ subs[m][q] # c
    BY <2>8, <2>9
  <2>4. \A d \in Channels :
          /\ pump'[d] = IF d = c THEN "open" ELSE IF d = subs[l][p] THEN "closed" ELSE pump[d]
          /\ reader'[d] = IF d = c THEN p ELSE reader[d]
    BY <2>1 DEF ChannelTypes, CloseSubs
  <2>5. Live(l)'
    BY <1>2 DEF Live
  <2>6. ASSUME NEW d \in Channels
        PROVE  pump'[d] = "open" <=> \E m \in Lobbies, q \in Players : subs'[m][q] = d
    <3>0. d # None
      BY NoneAssumption
    <3>1. CASE d = c
      BY <3>1, <2>3, <2>4
    <3>2. CASE d # c /\ d = subs[l][p]
      <4>1. \A m \in Lobbies, q \in Players : subs[m][q] = d => m = l /\ q = p
        BY <3>0, <3>2 DEF ChannelsAgree
      <4> QED
        BY <3>2, <4>1, <2>3, <2>4
    <3>3. CASE d # c /\ d # subs[l][p]
      <4>1. pump[d] = "open" <=> \E m \in Lobbies, q \in Players : subs[m][q] = d
        BY DEF ChannelsAgree
      <4> QED
        BY <3>3, <4>1, <2>3, <2>4
    <3> QED
      BY <3>1, <3>2, <3>3
  <2>7. ASSUME NEW m \in Lobbies, NEW n \in Lobbies, NEW q \in Players, NEW r \in Players,
               subs'[m][q] # None
        PROVE  /\ Live(m)' /\ reader'[subs'[m][q]] = q
               /\ subs'[m][q] = subs'[n][r] => m = n /\ q = r
    <3>1. CASE m = l /\ q = p
      BY <3>1, <2>3, <2>4, <2>5
    <3>2. CASE ~(m = l /\ q = p)
      <4>1. /\ subs'[m][q] = subs[m][q] /\ subs[m][q] # None /\ subs[m][q] # c
            /\ subs[m][q] \in Channels
        BY <3>2, <2>7, <2>3 DEF ChannelTypes
      <4>2. Live(m) /\ reader[subs[m][q]] = q /\ (subs[m][q] = subs[n][r] => m = n /\ q = r)
        BY <4>1 DEF ChannelsAgree
      <4> QED
        BY <4>1, <4>2, <2>3, <2>4
    <3> QED
      BY <3>1, <3>2
  <2> QED
    BY <2>2, <2>6, <2>7 DEF ChannelsAgree
<1> QED
  BY <1>1, <1>2

LEMMA EnterKeeps ==
  ASSUME ChannelInv, NEW p \in Players, NEW l \in Lobbies, EnterLobby(p, l),
         phase' \in [Lobbies -> Phases], phase'[l] # "Unborn",
         \A m \in Lobbies : Live(m) => Live(m)'
  PROVE  ChannelInv'
  BY SubscribeKeeps, ChannelsKept DEF EnterLobby

(* The last player to leave: every channel of the lobby is closed. *)
LEMMA CloseKeeps ==
  ASSUME ChannelInv, RegistryTypes, NEW p \in Players, NEW l \in Lobbies, CloseLobby(p, l),
         UNCHANGED reader
  PROVE  ChannelInv'
<1> USE DEF ChannelInv
<1>1. \A m \in Lobbies, q \in Players : subs'[m][q] = IF m = l THEN None ELSE subs[m][q]
  BY DEF ChannelTypes, CloseLobby
<1>2. \A c \in Channels : pump'[c] = IF c \in Subscribed(l) THEN "closed" ELSE pump[c]
  BY DEF ChannelTypes, CloseLobby, CloseSubs
<1>3. \A m \in Lobbies : m # l => (Live(m)' <=> Live(m))
  BY DEF CloseLobby, Live, RegistryTypes
<1>4. ChannelTypes'
  BY DEF ChannelTypes, CloseLobby, CloseSubs
<1>5. ASSUME NEW c \in Channels
      PROVE  pump'[c] = "open" <=> \E m \in Lobbies, q \in Players : subs'[m][q] = c
  <2>0. c # None
    BY NoneAssumption
  <2>1. CASE c \in Subscribed(l)
    <3>1. \A m \in Lobbies, q \in Players : subs[m][q] = c => m = l
      BY <2>0, <2>1 DEF ChannelsAgree, Subscribed
    <3> QED
      BY <2>0, <2>1, <3>1, <1>1, <1>2
  <2>2. CASE c \notin Subscribed(l)
    <3>1. pump[c] = "open" <=> \E m \in Lobbies, q \in Players : subs[m][q] = c
      BY DEF ChannelsAgree
    <3>2. \A q \in Players : subs[l][q] # c
      BY <2>0, <2>2 DEF Subscribed
    <3> QED
      BY <2>0, <2>2, <3>1, <3>2, <1>1, <1>2
  <2> QED
    BY <2>1, <2>2
<1>6. ASSUME NEW m \in Lobbies, NEW n \in Lobbies, NEW q \in Players, NEW r \in Players,
             subs'[m][q] # None
      PROVE  /\ Live(m)' /\ reader'[subs'[m][q]] = q
             /\ subs'[m][q] = subs'[n][r] => m = n /\ q = r
  BY <1>1, <1>3, <1>6 DEF ChannelsAgree
<1> QED
  BY <1>4, <1>5, <1>6 DEF ChannelsAgree

StayBorn == \A l \in Lobbies : phase[l] # "Unborn" => phase'[l] # "Unborn"
StayLive == \A l \in Lobbies : Live(l) => Live(l)'

LEMMA LeaveChannels ==
  ASSUME ChannelInv, RegistryInv, NEW p \in Players, NEW l \in Lobbies, LeaveLobby(p, l)
  PROVE  ChannelInv' /\ StayBorn
<1>1. CASE UNCHANGED <<lobbies, channels>>
  BY <1>1, ChannelsKept DEF lobbies, channels, StayBorn, Live
<1>2. CASE Leave(p, l) /\ p \in Members(l)
  <2>1. Live(l) /\ phase \in [Lobbies -> Phases]
    BY <1>2, NobodyInEmpty DEF RegistryInv, OnlyLiveHavePlayers, RegistryTypes
  <2>2. CASE CloseLobby(p, l) /\ UNCHANGED reader
    BY <2>1, <2>2, CloseKeeps DEF CloseLobby, StayBorn, RegistryInv
  <2>3. CASE /\ \E ph \in PhasesAfterLeave(l) : phase' = [phase EXCEPT ![l] = ph]
             /\ subs' = [subs EXCEPT ![l][p] = None] /\ pump' = CloseSubs({subs[l][p]})
             /\ UNCHANGED reader
    <3>1. PICK ph \in PhasesAfterLeave(l) : phase' = [phase EXCEPT ![l] = ph]
      BY <2>3
    <3>2. ph \in Phases \ {"Unborn", "Closed"}
      BY <2>1, <3>1 DEF PhasesAfterLeave, Live, Phases
    <3>3. StayBorn /\ StayLive
      BY <2>1, <3>1, <3>2 DEF StayBorn, StayLive, Live
    <3> QED
      BY <2>3, <3>3, DropKeeps DEF StayLive
  <2> QED
    BY <1>2, <2>2, <2>3 DEF Leave
<1> QED
  BY <1>1, <1>2 DEF LeaveLobby

LEMMA BornKept ==
  ASSUME ScreenTypes, LobbiesAreBorn, UNCHANGED <<navs, screen>>, StayBorn
  PROVE  LobbiesAreBorn'
<1> SUFFICES ASSUME NEW p \in Players, NEW s \in BagToSet(navs[p]) \cup {screen[p]}, s # Browser
             PROVE  phase'[s.lobby] # "Unborn"
  BY DEF LobbiesAreBorn
<1>1. s \in Screens
  BY DEF ScreenTypes
<1> QED
  BY <1>1, LobbyScreens DEF LobbiesAreBorn, StayBorn

LEMMA GoBorn ==
  ASSUME ScreenTypes, LobbiesAreBorn, NEW p \in Players, NEW s \in Screens, Go(p, s),
         UNCHANGED screen, StayBorn, s # Browser => phase'[s.lobby] # "Unborn"
  PROVE  LobbiesAreBorn'
<1>1. BagToSet(navs[p] (+) SetToBag({s})) \subseteq BagToSet(navs[p]) \cup {s}
  BY DEF BagToSet, SetToBag, (+)
<1>2. \A q \in Players : BagToSet(navs'[q]) \subseteq BagToSet(navs[q]) \cup {s}
  BY <1>1 DEF Go, ScreenTypes
<1> SUFFICES ASSUME NEW q \in Players, NEW t \in BagToSet(navs'[q]) \cup {screen[q]}, t # Browser
             PROVE  phase'[t.lobby] # "Unborn"
  BY DEF LobbiesAreBorn
<1>3. CASE t = s
  BY <1>3
<1>4. CASE t \in BagToSet(navs[q]) \cup {screen[q]}
  <2>1. t \in Screens
    BY <1>4 DEF ScreenTypes
  <2> QED
    BY <1>4, <2>1, LobbyScreens DEF LobbiesAreBorn, StayBorn
<1> QED
  BY <1>2, <1>3, <1>4

LEMMA KeyChannels ==
  ASSUME ScreenTypes, RegistryInv, RegistryTypes', LobbiesAreBorn, ChannelInv,
         NEW p \in Players, Key(p)
  PROVE  LobbiesAreBorn' /\ ChannelInv'
<1>0. phase \in [Lobbies -> Phases] /\ phase' \in [Lobbies -> Phases]
  BY DEF RegistryInv, RegistryTypes
<1>1. CASE Create(p)
  <2>1. PICK l \in Lobbies :
          /\ phase[l] = "Unborn" /\ phase' = [phase EXCEPT ![l] = "Waiting"]
          /\ EnterLobby(p, l) /\ Go(p, Screen("waiting", l))
    BY <1>1 DEF Create, Claim
  <2>2. StayBorn /\ StayLive /\ phase'[l] = "Waiting"
    BY <1>0, <2>1 DEF StayBorn, StayLive, Live
  <2>3. ChannelInv'
    BY <1>0, <2>1, <2>2, EnterKeeps DEF StayLive
  <2>4. Screen("waiting", l).lobby = l /\ UNCHANGED screen
    BY <1>1 DEF Screen, Create
  <2>5. LobbiesAreBorn'
    BY <2>1, <2>2, <2>4, GoBorn, LobbyScreens
  <2> QED
    BY <2>3, <2>5
<1>2. CASE Join(p)
  <2>1. PICK l \in Lobbies :
          /\ p \in Members(l) \/ phase[l] = "Waiting"
          /\ EnterLobby(p, l) /\ Go(p, Screen("waiting", l))
    BY <1>2 DEF Join, Claim, RegistryInv, RegistryTypes
  <2>2. UNCHANGED <<phase, screen>>
    BY <1>2 DEF Join
  <2>3. phase'[l] # "Unborn"
    BY <2>1, <2>2, NobodyInEmpty DEF RegistryInv, OnlyLiveHavePlayers, Live
  <2>4. StayBorn /\ StayLive
    BY <2>2 DEF StayBorn, StayLive, Live
  <2>5. ChannelInv'
    BY <1>0, <2>1, <2>3, <2>4, EnterKeeps DEF StayLive
  <2>6. Screen("waiting", l).lobby = l
    BY DEF Screen
  <2>7. LobbiesAreBorn'
    BY <2>1, <2>2, <2>3, <2>4, <2>6, GoBorn, LobbyScreens
  <2> QED
    BY <2>5, <2>7
<1>3. CASE Wander(p)
  <2>1. UNCHANGED <<lobbies, channels, screen>> /\ Go(p, Browser)
    BY <1>3 DEF Wander
  <2>2. StayBorn /\ ChannelInv'
    BY <2>1, ChannelsKept DEF lobbies, channels, StayBorn, Live
  <2> QED
    BY <2>1, <2>2, GoBorn, LobbyScreens
<1>4. CASE Escape(p)
  <2>1. screen[p].lobby \in Lobbies
    BY <1>4, LobbyScreens DEF Escape, ScreenTypes
  <2>2. StayBorn /\ ChannelInv'
    BY <1>4, <2>1, LeaveChannels DEF Escape
  <2> QED
    BY <1>4, <2>2, GoBorn, LobbyScreens DEF Escape
<1>5. CASE SetReady(p) \/ Start(p) \/ Rematch(p)
  <2> DEFINE l == screen[p].lobby
  <2>1. \E ph \in {"Waiting", "Countdown"} : phase' = [phase EXCEPT ![l] = ph]
    BY <1>5 DEF SetReady, Start, Rematch, Turn
  <2>2. UNCHANGED <<subs, pump, reader, navs, screen>>
    BY <1>5 DEF SetReady, Start, Rematch, Turn, screens
  <2> HIDE DEF l
  <2>3. StayBorn /\ StayLive
    BY <1>0, <2>1 DEF StayBorn, StayLive, Live
  <2> QED
    BY <2>2, <2>3, BornKept, ChannelsKept DEF StayLive
<1> QED
  BY <1>1, <1>2, <1>3, <1>4, <1>5 DEF Key

LEMMA StepKeepsChannels ==
  ASSUME ScreenTypes, RegistryInv, RegistryTypes', LobbiesAreBorn, ChannelInv,
         [SessionsNext]_sessionVars
  PROVE  LobbiesAreBorn' /\ ChannelInv'
<1>0. phase \in [Lobbies -> Phases] /\ phase' \in [Lobbies -> Phases]
  BY DEF RegistryInv, RegistryTypes
<1>1. ASSUME NEW p \in Players, Navigate(p)
      PROVE  LobbiesAreBorn' /\ ChannelInv'
  <2>1. PICK s \in BagToSet(navs[p]) :
          /\ navs' = [navs EXCEPT ![p] = navs[p] (-) SetToBag({s})]
          /\ screen' = [screen EXCEPT ![p] = s]
          /\ UNCHANGED phase
          /\ \/ s.kind = "waiting" /\ EnterLobby(p, s.lobby)
             \/ UNCHANGED <<subs, pump, reader>>
    BY <1>1 DEF Navigate
  <2>2. s \in Screens /\ (s # Browser => phase[s.lobby] # "Unborn" /\ s.lobby \in Lobbies)
    BY LobbyScreens DEF ScreenTypes, LobbiesAreBorn
  <2>3. BagToSet(navs[p] (-) SetToBag({s})) \subseteq BagToSet(navs[p])
    BY DEF BagToSet, SetToBag, (-)
  <2>4. LobbiesAreBorn'
    <3>1. \A q \in Players : /\ BagToSet(navs'[q]) \subseteq BagToSet(navs[q])
                            /\ screen'[q] \in BagToSet(navs[q]) \cup {screen[q]}
      BY <2>1, <2>3 DEF ScreenTypes
    <3> QED
      BY <2>1, <3>1 DEF LobbiesAreBorn
  <2>5. StayLive
    BY <2>1 DEF StayLive, Live
  <2>6. s.kind = "waiting" => s # Browser
    BY DEF Browser, Screen
  <2>7. ChannelInv'
    BY <1>0, <2>1, <2>2, <2>5, <2>6, EnterKeeps, ChannelsKept DEF StayLive
  <2> QED
    BY <2>4, <2>7
<1>2. ASSUME NEW p \in Players, Unregister(p)
      PROVE  LobbiesAreBorn' /\ ChannelInv'
  BY <1>2, BornKept, ChannelsKept DEF Unregister, channels, screens, StayBorn, Live
<1>3. ASSUME NEW p \in Players, Stop(p)
      PROVE  LobbiesAreBorn' /\ ChannelInv'
  <2>1. ChannelInv'
    BY <1>3, ChannelsKept DEF Stop, lobbies, channels, Live
  <2>2. \A q \in Players : BagToSet(navs'[q]) \subseteq BagToSet(navs[q])
    BY <1>3 DEF Stop, ScreenTypes, BagToSet, EmptyBag, SetToBag
  <2>3. LobbiesAreBorn'
    BY <1>3, <2>2 DEF LobbiesAreBorn, Stop, lobbies
  <2> QED
    BY <2>1, <2>3
<1>4. ASSUME NEW c \in Channels, Pump(c)
      PROVE  LobbiesAreBorn' /\ ChannelInv'
  <2>1. UNCHANGED <<lobbies, screens>>
    BY <1>4 DEF Pump, PumpTake, PumpDrop, PumpExit
  <2>2. LobbiesAreBorn'
    BY <2>1, BornKept DEF lobbies, screens, StayBorn
  <2>3. CASE UNCHANGED <<subs, pump, reader>>
    BY <2>1, <2>2, <2>3, ChannelsKept DEF lobbies, Live
  <2>4. CASE PumpExit(c)
    <3>1. /\ pump[c] = "closed" /\ UNCHANGED subs
          /\ pump' = [pump EXCEPT ![c] = "free"] /\ reader' = [reader EXCEPT ![c] = None]
      BY <2>4 DEF PumpExit, lobbies
    <3>2. ChannelTypes'
      BY <3>1 DEF ChannelInv, ChannelTypes
    <3>3. \A l \in Lobbies, p \in Players : subs[l][p] # c
      BY <3>1 DEF ChannelInv, ChannelsAgree
    <3>4. \A l \in Lobbies, p \in Players : subs[l][p] # None => subs[l][p] \in Channels
      BY DEF ChannelInv, ChannelTypes
    <3>5. \A d \in Channels : d # c => pump'[d] = pump[d] /\ reader'[d] = reader[d]
      BY <3>1 DEF ChannelInv, ChannelTypes
    <3>6. pump'[c] = "free"
      BY <3>1 DEF ChannelInv, ChannelTypes
    <3>7. \A l \in Lobbies : Live(l)' <=> Live(l)
      BY <2>1 DEF lobbies, Live
    <3>8. \A d \in Channels :
            pump'[d] = "open" <=> \E l \in Lobbies, p \in Players : subs'[l][p] = d
      BY <3>1, <3>3, <3>5, <3>6 DEF ChannelInv, ChannelsAgree
    <3>9. ASSUME NEW m \in Lobbies, NEW n \in Lobbies, NEW q \in Players, NEW r \in Players,
                 subs'[m][q] # None
          PROVE  /\ Live(m)' /\ reader'[subs'[m][q]] = q
                 /\ subs'[m][q] = subs'[n][r] => m = n /\ q = r
      BY <3>9, <3>1, <3>3, <3>4, <3>5, <3>7 DEF ChannelInv, ChannelsAgree
    <3> QED
      BY <2>2, <3>2, <3>8, <3>9 DEF ChannelInv, ChannelsAgree
  <2> QED
    BY <1>4, <2>3, <2>4 DEF Pump, PumpTake, PumpDrop, lobbies
<1>5. ASSUME NEW p \in Players, NEW c \in Channels, Handle(p, c)
      PROVE  LobbiesAreBorn' /\ ChannelInv'
  <2>1. UNCHANGED <<phase, subs, pump, reader, screen>>
    BY <1>5 DEF Handle, lobbies
  <2>2. ChannelInv' /\ StayBorn
    BY <2>1, ChannelsKept DEF Live, StayBorn
  <2>3. CASE UNCHANGED navs
    BY <2>1, <2>2, <2>3, BornKept
  <2>4. CASE Go(p, Follow(screen[p], held[c])) /\ Follow(screen[p], held[c]) # screen[p]
    <3> DEFINE s == Follow(screen[p], held[c])
    <3>1. s \in Screens /\ s.lobby = screen[p].lobby
      BY <2>4, LobbyScreens DEF ScreenTypes, Follow, Screen
    <3>2. screen[p] # Browser
      BY <2>4 DEF Follow, Browser, Screen
    <3>3. phase'[s.lobby] # "Unborn"
      BY <3>1, <3>2, <2>1 DEF LobbiesAreBorn
    <3> HIDE DEF s
    <3> QED
      BY <2>1, <2>2, <2>4, <3>1, <3>3, GoBorn DEF s
  <2> QED
    BY <1>5, <2>3, <2>4 DEF Handle
<1>6. ASSUME NEW l \in Lobbies, Race(l) \/ News(l)
      PROVE  LobbiesAreBorn' /\ ChannelInv'
  <2>1. \E ph \in Phases \ {"Unborn", "Closed"} : phase' = [phase EXCEPT ![l] = ph]
    BY <1>0, <1>6 DEF Race, Open, End, News, Turn, Live, Phases
  <2>2. UNCHANGED <<subs, pump, reader, screens>>
    BY <1>6 DEF Race, Open, End, News, Turn
  <2>3. StayBorn /\ StayLive
    BY <1>0, <2>1 DEF StayBorn, StayLive, Live
  <2> QED
    BY <2>2, <2>3, BornKept, ChannelsKept DEF StayLive, screens
<1>7. ASSUME NEW p \in Players, Disconnect(p)
      PROVE  LobbiesAreBorn' /\ ChannelInv'
  <2>1. UNCHANGED <<screen, navs>>
    BY <1>7 DEF Disconnect
  <2>2. CASE UNCHANGED <<lobbies, channels>>
    BY <2>1, <2>2, BornKept, ChannelsKept DEF lobbies, channels, StayBorn, Live
  <2>3. CASE ctxLobby[p] # None /\ LeaveLobby(p, ctxLobby[p])
    <3>1. ctxLobby[p] \in Lobbies
      BY <2>3 DEF ScreenTypes
    <3> QED
      BY <2>1, <2>3, <3>1, LeaveChannels, BornKept
  <2> QED
    BY <1>7, <2>2, <2>3 DEF Disconnect
<1>8. CASE UNCHANGED sessionVars
  BY <1>8, BornKept, ChannelsKept
  DEF sessionVars, lobbies, channels, screens, StayBorn, Live
<1> QED
  BY <1>1, <1>2, <1>3, <1>4, <1>5, <1>6, <1>7, <1>8, KeyChannels DEF SessionsNext, Silent

(***************************************************************************)
(* No broadcast meets a closed channel and none is closed twice, whenever   *)
(* sessions subscribe, leave, close their lobby or are cut off              *)
(* (lobby.go:356-361, 369-376, 381-390).                                    *)
(***************************************************************************)
THEOREM ChannelsTheorem == SessionsSpec => []ChannelsAgree
<1> DEFINE Inv == ScreenTypes /\ RegistryInv /\ LobbiesAreBorn /\ ChannelInv
<1>1. SessionsInit => Inv
  <2> SUFFICES ASSUME SessionsInit PROVE Inv
    OBVIOUS
  <2>1. ScreenTypes
    BY LobbyScreens DEF SessionsInit, ScreenTypes, BagToSet, EmptyBag, SetToBag
  <2>2. LobbiesAreBorn
    BY DEF SessionsInit, LobbiesAreBorn, BagToSet, EmptyBag, SetToBag
  <2> QED
    BY <2>1, <2>2, InitRegistry, InitChannels
<1>2. Inv /\ [SessionsNext]_sessionVars => Inv'
  <2> SUFFICES ASSUME Inv, [SessionsNext]_sessionVars PROVE Inv'
    OBVIOUS
  <2>1. ScreenTypes' /\ RegistryInv' /\ RegistryTypes'
    BY StepKeeps DEF RegistryInv
  <2> QED
    BY <2>1, StepKeepsChannels
<1>3. Inv => ChannelsAgree
  BY DEF ChannelInv
<1> QED
  BY <1>1, <1>2, <1>3, PTL DEF SessionsSpec
-----------------------------------------------------------------------------
(* Who is in which lobby. *)

(* Nobody is twice in a lobby's order. *)
RosterInv ==
  /\ order \in [Lobbies -> Seq(Players)]
  /\ \A l \in Lobbies : IsInjective(order[l])

LEMMA MembersAre ==
  \A l \in Lobbies : Members(l) = ToSet(order[l]) /\ Members(l)' = ToSet(order'[l])
  BY DEF Members, ToSet

LEMMA JoinRoster ==
  ASSUME RosterInv, NEW p \in Players, NEW l \in Lobbies, p \notin Members(l),
         order' = [order EXCEPT ![l] = Append(order[l], p)]
  PROVE  /\ RosterInv'
         /\ \A m \in Lobbies : Members(m)' = IF m = l THEN Members(m) \cup {p} ELSE Members(m)
<1> DEFINE s == Append(order[l], p)
<1>1. order[l] \in Seq(Players) /\ IsInjective(order[l]) /\ p \notin ToSet(order[l])
  BY DEF RosterInv, Members
<1>2. s \in Seq(Players) /\ IsInjective(s) /\ ToSet(s) = ToSet(order[l]) \cup {p}
  BY <1>1, AppendDistinct
<1> HIDE DEF s
<1>3. \A m \in Lobbies : order'[m] = IF m = l THEN s ELSE order[m]
  BY DEF RosterInv, s
<1>4. RosterInv'
  BY <1>2, <1>3 DEF RosterInv, s
<1>5. QED
  BY MembersAre, <1>2, <1>3, <1>4

LEMMA LeaveRoster ==
  ASSUME RosterInv, NEW p \in Players, NEW l \in Lobbies, p \in Members(l),
         order' = [order EXCEPT ![l] = RemoveFirst(order[l], p)]
  PROVE  /\ RosterInv'
         /\ \A m \in Lobbies : Members(m)' = IF m = l THEN Members(m) \ {p} ELSE Members(m)
<1> DEFINE s == RemoveFirst(order[l], p)
<1>1. order[l] \in Seq(Players) /\ IsInjective(order[l]) /\ p \in ToSet(order[l])
  BY DEF RosterInv, Members
<1>2. s \in Seq(Players) /\ IsInjective(s) /\ ToSet(s) = ToSet(order[l]) \ {p}
  BY <1>1, RemoveFirstDistinct, Zenon
<1> HIDE DEF s
<1>3. \A m \in Lobbies : order'[m] = IF m = l THEN s ELSE order[m]
  BY DEF RosterInv, s
<1>4. RosterInv'
  BY <1>2, <1>3 DEF RosterInv, s
<1>5. QED
  BY MembersAre, <1>2, <1>3, <1>4

LEMMA CreateRoster ==
  ASSUME RosterInv, NEW p \in Players, NEW l \in Lobbies,
         order' = [order EXCEPT ![l] = <<p>>]
  PROVE  /\ RosterInv'
         /\ \A m \in Lobbies : Members(m)' = IF m = l THEN {p} ELSE Members(m)
<1>1. <<p>> \in Seq(Players) /\ IsInjective(<<p>>) /\ ToSet(<<p>>) = {p}
  BY DEF IsInjective, ToSet
<1>2. \A m \in Lobbies : order'[m] = IF m = l THEN <<p>> ELSE order[m]
  BY DEF RosterInv
<1>3. RosterInv'
  BY <1>1, <1>2 DEF RosterInv
<1>4. QED
  BY MembersAre, <1>1, <1>2, <1>3

LEMMA SameRoster ==
  ASSUME RosterInv, UNCHANGED order
  PROVE  RosterInv' /\ \A m \in Lobbies : Members(m)' = Members(m)
  BY DEF RosterInv, Members


-----------------------------------------------------------------------------
(* Types. *)

(* The part of SessionsTypeOK that the registry and the channels leave open. *)
EventTypes ==
  /\ ready \in [Lobbies -> SUBSET Players]
  /\ queue \in [Channels -> Seq(Events)]
  /\ \A c \in Channels : Len(queue[c]) <= Buffer
  /\ held \in [Channels -> Events \cup {None}]
  /\ session \in [Players -> {"running", "stopped", "gone"}]

SessionsInv ==
  ScreenTypes /\ RegistryInv /\ LobbiesAreBorn /\ ChannelInv /\ RosterInv /\ EventTypes

(* What is broadcast is an event and finds room or is dropped. *)
LEMMA BroadcastTypes ==
  ASSUME EventTypes, NEW C, NEW e \in Events, Broadcast(C, e)
  PROVE  /\ queue' \in [Channels -> Seq(Events)]
         /\ \A c \in Channels : Len(queue'[c]) <= Buffer
<1>1. ASSUME NEW c \in Channels
      PROVE  queue'[c] \in Seq(Events) /\ Len(queue'[c]) <= Buffer
  <2>1. queue[c] \in Seq(Events) /\ Len(queue[c]) <= Buffer /\ Len(queue[c]) \in Nat /\ Buffer \in Nat
    BY RoomAssumption DEF EventTypes
  <2>2. CASE c \in C /\ Len(queue[c]) < Buffer
    <3>1. queue'[c] = Append(queue[c], e)
      BY <2>2 DEF Broadcast
    <3>2. queue'[c] \in Seq(Events) /\ Len(queue'[c]) = Len(queue[c]) + 1
      BY <2>1, <3>1
    <3>3. QED
      BY <2>1, <2>2, <3>2
  <2>3. CASE ~(c \in C /\ Len(queue[c]) < Buffer)
    <3>1. queue'[c] = queue[c]
      BY <2>3 DEF Broadcast
    <3>2. QED
      BY <2>1, <3>1
  <2>4. QED
    BY <2>2, <2>3
<1>2. queue' \in [Channels -> Seq(Events)]
  BY <1>1 DEF Broadcast
<1>3. QED
  BY <1>1, <1>2

LEMMA UpdatedIsEvent == \A ph : Updated(ph) \in Events
  BY DEF Updated, Events

LEMMA LeaveLobbyTypes ==
  ASSUME SessionsInv, NEW p \in Players, NEW l \in Lobbies, LeaveLobby(p, l)
  PROVE  /\ RosterInv'
         /\ ready' \in [Lobbies -> SUBSET Players]
         /\ queue' \in [Channels -> Seq(Events)]
         /\ \A c \in Channels : Len(queue'[c]) <= Buffer
         /\ held' = held
<1> USE DEF SessionsInv
<1>1. CASE UNCHANGED <<lobbies, channels>>
  BY <1>1, SameRoster DEF lobbies, channels, EventTypes
<1>2. CASE p \in Members(l) /\ Leave(p, l)
  <2>1. RosterInv' /\ ready' \in [Lobbies -> SUBSET Players] /\ held' = held
    BY <1>2, LeaveRoster DEF Leave, EventTypes
  <2>2. CASE CloseLobby(p, l)
    BY <2>1, <2>2 DEF CloseLobby, EventTypes
  <2>3. ASSUME NEW ph, Broadcast(Subscribed(l) \ {subs[l][p]},
                          IF ph # phase[l] /\ ph = "Finished" THEN "ended" ELSE Updated(ph))
        PROVE  queue' \in [Channels -> Seq(Events)] /\ \A c \in Channels : Len(queue'[c]) <= Buffer
    <3>1. "ended" \in Events
      BY DEF Events
    <3>2. QED
      BY <2>3, <3>1, UpdatedIsEvent, BroadcastTypes
  <2>4. QED
    BY <1>2, <2>1, <2>2, <2>3 DEF Leave
<1>3. QED
  BY <1>1, <1>2 DEF LeaveLobby

LEMMA TurnTypes ==
  ASSUME SessionsInv, NEW l \in Lobbies, NEW ph, NEW e \in Events, Turn(l, ph, e),
         ready' \in [Lobbies -> SUBSET Players]
  PROVE  RosterInv' /\ EventTypes'
<1>1. UNCHANGED <<order, held, session>>
  BY DEF Turn, screens
<1>2. EventTypes'
  BY <1>1, BroadcastTypes DEF Turn, EventTypes, SessionsInv
<1>3. QED
  BY <1>1, <1>2, SameRoster DEF SessionsInv

LEMMA KeyMoves ==
  ASSUME SessionsInv, NEW p \in Players, Key(p)
  PROVE  RosterInv' /\ EventTypes'
<1> USE DEF SessionsInv
<1>0. "waiting" \in Events /\ "news" \in Events
  BY DEF Events
<1>1. CASE Create(p)
  <2>1. RosterInv'
    BY <1>1, CreateRoster DEF Create
  <2>2. QED
    BY <1>1, <2>1 DEF Create, EventTypes
<1>2. CASE Join(p)
  <2>1. UNCHANGED <<ready, held, session>>
    BY <1>2 DEF Join
  <2>2. CASE UNCHANGED <<order, queue>>
    BY <2>1, <2>2, SameRoster DEF EventTypes
  <2>3. ASSUME NEW l \in Lobbies, p \notin Members(l),
               order' = [order EXCEPT ![l] = Append(@, p)], Broadcast(Subscribed(l), "waiting")
        PROVE  RosterInv' /\ EventTypes'
    <3>1. RosterInv'
      BY <2>3, JoinRoster
    <3>2. QED
      BY <1>0, <2>1, <2>3, <3>1, BroadcastTypes DEF EventTypes
  <2>4. QED
    BY <1>2, <2>2, <2>3 DEF Join, RegistryInv, RegistryTypes
<1>3. CASE Wander(p)
  BY <1>3, SameRoster DEF Wander, lobbies, channels, EventTypes
<1>4. CASE Escape(p)
  <2>1. screen[p].lobby \in Lobbies
    BY <1>4, LobbyScreens DEF Escape, ScreenTypes
  <2>2. QED
    BY <1>4, <2>1, LeaveLobbyTypes DEF Escape, EventTypes
<1>5. CASE SetReady(p) \/ Start(p) \/ Rematch(p)
  <2> DEFINE l == screen[p].lobby
  <2>1. l \in Lobbies
    <3>1. screen[p].kind \in {"waiting", "results"}
      BY <1>5 DEF SetReady, Start, Rematch, At
    <3>2. Browser.kind = "browser"
      BY DEF Browser, Screen
    <3>3. QED
      BY <3>1, <3>2, LobbyScreens DEF ScreenTypes
  <2>2. ready' \in [Lobbies -> SUBSET Players]
    BY <1>5 DEF SetReady, Start, Rematch, EventTypes
  <2>3. \E ph : \E e \in Events : Turn(l, ph, e)
    BY <1>0, <1>5 DEF SetReady, Start, Rematch
  <2> HIDE DEF l
  <2>4. QED
    BY <2>1, <2>2, <2>3, TurnTypes
<1>6. QED
  BY <1>1, <1>2, <1>3, <1>4, <1>5 DEF Key

LEMMA StepMoves ==
  ASSUME SessionsInv, [SessionsNext]_sessionVars
  PROVE  RosterInv' /\ EventTypes'
<1> USE DEF SessionsInv
<1>1. ASSUME NEW p \in Players, Navigate(p) \/ Unregister(p) \/ Stop(p)
      PROVE  RosterInv' /\ EventTypes'
  <2>1. UNCHANGED <<order, ready, queue, held>>
    BY <1>1 DEF Navigate, Unregister, Stop, lobbies, channels
  <2>2. session' \in [Players -> {"running", "stopped", "gone"}]
    BY <1>1 DEF Navigate, Unregister, Stop, screens, EventTypes
  <2>3. QED
    BY <2>1, <2>2, SameRoster DEF EventTypes
<1>2. ASSUME NEW c \in Channels, Pump(c)
      PROVE  RosterInv' /\ EventTypes'
  <2>1. UNCHANGED <<order, ready, session>>
    BY <1>2 DEF Pump, PumpTake, PumpDrop, PumpExit, lobbies, screens
  <2>2. CASE PumpTake(c)
    <3>1. queue[c] \in Seq(Events) /\ queue[c] # <<>> /\ Len(queue[c]) <= Buffer /\ Buffer \in Nat
      BY <2>2, RoomAssumption DEF PumpTake, EventTypes
    <3>2. Head(queue[c]) \in Events /\ Tail(queue[c]) \in Seq(Events)
          /\ Len(Tail(queue[c])) <= Buffer
      BY <3>1
    <3>3. held' = [held EXCEPT ![c] = Head(queue[c])] /\ queue' = [queue EXCEPT ![c] = Tail(queue[c])]
      BY <2>2 DEF PumpTake
    <3>4. QED
      BY <2>1, <3>2, <3>3, SameRoster DEF EventTypes
  <2>3. CASE PumpDrop(c) \/ PumpExit(c)
    BY <2>1, <2>3, SameRoster DEF PumpDrop, PumpExit, EventTypes
  <2>4. QED
    BY <1>2, <2>2, <2>3 DEF Pump
<1>3. ASSUME NEW p \in Players, NEW c \in Channels, Handle(p, c)
      PROVE  RosterInv' /\ EventTypes'
  BY <1>3, SameRoster DEF Handle, lobbies, EventTypes
<1>4. ASSUME NEW p \in Players, Disconnect(p)
      PROVE  RosterInv' /\ EventTypes'
  <2>1. session' \in [Players -> {"running", "stopped", "gone"}]
    BY <1>4 DEF Disconnect, EventTypes
  <2>2. CASE UNCHANGED <<lobbies, channels>>
    BY <2>1, <2>2, SameRoster DEF lobbies, channels, EventTypes
  <2>3. CASE ctxLobby[p] # None /\ LeaveLobby(p, ctxLobby[p])
    <3>1. ctxLobby[p] \in Lobbies
      BY <2>3 DEF ScreenTypes
    <3>2. QED
      BY <2>1, <2>3, <3>1, LeaveLobbyTypes DEF EventTypes
  <2>4. QED
    BY <1>4, <2>2, <2>3 DEF Disconnect
<1>5. ASSUME NEW l \in Lobbies, Race(l) \/ News(l)
      PROVE  RosterInv' /\ EventTypes'
  <2>1. \E ph : \E e \in Events : Turn(l, ph, e)
    BY <1>5, UpdatedIsEvent DEF Race, Open, End, News, Events
  <2>2. ready' \in [Lobbies -> SUBSET Players]
    BY <1>5 DEF Race, Open, End, News, EventTypes
  <2>3. QED
    BY <2>1, <2>2, TurnTypes
<1>6. CASE UNCHANGED sessionVars
  BY <1>6, SameRoster DEF sessionVars, lobbies, channels, screens, EventTypes
<1>7. QED
  BY <1>1, <1>2, <1>3, <1>4, <1>5, <1>6, KeyMoves DEF SessionsNext, Silent

LEMMA SessionsInvStep ==
  ASSUME SessionsInv, [SessionsNext]_sessionVars
  PROVE  SessionsInv'
<1>1. ScreenTypes' /\ RegistryInv' /\ RegistryTypes'
  BY StepKeeps DEF SessionsInv, RegistryInv
<1>2. LobbiesAreBorn' /\ ChannelInv'
  BY <1>1, StepKeepsChannels DEF SessionsInv
<1>3. QED
  BY <1>1, <1>2, StepMoves DEF SessionsInv

LEMMA SessionsInvInit == SessionsInit => SessionsInv
<1> SUFFICES ASSUME SessionsInit PROVE SessionsInv
  OBVIOUS
<1>1. ScreenTypes
  BY LobbyScreens DEF SessionsInit, ScreenTypes, BagToSet, EmptyBag, SetToBag
<1>2. LobbiesAreBorn
  BY DEF SessionsInit, LobbiesAreBorn, BagToSet, EmptyBag, SetToBag
<1>3. RosterInv
  <2>1. <<>> \in Seq(Players) /\ IsInjective(<<>>)
    BY DEF IsInjective
  <2>2. QED
    BY <2>1 DEF SessionsInit, RosterInv
<1>4. EventTypes
  BY RoomAssumption DEF SessionsInit, EventTypes
<1>5. QED
  BY <1>1, <1>2, <1>3, <1>4, InitRegistry, InitChannels DEF SessionsInv

(***************************************************************************)
(* Registry, lobbies, channels and screens keep their types, no buffer      *)
(* holds more events than it has room for, whatever sessions do in whatever *)
(* order.                                                                   *)
(***************************************************************************)
THEOREM SessionsTypeTheorem == SessionsSpec => []SessionsTypeOK
<1>1. SessionsInv => SessionsTypeOK
  BY DEF SessionsInv, SessionsTypeOK, ScreenTypes, RegistryInv, RegistryTypes, ChannelInv,
         ChannelTypes, RosterInv, EventTypes
<1>2. SessionsInv /\ [SessionsNext]_sessionVars => SessionsInv'
  BY SessionsInvStep
<1>3. QED
  BY <1>1, <1>2, SessionsInvInit, PTL DEF SessionsSpec

-----------------------------------------------------------------------------
(* Sessions that do not outrun a navigation. *)

(* One navigation at most is under way. *)
NavsInv == \A p \in Players : navs[p] = EmptyBag \/ \E s \in Screens : navs[p] = SetToBag({s})

(* What a session shows or goes to is about the lobby it is in, or about     *)
(* none.                                                                     *)
Heading ==
  \A p \in Players : session[p] = "running" =>
    /\ navs[p] = EmptyBag => screen[p].lobby = ctxLobby[p]
    /\ \A s \in BagToSet(navs[p]) : s.lobby = ctxLobby[p]

GoneIsOut == \A p \in Players : session[p] = "gone" => ctxLobby[p] = None

SettledInv == NavsInv /\ Heading /\ GoneIsOut /\ KnowsItsLobby

LEMMA NavBags ==
  /\ BagToSet(EmptyBag) = {}
  /\ \A s : /\ BagToSet(SetToBag({s})) = {s}
            /\ EmptyBag (+) SetToBag({s}) = SetToBag({s})
            /\ SetToBag({s}) (-) SetToBag({s}) = EmptyBag
            /\ SetToBag({s}) # EmptyBag
<1>1. BagToSet(EmptyBag) = {}
  BY DEF BagToSet, EmptyBag, SetToBag
<1>2. ASSUME NEW s
      PROVE  /\ BagToSet(SetToBag({s})) = {s}
             /\ EmptyBag (+) SetToBag({s}) = SetToBag({s})
             /\ SetToBag({s}) (-) SetToBag({s}) = EmptyBag
             /\ SetToBag({s}) # EmptyBag
  <2>1. BagToSet(SetToBag({s})) = {s}
    BY DEF BagToSet, SetToBag
  <2>2. EmptyBag (+) SetToBag({s}) = SetToBag({s})
    BY DEF EmptyBag, SetToBag, (+)
  <2>3. SetToBag({s}) (-) SetToBag({s}) = EmptyBag
    BY DEF EmptyBag, SetToBag, (-)
  <2>4. QED
    BY <1>1, <2>1, <2>2, <2>3
<1>3. QED
  BY <1>1, <1>2

(* A settled session goes somewhere. *)
LEMMA GoFromRest ==
  ASSUME ScreenTypes, NEW p \in Players, NEW s \in Screens, Settled(p), Go(p, s)
  PROVE  \A q \in Players : navs'[q] = IF q = p THEN SetToBag({s}) ELSE navs[q]
  BY NavBags DEF Go, Settled, ScreenTypes

(* A session leaves the lobby it is in. *)
LEMMA LeaveKnows ==
  ASSUME SessionsInv, KnowsItsLobby, NEW p \in Players, NEW l \in Lobbies,
         ctxLobby[p] = l, LeaveLobby(p, l)
  PROVE  /\ KnowsItsLobby'
         /\ \A q \in Players : ctxLobby'[q] = IF q = p THEN None ELSE ctxLobby[q]
<1> USE DEF SessionsInv
<1>1. p \in Members(l) /\ Leave(p, l)
  BY DEF KnowsItsLobby, LeaveLobby
<1>2. \A q \in Players : ctxLobby'[q] = IF q = p THEN None ELSE ctxLobby[q]
  BY DEF LeaveLobby, ScreenTypes
<1>3. \A m \in Lobbies : Members(m)' = IF m = l THEN Members(m) \ {p} ELSE Members(m)
  BY <1>1, LeaveRoster DEF Leave
<1>4. ASSUME NEW q \in Players, NEW m \in Lobbies
      PROVE  q \in Members(m)' <=> ctxLobby'[q] = m
  <2>1. m # None
    BY NoneAssumption
  <2>2. QED
    BY <1>2, <1>3, <2>1 DEF KnowsItsLobby
<1>5. ASSUME NEW q \in Players, NEW m \in Lobbies
      PROVE  subs'[m][q] # None <=> ctxLobby'[q] = m
  <2>1. m # None
    BY NoneAssumption
  <2>2. CASE order'[l] = <<>> /\ CloseLobby(p, l)
    <3>1. subs'[m][q] = IF m = l THEN None ELSE subs[m][q]
      BY <2>2 DEF CloseLobby, ChannelInv, ChannelTypes
    <3>2. Members(l)' = {}
      BY <2>2, MembersAre DEF ToSet
    <3>3. ctxLobby'[q] # l
      BY <1>4, <3>2
    <3>4. QED
      BY <1>2, <2>1, <3>1, <3>3 DEF KnowsItsLobby
  <2>3. CASE subs' = [subs EXCEPT ![l][p] = None]
    <3>1. subs'[m][q] = IF m = l /\ q = p THEN None ELSE subs[m][q]
      BY <2>3 DEF ChannelInv, ChannelTypes
    <3>2. QED
      BY <1>2, <2>1, <3>1 DEF KnowsItsLobby
  <2>4. QED
    BY <1>1, <2>2, <2>3 DEF Leave
<1>6. QED
  BY <1>2, <1>4, <1>5 DEF KnowsItsLobby

(* A session that is in no lobby becomes a player in one. *)
LEMMA ClaimKnows ==
  ASSUME SessionsInv, KnowsItsLobby, NEW p \in Players, NEW l \in Lobbies,
         ctxLobby[p] = None, Claim(p, l), phase'[l] # "Closed",
         \A m \in Lobbies : Members(m)' = IF m = l THEN Members(m) \cup {p} ELSE Members(m)
  PROVE  /\ KnowsItsLobby'
         /\ \A q \in Players : ctxLobby'[q] = IF q = p THEN l ELSE ctxLobby[q]
<1> USE DEF SessionsInv
<1>1. l # None
  BY NoneAssumption
<1>2. ctxLobby' = [ctxLobby EXCEPT ![p] = l] /\ Subscribe(p, l)
  BY <1>1 DEF Claim, EnterLobby
<1>3. \A q \in Players : ctxLobby'[q] = IF q = p THEN l ELSE ctxLobby[q]
  BY <1>2 DEF ScreenTypes
<1>4. PICK c \in Channels : subs' = [subs EXCEPT ![l][p] = c]
  BY <1>2 DEF Subscribe
<1>5. c # None
  BY NoneAssumption
<1>6. \A q \in Players, m \in Lobbies : subs'[m][q] = IF m = l /\ q = p THEN c ELSE subs[m][q]
  BY <1>4 DEF ChannelInv, ChannelTypes
<1>7. \A m \in Lobbies : m # None
  BY NoneAssumption
<1>8. QED
  BY <1>3, <1>5, <1>6, <1>7 DEF KnowsItsLobby

(* Neither players nor subscriptions changed. *)
LEMMA SameKnows ==
  ASSUME KnowsItsLobby, UNCHANGED <<order, subs, ctxLobby>>
  PROVE  KnowsItsLobby'
  BY DEF KnowsItsLobby, Members

LEMMA SettledKey ==
  ASSUME SessionsInv, SettledInv, NEW p \in Players, Settled(p), Key(p)
  PROVE  SettledInv'
<1> USE DEF SessionsInv, SettledInv
<1>0. /\ \A l \in Lobbies : l # None
      /\ Browser.lobby = None /\ Browser.kind = "browser"
      /\ \A l : Screen("waiting", l).lobby = l
  BY NoneAssumption DEF Browser, Screen
<1>1. ASSUME NEW s \in Screens, Go(p, s), UNCHANGED <<screen, session>>, KnowsItsLobby',
             session[p] = "running",
             \A q \in Players : ctxLobby'[q] = IF q = p THEN s.lobby ELSE ctxLobby[q]
      PROVE  SettledInv'
  <2>1. \A q \in Players : navs'[q] = IF q = p THEN SetToBag({s}) ELSE navs[q]
    BY <1>1, GoFromRest
  <2>2. NavsInv'
    BY <2>1 DEF NavsInv
  <2>3. Heading'
    <3>1. BagToSet(SetToBag({s})) = {s} /\ SetToBag({s}) # EmptyBag
      BY NavBags
    <3>2. QED
      BY <1>1, <2>1, <3>1 DEF Heading
  <2>4. GoneIsOut'
    BY <1>1 DEF GoneIsOut
  <2>5. QED
    BY <1>1, <2>2, <2>3, <2>4
<1>2. At(p, "browser") => session[p] = "running" /\ ctxLobby[p] = None
  <2>1. SUFFICES ASSUME At(p, "browser") PROVE session[p] = "running" /\ ctxLobby[p] = None
    OBVIOUS
  <2>2. session[p] = "running" /\ screen[p].kind = "browser" /\ screen[p] \in Screens
    BY <2>1 DEF At, Running, ScreenTypes
  <2>3. screen[p] = Browser
    BY <2>2 DEF Screens, Screen
  <2>4. QED
    BY <1>0, <2>2, <2>3 DEF Heading, Settled
<1>3. CASE Create(p)
  <2>1. PICK l \in Lobbies : /\ phase[l] = "Unborn"
                             /\ phase' = [phase EXCEPT ![l] = "Waiting"]
                             /\ order' = [order EXCEPT ![l] = <<p>>]
                             /\ Claim(p, l)
                             /\ Go(p, Screen("waiting", l))
    BY <1>3 DEF Create
  <2>2. ctxLobby[p] = None /\ session[p] = "running" /\ UNCHANGED <<screen, session>>
    BY <1>2, <1>3 DEF Create
  <2>3. Members(l) = {}
    <3>1. order[l] = <<>>
      BY <2>1 DEF RegistryInv, OnlyLiveHavePlayers, Live
    <3>2. QED
      BY <3>1, NobodyInEmpty
  <2>4. \A m \in Lobbies : Members(m)' = IF m = l THEN Members(m) \cup {p} ELSE Members(m)
    BY <2>1, <2>3, CreateRoster
  <2>5. phase'[l] # "Closed"
    BY <2>1 DEF RegistryInv, RegistryTypes
  <2>6. /\ KnowsItsLobby'
        /\ \A q \in Players : ctxLobby'[q] = IF q = p THEN l ELSE ctxLobby[q]
    BY <2>1, <2>2, <2>4, <2>5, ClaimKnows
  <2>7. Screen("waiting", l) \in Screens
    BY LobbyScreens
  <2>8. QED
    BY <1>0, <1>1, <2>1, <2>2, <2>6, <2>7
<1>4. CASE Join(p)
  <2>1. PICK k \in Codes : LET l == registry[k] IN
          /\ l # None
          /\ \/ p \in Members(l) /\ UNCHANGED <<order, queue>>
             \/ /\ p \notin Members(l)
                /\ phase[l] = "Waiting"
                /\ order' = [order EXCEPT ![l] = Append(@, p)]
          /\ UNCHANGED phase
          /\ Claim(p, l)
          /\ Go(p, Screen("waiting", l))
    BY <1>4 DEF Join
  <2> DEFINE l == registry[k]
  <2>2. l \in Lobbies
    BY <2>1 DEF RegistryInv, RegistryTypes
  <2>3. ctxLobby[p] = None /\ session[p] = "running" /\ UNCHANGED <<screen, session>>
    BY <1>2, <1>4 DEF Join
  <2>4. p \notin Members(l)
    BY <1>0, <2>2, <2>3 DEF KnowsItsLobby
  <2>5. \A m \in Lobbies : Members(m)' = IF m = l THEN Members(m) \cup {p} ELSE Members(m)
    BY <2>1, <2>2, <2>4, JoinRoster
  <2>6. phase'[l] # "Closed" /\ Claim(p, l) /\ Go(p, Screen("waiting", l))
    BY <2>1, <2>4
  <2> HIDE DEF l
  <2>7. /\ KnowsItsLobby'
        /\ \A q \in Players : ctxLobby'[q] = IF q = p THEN l ELSE ctxLobby[q]
    BY <2>2, <2>3, <2>5, <2>6, ClaimKnows
  <2>8. Screen("waiting", l) \in Screens
    BY <2>2, LobbyScreens
  <2>9. QED
    BY <1>0, <1>1, <2>3, <2>6, <2>7, <2>8
<1>5. CASE Wander(p)
  <2>1. ctxLobby[p] = None /\ session[p] = "running" /\ UNCHANGED <<screen, session, ctxLobby>>
    BY <1>2, <1>5 DEF Wander
  <2>2. KnowsItsLobby'
    BY <1>5, SameKnows DEF Wander, lobbies
  <2>3. QED
    BY <1>0, <1>1, <1>5, <2>1, <2>2, LobbyScreens DEF Wander
<1>6. CASE Escape(p)
  <2> DEFINE l == screen[p].lobby
  <2>1. session[p] = "running" /\ l \in Lobbies /\ UNCHANGED <<screen, session>>
    BY <1>6, LobbyScreens DEF Escape, Running, ScreenTypes
  <2>2. ctxLobby[p] = l
    BY <2>1 DEF Heading, Settled
  <2>3. LeaveLobby(p, l) /\ Go(p, Browser)
    BY <1>6 DEF Escape
  <2> HIDE DEF l
  <2>4. /\ KnowsItsLobby'
        /\ \A q \in Players : ctxLobby'[q] = IF q = p THEN None ELSE ctxLobby[q]
    BY <2>1, <2>2, <2>3, LeaveKnows
  <2>5. QED
    BY <1>0, <1>1, <2>1, <2>3, <2>4, LobbyScreens
<1>7. CASE SetReady(p) \/ Start(p) \/ Rematch(p)
  <2>1. UNCHANGED <<order, subs, screen, navs, ctxLobby, session>>
    BY <1>7 DEF SetReady, Start, Rematch, Turn, screens
  <2>2. QED
    BY <2>1, SameKnows DEF NavsInv, Heading, GoneIsOut
<1>8. QED
  BY <1>3, <1>4, <1>5, <1>6, <1>7 DEF Key

(* Steps that move neither players, navigations nor screens.                 *)
LEMMA SettledKept ==
  ASSUME SettledInv, UNCHANGED <<order, subs, screens>>
  PROVE  SettledInv'
  BY SameKnows DEF SettledInv, NavsInv, Heading, GoneIsOut, screens

LEMMA FollowStays ==
  \A s \in Screens : \A e : Follow(s, e) \in Screens /\ Follow(s, e).lobby = s.lobby
<1>1. ASSUME NEW s \in Screens, NEW e PROVE Follow(s, e).lobby = s.lobby
  BY DEF Follow, Screen
<1>2. QED
  BY <1>1, LobbyScreens

LEMMA SettledHandle ==
  ASSUME SessionsInv, SettledInv, NEW p \in Players, NEW c \in Channels, Settled(p), Handle(p, c)
  PROVE  SettledInv'
<1> USE DEF SessionsInv, SettledInv
<1>1. UNCHANGED <<order, subs, screen, ctxLobby, session>> /\ session[p] = "running"
  BY DEF Handle, lobbies, Running
<1>2. KnowsItsLobby' /\ GoneIsOut'
  BY <1>1, SameKnows DEF GoneIsOut
<1>3. CASE UNCHANGED navs
  BY <1>1, <1>2, <1>3 DEF NavsInv, Heading
<1>4. CASE Go(p, Follow(screen[p], held[c]))
  <2> DEFINE s == Follow(screen[p], held[c])
  <2>1. s \in Screens /\ s.lobby = ctxLobby[p]
    BY <1>1, FollowStays DEF ScreenTypes, Heading, Settled
  <2> HIDE DEF s
  <2>2. \A q \in Players : navs'[q] = IF q = p THEN SetToBag({s}) ELSE navs[q]
    BY <1>4, <2>1, GoFromRest DEF s
  <2>3. NavsInv'
    BY <2>1, <2>2 DEF NavsInv
  <2>4. Heading'
    <3>1. BagToSet(SetToBag({s})) = {s} /\ SetToBag({s}) # EmptyBag
      BY NavBags
    <3>2. QED
      BY <1>1, <2>1, <2>2, <3>1 DEF Heading
  <2>5. QED
    BY <1>2, <2>3, <2>4
<1>5. QED
  BY <1>3, <1>4 DEF Handle

(* The screen that comes up is of the lobby the session is in already.       *)
LEMMA SettledNavigate ==
  ASSUME SessionsInv, SettledInv, NEW p \in Players, Navigate(p)
  PROVE  /\ SettledInv'
         /\ \E s \in Screens :
              /\ navs[p] = SetToBag({s}) /\ s.lobby = ctxLobby[p]
              /\ \A q \in Players : navs'[q] = IF q = p THEN EmptyBag ELSE navs[q]
              /\ \A q \in Players : screen'[q] = IF q = p THEN s ELSE screen[q]
         /\ UNCHANGED <<lobbies, channels, ctxLobby, session>>
<1> USE DEF SessionsInv, SettledInv
<1>1. PICK s \in BagToSet(navs[p]) :
        /\ navs' = [navs EXCEPT ![p] = navs[p] (-) SetToBag({s})]
        /\ screen' = [screen EXCEPT ![p] = s]
        /\ UNCHANGED phase
        /\ \/ s.kind = "waiting" /\ EnterLobby(p, s.lobby)
           \/ s.kind # "waiting" /\ UNCHANGED <<ctxLobby, subs, pump, reader>>
  BY DEF Navigate
<1>2. navs[p] = SetToBag({s}) /\ s \in Screens
  <2>1. navs[p] # EmptyBag
    BY <1>1, NavBags
  <2>2. PICK t \in Screens : navs[p] = SetToBag({t})
    BY <2>1 DEF NavsInv
  <2>3. s \in {t}
    BY <1>1, <2>2, NavBags
  <2>4. QED
    BY <2>2, <2>3
<1>3. session[p] = "running" /\ s.lobby = ctxLobby[p]
  BY <1>1 DEF Navigate, Running, Heading
<1>4. \A q \in Players : navs'[q] = IF q = p THEN EmptyBag ELSE navs[q]
  BY <1>1, <1>2, NavBags DEF ScreenTypes
<1>5. \A q \in Players : screen'[q] = IF q = p THEN s ELSE screen[q]
  BY <1>1 DEF ScreenTypes
<1>6. UNCHANGED <<ctxLobby, subs, pump, reader>>
  BY <1>1, <1>3 DEF EnterLobby
<1>7. UNCHANGED <<lobbies, channels, ctxLobby, session>>
  BY <1>1, <1>6 DEF Navigate, lobbies, channels
<1>8. KnowsItsLobby' /\ GoneIsOut'
  BY <1>7, SameKnows DEF GoneIsOut, lobbies
<1>9. NavsInv' /\ Heading'
  BY <1>3, <1>4, <1>5, <1>7, NavBags DEF NavsInv, Heading
<1>10. QED
  BY <1>2, <1>3, <1>4, <1>5, <1>7, <1>8, <1>9

(* The middleware takes a session that ended out of the lobby it was in.     *)
LEMMA SettledDisconnect ==
  ASSUME SessionsInv, SettledInv, NEW p \in Players, Disconnect(p)
  PROVE  SettledInv' /\ \A q \in Players : ctxLobby'[q] = IF q = p THEN None ELSE ctxLobby[q]
<1> USE DEF SessionsInv, SettledInv
<1>1. /\ UNCHANGED <<screen, navs>>
      /\ \A q \in Players : session'[q] = IF q = p THEN "gone" ELSE session[q]
  BY DEF Disconnect, RegistryInv, RegistryTypes
<1>2. KnowsItsLobby' /\ \A q \in Players : ctxLobby'[q] = IF q = p THEN None ELSE ctxLobby[q]
  <2>1. CASE ctxLobby[p] = None /\ UNCHANGED <<lobbies, channels, ctxLobby>>
    BY <2>1, SameKnows DEF lobbies
  <2>2. CASE ctxLobby[p] # None /\ LeaveLobby(p, ctxLobby[p])
    <3>1. ctxLobby[p] \in Lobbies
      BY <2>2 DEF ScreenTypes
    <3>2. QED
      BY <2>2, <3>1, LeaveKnows
  <2>3. QED
    BY <2>1, <2>2 DEF Disconnect
<1>3. NavsInv' /\ GoneIsOut'
  BY <1>1, <1>2 DEF NavsInv, GoneIsOut
<1>4. Heading'
  BY <1>1, <1>2 DEF Heading
<1>5. QED
  BY <1>2, <1>3, <1>4

LEMMA SettledStop ==
  ASSUME SessionsInv, SettledInv, NEW p \in Players, Stop(p)
  PROVE  SettledInv'
<1> USE DEF SessionsInv, SettledInv
<1>1. /\ UNCHANGED <<order, subs, screen, ctxLobby>>
      /\ \A q \in Players : session'[q] = IF q = p THEN "stopped" ELSE session[q]
      /\ \A q \in Players : navs'[q] = IF q = p THEN EmptyBag ELSE navs[q]
  BY DEF Stop, lobbies, RegistryInv, RegistryTypes, ScreenTypes
<1>2. QED
  BY <1>1, SameKnows DEF NavsInv, Heading, GoneIsOut

LEMMA SettledStep ==
  ASSUME SessionsInv, SettledInv, [SettledNext]_sessionVars
  PROVE  SettledInv'
<1>1. ASSUME NEW p \in Players, Unregister(p)
      PROVE  SettledInv'
  BY <1>1, SettledKept DEF Unregister
<1>2. ASSUME NEW c \in Channels, Pump(c)
      PROVE  SettledInv'
  BY <1>2, SettledKept DEF Pump, PumpTake, PumpDrop, PumpExit, lobbies
<1>3. ASSUME NEW l \in Lobbies, Race(l) \/ News(l)
      PROVE  SettledInv'
  BY <1>3, SettledKept DEF Race, Open, End, News, Turn
<1>4. CASE UNCHANGED sessionVars
  BY <1>4, SettledKept DEF sessionVars, lobbies
<1>5. QED
  BY <1>1, <1>2, <1>3, <1>4, SettledKey, SettledHandle, SettledNavigate, SettledDisconnect, SettledStop
  DEF SettledNext, Silent

LEMMA SettledInit == SessionsInit => SettledInv
<1> SUFFICES ASSUME SessionsInit PROVE SettledInv
  OBVIOUS
<1>1. NavsInv /\ Heading /\ GoneIsOut
  BY NavBags DEF SessionsInit, NavsInv, Heading, GoneIsOut, Browser, Screen
<1>2. KnowsItsLobby
  BY NoneAssumption DEF SessionsInit, KnowsItsLobby, Members, ToSet
<1>3. QED
  BY <1>1, <1>2 DEF SettledInv

LEMMA SettledIsSessions == [SettledNext]_sessionVars => [SessionsNext]_sessionVars
  BY DEF SettledNext, SessionsNext

LEMMA SettledHolds == SettledSpec => [](SessionsInv /\ SettledInv)
<1>1. SessionsInv /\ SettledInv /\ [SettledNext]_sessionVars => SessionsInv' /\ SettledInv'
  BY SessionsInvStep, SettledStep, SettledIsSessions
<1>2. QED
  BY <1>1, SessionsInvInit, SettledInit, PTL DEF SettledSpec

(***************************************************************************)
(* A session that handles its navigations as they come is a player in the   *)
(* lobby its context names, subscribed to it and in no other, whatever the  *)
(* others do meanwhile (ui.go:66-69).                                       *)
(***************************************************************************)
THEOREM KnowsTheorem == SettledSpec => []KnowsItsLobby
<1>1. SettledInv => KnowsItsLobby
  BY DEF SettledInv
<1>2. QED
  BY <1>1, SettledHolds, PTL

(***************************************************************************)
(* So a session that is gone, however it ended and whatever was on its way  *)
(* to it, is a player in no lobby and subscribed to none: nobody waits for  *)
(* it to get ready or to finish (ui.go:129-132).                            *)
(***************************************************************************)
THEOREM ReleasedTheorem == SettledSpec => []Released
<1>1. SettledInv => Released
  BY NoneAssumption DEF SettledInv, KnowsItsLobby, GoneIsOut, Released
<1>2. QED
  BY <1>1, SettledHolds, PTL
-----------------------------------------------------------------------------
(* Sessions that keep up. *)

Kinds == {"waiting", "race", "results"}
FollowKind(k, e) == Follow(Screen(k, None), e).kind

(* Handling the events q one after the other leads from a screen of kind k   *)
(* to one of kind last.                                                      *)
Leads(k, q, last) ==
  \E path \in [0..Len(q) -> Kinds] :
    /\ path[0] = k /\ path[Len(q)] = last
    /\ \A i \in 1..Len(q) : path[i] = FollowKind(path[i - 1], q[i])

LEMMA FollowKinds ==
  /\ \A k \in Kinds : \A e : FollowKind(k, e) \in Kinds
  /\ \A s : \A e : Follow(s, e).kind = FollowKind(s.kind, e)
  BY DEF FollowKind, Follow, Screen, Kinds

LEMMA LeadsNowhere == \A k \in Kinds : \A last : Leads(k, <<>>, last) <=> k = last
<1>1. Len(<<>>) = 0
  OBVIOUS
<1>2. ASSUME NEW k \in Kinds PROVE Leads(k, <<>>, k)
  <2> DEFINE path == [i \in 0..0 |-> k]
  <2>1. path \in [0..0 -> Kinds] /\ path[0] = k
    OBVIOUS
  <2>2. ~\E i \in Nat : i \in 1..0
    OBVIOUS
  <2> HIDE DEF path
  <2>3. QED
    BY <1>1, <2>1, <2>2 DEF Leads
<1>3. ASSUME NEW k, NEW last, Leads(k, <<>>, last) PROVE k = last
  BY <1>1, <1>3 DEF Leads
<1>4. QED
  BY <1>2, <1>3

LEMMA LeadsOn ==
  ASSUME NEW q \in Seq(Events), NEW k, NEW last, NEW e \in Events, Leads(k, q, last)
  PROVE  Leads(k, Append(q, e), FollowKind(last, e))
<1> DEFINE n == Len(q)
           r == Append(q, e)
<1>1. n \in Nat /\ Len(r) = n + 1 /\ r[n + 1] = e /\ \A i \in 1..n : r[i] = q[i]
  OBVIOUS
<1>2. PICK path \in [0..n -> Kinds] :
        /\ path[0] = k /\ path[n] = last
        /\ \A i \in 1..n : path[i] = FollowKind(path[i - 1], q[i])
  BY DEF Leads
<1> HIDE DEF n, r
<1> DEFINE longer == [i \in 0..(n + 1) |-> IF i = n + 1 THEN FollowKind(last, e) ELSE path[i]]
<1>3. last \in Kinds
  BY <1>1, <1>2
<1>4. longer \in [0..(n + 1) -> Kinds]
  <2>1. ASSUME NEW i \in 0..(n + 1) PROVE (IF i = n + 1 THEN FollowKind(last, e) ELSE path[i]) \in Kinds
    BY <1>1, <1>2, <1>3, FollowKinds
  <2>2. QED
    BY <2>1
<1>5. longer[0] = k /\ longer[n + 1] = FollowKind(last, e)
  BY <1>1, <1>2
<1>6. ASSUME NEW i \in 1..(n + 1) PROVE longer[i] = FollowKind(longer[i - 1], r[i])
  <2>1. CASE i = n + 1
    <3>1. longer[i] = FollowKind(last, e) /\ longer[i - 1] = path[n] /\ r[i] = e
      BY <1>1, <2>1
    <3> HIDE DEF longer
    <3>2. QED
      BY <1>2, <3>1
  <2>2. CASE i # n + 1
    <3>1. i \in 1..n /\ i - 1 \in 0..n /\ i - 1 # n + 1 /\ i \in 0..(n + 1) /\ i - 1 \in 0..(n + 1)
      BY <1>1, <2>2
    <3>2. longer[i] = path[i] /\ longer[i - 1] = path[i - 1] /\ r[i] = q[i]
      BY <1>1, <2>2, <3>1
    <3> HIDE DEF longer
    <3>3. QED
      BY <1>2, <3>1, <3>2
  <2>3. QED
    BY <2>1, <2>2
<1> HIDE DEF longer
<1>7. QED
  BY <1>1, <1>4, <1>5, <1>6 DEF Leads, r

LEMMA LeadsPast ==
  ASSUME NEW q \in Seq(Events), q # <<>>, NEW k, NEW last, Leads(k, q, last)
  PROVE  Leads(FollowKind(k, Head(q)), Tail(q), last)
<1> DEFINE n == Len(q)
           r == Tail(q)
<1>1. n \in Nat \ {0} /\ Len(r) = n - 1 /\ Head(q) = q[1] /\ \A i \in 1..(n - 1) : r[i] = q[i + 1]
  OBVIOUS
<1>2. PICK path \in [0..n -> Kinds] :
        /\ path[0] = k /\ path[n] = last
        /\ \A i \in 1..n : path[i] = FollowKind(path[i - 1], q[i])
  BY DEF Leads
<1> HIDE DEF n, r
<1> DEFINE rest == [i \in 0..(n - 1) |-> path[i + 1]]
<1>3. \A i \in 0..(n - 1) : i + 1 \in 0..n /\ i + 1 \in 1..n
  BY <1>1
<1>4. rest \in [0..(n - 1) -> Kinds]
  BY <1>2, <1>3
<1>5. rest[0] = path[1] /\ rest[n - 1] = path[n] /\ path[1] = FollowKind(k, Head(q))
  <2>1. 1 \in 1..n /\ 0 \in 0..(n - 1) /\ n - 1 \in 0..(n - 1) /\ 0 + 1 = 1 /\ n - 1 + 1 = n /\ 1 - 1 = 0
    BY <1>1
  <2>2. path[1] = FollowKind(path[0], q[1])
    BY <1>2, <2>1
  <2>3. QED
    BY <1>1, <1>2, <2>1, <2>2
<1>6. ASSUME NEW i \in 1..(n - 1) PROVE rest[i] = FollowKind(rest[i - 1], r[i])
  <2>1. i \in 0..(n - 1) /\ i - 1 \in 0..(n - 1) /\ i + 1 \in 1..n /\ i + 1 - 1 = i /\ i - 1 + 1 = i
    BY <1>1
  <2>2. path[i + 1] = FollowKind(path[i], q[i + 1])
    BY <1>2, <2>1
  <2>3. rest[i] = path[i + 1] /\ rest[i - 1] = path[i]
    BY <2>1
  <2> HIDE DEF rest
  <2>4. QED
    BY <1>1, <2>2, <2>3
<1> HIDE DEF rest
<1>7. QED
  BY <1>1, <1>2, <1>4, <1>5, <1>6 DEF Leads, r

(* The screen session p shows, or the one it is on its way to. *)
Heads(p, s) == IF navs[p] = EmptyBag THEN s = screen[p] ELSE navs[p] = SetToBag({s})

(* What the pump holds comes before what is in the buffer. *)
Pending(k, c) == IF held[c] = None THEN k ELSE FollowKind(k, held[c])

(* The events on their way to p lead it to the phase its lobby is in. *)
OnWay(p) ==
  LET l == ctxLobby[p]
      c == subs[l][p]
  IN session[p] = "running" /\ l # None =>
       \A s : Heads(p, s) => Leads(Pending(s.kind, c), queue[c], ScreenOf(phase[l]))

(* A session is in no lobby while events of the last one are on their way.   *)
OldDrained ==
  \A p \in Players, c \in Channels :
    session[p] = "running" /\ reader[c] = p /\ pump[c] = "closed" => ctxLobby[p] = None

FreeEmpty ==
  \A c \in Channels : pump[c] = "free" => queue[c] = <<>> /\ held[c] = None /\ reader[c] = None

SteadyInv == (\A p \in Players : OnWay(p)) /\ OldDrained /\ FreeEmpty

(* Event e tells the subscribers of a lobby in phase from that it is in to.  *)
Tells(from, e, to) == FollowKind(ScreenOf(from), e) = ScreenOf(to)

(* Session q of lobby l is sent nothing, or one event that tells what phase  *)
(* the lobby is in now.                                                      *)
Told(q, l) ==
  LET c == subs[l][q] IN
  \/ queue'[c] = queue[c] /\ phase'[l] = phase[l]
  \/ \E e \in Events : queue'[c] = Append(queue[c], e) /\ Tells(phase[l], e, phase'[l])

LEMMA HeadsOne ==
  ASSUME NEW p \in Players, NavsInv
  PROVE  /\ \E s : Heads(p, s)
         /\ \A s, t : Heads(p, s) /\ Heads(p, t) => s = t
<1>1. \A s, t : SetToBag({s}) = SetToBag({t}) => s = t
  <2>1. ASSUME NEW s, NEW t, SetToBag({s}) = SetToBag({t}) PROVE s = t
    <3>1. BagToSet(SetToBag({s})) = {s} /\ BagToSet(SetToBag({t})) = {t}
      BY NavBags
    <3>2. {s} = {t}
      BY <2>1, <3>1
    <3>3. QED
      BY <3>2
  <2>2. QED
    BY <2>1
<1>2. QED
  BY <1>1 DEF Heads, NavsInv

(* The channel of a session in a lobby is open and its own. *)
LEMMA OwnChannel ==
  ASSUME SessionsInv, KnowsItsLobby, NEW p \in Players, NEW l \in Lobbies, ctxLobby[p] = l
  PROVE  /\ subs[l][p] \in Channels /\ subs[l][p] # None /\ pump[subs[l][p]] = "open"
         /\ reader[subs[l][p]] = p /\ Live(l)
         /\ \A m \in Lobbies, q \in Players : subs[m][q] = subs[l][p] => m = l /\ q = p
<1>1. subs[l][p] # None
  BY DEF KnowsItsLobby
<1>2. subs[l][p] \in Channels
  BY <1>1 DEF SessionsInv, ChannelInv, ChannelTypes
<1>3. QED
  BY <1>1, <1>2 DEF SessionsInv, ChannelInv, ChannelsAgree

(* One more event for a session, and the phase it tells. *)
LEMMA OnWayTold ==
  ASSUME SessionsInv, NEW q \in Players, OnWay(q),
         session'[q] = "running" => session[q] = "running",
         ctxLobby'[q] = ctxLobby[q], navs'[q] = navs[q], screen'[q] = screen[q],
         ctxLobby[q] # None =>
           LET l == ctxLobby[q]
               c == subs[l][q]
           IN c \in Channels /\ subs'[l][q] = c /\ held'[c] = held[c] /\ Told(q, l)
  PROVE  OnWay(q)'
<1> DEFINE l == ctxLobby[q]
           c == subs[l][q]
<1>1. SUFFICES ASSUME session'[q] = "running", ctxLobby[q] # None, NEW s, Heads(q, s)'
               PROVE  Leads(Pending(s.kind, c)', queue'[c], ScreenOf(phase'[l]))
  BY DEF OnWay
<1>2. Heads(q, s)
  BY <1>1 DEF Heads
<1>3. Leads(Pending(s.kind, c), queue[c], ScreenOf(phase[l]))
  BY <1>1, <1>2 DEF OnWay
<1>4. Pending(s.kind, c)' = Pending(s.kind, c)
  BY <1>1 DEF Pending
<1>5. CASE queue'[c] = queue[c] /\ phase'[l] = phase[l]
  BY <1>3, <1>4, <1>5
<1>6. CASE \E e \in Events : queue'[c] = Append(queue[c], e) /\ Tells(phase[l], e, phase'[l])
  <2>1. queue[c] \in Seq(Events)
    BY <1>1 DEF SessionsInv, EventTypes
  <2>2. QED
    BY <1>3, <1>4, <1>6, <2>1, LeadsOn DEF Tells
<1>7. QED
  BY <1>1, <1>5, <1>6 DEF Told

(* A broadcast that finds room reaches every subscriber, and nobody else.    *)
LEMMA BroadcastTold ==
  ASSUME SessionsInv, KnowsItsLobby, NEW l \in Lobbies, NEW C,
         C \subseteq Subscribed(l), NEW e \in Events, NEW ph, Broadcast(C, e),
         phase' = [phase EXCEPT ![l] = ph],
         Tells(phase[l], e, ph),
         NEW q \in Players, NEW m \in Lobbies, ctxLobby[q] = m,
         m = l => subs[m][q] \in C /\ HasRoom(subs[m][q])
  PROVE  Told(q, m)
<1> DEFINE c == subs[m][q]
<1>1. /\ c \in Channels /\ c # None /\ pump[c] = "open"
      /\ \A n \in Lobbies, r \in Players : subs[n][r] = c => n = m /\ r = q
  BY OwnChannel
<1>2. phase \in [Lobbies -> Phases]
  BY DEF SessionsInv, RegistryInv, RegistryTypes
<1>3. CASE m = l
  <2>1. c \in C
    BY <1>3
  <2>2. Len(queue[c]) < Buffer
    BY <1>1, <1>3 DEF HasRoom
  <2>3. queue'[c] = Append(queue[c], e)
    BY <1>1, <2>1, <2>2 DEF Broadcast
  <2>4. Tells(phase[m], e, phase'[m])
    BY <1>2, <1>3
  <2>5. QED
    BY <2>3, <2>4 DEF Told
<1>4. CASE m # l
  <2>1. c \notin C
    BY <1>1, <1>4 DEF Subscribed
  <2>2. queue'[c] = queue[c]
    BY <1>1, <2>1 DEF Broadcast
  <2>3. phase'[m] = phase[m]
    BY <1>2, <1>4
  <2>4. QED
    BY <2>2, <2>3 DEF Told
<1>5. QED
  BY <1>3, <1>4

(* Only open channels are broadcast to. *)
LEMMA BroadcastFree ==
  ASSUME SessionsInv, NEW l \in Lobbies, NEW C, C \subseteq Subscribed(l),
         NEW e, Broadcast(C, e),
         NEW c \in Channels, pump[c] # "open"
  PROVE  queue'[c] = queue[c]
<1>1. c \notin C
  BY DEF Subscribed, SessionsInv, ChannelInv, ChannelsAgree
<1>2. QED
  BY <1>1 DEF Broadcast

LEMMA UpdatedTells == \A ph \in Phases \ {"Unborn", "Closed"} : Tells(ph, Updated(ph), ph)
  BY DEF Phases, Tells, FollowKind, Follow, Screen, ScreenOf, Updated

LEMMA TurnSteady ==
  ASSUME SessionsInv, KnowsItsLobby, SteadyInv, KeepUp, NEW l \in Lobbies, NEW ph,
         NEW e \in Events, Tells(phase[l], e, ph), Turn(l, ph, e)
  PROVE  SteadyInv'
<1>1. /\ Broadcast(Subscribed(l), e) /\ phase' = [phase EXCEPT ![l] = ph]
      /\ UNCHANGED <<subs, held, pump, reader, screen, navs, ctxLobby, session>>
  BY DEF Turn, screens
<1>2. ASSUME NEW q \in Players PROVE OnWay(q)'
  <2>1. CASE ctxLobby[q] = None
    BY <1>1, <2>1 DEF OnWay
  <2>2. CASE ctxLobby[q] # None
    <3>1. PICK m \in Lobbies : ctxLobby[q] = m
      BY <2>2 DEF SessionsInv, ScreenTypes
    <3>2. subs[m][q] \in Channels /\ (m = l => subs[m][q] \in Subscribed(l))
      BY <3>1, OwnChannel DEF Subscribed
    <3>3. Told(q, m)
      BY <1>1, <3>1, <3>2, BroadcastTold DEF KeepUp
    <3>4. OnWay(q)
      BY DEF SteadyInv
    <3>5. QED
      BY <1>1, <3>1, <3>2, <3>3, <3>4, OnWayTold
  <2>3. QED
    BY <2>1, <2>2
<1>3. OldDrained'
  BY <1>1 DEF SteadyInv, OldDrained
<1>4. FreeEmpty'
  <2>1. ASSUME NEW c \in Channels, pump[c] = "free" PROVE queue'[c] = queue[c]
    BY <1>1, <2>1, BroadcastFree
  <2>2. QED
    BY <1>1, <2>1 DEF SteadyInv, FreeEmpty
<1>5. QED
  BY <1>2, <1>3, <1>4 DEF SteadyInv

(* A session leaves its lobby: those who stay are told, and what is left on  *)
(* its own channel is of no interest once it is in no lobby.                 *)
LEMMA LeaveSteady ==
  ASSUME SessionsInv, KnowsItsLobby, SteadyInv, NEW p \in Players, OthersKeepUp(p),
         NEW l \in Lobbies, ctxLobby[p] = l, LeaveLobby(p, l),
         \A q \in Players : q # p => UNCHANGED <<screen[q], navs[q], session[q]>>
  PROVE  SteadyInv'
<1>1. p \in Members(l) /\ Leave(p, l)
  BY DEF KnowsItsLobby, LeaveLobby
<1>2. KnowsItsLobby' /\ \A q \in Players : ctxLobby'[q] = IF q = p THEN None ELSE ctxLobby[q]
  BY LeaveKnows
<1>3. UNCHANGED <<held, reader>> /\ Live(l)
  BY <1>1, NobodyInEmpty DEF Leave, SessionsInv, RegistryInv, OnlyLiveHavePlayers
<1>4. phase \in [Lobbies -> Phases]
  BY DEF SessionsInv, RegistryInv, RegistryTypes
<1>5. /\ \A c \in Channels : pump'[c] # pump[c] => pump'[c] = "closed" /\ c \in Subscribed(l)
      /\ \A c \in Channels : pump'[c] = "free" => pump[c] = "free"
      /\ order'[l] # <<>> => \A c \in Channels : pump'[c] # pump[c] => c = subs[l][p]
  <2>1. subs[l][p] \in Subscribed(l)
    BY OwnChannel DEF Subscribed
  <2>2. \/ order'[l] = <<>> /\ pump' = CloseSubs(Subscribed(l))
        \/ pump' = CloseSubs({subs[l][p]})
    BY <1>1 DEF Leave, CloseLobby
  <2>3. \A C : \A c \in Channels : CloseSubs(C)[c] = IF c \in C THEN "closed" ELSE pump[c]
    BY DEF CloseSubs
  <2>4. CASE order'[l] = <<>> /\ pump' = CloseSubs(Subscribed(l))
    BY <2>3, <2>4
  <2>5. CASE pump' = CloseSubs({subs[l][p]})
    BY <2>1, <2>3, <2>5
  <2>6. QED
    BY <2>2, <2>4, <2>5
<1>6. CASE order'[l] = <<>> /\ CloseLobby(p, l)
  <2>1. /\ phase' = [phase EXCEPT ![l] = "Closed"]
        /\ subs' = [subs EXCEPT ![l] = [q \in Players |-> None]]
        /\ UNCHANGED queue
    BY <1>6 DEF CloseLobby
  <2>2. \A q \in Players : ctxLobby'[q] # l
    <3>1. Members(l)' = {}
      BY <1>6, MembersAre DEF ToSet
    <3>2. QED
      BY <1>2, <3>1 DEF KnowsItsLobby
  <2>3. ASSUME NEW q \in Players PROVE OnWay(q)'
    <3>1. CASE ctxLobby'[q] = None
      BY <3>1 DEF OnWay
    <3>2. CASE ctxLobby'[q] # None
      <4>1. PICK m \in Lobbies : q # p /\ ctxLobby'[q] = m /\ ctxLobby[q] = m /\ m # l
        BY <1>2, <2>2, <3>2 DEF SessionsInv, ScreenTypes
      <4>2. subs[m][q] \in Channels
        BY <4>1, OwnChannel
      <4>3. Told(q, m) /\ subs'[m][q] = subs[m][q]
        BY <1>4, <2>1, <4>1 DEF SessionsInv, ChannelInv, ChannelTypes, Told
      <4>4. OnWay(q)
        BY DEF SteadyInv
      <4>5. QED
        BY <1>3, <2>1, <4>1, <4>2, <4>3, <4>4, OnWayTold
    <3>3. QED
      BY <3>1, <3>2
  <2>4. OldDrained'
    <3> SUFFICES ASSUME NEW q \in Players, NEW c \in Channels,
                        session'[q] = "running", reader[c] = q, pump'[c] = "closed"
                 PROVE  ctxLobby'[q] = None
      BY <1>3 DEF OldDrained
    <3>1. CASE q = p
      BY <1>2, <3>1
    <3>2. CASE q # p /\ pump[c] = "closed"
      BY <1>2, <3>2 DEF SteadyInv, OldDrained
    <3>3. CASE q # p /\ pump[c] # "closed"
      <4>1. PICK r \in Players : subs[l][r] = c /\ c # None
        BY <1>5, <3>3 DEF Subscribed
      <4>2. r = q
        BY <4>1 DEF SessionsInv, ChannelInv, ChannelsAgree
      <4>3. ctxLobby[q] = l
        BY <4>1, <4>2 DEF KnowsItsLobby
      <4>4. QED
        BY <1>2, <2>2, <3>3, <4>3
    <3>4. QED
      BY <3>1, <3>2, <3>3
  <2>5. FreeEmpty'
    BY <1>3, <1>5, <2>1 DEF SteadyInv, FreeEmpty
  <2>6. QED
    BY <2>3, <2>4, <2>5 DEF SteadyInv
<1>7. CASE /\ order'[l] # <<>>
           /\ \E ph \in PhasesAfterLeave(l) :
                /\ phase' = [phase EXCEPT ![l] = ph]
                /\ Broadcast(Subscribed(l) \ {subs[l][p]},
                             IF ph # phase[l] /\ ph = "Finished" THEN "ended" ELSE Updated(ph))
           /\ subs' = [subs EXCEPT ![l][p] = None]
  <2>1. PICK ph \in PhasesAfterLeave(l) :
                /\ phase' = [phase EXCEPT ![l] = ph]
                /\ Broadcast(Subscribed(l) \ {subs[l][p]},
                             IF ph # phase[l] /\ ph = "Finished" THEN "ended" ELSE Updated(ph))
    BY <1>7
  <2> DEFINE e == IF ph # phase[l] /\ ph = "Finished" THEN "ended" ELSE Updated(ph)
  <2>2. e \in Events
    BY UpdatedIsEvent DEF Events
  <2>3. Tells(phase[l], e, ph)
    <3>1. CASE ph = phase[l]
      BY <1>3, <1>4, <3>1, UpdatedTells DEF Live
    <3>2. CASE ph # phase[l] /\ phase[l] = "Countdown"
      BY <3>2, <2>1 DEF PhasesAfterLeave, Tells, FollowKind, Follow, Screen, ScreenOf, Updated
    <3>3. CASE ph # phase[l] /\ phase[l] = "Racing"
      BY <3>3, <2>1 DEF PhasesAfterLeave, Tells, FollowKind, Follow, Screen, ScreenOf, Updated
    <3>4. QED
      BY <2>1, <3>1, <3>2, <3>3 DEF PhasesAfterLeave
  <2>4. Broadcast(Subscribed(l) \ {subs[l][p]}, e)
    BY <2>1
  <2> HIDE DEF e
  <2>5. ASSUME NEW q \in Players PROVE OnWay(q)'
    <3>1. CASE ctxLobby'[q] = None
      BY <3>1 DEF OnWay
    <3>2. CASE ctxLobby'[q] # None
      <4>1. PICK m \in Lobbies : q # p /\ ctxLobby'[q] = m /\ ctxLobby[q] = m
        BY <1>2, <3>2 DEF SessionsInv, ScreenTypes
      <4>2. subs[m][q] \in Channels /\ subs[m][q] # subs[l][p]
        BY <4>1, OwnChannel
      <4>3. subs'[m][q] = subs[m][q]
        BY <1>7, <4>1 DEF SessionsInv, ChannelInv, ChannelTypes
      <4>4. OnWay(q)
        BY DEF SteadyInv
      <4>5. m = l => subs[m][q] \in Subscribed(l) \ {subs[l][p]} /\ HasRoom(subs[m][q])
        BY <4>1, <4>2, OwnChannel DEF Subscribed, OthersKeepUp
      <4>6. Told(q, m)
        BY <2>1, <2>2, <2>3, <2>4, <4>1, <4>5, BroadcastTold
      <4>7. QED
        BY <1>3, <4>1, <4>2, <4>3, <4>4, <4>6, OnWayTold
    <3>3. QED
      BY <3>1, <3>2
  <2>6. OldDrained'
    <3> SUFFICES ASSUME NEW q \in Players, NEW c \in Channels,
                        session'[q] = "running", reader[c] = q, pump'[c] = "closed"
                 PROVE  ctxLobby'[q] = None
      BY <1>3 DEF OldDrained
    <3>1. CASE q = p
      BY <1>2, <3>1
    <3>2. CASE q # p
      <4>1. reader[subs[l][p]] = p
        BY OwnChannel
      <4>2. pump[c] = "closed"
        BY <1>5, <1>7, <3>2, <4>1
      <4>3. QED
        BY <1>2, <3>2, <4>2 DEF SteadyInv, OldDrained
    <3>3. QED
      BY <3>1, <3>2
  <2>7. FreeEmpty'
    <3>1. ASSUME NEW c \in Channels, pump[c] = "free" PROVE queue'[c] = queue[c]
      BY <2>4, <3>1, BroadcastFree
    <3>2. QED
      BY <1>3, <1>5, <3>1 DEF SteadyInv, FreeEmpty
  <2>8. QED
    BY <2>5, <2>6, <2>7 DEF SteadyInv
<1>8. QED
  BY <1>1, <1>6, <1>7 DEF Leave

(* A session that is in no lobby and has handled what the last one sent      *)
(* starts with an empty channel, on its way to the waiting room.             *)
LEMMA EnterSteady ==
  ASSUME SessionsInv, SettledInv, SteadyInv, NEW p \in Players, NEW l \in Lobbies,
         ctxLobby[p] = None, Drained(p), Settled(p), Claim(p, l), Go(p, Screen("waiting", l)),
         phase'[l] = "Waiting", UNCHANGED <<held, screen, session>>,
         \A q \in Players, m \in Lobbies : ctxLobby[q] = m => Told(q, m),
         \A c \in Channels : pump[c] = "free" => queue'[c] = queue[c]
  PROVE  SteadyInv'
<1>0. l # None /\ None \notin Channels
  BY NoneAssumption
<1>1. ctxLobby' = [ctxLobby EXCEPT ![p] = l] /\ Subscribe(p, l)
  BY <1>0 DEF Claim, EnterLobby
<1>2. \A q \in Players : ctxLobby'[q] = IF q = p THEN l ELSE ctxLobby[q]
  BY <1>1 DEF SessionsInv, ScreenTypes
<1>3. PICK c \in Channels : /\ pump[c] = "free"
                            /\ subs' = [subs EXCEPT ![l][p] = c]
                            /\ pump' = [CloseSubs({subs[l][p]}) EXCEPT ![c] = "open"]
                            /\ reader' = [reader EXCEPT ![c] = p]
  BY <1>1 DEF Subscribe
<1>4. subs[l][p] = None
  BY <1>0 DEF SettledInv, KnowsItsLobby
<1>5. \A d \in Channels : /\ pump'[d] = IF d = c THEN "open" ELSE pump[d]
                         /\ reader'[d] = IF d = c THEN p ELSE reader[d]
  BY <1>0, <1>3, <1>4 DEF CloseSubs, SessionsInv, ChannelInv, ChannelTypes
<1>6. \A q \in Players, m \in Lobbies : subs'[m][q] = IF m = l /\ q = p THEN c ELSE subs[m][q]
  BY <1>3 DEF SessionsInv, ChannelInv, ChannelTypes
<1>7. \A q \in Players : navs'[q] = IF q = p THEN SetToBag({Screen("waiting", l)}) ELSE navs[q]
  BY GoFromRest, LobbyScreens DEF SessionsInv
<1>8. OnWay(p)'
  <2> SUFFICES ASSUME NEW s, Heads(p, s)'
               PROVE  Leads(Pending(s.kind, c)', queue'[c], ScreenOf(phase'[l]))
    BY <1>2, <1>6 DEF OnWay
  <2>1. SetToBag({Screen("waiting", l)}) = SetToBag({s})
    BY <1>7, NavBags DEF Heads
  <2>2. {Screen("waiting", l)} = {s}
    BY <2>1, NavBags
  <2>3. s.kind = "waiting"
    BY <2>2 DEF Screen
  <2>4. queue'[c] = <<>> /\ held'[c] = None
    BY <1>3 DEF SteadyInv, FreeEmpty
  <2>5. Pending(s.kind, c)' = "waiting"
    BY <2>3, <2>4 DEF Pending
  <2>6. ScreenOf(phase'[l]) = "waiting" /\ "waiting" \in Kinds
    BY DEF ScreenOf, Kinds
  <2>7. QED
    BY <2>4, <2>5, <2>6, LeadsNowhere
<1>9. ASSUME NEW q \in Players, q # p PROVE OnWay(q)'
  <2>1. CASE ctxLobby[q] = None
    BY <1>2, <1>9, <2>1 DEF OnWay
  <2>2. CASE ctxLobby[q] # None
    <3>1. PICK m \in Lobbies : ctxLobby[q] = m
      BY <2>2 DEF SessionsInv, ScreenTypes
    <3>2. subs[m][q] \in Channels
      BY <3>1, OwnChannel DEF SettledInv
    <3>3. OnWay(q) /\ Told(q, m)
      BY <3>1 DEF SteadyInv
    <3>4. ctxLobby'[q] = ctxLobby[q] /\ navs'[q] = navs[q] /\ subs'[m][q] = subs[m][q]
      BY <1>2, <1>6, <1>7, <1>9
    <3>5. QED
      BY <3>1, <3>2, <3>3, <3>4, OnWayTold
  <2>3. QED
    BY <2>1, <2>2
<1>10. OldDrained'
  <2> SUFFICES ASSUME NEW q \in Players, NEW d \in Channels,
                      session[q] = "running", reader'[d] = q, pump'[d] = "closed"
               PROVE  ctxLobby'[q] = None
    BY DEF OldDrained
  <2>1. d # c /\ reader[d] = q /\ pump[d] = "closed"
    BY <1>5
  <2>2. q # p
    BY <2>1 DEF Drained
  <2>3. QED
    BY <1>2, <2>1, <2>2 DEF SteadyInv, OldDrained
<1>11. FreeEmpty'
  BY <1>5 DEF SteadyInv, FreeEmpty
<1>12. QED
  BY <1>8, <1>9, <1>10, <1>11 DEF SteadyInv

(* Nothing was sent and nobody moved but, perhaps, one session: to another   *)
(* screen that is about no lobby, or out of its program.                     *)
LEMMA SteadyKept ==
  ASSUME SessionsInv, SettledInv, SteadyInv, UNCHANGED <<phase, subs, channels, ctxLobby>>,
         \A q \in Players : session'[q] = "running" => session[q] = "running",
         \A q \in Players : session'[q] = "running" /\ ctxLobby[q] # None =>
           \A s : Heads(q, s)' => Heads(q, s)
  PROVE  SteadyInv'
<1>1. ASSUME NEW q \in Players PROVE OnWay(q)'
  <2> SUFFICES ASSUME session'[q] = "running", ctxLobby[q] # None, NEW s, Heads(q, s)'
               PROVE  LET l == ctxLobby[q]
                          c == subs[l][q]
                      IN  Leads(Pending(s.kind, c)', queue[c], ScreenOf(phase[l]))
    BY DEF OnWay, channels
  <2>1. Heads(q, s) /\ session[q] = "running" /\ OnWay(q)
    BY DEF SteadyInv
  <2>2. \A c : Pending(s.kind, c)' = Pending(s.kind, c)
    BY DEF Pending, channels
  <2>3. QED
    BY <2>1, <2>2 DEF OnWay
<1>2. QED
  BY <1>1 DEF SteadyInv, OldDrained, FreeEmpty, channels

LEMMA KeySteady ==
  ASSUME SessionsInv, SettledInv, SteadyInv, KeepUp, NEW p \in Players,
         Settled(p), Drained(p), Key(p)
  PROVE  SteadyInv'
<1>0. phase \in [Lobbies -> Phases]
  BY DEF SessionsInv, RegistryInv, RegistryTypes
<1>1. At(p, "browser") => ctxLobby[p] = None
  <2>1. SUFFICES ASSUME At(p, "browser") PROVE ctxLobby[p] = None
    OBVIOUS
  <2>2. session[p] = "running" /\ screen[p].kind = "browser" /\ screen[p] \in Screens
    BY <2>1 DEF At, Running, SessionsInv, ScreenTypes
  <2>3. screen[p].lobby = None
    BY <2>2 DEF Screens, Screen, Browser
  <2>4. QED
    BY <2>2, <2>3 DEF SettledInv, Heading, Settled
<1>2. CASE Create(p)
  <2>1. PICK l \in Lobbies : /\ phase[l] = "Unborn"
                             /\ phase' = [phase EXCEPT ![l] = "Waiting"]
                             /\ Claim(p, l) /\ Go(p, Screen("waiting", l))
    BY <1>2 DEF Create
  <2>2. ctxLobby[p] = None /\ UNCHANGED <<queue, held, screen, session>>
    BY <1>1, <1>2 DEF Create
  <2>3. phase'[l] = "Waiting"
    BY <1>0, <2>1
  <2>4. ASSUME NEW q \in Players, NEW m \in Lobbies, ctxLobby[q] = m PROVE Told(q, m)
    <3>1. m # l
      BY <2>1, <2>4, OwnChannel DEF Live, SettledInv
    <3>2. QED
      BY <1>0, <2>1, <2>2, <3>1 DEF Told
  <2>5. QED
    BY <2>1, <2>2, <2>3, <2>4, EnterSteady
<1>3. CASE Join(p)
  <2>1. PICK l \in Lobbies : /\ \/ p \in Members(l)
                                \/ phase[l] = "Waiting" /\ Broadcast(Subscribed(l), "waiting")
                             /\ Claim(p, l) /\ Go(p, Screen("waiting", l))
    BY <1>3 DEF Join, SessionsInv, RegistryInv, RegistryTypes
  <2>2. ctxLobby[p] = None /\ UNCHANGED <<phase, held, screen, session>>
    BY <1>1, <1>3 DEF Join
  <2>3. phase[l] = "Waiting" /\ Broadcast(Subscribed(l), "waiting")
    BY <2>1, <2>2, NoneAssumption DEF SettledInv, KnowsItsLobby
  <2>4. phase' = [phase EXCEPT ![l] = "Waiting"] /\ phase'[l] = "Waiting"
    BY <1>0, <2>2, <2>3
  <2>5. "waiting" \in Events /\ Tells(phase[l], "waiting", "Waiting")
    BY <2>3 DEF Events, Tells, FollowKind, Follow, Screen, ScreenOf
  <2>6. ASSUME NEW q \in Players, NEW m \in Lobbies, ctxLobby[q] = m PROVE Told(q, m)
    <3>1. m = l => subs[m][q] \in Subscribed(l) /\ HasRoom(subs[m][q])
      BY <2>6, OwnChannel DEF Subscribed, SettledInv, KeepUp
    <3>2. QED
      BY <2>3, <2>4, <2>5, <2>6, <3>1, BroadcastTold DEF SettledInv, KeepUp
  <2>7. \A c \in Channels : pump[c] = "free" => queue'[c] = queue[c]
    BY <2>3, BroadcastFree
  <2>8. QED
    BY <2>1, <2>2, <2>4, <2>6, <2>7, EnterSteady
<1>4. CASE Wander(p)
  <2>1. /\ UNCHANGED <<phase, subs, channels, ctxLobby, screen, session>>
        /\ \A q \in Players : q # p => navs'[q] = navs[q]
    BY <1>4 DEF Wander, Go, lobbies, SessionsInv, ScreenTypes
  <2>2. ctxLobby[p] = None
    BY <1>1, <1>4 DEF Wander
  <2>3. QED
    BY <2>1, <2>2, SteadyKept DEF Heads
<1>5. CASE Escape(p)
  <2>1. PICK l \in Lobbies : screen[p].lobby = l
    BY <1>5, LobbyScreens DEF Escape, SessionsInv, ScreenTypes
  <2>2. ctxLobby[p] = l /\ LeaveLobby(p, l)
    BY <1>5, <2>1 DEF Escape, Running, SettledInv, Heading, Settled
  <2>3. \A q \in Players : q # p => UNCHANGED <<screen[q], navs[q], session[q]>>
    BY <1>5 DEF Escape, Go, SessionsInv, ScreenTypes
  <2>4. QED
    BY <2>2, <2>3, LeaveSteady DEF SettledInv, KeepUp, OthersKeepUp
<1>6. CASE SetReady(p) \/ Start(p) \/ Rematch(p)
  <2>1. PICK l \in Lobbies : screen[p].lobby = l
    <3>1. screen[p].kind \in {"waiting", "results"}
      BY <1>6 DEF SetReady, Start, Rematch, At
    <3>2. Browser.kind = "browser"
      BY DEF Browser, Screen
    <3>3. QED
      BY <3>1, <3>2, LobbyScreens DEF SessionsInv, ScreenTypes
  <2>2. \E ph : \E e \in Events : Tells(phase[l], e, ph) /\ Turn(l, ph, e)
    <3>1. "waiting" \in Events /\ "news" \in Events
      BY DEF Events
    <3>2. /\ Tells("Waiting", "waiting", "Waiting")
          /\ Tells("Waiting", "news", "Countdown")
          /\ Tells("Finished", "waiting", "Waiting")
      BY DEF Tells, FollowKind, Follow, Screen, ScreenOf
    <3>3. CASE SetReady(p)
      BY <2>1, <3>1, <3>2, <3>3 DEF SetReady
    <3>4. CASE Start(p)
      BY <2>1, <3>1, <3>2, <3>4 DEF Start
    <3>5. CASE Rematch(p)
      BY <2>1, <3>1, <3>2, <3>5 DEF Rematch
    <3>6. QED
      BY <1>6, <3>3, <3>4, <3>5
  <2>3. QED
    BY <2>2, TurnSteady DEF SettledInv
<1>7. QED
  BY <1>2, <1>3, <1>4, <1>5, <1>6 DEF Key

(* The loop goes where the event it handles leads. *)
LEMMA HandleSteady ==
  ASSUME SessionsInv, SettledInv, SteadyInv, NEW p \in Players, NEW c \in Channels,
         Settled(p), Handle(p, c)
  PROVE  SteadyInv'
<1>1. /\ session[p] = "running" /\ reader[c] = p /\ held[c] # None
      /\ UNCHANGED <<phase, subs, queue, pump, reader, screen, ctxLobby, session>>
      /\ held' = [held EXCEPT ![c] = None]
  BY DEF Handle, Running, lobbies
<1>2. \A d \in Channels : held'[d] = IF d = c THEN None ELSE held[d]
  BY <1>1 DEF SessionsInv, EventTypes
<1>s. PICK s : s = Follow(screen[p], held[c])
  OBVIOUS
<1>3. s \in Screens /\ s.kind = FollowKind(screen[p].kind, held[c])
  BY <1>s, FollowStays, FollowKinds DEF SessionsInv, ScreenTypes
<1>4. IF s = screen[p] THEN UNCHANGED navs ELSE Go(p, s)
  BY <1>s DEF Handle
<1>5. \A t : Heads(p, t)' => t = s
  <2> SUFFICES ASSUME NEW t, Heads(p, t)' PROVE t = s
    OBVIOUS
  <2>1. CASE s = screen[p]
    BY <1>1, <1>4, <2>1 DEF Heads, Settled
  <2>2. CASE s # screen[p]
    <3>1. navs'[p] = SetToBag({s})
      BY <1>3, <1>4, <2>2, GoFromRest DEF SessionsInv
    <3>2. SetToBag({s}) = SetToBag({t})
      BY <3>1, NavBags DEF Heads
    <3>3. {s} = {t}
      BY <3>2, NavBags
    <3>4. QED
      BY <3>3
  <2>3. QED
    BY <2>1, <2>2
<1>6. \A q \in Players : q # p => navs'[q] = navs[q]
  BY <1>4 DEF Go, SessionsInv, ScreenTypes
<1>7. OnWay(p)'
  <2>1. CASE ctxLobby[p] = None
    BY <1>1, <2>1 DEF OnWay
  <2>2. CASE ctxLobby[p] # None
    <3>1. PICK l \in Lobbies : ctxLobby[p] = l
      BY <2>2 DEF SessionsInv, ScreenTypes
    <3>2. pump[c] = "open"
      <4>1. pump[c] # "closed"
        BY <1>1, <2>2 DEF SteadyInv, OldDrained
      <4>2. pump[c] # "free"
        BY <1>1 DEF SteadyInv, FreeEmpty
      <4>3. QED
        BY <4>1, <4>2 DEF SessionsInv, ChannelInv, ChannelTypes
    <3>3. c # None
      BY NoneAssumption
    <3>4. PICK m \in Lobbies, q \in Players : subs[m][q] = c
      BY <3>2 DEF SessionsInv, ChannelInv, ChannelsAgree
    <3>5. q = p
      BY <1>1, <3>3, <3>4 DEF SessionsInv, ChannelInv, ChannelsAgree
    <3>6. subs[l][p] = c
      BY <3>1, <3>3, <3>4, <3>5 DEF SettledInv, KnowsItsLobby
    <3>7. Leads(Pending(screen[p].kind, c), queue[c], ScreenOf(phase[l]))
      BY <1>1, <3>1, <2>2, <3>6 DEF SteadyInv, OnWay, Heads, Settled
    <3>8. Pending(screen[p].kind, c) = s.kind
      BY <1>1, <1>3 DEF Pending
    <3>9. Pending(s.kind, c)' = s.kind
      BY <1>2 DEF Pending
    <3>10. ASSUME NEW t, Heads(p, t)'
           PROVE  Leads(Pending(t.kind, c)', queue'[c], ScreenOf(phase'[l]))
      <4>1. t = s
        BY <1>5, <3>10
      <4>2. QED
        BY <1>1, <3>7, <3>8, <3>9, <4>1
    <3>11. QED
      BY <1>1, <3>1, <3>6, <3>10 DEF OnWay
  <2>3. QED
    BY <2>1, <2>2
<1>8. ASSUME NEW q \in Players, q # p PROVE OnWay(q)'
  <2>1. CASE ctxLobby[q] = None
    BY <1>1, <2>1 DEF OnWay
  <2>2. CASE ctxLobby[q] # None
    <3>1. PICK m \in Lobbies : ctxLobby[q] = m
      BY <2>2 DEF SessionsInv, ScreenTypes
    <3>2. subs[m][q] \in Channels /\ subs[m][q] # c
      BY <1>1, <1>8, <3>1, OwnChannel DEF SettledInv
    <3>3. held'[subs[m][q]] = held[subs[m][q]] /\ Told(q, m)
      BY <1>1, <1>2, <3>2 DEF Told
    <3>4. OnWay(q)
      BY DEF SteadyInv
    <3>5. QED
      BY <1>1, <1>6, <1>8, <3>1, <3>2, <3>3, <3>4, OnWayTold
  <2>3. QED
    BY <2>1, <2>2
<1>9. OldDrained' /\ FreeEmpty'
  BY <1>1, <1>2 DEF SteadyInv, OldDrained, FreeEmpty
<1>10. QED
  BY <1>7, <1>8, <1>9 DEF SteadyInv

LEMMA PumpSteady ==
  ASSUME SessionsInv, SettledInv, SteadyInv, NEW c \in Channels, Pump(c)
  PROVE  SteadyInv'
<1>1. UNCHANGED <<phase, subs, screen, navs, ctxLobby, session>>
  BY DEF Pump, PumpTake, PumpDrop, PumpExit, lobbies, screens
<1>2. \A q \in Players : \A s : Heads(q, s)' <=> Heads(q, s)
  BY <1>1 DEF Heads
(* A channel that is not c, or that nobody uses any more, is as it was. *)
<1>3. ASSUME NEW q \in Players, NEW m \in Lobbies, ctxLobby[q] = m, subs[m][q] # c,
             \A d \in Channels \ {c} : held'[d] = held[d] /\ queue'[d] = queue[d]
      PROVE  OnWay(q)'
  <2>1. subs[m][q] \in Channels \ {c}
    BY <1>3, OwnChannel DEF SettledInv
  <2>2. held'[subs[m][q]] = held[subs[m][q]] /\ Told(q, m)
    BY <1>1, <1>3, <2>1 DEF Told
  <2>3. OnWay(q)
    BY DEF SteadyInv
  <2>4. QED
    BY <1>1, <1>3, <2>1, <2>2, <2>3, OnWayTold
<1>4. \A q \in Players : ctxLobby[q] = None => OnWay(q)'
  BY <1>1 DEF OnWay
<1>5. CASE PumpTake(c)
  <2>1. /\ pump[c] # "free" /\ held[c] = None /\ queue[c] # <<>> /\ queue[c] \in Seq(Events)
        /\ held' = [held EXCEPT ![c] = Head(queue[c])]
        /\ queue' = [queue EXCEPT ![c] = Tail(queue[c])]
        /\ UNCHANGED <<pump, reader>>
    BY <1>5 DEF PumpTake, SessionsInv, EventTypes
  <2>2. \A d \in Channels \ {c} : held'[d] = held[d] /\ queue'[d] = queue[d]
    BY <2>1
  <2>3. held'[c] = Head(queue[c]) /\ queue'[c] = Tail(queue[c]) /\ held'[c] # None
    <3>1. held'[c] = Head(queue[c]) /\ queue'[c] = Tail(queue[c])
      BY <2>1 DEF SessionsInv, EventTypes
    <3>2. Head(queue[c]) \in Events
      BY <2>1
    <3>3. QED
      BY <3>1, <3>2, EventAssumption
  <2>4. ASSUME NEW q \in Players, NEW m \in Lobbies, ctxLobby[q] = m, subs[m][q] = c
        PROVE  OnWay(q)'
    <3> SUFFICES ASSUME session[q] = "running", ctxLobby[q] # None, NEW s, Heads(q, s)
                 PROVE  Leads(Pending(s.kind, c)', queue'[c], ScreenOf(phase'[m]))
      BY <1>1, <1>2, <2>4 DEF OnWay
    <3>1. Leads(Pending(s.kind, c), queue[c], ScreenOf(phase[m]))
      BY <2>4 DEF SteadyInv, OnWay
    <3>2. Pending(s.kind, c) = s.kind
      BY <2>1 DEF Pending
    <3>3. Pending(s.kind, c)' = FollowKind(s.kind, Head(queue[c]))
      BY <2>3 DEF Pending
    <3>4. Leads(FollowKind(s.kind, Head(queue[c])), Tail(queue[c]), ScreenOf(phase[m]))
      BY <2>1, <3>1, <3>2, LeadsPast
    <3>5. QED
      BY <1>1, <2>3, <3>3, <3>4
  <2>5. ASSUME NEW q \in Players PROVE OnWay(q)'
    <3>1. CASE ctxLobby[q] # None
      BY <1>3, <2>2, <2>4, <3>1 DEF SessionsInv, ScreenTypes
    <3>2. QED
      BY <1>4, <3>1
  <2>6. OldDrained' /\ FreeEmpty'
    BY <1>1, <2>1, <2>2 DEF SteadyInv, OldDrained, FreeEmpty
  <2>7. QED
    BY <2>5, <2>6 DEF SteadyInv
<1>6. CASE PumpDrop(c)
  <2>1. /\ session[reader[c]] # "running" /\ held' = [held EXCEPT ![c] = None]
        /\ UNCHANGED <<queue, pump, reader>>
    BY <1>6 DEF PumpDrop
  <2>2. \A d \in Channels : held'[d] = IF d = c THEN None ELSE held[d]
    BY <2>1 DEF SessionsInv, EventTypes
  <2>3. ASSUME NEW q \in Players PROVE OnWay(q)'
    <3>1. CASE session[q] # "running"
      BY <1>1, <3>1 DEF OnWay
    <3>2. CASE session[q] = "running" /\ ctxLobby[q] # None
      <4>1. PICK m \in Lobbies : ctxLobby[q] = m
        BY <3>2 DEF SessionsInv, ScreenTypes
      <4>2. subs[m][q] # c
        BY <2>1, <3>2, <4>1, OwnChannel DEF SettledInv
      <4>3. QED
        BY <1>3, <2>1, <2>2, <4>1, <4>2
    <3>3. QED
      BY <1>4, <3>1, <3>2
  <2>4. OldDrained' /\ FreeEmpty'
    BY <1>1, <2>1, <2>2 DEF SteadyInv, OldDrained, FreeEmpty
  <2>5. QED
    BY <2>3, <2>4 DEF SteadyInv
<1>7. CASE PumpExit(c)
  <2>1. /\ pump[c] = "closed" /\ queue[c] = <<>> /\ held[c] = None
        /\ pump' = [pump EXCEPT ![c] = "free"] /\ reader' = [reader EXCEPT ![c] = None]
        /\ UNCHANGED <<queue, held>>
    BY <1>7 DEF PumpExit
  <2>2. \A d \in Channels : /\ pump'[d] = IF d = c THEN "free" ELSE pump[d]
                           /\ reader'[d] = IF d = c THEN None ELSE reader[d]
    BY <2>1 DEF SessionsInv, ChannelInv, ChannelTypes
  <2>3. ASSUME NEW q \in Players PROVE OnWay(q)'
    <3>1. CASE ctxLobby[q] # None
      <4>1. PICK m \in Lobbies : ctxLobby[q] = m
        BY <3>1 DEF SessionsInv, ScreenTypes
      <4>2. subs[m][q] # c
        BY <2>1, <4>1, OwnChannel DEF SettledInv
      <4>3. QED
        BY <1>3, <2>1, <4>1, <4>2
    <3>2. QED
      BY <1>4, <3>1
  <2>4. OldDrained' /\ FreeEmpty'
    BY <1>1, <2>1, <2>2 DEF SteadyInv, OldDrained, FreeEmpty
  <2>5. QED
    BY <2>3, <2>4 DEF SteadyInv
<1>8. QED
  BY <1>5, <1>6, <1>7 DEF Pump

LEMMA SilentSteady ==
  ASSUME SessionsInv, SettledInv, SteadyInv, Silent
  PROVE  SteadyInv'
<1>1. ASSUME NEW p \in Players, Navigate(p) PROVE SteadyInv'
  <2>1. /\ UNCHANGED <<lobbies, channels, ctxLobby, session>>
        /\ \E s \in Screens :
              /\ navs[p] = SetToBag({s})
              /\ \A q \in Players : navs'[q] = IF q = p THEN EmptyBag ELSE navs[q]
              /\ \A q \in Players : screen'[q] = IF q = p THEN s ELSE screen[q]
    BY <1>1, SettledNavigate
  <2>2. \A q \in Players : \A s : Heads(q, s)' => Heads(q, s)
    BY <2>1, NavBags DEF Heads
  <2>3. QED
    BY <2>1, <2>2, SteadyKept DEF lobbies
<1>2. ASSUME NEW p \in Players, Unregister(p) PROVE SteadyInv'
  BY <1>2, SteadyKept DEF Unregister, screens, Heads
<1>3. ASSUME NEW p \in Players, Stop(p) PROVE SteadyInv'
  <2>1. /\ UNCHANGED <<lobbies, channels, screen, ctxLobby>>
        /\ \A q \in Players : session'[q] = IF q = p THEN "stopped" ELSE session[q]
        /\ \A q \in Players : q # p => navs'[q] = navs[q]
    BY <1>3 DEF Stop, SessionsInv, ScreenTypes, EventTypes
  <2>2. QED
    BY <2>1, SteadyKept DEF lobbies, Heads
<1>4. QED
  BY <1>1, <1>2, <1>3, PumpSteady DEF Silent

LEMMA SteadyStep ==
  ASSUME SessionsInv, SettledInv, SteadyInv, [SteadyNext]_sessionVars
  PROVE  SteadyInv'
<1>0. phase \in [Lobbies -> Phases]
  BY DEF SessionsInv, RegistryInv, RegistryTypes
<1>1. ASSUME NEW p \in Players, OthersKeepUp(p), Disconnect(p) PROVE SteadyInv'
  <2>1. /\ UNCHANGED <<screen, navs>>
        /\ \A q \in Players : session'[q] = IF q = p THEN "gone" ELSE session[q]
    BY <1>1 DEF Disconnect, SessionsInv, EventTypes
  <2>2. CASE ctxLobby[p] = None /\ UNCHANGED <<lobbies, channels, ctxLobby>>
    BY <2>1, <2>2, SteadyKept DEF lobbies, Heads
  <2>3. CASE ctxLobby[p] # None /\ LeaveLobby(p, ctxLobby[p])
    <3>1. PICK l \in Lobbies : ctxLobby[p] = l
      BY <2>3 DEF SessionsInv, ScreenTypes
    <3>2. QED
      BY <1>1, <2>1, <2>3, <3>1, LeaveSteady DEF SettledInv
  <2>4. QED
    BY <1>1, <2>2, <2>3 DEF Disconnect
<1>2. ASSUME NEW l \in Lobbies, KeepUp, Race(l) \/ News(l) PROVE SteadyInv'
  <2>1. "started" \in Events /\ "ended" \in Events
    BY DEF Events
  <2>2. Tells("Countdown", "started", "Racing") /\ Tells("Racing", "ended", "Finished")
    BY DEF Tells, FollowKind, Follow, Screen, ScreenOf
  <2>3. Live(l) => Tells(phase[l], Updated(phase[l]), phase[l])
    BY <1>0, UpdatedTells DEF Live
  <2>4. \E ph : \E e \in Events : Tells(phase[l], e, ph) /\ Turn(l, ph, e)
    BY <1>2, <2>1, <2>2, <2>3, UpdatedIsEvent DEF Race, Open, End, News
  <2>5. QED
    BY <1>2, <2>4, TurnSteady DEF SettledInv
<1>3. CASE UNCHANGED sessionVars
  BY <1>3, SteadyKept DEF sessionVars, lobbies, screens, Heads
<1>4. QED
  BY <1>1, <1>2, <1>3, SilentSteady, HandleSteady, KeySteady DEF SteadyNext

LEMMA SteadyInit == SessionsInit => SteadyInv
  BY DEF SessionsInit, SteadyInv, OnWay, OldDrained, FreeEmpty

LEMMA SteadyIsSettled == [SteadyNext]_sessionVars => [SettledNext]_sessionVars
  BY DEF SteadyNext, SettledNext

LEMMA SteadyHolds == SteadySpec => [](SessionsInv /\ SettledInv /\ SteadyInv)
<1> DEFINE Inv == SessionsInv /\ SettledInv /\ SteadyInv
<1>1. SessionsInit => Inv
  BY SessionsInvInit, SettledInit, SteadyInit
<1>2. Inv /\ [SteadyNext]_sessionVars => Inv'
  BY SessionsInvStep, SettledStep, SteadyStep, SteadyIsSettled, SettledIsSessions
<1>3. QED
  BY <1>1, <1>2, PTL DEF SteadySpec

(***************************************************************************)
(* Under three assumptions the code does not enforce (a navigation arrives  *)
(* before the next key or event, nobody enters a lobby before the pump of   *)
(* the last one has ended, and every broadcast finds room), a session that  *)
(* has handled all it was sent shows its own lobby in the phase the lobby   *)
(* is in, whatever the others pressed while the events were on their way    *)
(* (waiting.go, race.go, raceresults.go: Update).                           *)
(***************************************************************************)
THEOREM InStepTheorem == SteadySpec => []InStep
<1>1. ASSUME SessionsInv, SettledInv, SteadyInv, NEW p \in Players, Quiet(p)
      PROVE  ShowsItsLobby(p)
  <2>1. session[p] = "running" /\ navs[p] = EmptyBag /\ screen[p] \in Screens
    BY <1>1 DEF Quiet, Running, Settled, SessionsInv, ScreenTypes
  <2>2. screen[p].lobby = ctxLobby[p]
    BY <1>1, <2>1 DEF SettledInv, Heading
  <2>3. CASE ctxLobby[p] = None
    BY <2>1, <2>2, <2>3, NoneAssumption DEF ShowsItsLobby, Screens, Screen, Browser
  <2>4. CASE ctxLobby[p] # None
    <3>1. PICK l \in Lobbies : ctxLobby[p] = l
      BY <1>1, <2>4 DEF SessionsInv, ScreenTypes
    <3> DEFINE c == subs[l][p]
    <3>2. c \in Channels /\ reader[c] = p
      BY <1>1, <3>1, OwnChannel DEF SettledInv
    <3>3. queue[c] = <<>> /\ held[c] = None
      BY <1>1, <3>2 DEF Quiet
    <3>4. Leads(Pending(screen[p].kind, c), queue[c], ScreenOf(phase[l]))
      BY <1>1, <2>1, <2>4, <3>1 DEF SteadyInv, OnWay, Heads
    <3>5. screen[p].kind \in Kinds /\ screen[p] = Screen(screen[p].kind, l)
      BY <2>1, <2>2, <2>4, <3>1 DEF Screens, Screen, Browser, Kinds
    <3>6. screen[p].kind = ScreenOf(phase[l])
      BY <3>3, <3>4, <3>5, LeadsNowhere DEF Pending
    <3>7. QED
      BY <2>4, <3>1, <3>5, <3>6 DEF ShowsItsLobby
  <2>5. QED
    BY <2>3, <2>4
<1>2. SessionsInv /\ SettledInv /\ SteadyInv => InStep
  BY <1>1 DEF InStep
<1>3. QED
  BY <1>2, SteadyHolds, PTL

=============================================================================
