------------------------------ MODULE Sessions ------------------------------
(***************************************************************************)
(* SSH sessions around the registry of lobbies: which lobby a session is    *)
(* in, the events it is sent and the screen it shows (internal/ui,          *)
(* internal/lobby/lobby.go).                                                *)
(*                                                                         *)
(* A session's update loop handles one message at a time: a key, an event   *)
(* its pump hands over, or a navigation.  navigate() is a command: another  *)
(* goroutine delivers the navigateMsg, so keys and events may be handled    *)
(* before it and navigations in either order.                               *)
(*                                                                         *)
(* Lobbies go through the cycle of RaceCycle.tla, which Lobby.tla shows to  *)
(* be what they do, with readiness and a host, and without places.  Menus,  *)
(* practice, profile, shop and the browser are one screen, "browser": none  *)
(* of them handles events or is in a lobby.                                 *)
(***************************************************************************)
EXTENDS Naturals, Sequences, FiniteSets, Bags, SequencesExt

CONSTANTS
  Players,   \* the sessions, by their PlayerID
  Lobbies,   \* the lobby objects there may ever be
  Codes,     \* the join codes
  Channels,  \* the event channels, each with its pump: a finite pool in TLC
  Buffer,    \* lobby.go: subscriberBuffer
  MaxNavs,   \* bound on the navigations a session has under way
  None       \* no lobby, code, channel or event

ASSUME NoneAssumption == None \notin Players \cup Lobbies \cup Codes \cup Channels
ASSUME RoomAssumption == Buffer \in Nat \ {0} /\ MaxNavs \in Nat \ {0}

VARIABLES
  phase,     \* of each lobby: Unborn before Create, Closed once l.closed
  order,     \* l.order, the players in it
  ready,     \* the players with player.ready
  subs,      \* l.subs
  code,      \* l.code
  registry,  \* Store.lobbies
  removing,  \* the lobby a session closed and has yet to drop from the store
  queue,     \* of each channel: the events buffered
  held,      \* the event its pump has received and is sending to the program
  pump,      \* open, closed, or free: the channel is closed, its pump gone
  reader,    \* whose channel it is
  screen,    \* the active screen of each session and its lobby
  navs,      \* the navigations under way
  ctxLobby,  \* Context.lobby
  session    \* running, stopped (the program has ended) or gone (cleaned up)

lobbies == <<phase, order, ready, subs, code, registry, removing>>
channels == <<queue, held, pump, reader>>
screens == <<screen, navs, ctxLobby, session>>
sessionVars == <<lobbies, channels, screens>>

Phases == {"Unborn", "Waiting", "Countdown", "Racing", "Finished", "Closed"}

(***************************************************************************)
(* started: RaceStarted.  ended: RaceEnded.  waiting: LobbyUpdated with a   *)
(* snapshot in PhaseWaiting.  news: every other event.  What screens do     *)
(* depends on no more.                                                      *)
(***************************************************************************)
Events == {"started", "ended", "waiting", "news"}

ASSUME EventAssumption == None \notin Events

Screen(kind, l) == [kind |-> kind, lobby |-> l]
Browser == Screen("browser", None)
Screens == {Browser} \cup {Screen(k, l) : k \in {"waiting", "race", "results"}, l \in Lobbies}

SessionsTypeOK ==
  /\ phase \in [Lobbies -> Phases]
  /\ order \in [Lobbies -> Seq(Players)]
  /\ ready \in [Lobbies -> SUBSET Players]
  /\ subs \in [Lobbies -> [Players -> Channels \cup {None}]]
  /\ code \in [Lobbies -> Codes \cup {None}]
  /\ registry \in [Codes -> Lobbies \cup {None}]
  /\ removing \in [Players -> Lobbies \cup {None}]
  /\ queue \in [Channels -> Seq(Events)]
  /\ \A c \in Channels : Len(queue[c]) <= Buffer
  /\ held \in [Channels -> Events \cup {None}]
  /\ pump \in [Channels -> {"open", "closed", "free"}]
  /\ reader \in [Channels -> Players \cup {None}]
  /\ screen \in [Players -> Screens]
  /\ \A p \in Players : BagToSet(navs[p]) \subseteq Screens
  /\ ctxLobby \in [Players -> Lobbies \cup {None}]
  /\ session \in [Players -> {"running", "stopped", "gone"}]

SessionsInit ==
  /\ phase = [l \in Lobbies |-> "Unborn"]
  /\ order = [l \in Lobbies |-> <<>>]
  /\ ready = [l \in Lobbies |-> {}]
  /\ subs = [l \in Lobbies |-> [p \in Players |-> None]]
  /\ code = [l \in Lobbies |-> None]
  /\ registry = [k \in Codes |-> None]
  /\ removing = [p \in Players |-> None]
  /\ queue = [c \in Channels |-> <<>>]
  /\ held = [c \in Channels |-> None]
  /\ pump = [c \in Channels |-> "free"]
  /\ reader = [c \in Channels |-> None]
  /\ screen = [p \in Players |-> Browser]
  /\ navs = [p \in Players |-> EmptyBag]
  /\ ctxLobby = [p \in Players |-> None]
  /\ session = [p \in Players |-> "running"]

Members(l) == ToSet(order[l])
Live(l) == phase[l] \notin {"Unborn", "Closed"}

-----------------------------------------------------------------------------
(***************************************************************************)
(* The lobby's side: lobby.go, under l.mu.  A definition whose name ends in *)
(* Fault is a plausible mistake in the definition after it.                 *)
(***************************************************************************)

Subscribed(l) == {subs[l][p] : p \in Players} \ {None}

(* One look at the room left for two events in a row. *)
BroadcastFault(C, e) ==
  queue' = [c \in Channels |->
              IF c \in C /\ Len(queue[c]) < Buffer THEN queue[c] \o <<e, e>> ELSE queue[c]]

(* broadcastLocked: a subscriber whose buffer is full misses the event. *)
Broadcast(C, e) ==
  queue' = [c \in Channels |->
              IF c \in C /\ Len(queue[c]) < Buffer THEN Append(queue[c], e) ELSE queue[c]]

(* A LobbyUpdated with a snapshot of a lobby in phase ph. *)
Updated(ph) == IF ph = "Waiting" THEN "waiting" ELSE "news"

(* Subscriptions dropped, and their channels left open. *)
CloseSubsFault(C) == pump

CloseSubs(C) == [c \in Channels |-> IF c \in C THEN "closed" ELSE pump[c]]

(* A channel on a closed lobby is closed at birth and its pump ends at once. *)
Subscribe(p, l) ==
  IF phase'[l] = "Closed"
  THEN /\ subs' = [subs EXCEPT ![l][p] = None]
       /\ pump' = CloseSubs({subs[l][p]})
       /\ UNCHANGED reader
  ELSE \E c \in Channels :
         /\ pump[c] = "free"
         /\ subs' = [subs EXCEPT ![l][p] = c]
         /\ pump' = [CloseSubs({subs[l][p]}) EXCEPT ![c] = "open"]
         /\ reader' = [reader EXCEPT ![c] = p]

(***************************************************************************)
(* reconcilePhaseLocked: a countdown of one is off; a race is over if all   *)
(* who are left have finished, and who has is not kept here.                *)
(***************************************************************************)
PhasesAfterLeave(l) ==
  CASE phase[l] = "Countdown" /\ Len(order'[l]) < 2 -> {"Waiting"}
    [] phase[l] = "Racing" -> {"Racing", "Finished"}
    [] OTHER -> {phase[l]}

(* The last player to leave closes the lobby, and has yet to unregister it. *)
CloseLobby(p, l) ==
  /\ phase' = [phase EXCEPT ![l] = "Closed"]
  /\ subs' = [subs EXCEPT ![l] = [q \in Players |-> None]]
  /\ pump' = CloseSubs(Subscribed(l))
  /\ removing' = [removing EXCEPT ![p] = l]
  /\ UNCHANGED queue

Leave(p, l) ==
  /\ order' = [order EXCEPT ![l] = RemoveFirst(@, p)]
  /\ ready' = [ready EXCEPT ![l] = @ \ {p}]
  /\ \/ order'[l] = <<>> /\ CloseLobby(p, l)
     \/ /\ order'[l] # <<>>
        /\ \E ph \in PhasesAfterLeave(l) :
             /\ phase' = [phase EXCEPT ![l] = ph]
             /\ Broadcast(Subscribed(l) \ {subs[l][p]},
                          IF ph # phase[l] /\ ph = "Finished" THEN "ended" ELSE Updated(ph))
        /\ subs' = [subs EXCEPT ![l][p] = None]
        /\ pump' = CloseSubs({subs[l][p]})
        /\ UNCHANGED removing
  /\ UNCHANGED <<code, registry, held, reader>>

(* A fresh code taken to be free. *)
FreeCodeFault(k) == TRUE

FreeCode(k) == registry[k] = None

(* A handler or a goroutine moves lobby l to phase ph and tells everyone e. *)
Turn(l, ph, e) ==
  /\ phase' = [phase EXCEPT ![l] = ph]
  /\ Broadcast(Subscribed(l), e)
  /\ UNCHANGED <<order, subs, code, registry, removing, held, pump, reader, screens>>

(* beginRace *)
Open(l) ==
  /\ phase[l] = "Countdown"
  /\ Turn(l, "Racing", "started")
  /\ UNCHANGED ready

(* endRaceLocked, by the last to finish or by the deadline. *)
End(l) ==
  /\ phase[l] = "Racing"
  /\ Turn(l, "Finished", "ended")
  /\ UNCHANGED ready

(***************************************************************************)
(* Anything else that is broadcast: ticks, progress, finishers, flair, the  *)
(* LobbyUpdated that goes with RaceStarted and RaceEnded.                   *)
(***************************************************************************)
News(l) ==
  /\ Live(l)
  /\ Turn(l, phase[l], Updated(phase[l]))
  /\ UNCHANGED ready

(* Store.remove, after the lock of the lobby was let go. *)
Unregister(p) ==
  /\ removing[p] # None
  /\ registry' = [registry EXCEPT ![code[removing[p]]] = None]
  /\ removing' = [removing EXCEPT ![p] = None]
  /\ UNCHANGED <<phase, order, ready, subs, code, channels, screens>>

-----------------------------------------------------------------------------
(* The session's side: internal/ui. *)

(* The update loop is free: not ended, and not inside leaveLobby. *)
Running(p) == session[p] = "running" /\ removing[p] = None

Go(p, s) ==
  /\ BagCardinality(navs[p]) < MaxNavs
  /\ navs' = [navs EXCEPT ![p] = @ (+) SetToBag({s})]

(* enterLobby: a no-op in the lobby the session is in already. *)
EnterLobby(p, l) ==
  \/ ctxLobby[p] = l /\ UNCHANGED <<ctxLobby, subs, pump, reader>>
  \/ /\ ctxLobby[p] # l
     /\ ctxLobby' = [ctxLobby EXCEPT ![p] = l]
     /\ Subscribe(p, l)

(* Claiming the lobby only when the waiting room comes up. *)
ClaimFault(p, l) == UNCHANGED <<ctxLobby, subs, pump, reader>>

(* The browser claims a lobby in the handler that creates or joins it. *)
Claim(p, l) == EnterLobby(p, l)

(* The session still in the lobby it left. *)
LeaveLobbyFault(p, l) ==
  /\ IF p \in Members(l) THEN Leave(p, l) ELSE UNCHANGED <<lobbies, channels>>
  /\ UNCHANGED ctxLobby

LeaveLobby(p, l) ==
  /\ IF p \in Members(l) THEN Leave(p, l) ELSE UNCHANGED <<lobbies, channels>>
  /\ ctxLobby' = [ctxLobby EXCEPT ![p] = IF @ = l THEN None ELSE @]

At(p, kind) == Running(p) /\ screen[p].kind = kind

(***************************************************************************)
(* Create, Subscribe and SetFlair, like Join, Subscribe and SetFlair, are   *)
(* critical sections of their own: between them the player is not ready, so *)
(* all that a late subscription can miss is a LobbyUpdated.                 *)
(***************************************************************************)
Create(p) ==
  /\ At(p, "browser")
  /\ \E l \in Lobbies, k \in Codes :
       /\ phase[l] = "Unborn"
       /\ FreeCode(k)
       /\ phase' = [phase EXCEPT ![l] = "Waiting"]
       /\ order' = [order EXCEPT ![l] = <<p>>]
       /\ code' = [code EXCEPT ![l] = k]
       /\ registry' = [registry EXCEPT ![k] = l]
       /\ Claim(p, l)
       /\ Go(p, Screen("waiting", l))
  /\ UNCHANGED <<ready, removing, queue, held, screen, session>>

(* A player who is in the lobby already gets in whatever its phase. *)
Join(p) ==
  /\ At(p, "browser")
  /\ \E k \in Codes :
       LET l == registry[k] IN
       /\ l # None
       /\ \/ p \in Members(l) /\ UNCHANGED <<order, queue>>
          \/ /\ p \notin Members(l)
             /\ phase[l] = "Waiting"
             /\ order' = [order EXCEPT ![l] = Append(@, p)]
             /\ Broadcast(Subscribed(l), "waiting")
       /\ UNCHANGED phase
       /\ Claim(p, l)
       /\ Go(p, Screen("waiting", l))
  /\ UNCHANGED <<ready, code, registry, removing, held, screen, session>>

(* From the browser to the menu and back, past every other screen. *)
Wander(p) ==
  /\ At(p, "browser")
  /\ Go(p, Browser)
  /\ UNCHANGED <<lobbies, channels, screen, ctxLobby, session>>

(* esc; on the results, s as well. *)
Escape(p) ==
  /\ Running(p)
  /\ screen[p] # Browser
  /\ LeaveLobby(p, screen[p].lobby)
  /\ Go(p, Browser)
  /\ UNCHANGED <<screen, session>>

(* The snapshot on show may be old, so r may ask for what holds already. *)
SetReady(p) ==
  LET l == screen[p].lobby IN
  /\ At(p, "waiting")
  /\ p \in Members(l) /\ phase[l] = "Waiting"
  /\ \/ p \notin ready[l] /\ ready' = [ready EXCEPT ![l] = @ \cup {p}]
     \/ p \in ready[l] /\ ready' = [ready EXCEPT ![l] = @ \ {p}]
  /\ Turn(l, "Waiting", "waiting")

IsHost(p, l) == order[l] # <<>> /\ Head(order[l]) = p

Start(p) ==
  LET l == screen[p].lobby IN
  /\ At(p, "waiting")
  /\ phase[l] = "Waiting" /\ IsHost(p, l)
  /\ Len(order[l]) >= 2 /\ Members(l) \subseteq ready[l]
  /\ Turn(l, "Countdown", "news")
  /\ UNCHANGED ready

Rematch(p) ==
  LET l == screen[p].lobby IN
  /\ At(p, "results")
  /\ phase[l] = "Finished" /\ IsHost(p, l)
  /\ ready' = [ready EXCEPT ![l] = {}]
  /\ Turn(l, "Waiting", "waiting")

(* No way back from the results to the waiting room. *)
FollowFault(s, e) ==
  CASE s.kind = "waiting" /\ e = "started" -> Screen("race", s.lobby)
    [] s.kind = "race" /\ e = "ended" -> Screen("results", s.lobby)
    [] OTHER -> s

(* Where an event sends the session that shows screen s. *)
Follow(s, e) ==
  CASE s.kind = "waiting" /\ e = "started" -> Screen("race", s.lobby)
    [] s.kind = "race" /\ e = "ended" -> Screen("results", s.lobby)
    [] s.kind = "results" /\ e = "waiting" -> Screen("waiting", s.lobby)
    [] OTHER -> s

(* The loop handles the event the pump of c holds. *)
Handle(p, c) ==
  /\ Running(p)
  /\ reader[c] = p /\ held[c] # None
  /\ LET s == Follow(screen[p], held[c]) IN
       IF s = screen[p] THEN UNCHANGED navs ELSE Go(p, s)
  /\ held' = [held EXCEPT ![c] = None]
  /\ UNCHANGED <<lobbies, queue, pump, reader, screen, ctxLobby, session>>

(* navigateMsg: the new screen's Init. *)
Navigate(p) ==
  /\ Running(p)
  /\ \E s \in BagToSet(navs[p]) :
       /\ navs' = [navs EXCEPT ![p] = @ (-) SetToBag({s})]
       /\ screen' = [screen EXCEPT ![p] = s]
       /\ UNCHANGED phase
       /\ \/ s.kind = "waiting" /\ EnterLobby(p, s.lobby)
          \/ s.kind # "waiting" /\ UNCHANGED <<ctxLobby, subs, pump, reader>>
  /\ UNCHANGED <<order, ready, code, registry, removing, queue, held, session>>

(* The program ends: ctrl+c, quit, or a connection lost. *)
Stop(p) ==
  /\ Running(p)
  /\ session' = [session EXCEPT ![p] = "stopped"]
  /\ navs' = [navs EXCEPT ![p] = EmptyBag]
  /\ UNCHANGED <<lobbies, channels, screen, ctxLobby>>

(* cleanupMiddleware, once the program has ended. *)
Disconnect(p) ==
  /\ session[p] = "stopped"
  /\ session' = [session EXCEPT ![p] = "gone"]
  /\ IF ctxLobby[p] = None THEN UNCHANGED <<lobbies, channels, ctxLobby>>
                           ELSE LeaveLobby(p, ctxLobby[p])
  /\ UNCHANGED <<screen, navs>>

-----------------------------------------------------------------------------
(* The pump of channel c. *)

PumpTake(c) ==
  /\ pump[c] # "free" /\ held[c] = None /\ queue[c] # <<>>
  /\ held' = [held EXCEPT ![c] = Head(queue[c])]
  /\ queue' = [queue EXCEPT ![c] = Tail(@)]
  /\ UNCHANGED <<lobbies, pump, reader, screens>>

(* A send that waits for ever once the program has ended. *)
PumpDropFault(c) == FALSE /\ UNCHANGED sessionVars

(* Sending to a program that has ended does nothing. *)
PumpDrop(c) ==
  /\ held[c] # None /\ session[reader[c]] # "running"
  /\ held' = [held EXCEPT ![c] = None]
  /\ UNCHANGED <<lobbies, queue, pump, reader, screens>>

(* The range over a closed channel ends once its buffer is empty. *)
PumpExit(c) ==
  /\ pump[c] = "closed" /\ queue[c] = <<>> /\ held[c] = None
  /\ pump' = [pump EXCEPT ![c] = "free"]
  /\ reader' = [reader EXCEPT ![c] = None]
  /\ UNCHANGED <<lobbies, queue, held, screens>>

-----------------------------------------------------------------------------
(* Whatever may broadcast, and what cannot. *)

Key(p) ==
  \/ Create(p) \/ Join(p) \/ Wander(p) \/ Escape(p)
  \/ SetReady(p) \/ Start(p) \/ Rematch(p)

Race(l) == Open(l) \/ End(l)

Pump(c) == PumpTake(c) \/ PumpDrop(c) \/ PumpExit(c)

Silent ==
  \/ \E p \in Players : Navigate(p) \/ Unregister(p) \/ Stop(p)
  \/ \E c \in Channels : Pump(c)

SessionsNext ==
  \/ Silent
  \/ \E p \in Players : Disconnect(p) \/ Key(p) \/ \E c \in Channels : Handle(p, c)
  \/ \E l \in Lobbies : Race(l) \/ News(l)

(***************************************************************************)
(* Programs and pumps are scheduled.  Messages wait for the update loop as  *)
(* senders on one unbuffered channel, which Go serves in order: an event is *)
(* not put off for ever by keys.  Nobody need press a key or leave.         *)
(***************************************************************************)
SessionsFairness ==
  /\ \A p \in Players : WF_sessionVars(Navigate(p) \/ Unregister(p))
  /\ \A c \in Channels :
       /\ WF_sessionVars(Pump(c))
       /\ SF_sessionVars(\E p \in Players : Handle(p, c))

SessionsSpec == SessionsInit /\ [][SessionsNext]_sessionVars /\ SessionsFairness

(***************************************************************************)
(* Navigation is delivered before anything else reaches the program: it     *)
(* takes microseconds, keys and events milliseconds at least.               *)
(***************************************************************************)
Settled(p) == navs[p] = EmptyBag

SettledNext ==
  \/ Silent
  \/ \E p \in Players : Disconnect(p)
  \/ \E p \in Players : Settled(p) /\ (Key(p) \/ \E c \in Channels : Handle(p, c))
  \/ \E l \in Lobbies : Race(l) \/ News(l)

SettledSpec == SessionsInit /\ [][SettledNext]_sessionVars /\ SessionsFairness

(***************************************************************************)
(* Besides, nobody is in another lobby before what the last one sent is     *)
(* handled.                                                                 *)
(***************************************************************************)
Drained(p) == \A c \in Channels : reader[c] = p => pump[c] = "open"

DrainedNext ==
  \/ Silent
  \/ \E p \in Players : Disconnect(p)
  \/ \E p \in Players : Settled(p) /\ Drained(p) /\ Key(p)
  \/ \E p \in Players, c \in Channels : Settled(p) /\ Handle(p, c)
  \/ \E l \in Lobbies : Race(l) \/ News(l)

DrainedSpec == SessionsInit /\ [][DrainedNext]_sessionVars /\ SessionsFairness

(***************************************************************************)
(* Besides, sessions keep up: what is broadcast finds room in each buffer.  *)
(* Whoever is cut off is told nothing: its own may be full, and be closed   *)
(* with events in it.                                                       *)
(***************************************************************************)
HasRoom(c) == pump[c] = "open" => Len(queue[c]) < Buffer
KeepUp == \A c \in Channels : HasRoom(c)
OthersKeepUp(p) == \A c \in Channels : reader[c] # p => HasRoom(c)

SteadyNext ==
  \/ Silent
  \/ \E p \in Players, c \in Channels : Settled(p) /\ Handle(p, c)
  \/ \E p \in Players : OthersKeepUp(p) /\ Disconnect(p)
  \/ /\ KeepUp
     /\ \/ \E p \in Players : Settled(p) /\ Drained(p) /\ Key(p)
        \/ \E l \in Lobbies : Race(l) \/ News(l)

SteadySpec == SessionsInit /\ [][SteadyNext]_sessionVars /\ SessionsFairness

=============================================================================
