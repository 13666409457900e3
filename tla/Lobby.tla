------------------------------- MODULE Lobby -------------------------------
(***************************************************************************)
(* One lobby of internal/lobby: its players, the race lifecycle and the     *)
(* goroutines that count a race in and call it.                             *)
(*                                                                         *)
(* Every handler runs under l.mu from its first line to its last, so each   *)
(* is one action; a handler that returns an error or returns early takes no *)
(* step.  The goroutines are not atomic: they take the lock, let go of it,  *)
(* and wait in a select on a timer and on their abort channel, so each of   *)
(* them is a small state machine of its own (routine).                      *)
(*                                                                         *)
(* Abstracted: names, flair, seed, speeds, accuracy and instants.  Events   *)
(* (broadcastLocked) reach subscribers, never the lobby.                    *)
(***************************************************************************)
EXTENDS Naturals, Sequences, FiniteSets, SequencesExt

CONSTANTS
  PlayerIDs,      \* the sessions that may ever enter this lobby
  MaxPlayers,     \* lobby.go: MaxPlayers
  CountdownFrom,  \* Store.countdownFrom, the ticks of a countdown
  PassageLen,     \* characters in the passage, where a finisher stands
  Aborts,         \* the abort channels make() can return: a finite pool in TLC
  NoAbort         \* l.abort == nil

ASSUME PlayersAssumption == IsFiniteSet(PlayerIDs)
ASSUME BoundsAssumption ==
  /\ MaxPlayers \in Nat \ {0}
  /\ CountdownFrom \in Nat
  /\ PassageLen \in Nat \ {0}
ASSUME AbortsAssumption == NoAbort \notin Aborts

VARIABLES
  players,    \* keys of l.players
  order,      \* l.order, the join order
  hostID,
  phase,
  closed,
  ready,      \* ids with player.ready
  chars,      \* player.charsTyped, 0 for those outside the lobby
  finished,   \* ids with player.finished
  place,      \* player.place, 0 for those outside the lobby
  finishers,  \* l.finishers, the order players crossed the line
  abort,      \* l.abort
  open,       \* the abort channels made and not closed yet
  routine,    \* where the goroutine holding an abort channel is
  left        \* runCountdown's n, 0 outside it

roster == <<players, order, hostID>>
scores == <<ready, chars, finished, place, finishers>>
goroutines == <<routine, left>>
channel == <<abort, open>>
vars == <<roster, phase, closed, scores, channel, goroutines>>

Phases == {"Waiting", "Countdown", "Racing", "Finished"}

(***************************************************************************)
(* idle: no goroutine holds the channel.  tick, start: runCountdown and     *)
(* beginRace, about to lock.  sleep: runCountdown's select.  watch:         *)
(* watchRaceDeadline's select.  call: its timer won, it is about to lock.   *)
(***************************************************************************)
Routines == {"idle", "tick", "sleep", "start", "watch", "call"}

TypeOK ==
  /\ players \subseteq PlayerIDs
  /\ order \in Seq(PlayerIDs)
  /\ hostID \in PlayerIDs
  /\ phase \in Phases
  /\ closed \in BOOLEAN
  /\ ready \subseteq players
  /\ chars \in [PlayerIDs -> 0..PassageLen]
  /\ finished \subseteq players
  /\ place \in [PlayerIDs -> Nat]
  /\ finishers \in Seq(PlayerIDs)
  /\ abort \in Aborts \cup {NoAbort}
  /\ open \subseteq Aborts
  /\ routine \in [Aborts -> Routines]
  /\ left \in [Aborts -> 0..CountdownFrom]

(* Store.Create: the host has joined. *)
Init ==
  /\ hostID \in PlayerIDs
  /\ players = {hostID}
  /\ order = <<hostID>>
  /\ phase = "Waiting"
  /\ closed = FALSE
  /\ ready = {}
  /\ chars = [p \in PlayerIDs |-> 0]
  /\ finished = {}
  /\ place = [p \in PlayerIDs |-> 0]
  /\ finishers = <<>>
  /\ abort = NoAbort
  /\ open = {}
  /\ routine = [c \in Aborts |-> "idle"]
  /\ left = [c \in Aborts |-> 0]

-----------------------------------------------------------------------------
(***************************************************************************)
(* Helpers that run with the lock held.  A definition whose name ends in    *)
(* Fault is a plausible mistake in the definition after it: the properties  *)
(* are checked to notice it.                                                *)
(***************************************************************************)

AllReadyFault == Cardinality(ready) >= 2

AllReady == Cardinality(players) >= 2 /\ players \subseteq ready

EveryoneFinished(P, F) == P # {} /\ P \subseteq F

CloseAbortFault ==
  /\ open' = open \ {abort}
  /\ UNCHANGED abort

CloseAbort ==
  /\ open' = open \ {abort}
  /\ abort' = NoAbort

EndRaceFault ==
  /\ phase' = "Finished"
  /\ UNCHANGED channel

EndRace ==
  /\ phase' = "Finished"
  /\ CloseAbort

(* A channel no goroutine holds and the lobby does not: make() may return it. *)
Fresh(c) == c # abort /\ c \notin open /\ routine[c] = "idle"

NewAbort(c) ==
  /\ Fresh(c)
  /\ abort' = c
  /\ open' = (open \ {abort}) \cup {c}

(* What a countdown with n ticks to go does next. *)
CountdownAt(n) == IF n > 0 THEN "tick" ELSE "start"

-----------------------------------------------------------------------------
(* What players do to the lobby. *)

Join(p) ==
  /\ ~closed
  /\ p \notin players
  /\ phase = "Waiting"
  /\ Cardinality(players) < MaxPlayers
  /\ players' = players \cup {p}
  /\ order' = Append(order, p)
  /\ UNCHANGED <<hostID, phase, closed, scores, channel, goroutines>>

CancelPhaseFault ==
  /\ UNCHANGED phase
  /\ CloseAbort

CancelAbortFault ==
  /\ phase' = "Waiting"
  /\ UNCHANGED channel

CancelCountdown ==
  /\ phase' = "Waiting"
  /\ CloseAbort

ReconcilePhaseFault(P) ==
  IF phase = "Countdown" /\ Cardinality(P) < 2
  THEN CancelCountdown
  ELSE UNCHANGED <<phase, channel>>

(* reconcilePhaseLocked, with the players P left. *)
ReconcilePhase(P) ==
  CASE phase = "Countdown" /\ Cardinality(P) < 2 -> CancelCountdown
    [] phase = "Racing" /\ EveryoneFinished(P, finished) -> EndRace
    [] OTHER -> UNCHANGED <<phase, channel>>

(* closeLocked: the phase stays what it was. *)
CloseLobby ==
  /\ closed' = TRUE
  /\ CloseAbort
  /\ UNCHANGED phase

ForgetFault(p) ==
  /\ players' = players \ {p}
  /\ chars' = [chars EXCEPT ![p] = 0]
  /\ finished' = finished \ {p}
  /\ place' = [place EXCEPT ![p] = 0]
  /\ UNCHANGED ready

(* delete(l.players, id): the player record goes with its key. *)
Forget(p) ==
  /\ players' = players \ {p}
  /\ ready' = ready \ {p}
  /\ chars' = [chars EXCEPT ![p] = 0]
  /\ finished' = finished \ {p}
  /\ place' = [place EXCEPT ![p] = 0]

HostAfterFault(p, o) == hostID

(* Who is host once p has left the order o behind. *)
HostAfter(p, o) == IF hostID = p /\ Len(o) > 0 THEN Head(o) ELSE hostID

Leave(p) ==
  /\ ~closed
  /\ p \in players
  /\ Forget(p)
  /\ order' = RemoveFirst(order, p)
  /\ hostID' = HostAfter(p, order')
  /\ \/ players' = {} /\ CloseLobby
     \/ /\ players' # {}
        /\ ReconcilePhase(players')
        /\ UNCHANGED closed
  /\ UNCHANGED <<finishers, goroutines>>

SetReady(p) ==
  /\ ~closed
  /\ p \in players
  /\ phase = "Waiting"
  /\ \/ p \notin ready /\ ready' = ready \cup {p}
     \/ p \in ready /\ ready' = ready \ {p}
  /\ UNCHANGED <<roster, phase, closed, chars, finished, place, finishers,
                 channel, goroutines>>

Start(p) ==
  /\ ~closed
  /\ phase = "Waiting"
  /\ p = hostID
  /\ AllReady
  /\ phase' = "Countdown"
  /\ \E c \in Aborts :
       /\ NewAbort(c)
       /\ routine' = [routine EXCEPT ![c] = CountdownAt(CountdownFrom)]
       /\ left' = [left EXCEPT ![c] = CountdownFrom]
  /\ UNCHANGED <<roster, closed, scores>>

(* A session reports a position short of the end of the passage. *)
RecordProgress(p, n) ==
  /\ ~closed
  /\ p \in players
  /\ phase = "Racing"
  /\ p \notin finished
  /\ chars' = [chars EXCEPT ![p] = n]
  /\ UNCHANGED <<roster, phase, closed, ready, finished, place, finishers,
                 channel, goroutines>>

PlaceTakenFault == Cardinality(finished')

(* The place of the racer who crossed last. *)
PlaceTaken == Len(finishers')

(* A session reports the end of the passage. *)
Finish(p) ==
  /\ ~closed
  /\ p \in players
  /\ phase = "Racing"
  /\ p \notin finished
  /\ finished' = finished \cup {p}
  /\ chars' = [chars EXCEPT ![p] = PassageLen]
  /\ finishers' = Append(finishers, p)
  /\ place' = [place EXCEPT ![p] = PlaceTaken]
  /\ IF EveryoneFinished(players, finished') THEN EndRace ELSE UNCHANGED <<phase, channel>>
  /\ UNCHANGED <<roster, closed, ready, goroutines>>

Rematch(p) ==
  /\ ~closed
  /\ phase = "Finished"
  /\ p = hostID
  /\ phase' = "Waiting"
  /\ finishers' = <<>>
  /\ ready' = {}
  /\ chars' = [q \in PlayerIDs |-> 0]
  /\ place' = [q \in PlayerIDs |-> 0]
  /\ finished' = {}
  /\ UNCHANGED <<roster, closed, channel, goroutines>>

-----------------------------------------------------------------------------
(* What the goroutine holding abort channel c does. *)

lobbyState == <<roster, phase, closed, scores, channel>>

(* The goroutine moves to r with n ticks to go. *)
Goto(c, r, n) ==
  /\ routine' = [routine EXCEPT ![c] = r]
  /\ left' = [left EXCEPT ![c] = n]

(* runCountdown takes the lock: broadcast a tick, or find itself called off. *)
CountdownTick(c) ==
  /\ routine[c] = "tick"
  /\ \/ phase = "Countdown" /\ Goto(c, "sleep", left[c])
     \/ phase # "Countdown" /\ Goto(c, "idle", 0)
  /\ UNCHANGED lobbyState

CountdownTimerFault(c) ==
  /\ routine[c] = "sleep"
  /\ Goto(c, "tick", left[c])
  /\ UNCHANGED lobbyState

(***************************************************************************)
(* The two branches of a select.  When its timer has run out and its        *)
(* channel is closed before the goroutine is scheduled again, Go picks      *)
(* either branch, so a closed channel does not keep the timer from winning. *)
(***************************************************************************)
CountdownTimer(c) ==
  /\ routine[c] = "sleep"
  /\ Goto(c, CountdownAt(left[c] - 1), left[c] - 1)
  /\ UNCHANGED lobbyState

CountdownAbort(c) ==
  /\ routine[c] = "sleep"
  /\ c \notin open
  /\ Goto(c, "idle", 0)
  /\ UNCHANGED lobbyState

WatchDeadlineFault(c) == Goto(c, "idle", 0)

(* The countdown's goroutine ends, the deadline's starts with its channel. *)
WatchDeadline(c) == Goto(c, "watch", 0)

BeginRace(c) ==
  /\ routine[c] = "start"
  /\ \/ /\ phase = "Countdown"
        /\ phase' = "Racing"
        /\ finishers' = <<>>
        /\ WatchDeadline(c)
     \/ /\ phase # "Countdown"
        /\ Goto(c, "idle", 0)
        /\ UNCHANGED <<phase, finishers>>
  /\ UNCHANGED <<roster, closed, ready, chars, finished, place, channel>>

DeadlineTimer(c) ==
  /\ routine[c] = "watch"
  /\ Goto(c, "call", 0)
  /\ UNCHANGED lobbyState

DeadlineAbort(c) ==
  /\ routine[c] = "watch"
  /\ c \notin open
  /\ Goto(c, "idle", 0)
  /\ UNCHANGED lobbyState

CallRace(c) ==
  /\ routine[c] = "call"
  /\ IF phase = "Racing" THEN EndRace ELSE UNCHANGED <<phase, channel>>
  /\ Goto(c, "idle", 0)
  /\ UNCHANGED <<roster, closed, scores>>

Goroutine(c) ==
  \/ CountdownTick(c) \/ CountdownTimer(c) \/ CountdownAbort(c)
  \/ BeginRace(c)
  \/ DeadlineTimer(c) \/ DeadlineAbort(c) \/ CallRace(c)

-----------------------------------------------------------------------------
Handler(p) ==
  \/ Join(p) \/ Leave(p) \/ SetReady(p) \/ Rematch(p) \/ Finish(p)
  \/ \E n \in 0..(PassageLen - 1) : RecordProgress(p, n)

Starting == \E p \in PlayerIDs : Start(p)

Unhurried ==
  \/ \E p \in PlayerIDs : Handler(p)
  \/ \E c \in Aborts : Goroutine(c)

Next == Starting \/ Unhurried

(***************************************************************************)
(* A goroutine is never stuck: the scheduler runs it, l.mu is granted in    *)
(* time and timers elapse.  Players owe the lobby nothing.                  *)
(***************************************************************************)
Fairness == \A c \in Aborts : WF_vars(Goroutine(c))

Spec == Init /\ [][Next]_vars /\ Fairness

(***************************************************************************)
(* The same lobby where a goroutine whose channel was closed is gone before *)
(* the next countdown starts: nothing in the code waits for it, but people  *)
(* have to press several keys in between.                                   *)
(***************************************************************************)
CalledOffAreGone == \A c \in Aborts \ open : routine[c] = "idle"

PromptNext == (CalledOffAreGone /\ Starting) \/ Unhurried

PromptSpec == Init /\ [][PromptNext]_vars /\ Fairness

-----------------------------------------------------------------------------
StandsAboveFault(a, b) ==
  \/ chars[a] > chars[b]
  \/ chars[a] = chars[b] /\ \E i, j \in DOMAIN order :
                               i < j /\ order[i] = a /\ order[j] = b

(* resultsLocked: who stands above whom, ties kept in join order. *)
StandsAbove(a, b) ==
  \/ a \in finished /\ b \notin finished
  \/ a \in finished /\ b \in finished /\ place[a] < place[b]
  \/ /\ a \notin finished /\ b \notin finished
     /\ \/ chars[a] > chars[b]
        \/ chars[a] = chars[b] /\ \E i, j \in DOMAIN order :
                                    i < j /\ order[i] = a /\ order[j] = b

(* The players, sorted: l.players has each id once, so no two of them tie.    *)
Results ==
  CHOOSE list \in SetToSeqs(players) :
    \A i, j \in DOMAIN list : i < j => StandsAbove(list[i], list[j])

=============================================================================
