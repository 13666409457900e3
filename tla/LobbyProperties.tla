-------------------------- MODULE LobbyProperties --------------------------
(***************************************************************************)
(* What must be true of a lobby, whatever its players do and however its    *)
(* goroutines are scheduled.                                                *)
(***************************************************************************)
EXTENDS Lobby

OpenPhase(phs) == ~closed /\ phase \in phs

(***************************************************************************)
(* The player map, the join order and the host agree after any sequence of  *)
(* joins and leaves: the order lists each player once, the host is the one  *)
(* longest in the lobby (so a lobby never has a host who left), the lobby   *)
(* never exceeds its limit and it is closed exactly when nobody is left.    *)
(***************************************************************************)
RosterAgrees ==
  /\ ToSet(order) = players
  /\ IsInjective(order)
  /\ Cardinality(players) <= MaxPlayers
  /\ closed <=> players = {}
  /\ ~closed => hostID = Head(order)

(***************************************************************************)
(* Nobody is dragged into a race: from Start to the end of the race every   *)
(* player still there had readied up, whoever came and went before.         *)
(***************************************************************************)
RacersAreReady ==
  OpenPhase({"Countdown", "Racing", "Finished"}) => players = ready

(***************************************************************************)
(* A phase never outlives its reason, whoever leaves: a countdown has two   *)
(* players to race, a live race has somebody still typing, a waiting room   *)
(* holds no trace of the race before.                                       *)
(***************************************************************************)
PhaseHasReason ==
  /\ OpenPhase({"Countdown"}) => Cardinality(players) >= 2
  /\ OpenPhase({"Racing"}) => players \ finished # {}
  /\ OpenPhase({"Waiting", "Countdown"}) =>
       finished = {} /\ finishers = <<>> /\ \A p \in players : chars[p] = 0

(***************************************************************************)
(* The places handed out are the podium, though finishers leave during and  *)
(* after the race: nobody crosses twice, a player's place is where finishers*)
(* has them, and nobody has a place without having crossed.                 *)
(***************************************************************************)
PlacesAreThePodium ==
  ~closed =>
    /\ IsInjective(finishers)
    /\ finished = players \cap ToSet(finishers)
    /\ \A p \in PlayerIDs :
         IF p \in finished
         THEN place[p] \in DOMAIN finishers /\ finishers[place[p]] = p
         ELSE place[p] = 0

(***************************************************************************)
(* The standings RaceEnded carries (resultsLocked) list every player once:  *)
(* first those who crossed, in the order they crossed, then the others, no  *)
(* one below somebody who had typed less.                                   *)
(***************************************************************************)
StandingsFollowTheRace ==
  OpenPhase({"Racing", "Finished"}) =>
    /\ ToSet(Results) = players /\ Len(Results) = Cardinality(players)
    /\ \A i, j \in DOMAIN Results : i < j =>
         LET above == Results[i]
             below == Results[j]
         IN \/ /\ above \in ToSet(finishers)
               /\ below \notin ToSet(finishers)
            \/ \E k, l \in DOMAIN finishers :
                 k < l /\ finishers[k] = above /\ finishers[l] = below
            \/ /\ {above, below} \cap ToSet(finishers) = {}
               /\ chars[above] >= chars[below]

(***************************************************************************)
(* No abort channel is closed twice (close would panic) or left open with   *)
(* nobody to close it: the open channel is l.abort, and l.abort is nil in a *)
(* lobby that is neither counting in nor racing.                            *)
(***************************************************************************)
AbortIsTheOpenChannel ==
  /\ open = {abort} \ {NoAbort}
  /\ abort # NoAbort => OpenPhase({"Countdown", "Racing"})

(***************************************************************************)
(* A countdown on display has its own goroutine still counting.             *)
(***************************************************************************)
CountdownIsCounting ==
  OpenPhase({"Countdown"}) =>
    /\ abort \in Aborts
    /\ routine[abort] \in {"tick", "sleep", "start"}

(***************************************************************************)
(* A live race has a goroutine waiting to call it, on a channel that is     *)
(* still open (race.go:84-85, "so a lobby cannot be stranded in the racing  *)
(* phase").                                                                 *)
(***************************************************************************)
RaceHasDeadline ==
  OpenPhase({"Racing"}) =>
    /\ abort \in Aborts
    /\ routine[abort] \in {"watch", "call"}

(***************************************************************************)
(* A race opens when its own countdown is done: beginRace by the goroutine  *)
(* Start launched for it, not by one left over from a countdown called off. *)
(***************************************************************************)
RaceOpensOnItsCountdown ==
  [][OpenPhase({"Countdown"}) /\ phase' = "Racing"
       => routine[abort] = "start" /\ routine'[abort] = "watch"]_vars

(***************************************************************************)
(* A deadline calls the race it was set for: the goroutine that ends a live *)
(* race holds that race's abort channel.                                    *)
(***************************************************************************)
DeadlineCallsItsOwnRace ==
  [][\A c \in Aborts :
       OpenPhase({"Racing"}) /\ routine[c] = "call" /\ routine'[c] = "idle"
         => c = abort]_vars

(* Every race ends, even one that players walk away from (race.go:84-85). *)
RaceEnds == OpenPhase({"Racing"}) ~> ~OpenPhase({"Racing"})

(* No goroutine outlives its countdown and race for ever. *)
GoroutinesExit ==
  \A c \in Aborts : routine[c] # "idle" ~> routine[c] = "idle"

(***************************************************************************)
(* The lobby implements the race cycle of RaceCycle.tla.  A closed lobby is *)
(* gone whatever its phase says: a goroutine may still move that.           *)
(***************************************************************************)
Cycle == INSTANCE RaceCycle WITH
  Racers <- PlayerIDs,
  roster <- players,
  podium <- IF closed THEN <<>> ELSE finishers,
  stage <- IF closed THEN "gone"
           ELSE CASE phase = "Waiting" -> "waiting"
                  [] phase = "Countdown" -> "countdown"
                  [] phase = "Racing" -> "racing"
                  [] phase = "Finished" -> "finished"

ImplementsRaceCycle == Cycle!CycleSpec

=============================================================================
