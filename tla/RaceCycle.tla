----------------------------- MODULE RaceCycle -----------------------------
(***************************************************************************)
(* What a lobby promises the people in it, with no host, no readiness, no   *)
(* locks, no goroutines and no clock: a stage, the racers still present and *)
(* the podium, the order in which racers crossed the line.                  *)
(*                                                                         *)
(* The stages are those of internal/lobby/race.go:8-9 ("waiting, countdown, *)
(* racing, finished, and back to waiting on a rematch"), plus "gone", the   *)
(* lobby whose last racer left.  Lobby.tla is shown to implement this       *)
(* module.                                                                  *)
(***************************************************************************)
EXTENDS Naturals, Sequences, FiniteSets, Functions

CONSTANT Racers

VARIABLES
  stage,    \* where the lobby is in the race cycle
  roster,   \* the racers present
  podium    \* the racers who crossed the line, in order, leavers included

cycleVars == <<stage, roster, podium>>

Stages == {"waiting", "countdown", "racing", "finished", "gone"}

CycleTypeOK ==
  /\ stage \in Stages
  /\ roster \subseteq Racers
  /\ podium \in Seq(Racers)

(***************************************************************************)
(* A race is over for the racers R when each of them is on the podium P.    *)
(***************************************************************************)
AllCrossed(R, P) == R \subseteq Range(P)

CycleInit ==
  /\ stage = "waiting"
  /\ \E r \in Racers : roster = {r}
  /\ podium = <<>>

(* Racers come in only while the lobby waits. *)
Enter(r) ==
  /\ stage = "waiting"
  /\ r \notin roster
  /\ roster' = roster \cup {r}
  /\ UNCHANGED <<stage, podium>>

(* Where a lobby in stage s stands once only the racers R are left. *)
StageAfterDeparture(s, R, P) ==
  CASE R = {}                                  -> "gone"
    [] R # {} /\ s = "countdown" /\ Cardinality(R) < 2 -> "waiting"
    [] R # {} /\ s = "racing" /\ AllCrossed(R, P)      -> "finished"
    [] OTHER                                   -> s

(* Anyone may go at any time; that alone may end a countdown or a race. *)
Depart(r) ==
  /\ r \in roster
  /\ roster' = roster \ {r}
  /\ stage' = StageAfterDeparture(stage, roster', podium)
  /\ podium' = IF stage' = "gone" THEN <<>> ELSE podium

CountIn ==
  /\ stage = "waiting"
  /\ Cardinality(roster) >= 2
  /\ stage' = "countdown"
  /\ UNCHANGED <<roster, podium>>

(* The race opens with everyone still to cross. *)
Open ==
  /\ stage = "countdown"
  /\ podium = <<>>
  /\ stage' = "racing"
  /\ UNCHANGED <<roster, podium>>

(* A racer crosses once; the last one to cross ends the race. *)
Cross(r) ==
  /\ stage = "racing"
  /\ r \in roster \ Range(podium)
  /\ podium' = Append(podium, r)
  /\ stage' = IF AllCrossed(roster, podium') THEN "finished" ELSE "racing"
  /\ UNCHANGED roster

(* A race somebody never finishes is called. *)
Call ==
  /\ stage = "racing"
  /\ stage' = "finished"
  /\ UNCHANGED <<roster, podium>>

Again ==
  /\ stage = "finished"
  /\ stage' = "waiting"
  /\ podium' = <<>>
  /\ UNCHANGED roster

CycleNext ==
  \/ \E r \in Racers : Enter(r) \/ Depart(r) \/ Cross(r)
  \/ CountIn \/ Open \/ Call \/ Again

CycleSpec == CycleInit /\ [][CycleNext]_cycleVars

=============================================================================
