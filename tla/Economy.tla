------------------------------ MODULE Economy ------------------------------
(***************************************************************************)
(* What a finished attempt pays (internal/economy/economy.go). An accuracy  *)
(* is <<correct keystrokes, keystrokes>> and a speed a whole number of      *)
(* words per minute; a line of an award is its amount.                      *)
(***************************************************************************)
EXTENDS Integers, Sequences

Accuracies == {a \in Nat \X Nat : a[1] <= a[2]}

AtLeast(accuracy, percent) == accuracy[2] = 0 \/ 100 * accuracy[1] >= percent * accuracy[2]

RaceBase == 8..12
PracticeBase == 2..4

PracticeMinAccuracy == 80
BeatenEach == 3

Smaller(a, b) == IF a <= b THEN a ELSE b
Larger(a, b) == IF a <= b THEN b ELSE a

PlaceKicker(place) ==
  CASE place = 1 -> 12
    [] place = 2 -> 6
    [] place = 3 -> 3
    [] OTHER -> 0

PlaceBonus(place, racers) == PlaceKicker(place) + BeatenEach * Larger(0, racers - place)

(* The first tier reached, richest first.                                   *)
RaceAccuracyBonus(accuracy) ==
  CASE AtLeast(accuracy, 99) -> 8
    [] ~AtLeast(accuracy, 99) /\ AtLeast(accuracy, 97) -> 5
    [] ~AtLeast(accuracy, 97) /\ AtLeast(accuracy, 94) -> 3
    [] ~AtLeast(accuracy, 94) /\ AtLeast(accuracy, 90) -> 1
    [] OTHER -> 0

PracticeAccuracyBonus(accuracy) ==
  CASE AtLeast(accuracy, 99) -> 4
    [] ~AtLeast(accuracy, 99) /\ AtLeast(accuracy, 97) -> 3
    [] ~AtLeast(accuracy, 97) /\ AtLeast(accuracy, 94) -> 2
    [] ~AtLeast(accuracy, 94) /\ AtLeast(accuracy, 90) -> 1
    [] OTHER -> 0

SpeedBonus(wpm, perByte, limit) == IF wpm <= 0 THEN 0 ELSE Smaller(limit, wpm \div perByte)

(* A breakdown without its rows of zeroes.                                  *)
Award(base, place, accuracy, speed) ==
  [lines |-> SelectSeq(<<base, place, accuracy, speed>>, LAMBDA amount : amount > 0),
   total |-> base + place + accuracy + speed]

NoAward == [lines |-> <<>>, total |-> 0]

(* base is the draw from RaceBase or PracticeBase.                          *)
AwardRace(base, place, racers, wpm, accuracy) ==
  IF place <= 0 THEN NoAward
  ELSE Award(base, PlaceBonus(place, racers), RaceAccuracyBonus(accuracy),
             SpeedBonus(wpm, 15, 10))

AwardPractice(base, wpm, accuracy) ==
  IF ~AtLeast(accuracy, PracticeMinAccuracy) THEN NoAward
  ELSE Award(base, 0, PracticeAccuracyBonus(accuracy), SpeedBonus(wpm, 25, 4))
=============================================================================
