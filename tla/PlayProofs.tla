--------------------------- MODULE PlayProofs ---------------------------
(***************************************************************************)
(* Proofs about a session that plays: the counters of Typing.tla, the awards *)
(* of Economy.tla, the types of Play.tla and, of a patient session, what is  *)
(* in flight, which account it plays for and what balance it shows.          *)
(***************************************************************************)
EXTENDS Play, ListsAndSums

(* CountersAgree of an attempt s. *)
Agrees(s) ==
  /\ s \in Session
  /\ Marked(s, "untyped") = (s.pos + 1)..Length
  /\ s.correct = Cardinality(Marked(s, "correct"))
  /\ s.incorrect = Cardinality(Marked(s, "incorrect"))
  /\ s.correctKeystrokes >= s.correct
  /\ s.keystrokes - s.correctKeystrokes >= s.incorrect
  /\ s.finished <=> s.pos = Length

(* The passage's marks can be counted. *)
LEMMA MarkedFinite ==
  ASSUME NEW s, NEW x
  PROVE  IsFiniteSet(Marked(s, x)) /\ Cardinality(Marked(s, x)) \in Nat
<1>1. IsFiniteSet(Positions)
  BY LengthAssumption, FS_Interval DEF Positions
<1>2. Marked(s, x) \subseteq Positions
  BY DEF Marked
<1>3. QED
  BY <1>1, <1>2, FS_Subset, FS_CardinalityType

(* One character more, or less, to type. *)
LEMMA Behind ==
  ASSUME NEW n \in Nat, NEW p \in Nat
  PROVE  /\ ((p + 1)..n) \ {p + 1} = ((p + 1) + 1)..n
         /\ p \in 1..n => ((p + 1)..n) \cup {p} = ((p - 1) + 1)..n
OBVIOUS

(* A fresh passage has no mark of either kind and everything to type. *)
LEMMA NewAgrees == ASSUME NEW started \in BOOLEAN PROVE Agrees(New(started))
<1> DEFINE s == New(started)
<1>1. s \in Session
  BY LengthAssumption DEF New, Session, Positions, CharStates
<1>2. Marked(s, "untyped") = 1..Length /\ Marked(s, "correct") = {} /\ Marked(s, "incorrect") = {}
  BY DEF New, Marked, Positions
<1>3. /\ s.pos = 0 /\ s.correct = 0 /\ s.incorrect = 0 /\ s.keystrokes = 0
      /\ s.correctKeystrokes = 0 /\ s.finished = (Length = 0)
  BY DEF New
<1> HIDE DEF s
<1>4. /\ s.correct = Cardinality(Marked(s, "correct"))
      /\ s.incorrect = Cardinality(Marked(s, "incorrect"))
  BY <1>2, <1>3, FS_EmptySet
<1>5. s.pos + 1 = 1 /\ s.correctKeystrokes >= s.correct
      /\ s.keystrokes - s.correctKeystrokes >= s.incorrect
  BY <1>3
<1>6. Marked(s, "untyped") = (s.pos + 1)..Length
  BY <1>2, <1>5
<1>7. s.finished <=> s.pos = Length
  BY <1>3
<1>8. QED
  BY <1>1, <1>4, <1>5, <1>6, <1>7, Zenon DEF Agrees, s

(* What typing a character does to the marks: only the one at the cursor    *)
(* changes.                                                                 *)
LEMMA TypeMarks ==
  ASSUME NEW s, Agrees(s), ~s.finished, NEW right \in BOOLEAN
  PROVE  LET t == Type(s, right)
             mark == IF right THEN "correct" ELSE "incorrect"
         IN  /\ s.pos + 1 \in Positions
             /\ t.states \in [Positions -> CharStates]
             /\ \A x : Marked(t, x) = IF x = mark THEN Marked(s, x) \cup {s.pos + 1}
                                      ELSE Marked(s, x) \ {s.pos + 1}
<1> DEFINE t == Type(s, right)
           mark == IF right THEN "correct" ELSE "incorrect"
<1>1. s.pos \in 0..Length /\ s.pos # Length /\ s.states \in [Positions -> CharStates]
  BY DEF Agrees, Session
<1>2. s.pos + 1 \in Positions
  BY <1>1, LengthAssumption DEF Positions
<1>3. t.states = [s.states EXCEPT ![s.pos + 1] = mark]
  BY DEF Type
<1>4. mark \in CharStates
  BY DEF CharStates
<1>5. t.states \in [Positions -> CharStates]
  BY <1>1, <1>3, <1>4
<1>6. \A i \in Positions : t.states[i] = IF i = s.pos + 1 THEN mark ELSE s.states[i]
  BY <1>1, <1>3
<1>7. ASSUME NEW x
      PROVE  Marked(t, x) = IF x = mark THEN Marked(s, x) \cup {s.pos + 1}
                            ELSE Marked(s, x) \ {s.pos + 1}
  <2> HIDE DEF t, mark
  <2>1. QED
    BY <1>2, <1>6 DEF Marked
<1>8. QED
  BY <1>2, <1>5, <1>7

(* Typing keeps the counters and the marks together. *)
LEMMA TypeAgrees ==
  ASSUME NEW s, Agrees(s), NEW right \in BOOLEAN
  PROVE  Agrees(Type(s, right))
<1>1. CASE s.finished
  BY <1>1 DEF Type
<1>2. CASE ~s.finished
  <2> DEFINE t == Type(s, right)
             here == s.pos + 1
  <2>1. /\ here \in Positions
        /\ t.states \in [Positions -> CharStates]
        /\ \A x : Marked(t, x) = IF x = (IF right THEN "correct" ELSE "incorrect")
                                 THEN Marked(s, x) \cup {here} ELSE Marked(s, x) \ {here}
    BY <1>2, TypeMarks
  <2>2. /\ s.pos \in 0..Length /\ s.pos # Length /\ Length \in Nat
        /\ s.keystrokes \in Nat /\ s.correctKeystrokes \in Nat
        /\ s.correct \in Nat /\ s.incorrect \in Nat
    BY <1>2, LengthAssumption DEF Agrees, Session
  <2>3. /\ t.pos = s.pos + 1
        /\ t.keystrokes = s.keystrokes + 1
        /\ t.correctKeystrokes = s.correctKeystrokes + One(right)
        /\ t.correct = s.correct + One(right)
        /\ t.incorrect = s.incorrect + One(~right)
        /\ t.started = TRUE
        /\ t.finished = (s.pos + 1 = Length)
    BY <1>2 DEF Type
  <2>4. One(right) \in {0, 1} /\ One(~right) = 1 - One(right) /\ (One(right) = 1 <=> right)
    BY DEF One
  <2>5. t \in Session
    <3>1. t.pos \in 0..Length /\ t.keystrokes \in Nat /\ t.correctKeystrokes \in Nat
          /\ t.correct \in Nat /\ t.incorrect \in Nat
      <4> HIDE DEF t
      <4>1. QED
        BY <2>2, <2>3, <2>4
    <3>2. t = [states |-> t.states, pos |-> t.pos, keystrokes |-> t.keystrokes,
               correctKeystrokes |-> t.correctKeystrokes, correct |-> t.correct,
               incorrect |-> t.incorrect, started |-> t.started, finished |-> t.finished]
      BY <1>2 DEF Type
    <3>3. t.started \in BOOLEAN /\ t.finished \in BOOLEAN
      BY <1>2 DEF Type
    <3> HIDE DEF t
    <3>4. QED
      BY <2>1, <3>1, <3>2, <3>3 DEF Session
  <2>6. here \in Marked(s, "untyped")
    BY <2>2 DEF Agrees
  <2>7. here \notin Marked(s, "correct") /\ here \notin Marked(s, "incorrect")
    BY <2>6 DEF Marked
  <2> HIDE DEF t
  <2>8. Marked(t, "untyped") = (t.pos + 1)..Length
    <3>1. Marked(t, "untyped") = ((s.pos + 1)..Length) \ {here}
      BY <2>1 DEF Agrees
    <3>2. ((s.pos + 1)..Length) \ {s.pos + 1} = ((s.pos + 1) + 1)..Length
      BY <2>2, Behind
    <3>3. QED
      BY <2>3, <3>1, <3>2, Zenon
  <2>9. Cardinality(Marked(s, "correct") \cup {here}) = Cardinality(Marked(s, "correct")) + 1
    BY <2>7, MarkedFinite, FS_AddElement
  <2>10. Cardinality(Marked(s, "incorrect") \cup {here}) = Cardinality(Marked(s, "incorrect")) + 1
    BY <2>7, MarkedFinite, FS_AddElement
  <2>11. /\ Marked(t, "correct") = IF right THEN Marked(s, "correct") \cup {here} ELSE Marked(s, "correct")
         /\ Marked(t, "incorrect") = IF right THEN Marked(s, "incorrect") ELSE Marked(s, "incorrect") \cup {here}
    BY <2>1, <2>7
  <2>12. /\ s.correct = Cardinality(Marked(s, "correct"))
         /\ s.incorrect = Cardinality(Marked(s, "incorrect"))
         /\ s.correctKeystrokes >= s.correct
         /\ s.keystrokes - s.correctKeystrokes >= s.incorrect
    BY DEF Agrees
  <2>13. /\ t.correct = Cardinality(Marked(t, "correct"))
         /\ t.incorrect = Cardinality(Marked(t, "incorrect"))
    <3>1. CASE right
      <4>1. t.correct = s.correct + 1 /\ t.incorrect = s.incorrect
        BY <3>1, <2>2, <2>3 DEF One
      <4>2. QED
        BY <3>1, <4>1, <2>9, <2>11, <2>12, Zenon
    <3>2. CASE ~right
      <4>1. t.correct = s.correct /\ t.incorrect = s.incorrect + 1
        BY <3>2, <2>2, <2>3 DEF One
      <4>2. QED
        BY <3>2, <4>1, <2>10, <2>11, <2>12, Zenon
    <3>3. QED
      BY <3>1, <3>2
  <2>14. t.correctKeystrokes >= t.correct /\ t.keystrokes - t.correctKeystrokes >= t.incorrect
    BY <2>2, <2>3, <2>4, <2>12
  <2>15. QED
    BY <2>3, <2>5, <2>8, <2>13, <2>14 DEF Agrees, t
<1>3. QED
  BY <1>1, <1>2

(* So does taking a character back. *)
LEMMA BackspaceAgrees == ASSUME NEW s, Agrees(s) PROVE Agrees(Backspace(s))
<1>1. CASE s.finished \/ s.pos = 0
  BY <1>1 DEF Backspace
<1>2. CASE ~(s.finished \/ s.pos = 0)
  <2> DEFINE t == Backspace(s)
             here == s.pos
             old == s.states[here]
  <2>1. /\ s \in Session
        /\ s.pos \in 1..Length /\ s.pos # Length /\ Length \in Nat
        /\ s.keystrokes \in Nat /\ s.correctKeystrokes \in Nat
        /\ s.correct \in Nat /\ s.incorrect \in Nat
        /\ s.states \in [Positions -> CharStates]
    BY <1>2, LengthAssumption DEF Agrees, Session
  <2>2. here \in Positions
    BY <2>1 DEF Positions
  <2>3. old \in CharStates /\ old # "untyped"
    <3>1. here \notin Marked(s, "untyped")
      BY <2>1 DEF Agrees
    <3>2. QED
      BY <2>1, <2>2, <3>1 DEF Marked
  <2>4. old \in {"correct", "incorrect"}
    BY <2>3 DEF CharStates
  <2>5. t = [states |-> [s.states EXCEPT ![here] = "untyped"], pos |-> s.pos - 1,
             keystrokes |-> s.keystrokes, correctKeystrokes |-> s.correctKeystrokes,
             correct |-> s.correct - One(old = "correct"),
             incorrect |-> s.incorrect - One(old = "incorrect"),
             started |-> s.started, finished |-> s.finished]
    BY <1>2, <2>1 DEF Backspace, Session
  <2>6. /\ t.pos = s.pos - 1
        /\ t.keystrokes = s.keystrokes
        /\ t.correctKeystrokes = s.correctKeystrokes
        /\ t.correct = s.correct - One(old = "correct")
        /\ t.incorrect = s.incorrect - One(old = "incorrect")
        /\ t.finished = s.finished
        /\ t.states = [s.states EXCEPT ![here] = "untyped"]
    BY <2>5
  <2> HIDE DEF t
  <2>7. t.states \in [Positions -> CharStates]
    BY <2>1, <2>6 DEF CharStates
  <2>8. \A x : Marked(t, x) = IF x = "untyped" THEN Marked(s, x) \cup {here} ELSE Marked(s, x) \ {here}
    <3>1. \A i \in Positions : t.states[i] = IF i = here THEN "untyped" ELSE s.states[i]
      BY <2>1, <2>6
    <3>2. QED
      BY <2>2, <3>1 DEF Marked
  <2>9. /\ here \in Marked(s, old)
        /\ \A x : x # old => here \notin Marked(s, x)
    BY <2>2 DEF Marked
  <2>10. \A x : here \in Marked(s, x) =>
            /\ Cardinality(Marked(s, x) \ {here}) = Cardinality(Marked(s, x)) - 1
            /\ Cardinality(Marked(s, x) \ {here}) \in Nat
    BY MarkedFinite, FS_RemoveElement, FS_CardinalityType
  <2>12. /\ s.correct = Cardinality(Marked(s, "correct"))
         /\ s.incorrect = Cardinality(Marked(s, "incorrect"))
         /\ s.correctKeystrokes >= s.correct
         /\ s.keystrokes - s.correctKeystrokes >= s.incorrect
    BY DEF Agrees
  <2> HIDE DEF old
  <2>13. /\ t.correct = Cardinality(Marked(t, "correct")) /\ t.correct \in Nat
         /\ t.incorrect = Cardinality(Marked(t, "incorrect")) /\ t.incorrect \in Nat
         /\ t.correctKeystrokes >= t.correct
         /\ t.keystrokes - t.correctKeystrokes >= t.incorrect
    <3>1. CASE old = "correct"
      <4>1. /\ Marked(t, "correct") = Marked(s, old) \ {here}
            /\ Marked(t, "incorrect") = Marked(s, "incorrect")
        BY <3>1, <2>8, <2>9
      <4>2. t.correct = s.correct - 1 /\ t.incorrect = s.incorrect
        BY <3>1, <2>1, <2>6 DEF One
      <4>3. /\ t.correct = Cardinality(Marked(t, "correct"))
            /\ Cardinality(Marked(t, "correct")) \in Nat
        BY <3>1, <4>1, <4>2, <2>9, <2>10, <2>12, Zenon
      <4>4. t.incorrect = Cardinality(Marked(t, "incorrect"))
        BY <4>1, <4>2, <2>12, Zenon
      <4>5. QED
        BY <4>2, <4>3, <4>4, <2>1, <2>6, <2>12
    <3>2. CASE old = "incorrect"
      <4>1. /\ Marked(t, "incorrect") = Marked(s, old) \ {here}
            /\ Marked(t, "correct") = Marked(s, "correct")
        BY <3>2, <2>8, <2>9
      <4>2. t.incorrect = s.incorrect - 1 /\ t.correct = s.correct
        BY <3>2, <2>1, <2>6 DEF One
      <4>3. /\ t.incorrect = Cardinality(Marked(t, "incorrect"))
            /\ Cardinality(Marked(t, "incorrect")) \in Nat
        BY <3>2, <4>1, <4>2, <2>9, <2>10, <2>12, Zenon
      <4>4. t.correct = Cardinality(Marked(t, "correct"))
        BY <4>1, <4>2, <2>12, Zenon
      <4>5. QED
        BY <4>2, <4>3, <4>4, <2>1, <2>6, <2>12
    <3>3. QED
      BY <3>1, <3>2, <2>4
  <2>14. t \in Session
    <3>1. t.pos \in 0..Length
      BY <2>1, <2>6
    <3>2. s.started \in BOOLEAN /\ s.finished \in BOOLEAN
      BY <2>1 DEF Session
    <3>3. QED
      BY <2>1, <2>5, <2>6, <2>7, <2>13, <3>1, <3>2 DEF Session
  <2>15. Marked(t, "untyped") = (t.pos + 1)..Length
    <3>1. Marked(t, "untyped") = ((s.pos + 1)..Length) \cup {here}
      BY <2>8 DEF Agrees
    <3>2. ((s.pos + 1)..Length) \cup {s.pos} = ((s.pos - 1) + 1)..Length
      BY <2>1, Behind
    <3>3. QED
      BY <2>6, <3>1, <3>2, Zenon
  <2>16. t.finished <=> t.pos = Length
    <3>1. ~s.finished
      BY <1>2
    <3>2. QED
      BY <2>1, <2>6, <3>1
  <2>17. QED
    BY <2>13, <2>14, <2>15, <2>16 DEF Agrees, t
<1>3. QED
  BY <1>1, <1>2

(***************************************************************************)
(* For a passage of any length and any mix of typing and backspacing, the   *)
(* counters behind speed, accuracy and pay are the passage's own marks.     *)
(***************************************************************************)
THEOREM CountersTheorem == TypingSpec => []CountersAgree
<1>1. CountersAgree <=> Agrees(sess)
  BY DEF CountersAgree, Agrees
<1>2. TypingInit => CountersAgree
  BY <1>1, NewAgrees DEF TypingInit
<1>3. CountersAgree /\ [TypingNext]_sess => CountersAgree'
  <2> SUFFICES ASSUME CountersAgree, [TypingNext]_sess PROVE CountersAgree'
    OBVIOUS
  <2>1. Agrees(sess) /\ (CountersAgree' <=> Agrees(sess'))
    BY DEF CountersAgree, Agrees, Marked
  <2>2. ASSUME NEW right \in BOOLEAN, sess' = Type(sess, right) PROVE CountersAgree'
    BY <2>1, <2>2, TypeAgrees
  <2>3. CASE sess' = Backspace(sess)
    BY <2>1, <2>3, BackspaceAgrees
  <2>4. CASE UNCHANGED sess
    BY <2>1, <2>4
  <2>5. QED
    BY <2>2, <2>3, <2>4 DEF TypingNext
<1>4. QED
  BY <1>2, <1>3, PTL DEF TypingSpec

-----------------------------------------------------------------------------

(***************************************************************************)
(* Crossing the line earlier pays more: the place's kicker and the racers   *)
(* beaten both count. A place counts everyone who crossed and racers those  *)
(* who are still there, so a place past racers earns its kicker alone, and  *)
(* off the podium the last of them and whoever came after pay the same.     *)
(***************************************************************************)
THEOREM PlacesInOrder ==
  ASSUME NEW racers \in Nat, NEW p \in Nat \ {0}, NEW q \in Nat, p < q
  PROVE  /\ PlaceBonus(p, racers) >= PlaceBonus(q, racers)
         /\ p <= 3 \/ p < racers => PlaceBonus(p, racers) > PlaceBonus(q, racers)
<1> DEFINE beat(place) == Larger(0, racers - place)
<1>1. PlaceKicker(p) \in Nat /\ PlaceKicker(q) \in Nat /\ PlaceKicker(p) >= PlaceKicker(q)
  BY DEF PlaceKicker
<1>2. p <= 3 => PlaceKicker(p) > PlaceKicker(q)
  BY DEF PlaceKicker
<1>3. beat(p) \in Nat /\ beat(q) \in Nat /\ beat(p) >= beat(q)
  BY DEF Larger
<1>4. p < racers => beat(p) > beat(q)
  BY DEF Larger
<1>5. PlaceBonus(p, racers) = PlaceKicker(p) + 3 * beat(p)
      /\ PlaceBonus(q, racers) = PlaceKicker(q) + 3 * beat(q)
  BY DEF PlaceBonus, BeatenEach
<1> HIDE DEF beat
<1>6. QED
  BY <1>1, <1>2, <1>3, <1>4, <1>5

(* No bonus takes anything away, and none goes past its limit. *)
LEMMA SpeedBonusBounds ==
  ASSUME NEW wpm \in Int, NEW perByte \in Nat \ {0}, NEW limit \in Nat
  PROVE  SpeedBonus(wpm, perByte, limit) \in 0..limit
<1>1. CASE wpm <= 0
  BY <1>1 DEF SpeedBonus
<1>2. CASE wpm > 0
  <2>1. wpm \div perByte \in Nat
    BY <1>2
  <2>2. QED
    BY <1>2, <2>1 DEF SpeedBonus, Smaller
<1>3. QED
  BY <1>1, <1>2

(***************************************************************************)
(* Practising never pays better than racing: whatever is drawn, a finished  *)
(* race pays more than the same typing on the practice screen.              *)
(***************************************************************************)
THEOREM RaceBeatsPractice ==
  ASSUME NEW raceBase \in RaceBase, NEW practiceBase \in PracticeBase,
         NEW racers \in Nat, NEW place \in Nat \ {0},
         NEW wpm \in Int, NEW accuracy \in Accuracies
  PROVE  AwardRace(raceBase, place, racers, wpm, accuracy).total
           > AwardPractice(practiceBase, wpm, accuracy).total
<1> DEFINE race == SpeedBonus(wpm, 15, 10)
           practice == SpeedBonus(wpm, 25, 4)
<1>1. race \in Nat /\ practice \in 0..4
  <2>1. race \in 0..10 /\ practice \in 0..4
    <3>1. 15 \in Nat \ {0} /\ 25 \in Nat \ {0} /\ 10 \in Nat /\ 4 \in Nat
      OBVIOUS
    <3>2. QED
      BY <3>1, SpeedBonusBounds, Zenon
  <2>2. QED
    BY <2>1
<1>2. practice <= race
  <2>1. CASE wpm <= 0
    BY <2>1 DEF SpeedBonus
  <2>2. CASE wpm > 0
    <3>1. wpm \div 25 <= wpm \div 15 /\ wpm \div 25 \in Nat /\ wpm \div 15 \in Nat
      BY <2>2
    <3>2. QED
      BY <2>2, <3>1 DEF SpeedBonus, Smaller
  <2>3. QED
    BY <2>1, <2>2
<1>3. PlaceBonus(place, racers) \in Nat
  <2>1. PlaceKicker(place) \in Nat /\ Larger(0, racers - place) \in Nat
    BY DEF PlaceKicker, Larger
  <2>2. QED
    BY <2>1 DEF PlaceBonus, BeatenEach
<1>4. RaceAccuracyBonus(accuracy) \in Nat /\ PracticeAccuracyBonus(accuracy) \in Nat
      /\ PracticeAccuracyBonus(accuracy) <= RaceAccuracyBonus(accuracy) + 1
      /\ PracticeAccuracyBonus(accuracy) <= 4
  BY DEF RaceAccuracyBonus, PracticeAccuracyBonus
<1>5. AwardRace(raceBase, place, racers, wpm, accuracy).total
        = raceBase + PlaceBonus(place, racers) + RaceAccuracyBonus(accuracy) + race
  BY DEF AwardRace, Award
<1>6. \/ AwardPractice(practiceBase, wpm, accuracy).total = 0
      \/ AwardPractice(practiceBase, wpm, accuracy).total
           = practiceBase + 0 + PracticeAccuracyBonus(accuracy) + practice
  BY DEF AwardPractice, Award, NoAward
<1> HIDE DEF race, practice
<1>7. QED
  BY <1>1, <1>2, <1>3, <1>4, <1>5, <1>6 DEF RaceBase, PracticeBase

-----------------------------------------------------------------------------

(* A new attempt begins with counters that are its marks, and each key keeps  *)
(* them so.                                                                  *)
LEMMA CountersInit == PlayInit => CountersAgree
<1>1. CountersAgree <=> Agrees(sess)
  BY DEF CountersAgree, Agrees
<1>2. QED
  BY <1>1, NewAgrees DEF PlayInit

LEMMA CountersStep == CountersAgree /\ [PlayNext]_vars => CountersAgree'
<1> SUFFICES ASSUME CountersAgree, [PlayNext]_vars PROVE CountersAgree'
  OBVIOUS
<1>1. Agrees(sess) /\ (CountersAgree' <=> Agrees(sess'))
  BY DEF CountersAgree, Agrees, Marked
<1>2. ASSUME NEW right \in BOOLEAN, sess' = Type(sess, right) PROVE CountersAgree'
  BY <1>1, <1>2, TypeAgrees
<1>3. CASE sess' = Backspace(sess)
  BY <1>1, <1>3, BackspaceAgrees
<1>4. ASSUME NEW clock \in BOOLEAN, sess' = New(clock) PROVE CountersAgree'
  BY <1>1, <1>4, NewAgrees
<1>5. CASE UNCHANGED sess
  BY <1>1, <1>5
<1>6. CASE Keys
  <2>1. CASE OpenPractice \/ StartRace \/ Leave
    BY <1>4, <2>1, Zenon DEF OpenPractice, StartRace, Leave, Begin
  <2>2. CASE PracticeKey \/ RaceKey
    BY <1>2, <2>2, Zenon DEF PracticeKey, RaceKey
  <2>3. CASE BackspaceKey
    BY <1>3, <2>3 DEF BackspaceKey
  <2>4. CASE OpenShop \/ Refresh \/ CloseShop \/ Act \/ OpenLink \/ EnterCode \/ CloseLink
    BY <1>5, <2>4, Zenon DEF OpenShop, Refresh, CloseShop, Act, OpenLink, EnterCode, CloseLink
  <2>5. QED
    BY <1>6, <2>1, <2>2, <2>3, <2>4, Zenon DEF Keys
<1>7. CASE RaceEnded \/ WriteRun \/ BuyElsewhere
  BY <1>5, <1>7, Zenon DEF RaceEnded, WriteRun, BuyElsewhere
<1>8. ASSUME NEW d \in commands, CommandStep(d) \/ Deliver(d) PROVE CountersAgree'
  BY <1>5, <1>8, Zenon DEF CommandStep, Deliver
<1>9. CASE UNCHANGED vars
  BY <1>5, <1>9, Zenon DEF vars
<1>10. QED
  BY <1>6, <1>7, <1>8, <1>9, Zenon DEF PlayNext

(***************************************************************************)
(* The counters are still the marks in a session that starts attempts, ends *)
(* them and leaves them halfway: nothing of one attempt reaches the next.    *)
(***************************************************************************)
THEOREM PlayCountersTheorem == PlaySpec => []CountersAgree
  BY CountersInit, CountersStep, PTL DEF PlaySpec

-----------------------------------------------------------------------------

(* A command as its goroutine may leave it: one that redeems only redeems,   *)
(* and once it has, and the answer will be taken, it is the other account's. *)
CommandOK(d) ==
  /\ DOMAIN d = {"id", "kind", "user", "item", "wear", "step", "ahead", "wallet", "loaded", "error"}
  /\ d.kind \in CommandKinds
  /\ d.step \in {"flush", "wallet", "buy", "equip", "redeem", "answered"}
  /\ d.step \in {"buy", "equip"} => d.kind \in {"buy", "equip"}
  /\ d.step = "redeem" => d.kind = "redeem"
  /\ d.step # "answered" => d.error = "none"
  /\ d.kind = "redeem" /\ d.step \in {"wallet", "answered"} /\ d.error # "error" => d.user = Other

(* A redeem that has merged the accounts, and has yet to tell the session.   *)
Tells(d) == d.kind = "redeem" /\ d.step \in {"wallet", "answered"} /\ d.error # "error"

(* What a patient session and its commands are like at every moment: there   *)
(* is one command at most (one read, by patience, and no purchase beside it  *)
(* or another), a redeem keeps its screen up, and an account that was merged *)
(* away is only played for until the redeem that did it tells.               *)
OneCommand ==
  /\ IsFiniteSet(commands)
  /\ \A d, e \in commands : d = e
  /\ \A d \in commands : CommandOK(d)
  /\ \A d \in commands : d.kind = "redeem" => screen = "link"

ShopOK ==
  /\ DOMAIN shop = {"loading", "busy", "error", "wallet"}
  /\ {shop.loading, shop.busy} \subseteq BOOLEAN

LinkOK ==
  /\ DOMAIN ctx = {"user", "balance", "worn"}
  /\ merged \subseteq {Own}
  /\ ctx.user \in merged => \E d \in commands : Tells(d)

PatientInv == OneCommand /\ ShopOK /\ LinkOK /\ BusyIsInFlight

(* A set of one member at most has no two.                                  *)
LEMMA AtMostOne ==
  ASSUME NEW S, IsFiniteSet(S), Cardinality(S) <= 1
  PROVE  \A x, y \in S : x = y
<1>1. Cardinality(S) \in Nat
  BY FS_CardinalityType
<1>2. Cardinality(S) = 0 \/ Cardinality(S) = 1
  BY <1>1
<1>3. CASE Cardinality(S) = 0
  BY <1>3, FS_EmptySet
<1>4. CASE Cardinality(S) = 1
  <2>1. PICK x : S = {x}
    BY <1>4, FS_Singleton
  <2>2. QED
    BY <2>1
<1>5. QED
  BY <1>2, <1>3, <1>4

(* A step that leaves one command leaves it on its screen.                   *)
LEMMA StillOne ==
  ASSUME Patient', IsFiniteSet(commands'), \A d, e \in commands' : d = e,
         \A d \in commands' : CommandOK(d)
  PROVE  OneCommand'
  BY DEF Patient, OneCommand

(* A command is well formed when it begins: at its flush, or at its call.    *)
LEMMA NewCommand ==
  ASSUME NEW kind \in CommandKinds, NEW item, NEW wear, NEW step,
         \/ step = "flush"
         \/ step = kind /\ kind \in {"buy", "equip"}
  PROVE  CommandOK(Command(kind, item, wear, step)) /\ Command(kind, item, wear, step).kind = kind
<1> DEFINE c == Command(kind, item, wear, step)
<1>1. /\ DOMAIN c = {"id", "kind", "user", "item", "wear", "step", "ahead", "wallet", "loaded", "error"}
      /\ c.kind = kind /\ c.step = step /\ c.error = "none"
  BY DEF Command
<1> HIDE DEF c
<1>2. CommandOK(c)
  BY <1>1 DEF CommandOK, CommandKinds
<1>3. QED
  BY <1>1, <1>2 DEF c

(* A command that starts is alone: a read, as no purchase is under way and   *)
(* the session is patient; a purchase, as nothing is under way.              *)
LEMMA Starts ==
  ASSUME PatientInv, Patient', NEW c, CommandOK(c), Start(c),
         \/ ~Purchase(c) /\ \A d \in commands : ~Purchase(d)
         \/ commands = {}
  PROVE  OneCommand' /\ c \in commands' /\ \A d \in commands' : d = c
<1>1. commands' = commands \cup {c}
  BY DEF Start
<1>2. IsFiniteSet(commands')
  BY <1>1, FS_AddElement DEF PatientInv, OneCommand
<1>3. \A d \in commands' : CommandOK(d)
  BY <1>1 DEF PatientInv, OneCommand
<1>a. \A d, e \in commands' : d = e
  <2>1. CASE commands = {}
    BY <1>1, <2>1
  <2>2. CASE ~Purchase(c) /\ \A d \in commands : ~Purchase(d)
    <3> DEFINE reads == {d \in commands' : d.kind \in {"load", "redeem"}}
    <3>1. \A d \in commands' : ~Purchase(d)
      BY <1>1, <2>2
    <3>2. reads = commands'
      BY <1>3, <3>1 DEF CommandOK, CommandKinds, Purchase
    <3>3. Cardinality(reads) <= 1
      BY DEF Patient
    <3> HIDE DEF reads
    <3>4. QED
      BY <1>2, <3>2, <3>3, AtMostOne
  <2>3. QED
    BY <2>1, <2>2
<1>4. OneCommand'
  BY <1>2, <1>3, <1>a, StillOne
<1>5. c \in commands' /\ \A d, e \in commands' : d = e
  BY <1>1, <1>4 DEF OneCommand
<1>6. QED
  BY <1>4, <1>5

(* One step of a command's goroutine: the command it becomes is still of its *)
(* kind, and one that merges the accounts will tell.                         *)
LEMMA StepOfCommand ==
  ASSUME NEW d \in commands, CommandOK(d), CommandStep(d)
  PROVE  \E e : /\ Becomes(d, e)
                /\ CommandOK(e)
                /\ e.kind = d.kind
                /\ Tells(d) => Tells(e)
                /\ merged' = merged \/ (merged' = {Own} /\ Tells(e))
<1>1. CASE Flushed(d)
  <2> DEFINE e == [d EXCEPT !.step = IF d.kind = "redeem" THEN "redeem" ELSE "wallet"]
  <2>1. Becomes(d, e) /\ merged' = merged /\ d.step = "flush"
    BY <1>1 DEF Flushed, stored
  <2>2. CommandOK(e) /\ e.kind = d.kind
    BY <2>1 DEF CommandOK, CommandKinds
  <2>3. QED
    BY <2>1, <2>2, Zenon DEF Tells
<1>2. CASE ReadWallet(d)
  <2> DEFINE e == [d EXCEPT !.step = "answered", !.wallet = WalletOf(accounts[d.user]), !.loaded = TRUE]
  <2>1. Becomes(d, e) /\ merged' = merged /\ d.step = "wallet"
    BY <1>2 DEF ReadWallet, Answers, stored
  <2>2. CommandOK(e) /\ e.kind = d.kind /\ (Tells(d) => Tells(e))
    BY <2>1 DEF CommandOK, CommandKinds, Tells
  <2>3. QED
    BY <2>1, <2>2
<1>3. ASSUME Refuses(d), d.step \in {"buy", "equip"}, merged' = merged
      PROVE  \E e : /\ Becomes(d, e)
                    /\ CommandOK(e)
                    /\ e.kind = d.kind
                    /\ Tells(d) => Tells(e)
                    /\ merged' = merged \/ (merged' = {Own} /\ Tells(e))
  <2> DEFINE e == [d EXCEPT !.step = "answered", !.error = "refusal"]
  <2>1. CommandOK(e) /\ e.kind = d.kind /\ (Tells(d) => Tells(e))
    BY <1>3 DEF CommandOK, CommandKinds, Tells
  <2>2. QED
    BY <1>3, <2>1 DEF Refuses
<1>4. CASE Buy(d)
  <2>1. ASSUME NEW wallet, merged' = merged,
               Becomes(d, [d EXCEPT !.step = "equip", !.wallet = wallet, !.loaded = TRUE])
        PROVE  \E e : /\ Becomes(d, e)
                      /\ CommandOK(e)
                      /\ e.kind = d.kind
                      /\ Tells(d) => Tells(e)
                      /\ merged' = merged \/ (merged' = {Own} /\ Tells(e))
    <3> DEFINE e == [d EXCEPT !.step = "equip", !.wallet = wallet, !.loaded = TRUE]
    <3>1. CommandOK(e) /\ e.kind = d.kind /\ (Tells(d) => Tells(e))
      BY <1>4 DEF CommandOK, CommandKinds, Tells, Buy
    <3>2. QED
      BY <2>1, <3>1
  <2>2. CASE Refuses(d) /\ UNCHANGED stored
    BY <1>3, <1>4, <2>2 DEF Buy, stored
  <2>3. QED
    BY <1>4, <2>1, <2>2, Zenon DEF Buy
<1>5. CASE Equip(d)
  <2>1. ASSUME NEW wallet, merged' = merged, Answers(d, wallet)
        PROVE  \E e : /\ Becomes(d, e)
                      /\ CommandOK(e)
                      /\ e.kind = d.kind
                      /\ Tells(d) => Tells(e)
                      /\ merged' = merged \/ (merged' = {Own} /\ Tells(e))
    <3> DEFINE e == [d EXCEPT !.step = "answered", !.wallet = wallet, !.loaded = TRUE]
    <3>1. CommandOK(e) /\ e.kind = d.kind /\ (Tells(d) => Tells(e))
      BY <1>5 DEF CommandOK, CommandKinds, Tells, Equip
    <3>2. QED
      BY <2>1, <3>1 DEF Answers
  <2>2. CASE Refuses(d) /\ UNCHANGED stored
    BY <1>3, <1>5, <2>2 DEF Equip, stored
  <2>3. QED
    BY <1>5, <2>1, <2>2, Zenon DEF Equip
<1>6. CASE Redeem(d)
  <2> DEFINE e == [d EXCEPT !.step = "wallet", !.user = Other]
  <2>1. Becomes(d, e) /\ merged' = {Own} /\ d.step = "redeem"
    BY <1>6 DEF Redeem
  <2>2. CommandOK(e) /\ e.kind = d.kind /\ Tells(e)
    BY <2>1 DEF CommandOK, CommandKinds, Tells
  <2>3. QED
    BY <2>1, <2>2
<1>7. CASE Fails(d)
  <2> DEFINE e == [d EXCEPT !.step = "answered",
                            !.error = IF d.kind = "redeem" /\ d.step = "wallet"
                                      THEN "unread" ELSE "error"]
  <2>1. Becomes(d, e) /\ merged' = merged /\ d.step # "answered"
    BY <1>7 DEF Fails, stored
  <2>2. CommandOK(e) /\ e.kind = d.kind /\ (Tells(d) => Tells(e))
    BY <2>1 DEF CommandOK, CommandKinds, Tells
  <2>3. QED
    BY <2>1, <2>2
<1>8. QED
  BY <1>1, <1>2, <1>4, <1>5, <1>6, <1>7, Zenon DEF CommandStep

(* The queue's worker shortens a command's wait and nothing else of it.      *)
LEMMA WaitsLess ==
  ASSUME PatientInv, Patient', WriteRun
  PROVE  PatientInv'
<1> DEFINE f(d) == [d EXCEPT !.ahead = IF @ > 0 THEN @ - 1 ELSE 0]
<1>1. commands' = {f(d) : d \in commands}
  BY DEF WriteRun
<1>2. ASSUME NEW d \in commands
      PROVE  CommandOK(f(d)) /\ f(d).kind = d.kind /\ (Tells(d) => Tells(f(d)))
  BY DEF PatientInv, OneCommand, CommandOK, CommandKinds, Tells
<1> HIDE DEF f
<1>3. IsFiniteSet(commands')
  <2>1. CASE commands = {}
    BY <1>1, <2>1, FS_EmptySet
  <2>2. CASE commands # {}
    <3>1. PICK d : d \in commands
      BY <2>2
    <3>2. commands' = {f(d)}
      BY <1>1, <3>1 DEF PatientInv, OneCommand
    <3>3. QED
      BY <3>2, FS_Singleton
  <2>3. QED
    BY <2>1, <2>2
<1>4. OneCommand'
  <2>1. \A d, e \in commands' : d = e
    BY <1>1 DEF PatientInv, OneCommand
  <2>2. QED
    BY <1>1, <1>2, <1>3, <2>1, StillOne
<1>5. UNCHANGED <<screen, shop, ctx, merged>>
  BY DEF WriteRun
<1>6. \A kind : (\E d \in commands : d.kind = kind) <=> (\E d \in commands' : d.kind = kind)
  BY <1>1, <1>2
<1>7. (\E d \in commands : Purchase(d)) <=> (\E d \in commands' : Purchase(d))
  BY <1>6 DEF Purchase
<1>8. BusyIsInFlight'
  BY <1>4, <1>5, <1>6, <1>7 DEF PatientInv, BusyIsInFlight, OneCommand
<1>9. (\E d \in commands : Tells(d)) => \E d \in commands' : Tells(d)
  BY <1>1, <1>2
<1>10. ShopOK' /\ LinkOK'
  BY <1>5, <1>9 DEF PatientInv, ShopOK, LinkOK
<1>11. QED
  BY <1>4, <1>8, <1>10 DEF PatientInv

(* Keys that start no command, and whatever else leaves the commands alone.  *)
LEMMA CommandsAlone ==
  ASSUME PatientInv, Patient', UNCHANGED <<commands, merged>>,
         DOMAIN ctx' = DOMAIN ctx, ctx'.user = ctx.user,
         \/ UNCHANGED <<screen, shop>>
         \/ /\ screen' # "shop" /\ (UNCHANGED shop \/ shop' = ShopClosed)
            /\ screen # "shop" \/ ~shop.busy
  PROVE  PatientInv'
<1>1. OneCommand'
  BY StillOne DEF PatientInv, OneCommand
<1>2. ShopOK'
  <2>1. CASE shop' = shop
    BY <2>1 DEF PatientInv, ShopOK
  <2>2. CASE shop' = ShopClosed
    BY <2>2 DEF ShopOK, ShopClosed
  <2>3. QED
    BY <2>1, <2>2
<1>3. LinkOK'
  BY DEF PatientInv, LinkOK
<1>4. BusyIsInFlight'
  BY DEF PatientInv, BusyIsInFlight
<1>5. QED
  BY <1>1, <1>2, <1>3, <1>4 DEF PatientInv

(* Paying for an attempt changes the balance, not whose session it is.       *)
LEMMA EarnKeepsAccount ==
  ASSUME PatientInv, NEW award, Earn(award)
  PROVE  DOMAIN ctx' = DOMAIN ctx /\ ctx'.user = ctx.user
BY DEF Earn, PatientInv, LinkOK

(* A key that starts a command: an opened or reloaded shop is loading, a      *)
(* purchase is pending, and a redeem starts on its own screen.                *)
LEMMA KeyStarts ==
  ASSUME PatientInv, Patient', OpenShop \/ Refresh \/ Act \/ EnterCode
  PROVE  PatientInv'
<1>1. ASSUME NEW c, CommandOK(c), Start(c), UNCHANGED <<merged, ctx>>,
             \/ ~Purchase(c) /\ \A d \in commands : ~Purchase(d)
             \/ commands = {}
      PROVE  OneCommand' /\ LinkOK' /\ c \in commands' /\ \A d \in commands' : d = c
  <2>1. OneCommand' /\ c \in commands' /\ \A d \in commands' : d = c
    BY <1>1, Starts
  <2>2. commands \subseteq commands'
    BY <1>1 DEF Start
  <2>3. LinkOK'
    BY <1>1, <2>2 DEF PatientInv, LinkOK
  <2>4. QED
    BY <2>1, <2>3
<1>2. CommandOK(Load) /\ Load.kind = "load" /\ ~Purchase(Load)
  BY NewCommand DEF Load, CommandKinds, Purchase
<1>3. CASE OpenShop \/ Refresh
  <2>1. Start(Load) /\ UNCHANGED <<merged, ctx>> /\ \A d \in commands : ~Purchase(d)
    BY <1>3 DEF OpenShop, Refresh, stored, PatientInv, BusyIsInFlight
  <2>2. OneCommand' /\ LinkOK' /\ Load \in commands' /\ \A d \in commands' : d = Load
    BY <1>1, <1>2, <2>1
  <2>3. ShopOK' /\ shop'.busy = FALSE /\ shop'.loading = TRUE
    <3>1. CASE OpenShop
      BY <3>1 DEF OpenShop, ShopOK, ShopClosed
    <3>2. CASE Refresh
      BY <3>2 DEF Refresh, PatientInv, ShopOK
    <3>3. QED
      BY <1>3, <3>1, <3>2
  <2>4. BusyIsInFlight'
    BY <1>2, <2>2, <2>3 DEF BusyIsInFlight, Purchase
  <2>5. QED
    BY <2>2, <2>3, <2>4 DEF PatientInv
<1>4. CASE Act
  <2>1. PICK item \in Cosmetics, kind \in {"buy", "equip"}, wear \in BOOLEAN :
          Start(Command(kind, item, wear, kind))
    BY <1>4 DEF Act
  <2> DEFINE c == Command(kind, item, wear, kind)
  <2>2. CommandOK(c) /\ c.kind \in {"buy", "equip"}
    BY NewCommand DEF CommandKinds
  <2>a. commands = {}
    <3>1. screen = "shop" /\ ~shop.loading /\ ~shop.busy
      BY <1>4 DEF Act, FreeToAct
    <3>2. \A d \in commands : ~Purchase(d) /\ d.kind # "load" /\ d.kind # "redeem" /\ CommandOK(d)
      BY <3>1 DEF PatientInv, OneCommand, BusyIsInFlight
    <3>3. QED
      BY <3>2 DEF Purchase, CommandOK, CommandKinds
  <2>3. Start(c) /\ UNCHANGED <<merged, ctx>>
    BY <1>4, <2>1 DEF Act, stored
  <2> HIDE DEF c
  <2>4. OneCommand' /\ LinkOK' /\ c \in commands' /\ \A d \in commands' : d = c
    BY <1>1, <2>2, <2>3, <2>a
  <2>5. ShopOK' /\ shop'.busy = TRUE /\ shop'.loading = FALSE /\ screen' = "shop"
    BY <1>4 DEF Act, FreeToAct, PatientInv, ShopOK
  <2>6. BusyIsInFlight'
    BY <2>2, <2>4, <2>5 DEF BusyIsInFlight, Purchase
  <2>7. QED
    BY <2>4, <2>5, <2>6 DEF PatientInv
<1>5. CASE EnterCode
  <2> DEFINE c == Command("redeem", AnyItem, FALSE, "flush")
  <2>1. CommandOK(c) /\ ~Purchase(c)
    BY NewCommand DEF CommandKinds, Purchase
  <2>2. Start(c) /\ UNCHANGED <<merged, ctx, shop, screen>> /\ screen = "link"
    BY <1>5 DEF EnterCode, stored
  <2> HIDE DEF c
  <2>a. \A d \in commands : ~Purchase(d)
    BY <2>2 DEF PatientInv, BusyIsInFlight
  <2>3. OneCommand' /\ LinkOK' /\ \A d \in commands' : d = c
    BY <1>1, <2>1, <2>2, <2>a
  <2>4. ShopOK' /\ BusyIsInFlight'
    BY <2>1, <2>2, <2>3 DEF PatientInv, ShopOK, BusyIsInFlight
  <2>5. QED
    BY <2>3, <2>4 DEF PatientInv
<1>6. QED
  BY <1>3, <1>4, <1>5

(* What a goroutine does to its command leaves the session as it was.        *)
LEMMA GoroutineSteps ==
  ASSUME PatientInv, Patient', NEW d \in commands, CommandStep(d)
  PROVE  PatientInv'
<1>1. commands = {d} /\ CommandOK(d)
  BY DEF PatientInv, OneCommand
<1>2. PICK e : /\ Becomes(d, e)
               /\ CommandOK(e)
               /\ e.kind = d.kind
               /\ Tells(d) => Tells(e)
               /\ merged' = merged \/ (merged' = {Own} /\ Tells(e))
  BY <1>1, StepOfCommand
<1>3. commands' = {e}
  BY <1>1, <1>2 DEF Becomes
<1>4. OneCommand'
  BY <1>2, <1>3, FS_Singleton, StillOne
<1>5. UNCHANGED <<screen, shop, ctx>>
  BY DEF CommandStep
<1>6. ShopOK'
  BY <1>5 DEF PatientInv, ShopOK
<1>7. LinkOK'
  BY <1>1, <1>2, <1>3, <1>5 DEF PatientInv, LinkOK
<1>8. BusyIsInFlight'
  BY <1>1, <1>2, <1>3, <1>5 DEF PatientInv, BusyIsInFlight, Purchase
<1>9. QED
  BY <1>4, <1>6, <1>7, <1>8 DEF PatientInv

(* An answer, taken or dropped. A redeem's is never dropped, unless it says  *)
(* that nothing was merged: its screen is up.                                *)
LEMMA AnswersArrive ==
  ASSUME PatientInv, Patient', NEW d \in commands, Deliver(d)
  PROVE  PatientInv'
<1>1. commands = {d} /\ CommandOK(d) /\ d.step = "answered"
  BY DEF PatientInv, OneCommand, Deliver
<1>2. UNCHANGED <<screen, merged>>
  BY DEF Deliver, stored
<1>3. d.kind = "redeem" => screen = "link"
  BY DEF PatientInv, OneCommand
<1>4. ASSUME commands' = commands \ {d} PROVE commands' = {} /\ OneCommand'
  <2>1. commands' = {}
    BY <1>1, <1>4
  <2>2. QED
    BY <2>1, FS_EmptySet, StillOne
<1>5. CASE ShowWallet(d)
  <2>1. commands' = {} /\ OneCommand'
    BY <1>4, <1>5 DEF ShowWallet
  <2>2. d.kind # "redeem" /\ ~Tells(d)
    BY <1>5 DEF ShowWallet, ToShop, Tells
  <2>3. ShopOK' /\ shop'.busy = FALSE /\ shop'.loading = FALSE
    BY <1>5 DEF ShowWallet, ShopOK, ShopClosed
  <2>4. LinkOK'
    BY <1>1, <1>2, <1>5, <2>2 DEF ShowWallet, ApplyWallet, PatientInv, LinkOK
  <2>5. QED
    BY <2>1, <2>3, <2>4 DEF PatientInv, BusyIsInFlight
<1>6. CASE ShowRefusal(d)
  <2> DEFINE c == [Load EXCEPT !.id = d.id]
  <2>1. CommandOK(Load) /\ Load.kind = "load"
    BY NewCommand DEF Load, CommandKinds
  <2>2. CommandOK(c) /\ c.kind = "load"
    BY <2>1 DEF CommandOK, CommandKinds
  <2>3. commands' = {c}
    BY <1>1, <1>6 DEF ShowRefusal, Becomes
  <2> HIDE DEF c
  <2>4. OneCommand'
    BY <2>2, <2>3, FS_Singleton, StillOne
  <2>5. ShopOK' /\ shop'.busy = FALSE /\ shop'.loading = TRUE /\ UNCHANGED ctx
    BY <1>6 DEF ShowRefusal, PatientInv, ShopOK
  <2>6. ~Tells(d)
    BY <1>6 DEF ShowRefusal, ToShop, Tells
  <2>7. LinkOK'
    BY <1>1, <1>2, <2>5, <2>6 DEF PatientInv, LinkOK
  <2>8. BusyIsInFlight'
    BY <2>2, <2>3, <2>5 DEF BusyIsInFlight, Purchase
  <2>9. QED
    BY <2>4, <2>5, <2>7, <2>8 DEF PatientInv
<1>7. CASE ShowError(d)
  <2>1. commands' = {} /\ OneCommand'
    BY <1>4, <1>7 DEF ShowError
  <2>2. ShopOK' /\ shop'.busy = FALSE /\ shop'.loading = FALSE /\ UNCHANGED ctx
    BY <1>7 DEF ShowError, PatientInv, ShopOK
  <2>3. ~Tells(d)
    BY <1>7 DEF ShowError, ToShop, Tells
  <2>4. LinkOK'
    BY <1>1, <1>2, <2>2, <2>3 DEF PatientInv, LinkOK
  <2>5. QED
    BY <2>1, <2>2, <2>4 DEF PatientInv, BusyIsInFlight
<1>8. CASE Linked(d)
  <2>1. commands' = {} /\ OneCommand'
    BY <1>4, <1>8 DEF Linked
  <2>2. screen = "link" /\ UNCHANGED shop /\ d.user = Other
    BY <1>1, <1>8 DEF Linked, ToLink, CommandOK
  <2>3. DOMAIN ctx' = {"user", "balance", "worn"} /\ ctx'.user = Other
    BY <1>8, <2>2 DEF Linked, ApplyWallet
  <2>4. LinkOK'
    BY <1>2, <2>3, AccountsDiffer DEF PatientInv, LinkOK
  <2>5. QED
    BY <1>2, <2>1, <2>2, <2>4 DEF PatientInv, BusyIsInFlight, ShopOK
<1>9. CASE Dropped(d)
  <2>1. commands' = {} /\ OneCommand' /\ UNCHANGED <<shop, ctx>>
    BY <1>4, <1>9 DEF Dropped
  <2>2. ~Tells(d) /\ screen # "shop"
    BY <1>1, <1>3, <1>9 DEF Dropped, ToLink, ToShop, Tells, CommandOK, CommandKinds
  <2>3. LinkOK'
    BY <1>1, <1>2, <2>1, <2>2 DEF PatientInv, LinkOK
  <2>4. QED
    BY <1>2, <2>1, <2>2, <2>3 DEF PatientInv, BusyIsInFlight, ShopOK
<1>10. QED
  BY <1>5, <1>6, <1>7, <1>8, <1>9, Zenon DEF Deliver

(* All of it holds of a patient session at every moment.                     *)
LEMMA PatientInvHolds == PatientSpec => []PatientInv
<1>1. PlayInit => PatientInv
  <2> SUFFICES ASSUME PlayInit PROVE PatientInv
    OBVIOUS
  <2>1. commands = {} /\ merged = {} /\ screen = "menu" /\ shop = ShopClosed
    BY DEF PlayInit
  <2>2. DOMAIN ctx = {"user", "balance", "worn"}
    BY DEF PlayInit
  <2>3. OneCommand /\ LinkOK
    BY <2>1, <2>2, FS_EmptySet DEF OneCommand, LinkOK
  <2>4. ShopOK /\ BusyIsInFlight
    BY <2>1 DEF ShopOK, ShopClosed, BusyIsInFlight
  <2>5. QED
    BY <2>3, <2>4 DEF PatientInv
<1>2. PatientInv /\ [PlayNext /\ Patient']_vars => PatientInv'
  <2> SUFFICES ASSUME PatientInv, [PlayNext /\ Patient']_vars PROVE PatientInv'
    OBVIOUS
  <2>1. CASE UNCHANGED vars
    BY <2>1 DEF vars, stored, PatientInv, OneCommand, ShopOK, LinkOK, BusyIsInFlight
  <2>2. CASE Patient' /\ Keys
    <3>1. CASE OpenPractice \/ StartRace \/ Leave
      BY <2>2, <3>1, CommandsAlone DEF OpenPractice, StartRace, Leave, Begin, stored
    <3>2. CASE PracticeKey
      <4>1. /\ screen = "practice"
            /\ \/ UNCHANGED <<screen, ctx>>
               \/ screen' = "results" /\ \E award : Earn(award)
        BY <3>2 DEF PracticeKey
      <4>2. UNCHANGED <<shop, commands, merged>>
        BY <3>2 DEF PracticeKey, stored
      <4>3. QED
        BY <2>2, <4>1, <4>2, CommandsAlone, EarnKeepsAccount
    <3>3. CASE RaceKey \/ BackspaceKey \/ OpenLink
      BY <2>2, <3>3, CommandsAlone DEF RaceKey, BackspaceKey, OpenLink, stored
    <3>4. CASE CloseShop \/ CloseLink
      BY <2>2, <3>4, CommandsAlone DEF CloseShop, CloseLink, stored
    <3>5. CASE OpenShop \/ Refresh \/ Act \/ EnterCode
      BY <2>2, <3>5, KeyStarts
    <3>6. QED
      BY <2>2, <3>1, <3>2, <3>3, <3>4, <3>5, Zenon DEF Keys
  <2>3. CASE Patient' /\ RaceEnded
    <3>1. UNCHANGED ctx \/ \E award : Earn(award)
      BY <2>3 DEF RaceEnded
    <3>2. screen = "race" /\ screen' = "results" /\ UNCHANGED <<shop, commands, merged>>
      BY <2>3 DEF RaceEnded, stored
    <3>3. QED
      BY <2>3, <3>1, <3>2, CommandsAlone, EarnKeepsAccount
  <2>4. CASE Patient' /\ WriteRun
    BY <2>4, WaitsLess
  <2>5. CASE Patient' /\ BuyElsewhere
    BY <2>5, CommandsAlone DEF BuyElsewhere
  <2>6. ASSUME Patient', NEW d \in commands, CommandStep(d) \/ Deliver(d) PROVE PatientInv'
    BY <2>6, GoroutineSteps, AnswersArrive
  <2>7. QED
    BY <2>1, <2>2, <2>3, <2>4, <2>5, <2>6, Zenon DEF PlayNext
<1>3. QED
  BY <1>1, <1>2, PTL DEF PatientSpec

(***************************************************************************)
(* Whatever the prices, the queue and the failures: where one read, of a    *)
(* wallet or of a code, answers before the next starts, the shop's guards   *)
(* (shop.go:205, 221, 238) leave one purchase at a time and the shop only   *)
(* when it has answered, busy says that one is under way and loading that a *)
(* read is, so neither is left behind by an answer that came.               *)
(***************************************************************************)
THEOREM BusyTheorem == PatientSpec => []BusyIsInFlight
<1>1. PatientInv => BusyIsInFlight
  BY DEF PatientInv
<1>2. QED
  BY <1>1, PatientInvHolds, PTL

(***************************************************************************)
(* Waiting at the link screen is all it takes: a session that does never    *)
(* plays on for an account that was merged away (a session in a hurry may:  *)
(* the counterexample of MCPlayLink.cfg).                                   *)
(***************************************************************************)
THEOREM LinkTheorem == PatientSpec => []PlaysForALiveAccount
<1>1. PatientInv => PlaysForALiveAccount
  BY DEF PatientInv, LinkOK, PlaysForALiveAccount
<1>2. QED
  BY <1>1, PatientInvHolds, PTL

-----------------------------------------------------------------------------

(* What is bought and worn has a price. *)
LEMMA SpentType == ASSUME NEW items \in SUBSET Cosmetics PROVE Spent(items) \in Int
<1>1. IsFiniteSet(items) /\ \A c \in items : Price[c] \in Int
  BY PricesAssumption, FS_Subset
<1>2. PICK g : Sums(g, Price, items) /\ Spent(items) = g[items]
  <2>1. \E g : Sums(g, Price, items)
    BY <1>1, SumsExist
  <2>2. QED
    BY <2>1, Zenon DEF Sums, Spent, MapThenSumSet, MapThenFoldSet, Pick
<1>3. QED
  BY <1>1, <1>2, SumsAdd

Account == [earned : Nat, owned : SUBSET Cosmetics, worn : SUBSET Cosmetics]

Run == [user : Accounts, earned : Nat]

(* The types of everything but the attempt and the commands. *)
SessionTypes ==
  /\ screen \in Screens
  /\ raced \in BOOLEAN
  /\ shop \in [loading : BOOLEAN, busy : BOOLEAN, error : BOOLEAN, wallet : Wallets]
  /\ ctx \in [user : Accounts \cup {None}, balance : Int, worn : SUBSET Cosmetics]
  /\ queue \in Seq(Run) /\ Len(queue) <= QueueSize
  /\ lost \in Nat
  /\ known \in BOOLEAN
  /\ screen \in {"shop", "link"} => Tracking

StoredTypes ==
  /\ accounts \in [Accounts -> Account]
  /\ merged \subseteq {Own}
  /\ elsewhere \in BOOLEAN

(* Commands are numbered as they begin, and a number is not given twice. *)
CommandTypes ==
  /\ begun \in 0..MaxCommands
  /\ commands \subseteq Commands
  /\ \A d, e \in commands : d.id = e.id => d = e
  /\ \A d \in commands : d.id <= begun

PlayTypeInv == CountersAgree /\ SessionTypes /\ StoredTypes /\ CommandTypes

(* An account has a wallet, whatever it owns.                                *)
LEMMA WalletType == ASSUME NEW account \in Account PROVE WalletOf(account) \in Wallets
<1>1. account.earned \in Nat /\ account.owned \in SUBSET Cosmetics /\ account.worn \in SUBSET Cosmetics
  BY DEF Account
<1>2. account.earned - Spent(account.owned) \in Int
  BY <1>1, SpentType
<1>3. QED
  BY <1>1, <1>2 DEF WalletOf, Wallets

(* So has a shop that has read none yet.                                     *)
LEMMA NoWalletType == NoWallet \in Wallets
  BY DEF NoWallet, Wallets

(* No attempt costs bytes: an award is a number from nothing up.             *)
LEMMA AwardTypes ==
  ASSUME NEW wpm \in WPMs, NEW accuracy
  PROVE  /\ \A base \in PracticeBase : AwardPractice(base, wpm, accuracy).total \in Nat
         /\ \A base \in RaceBase, place \in 1..MaxRacers, racers \in 1..MaxRacers :
              AwardRace(base, place, racers, wpm, accuracy).total \in Nat
<1> DEFINE race == SpeedBonus(wpm, 15, 10)
           practice == SpeedBonus(wpm, 25, 4)
<1>1. race \in Nat /\ practice \in Nat
  <2>1. 15 \in Nat \ {0} /\ 25 \in Nat \ {0} /\ 10 \in Nat /\ 4 \in Nat /\ wpm \in Int
    BY PlayBounds
  <2>2. race \in 0..10 /\ practice \in 0..4
    BY <2>1, SpeedBonusBounds, Zenon
  <2>3. QED
    BY <2>2
<1>2. RaceAccuracyBonus(accuracy) \in Nat /\ PracticeAccuracyBonus(accuracy) \in Nat
  BY DEF RaceAccuracyBonus, PracticeAccuracyBonus
<1>3. ASSUME NEW base \in PracticeBase PROVE AwardPractice(base, wpm, accuracy).total \in Nat
  <2>1. \/ AwardPractice(base, wpm, accuracy).total = 0
        \/ AwardPractice(base, wpm, accuracy).total
             = base + 0 + PracticeAccuracyBonus(accuracy) + practice
    BY DEF AwardPractice, Award, NoAward
  <2>2. base \in Nat
    BY DEF PracticeBase
  <2> HIDE DEF practice
  <2>3. QED
    BY <1>1, <1>2, <2>1, <2>2
<1>4. ASSUME NEW base \in RaceBase, NEW place \in 1..MaxRacers, NEW racers \in 1..MaxRacers
      PROVE  AwardRace(base, place, racers, wpm, accuracy).total \in Nat
  <2>1. place \in Nat \ {0} /\ racers \in Nat
    BY PlayBounds
  <2>2. PlaceBonus(place, racers) \in Nat
    <3>1. PlaceKicker(place) \in Nat /\ Larger(0, racers - place) \in Nat
      BY <2>1 DEF PlaceKicker, Larger
    <3>2. QED
      BY <3>1 DEF PlaceBonus, BeatenEach
  <2>3. AwardRace(base, place, racers, wpm, accuracy).total
          = base + PlaceBonus(place, racers) + RaceAccuracyBonus(accuracy) + race
    BY <2>1 DEF AwardRace, Award
  <2>4. base \in Nat
    BY DEF RaceBase
  <2> HIDE DEF race
  <2>5. QED
    BY <1>1, <1>2, <2>2, <2>3, <2>4
<1>5. QED
  BY <1>3, <1>4

(* Paying for an attempt leaves a queue of runs, within its bound.           *)
LEMMA EarnTypes ==
  ASSUME SessionTypes, NEW award, award.total \in Nat, Earn(award)
  PROVE  /\ ctx' \in [user : Accounts \cup {None}, balance : Int, worn : SUBSET Cosmetics]
         /\ ctx'.user = ctx.user
         /\ queue' \in Seq(Run) /\ Len(queue') <= QueueSize
         /\ lost' \in Nat
<1>1. CASE UNCHANGED <<ctx, queue, lost>>
  BY <1>1 DEF SessionTypes
<1>2. CASE Tracking /\ ctx' = [ctx EXCEPT !.balance = @ + award.total]
           /\ Record([user |-> ctx.user, earned |-> award.total])
  <2> DEFINE run == [user |-> ctx.user, earned |-> award.total]
  <2>1. run \in Run
    BY <1>2 DEF Tracking, SessionTypes, Run
  <2>2. ctx.balance + award.total \in Int
    BY DEF SessionTypes
  <2>3. /\ ctx' \in [user : Accounts \cup {None}, balance : Int, worn : SUBSET Cosmetics]
        /\ ctx'.user = ctx.user
    BY <1>2, <2>2 DEF SessionTypes
  <2>4. CASE Len(queue) < QueueSize
    <3>1. queue' = Append(queue, run) /\ lost' = lost
      BY <1>2, <2>4 DEF Record
    <3> HIDE DEF run
    <3>2. QED
      BY <2>1, <2>3, <2>4, <3>1, PlayBounds DEF SessionTypes
  <2>5. CASE ~(Len(queue) < QueueSize)
    <3>1. queue' = queue /\ lost' = lost + award.total
      BY <1>2, <2>5 DEF Record
    <3>2. QED
      BY <2>3, <3>1 DEF SessionTypes
  <2>6. QED
    BY <2>4, <2>5
<1>3. QED
  BY <1>1, <1>2, Zenon DEF Earn

(* Keys and the end of a race, which start no command. *)
LEMMA PlainTypes ==
  ASSUME PlayTypeInv,
         \/ OpenPractice \/ StartRace \/ Leave \/ PracticeKey \/ RaceKey \/ BackspaceKey
         \/ CloseShop \/ OpenLink \/ CloseLink \/ RaceEnded
  PROVE  SessionTypes' /\ StoredTypes' /\ CommandTypes'
<1>1. UNCHANGED <<commands, begun, accounts, merged, elsewhere>>
  BY DEF OpenPractice, StartRace, Leave, PracticeKey, RaceKey, BackspaceKey, CloseShop, OpenLink,
         CloseLink, RaceEnded, Begin, stored, bounds, history
<1>2. StoredTypes' /\ CommandTypes'
  BY <1>1 DEF PlayTypeInv, StoredTypes, CommandTypes
<1>3. sess \in Session
  BY DEF PlayTypeInv, CountersAgree
<1>4. CASE OpenPractice \/ StartRace \/ Leave
  <2>1. UNCHANGED <<shop, ctx, queue, known, lost>> /\ raced' = FALSE
    BY <1>4 DEF OpenPractice, StartRace, Leave, Begin, history
  <2>2. screen' \in {"practice", "race", "menu"}
    BY <1>4 DEF OpenPractice, StartRace, Leave, Begin
  <2>3. SessionTypes'
    BY <2>1, <2>2 DEF PlayTypeInv, SessionTypes, Screens
  <2>4. QED
    BY <1>2, <2>3
<1>5. CASE RaceKey \/ BackspaceKey
  <2>1. raced' \in BOOLEAN
    <3>1. CASE RaceKey
      <4>1. PICK right \in BOOLEAN : sess' = Type(sess, right)
        BY <3>1 DEF RaceKey
      <4>2. Type(sess, right).finished \in BOOLEAN
        BY <1>3 DEF Type, Session
      <4>3. QED
        BY <3>1, <4>1, <4>2 DEF RaceKey
    <3>2. CASE BackspaceKey
      BY <3>2 DEF BackspaceKey, PlayTypeInv, SessionTypes
    <3>3. QED
      BY <1>5, <3>1, <3>2
  <2>2. UNCHANGED <<screen, shop, ctx, queue, known, lost>>
    BY <1>5 DEF RaceKey, BackspaceKey, history
  <2>3. QED
    BY <1>2, <2>1, <2>2 DEF PlayTypeInv, SessionTypes, Tracking
<1>6. CASE CloseShop \/ OpenLink \/ CloseLink
  <2>1. UNCHANGED <<raced, ctx, queue, known, lost>>
    BY <1>6 DEF CloseShop, OpenLink, CloseLink, history
  <2>2. screen' \in Screens /\ (screen' = "link" => Tracking) /\ screen' # "shop"
    BY <1>6 DEF CloseShop, OpenLink, CloseLink, Screens
  <2>3. shop' = shop \/ shop' = ShopClosed
    BY <1>6 DEF CloseShop, OpenLink, CloseLink
  <2>4. ShopClosed \in [loading : BOOLEAN, busy : BOOLEAN, error : BOOLEAN, wallet : Wallets]
    BY NoWalletType DEF ShopClosed
  <2>5. QED
    BY <1>2, <2>1, <2>2, <2>3, <2>4 DEF PlayTypeInv, SessionTypes, Tracking
<1>7. ASSUME screen \in {"practice", "race"}, screen' \in {screen, "results"}, UNCHANGED <<raced, shop, known>>,
             UNCHANGED <<ctx, queue, lost>> \/ \E award : award.total \in Nat /\ Earn(award)
      PROVE  SessionTypes'
  <2>1. /\ ctx' \in [user : Accounts \cup {None}, balance : Int, worn : SUBSET Cosmetics]
        /\ queue' \in Seq(Run) /\ Len(queue') <= QueueSize
        /\ lost' \in Nat
    <3>1. CASE UNCHANGED <<ctx, queue, lost>>
      BY <3>1 DEF PlayTypeInv, SessionTypes
    <3>2. CASE \E award : award.total \in Nat /\ Earn(award)
      <4>1. PICK award : award.total \in Nat /\ Earn(award)
        BY <3>2
      <4>2. SessionTypes
        BY DEF PlayTypeInv
      <4>3. QED
        BY <4>1, <4>2, EarnTypes
    <3>3. QED
      BY <1>7, <3>1, <3>2
  <2>2. QED
    BY <1>7, <2>1 DEF PlayTypeInv, SessionTypes, Screens
<1>8. CASE PracticeKey
  <2>1. UNCHANGED <<ctx, queue, lost>> \/ \E award : award.total \in Nat /\ Earn(award)
    <3>1. \/ UNCHANGED <<ctx, queue, lost>>
          \/ \E base \in PracticeBase \cap Draws, wpm \in WPMs :
               Earn(AwardPractice(base, wpm, Accuracy(sess')))
      BY <1>8 DEF PracticeKey
    <3>2. QED
      BY <3>1, AwardTypes
  <2>2. screen \in {"practice", "race"} /\ screen' \in {screen, "results"} /\ UNCHANGED <<raced, shop, known>>
    BY <1>8 DEF PracticeKey
  <2>3. QED
    BY <1>2, <1>7, <2>1, <2>2
<1>9. CASE RaceEnded
  <2>1. UNCHANGED <<ctx, queue, lost>> \/ \E award : award.total \in Nat /\ Earn(award)
    <3>1. \/ UNCHANGED <<ctx, queue, lost>>
          \/ \E base \in RaceBase \cap Draws, wpm \in WPMs, place, racers \in 1..MaxRacers :
               Earn(AwardRace(base, place, racers, wpm, Accuracy(sess)))
      BY <1>9 DEF RaceEnded
    <3>2. QED
      BY <3>1, AwardTypes
  <2>2. screen \in {"practice", "race"} /\ screen' \in {screen, "results"} /\ UNCHANGED <<raced, shop, known>>
    BY <1>9 DEF RaceEnded
  <2>3. QED
    BY <1>2, <1>7, <2>1, <2>2
<1>10. QED
  BY <1>2, <1>4, <1>5, <1>6, <1>8, <1>9

(* A command that the session may start is one of Commands.                  *)
LEMMA CommandType ==
  ASSUME PlayTypeInv, Tracking, begun < MaxCommands,
         NEW kind \in CommandKinds, NEW item \in Cosmetics, NEW wear \in BOOLEAN,
         NEW step \in {"flush", "wallet", "buy", "equip", "redeem", "answered"}
  PROVE  Command(kind, item, wear, step) \in Commands
<1>1. begun + 1 \in 1..MaxCommands /\ begun + 1 \in Nat
  BY PlayBounds DEF PlayTypeInv, CommandTypes
<1>2. Len(queue) \in 0..QueueSize
  BY PlayBounds DEF PlayTypeInv, SessionTypes
<1>3. ctx.user \in Accounts
  BY DEF Tracking, PlayTypeInv, SessionTypes
<1> DEFINE new == begun + 1
           waits == Len(queue)
<1> HIDE DEF new, waits
<1>4. [id |-> new, kind |-> kind, user |-> ctx.user, item |-> item, wear |-> wear,
       step |-> step, ahead |-> waits, wallet |-> NoWallet, loaded |-> FALSE, error |-> "none"] \in Commands
  BY <1>1, <1>2, <1>3, NoWalletType DEF Commands, new, waits
<1>5. QED
  BY <1>4 DEF Command, new, waits

(* A command that is about no cosmetic carries one all the same.             *)
LEMMA AnyItemType == AnyItem \in Cosmetics
  BY PricesAssumption DEF AnyItem

(* A command that starts has a number of its own. *)
LEMMA StartTypes ==
  ASSUME PlayTypeInv, NEW c \in Commands, c.id = begun + 1, Start(c)
  PROVE  CommandTypes'
<1>1. commands' = commands \cup {c} /\ begun' = begun + 1 /\ begun < MaxCommands
  BY DEF Start
<1>2. begun' \in 0..MaxCommands
  BY <1>1, PlayBounds DEF PlayTypeInv, CommandTypes
<1>3. \A d \in commands : d.id <= begun /\ d.id \in Nat /\ d.id # c.id
  BY PlayBounds DEF PlayTypeInv, CommandTypes, Commands
<1>4. \A d \in commands' : d.id <= begun'
  BY <1>1, <1>3, PlayBounds DEF PlayTypeInv, CommandTypes
<1>5. QED
  BY <1>1, <1>2, <1>3, <1>4 DEF PlayTypeInv, CommandTypes

(* The keys that start a command.                                            *)
LEMMA StartKeyTypes ==
  ASSUME PlayTypeInv, OpenShop \/ Refresh \/ Act \/ EnterCode
  PROVE  SessionTypes' /\ StoredTypes' /\ CommandTypes'
<1>1. UNCHANGED <<accounts, merged, elsewhere, raced, ctx, queue, known, lost>>
  BY DEF OpenShop, Refresh, Act, EnterCode, stored, history
<1>2. Tracking
  BY DEF OpenShop, Refresh, Act, EnterCode, PlayTypeInv, SessionTypes
<1>3. StoredTypes'
  BY <1>1 DEF PlayTypeInv, StoredTypes
<1>4. /\ screen' \in Screens
      /\ shop' \in [loading : BOOLEAN, busy : BOOLEAN, error : BOOLEAN, wallet : Wallets]
  <2>1. CASE OpenShop
    BY <2>1, NoWalletType DEF OpenShop, ShopClosed, Screens
  <2>2. CASE Refresh
    BY <2>2 DEF Refresh, PlayTypeInv, SessionTypes
  <2>3. CASE Act
    BY <2>3 DEF Act, PlayTypeInv, SessionTypes
  <2>4. CASE EnterCode
    BY <2>4 DEF EnterCode, PlayTypeInv, SessionTypes
  <2>5. QED
    BY <2>1, <2>2, <2>3, <2>4
<1>5. SessionTypes'
  BY <1>1, <1>2, <1>4 DEF PlayTypeInv, SessionTypes, Tracking
<1>6. \E kind \in CommandKinds, item \in Cosmetics, wear \in BOOLEAN,
         step \in {"flush", "wallet", "buy", "equip", "redeem", "answered"} :
        Start(Command(kind, item, wear, step))
  <2>1. CASE OpenShop \/ Refresh
    <3>1. Start(Command("load", AnyItem, FALSE, "flush"))
      BY <2>1 DEF OpenShop, Refresh, Load
    <3>2. QED
      BY <3>1, AnyItemType DEF CommandKinds
  <2>2. CASE EnterCode
    <3>1. Start(Command("redeem", AnyItem, FALSE, "flush"))
      BY <2>2 DEF EnterCode
    <3>2. QED
      BY <3>1, AnyItemType DEF CommandKinds
  <2>3. CASE Act
    <3>1. PICK item \in Cosmetics, kind \in {"buy", "equip"}, wear \in BOOLEAN :
            Start(Command(kind, item, wear, kind))
      BY <2>3 DEF Act
    <3>2. QED
      BY <3>1 DEF CommandKinds
  <2>4. QED
    BY <2>1, <2>2, <2>3
<1>7. PICK kind \in CommandKinds, item \in Cosmetics, wear \in BOOLEAN,
           step \in {"flush", "wallet", "buy", "equip", "redeem", "answered"} :
        Start(Command(kind, item, wear, step))
  BY <1>6
<1> DEFINE c == Command(kind, item, wear, step)
<1>8. c.id = begun + 1
  BY DEF Command
<1>9. c \in Commands
  BY <1>2, <1>7, CommandType DEF Start
<1> HIDE DEF c
<1>10. CommandTypes'
  BY <1>7, <1>8, <1>9, StartTypes DEF c
<1>11. QED
  BY <1>3, <1>5, <1>10

(* The numbers stay told apart as one command, or all of them, go on.        *)
LEMMA BecomesTypes ==
  ASSUME PlayTypeInv, NEW d \in commands, NEW e \in Commands, e.id = d.id, Becomes(d, e), UNCHANGED begun
  PROVE  CommandTypes'
<1>1. commands' = (commands \ {d}) \cup {e}
  BY DEF Becomes
<1>2. QED
  BY <1>1 DEF PlayTypeInv, CommandTypes

(* The worker takes a run from the queue, into its account or nowhere.       *)
LEMMA WriteTypes ==
  ASSUME PlayTypeInv, WriteRun
  PROVE  SessionTypes' /\ StoredTypes' /\ CommandTypes'
<1> DEFINE run == Head(queue)
           f(d) == [d EXCEPT !.ahead = IF @ > 0 THEN @ - 1 ELSE 0]
<1>1. /\ queue # <<>> /\ queue' = Tail(queue) /\ commands' = {f(d) : d \in commands}
      /\ UNCHANGED <<screen, raced, shop, ctx, merged, known, elsewhere, begun>>
  BY DEF WriteRun, bounds
<1>2. queue \in Seq(Run) /\ Len(queue) <= QueueSize
  BY DEF PlayTypeInv, SessionTypes
<1>3. run \in Run /\ queue' \in Seq(Run) /\ Len(queue') <= QueueSize
  BY <1>1, <1>2, PlayBounds
<1>4. run.user \in Accounts /\ run.earned \in Nat
  BY <1>3 DEF Run
<1>5. accounts' \in [Accounts -> Account] /\ lost' \in Nat
  <2>1. \/ accounts' = [accounts EXCEPT ![run.user].earned = @ + run.earned] /\ lost' = lost
        \/ accounts' = accounts /\ lost' = lost + run.earned
    BY DEF WriteRun
  <2> HIDE DEF run
  <2>2. accounts \in [Accounts -> Account] /\ lost \in Nat
    BY DEF PlayTypeInv, SessionTypes, StoredTypes
  <2>3. accounts[run.user].earned + run.earned \in Nat
    BY <1>4, <2>2 DEF Account
  <2>4. CASE accounts' = [accounts EXCEPT ![run.user].earned = @ + run.earned] /\ lost' = lost
    BY <1>4, <2>2, <2>3, <2>4 DEF Account
  <2>5. CASE accounts' = accounts /\ lost' = lost + run.earned
    BY <1>4, <2>2, <2>5
  <2>6. QED
    BY <2>1, <2>4, <2>5
<1>6. SessionTypes' /\ StoredTypes'
  BY <1>1, <1>3, <1>5 DEF PlayTypeInv, SessionTypes, StoredTypes, Tracking
<1>7. ASSUME NEW d \in commands PROVE f(d) \in Commands /\ f(d).id = d.id
  <2>1. d \in Commands /\ d.ahead \in 0..QueueSize
    BY DEF PlayTypeInv, CommandTypes, Commands
  <2>2. (IF d.ahead > 0 THEN d.ahead - 1 ELSE 0) \in 0..QueueSize
    BY <2>1, PlayBounds
  <2> DEFINE n == IF d.ahead > 0 THEN d.ahead - 1 ELSE 0
  <2>3. f(d) = [d EXCEPT !.ahead = n]
    BY <2>1 DEF Commands
  <2> HIDE DEF n, f
  <2>4. QED
    BY <2>1, <2>2, <2>3 DEF Commands, n
<1> HIDE DEF f
<1>8. CommandTypes'
  BY <1>1, <1>7 DEF PlayTypeInv, CommandTypes
<1>9. QED
  BY <1>6, <1>8

(* Buying and wearing leave accounts that own and wear cosmetics.            *)
LEMMA GainTypes ==
  ASSUME StoredTypes, NEW a \in Accounts, NEW c \in Cosmetics
  PROVE  /\ Gains(a, c) \in [Accounts -> Account]
         /\ \A slot, items : items \subseteq Cosmetics => Wears(a, slot, items) \in [Accounts -> Account]
<1>1. accounts \in [Accounts -> Account]
  BY DEF StoredTypes
<1>2. accounts[a].owned \cup {c} \in SUBSET Cosmetics
  BY <1>1 DEF Account
<1>3. ASSUME NEW slot, NEW items, items \subseteq Cosmetics
      PROVE  Wears(a, slot, items) \in [Accounts -> Account]
  <2> DEFINE kept == {w \in accounts[a].worn : SlotOf[w] # slot} \cup items
  <2>1. kept \in SUBSET Cosmetics
    BY <1>1, <1>3 DEF Account
  <2>2. Wears(a, slot, items) = [accounts EXCEPT ![a].worn = kept]
    BY <1>1 DEF Wears
  <2> HIDE DEF kept
  <2>3. QED
    BY <1>1, <2>1, <2>2 DEF Account
<1>4. QED
  BY <1>1, <1>2, <1>3 DEF Gains, Account

(* So does folding one account into the other.                               *)
LEMMA MergeTypes == ASSUME StoredTypes PROVE Merge(Own, Other) \in [Accounts -> Account]
<1>1. accounts \in [Accounts -> Account] /\ Own \in Accounts /\ Other \in Accounts
  BY DEF StoredTypes, Accounts
<1>2. /\ accounts[Other].earned + accounts[Own].earned \in Nat
      /\ accounts[Other].owned \cup accounts[Own].owned \in SUBSET Cosmetics
  BY <1>1 DEF Account
<1> DEFINE sum == accounts[Other].earned + accounts[Own].earned
           union == accounts[Other].owned \cup accounts[Own].owned
           none == [earned |-> 0, owned |-> {}, worn |-> {}]
<1>3. none \in Account
  BY DEF Account
<1>4. Merge(Own, Other) = [accounts EXCEPT ![Other].earned = sum, ![Other].owned = union, ![Own] = none]
  BY <1>1 DEF Merge
<1> HIDE DEF sum, union, none
<1>5. [accounts[Other] EXCEPT !.earned = sum, !.owned = union] \in Account
  BY <1>1, <1>2 DEF Account, sum, union
<1>6. QED
  BY <1>1, <1>3, <1>4, <1>5

(* What a step of a goroutine makes of its command, and of the accounts.     *)
LEMMA StepTypes ==
  ASSUME PlayTypeInv, NEW d \in commands, CommandStep(d)
  PROVE  StoredTypes' /\ CommandTypes' /\ SessionTypes'
<1>1. d \in Commands /\ d.user \in Accounts /\ d.item \in Cosmetics
  BY DEF PlayTypeInv, CommandTypes, Commands
<1>2. StoredTypes /\ elsewhere' = elsewhere /\ begun' = begun
  BY DEF PlayTypeInv, CommandStep, history, bounds
<1>3. SessionTypes'
  BY DEF CommandStep, history, PlayTypeInv, SessionTypes, Tracking
<1>4. ASSUME NEW e \in Commands, e.id = d.id, Becomes(d, e),
             accounts' \in [Accounts -> Account], merged' \subseteq {Own}
      PROVE  StoredTypes' /\ CommandTypes'
  <2>1. CommandTypes'
    BY <1>2, <1>4, BecomesTypes
  <2>2. QED
    BY <1>2, <1>4, <2>1 DEF StoredTypes
<1>5. ASSUME UNCHANGED stored PROVE accounts' \in [Accounts -> Account] /\ merged' \subseteq {Own}
  BY <1>2, <1>5 DEF stored, StoredTypes
<1>6. ASSUME NEW a \in Accounts, accounts' \in [Accounts -> Account] PROVE WalletOf(accounts'[a]) \in Wallets
  BY <1>6, WalletType
<1>7. ASSUME NEW wallet \in Wallets
      PROVE  /\ [d EXCEPT !.step = "answered", !.wallet = wallet, !.loaded = TRUE] \in Commands
             /\ [d EXCEPT !.step = "equip", !.wallet = wallet, !.loaded = TRUE] \in Commands
  BY <1>1 DEF Commands
<1>8. [d EXCEPT !.step = "answered", !.error = "refusal"] \in Commands
  BY <1>1 DEF Commands
<1>9. \A e : (\E x : e = [d EXCEPT !.step = "answered", !.wallet = x, !.loaded = TRUE]
                 \/ e = [d EXCEPT !.step = "equip", !.wallet = x, !.loaded = TRUE]
                 \/ e = [d EXCEPT !.step = "answered", !.error = x]) => e.id = d.id
  BY <1>1 DEF Commands
<1>10. ASSUME Refuses(d), UNCHANGED stored PROVE StoredTypes' /\ CommandTypes'
  BY <1>4, <1>5, <1>8, <1>9, <1>10 DEF Refuses
<1>11. CASE Flushed(d)
  <2> DEFINE next == IF d.kind = "redeem" THEN "redeem" ELSE "wallet"
             e == [d EXCEPT !.step = next]
  <2>1. Becomes(d, e) /\ UNCHANGED stored
    BY <1>11 DEF Flushed
  <2>2. next \in {"wallet", "redeem"}
    OBVIOUS
  <2> HIDE DEF next
  <2>3. e \in Commands /\ e.id = d.id
    BY <1>1, <2>2 DEF Commands
  <2>4. QED
    BY <1>3, <1>4, <1>5, <2>1, <2>3
<1>12. CASE ReadWallet(d)
  <2>1. UNCHANGED stored /\ Answers(d, WalletOf(accounts[d.user]))
    BY <1>12 DEF ReadWallet
  <2>2. WalletOf(accounts[d.user]) \in Wallets
    BY <1>1, <1>2, WalletType DEF StoredTypes
  <2>3. QED
    BY <1>3, <1>4, <1>5, <1>7, <1>9, <2>1, <2>2 DEF Answers
<1>13. CASE Buy(d)
  <2>1. CASE Refuses(d) /\ UNCHANGED stored
    BY <1>3, <1>10, <2>1
  <2>2. CASE /\ accounts' = Gains(d.user, d.item)
             /\ Becomes(d, [d EXCEPT !.step = "equip", !.wallet = WalletOf(accounts'[d.user]), !.loaded = TRUE])
             /\ UNCHANGED merged
    <3>1. accounts' \in [Accounts -> Account]
      BY <1>1, <1>2, <2>2, GainTypes
    <3>2. WalletOf(accounts'[d.user]) \in Wallets
      BY <1>1, <1>6, <3>1
    <3>3. merged' \subseteq {Own}
      BY <1>2, <2>2 DEF StoredTypes
    <3>4. QED
      BY <1>3, <1>4, <1>7, <1>9, <2>2, <3>1, <3>2, <3>3
  <2>3. QED
    BY <1>13, <2>1, <2>2, Zenon DEF Buy
<1>14. CASE Equip(d)
  <2>1. CASE Refuses(d) /\ UNCHANGED stored
    BY <1>3, <1>10, <2>1
  <2>2. CASE /\ accounts' = Wears(d.user, SlotOf[d.item], IF d.wear THEN {d.item} ELSE {})
             /\ Answers(d, WalletOf(accounts'[d.user]))
             /\ UNCHANGED merged
    <3>1. accounts' \in [Accounts -> Account]
      <4>1. (IF d.wear THEN {d.item} ELSE {}) \subseteq Cosmetics
        BY <1>1
      <4>2. QED
        BY <1>1, <1>2, <2>2, <4>1, GainTypes
    <3>2. WalletOf(accounts'[d.user]) \in Wallets
      BY <1>1, <1>6, <3>1
    <3>3. merged' \subseteq {Own}
      BY <1>2, <2>2 DEF StoredTypes
    <3>4. QED
      BY <1>3, <1>4, <1>7, <1>9, <2>2, <3>1, <3>2, <3>3 DEF Answers
  <2>3. QED
    BY <1>14, <2>1, <2>2, Zenon DEF Equip
<1>15. CASE Redeem(d)
  <2> DEFINE e == [d EXCEPT !.step = "wallet", !.user = Other]
  <2>1. Becomes(d, e) /\ merged' = {Own}
    BY <1>15 DEF Redeem
  <2>2. e \in Commands /\ e.id = d.id
    BY <1>1 DEF Commands, Accounts
  <2>3. accounts' \in [Accounts -> Account]
    BY <1>2, <1>15, MergeTypes DEF Redeem, StoredTypes
  <2> HIDE DEF e
  <2>4. QED
    BY <1>3, <1>4, <2>1, <2>2, <2>3
<1>16. CASE Fails(d)
  <2> DEFINE failure == IF d.kind = "redeem" /\ d.step = "wallet" THEN "unread" ELSE "error"
             e == [d EXCEPT !.step = "answered", !.error = failure]
  <2>1. Becomes(d, e) /\ UNCHANGED stored
    BY <1>16 DEF Fails
  <2>2. failure \in {"unread", "error"}
    OBVIOUS
  <2> HIDE DEF failure
  <2>3. e \in Commands /\ e.id = d.id
    BY <1>1, <2>2 DEF Commands
  <2>4. QED
    BY <1>3, <1>4, <1>5, <2>1, <2>3
<1>17. QED
  BY <1>11, <1>12, <1>13, <1>14, <1>15, <1>16, Zenon DEF CommandStep

(* What an answer makes of the session.                                      *)
LEMMA AnswerTypes ==
  ASSUME PlayTypeInv, NEW d \in commands, Deliver(d)
  PROVE  StoredTypes' /\ CommandTypes' /\ SessionTypes'
<1>1. /\ d \in Commands /\ d.user \in Accounts /\ d.wallet \in Wallets /\ d.loaded \in BOOLEAN
      /\ d.id \in 1..MaxCommands
  BY DEF PlayTypeInv, CommandTypes, Commands
<1>2. UNCHANGED <<sess, screen, raced, queue, accounts, merged, elsewhere, begun>>
  BY DEF Deliver, stored, bounds
<1>3. StoredTypes'
  BY <1>2 DEF PlayTypeInv, StoredTypes
<1>4. ASSUME commands' = commands \ {d} PROVE CommandTypes'
  BY <1>2, <1>4 DEF PlayTypeInv, CommandTypes
<1>5. d.wallet.balance \in Int /\ d.wallet.worn \in SUBSET Cosmetics
  BY <1>1 DEF Wallets
<1>6. CASE ShowWallet(d)
  <2>1. ctx' = [user |-> ctx.user, balance |-> d.wallet.balance, worn |-> d.wallet.worn]
    BY <1>6 DEF ShowWallet, ApplyWallet
  <2>2. ctx.user \in Accounts \cup {None}
    BY DEF PlayTypeInv, SessionTypes
  <2>3. /\ ctx' \in [user : Accounts \cup {None}, balance : Int, worn : SUBSET Cosmetics]
        /\ ctx'.user = ctx.user
    BY <1>5, <2>1, <2>2
  <2>4. shop' \in [loading : BOOLEAN, busy : BOOLEAN, error : BOOLEAN, wallet : Wallets]
    BY <1>1, <1>6 DEF ShowWallet, ShopClosed
  <2>5. SessionTypes'
    BY <1>2, <1>6, <2>3, <2>4 DEF ShowWallet, PlayTypeInv, SessionTypes, Tracking
  <2>6. QED
    BY <1>3, <1>4, <1>6, <2>5 DEF ShowWallet
<1>7. CASE ShowRefusal(d)
  <2> DEFINE e == [Load EXCEPT !.id = d.id]
  <2>1. Becomes(d, e) /\ shop' = [shop EXCEPT !.loading = TRUE, !.busy = FALSE]
        /\ UNCHANGED <<ctx, known, lost>> /\ screen = "shop"
    BY <1>7 DEF ShowRefusal, ToShop
  <2>2. ctx.user \in Accounts
    BY <2>1 DEF PlayTypeInv, SessionTypes, Tracking
  <2> DEFINE waits == Len(queue)
             new == begun + 1
             Renumbered == [id : Int, kind : CommandKinds, user : Accounts, item : Cosmetics, wear : BOOLEAN,
                            step : {"flush", "wallet", "buy", "equip", "redeem", "answered"}, ahead : 0..QueueSize,
                            wallet : Wallets, loaded : BOOLEAN, error : {"none", "refusal", "error", "unread"}]
  <2>3. waits \in 0..QueueSize /\ new \in Int
    BY PlayBounds DEF PlayTypeInv, SessionTypes, CommandTypes
  <2>4. Load \in Renumbered
    <3> HIDE DEF waits, new
    <3>1. [id |-> new, kind |-> "load", user |-> ctx.user, item |-> AnyItem, wear |-> FALSE,
           step |-> "flush", ahead |-> waits, wallet |-> NoWallet, loaded |-> FALSE, error |-> "none"] \in Renumbered
      BY <2>2, <2>3, NoWalletType, AnyItemType DEF CommandKinds
    <3>2. QED
      BY <3>1 DEF Load, Command, new, waits
  <2>5. e \in Commands /\ e.id = d.id
    BY <1>1, <2>4 DEF Commands
  <2>6. CommandTypes'
    BY <1>2, <2>1, <2>5, BecomesTypes
  <2>7. shop' \in [loading : BOOLEAN, busy : BOOLEAN, error : BOOLEAN, wallet : Wallets]
    BY <2>1 DEF PlayTypeInv, SessionTypes
  <2>8. SessionTypes'
    BY <1>2, <2>1, <2>7 DEF PlayTypeInv, SessionTypes, Tracking
  <2>9. QED
    BY <1>3, <2>6, <2>8
<1>8. CASE ShowError(d)
  <2>1. /\ shop' = [shop EXCEPT !.loading = FALSE, !.busy = FALSE, !.error = TRUE]
        /\ UNCHANGED <<ctx, known, lost>> /\ commands' = commands \ {d}
    BY <1>8 DEF ShowError
  <2>2. shop' \in [loading : BOOLEAN, busy : BOOLEAN, error : BOOLEAN, wallet : Wallets]
    BY <2>1 DEF PlayTypeInv, SessionTypes
  <2>3. SessionTypes'
    BY <1>2, <2>1, <2>2 DEF PlayTypeInv, SessionTypes, Tracking
  <2>4. QED
    BY <1>3, <1>4, <2>1, <2>3
<1>9. CASE Linked(d)
  <2>1. /\ ctx' = [user |-> d.user, balance |-> d.wallet.balance, worn |-> d.wallet.worn]
        /\ shop' = shop /\ known' = d.loaded /\ lost' = 0 /\ commands' = commands \ {d}
    BY <1>9 DEF Linked, ApplyWallet
  <2>2. /\ ctx' \in [user : Accounts \cup {None}, balance : Int, worn : SUBSET Cosmetics]
        /\ ctx'.user = d.user
    BY <1>1, <1>5, <2>1
  <2>3. Tracking'
    BY <1>1, <2>2, AccountsDiffer DEF Tracking, Accounts
  <2>4. SessionTypes'
    BY <1>1, <1>2, <2>1, <2>2, <2>3 DEF PlayTypeInv, SessionTypes
  <2>5. QED
    BY <1>3, <1>4, <2>1, <2>4
<1>10. CASE Dropped(d)
  <2>1. commands' = commands \ {d} /\ UNCHANGED <<shop, ctx, known, lost>>
    BY <1>10 DEF Dropped
  <2>2. SessionTypes'
    BY <1>2, <2>1 DEF PlayTypeInv, SessionTypes, Tracking
  <2>3. QED
    BY <1>3, <1>4, <2>1, <2>2
<1>11. QED
  BY <1>6, <1>7, <1>8, <1>9, <1>10, Zenon DEF Deliver

(* Every step keeps the types, the numbers of the commands among them.       *)
LEMMA PlayTypeStep == PlayTypeInv /\ [PlayNext]_vars => PlayTypeInv'
<1> SUFFICES ASSUME PlayTypeInv, [PlayNext]_vars PROVE PlayTypeInv'
  OBVIOUS
<1>1. CountersAgree'
  BY CountersStep DEF PlayTypeInv
<1>2. SUFFICES SessionTypes' /\ StoredTypes' /\ CommandTypes'
  BY <1>1 DEF PlayTypeInv
<1>3. CASE UNCHANGED vars
  BY <1>3 DEF vars, stored, history, bounds, PlayTypeInv, SessionTypes, StoredTypes, CommandTypes, Tracking
<1>4. CASE Keys
  BY <1>4, PlainTypes, StartKeyTypes, Zenon DEF Keys
<1>5. CASE RaceEnded
  BY <1>5, PlainTypes
<1>6. CASE WriteRun
  BY <1>6, WriteTypes
<1>7. ASSUME NEW d \in commands, CommandStep(d) \/ Deliver(d)
      PROVE  SessionTypes' /\ StoredTypes' /\ CommandTypes'
  BY <1>7, StepTypes, AnswerTypes
<1>8. CASE BuyElsewhere
  <2>1. UNCHANGED <<screen, raced, shop, ctx, queue, known, lost, commands, merged, begun>> /\ elsewhere' = TRUE
    BY <1>8 DEF BuyElsewhere, bounds
  <2>2. SessionTypes' /\ CommandTypes'
    BY <2>1 DEF PlayTypeInv, SessionTypes, CommandTypes, Tracking
  <2>3. accounts' \in [Accounts -> Account]
    <3>1. ctx.user \in Accounts /\ StoredTypes
      BY <1>8 DEF BuyElsewhere, Tracking, PlayTypeInv, SessionTypes
    <3>2. PICK c \in Cosmetics : accounts' = Gains(ctx.user, c)
      BY <1>8 DEF BuyElsewhere
    <3>3. QED
      BY <3>1, <3>2, GainTypes
  <2>4. QED
    BY <2>1, <2>2, <2>3 DEF PlayTypeInv, StoredTypes
<1>9. QED
  BY <1>3, <1>4, <1>5, <1>6, <1>7, <1>8, Zenon DEF PlayNext

(* They hold of a session that has just begun.                               *)
LEMMA PlayTypeInit == PlayInit => PlayTypeInv
<1> SUFFICES ASSUME PlayInit PROVE PlayTypeInv
  OBVIOUS
<1>1. CountersAgree
  BY CountersInit
<1>2. Accounts = {Own, Other} /\ \A a \in Accounts : Saved[a] \in Nat
  BY PricesAssumption DEF Accounts
<1>3. ctx \in [user : Accounts \cup {None}, balance : Int, worn : SUBSET Cosmetics]
  <2>1. PICK user \in IF known THEN {Own} ELSE {Own, None} :
          ctx = [user |-> user, balance |-> IF known THEN Saved[user] ELSE 0, worn |-> {}]
    BY DEF PlayInit
  <2>2. user \in Accounts \cup {None} /\ (known => user \in Accounts)
    BY <1>2
  <2>3. (IF known THEN Saved[user] ELSE 0) \in Int
    BY <1>2, <2>2
  <2>4. QED
    BY <2>1, <2>2, <2>3
<1>4. accounts \in [Accounts -> Account]
  <2>1. ASSUME NEW a \in Accounts PROVE [earned |-> Saved[a], owned |-> {}, worn |-> {}] \in Account
    BY <1>2 DEF Account
  <2>2. accounts = [a \in Accounts |-> [earned |-> Saved[a], owned |-> {}, worn |-> {}]]
    BY DEF PlayInit
  <2>3. QED
    BY <2>1, <2>2
<1>5. StoredTypes /\ CommandTypes
  <2>1. begun = 0 /\ commands = {} /\ merged = {} /\ elsewhere = FALSE
    BY DEF PlayInit
  <2>2. begun \in 0..MaxCommands
    BY <2>1, PlayBounds
  <2>3. QED
    BY <1>4, <2>1, <2>2 DEF StoredTypes, CommandTypes
<1>6. shop \in [loading : BOOLEAN, busy : BOOLEAN, error : BOOLEAN, wallet : Wallets]
  BY NoWalletType DEF PlayInit, ShopClosed
<1>7. queue = <<>> /\ queue \in Seq(Run) /\ Len(queue) <= QueueSize
  BY PlayBounds DEF PlayInit
<1>8. SessionTypes
  BY <1>3, <1>6, <1>7 DEF PlayInit, SessionTypes, Screens
<1>9. QED
  BY <1>1, <1>5, <1>8 DEF PlayTypeInv

(***************************************************************************)
(* A session at play keeps its types: no command is mistaken for another,   *)
(* no more runs wait than the queue has room for, no account ever holds a   *)
(* run that took bytes away, and only the key's own account is merged away. *)
(***************************************************************************)
THEOREM PlayTypeTheorem == PlaySpec => []PlayTypeOK
<1>1. PlayTypeInv => PlayTypeOK
  BY DEF PlayTypeInv, PlayTypeOK, CountersAgree, SessionTypes, StoredTypes, CommandTypes, Run, Account
<1>2. QED
  BY <1>1, PlayTypeInit, PlayTypeStep, PTL DEF PlaySpec

-----------------------------------------------------------------------------

(* What a run adds to what is queued for account a. *)
Adds(run, a) == IF run.user = a THEN run.earned ELSE 0

QueuedIn(q, a) == FoldSeq(LAMBDA run, sum : (IF run.user = a THEN run.earned ELSE 0) + sum, 0, q)

Amounts(q, a) == [i \in 1..Len(q) |-> Adds(q[i], a)]

(* What is queued for an account is a sum along the queue.                   *)
LEMMA QueuedSums ==
  ASSUME NEW q \in Seq(Run), NEW a
  PROVE  /\ IsFiniteSet(1..Len(q))
         /\ \A i \in 1..Len(q) : Amounts(q, a)[i] = Adds(q[i], a) /\ Adds(q[i], a) \in Int
         /\ \E g : Sums(g, Amounts(q, a), 1..Len(q)) /\ QueuedIn(q, a) = g[1..Len(q)]
<1>1. IsFiniteSet(1..Len(q))
  <2> DEFINE n == Len(q)
  <2>1. n \in Int /\ 1 \in Int
    OBVIOUS
  <2> HIDE DEF n
  <2>2. IsFiniteSet(1..n)
    BY <2>1, FS_Interval
  <2>3. QED
    BY <2>2 DEF n
<1>2. \A i \in 1..Len(q) : Amounts(q, a)[i] = Adds(q[i], a)
  BY DEF Amounts
<1>3. ASSUME NEW i \in 1..Len(q) PROVE Adds(q[i], a) \in Int
  <2>1. q[i] \in Run
    OBVIOUS
  <2>2. q[i].earned \in Nat
    BY <2>1 DEF Run
  <2>3. QED
    BY <2>2 DEF Adds
<1> DEFINE S == DOMAIN q
           Folds(g) == g = [s \in SUBSET S |-> IF s = {} THEN 0 ELSE Adds(q[Pick(s)], a) + g[s \ {Pick(s)}]]
<1>4. S = 1..Len(q)
  OBVIOUS
<1>5. ASSUME NEW s \in SUBSET S, s # {} PROVE Amounts(q, a)[Pick(s)] = Adds(q[Pick(s)], a)
  BY <1>2, <1>4, <1>5, Picks
<1>6. \A g : Folds(g) <=> Sums(g, Amounts(q, a), S)
  <2>1. \A g : [s \in SUBSET S |-> IF s = {} THEN 0 ELSE Adds(q[Pick(s)], a) + g[s \ {Pick(s)}]]
               = [s \in SUBSET S |-> IF s = {} THEN 0 ELSE Amounts(q, a)[Pick(s)] + g[s \ {Pick(s)}]]
    BY <1>5
  <2>2. QED
    BY <2>1 DEF Sums
<1>7. PICK g : Folds(g)
  <2>1. \E g : Sums(g, Amounts(q, a), S)
    BY <1>1, <1>4, SumsExist
  <2> HIDE DEF Folds
  <2>2. QED
    BY <1>6, <2>1
<1>8. \E f : Folds(f) /\ QueuedIn(q, a) = f[S]
  BY <1>7, Zenon DEF QueuedIn, FoldSeq, FoldFunction, FoldFunctionOnSet, MapThenFoldSet, Pick, Adds
<1> HIDE DEF Folds
<1>9. QED
  BY <1>1, <1>2, <1>3, <1>4, <1>6, <1>8

(* Nothing is queued in an empty queue.                                      *)
LEMMA QueuedNothing == \A a : QueuedIn(<<>>, a) = 0
<1> SUFFICES ASSUME NEW a PROVE QueuedIn(<<>>, a) = 0
  OBVIOUS
<1>1. <<>> \in Seq(Run) /\ 1..Len(<<>>) = {}
  OBVIOUS
<1>2. PICK g : Sums(g, Amounts(<<>>, a), {}) /\ QueuedIn(<<>>, a) = g[{}]
  BY <1>1, QueuedSums
<1>3. QED
  BY <1>2, SumsEach

(* What is queued is a number.                                               *)
LEMMA QueuedType == ASSUME NEW q \in Seq(Run), NEW a PROVE QueuedIn(q, a) \in Int
<1> DEFINE w == Amounts(q, a)
           S == 1..Len(q)
<1>1. IsFiniteSet(S) /\ \A i \in S : w[i] \in Int
  BY QueuedSums
<1>2. PICK g : Sums(g, w, S) /\ QueuedIn(q, a) = g[S]
  BY QueuedSums
<1> HIDE DEF w, S
<1>3. QED
  BY <1>1, <1>2, SumsAdd

(* A run more. *)
LEMMA QueuedAppend ==
  ASSUME NEW q \in Seq(Run), NEW run \in Run, NEW a
  PROVE  QueuedIn(Append(q, run), a) = QueuedIn(q, a) + Adds(run, a)
<1> DEFINE n == Len(q)
           r == Append(q, run)
           v == Amounts(q, a)
           w == Amounts(r, a)
           low == 1..n
           high == 1..(n + 1)
<1>1. n \in Nat /\ r \in Seq(Run) /\ Len(r) = n + 1
  OBVIOUS
<1>2. /\ low \subseteq high /\ n + 1 \in high /\ high \ {n + 1} = low
      /\ (\A i \in low : r[i] = q[i]) /\ r[n + 1] = run
  OBVIOUS
<1>3. QueuedIn(q, a) \in Int
  BY QueuedType
<1>4. /\ IsFiniteSet(low)
      /\ \A i \in low : v[i] = Adds(q[i], a) /\ Adds(q[i], a) \in Int
      /\ \E g : Sums(g, v, low) /\ QueuedIn(q, a) = g[low]
  BY QueuedSums
<1>5. /\ IsFiniteSet(high)
      /\ \A i \in high : w[i] = Adds(r[i], a) /\ Adds(r[i], a) \in Int
      /\ \E h : Sums(h, w, high) /\ QueuedIn(r, a) = h[high]
  <2> HIDE DEF r
  <2>1. 1..Len(r) = high
    BY <1>1
  <2> HIDE DEF high, n
  <2>2. QED
    BY <1>1, <2>1, QueuedSums
<1>6. PICK g : Sums(g, v, low) /\ QueuedIn(q, a) = g[low]
  BY <1>4
<1>7. PICK h : Sums(h, w, high) /\ QueuedIn(r, a) = h[high]
  BY <1>5
<1> HIDE DEF r, v, w, low, high
<1>8. g[low] = h[low]
  <2>1. Alike(v, w, low)
    BY <1>2, <1>4, <1>5 DEF Alike
  <2>2. ASSUME NEW s \in SUBSET low PROVE g[s] = h[s]
    <3>1. low \subseteq high /\ IsFiniteSet(low) /\ Sums(g, v, low) /\ Sums(h, w, high)
      BY <1>2, <1>4, <1>6, <1>7
    <3>2. QED
      BY <2>1, <3>1, SumsAgree
  <2>3. QED
    BY <2>2
<1>9. h[high] = w[n + 1] + h[high \ {n + 1}]
  <2> DEFINE last == n + 1
  <2>1. last \in high
    BY <1>2
  <2>2. \A i \in high : w[i] \in Int
    BY <1>5
  <2> HIDE DEF last
  <2>3. h[high] = w[last] + h[high \ {last}]
    BY <1>5, <1>7, <2>1, <2>2, SumsAdd
  <2>4. QED
    BY <2>3 DEF last
<1>10. w[n + 1] = Adds(run, a) /\ Adds(run, a) \in Int
  BY <1>2, <1>5
<1>11. QueuedIn(r, a) = w[n + 1] + QueuedIn(q, a)
  BY <1>2, <1>6, <1>7, <1>8, <1>9
<1> HIDE DEF n
<1>12. QED
  BY <1>3, <1>10, <1>11 DEF r

(* The first run less. *)
LEMMA QueuedTail ==
  ASSUME NEW q \in Seq(Run), q # <<>>, NEW a
  PROVE  QueuedIn(q, a) = Adds(Head(q), a) + QueuedIn(Tail(q), a)
<1> DEFINE n == Len(q) - 1
           t == Tail(q)
           v == Amounts(t, a)
           w == Amounts(q, a)
<1>1. n \in Nat /\ t \in Seq(Run) /\ Len(t) = n /\ Len(q) = n + 1
  OBVIOUS
<1>2. (\A i \in 1..n : t[i] = q[i + 1]) /\ Head(q) = q[1]
  OBVIOUS
<1> HIDE DEF t, n
<1>3. PICK g : Sums(g, v, 1..n) /\ QueuedIn(t, a) = g[1..n]
  BY <1>1, QueuedSums
<1>4. PICK h : Sums(h, w, 1..(n + 1)) /\ QueuedIn(q, a) = h[1..(n + 1)]
  BY <1>1, QueuedSums
<1>5. \A i \in 1..n : v[i] = Adds(t[i], a)
  BY <1>1, QueuedSums
<1>6. \A i \in 1..(n + 1) : w[i] = Adds(q[i], a) /\ w[i] \in Int
  BY <1>1, QueuedSums
<1>7. \A i \in 1..n : v[i] = w[i + 1]
  BY <1>1, <1>2, <1>5, <1>6
<1>8. w[1] = Adds(Head(q), a)
  BY <1>1, <1>2, <1>6
<1> HIDE DEF v, w
<1>9. h[1..(n + 1)] = w[1] + g[1..n]
  BY <1>1, <1>3, <1>4, <1>6, <1>7, SumsShift
<1>10. QED
  BY <1>3, <1>4, <1>8, <1>9 DEF t

-----------------------------------------------------------------------------

(* A command whose answer would not find its screen gone. *)
Watched(d) == screen = "shop" \/ d.kind = "redeem"

(* A command that has changed the balance, and has yet to say so. *)
Spends(d) == Tells(d) \/ (d.kind = "buy" /\ d.loaded)

BalanceShown == ctx.balance = BalanceOf(ctx.user) + QueuedIn(queue, ctx.user) + lost

(* Past its flush, a command that is watched has no run behind it; and what   *)
(* it read is what the account still has.                                    *)
InFlight(d) ==
  /\ d.kind # "redeem" => d.user = ctx.user
  /\ d.kind \in {"buy", "equip"} => screen = "shop"
  /\ d.step = "buy" => d.kind = "buy"
  /\ d.loaded => d.step \in {"equip", "answered"}
  /\ Watched(d) => IF d.step = "flush" THEN d.ahead = Len(queue)
                   ELSE (d.error = "error" /\ ~d.loaded) \/ queue = <<>>
  /\ d.loaded /\ Watched(d) /\ ~elsewhere => d.wallet.balance = BalanceOf(d.user)

ShownInv ==
  /\ known => Tracking
  /\ \A i \in DOMAIN queue : queue[i].user = ctx.user
  /\ \A d \in commands : InFlight(d)
  /\ screen = "shop" => shop.wallet = NoWallet \/ queue = <<>>
  /\ known /\ ~elsewhere /\ (\A d \in commands : ~Spends(d)) => BalanceShown

(* The numbers that a tracked session puts side by side.                     *)
LEMMA BalanceType ==
  ASSUME PlayTypeInv, Tracking
  PROVE  /\ ctx.user \in Accounts /\ accounts[ctx.user] \in Account
         /\ BalanceOf(ctx.user) \in Int /\ ctx.balance \in Int /\ lost \in Nat
         /\ queue \in Seq(Run) /\ QueuedIn(queue, ctx.user) \in Int
<1>1. ctx.user \in Accounts /\ ctx.balance \in Int /\ lost \in Nat /\ queue \in Seq(Run)
  BY DEF PlayTypeInv, SessionTypes, Tracking
<1>2. accounts[ctx.user] \in Account
  BY <1>1 DEF PlayTypeInv, StoredTypes
<1>3. WalletOf(accounts[ctx.user]) \in Wallets
  BY <1>2, WalletType
<1>4. BalanceOf(ctx.user) \in Int
  BY <1>3 DEF BalanceOf, Wallets
<1>5. QED
  BY <1>1, <1>2, <1>4, QueuedType

(* Who owns nothing has spent nothing.                                       *)
LEMMA SpentNothing == Spent({}) = 0
<1>1. PICK g : Sums(g, Price, {})
  BY FS_EmptySet, SumsExist
<1>2. \E f : Sums(f, Price, {}) /\ Spent({}) = f[{}]
  BY <1>1, Zenon DEF Sums, Spent, MapThenSumSet, MapThenFoldSet, Pick
<1>3. QED
  BY <1>2, SumsEach

(* Login shows what the account has, and nothing is queued yet.              *)
LEMMA ShownInit == PlayInit => ShownInv
<1> SUFFICES ASSUME PlayInit PROVE ShownInv
  OBVIOUS
<1>1. PICK user \in IF known THEN {Own} ELSE {Own, None} :
        ctx = [user |-> user, balance |-> IF known THEN Saved[user] ELSE 0, worn |-> {}]
  BY DEF PlayInit
<1>2. queue = <<>> /\ commands = {} /\ screen = "menu" /\ lost = 0
  BY DEF PlayInit
<1>3. known => ctx.user = Own /\ Tracking /\ ctx.balance = Saved[Own]
  BY <1>1, AccountsDiffer DEF Tracking
<1>4. known => BalanceShown
  <2>1. Own \in Accounts /\ Saved[Own] \in Nat
    BY PricesAssumption DEF Accounts
  <2>2. accounts[Own] = [earned |-> Saved[Own], owned |-> {}, worn |-> {}]
    BY <2>1 DEF PlayInit
  <2>3. BalanceOf(Own) = Saved[Own]
    BY <2>1, <2>2, SpentNothing DEF BalanceOf, WalletOf
  <2>4. QED
    BY <1>2, <1>3, <2>1, <2>3, QueuedNothing DEF BalanceShown
<1>5. QED
  BY <1>2, <1>3, <1>4 DEF ShownInv

(* Steps that leave the commands, the queue and the account as they are. *)
LEMMA ShownAlone ==
  ASSUME PatientInv, ShownInv,
         UNCHANGED <<ctx, commands, queue, accounts, known, lost, elsewhere>>,
         screen' = "shop" => screen = "shop" /\ shop'.wallet = shop.wallet,
         screen = "shop" => screen' = "shop" \/ ~shop.busy
  PROVE  ShownInv'
<1>1. ASSUME NEW d \in commands PROVE InFlight(d)'
  <2>1. InFlight(d)
    BY DEF ShownInv
  <2>2. d.kind \in {"buy", "equip"} => screen' = "shop"
    BY <2>1 DEF InFlight, PatientInv, BusyIsInFlight, Purchase
  <2>3. (BalanceOf(d.user))' = BalanceOf(d.user) /\ (Watched(d)' => Watched(d))
    BY DEF BalanceOf, Watched
  <2>4. QED
    BY <2>1, <2>2, <2>3 DEF InFlight
<1>2. known' /\ ~elsewhere' /\ (\A d \in commands' : ~Spends(d)') => BalanceShown'
  BY DEF ShownInv, BalanceShown, BalanceOf, Spends, Tells
<1>3. (known => Tracking)' /\ (\A i \in DOMAIN queue : queue[i].user = ctx.user)'
  BY DEF ShownInv, Tracking
<1>4. screen' = "shop" => shop'.wallet = NoWallet \/ queue' = <<>>
  BY DEF ShownInv
<1>5. QED
  BY <1>1, <1>2, <1>3, <1>4, Zenon DEF ShownInv

(* Paying for an attempt: the balance grows by what is queued, or is lost. *)
LEMMA ShownEarn ==
  ASSUME PatientInv, PlayTypeInv, ShownInv, NEW award, award.total \in Nat, Earn(award),
         UNCHANGED <<commands, accounts, known, elsewhere>>,
         screen \in {"practice", "race"}, screen' = "results"
  PROVE  ShownInv'
<1>1. CASE UNCHANGED <<ctx, queue, lost>>
  BY <1>1, ShownAlone
<1>2. CASE Tracking /\ ctx' = [ctx EXCEPT !.balance = @ + award.total]
           /\ Record([user |-> ctx.user, earned |-> award.total])
  <2> DEFINE run == [user |-> ctx.user, earned |-> award.total]
  <2>1. /\ ctx.user \in Accounts /\ BalanceOf(ctx.user) \in Int /\ ctx.balance \in Int /\ lost \in Nat
        /\ queue \in Seq(Run) /\ QueuedIn(queue, ctx.user) \in Int
    BY <1>2, BalanceType
  <2>2. run \in Run /\ run.user = ctx.user
    BY <2>1 DEF Run
  <2>3. ctx'.user = ctx.user /\ ctx'.balance = ctx.balance + award.total
    BY <1>2, <2>1 DEF PlayTypeInv, SessionTypes
  <2>4. Adds(run, ctx.user) = award.total
    BY DEF Adds
  <2>5. /\ \A i \in DOMAIN queue' : queue'[i].user = ctx.user
        /\ QueuedIn(queue', ctx.user) + lost' = QueuedIn(queue, ctx.user) + lost + award.total
    <3>1. CASE Len(queue) < QueueSize
      <4>1. queue' = Append(queue, run) /\ lost' = lost
        BY <1>2, <3>1 DEF Record
      <4> HIDE DEF run
      <4>2. QueuedIn(queue', ctx.user) = QueuedIn(queue, ctx.user) + Adds(run, ctx.user)
        BY <2>1, <2>2, <4>1, QueuedAppend
      <4>3. \A i \in DOMAIN queue' : queue'[i].user = ctx.user
        BY <2>1, <2>2, <4>1 DEF ShownInv
      <4>4. QED
        BY <2>1, <2>4, <4>1, <4>2, <4>3
    <3>2. CASE ~(Len(queue) < QueueSize)
      <4>1. queue' = queue /\ lost' = lost + award.total
        BY <1>2, <3>2 DEF Record
      <4>2. QED
        BY <2>1, <4>1 DEF ShownInv
    <3>3. QED
      BY <3>1, <3>2
  <2>6. QueuedIn(queue', ctx.user) \in Int /\ lost' \in Int
    <3>1. queue' \in Seq(Run) /\ lost' \in Nat
      BY EarnTypes DEF PlayTypeInv
    <3>2. QED
      BY <3>1, QueuedType
  <2>7. ASSUME NEW d \in commands PROVE InFlight(d)' /\ (Spends(d)' <=> Spends(d))
    <3>1. InFlight(d) /\ d.kind # "redeem"
      BY DEF ShownInv, PatientInv, OneCommand
    <3>2. ~Watched(d)'
      BY <3>1 DEF Watched
    <3>3. QED
      BY <2>3, <3>1, <3>2 DEF InFlight, Spends, Tells
  <2>8. known' /\ ~elsewhere' /\ (\A d \in commands' : ~Spends(d)') => BalanceShown'
    <3>1. SUFFICES ASSUME known, ~elsewhere, \A d \in commands : ~Spends(d)' PROVE BalanceShown'
      OBVIOUS
    <3>2. BalanceShown
      BY <2>7, <3>1 DEF ShownInv
    <3>3. (BalanceOf(ctx.user))' = BalanceOf(ctx.user)
      BY <2>3 DEF BalanceOf
    <3>4. ctx.balance + award.total = BalanceOf(ctx.user) + QueuedIn(queue', ctx.user) + lost'
      <4>1. /\ ctx.balance = BalanceOf(ctx.user) + QueuedIn(queue, ctx.user) + lost
            /\ QueuedIn(queue', ctx.user) + lost' = QueuedIn(queue, ctx.user) + lost + award.total
        BY <2>5, <3>2 DEF BalanceShown
      <4>2. /\ BalanceOf(ctx.user) \in Int /\ QueuedIn(queue, ctx.user) \in Int /\ lost \in Int
            /\ QueuedIn(queue', ctx.user) \in Int /\ lost' \in Int /\ award.total \in Int
            /\ ctx.balance \in Int
        BY <2>1, <2>6
      <4> HIDE DEF run
      <4>3. QED
        BY <4>1, <4>2, SMTT(30)
    <3>5. QED
      BY <2>3, <3>3, <3>4 DEF BalanceShown
  <2>9. Tracking' /\ (\A i \in DOMAIN queue : queue[i].user = ctx.user)'
    BY <1>2, <2>3, <2>5 DEF Tracking
  <2>10. QED
    BY <2>7, <2>8, <2>9 DEF ShownInv
<1>3. QED
  BY <1>1, <1>2, Zenon DEF Earn

(* A key that starts a command: in a shop that shows a wallet, no run waits. *)
LEMMA ShownStart ==
  ASSUME PatientInv, PlayTypeInv, ShownInv, PatientInv',
         OpenShop \/ Refresh \/ Act \/ EnterCode
  PROVE  ShownInv'
<1>1. UNCHANGED <<ctx, queue, accounts, known, lost, elsewhere>>
  BY DEF OpenShop, Refresh, Act, EnterCode, stored, history
<1>2. ASSUME NEW c, Start(c), InFlight(c)', screen' = "shop" => shop'.wallet = NoWallet \/ queue' = <<>>
      PROVE  ShownInv'
  <2>1. c \in commands' /\ commands \subseteq commands'
    BY <1>2 DEF Start
  <2>2. \A d \in commands' : d = c
    BY <2>1 DEF PatientInv, OneCommand
  <2>3. \A d \in commands' : InFlight(d)'
    <3> SUFFICES ASSUME NEW d \in commands' PROVE InFlight(d)'
      OBVIOUS
    <3>1. d = c
      BY <2>2
    <3>2. QED
      BY <1>2, <3>1
  <2>4. known' /\ ~elsewhere' /\ (\A d \in commands' : ~Spends(d)') => BalanceShown'
    BY <1>1, <2>1 DEF ShownInv, BalanceShown, BalanceOf, Spends, Tells
  <2>5. (known => Tracking)' /\ (\A i \in DOMAIN queue : queue[i].user = ctx.user)'
    BY <1>1 DEF ShownInv, Tracking
  <2>6. QED
    BY <1>2, <2>3, <2>4, <2>5, Zenon DEF ShownInv
<1>3. CASE OpenShop \/ Refresh
  <2>1. Start(Load) /\ screen' = "shop"
    BY <1>3 DEF OpenShop, Refresh
  <2>2. PICK c : c = Load
    OBVIOUS
  <2>3. InFlight(c)'
    <3>1. /\ c.kind = "load" /\ c.step = "flush" /\ c.user = ctx.user /\ c.loaded = FALSE
          /\ c.ahead = Len(queue)
      BY <2>2 DEF Load, Command
    <3>2. QED
      BY <1>1, <3>1 DEF InFlight
  <2>4. shop'.wallet = NoWallet \/ queue' = <<>>
    <3>1. CASE OpenShop
      BY <3>1 DEF OpenShop, ShopClosed
    <3>2. CASE Refresh
      <4>1. screen = "shop" /\ shop'.wallet = shop.wallet
        BY <3>2 DEF Refresh, PatientInv, ShopOK
      <4>2. QED
        BY <1>1, <4>1 DEF ShownInv
    <3>3. QED
      BY <1>3, <3>1, <3>2
  <2>5. QED
    BY <1>2, <2>1, <2>2, <2>3, <2>4
<1>4. CASE Act
  <2>1. PICK item \in Cosmetics, kind \in {"buy", "equip"}, wear \in BOOLEAN :
          /\ Start(Command(kind, item, wear, kind))
          /\ item \in shop.wallet.owned \/ shop.wallet.balance >= Price[item]
    BY <1>4 DEF Act
  <2>2. screen = "shop" /\ screen' = "shop" /\ shop'.wallet = shop.wallet
    BY <1>4 DEF Act, PatientInv, ShopOK
  <2>3. shop.wallet # NoWallet
    <3>1. Price[item] \in Nat \ {0}
      BY PricesAssumption
    <3>2. ~(0 >= Price[item])
      BY <3>1
    <3>3. QED
      BY <2>1, <3>2 DEF NoWallet
  <2>4. queue = <<>> /\ queue' = <<>>
    BY <1>1, <2>2, <2>3 DEF ShownInv
  <2>5. PICK c : c = Command(kind, item, wear, kind)
    OBVIOUS
  <2>6. InFlight(c)'
    <3>1. c.kind = kind /\ c.step = kind /\ c.user = ctx.user /\ c.loaded = FALSE
      BY <2>5 DEF Command
    <3>2. QED
      BY <1>1, <2>2, <2>4, <3>1 DEF InFlight
  <2>7. QED
    BY <1>2, <2>1, <2>4, <2>5, <2>6
<1>5. CASE EnterCode
  <2>1. PICK c : c = Command("redeem", AnyItem, FALSE, "flush")
    OBVIOUS
  <2>2. Start(c) /\ screen' = "link"
    BY <1>5, <2>1 DEF EnterCode
  <2>3. InFlight(c)'
    <3>1. /\ c.kind = "redeem" /\ c.step = "flush" /\ c.loaded = FALSE /\ c.ahead = Len(queue)
      BY <2>1 DEF Command
    <3>2. QED
      BY <1>1, <3>1 DEF InFlight
  <2>4. QED
    BY <1>2, <2>2, <2>3
<1>6. QED
  BY <1>3, <1>4, <1>5

(* The worker writes the oldest run, or loses it: what it was worth goes     *)
(* from the queue to the account, or to what is lost. A command still        *)
(* flushing has one run less to wait for; one past its flush had none.       *)
LEMMA ShownWrite ==
  ASSUME PatientInv, PlayTypeInv, ShownInv, WriteRun
  PROVE  ShownInv'
<1> DEFINE run == Head(queue)
           f(d) == [d EXCEPT !.ahead = IF @ > 0 THEN @ - 1 ELSE 0]
<1>1. /\ queue # <<>> /\ queue' = Tail(queue) /\ commands' = {f(d) : d \in commands}
      /\ UNCHANGED <<screen, shop, ctx, known, elsewhere>>
  BY DEF WriteRun
<1>2. queue \in Seq(Run)
  BY DEF PlayTypeInv, SessionTypes
<1>3. /\ \A i \in DOMAIN queue' : queue'[i].user = ctx.user
      /\ run \in Run /\ run.user = ctx.user /\ Len(queue) \in Nat /\ Len(queue') = Len(queue) - 1
  BY <1>1, <1>2 DEF ShownInv
<1>4. ASSUME NEW d \in commands PROVE InFlight(f(d))' /\ (Spends(f(d))' <=> Spends(d))
  <2>1. d \in Commands /\ InFlight(d)
    BY DEF PlayTypeInv, CommandTypes, ShownInv
  <2>2. /\ f(d).kind = d.kind /\ f(d).user = d.user /\ f(d).step = d.step /\ f(d).loaded = d.loaded
        /\ f(d).error = d.error /\ f(d).wallet = d.wallet
        /\ f(d).ahead = IF d.ahead > 0 THEN d.ahead - 1 ELSE 0
    BY <2>1 DEF Commands
  <2> HIDE DEF f
  <2>3. Watched(f(d))' <=> Watched(d)
    BY <1>1, <2>2 DEF Watched
  <2>4. Watched(d) => d.step = "flush" \/ (d.error = "error" /\ ~d.loaded)
    BY <1>1, <2>1 DEF InFlight
  <2>5. Watched(d) /\ d.step = "flush" => f(d).ahead = Len(queue')
    <3>1. SUFFICES ASSUME Watched(d), d.step = "flush" PROVE f(d).ahead = Len(queue')
      OBVIOUS
    <3>2. d.ahead = Len(queue) /\ Len(queue) > 0
      BY <1>1, <1>2, <2>1, <3>1 DEF InFlight
    <3>3. QED
      BY <1>3, <2>2, <3>2
  <2>6. InFlight(f(d))'
    BY <1>1, <2>1, <2>2, <2>3, <2>4, <2>5 DEF InFlight
  <2>7. QED
    BY <2>2, <2>6 DEF Spends, Tells
<1>5. \A e \in commands' : InFlight(e)'
  <2> HIDE DEF f
  <2>1. ASSUME NEW e \in commands' PROVE InFlight(e)'
    <3>1. PICK d \in commands : e = f(d)
      BY <1>1
    <3>2. QED
      BY <1>4, <3>1
  <2>2. QED
    BY <2>1
<1>6. known' /\ ~elsewhere' /\ (\A d \in commands' : ~Spends(d)') => BalanceShown'
  <2>1. SUFFICES ASSUME known, ~elsewhere, \A d \in commands' : ~Spends(d)' PROVE BalanceShown'
    BY <1>1
  <2>2. \A d \in commands : ~Spends(d)
    <3> HIDE DEF f
    <3>1. QED
      BY <1>1, <1>4, <2>1
  <2>3. Tracking /\ BalanceShown
    BY <2>1, <2>2 DEF ShownInv
  <2>4. /\ ctx.user \in Accounts /\ accounts[ctx.user] \in Account
        /\ BalanceOf(ctx.user) \in Int /\ ctx.balance \in Int /\ lost \in Nat
    BY <2>3, BalanceType
  <2>5. QueuedIn(queue, ctx.user) = run.earned + QueuedIn(queue', ctx.user)
    <3>1. QueuedIn(queue, ctx.user) = Adds(run, ctx.user) + QueuedIn(Tail(queue), ctx.user)
      BY <1>1, <1>2, QueuedTail
    <3>2. QED
      BY <1>1, <1>3, <3>1 DEF Adds
  <2>6. run.earned \in Nat /\ QueuedIn(queue', ctx.user) \in Int
    <3>1. queue' \in Seq(Run)
      BY <1>1, <1>2
    <3>2. QED
      BY <1>3, <3>1, QueuedType DEF Run
  <2> HIDE DEF run, f
  <2>7. (BalanceOf(ctx.user))' + lost' = BalanceOf(ctx.user) + lost + run.earned
        /\ (BalanceOf(ctx.user))' \in Int /\ lost' \in Int
    <3>1. CASE accounts' = [accounts EXCEPT ![run.user].earned = @ + run.earned] /\ lost' = lost
      <4> DEFINE a == ctx.user
      <4>1. /\ accounts'[a].earned = accounts[a].earned + run.earned
            /\ accounts'[a].owned = accounts[a].owned
        BY <1>3, <2>4, <3>1 DEF PlayTypeInv, StoredTypes, Account
      <4>2. accounts[a].earned \in Nat /\ Spent(accounts[a].owned) \in Int
        BY <2>4, SpentType DEF Account
      <4>3. BalanceOf(a) = accounts[a].earned - Spent(accounts[a].owned)
        BY DEF BalanceOf, WalletOf
      <4>4. (BalanceOf(ctx.user))' = accounts'[a].earned - Spent(accounts'[a].owned)
        BY <1>1 DEF BalanceOf, WalletOf
      <4>5. QED
        BY <2>4, <2>6, <3>1, <4>1, <4>2, <4>3, <4>4
    <3>2. CASE lost' = lost + run.earned /\ accounts' = accounts
      <4>1. (BalanceOf(ctx.user))' = BalanceOf(ctx.user)
        BY <1>1, <3>2 DEF BalanceOf
      <4>2. QED
        BY <2>4, <2>6, <3>2, <4>1
    <3>3. QED
      BY <3>1, <3>2 DEF WriteRun, run
  <2>8. QED
    BY <1>1, <2>3, <2>4, <2>5, <2>6, <2>7 DEF BalanceShown
<1>7. screen' = "shop" => shop'.wallet = NoWallet \/ queue' = <<>>
  BY <1>1 DEF ShownInv
<1>8. (known => Tracking)' /\ (\A i \in DOMAIN queue : queue[i].user = ctx.user)'
  BY <1>1, <1>3 DEF ShownInv, Tracking
<1>9. QED
  BY <1>5, <1>6, <1>7, <1>8, Zenon DEF ShownInv

(* One step of a command's goroutine. *)
LEMMA ShownStep ==
  ASSUME PatientInv, PlayTypeInv, ShownInv, NEW d \in commands, CommandStep(d)
  PROVE  ShownInv'
<1>1. /\ commands = {d} /\ CommandOK(d) /\ InFlight(d)
      /\ d \in Commands /\ d.user \in Accounts
  BY DEF PatientInv, OneCommand, ShownInv, PlayTypeInv, CommandTypes, Commands
<1>2. UNCHANGED <<screen, shop, ctx, queue, known, lost, elsewhere>>
  BY DEF CommandStep, history
<1>3. ASSUME NEW e, Becomes(d, e), InFlight(e)',
             ~Spends(e) => ~Spends(d) /\ \A a \in Accounts : (BalanceOf(a))' = BalanceOf(a)
      PROVE  ShownInv'
  <2>1. commands' = {e}
    BY <1>1, <1>3 DEF Becomes
  <2>2. known' /\ ~elsewhere' /\ (\A c \in commands' : ~Spends(c)') => BalanceShown'
    <3>1. SUFFICES ASSUME known, ~elsewhere, ~Spends(e) PROVE BalanceShown'
      BY <1>2, <2>1 DEF Spends, Tells
    <3>2. ~Spends(d) /\ Tracking
      BY <1>3, <3>1 DEF ShownInv
    <3>3. BalanceShown
      BY <1>1, <3>1, <3>2 DEF ShownInv
    <3>4. (BalanceOf(ctx.user))' = BalanceOf(ctx.user)
      <4>1. ctx.user \in Accounts
        BY <3>2, BalanceType
      <4>2. \A a \in Accounts : WalletOf(accounts'[a]).balance = WalletOf(accounts[a]).balance
        BY <1>3, <3>1 DEF BalanceOf
      <4>3. QED
        BY <1>2, <4>1, <4>2 DEF BalanceOf
    <3>5. QED
      BY <1>2, <3>3, <3>4 DEF BalanceShown
  <2>3. (known => Tracking)' /\ (\A i \in DOMAIN queue : queue[i].user = ctx.user)'
    BY <1>2 DEF ShownInv, Tracking
  <2>4. screen' = "shop" => shop'.wallet = NoWallet \/ queue' = <<>>
    BY <1>2 DEF ShownInv
  <2>5. \A c \in commands' : InFlight(c)'
    BY <1>3, <2>1
  <2>6. QED
    BY <2>2, <2>3, <2>4, <2>5, Zenon DEF ShownInv
<1>4. d.step # "answered" => d.error = "none"
  BY <1>1 DEF CommandOK
<1>5. d.step # "answered" /\ d.step # "flush" /\ Watched(d) => queue = <<>>
  BY <1>1, <1>4 DEF InFlight
<1>6. ASSUME UNCHANGED stored PROVE \A a : (BalanceOf(a))' = BalanceOf(a)
  BY <1>6 DEF BalanceOf, stored
<1>7. CASE Flushed(d)
  <2> DEFINE e == [d EXCEPT !.step = IF d.kind = "redeem" THEN "redeem" ELSE "wallet"]
  <2>1. d.step = "flush" /\ d.ahead = 0 /\ Becomes(d, e) /\ UNCHANGED stored
    BY <1>7 DEF Flushed
  <2>2. /\ e.kind = d.kind /\ e.user = d.user /\ e.loaded = d.loaded
        /\ e.error = d.error /\ e.wallet = d.wallet
        /\ e.step = IF d.kind = "redeem" THEN "redeem" ELSE "wallet"
    BY <1>1 DEF Commands
  <2> HIDE DEF e
  <2>3. ~d.loaded
    BY <1>1, <2>1 DEF InFlight
  <2>4. Watched(d) => queue = <<>>
    <3>1. Len(queue) = 0 => queue = <<>>
      BY DEF PlayTypeInv, SessionTypes
    <3>2. QED
      BY <1>1, <2>1, <3>1 DEF InFlight
  <2>5. InFlight(e)'
    BY <1>1, <1>2, <2>2, <2>3, <2>4 DEF InFlight, Watched
  <2>6. ~Spends(d)
    BY <2>1, <2>3 DEF Spends, Tells
  <2>7. QED
    BY <1>3, <1>6, <2>1, <2>5, <2>6
<1>8. CASE ReadWallet(d)
  <2>1. PICK e : e = [d EXCEPT !.step = "answered", !.wallet = WalletOf(accounts[d.user]), !.loaded = TRUE]
    OBVIOUS
  <2>2. d.step = "wallet" /\ Becomes(d, e) /\ UNCHANGED stored
    BY <1>8, <2>1 DEF ReadWallet, Answers
  <2>3. /\ e.kind = d.kind /\ e.user = d.user /\ e.loaded = TRUE /\ e.step = "answered"
        /\ e.error = d.error /\ e.wallet.balance = BalanceOf(d.user)
    BY <1>1, <2>1 DEF Commands, BalanceOf
  <2>4. InFlight(e)'
    BY <1>1, <1>2, <1>5, <1>6, <2>2, <2>3 DEF InFlight, Watched
  <2>5. ~Spends(e) => ~Spends(d)
    BY <2>2, <2>3 DEF Spends, Tells
  <2>6. QED
    BY <1>3, <1>6, <2>2, <2>4, <2>5
<1>9. ASSUME Refuses(d), d.step \in {"buy", "equip"}, UNCHANGED stored PROVE ShownInv'
  <2> DEFINE e == [d EXCEPT !.step = "answered", !.error = "refusal"]
  <2>1. Becomes(d, e)
    BY <1>9 DEF Refuses
  <2>2. /\ e.kind = d.kind /\ e.user = d.user /\ e.loaded = d.loaded /\ e.step = "answered"
        /\ e.error = "refusal" /\ e.wallet = d.wallet
    BY <1>1 DEF Commands
  <2> HIDE DEF e
  <2>3. InFlight(e)'
    BY <1>1, <1>2, <1>5, <1>6, <1>9, <2>2 DEF InFlight, Watched
  <2>4. ~Spends(e) => ~Spends(d)
    BY <1>9, <2>2 DEF Spends, Tells
  <2>5. QED
    BY <1>3, <1>6, <1>9, <2>1, <2>3, <2>4
<1>10. CASE Buy(d)
  <2>1. CASE Refuses(d) /\ UNCHANGED stored
    BY <1>9, <1>10, <2>1 DEF Buy
  <2>2. CASE Becomes(d, [d EXCEPT !.step = "equip", !.wallet = WalletOf(accounts'[d.user]), !.loaded = TRUE])
    <3>1. PICK e : e = [d EXCEPT !.step = "equip", !.wallet = WalletOf(accounts'[d.user]), !.loaded = TRUE]
      OBVIOUS
    <3>2. d.step = "buy" /\ Becomes(d, e)
      BY <1>10, <2>2, <3>1 DEF Buy
    <3>3. /\ e.kind = d.kind /\ e.user = d.user /\ e.loaded = TRUE /\ e.step = "equip"
          /\ e.error = d.error /\ e.wallet.balance = WalletOf(accounts'[d.user]).balance
      BY <1>1, <3>1 DEF Commands
    <3>4. InFlight(e)' /\ Spends(e)
      BY <1>1, <1>2, <1>5, <3>2, <3>3 DEF InFlight, Watched, BalanceOf, Spends
    <3>5. QED
      BY <1>3, <3>2, <3>4
  <2>3. QED
    BY <1>10, <2>1, <2>2, Zenon DEF Buy
<1>11. CASE Equip(d)
  <2>1. CASE Refuses(d) /\ UNCHANGED stored
    BY <1>9, <1>11, <2>1 DEF Equip
  <2>2. CASE /\ accounts' = Wears(d.user, SlotOf[d.item], IF d.wear THEN {d.item} ELSE {})
             /\ Answers(d, WalletOf(accounts'[d.user]))
    <3>1. PICK e : e = [d EXCEPT !.step = "answered", !.wallet = WalletOf(accounts'[d.user]), !.loaded = TRUE]
      OBVIOUS
    <3>2. d.step = "equip" /\ Becomes(d, e)
      BY <1>11, <2>2, <3>1 DEF Equip, Answers
    <3>3. /\ e.kind = d.kind /\ e.user = d.user /\ e.loaded = TRUE /\ e.step = "answered"
          /\ e.error = d.error /\ e.wallet.balance = WalletOf(accounts'[d.user]).balance
      BY <1>1, <3>1 DEF Commands
    <3>4. InFlight(e)'
      BY <1>1, <1>2, <1>5, <3>2, <3>3 DEF InFlight, Watched, BalanceOf
    <3>5. \A a \in Accounts : (BalanceOf(a))' = BalanceOf(a)
      <4>1. ASSUME NEW a \in Accounts
            PROVE  accounts'[a].earned = accounts[a].earned /\ accounts'[a].owned = accounts[a].owned
        BY <1>1, <2>2 DEF Wears, PlayTypeInv, StoredTypes, Account
      <4>2. QED
        BY <4>1 DEF BalanceOf, WalletOf
    <3>6. ~Spends(e) => ~Spends(d)
      BY <3>2, <3>3 DEF Spends, Tells
    <3>7. QED
      BY <1>3, <3>2, <3>4, <3>5, <3>6
  <2>3. QED
    BY <1>11, <2>1, <2>2, Zenon DEF Equip
<1>12. CASE Redeem(d)
  <2> DEFINE e == [d EXCEPT !.step = "wallet", !.user = Other]
  <2>1. d.step = "redeem" /\ d.kind = "redeem" /\ Becomes(d, e)
    BY <1>1, <1>12 DEF Redeem, CommandOK
  <2>2. /\ e.kind = "redeem" /\ e.loaded = d.loaded /\ e.step = "wallet" /\ e.error = "none"
    BY <1>1, <1>4, <2>1 DEF Commands
  <2> HIDE DEF e
  <2>3. InFlight(e)' /\ Spends(e)
    BY <1>1, <1>2, <1>5, <2>1, <2>2 DEF InFlight, Watched, Spends, Tells
  <2>4. QED
    BY <1>3, <2>1, <2>3
<1>13. CASE Fails(d)
  <2> DEFINE e == [d EXCEPT !.step = "answered",
                            !.error = IF d.kind = "redeem" /\ d.step = "wallet" THEN "unread" ELSE "error"]
  <2>1. d.step # "answered" /\ Becomes(d, e) /\ UNCHANGED stored
    BY <1>13 DEF Fails
  <2>2. /\ e.kind = d.kind /\ e.user = d.user /\ e.loaded = d.loaded /\ e.step = "answered"
        /\ e.wallet = d.wallet
        /\ e.error = IF d.kind = "redeem" /\ d.step = "wallet" THEN "unread" ELSE "error"
    BY <1>1 DEF Commands
  <2> HIDE DEF e
  <2>3. InFlight(e)'
    BY <1>1, <1>2, <1>5, <1>6, <2>1, <2>2 DEF InFlight, Watched
  <2>4. ~Spends(e) => ~Spends(d)
    BY <2>1, <2>2 DEF Spends, Tells
  <2>5. QED
    BY <1>3, <1>6, <2>1, <2>3, <2>4
<1>14. QED
  BY <1>7, <1>8, <1>10, <1>11, <1>12, <1>13, Zenon DEF CommandStep

(* An answer, shown or dropped. *)
LEMMA ShownAnswer ==
  ASSUME PatientInv, PlayTypeInv, ShownInv, NEW d \in commands, Deliver(d)
  PROVE  ShownInv'
<1>1. /\ commands = {d} /\ CommandOK(d) /\ InFlight(d)
      /\ d \in Commands /\ d.user \in Accounts /\ d.step = "answered"
  BY DEF PatientInv, OneCommand, ShownInv, PlayTypeInv, CommandTypes, Commands, Deliver
<1>2. UNCHANGED <<screen, queue, accounts, elsewhere>>
  BY DEF Deliver, stored
<1>3. Watched(d) => (d.error = "error" /\ ~d.loaded) \/ queue = <<>>
  BY <1>1 DEF InFlight
(* What is shown instead of what was read comes with an empty queue.         *)
<1>4. ASSUME queue = <<>>, commands' = {}, lost' = 0, ctx'.user = d.user, known' = d.loaded,
             Watched(d), ctx'.balance = d.wallet.balance,
             screen' = "shop" => shop'.wallet = NoWallet \/ queue' = <<>>
      PROVE  ShownInv'
  <2>1. Tracking'
    BY <1>1, <1>4, AccountsDiffer DEF Tracking, Accounts
  <2>2. known' /\ ~elsewhere' => BalanceShown'
    <3>1. SUFFICES ASSUME known', ~elsewhere PROVE BalanceShown'
      BY <1>2
    <3>2. d.wallet.balance = BalanceOf(d.user)
      BY <1>1, <1>4, <3>1 DEF InFlight
    <3>3. BalanceOf(d.user) \in Int
      <4>1. WalletOf(accounts[d.user]) \in Wallets
        BY <1>1, WalletType DEF PlayTypeInv, StoredTypes
      <4>2. QED
        BY <4>1 DEF BalanceOf, Wallets
    <3>4. (BalanceOf(ctx.user))' = BalanceOf(d.user)
      BY <1>2, <1>4 DEF BalanceOf
    <3>5. QueuedIn(queue', ctx'.user) = 0
      BY <1>2, <1>4, QueuedNothing
    <3>6. QED
      BY <1>4, <3>2, <3>3, <3>4, <3>5 DEF BalanceShown
  <2>3. (\A i \in DOMAIN queue : queue[i].user = ctx.user)'
    BY <1>2, <1>4
  <2>4. QED
    BY <1>4, <2>1, <2>2, <2>3 DEF ShownInv
<1>5. ASSUME UNCHANGED <<ctx, known, lost>>, ~Spends(d), \A c \in commands' : InFlight(c)',
             screen' = "shop" => shop'.wallet = shop.wallet
      PROVE  ShownInv'
  <2>1. known' /\ ~elsewhere' => BalanceShown'
    BY <1>1, <1>2, <1>5 DEF ShownInv, BalanceShown, BalanceOf
  <2>2. (known => Tracking)' /\ (\A i \in DOMAIN queue : queue[i].user = ctx.user)'
    BY <1>2, <1>5 DEF ShownInv, Tracking
  <2>3. screen' = "shop" => shop'.wallet = NoWallet \/ queue' = <<>>
    BY <1>2, <1>5 DEF ShownInv
  <2>4. QED
    BY <1>5, <2>1, <2>2, <2>3 DEF ShownInv
<1>6. CASE ShowWallet(d)
  <2>1. screen = "shop" /\ d.loaded /\ d.kind # "redeem" /\ d.user = ctx.user
    BY <1>1, <1>6 DEF ShowWallet, ToShop, InFlight
  <2>2. queue = <<>> /\ Watched(d)
    BY <1>3, <2>1 DEF Watched
  <2>3. ctx'.user = ctx.user /\ ctx'.balance = d.wallet.balance
    BY <1>6 DEF ShowWallet, ApplyWallet
  <2>4. commands' = {} /\ lost' = 0 /\ known' = d.loaded
    <3>1. d.loaded = TRUE
      BY <1>1, <2>1 DEF Commands
    <3>2. QED
      BY <1>1, <1>6, <3>1 DEF ShowWallet
  <2>5. QED
    BY <1>2, <1>4, <2>1, <2>2, <2>3, <2>4
<1>7. CASE ShowRefusal(d)
  <2>1. ~Spends(d) /\ UNCHANGED <<ctx, known, lost>>
    BY <1>7 DEF ShowRefusal, ToShop, Spends, Tells
  <2>2. PICK c : c = [Load EXCEPT !.id = d.id]
    OBVIOUS
  <2>3. commands' = {c}
    BY <1>1, <1>7, <2>2 DEF ShowRefusal, Becomes
  <2>4. InFlight(c)'
    <3>1. /\ c.kind = "load" /\ c.step = "flush" /\ c.user = ctx.user /\ c.loaded = FALSE
          /\ c.ahead = Len(queue)
      BY <2>2 DEF Load, Command
    <3>2. QED
      BY <1>2, <2>1, <3>1 DEF InFlight
  <2>5. shop'.wallet = shop.wallet
    BY <1>7 DEF ShowRefusal, PatientInv, ShopOK
  <2>6. QED
    BY <1>5, <2>1, <2>3, <2>4, <2>5
<1>8. CASE ShowError(d)
  <2>1. ~Spends(d) /\ UNCHANGED <<ctx, known, lost>> /\ commands' = {}
    BY <1>1, <1>8 DEF ShowError, ToShop, Spends, Tells
  <2>2. shop'.wallet = shop.wallet
    BY <1>8 DEF ShowError, PatientInv, ShopOK
  <2>3. QED
    BY <1>5, <2>1, <2>2
<1>9. CASE Linked(d)
  <2>1. d.kind = "redeem" /\ d.error # "error" /\ screen = "link"
    BY <1>9 DEF Linked, ToLink
  <2>2. queue = <<>> /\ Watched(d)
    BY <1>3, <2>1 DEF Watched
  <2>3. ctx'.user = d.user /\ ctx'.balance = d.wallet.balance
    BY <1>9 DEF Linked, ApplyWallet
  <2>4. commands' = {} /\ lost' = 0 /\ known' = d.loaded
    BY <1>1, <1>9 DEF Linked
  <2>5. QED
    BY <1>2, <1>4, <2>1, <2>2, <2>3, <2>4
<1>10. CASE Dropped(d)
  <2>1. UNCHANGED <<ctx, known, lost, shop>> /\ commands' = {}
    BY <1>1, <1>10 DEF Dropped
  <2>2. ~Spends(d)
    <3>1. CASE ToLink(d)
      BY <1>10, <3>1 DEF Dropped, ToLink, Spends, Tells
    <3>2. CASE ~ToLink(d)
      <4>1. ~ToShop(d) /\ (d.kind = "redeem" => screen = "link")
        BY <1>10, <3>2 DEF Dropped, PatientInv, OneCommand
      <4>2. d.kind # "redeem"
        BY <3>2, <4>1 DEF ToLink
      <4>3. d.kind # "buy"
        BY <1>1, <4>1 DEF ToShop, InFlight
      <4>4. QED
        BY <4>2, <4>3 DEF Spends, Tells
    <3>3. QED
      BY <3>1, <3>2
  <2>3. QED
    BY <1>5, <2>1, <2>2
<1>11. QED
  BY <1>6, <1>7, <1>8, <1>9, <1>10, Zenon DEF Deliver

(* Every step of a patient session keeps all of it.                          *)
LEMMA ShownNext ==
  ASSUME PatientInv, PlayTypeInv, ShownInv, PatientInv', [PlayNext]_vars
  PROVE  ShownInv'
<1>1. CASE UNCHANGED vars
  BY <1>1, ShownAlone DEF vars, stored, history
<1>2. CASE OpenPractice \/ StartRace \/ Leave \/ RaceKey \/ BackspaceKey \/ OpenLink \/ CloseLink
  <2>1. UNCHANGED <<ctx, commands, queue, accounts, known, lost, elsewhere, shop>>
    BY <1>2 DEF OpenPractice, StartRace, Leave, Begin, RaceKey, BackspaceKey, OpenLink, CloseLink, stored, history
  <2>2. screen # "shop" /\ screen' # "shop"
    BY <1>2 DEF OpenPractice, StartRace, Leave, Begin, RaceKey, BackspaceKey, OpenLink, CloseLink
  <2>3. QED
    BY <2>1, <2>2, ShownAlone
<1>3. CASE CloseShop
  BY <1>3, ShownAlone DEF CloseShop, stored, history
<1>4. ASSUME UNCHANGED <<commands, accounts, known, elsewhere>>, screen \in {"practice", "race"},
             \/ UNCHANGED <<ctx, queue, lost>> /\ screen' \in {screen, "results"}
             \/ screen' = "results" /\ \E award : award.total \in Nat /\ Earn(award)
      PROVE  ShownInv'
  <2>1. CASE UNCHANGED <<ctx, queue, lost>> /\ screen' \in {screen, "results"}
    BY <1>4, <2>1, ShownAlone
  <2>2. CASE screen' = "results" /\ \E award : award.total \in Nat /\ Earn(award)
    BY <1>4, <2>2, ShownEarn
  <2>3. QED
    BY <1>4, <2>1, <2>2
<1>5. CASE PracticeKey
  <2>1. \/ UNCHANGED <<screen, ctx, queue, lost>>
        \/ /\ screen' = "results"
           /\ \E base \in PracticeBase \cap Draws, wpm \in WPMs :
                Earn(AwardPractice(base, wpm, Accuracy(sess')))
    BY <1>5 DEF PracticeKey
  <2>2. screen = "practice" /\ UNCHANGED <<commands, accounts, known, elsewhere>>
    BY <1>5 DEF PracticeKey, stored
  <2>3. QED
    BY <1>4, <2>1, <2>2, AwardTypes
<1>6. CASE RaceEnded
  <2>1. \/ UNCHANGED <<ctx, queue, lost>>
        \/ \E base \in RaceBase \cap Draws, wpm \in WPMs, place, racers \in 1..MaxRacers :
             Earn(AwardRace(base, place, racers, wpm, Accuracy(sess)))
    BY <1>6 DEF RaceEnded
  <2>2. screen = "race" /\ screen' = "results" /\ UNCHANGED <<commands, accounts, known, elsewhere>>
    BY <1>6 DEF RaceEnded, stored
  <2>3. QED
    BY <1>4, <2>1, <2>2, AwardTypes
<1>7. CASE OpenShop \/ Refresh \/ Act \/ EnterCode
  BY <1>7, ShownStart
<1>8. CASE Keys
  BY <1>2, <1>3, <1>5, <1>7, <1>8, Zenon DEF Keys
<1>9. CASE WriteRun
  BY <1>9, ShownWrite
<1>10. ASSUME NEW d \in commands, CommandStep(d) \/ Deliver(d) PROVE ShownInv'
  BY <1>10, ShownStep, ShownAnswer
<1>11. CASE BuyElsewhere
  <2>1. UNCHANGED <<screen, shop, ctx, commands, queue, known, lost>> /\ elsewhere' = TRUE
    BY <1>11 DEF BuyElsewhere
  <2>2. QED
    BY <2>1 DEF ShownInv, InFlight, Watched, Tracking
<1>12. QED
  BY <1>1, <1>6, <1>8, <1>9, <1>10, <1>11, Zenon DEF PlayNext

(***************************************************************************)
(* What a patient session has on show at rest is what its account has, what *)
(* is queued for it and what could not be written since it was last read:   *)
(* for any prices, any queue, any awards and any failures of the database.  *)
(***************************************************************************)
THEOREM ShownTheorem == PatientSpec => []ShownIsStored
<1>1. PlayInit => PlayTypeInv /\ ShownInv
  BY PlayTypeInit, ShownInit
<1>2. /\ PlayTypeInv /\ ShownInv /\ PatientInv /\ PatientInv' /\ [PlayNext /\ Patient']_vars
      => PlayTypeInv' /\ ShownInv'
  BY PlayTypeStep, ShownNext
<1>3. ShownInv => ShownIsStored
  BY DEF ShownInv, ShownIsStored, BalanceShown, Queued, QueuedIn
<1>4. QED
  BY <1>1, <1>2, <1>3, PatientInvHolds, PTL DEF PatientSpec
=============================================================================
