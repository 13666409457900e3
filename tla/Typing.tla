------------------------------- MODULE Typing -------------------------------
(***************************************************************************)
(* The keystroke engine (internal/typing/typing.go): one attempt at a       *)
(* passage. A rune matters only as being the expected one or not; the clock *)
(* is left out.                                                             *)
(***************************************************************************)
EXTENDS Integers, FiniteSets

CONSTANT Length    \* characters in the passage

ASSUME LengthAssumption == Length \in Nat

VARIABLE sess

Positions == 1..Length

CharStates == {"untyped", "correct", "incorrect"}

Session ==
  [states : [Positions -> CharStates], pos : 0..Length,
   keystrokes : Nat, correctKeystrokes : Nat, correct : Nat, incorrect : Nat,
   started : BOOLEAN, finished : BOOLEAN]

(* started is TRUE for a race, whose clock is the lobby's (StartedAt).      *)
New(started) ==
  [states |-> [i \in Positions |-> "untyped"], pos |-> 0,
   keystrokes |-> 0, correctKeystrokes |-> 0, correct |-> 0, incorrect |-> 0,
   started |-> started, finished |-> Length = 0]

One(b) == IF b THEN 1 ELSE 0

(* right: the rune is the one the passage expects here.                     *)
Type(s, right) ==
  IF s.finished THEN s
  ELSE [states |-> [s.states EXCEPT ![s.pos + 1] = IF right THEN "correct" ELSE "incorrect"],
        pos |-> s.pos + 1,
        keystrokes |-> s.keystrokes + 1,
        correctKeystrokes |-> s.correctKeystrokes + One(right),
        correct |-> s.correct + One(right),
        incorrect |-> s.incorrect + One(~right),
        started |-> TRUE,
        finished |-> s.pos + 1 = Length]

(* A mutant: a character taken back is still counted.                       *)
BackspaceFault(s) ==
  IF s.finished \/ s.pos = 0 THEN s
  ELSE [s EXCEPT !.states[s.pos] = "untyped", !.pos = @ - 1]

Backspace(s) ==
  IF s.finished \/ s.pos = 0 THEN s
  ELSE [s EXCEPT !.states[s.pos] = "untyped",
                 !.pos = @ - 1,
                 !.correct = @ - One(s.states[s.pos] = "correct"),
                 !.incorrect = @ - One(s.states[s.pos] = "incorrect")]

(* Of all that was typed, how much was right.                               *)
Accuracy(s) == <<s.correctKeystrokes, s.keystrokes>>

TypingInit == \E started \in BOOLEAN : sess = New(started)

TypingNext ==
  \/ \E right \in BOOLEAN : sess' = Type(sess, right)
  \/ sess' = Backspace(sess)

TypingSpec == TypingInit /\ [][TypingNext]_sess

-----------------------------------------------------------------------------

Marked(s, state) == {i \in Positions : s.states[i] = state}

(* The counters the results are made of are the passage's own marks after   *)
(* any mix of typing and backspacing: what is behind the cursor is marked,  *)
(* nothing beyond it is, and a mistake taken back stays a mistake in the    *)
(* keystrokes that accuracy is measured over.                               *)
CountersAgree ==
  /\ sess \in Session
  /\ Marked(sess, "untyped") = (sess.pos + 1)..Length
  /\ sess.correct = Cardinality(Marked(sess, "correct"))
  /\ sess.incorrect = Cardinality(Marked(sess, "incorrect"))
  /\ sess.correctKeystrokes >= sess.correct
  /\ sess.keystrokes - sess.correctKeystrokes >= sess.incorrect
  /\ sess.finished <=> sess.pos = Length
=============================================================================
