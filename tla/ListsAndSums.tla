---------------------------- MODULE ListsAndSums ----------------------------
(***************************************************************************)
(* Lists that name nobody twice, as the lobby keeps them (l.order,          *)
(* l.finishers): what append and removeString do to such a list. And sums   *)
(* along finite sets and sequences, as the folds of the community modules   *)
(* compute them: what a member more, or less, does to a sum. And sorting:   *)
(* a finite set whose members can be told apart can be listed in order.     *)
(***************************************************************************)
EXTENDS Integers, SequencesExt, SequenceTheorems, FiniteSetTheorems, TLAPS

(***************************************************************************)
(* Appending a newcomer adds that element, repeats none and leaves the      *)
(* others where they are (append in Join and Finish).                       *)
(***************************************************************************)
LEMMA AppendDistinct ==
  ASSUME NEW S, NEW s \in Seq(S), IsInjective(s),
         NEW e \in S, e \notin ToSet(s)
  PROVE  /\ Append(s, e) \in Seq(S)
         /\ Len(Append(s, e)) = Len(s) + 1
         /\ \A i \in 1..Len(s) : Append(s, e)[i] = s[i]
         /\ Append(s, e)[Len(s) + 1] = e
         /\ ToSet(Append(s, e)) = ToSet(s) \cup {e}
         /\ IsInjective(Append(s, e))
<1> DEFINE t == Append(s, e)
<1>1. /\ t \in Seq(S)
      /\ Len(t) = Len(s) + 1
      /\ \A i \in 1..Len(s) : t[i] = s[i]
      /\ t[Len(s) + 1] = e
  BY AppendProperties
<1>2. /\ DOMAIN s = 1..Len(s) /\ Len(s) \in Nat
      /\ DOMAIN t = 1..(Len(s) + 1)
  BY <1>1, LenProperties
<1>3. ToSet(t) = ToSet(s) \cup {e}
  BY <1>1, <1>2 DEF ToSet
<1>4. IsInjective(t)
  BY <1>1, <1>2 DEF ToSet, IsInjective
<1> QED
  BY <1>1, <1>3, <1>4

(***************************************************************************)
(* removeString takes its argument out of a list without repetitions and    *)
(* keeps the others, in order: the list closes up over the gap.             *)
(***************************************************************************)
LEMMA RemoveFirstShifts ==
  ASSUME NEW S, NEW s \in Seq(S), IsInjective(s),
         NEW k \in 1..Len(s)
  PROVE  /\ RemoveFirst(s, s[k]) \in Seq(S)
         /\ Len(RemoveFirst(s, s[k])) = Len(s) - 1
         /\ \A i \in 1..(Len(s) - 1) :
              RemoveFirst(s, s[k])[i] = IF i < k THEN s[i] ELSE s[i + 1]
<1> DEFINE e == s[k]
           I == {i \in 1..Len(s) : s[i] = e}
           front == SubSeq(s, 1, k - 1)
           back == SubSeq(s, k + 1, Len(s))
<1>1. Len(s) \in Nat /\ DOMAIN s = 1..Len(s) /\ \A i \in 1..Len(s) : s[i] \in S
  BY LenProperties, ElementOfSeq
<1>0. Len(s) \in Nat /\ k \in Int /\ 1 <= k /\ k <= Len(s)
  BY <1>1
<1>2. I = {k}
  BY <1>1 DEF IsInjective
<1>3. SelectInSeq(s, LAMBDA v : v = e) = k
  <2>1. Min({k}) = k
    BY DEF Min
  <2>2. SelectInSeq(s, LAMBDA v : v = e) = IF I # {} THEN Min(I) ELSE 0
    BY DEF SelectInSeq
  <2> QED
    BY <1>2, <2>1, <2>2
<1>4. RemoveFirst(s, e) = front \o back
  BY <1>1, <1>3 DEF RemoveFirst, RemoveAt
<1>5. /\ front \in Seq(S)
      /\ Len(front) = IF 1 <= k - 1 THEN (k - 1) - 1 + 1 ELSE 0
      /\ \A i \in 1..((k - 1) - 1 + 1) : front[i] = s[1 + i - 1]
  <2>1. \A i \in 1..(k - 1) : s[i] \in S
    BY <1>1
  <2> QED
    BY <2>1, SubSeqProperties
<1>6. /\ back \in Seq(S)
      /\ Len(back) = IF k + 1 <= Len(s) THEN Len(s) - (k + 1) + 1 ELSE 0
      /\ \A i \in 1..(Len(s) - (k + 1) + 1) : back[i] = s[(k + 1) + i - 1]
  <2>1. \A i \in (k + 1)..Len(s) : s[i] \in S
    BY <1>1
  <2> QED
    BY <1>1, <2>1, SubSeqProperties
<1> HIDE DEF front, back
<1>7. /\ front \o back \in Seq(S)
      /\ Len(front \o back) = Len(front) + Len(back)
      /\ \A i \in 1..(Len(front) + Len(back)) :
           (front \o back)[i] =
             IF i <= Len(front) THEN front[i] ELSE back[i - Len(front)]
  BY <1>5, <1>6, ConcatProperties
<1>8. Len(front) = k - 1 /\ Len(back) = Len(s) - k
  <2>1. Len(front) = k - 1
    BY <1>0, <1>5
  <2>2. Len(back) = Len(s) - k
    BY <1>0, <1>6
  <2> QED
    BY <2>1, <2>2
<1>9. ASSUME NEW i \in 1..(Len(s) - 1)
      PROVE  (front \o back)[i] = IF i < k THEN s[i] ELSE s[i + 1]
  <2>1. CASE i < k
    <3>1. front[i] = s[i]
      BY <2>1, <1>1, <1>5
    <3> QED
      BY <2>1, <3>1, <1>1, <1>7, <1>8
  <2>2. CASE i >= k
    <3>1. back[i - (k - 1)] = s[i + 1]
      <4> DEFINE j == i - (k - 1)
      <4>1. j \in 1..(Len(s) - (k + 1) + 1) /\ (k + 1) + j - 1 = i + 1
        BY <2>2, <1>1
      <4> QED
        BY <4>1, <1>6
    <3> QED
      BY <2>2, <3>1, <1>1, <1>7, <1>8
  <2> QED
    <3>1. i < k \/ i >= k
      BY <1>0
    <3> QED
      BY <2>1, <2>2, <3>1
<1>10. Len(front \o back) = Len(s) - 1
  BY <1>1, <1>7, <1>8
<1> QED
  BY <1>4, <1>7, <1>9, <1>10

LEMMA RemoveFirstDistinct ==
  ASSUME NEW S, NEW s \in Seq(S), IsInjective(s), NEW e \in ToSet(s)
  PROVE  /\ RemoveFirst(s, e) \in Seq(S)
         /\ Len(RemoveFirst(s, e)) = Len(s) - 1
         /\ ToSet(RemoveFirst(s, e)) = ToSet(s) \ {e}
         /\ IsInjective(RemoveFirst(s, e))
         /\ s[1] # e => RemoveFirst(s, e)[1] = s[1]
<1> DEFINE t == RemoveFirst(s, e)
<1>1. Len(s) \in Nat /\ DOMAIN s = 1..Len(s)
  BY LenProperties
<1>2. PICK k \in 1..Len(s) : s[k] = e
  BY <1>1 DEF ToSet
<1>3. /\ t \in Seq(S)
      /\ Len(t) = Len(s) - 1
      /\ \A i \in 1..(Len(s) - 1) : t[i] = IF i < k THEN s[i] ELSE s[i + 1]
  BY <1>2, RemoveFirstShifts
<1> HIDE DEF t
<1>4. DOMAIN t = 1..(Len(s) - 1)
  BY <1>3, LenProperties
<1>5. ToSet(t) = ToSet(s) \ {e}
  <2>1. ASSUME NEW x \in ToSet(t)
        PROVE  x \in ToSet(s) \ {e}
    <3>1. PICK i \in 1..(Len(s) - 1) : x = t[i]
      BY <1>4 DEF ToSet
    <3>2. CASE i < k
      <4>1. x = s[i] /\ i \in 1..Len(s) /\ i # k
        BY <3>1, <3>2, <1>1, <1>3
      <4> QED
        BY <4>1, <1>1, <1>2 DEF ToSet, IsInjective
    <3>3. CASE i >= k
      <4>1. x = s[i + 1] /\ i + 1 \in 1..Len(s) /\ i + 1 # k
        BY <3>1, <3>3, <1>1, <1>3
      <4> QED
        BY <4>1, <1>1, <1>2 DEF ToSet, IsInjective
    <3> QED
      BY <3>2, <3>3, <1>1
  <2>2. ASSUME NEW x \in ToSet(s), x # e
        PROVE  x \in ToSet(t)
    <3>1. PICK j \in 1..Len(s) : x = s[j]
      BY <1>1 DEF ToSet
    <3>2. CASE j < k
      <4>1. j \in 1..(Len(s) - 1) /\ t[j] = x
        BY <3>1, <3>2, <1>1, <1>3
      <4> QED
        BY <4>1, <1>4 DEF ToSet
    <3>3. CASE j > k
      <4>1. j - 1 \in 1..(Len(s) - 1) /\ t[j - 1] = x
        BY <3>1, <3>3, <1>1, <1>3
      <4> QED
        BY <4>1, <1>4 DEF ToSet
    <3> QED
      BY <3>1, <3>2, <3>3, <2>2, <1>1, <1>2
  <2>3. ToSet(t) \subseteq ToSet(s) \ {e}
    BY <2>1
  <2>4. ToSet(s) \ {e} \subseteq ToSet(t)
    BY <2>2
  <2> QED
    BY <2>3, <2>4
<1>6. IsInjective(t)
  <2> DEFINE from(i) == IF i < k THEN i ELSE i + 1
  <2> SUFFICES ASSUME NEW a \in DOMAIN t, NEW b \in DOMAIN t, t[a] = t[b]
               PROVE  a = b
    BY DEF IsInjective
  <2>1. a \in 1..(Len(s) - 1) /\ b \in 1..(Len(s) - 1)
    BY <1>4
  <2>2. /\ from(a) \in DOMAIN s /\ t[a] = s[from(a)]
        /\ from(b) \in DOMAIN s /\ t[b] = s[from(b)]
    BY <2>1, <1>1, <1>3
  <2>3. from(a) = from(b)
    <3> HIDE DEF from
    <3> QED
      BY <2>2 DEF IsInjective
  <2> QED
    BY <2>1, <2>3, <1>1
<1>7. s[1] # e => t[1] = s[1]
  BY <1>1, <1>2, <1>3
<1> QED
  BY <1>3, <1>5, <1>6, <1>7 DEF t

-----------------------------------------------------------------------------

(* Induction over the subsets of a finite set: of a set of subsets that has  *)
(* a member, some member has no smaller one.                                 *)
LEMMA SmallestSubset ==
  ASSUME NEW S, IsFiniteSet(S), NEW T \in SUBSET SUBSET S, T # {}
  PROVE  \E x \in T : \A y \in T : y \subseteq x => y = x
<1>1. IsWellFoundedOn(StrictSubsetOrdering(S), FiniteSubsetsOf(S))
  BY FS_StrictSubsetOrderingWellFounded
<1>2. FiniteSubsetsOf(S) = SUBSET S
  BY FS_FiniteSubsetsOfFinite
<1>3. PICK x \in T : \A y \in T : ~(<<y, x>> \in StrictSubsetOrdering(S))
  BY <1>1, <1>2, WFMin
<1>4. ASSUME NEW y \in T, y \subseteq x, y # x PROVE FALSE
  <2>1. <<y, x>> \in (SUBSET S) \X (SUBSET S)
    OBVIOUS
  <2>2. <<y, x>> \in StrictSubsetOrdering(S)
    BY <1>4, <2>1 DEF StrictSubsetOrdering
  <2>3. QED
    BY <1>3, <1>4, <2>2
<1>5. QED
  BY <1>3, <1>4

Pick(s) == CHOOSE x \in s : TRUE

(* The folds take the member CHOOSE picks.                                   *)
LEMMA Picks == \A s : s # {} => Pick(s) \in s
  BY DEF Pick

(* g is the sum of w over each subset of S, taken in the order of the folds. *)
Sums(g, w, S) ==
  g = [s \in SUBSET S |-> IF s = {} THEN 0 ELSE w[Pick(s)] + g[s \ {Pick(s)}]]

(* What a sum is, case by case.                                              *)
LEMMA SumsEach ==
  ASSUME NEW g, NEW w, NEW S, Sums(g, w, S)
  PROVE  /\ g[{}] = 0
         /\ \A s \in SUBSET S : s # {} => g[s] = w[Pick(s)] + g[s \ {Pick(s)}]
         /\ DOMAIN g = SUBSET S
BY DEF Sums

Alike(v, w, S) == \A x \in S : v[x] = w[x]

(* A sum depends on the weights of its members only. *)
LEMMA SumsAgree ==
  ASSUME NEW S, NEW T, IsFiniteSet(S), S \subseteq T,
         NEW g, NEW h, NEW v, NEW w, Sums(g, v, S), Sums(h, w, T),
         Alike(v, w, S)
  PROVE  \A s \in SUBSET S : g[s] = h[s]
<1> DEFINE Wrong == {s \in SUBSET S : g[s] # h[s]}
<1> SUFFICES ASSUME Wrong # {} PROVE FALSE
  OBVIOUS
<1>0. Wrong \in SUBSET SUBSET S
  OBVIOUS
<1>1. PICK s \in Wrong : \A y \in Wrong : y \subseteq s => y = s
  <2> HIDE DEF Wrong
  <2>1. QED
    BY <1>0, SmallestSubset
<1>2. s # {}
  BY SumsEach
<1> DEFINE x == Pick(s)
<1>3. x \in s /\ s \ {x} \in SUBSET S
  BY <1>2, Picks
<1>4. g[s \ {x}] = h[s \ {x}]
  BY <1>1, <1>3
<1>5. g[s] = v[x] + g[s \ {x}] /\ h[s] = w[x] + h[s \ {x}]
  BY <1>2 DEF Sums
<1>6. v[x] = w[x]
  BY <1>3 DEF Alike
<1>7. QED
  BY <1>4, <1>5, <1>6

(* Finite sets have sums. *)
LEMMA SumsExist ==
  ASSUME NEW S, IsFiniteSet(S), NEW w
  PROVE  \E g : Sums(g, w, S)
<1> DEFINE Wrong == {s \in SUBSET S : ~ \E g : Sums(g, w, s)}
<1> SUFFICES ASSUME Wrong # {} PROVE FALSE
  OBVIOUS
<1>0. Wrong \in SUBSET SUBSET S
  OBVIOUS
<1>1. PICK s \in Wrong : \A y \in Wrong : y \subseteq s => y = s
  <2> HIDE DEF Wrong
  <2>1. QED
    BY <1>0, SmallestSubset
<1> DEFINE G(t) == CHOOSE g : Sums(g, w, t)
           h == [t \in SUBSET s |-> IF t = {} THEN 0 ELSE w[Pick(t)] + G(t \ {Pick(t)})[t \ {Pick(t)}]]
<1>2. ASSUME NEW t \in SUBSET s, t # s PROVE Sums(G(t), w, t) /\ IsFiniteSet(t)
  <2>1. t \in SUBSET S /\ t \notin Wrong
    BY <1>1, <1>2
  <2>2. \E g : Sums(g, w, t)
    BY <2>1
  <2>3. IsFiniteSet(t)
    BY <2>1, FS_Subset
  <2>4. QED
    BY <2>2, <2>3, Zenon
<1> HIDE DEF G
<1>3. ASSUME NEW t \in SUBSET s, t # {} PROVE h[t \ {Pick(t)}] = G(t \ {Pick(t)})[t \ {Pick(t)}]
  <2> DEFINE u == t \ {Pick(t)}
  <2>1. u \in SUBSET s /\ u # s
    BY <1>3, Picks
  <2>2. Sums(G(u), w, u) /\ IsFiniteSet(u)
    BY <1>2, <2>1
  <2> HIDE DEF u
  <2>3. CASE u = {}
    <3>1. h[{}] = 0 /\ G(u)[{}] = 0
      BY <2>2 DEF Sums
    <3>2. QED
      BY <2>3, <3>1 DEF u
  <2>4. CASE u # {}
    <3> DEFINE r == u \ {Pick(u)}
    <3>1. r \in SUBSET u /\ r \in SUBSET s /\ r # s
      BY <2>1, <2>4, Picks
    <3>2. Sums(G(r), w, r) /\ IsFiniteSet(r)
      BY <1>2, <3>1
    <3>3. G(u)[u] = w[Pick(u)] + G(u)[r]
      BY <2>2, <2>4 DEF Sums
    <3>4. h[u] = w[Pick(u)] + G(r)[r]
      BY <2>1, <2>4
    <3> HIDE DEF r, h
    <3>5. G(r)[r] = G(u)[r]
      <4>1. Alike(w, w, r) /\ IsFiniteSet(r) /\ r \subseteq u /\ r \in SUBSET r
        BY <3>1, <3>2 DEF Alike
      <4>2. Sums(G(r), w, r) /\ Sums(G(u), w, u)
        BY <2>2, <3>2
      <4> HIDE DEF u
      <4>3. QED
        BY <4>1, <4>2, SumsAgree
    <3>6. QED
      BY <3>3, <3>4, <3>5 DEF u
  <2>5. QED
    BY <2>3, <2>4 DEF u
<1>4. Sums(h, w, s)
  <2>1. h = [t \in SUBSET s |-> IF t = {} THEN 0 ELSE w[Pick(t)] + h[t \ {Pick(t)}]]
    BY <1>3, Zenon
  <2>2. QED
    BY <2>1 DEF Sums
<1>5. QED
  BY <1>1, <1>4

(* One member more. *)
LEMMA SumsAdd ==
  ASSUME NEW S, IsFiniteSet(S), NEW w, \A x \in S : w[x] \in Int, NEW g, Sums(g, w, S)
  PROVE  /\ \A s \in SUBSET S : g[s] \in Int
         /\ \A s \in SUBSET S : \A x \in s : g[s] = w[x] + g[s \ {x}]
<1> DEFINE Wrong == {s \in SUBSET S : ~ (g[s] \in Int /\ \A x \in s : g[s] = w[x] + g[s \ {x}])}
<1> SUFFICES ASSUME Wrong # {} PROVE FALSE
  OBVIOUS
<1>0. Wrong \in SUBSET SUBSET S
  OBVIOUS
<1>1. PICK s \in Wrong : \A y \in Wrong : y \subseteq s => y = s
  <2> HIDE DEF Wrong
  <2>1. QED
    BY <1>0, SmallestSubset
<1>2. s # {}
  <2>1. g[{}] = 0
    BY DEF Sums
  <2>2. QED
    BY <2>1
<1> DEFINE y == Pick(s)
<1>3. y \in s /\ s \ {y} \in SUBSET S /\ s \ {y} # s
  BY <1>2, Picks
<1>4. g[s] = w[y] + g[s \ {y}]
  BY <1>2 DEF Sums
<1> HIDE DEF y
<1>5. ASSUME NEW t \in SUBSET s, t # s
      PROVE  g[t] \in Int /\ \A x \in t : g[t] = w[x] + g[t \ {x}]
  BY <1>1, <1>5
<1>6. g[s] \in Int
  BY <1>3, <1>4, <1>5
<1>7. ASSUME NEW x \in s PROVE g[s] = w[x] + g[s \ {x}]
  <2>1. CASE x = y
    BY <1>4, <2>1
  <2>2. CASE x # y
    <3> DEFINE r == (s \ {y}) \ {x}
    <3>1. x \in s \ {y} /\ y \in s \ {x} /\ s \ {x} # s
      BY <1>3, <2>2
    <3>2. g[s \ {y}] = w[x] + g[r]
      BY <1>3, <1>5, <3>1
    <3>3. (s \ {x}) \ {y} = r
      OBVIOUS
    <3>4. g[s \ {x}] = w[y] + g[r]
      BY <1>5, <3>1, <3>3
    <3>5. g[r] \in Int /\ w[x] \in Int /\ w[y] \in Int
      BY <1>3, <1>5
    <3>6. QED
      BY <1>4, <3>2, <3>4, <3>5
  <2>3. QED
    BY <2>1, <2>2
<1>8. QED
  BY <1>1, <1>6, <1>7

(* A sum along a sequence is that along its tail and what is first, and one  *)
(* along an appended sequence has what was appended in addition.             *)
LEMMA SumsShift ==
  ASSUME NEW n \in Nat, NEW v, NEW w, NEW g, NEW h, Sums(g, v, 1..n), Sums(h, w, 1..(n + 1)),
         \A i \in 1..(n + 1) : w[i] \in Int,
         \A i \in 1..n : v[i] = w[i + 1]
  PROVE  h[1..(n + 1)] = w[1] + g[1..n]
<1> DEFINE up(s) == {i + 1 : i \in s}
           Wrong == {s \in SUBSET (1..n) : g[s] # h[up(s)]}
           low == 1..n
           high == 1..(n + 1)
<1>1. IsFiniteSet(low) /\ IsFiniteSet(high)
  BY FS_Interval
<1>2. (\A i \in low : v[i] \in Int) /\ (\A i \in high : w[i] \in Int)
  OBVIOUS
<1>3. /\ \A s \in SUBSET low : \A x \in s : g[s] = v[x] + g[s \ {x}]
      /\ \A s \in SUBSET high : \A x \in s : h[s] = w[x] + h[s \ {x}]
  <2>1. Sums(g, v, low) /\ Sums(h, w, high)
    OBVIOUS
  <2> HIDE DEF low, high, Wrong, up
  <2>2. ASSUME NEW s \in SUBSET low, NEW x \in s PROVE g[s] = v[x] + g[s \ {x}]
    BY <1>1, <1>2, <2>1, SumsAdd
  <2>3. ASSUME NEW s \in SUBSET high, NEW x \in s PROVE h[s] = w[x] + h[s \ {x}]
    BY <1>1, <1>2, <2>1, SumsAdd
  <2>4. QED
    BY <2>2, <2>3
<1>4. g[{}] = 0 /\ h[{}] = 0
  BY DEF Sums
<1>5. Wrong = {}
  <2> SUFFICES ASSUME Wrong # {} PROVE FALSE
    OBVIOUS
  <2>1. Wrong \in SUBSET SUBSET low
    OBVIOUS
  <2>2. PICK s \in Wrong : \A y \in Wrong : y \subseteq s => y = s
    <3> HIDE DEF Wrong, low
    <3>1. QED
      BY <1>1, <2>1, SmallestSubset
  <2>3. s # {}
    <3>1. up({}) = {}
      OBVIOUS
    <3>2. QED
      BY <1>4, <3>1
  <2>4. PICK x : x \in s
    BY <2>3
  <2>5. /\ s \in SUBSET low /\ s \ {x} \in SUBSET low /\ s \ {x} # s
        /\ x \in low
    BY <2>4
  <2>6. g[s \ {x}] = h[up(s \ {x})]
    BY <2>2, <2>5
  <2>7. up(s) \in SUBSET high /\ x + 1 \in up(s) /\ up(s) \ {x + 1} = up(s \ {x})
    BY <2>4, <2>5
  <2>8. h[up(s)] = w[x + 1] + h[up(s \ {x})]
    <3> HIDE DEF up, low, high
    <3>1. QED
      BY <1>3, <2>7
  <2>9. g[s] = v[x] + g[s \ {x}] /\ v[x] = w[x + 1]
    BY <1>3, <2>4, <2>5
  <2>10. QED
    BY <2>6, <2>8, <2>9
<1>6. up(1..n) = (1..(n + 1)) \ {1}
  <2>1. ASSUME NEW j \in (1..(n + 1)) \ {1} PROVE j \in up(1..n)
    <3>1. j - 1 \in 1..n /\ (j - 1) + 1 = j
      OBVIOUS
    <3>2. QED
      BY <3>1
  <2>2. QED
    BY <2>1
<1>7. g[1..n] = h[(1..(n + 1)) \ {1}]
  BY <1>5, <1>6
<1>8. h[1..(n + 1)] = w[1] + h[(1..(n + 1)) \ {1}]
  <2>1. 1 \in 1..(n + 1)
    OBVIOUS
  <2>2. QED
    BY <1>3, <2>1
<1>9. QED
  BY <1>7, <1>8

-----------------------------------------------------------------------------
(* R ranks S: of two members exactly one is before the other.                *)
Ranks(R, S) ==
  /\ \A a \in S : <<a, a>> \notin R
  /\ \A a, b \in S : a # b => <<a, b>> \in R \/ <<b, a>> \in R
  /\ \A a, b, c \in S : <<a, b>> \in R /\ <<b, c>> \in R => <<a, c>> \in R

LastOf(m, X, R) == m \in X /\ \A a \in X : a # m => <<a, m>> \in R

HasLast(X, R) == \E m \in X : LastOf(m, X, R)

(* A finite ranked set that is not empty has a member all others are before. *)
LEMMA LastExists ==
  ASSUME NEW S, IsFiniteSet(S), NEW R, Ranks(R, S)
  PROVE  \A X \in SUBSET S : X # {} => HasLast(X, R)
<1> DEFINE Wrong == {X \in SUBSET S : X # {} /\ ~HasLast(X, R)}
<1> SUFFICES ASSUME Wrong # {} PROVE FALSE
  OBVIOUS
<1>0. Wrong \in SUBSET SUBSET S
  OBVIOUS
<1>1. PICK X \in Wrong : \A Y \in Wrong : Y \subseteq X => Y = X
  <2> HIDE DEF Wrong
  <2>1. QED
    BY <1>0, SmallestSubset
<1>2. PICK e \in X : TRUE
  OBVIOUS
<1>3. X # {e}
  BY DEF HasLast, LastOf
<1>4. X \ {e} \in SUBSET S /\ X \ {e} # {} /\ X \ {e} \notin Wrong
  BY <1>1, <1>2, <1>3
<1>5. PICK m \in X \ {e} : LastOf(m, X \ {e}, R)
  BY <1>4 DEF HasLast
<1>6. CASE <<e, m>> \in R
  <2>1. LastOf(m, X, R)
    BY <1>5, <1>6 DEF LastOf
  <2>2. QED
    BY <2>1, <1>5 DEF HasLast
<1>7. CASE <<m, e>> \in R
  <2>1. \A a \in X : a # e => <<a, e>> \in R
    BY <1>2, <1>5, <1>7 DEF LastOf, Ranks
  <2>2. LastOf(e, X, R)
    BY <2>1, <1>2 DEF LastOf
  <2>3. QED
    BY <2>2, <1>2 DEF HasLast
<1>8. QED
  BY <1>2, <1>5, <1>6, <1>7 DEF Ranks

(* A list in the order of R. *)
InOrder(s, R) == \A i, j \in DOMAIN s : i < j => <<s[i], s[j]>> \in R

CanSort(X, R) == \E s \in SetToSeqs(X) : InOrder(s, R)

(* One more member, after all others, is appended to the sorted list. *)
LEMMA SortedGrows ==
  ASSUME NEW X, IsFiniteSet(X), NEW R, NEW m, LastOf(m, X, R),
         CanSort(X \ {m}, R)
  PROVE  CanSort(X, R)
<1> DEFINE n == Cardinality(X \ {m})
<1>1. PICK s \in SetToSeqs(X \ {m}) : InOrder(s, R)
  BY DEF CanSort
<1>2. n \in Nat /\ Cardinality(X) = n + 1
  <2>1. m \in X
    BY DEF LastOf
  <2>2. IsFiniteSet(X \ {m}) /\ Cardinality(X \ {m}) = Cardinality(X) - 1
    BY <2>1, FS_RemoveElement
  <2>3. Cardinality(X) \in Nat /\ Cardinality(X \ {m}) \in Nat
    BY <2>2, FS_CardinalityType
  <2>4. QED
    BY <2>2, <2>3
<1>3. /\ s \in [1..n -> X \ {m}]
      /\ \A i, j \in 1..n : i # j => s[i] # s[j]
  BY DEF SetToSeqs
<1> HIDE DEF n
<1> DEFINE t == [i \in 1..(n + 1) |-> IF i = n + 1 THEN m ELSE s[i]]
<1>4. \A i \in 1..(n + 1) : i = n + 1 \/ i \in 1..n
  BY <1>2
<1>5. t \in [1..(n + 1) -> X]
  BY <1>3, <1>4 DEF LastOf
<1>6. \A i, j \in 1..(n + 1) : i # j => t[i] # t[j]
  BY <1>3, <1>4
<1>7. t \in SetToSeqs(X)
  BY <1>2, <1>5, <1>6 DEF SetToSeqs
<1>8. InOrder(t, R)
  <2> SUFFICES ASSUME NEW i \in 1..(n + 1), NEW j \in 1..(n + 1), i < j
               PROVE  <<t[i], t[j]>> \in R
    BY <1>5 DEF InOrder
  <2>1. i \in 1..n /\ t[i] = s[i]
    BY <1>2
  <2>2. s[i] \in X /\ s[i] # m
    BY <2>1, <1>3
  <2>3. CASE j = n + 1
    BY <2>1, <2>2, <2>3 DEF LastOf
  <2>4. CASE j # n + 1
    <3>1. j \in 1..n /\ t[j] = s[j]
      BY <2>4, <1>4
    <3>2. QED
      BY <2>1, <3>1, <1>1, <1>3 DEF InOrder
  <2>5. QED
    BY <2>3, <2>4
<1>9. QED
  BY <1>7, <1>8 DEF CanSort

(* A finite ranked set can be listed in order, each member once. *)
LEMMA SortedExists ==
  ASSUME NEW S, IsFiniteSet(S), NEW R, Ranks(R, S)
  PROVE  CanSort(S, R)
<1> DEFINE Wrong == {X \in SUBSET S : ~CanSort(X, R)}
<1> SUFFICES ASSUME Wrong # {} PROVE FALSE
  OBVIOUS
<1>0. Wrong \in SUBSET SUBSET S
  OBVIOUS
<1>1. PICK X \in Wrong : \A Y \in Wrong : Y \subseteq X => Y = X
  <2> HIDE DEF Wrong
  <2>1. QED
    BY <1>0, SmallestSubset
<1>2. X # {}
  <2>1. Cardinality({}) = 0
    BY FS_EmptySet
  <2>2. [i \in {} |-> i] \in SetToSeqs({})
    BY <2>1 DEF SetToSeqs
  <2>3. InOrder([i \in {} |-> i], R)
    BY DEF InOrder
  <2>4. CanSort({}, R)
    BY <2>2, <2>3 DEF CanSort
  <2>5. QED
    BY <2>4
<1>3. PICK m \in X : LastOf(m, X, R)
  BY <1>2, LastExists DEF HasLast
<1>4. X \ {m} \in SUBSET S /\ X \ {m} # X /\ X \ {m} \subseteq X
  OBVIOUS
<1>5. CanSort(X \ {m}, R)
  BY <1>1, <1>4
<1>6. IsFiniteSet(X)
  BY FS_Subset
<1>7. CanSort(X, R)
  <2> HIDE DEF Wrong
  <2>1. QED
    BY <1>3, <1>5, <1>6, SortedGrows
<1>8. QED
  BY <1>7

(* A list from SetToSeqs has every member, and as many places as members. *)
LEMMA ListsAll ==
  ASSUME NEW S, IsFiniteSet(S), NEW s \in SetToSeqs(S)
  PROVE  /\ s \in Seq(S) /\ Len(s) = Cardinality(S)
         /\ DOMAIN s = 1..Cardinality(S)
         /\ ToSet(s) = S
         /\ IsInjective(s)
<1> DEFINE n == Cardinality(S)
<1>1. n \in Nat
  BY FS_CardinalityType
<1>2. s \in [1..n -> S] /\ \A i, j \in 1..n : i # j => s[i] # s[j]
  BY DEF SetToSeqs
<1>3. IsFiniteSet(1..n) /\ Cardinality(1..n) = n
  BY <1>1, FS_Interval
<1> HIDE DEF n
<1>4. s \in Injection(1..n, S)
  BY <1>2 DEF Injection, IsInjective
<1>5. s \in Surjection(1..n, S)
  BY <1>3, <1>4, FS_Injection DEF n
<1>6. ToSet(s) = S
  BY <1>2, <1>5 DEF Surjection, ToSet
<1>7. s \in Seq(S) /\ Len(s) = n
  BY <1>1, <1>2
<1>8. QED
  BY <1>2, <1>4, <1>6, <1>7 DEF Injection, n

=============================================================================
