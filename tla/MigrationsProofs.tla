-------------------------- MODULE MigrationsProofs --------------------------
(***************************************************************************)
(* Proofs about servers starting up (Migrations.tla): for any servers, any  *)
(* builds and any number of failures.                                       *)
(***************************************************************************)
EXTENDS Migrations, NaturalsInduction, WellFoundedInduction, TLAPS

Working == {"apply", "record", "commit"}

(* The database never misses a migration before one it has.                 *)
NoGaps == \A w \in versions, v \in Versions : v < w => v \in versions

(* Whoever is past the lock and not yet serving holds it.                   *)
LockIsHeld == \A s \in Servers : at[s] \in Working \cup {"table", "unlock"} => holder = s

(* While it works, the holder's list is what the database still lacks.      *)
TodoIsMissing ==
  \A s \in Servers : at[s] \in Working => todo[s] = Knows[s] \ versions /\ todo[s] # {}

Ready == \A s \in Servers : at[s] \in {"unlock", "serving"} => Knows[s] \subseteq versions

Types ==
  /\ schema \in Seq(Nat)
  /\ versions \subseteq Versions
  /\ at \in [Servers -> Stages]
  /\ DOMAIN todo = Servers

MInv ==
  /\ Types
  /\ AppliedOnceInOrder
  /\ NoGaps
  /\ LockIsHeld
  /\ TodoIsMissing
  /\ Ready

-----------------------------------------------------------------------------

(* The next migration is the least of those to do.                          *)
LEMMA LeastExists ==
  ASSUME NEW S \in SUBSET Nat, S # {}
  PROVE  Min(S) \in S /\ \A v \in S : Min(S) <= v
<1> DEFINE R == {ss \in Nat \X Nat : ss[1] < ss[2]}
<1>1. IsWellFoundedOn(R, Nat)
  BY NatLessThanWellFounded DEF OpToRel
<1>2. PICK x \in S : \A y \in S : <<y, x>> \notin R
  <2> HIDE DEF R
  <2> QED BY <1>1, WFMin
<1>3. ASSUME NEW y \in S PROVE x <= y
  <2>1. <<y, x>> \notin R /\ x \in Nat /\ y \in Nat
    BY <1>2
  <2>2. ~ y < x
    BY <2>1
  <2>3. QED
    BY <2>1, <2>2
<1>4. QED
  BY <1>3 DEF Min

-----------------------------------------------------------------------------

(* A step that leaves the database alone keeps what is said of it.          *)
LEMMA DatabaseKept ==
  ASSUME MInv, UNCHANGED <<schema, versions>>
  PROVE  AppliedOnceInOrder' /\ NoGaps' /\ schema' \in Seq(Nat) /\ versions' \subseteq Versions
BY DEF MInv, Types, AppliedOnceInOrder, NoGaps

(* A server that moves inside the lock, with its list as it was.            *)
LEMMA MoveKeeps ==
  ASSUME MInv, NEW s \in Servers, NEW to \in Stages,
         at' = [at EXCEPT ![s] = to], UNCHANGED <<schema, versions, holder, todo>>,
         to \in Working \cup {"table", "unlock"} => holder = s,
         to \in Working => todo[s] = Knows[s] \ versions /\ todo[s] # {},
         to \in {"unlock", "serving"} => Knows[s] \subseteq versions
  PROVE  MInv'
<1>1. Types'
  BY DatabaseKept DEF MInv, Types
<1>2. LockIsHeld' /\ TodoIsMissing' /\ Ready'
  BY DEF MInv, Types, LockIsHeld, TodoIsMissing, Ready
<1>3. QED
  BY <1>1, <1>2, DatabaseKept DEF MInv

LEMMA ConnectKeeps == ASSUME MInv, NEW s \in Servers, Connect(s) PROVE MInv'
<1>1. "lock" \in Stages /\ "lock" \notin Working \cup {"table", "unlock", "serving"}
  BY DEF Stages, Working
<1>2. QED
  BY <1>1, MoveKeeps DEF Connect, Goes

LEMMA ApplyKeeps == ASSUME MInv, NEW s \in Servers, ApplyBody(s) PROVE MInv'
<1>1. {"apply", "record"} \subseteq Stages \cap Working /\ "record" \notin {"unlock", "serving"}
  BY DEF Stages, Working
<1>2. holder = s /\ todo[s] = Knows[s] \ versions /\ todo[s] # {}
  BY <1>1 DEF ApplyBody, Goes, MInv, LockIsHeld, TodoIsMissing
<1>3. QED
  BY <1>1, <1>2, MoveKeeps DEF ApplyBody, Goes

(* Nobody else is past the lock.                                            *)
LEMMA LockKeeps == ASSUME MInv, NEW s \in Servers, Lock(s) PROVE MInv'
<1>1. at' = [at EXCEPT ![s] = "table"] /\ holder = None /\ holder' = s
      /\ UNCHANGED <<schema, versions, todo>>
  BY DEF Lock, Goes
<1>2. \A t \in Servers : at[t] \notin Working \cup {"table", "unlock"}
  BY <1>1, BuildsAssumption DEF MInv, LockIsHeld
<1>3. Types'
  BY <1>1, DatabaseKept DEF MInv, Types, Stages
<1>4. LockIsHeld' /\ TodoIsMissing' /\ Ready'
  BY <1>1, <1>2 DEF MInv, Types, LockIsHeld, TodoIsMissing, Ready, Working
<1>5. QED
  BY <1>1, <1>3, <1>4, DatabaseKept DEF MInv

(* A server that ends, in whatever way.                                     *)
LEMMA EndKeeps ==
  ASSUME MInv, NEW s \in Servers,
         at' = [at EXCEPT ![s] = "down"], todo' = [todo EXCEPT ![s] = {}],
         holder' = IF holder = s THEN None ELSE holder, UNCHANGED <<schema, versions>>
  PROVE  MInv'
<1>1. Types'
  BY DatabaseKept DEF MInv, Types, Stages
<1>2. \A t \in Servers : t # s => at'[t] = at[t] /\ todo'[t] = todo[t]
  BY DEF MInv, Types
<1>3. at'[s] = "down"
  BY DEF MInv, Types
<1>4. LockIsHeld' /\ TodoIsMissing' /\ Ready'
  BY <1>2, <1>3 DEF MInv, LockIsHeld, TodoIsMissing, Ready, Working
<1>5. QED
  BY <1>1, <1>4, DatabaseKept DEF MInv

LEMMA FailKeeps == ASSUME MInv, NEW s \in Servers, Fail(s) PROVE MInv'
BY EndKeeps DEF Fail

LEMMA RecordKeeps == ASSUME MInv, NEW s \in Servers, RecordVersion(s) PROVE MInv'
<1>1. CASE Ends(s)
  BY <1>1, EndKeeps DEF Ends
<1>2. CASE Goes(s, "record", "commit") /\ UNCHANGED <<schema, versions, holder, todo>>
  <2>1. {"record", "commit"} \subseteq Stages \cap Working /\ "commit" \notin {"unlock", "serving"}
    BY DEF Stages, Working
  <2>2. holder = s /\ todo[s] = Knows[s] \ versions /\ todo[s] # {}
    BY <1>2, <2>1 DEF Goes, MInv, LockIsHeld, TodoIsMissing
  <2>3. QED
    BY <1>2, <2>1, <2>2, MoveKeeps DEF Goes
<1>3. QED
  BY <1>1, <1>2 DEF RecordVersion

(* It reads the version table while it holds the lock.                      *)
LEMMA ReadKeeps == ASSUME MInv, NEW s \in Servers, ReadApplied(s) PROVE MInv'
<1> DEFINE left == Knows[s] \ versions
<1>1. at' = [at EXCEPT ![s] = Onward(left)] /\ todo' = [todo EXCEPT ![s] = left]
      /\ at[s] = "table" /\ UNCHANGED <<schema, versions, holder>>
  BY DEF ReadApplied, Goes
<1>2. holder = s
  BY <1>1 DEF MInv, LockIsHeld
<1>3. Onward(left) \in Stages /\ (Onward(left) \in Working => left # {})
      /\ (Onward(left) \in {"unlock", "serving"} => left = {})
  BY DEF Onward, Stages, Working
<1>4. Types'
  BY <1>1, <1>3, DatabaseKept DEF MInv, Types
<1>5. \A t \in Servers : t # s => at'[t] = at[t] /\ todo'[t] = todo[t]
  BY <1>1 DEF MInv, Types
<1>6. at'[s] = Onward(left) /\ todo'[s] = left
  BY <1>1 DEF MInv, Types
<1>7. LockIsHeld' /\ TodoIsMissing' /\ Ready'
  BY <1>1, <1>2, <1>3, <1>5, <1>6 DEF MInv, LockIsHeld, TodoIsMissing, Ready
<1>8. QED
  BY <1>1, <1>4, <1>7, DatabaseKept DEF MInv

LEMMA UnlockKeeps == ASSUME MInv, NEW s \in Servers, Unlock(s) PROVE MInv'
<1>1. at' = [at EXCEPT ![s] = "serving"] /\ at[s] = "unlock" /\ holder' = None
      /\ UNCHANGED <<schema, versions, todo>>
  BY DEF Unlock, Goes
<1>2. holder = s /\ Knows[s] \subseteq versions
  BY <1>1 DEF MInv, LockIsHeld, Ready
<1>3. Types'
  BY <1>1, DatabaseKept DEF MInv, Types, Stages
<1>4. LockIsHeld' /\ TodoIsMissing' /\ Ready'
  BY <1>1, <1>2 DEF MInv, Types, LockIsHeld, TodoIsMissing, Ready, Working
<1>5. QED
  BY <1>1, <1>3, <1>4, DatabaseKept DEF MInv

(***************************************************************************)
(* A commit appends the least migration the database lacks: it is newer     *)
(* than all the database has, since the database has no gaps.               *)
(***************************************************************************)
LEMMA CommitKeeps == ASSUME MInv, NEW s \in Servers, CommitMigration(s) PROVE MInv'
<1> DEFINE next == NextOf(s)
           left == todo[s] \ {next}
<1>1. /\ at' = [at EXCEPT ![s] = Onward(left)] /\ todo' = [todo EXCEPT ![s] = left]
      /\ at[s] = "commit" /\ schema' = Append(schema, next)
      /\ versions' = versions \cup {next} /\ holder' = holder
  BY DEF CommitMigration, Goes
<1>2. holder = s /\ todo[s] = Knows[s] \ versions /\ todo[s] # {}
  BY <1>1 DEF MInv, LockIsHeld, TodoIsMissing, Working
<1>3. Knows[s] \subseteq Nat /\ Knows[s] \subseteq Versions /\ Versions \subseteq Nat
  BY BuildsAssumption DEF Versions
<1>4. /\ next \in Knows[s] /\ next \notin versions /\ next \in Nat
      /\ \A v \in Knows[s] \ versions : next <= v
  BY <1>2, <1>3, LeastExists DEF NextOf
<1>5. versions \subseteq Nat
  BY <1>3 DEF MInv, Types
<1> HIDE DEF next
<1>6. \A v \in versions : v < next
  <2> SUFFICES ASSUME NEW v \in versions, ~ v < next PROVE FALSE
    OBVIOUS
  <2>1. next < v
    BY <1>4, <1>5
  <2>2. next \in Versions /\ v \in versions
    BY <1>3, <1>4
  <2>3. QED
    BY <2>1, <2>2, <1>4 DEF MInv, NoGaps
<1>7. \A v \in Versions : v < next => v \in versions
  <2> SUFFICES ASSUME NEW v \in Versions, v < next, v \notin versions PROVE FALSE
    OBVIOUS
  <2>1. v \in Knows[s]
    BY <1>4, KnowsAssumption DEF Versions
  <2>2. next <= v
    BY <1>4, <2>1
  <2>3. QED
    BY <2>2, <1>3, <1>4
<1>8. AppliedOnceInOrder'
  <2>1. schema \in Seq(Nat) /\ Len(schema) \in Nat
    BY DEF MInv, Types
  <2>2. Len(schema') = Len(schema) + 1 /\ schema'[Len(schema) + 1] = next
        /\ \A i \in 1..Len(schema) : schema'[i] = schema[i]
    BY <1>1, <1>4, <2>1
  <2>3. versions = {schema[i] : i \in 1..Len(schema)}
    BY DEF MInv, AppliedOnceInOrder
  <2>4. \A i, j \in 1..Len(schema) : i < j => schema[i] < schema[j]
    BY DEF MInv, AppliedOnceInOrder
  <2>5. \A i \in 1..Len(schema) : schema[i] < next
    BY <1>6, <2>3
  <2>6. \A i, j \in 1..Len(schema') : i < j => schema'[i] < schema'[j]
    BY <2>1, <2>2, <2>4, <2>5
  <2>7. versions' = {schema'[i] : i \in 1..Len(schema')}
    <3>1. 1..Len(schema') = 1..Len(schema) \cup {Len(schema) + 1}
      BY <2>1, <2>2
    <3>2. QED
      BY <1>1, <2>2, <2>3, <3>1
  <2>8. QED
    BY <2>6, <2>7 DEF AppliedOnceInOrder
<1>9. NoGaps'
  <2> SUFFICES ASSUME NEW w \in versions', NEW v \in Versions, v < w PROVE v \in versions'
    BY DEF NoGaps
  <2>1. CASE w \in versions
    BY <1>1, <2>1 DEF MInv, NoGaps
  <2>2. CASE w = next
    BY <1>1, <1>7, <2>2
  <2>3. QED
    BY <1>1, <2>1, <2>2
<1>10. left = Knows[s] \ versions'
  BY <1>1, <1>2
<1>11. Onward(left) \in Stages /\ (Onward(left) \in Working => left # {})
       /\ (Onward(left) \in {"unlock", "serving"} => left = {})
  BY DEF Onward, Stages, Working
<1>12. Types'
  <2>1. schema' \in Seq(Nat)
    BY <1>1, <1>4 DEF MInv, Types
  <2>2. versions' \subseteq Versions
    BY <1>1, <1>3, <1>4 DEF MInv, Types
  <2>3. QED
    BY <1>1, <1>11, <2>1, <2>2 DEF MInv, Types
<1>13. \A t \in Servers : t # s =>
         at'[t] = at[t] /\ at[t] \notin Working \cup {"table", "unlock"}
  BY <1>1, <1>2 DEF MInv, Types, LockIsHeld
<1>14. at'[s] = Onward(left) /\ todo'[s] = left
  BY <1>1 DEF MInv, Types
<1> HIDE DEF left
<1>15. LockIsHeld' /\ TodoIsMissing'
  BY <1>1, <1>2, <1>10, <1>11, <1>13, <1>14 DEF LockIsHeld, TodoIsMissing, Working
<1>16. Ready'
  <2> SUFFICES ASSUME NEW t \in Servers, at'[t] \in {"unlock", "serving"}
               PROVE  Knows[t] \subseteq versions'
    BY DEF Ready
  <2>1. CASE t = s
    BY <1>10, <1>11, <1>14, <2>1
  <2>2. CASE t # s
    BY <1>1, <1>13, <2>2 DEF MInv, Ready
  <2>3. QED
    BY <2>1, <2>2
<1>17. QED
  BY <1>8, <1>9, <1>12, <1>15, <1>16 DEF MInv

-----------------------------------------------------------------------------

THEOREM MInvHolds == MigrationsSpec => []MInv
<1>1. MigrationsInit => MInv
  <2> SUFFICES ASSUME MigrationsInit PROVE MInv
    OBVIOUS
  <2> USE DEF MigrationsInit
  <2>1. Types
    BY DEF Types, Stages
  <2>2. AppliedOnceInOrder /\ NoGaps
    BY DEF AppliedOnceInOrder, NoGaps
  <2>3. LockIsHeld /\ TodoIsMissing /\ Ready
    BY DEF LockIsHeld, TodoIsMissing, Ready, Working
  <2>4. QED
    BY <2>1, <2>2, <2>3 DEF MInv
<1>2. MInv /\ [MigrationsNext]_vars => MInv'
  <2> SUFFICES ASSUME MInv, [MigrationsNext]_vars PROVE MInv'
    OBVIOUS
  <2>1. ASSUME NEW s \in Servers, CommitMigration(s) PROVE MInv'
    BY <2>1, CommitKeeps
  <2>2. ASSUME NEW s \in Servers, Migrate(s), ~CommitMigration(s) PROVE MInv'
    <3>1. Connect(s) \/ Lock(s) \/ ReadApplied(s) \/ ApplyBody(s) \/ RecordVersion(s) \/ Unlock(s)
      BY <2>2 DEF Migrate
    <3>2. QED
      BY <3>1, ConnectKeeps, LockKeeps, ReadKeeps, ApplyKeeps, RecordKeeps, UnlockKeeps
  <2>3. ASSUME NEW s \in Servers, Fail(s) PROVE MInv'
    BY <2>3, FailKeeps
  <2>4. CASE UNCHANGED vars
    BY <2>4 DEF MInv, vars, Types, AppliedOnceInOrder, NoGaps, LockIsHeld, TodoIsMissing, Ready
  <2>5. QED
    BY <2>1, <2>2, <2>3, <2>4 DEF MigrationsNext
<1>3. QED
  BY <1>1, <1>2, PTL DEF MigrationsSpec

(* Each migration is applied once and in order, whoever dies where. *)
THEOREM AppliedTheorem == MigrationsSpec => []AppliedOnceInOrder
<1>1. MInv => AppliedOnceInOrder
  BY DEF MInv
<1>2. QED
  BY <1>1, MInvHolds, PTL

(* No server serves on a database that lacks one of its migrations. *)
THEOREM ServedTheorem == MigrationsSpec => []ServedIsMigrated
<1>1. MInv => ServedIsMigrated
  BY DEF MInv, Ready, ServedIsMigrated
<1>2. QED
  BY <1>1, MInvHolds, PTL
=============================================================================
