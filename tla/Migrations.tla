----------------------------- MODULE Migrations -----------------------------
(***************************************************************************)
(* Servers that start against one database (cmd/server openRepository,      *)
(* internal/store/pg/migrate.go): each applies, under an advisory lock, the *)
(* migrations it was built with and the database has not seen. A server may *)
(* fail or be killed anywhere; systemd starts it again.                     *)
(***************************************************************************)
EXTENDS Integers, Sequences, FiniteSets, FiniteSetsExt

CONSTANTS
  Servers,
  Knows,        \* the versions each server's build embeds
  MaxFailures,  \* bound
  None

ASSUME BuildsAssumption == Knows \in [Servers -> SUBSET Nat] /\ None \notin Servers

(* The directory only ever grows at its end: a build knows every migration  *)
(* before the ones it knows.                                                *)
ASSUME KnowsAssumption ==
  \A s, t \in Servers : \A v \in Knows[s], w \in Knows[t] : w < v => w \in Knows[s]

VARIABLES
  schema,    \* the migrations the database went through, in order
  versions,  \* the rows of schema_migrations
  holder,    \* of the migration lock
  at,        \* where each server is
  todo,      \* the versions it has left to apply
  failures

vars == <<schema, versions, holder, at, todo, failures>>

Versions == UNION {Knows[s] : s \in Servers}

Stages == {"down", "lock", "table", "apply", "record", "commit", "unlock", "serving"}

MigrationsTypeOK ==
  /\ schema \in Seq(Versions)
  /\ versions \subseteq Versions
  /\ holder \in Servers \cup {None}
  /\ at \in [Servers -> Stages]
  /\ todo \in [Servers -> SUBSET Versions]
  /\ failures \in 0..MaxFailures

MigrationsInit ==
  /\ schema = <<>>
  /\ versions = {}
  /\ holder = None
  /\ at = [s \in Servers |-> "down"]
  /\ todo = [s \in Servers |-> {}]
  /\ failures = 0

-----------------------------------------------------------------------------

Goes(s, from, to) ==
  /\ at[s] = from
  /\ at' = [at EXCEPT ![s] = to]
  /\ UNCHANGED failures

(* A server that ends, in whatever way, closes its connection: the open     *)
(* transaction is rolled back and the lock is free.                         *)
Ends(s) ==
  /\ at' = [at EXCEPT ![s] = "down"]
  /\ todo' = [todo EXCEPT ![s] = {}]
  /\ holder' = IF holder = s THEN None ELSE holder
  /\ UNCHANGED <<schema, versions, failures>>

Connect(s) ==
  /\ Goes(s, "down", "lock")
  /\ UNCHANGED <<schema, versions, holder, todo>>

Lock(s) ==
  /\ holder = None
  /\ holder' = s
  /\ Goes(s, "lock", "table")
  /\ UNCHANGED <<schema, versions, todo>>

(* A mutant: the last migration is taken for granted.                       *)
OnwardFault(left) == IF Cardinality(left) <= 1 THEN "unlock" ELSE "apply"

Onward(left) == IF left = {} THEN "unlock" ELSE "apply"

(* schema_migrations is there or is created, and read.                      *)
ReadApplied(s) ==
  LET left == Knows[s] \ versions IN
    /\ Goes(s, "table", Onward(left))
    /\ todo' = [todo EXCEPT ![s] = left]
    /\ UNCHANGED <<schema, versions, holder>>

(* A mutant: the files are walked from the newest.                          *)
NextOfFault(s) == Max(todo[s])

NextOf(s) == Min(todo[s])

(* The file's statements, in a transaction that is not committed yet.       *)
ApplyBody(s) ==
  /\ Goes(s, "apply", "record")
  /\ UNCHANGED <<schema, versions, holder, todo>>

(* version is the primary key.                                              *)
RecordVersion(s) ==
  IF at[s] = "record" /\ NextOf(s) \in versions
  THEN Ends(s)
  ELSE Goes(s, "record", "commit") /\ UNCHANGED <<schema, versions, holder, todo>>

CommitMigration(s) ==
  LET left == todo[s] \ {NextOf(s)} IN
    /\ Goes(s, "commit", Onward(left))
    /\ schema' = Append(schema, NextOf(s))
    /\ versions' = versions \cup {NextOf(s)}
    /\ todo' = [todo EXCEPT ![s] = left]
    /\ UNCHANGED holder

Unlock(s) ==
  /\ Goes(s, "unlock", "serving")
  /\ holder' = None
  /\ UNCHANGED <<schema, versions, todo>>

(* A mutant: the lock outlives the server that held it.                     *)
FailFault(s) ==
  /\ at[s] # "down"
  /\ failures < MaxFailures
  /\ failures' = failures + 1
  /\ at' = [at EXCEPT ![s] = "down"]
  /\ todo' = [todo EXCEPT ![s] = {}]
  /\ UNCHANGED <<schema, versions, holder>>

(* An error, the startup timeout, a kill, a stop.                           *)
Fail(s) ==
  /\ at[s] # "down"
  /\ failures < MaxFailures
  /\ failures' = failures + 1
  /\ at' = [at EXCEPT ![s] = "down"]
  /\ todo' = [todo EXCEPT ![s] = {}]
  /\ holder' = IF holder = s THEN None ELSE holder
  /\ UNCHANGED <<schema, versions>>

Migrate(s) ==
  \/ Connect(s) \/ Lock(s) \/ ReadApplied(s) \/ ApplyBody(s) \/ RecordVersion(s)
  \/ CommitMigration(s) \/ Unlock(s)

MigrationsNext == \E s \in Servers : Migrate(s) \/ Fail(s)

(* A server that is up goes on, one that is down is started again.          *)
MigrationsSpec ==
  /\ MigrationsInit
  /\ [][MigrationsNext]_vars
  /\ \A s \in Servers : WF_vars(Migrate(s))

-----------------------------------------------------------------------------

(* migrate.go: "in filename order, each in its own transaction", and two    *)
(* servers started at once never apply the same one twice: whoever failed   *)
(* where, what the database went through is the migrations in order, each   *)
(* once, and exactly those its version table names.                         *)
AppliedOnceInOrder ==
  /\ \A i, j \in 1..Len(schema) : i < j => schema[i] < schema[j]
  /\ versions = {schema[i] : i \in 1..Len(schema)}

(* main.go opens the repository before it listens: no session is served on  *)
(* a database that lacks something its server was built for.                *)
ServedIsMigrated == \A s \in Servers : at[s] = "serving" => Knows[s] \subseteq versions

(* Every server comes up in the end, however the others died: nobody keeps  *)
(* the lock, and no half-applied migration stops the next one.              *)
EveryServerStarts == \A s \in Servers : []<>(at[s] = "serving")
=============================================================================
