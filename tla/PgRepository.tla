---------------------------- MODULE PgRepository ----------------------------
(***************************************************************************)
(* store.Repository on Postgres (internal/store/pg/pg.go): one transaction  *)
(* per call at READ COMMITTED, one step per statement.                      *)
(*                                                                         *)
(* A statement reads what is committed when it runs. What a transaction     *)
(* wrote stays in its record until it commits, and makes the statements it  *)
(* conflicts with wait: advisory locks, unique keys, and the lock a foreign *)
(* key takes on the account it refers to.                                   *)
(*                                                                         *)
(* Not here: the pool's four connections, a commit whose answer is lost,    *)
(* and a link code that expires between its deletion and the commit.        *)
(***************************************************************************)
EXTENDS Accounts

VARIABLE tx    \* the transaction of each call

vars == <<tables, call, answer, tx>>

Idle == [at |-> "idle", lock |-> None, code |-> None, source |-> None, target |-> None,
         moved |-> {}, dropped |-> {}, gains |-> {}, deleted |-> None]

Stages == {"idle", "lock", "find", "touch", "create", "insert", "check", "purchase", "wear",
           "sweep", "issue", "code", "source", "attach", "runs", "drop", "purchases", "keys",
           "delete", "cascade", "commit"}

Transactions ==
  [at : Stages,
   lock : Maybe(Keys \cup Accounts),   \* the advisory lock it holds
   code : Maybe(Codes),                \* the link code it took
   source : Maybe(Accounts),           \* the account it empties
   target : Maybe(Accounts),           \* the account it writes to
   moved : SUBSET Rows,                \* rows it gave to target
   dropped : SUBSET Cosmetics,         \* cosmetics of source it deleted
   gains : SUBSET Cosmetics,           \* cosmetics it gave to target
   deleted : Maybe(Accounts)]          \* the account it deleted

PgTypeOK == AccountsTypeOK /\ tx \in [Calls -> Transactions]

PgInit == Quiet /\ tx = [p \in Calls |-> Idle]

-----------------------------------------------------------------------------
(* Waiting.                                                                *)

At(p, stage) == tx[p].at = stage

(* A mutant: a purchase locks the cosmetic instead of the account.          *)
LockOfFault(p) ==
  CASE call[p].op = "resolve" -> call[p].key
    [] call[p].op = "redeem" -> tx[p].source
    [] call[p].op = "buy" -> call[p].item
    [] OTHER -> call[p].user

LockOf(p) ==
  CASE call[p].op = "resolve" -> call[p].key
    [] call[p].op = "redeem" -> tx[p].source
    [] OTHER -> call[p].user

(* The rows a statement would give to target, and the cosmetics.            *)
NewRows(p) ==
  CASE At(p, "insert") -> {call[p].run}
    [] At(p, "attach") -> {call[p].key}
    [] At(p, "runs") -> RunsOf(tx[p].source)
    [] At(p, "keys") -> KeysOf(tx[p].source)
    [] OTHER -> {}

NewItems(p) ==
  CASE At(p, "purchase") -> {call[p].item}
    [] At(p, "purchases") -> Items(tx[p].source) \ tx[p].dropped
    [] OTHER -> {}

Refers(p) == NewRows(p) # {} \/ NewItems(p) # {} \/ At(p, "issue")

(* The purchases a transaction wrote or removed without having committed.   *)
Unsettled(q) ==
  ({tx[q].target} \X tx[q].gains) \cup ({tx[q].source} \X (tx[q].dropped \cup tx[q].gains))

Cascaded(q) ==
  IF tx[q].deleted # None /\ ~At(q, "cascade")
  THEN {x \in Codes : codes[x] = tx[q].deleted}
  ELSE {}

Taken(q) == Cascaded(q) \cup ({tx[q].code} \ {None})

Waits(p, q) ==
  /\ p # q
  /\ \/ At(p, "lock") /\ tx[q].lock = LockOf(p)
     \/ At(p, "touch") /\ tx[q].deleted = tx[p].target
     \/ At(p, "create") /\ call[p].key \in tx[q].moved
     \/ At(p, "attach") /\ call[p].key \in tx[q].moved
     \/ At(p, "code") /\ call[p].code \in Taken(q)
     \/ At(p, "sweep") /\ expired \cap Taken(q) # {}
     \/ Refers(p) /\ tx[q].deleted = tx[p].target
     \/ ({tx[p].target} \X NewItems(p)) \cap Unsettled(q) # {}
     \/ /\ At(p, "delete")
        /\ tx[q].target = tx[p].source
        /\ tx[q].moved # {} \/ tx[q].gains # {}
     \/ At(p, "cascade") /\ tx[q].code # None /\ codes[tx[q].code] = tx[p].deleted

Ready(p, stage) == At(p, stage) /\ \A q \in Calls : ~Waits(p, q)

-----------------------------------------------------------------------------
(* Ending a transaction.                                                   *)

(* A mutant: the session keeps the advisory lock it took.                   *)
ReturnFault(p, result) ==
  /\ tx' = [tx EXCEPT ![p] = [Idle EXCEPT !.lock = tx[p].lock]]
  /\ Answer(p, result)
  /\ UNCHANGED tables

(* It returns before it wrote anything, or it is rolled back.               *)
Return(p, result) ==
  /\ tx' = [tx EXCEPT ![p] = Idle]
  /\ Answer(p, result)
  /\ UNCHANGED tables

Roll(p) == Return(p, "failed")

Commit(p) ==
  /\ Ready(p, "commit")
  /\ LET t == tx[p]
         Keeps(b) == b[1] # t.deleted
     IN  /\ status' = [a \in Accounts |->
                         CASE a = t.deleted -> "gone"
                           [] a = t.target /\ status[a] = "new" -> "live"
                           [] OTHER -> status[a]]
         /\ owner' = [row \in Rows |->
                        CASE row \in t.moved -> t.target
                          [] row \notin t.moved /\ owner[row] = t.deleted -> None
                          [] OTHER -> owner[row]]
         /\ bought' = {b \in bought : Keeps(b)} \cup ({t.target} \X t.gains)
         /\ worn' = IF call[p].op = "equip"
                    THEN Wearing(call[p].user, call[p].slot, call[p].item)
                    ELSE {w \in worn : Keeps(w)}
         /\ codes' = [x \in Codes |->
                        IF x = t.code \/ codes[x] = t.deleted THEN None ELSE codes[x]]
         /\ expired' = {x \in expired : codes'[x] # None}
         /\ Answer(p, IF call[p].op \in {"resolve", "redeem"} THEN t.target ELSE "ok")
  /\ tx' = [tx EXCEPT ![p] = Idle]

(* A redeem reads the account it returns before it commits.                 *)
CommitOrMiss(p) ==
  /\ At(p, "commit")
  /\ IF call[p].op = "redeem" /\ status[tx[p].target] # "live" THEN Roll(p) ELSE Commit(p)

(* A statement inside the transaction: where the function goes on, and the  *)
(* transaction's record by then.                                            *)
Does(p, stage, t) ==
  /\ tx' = [tx EXCEPT ![p] = [t EXCEPT !.at = stage]]
  /\ UNCHANGED <<tables, call, answer>>

Begin(p) ==
  /\ Ask(p)
  /\ LET op == call'[p].op
         stage == CASE op = "code" -> "sweep" [] op = "redeem" -> "code" [] OTHER -> "lock"
         target == IF op \in {"record", "buy", "code"} THEN call'[p].user ELSE None
     IN  tx' = [tx EXCEPT ![p] = [Idle EXCEPT !.at = stage, !.target = target]]

TakeLock(p) ==
  /\ Ready(p, "lock")
  /\ LET stage == CASE call[p].op = "resolve" -> "find"
                    [] call[p].op = "record" -> "insert"
                    [] call[p].op = "buy" -> "check"
                    [] call[p].op = "equip" -> "wear"
                    [] call[p].op = "redeem" ->
                         IF tx[p].source = tx[p].target THEN "commit" ELSE "runs"
     IN  Does(p, stage, [tx[p] EXCEPT !.lock = LockOf(p)])

-----------------------------------------------------------------------------
(* ResolveUser. The update that touches a known account finds it and then   *)
(* waits for whoever is deleting it.                                        *)

Find(p) ==
  /\ Ready(p, "find")
  /\ LET known == owner[call[p].key] IN
       Does(p, IF known = None THEN "create" ELSE "touch", [tx[p] EXCEPT !.target = known])

Touch(p) ==
  /\ Ready(p, "touch")
  /\ IF status[tx[p].target] = "live"
     THEN Return(p, tx[p].target)
     ELSE Does(p, "create", [tx[p] EXCEPT !.target = None])

Create(p) ==
  /\ Ready(p, "create")
  /\ IF owner[call[p].key] # None
     THEN Roll(p)
     ELSE \E a \in Accounts :
            /\ status[a] = "new"
            /\ \A q \in Calls : tx[q].target # a
            /\ Does(p, "commit", [tx[p] EXCEPT !.target = a, !.moved = {call[p].key}])

-----------------------------------------------------------------------------
(* RecordRun, Buy, Equip, CreateLinkCode.                                  *)

(* A foreign key refuses rows for an account that is not there.             *)
Refused(p) == Refers(p) /\ status[tx[p].target] # "live"

Insert(p) ==
  /\ Ready(p, "insert")
  /\ IF Refused(p) THEN Roll(p) ELSE Does(p, "commit", [tx[p] EXCEPT !.moved = NewRows(p)])

(* The balance and the list it is read with: nobody else spends while the   *)
(* account's lock is held.                                                  *)
Check(p) ==
  /\ Ready(p, "check")
  /\ LET user == call[p].user
     IN  \/ Owns(user, call[p].item) /\ Return(p, "already_owned")
         \/ ~Owns(user, call[p].item) /\ Balance(user) < 1 /\ Return(p, "insufficient")
         \/ /\ ~Owns(user, call[p].item)
            /\ Balance(user) >= 1
            /\ Does(p, "purchase", tx[p])

Purchase(p) ==
  /\ Ready(p, "purchase")
  /\ IF Owns(call[p].user, call[p].item)
     THEN Return(p, "already_owned")
     ELSE IF Refused(p) THEN Roll(p) ELSE Does(p, "commit", [tx[p] EXCEPT !.gains = NewItems(p)])

(* A mutant: what is equipped need not be owned.                            *)
WearFault(p) == Ready(p, "wear") /\ Does(p, "commit", tx[p])

Wear(p) ==
  /\ Ready(p, "wear")
  /\ IF call[p].item # None /\ ~Owns(call[p].user, call[p].item)
     THEN Return(p, "not_owned")
     ELSE Does(p, "commit", tx[p])

(* Both of its statements commit on their own.                              *)
SweepCodes(p) ==
  /\ Ready(p, "sweep")
  /\ codes' = [x \in Codes |-> IF x \in expired THEN None ELSE codes[x]]
  /\ expired' = {}
  /\ tx' = [tx EXCEPT ![p].at = "issue"]
  /\ UNCHANGED <<status, owner, bought, worn, call, answer>>

Issue(p) ==
  /\ Ready(p, "issue")
  /\ \/ (Refused(p) \/ \A x \in Codes : codes[x] # None) /\ Roll(p)
     \/ /\ ~Refused(p)
        /\ \E x \in Codes :
             /\ codes[x] = None
             /\ codes' = [codes EXCEPT ![x] = call[p].user]
        /\ tx' = [tx EXCEPT ![p] = Idle]
        /\ Answer(p, "ok")
        /\ UNCHANGED <<status, owner, bought, worn, expired>>

-----------------------------------------------------------------------------
(* RedeemLinkCode.                                                         *)

(* A mutant: an expired code is refused in a transaction that rolls back.   *)
TakeCodeFault(p) ==
  /\ Ready(p, "code")
  /\ LET x == call[p].code
     IN  \/ codes[x] = None /\ Return(p, "unknown_code")
         \/ x \in expired /\ Return(p, "expired_code")
         \/ /\ codes[x] # None /\ x \notin expired
            /\ Does(p, "source", [tx[p] EXCEPT !.code = x, !.target = codes[x]])

TakeCode(p) ==
  /\ Ready(p, "code")
  /\ LET x == call[p].code
     IN  \/ codes[x] = None /\ Return(p, "unknown_code")
         \/ /\ x \in expired
            /\ codes' = [codes EXCEPT ![x] = None]
            /\ expired' = expired \ {x}
            /\ tx' = [tx EXCEPT ![p] = Idle]
            /\ Answer(p, "expired_code")
            /\ UNCHANGED <<status, owner, bought, worn>>
         \/ /\ codes[x] # None /\ x \notin expired
            /\ Does(p, "source", [tx[p] EXCEPT !.code = x, !.target = codes[x]])

FindSource(p) ==
  /\ Ready(p, "source")
  /\ LET source == owner[call[p].key] IN
       Does(p, IF source = None THEN "attach" ELSE "lock", [tx[p] EXCEPT !.source = source])

Attach(p) ==
  /\ Ready(p, "attach")
  /\ IF owner[call[p].key] # None \/ Refused(p)
     THEN Roll(p)
     ELSE Does(p, "commit", [tx[p] EXCEPT !.moved = NewRows(p)])

Move(p, stage, next) ==
  /\ Ready(p, stage)
  /\ IF Refused(p) THEN Roll(p) ELSE Does(p, next, [tx[p] EXCEPT !.moved = @ \cup NewRows(p)])

MoveRuns(p) == Move(p, "runs", "drop")

DropDuplicates(p) ==
  /\ Ready(p, "drop")
  /\ Does(p, "purchases", [tx[p] EXCEPT !.dropped = Items(tx[p].source) \cap Items(tx[p].target)])

MovePurchases(p) ==
  /\ Ready(p, "purchases")
  /\ IF Refused(p) \/ NewItems(p) \cap Items(tx[p].target) # {}
     THEN Roll(p)
     ELSE Does(p, "keys", [tx[p] EXCEPT !.gains = NewItems(p)])

MoveKeys(p) == Move(p, "keys", "delete")

DeleteSource(p) ==
  /\ Ready(p, "delete")
  /\ LET found == status[tx[p].source] = "live" IN
       Does(p, IF found THEN "cascade" ELSE "commit",
            [tx[p] EXCEPT !.deleted = IF found THEN tx[p].source ELSE None])

(* on delete cascade: what still belongs to the account goes with it.       *)
Cascade(p) ==
  /\ Ready(p, "cascade")
  /\ Does(p, "commit", tx[p])

-----------------------------------------------------------------------------
(* The connection is lost, a timeout passes, the server stops.              *)
GiveUp(p) == tx[p].at # "idle" /\ Roll(p)

(* Postgres aborts one of the transactions that wait for each other.        *)
BreakDeadlock ==
  \E S \in SUBSET Calls \ {{}} :
    /\ \E next \in [S -> S] :
         /\ \A p \in S : Waits(p, next[p])
         /\ S = {next[p] : p \in S}
    /\ \E p \in S : Roll(p)

Lapse(x) ==
  /\ codes[x] # None
  /\ \A q \in Calls : x \notin Taken(q)
  /\ expired' = expired \cup {x}
  /\ UNCHANGED <<status, owner, bought, worn, codes, call, answer, tx>>

Statement(p) ==
  \/ TakeLock(p) \/ CommitOrMiss(p)
  \/ Find(p) \/ Touch(p) \/ Create(p)
  \/ Insert(p) \/ Check(p) \/ Purchase(p) \/ Wear(p) \/ SweepCodes(p) \/ Issue(p)
  \/ TakeCode(p) \/ FindSource(p) \/ Attach(p)
  \/ MoveRuns(p) \/ DropDuplicates(p) \/ MovePurchases(p) \/ MoveKeys(p)
  \/ DeleteSource(p) \/ Cascade(p)

PgNext ==
  \/ \E p \in Calls : Begin(p) \/ Statement(p) \/ GiveUp(p)
  \/ BreakDeadlock
  \/ \E x \in Codes : Lapse(x)

PgSpec == PgInit /\ [][PgNext]_vars

-----------------------------------------------------------------------------
(* Merges that do not meet: no two redeems empty one account, and none      *)
(* moves rows into an account another one empties, unless the two fold into *)
(* each other (Postgres aborts one of those).                               *)

Redeeming(p) == call[p].op = "redeem" /\ answer[p] = None

SourceOf(p) == IF tx[p].source # None THEN tx[p].source ELSE owner[call[p].key]
TargetOf(p) == IF tx[p].target # None THEN tx[p].target ELSE codes[call[p].code]

Apart ==
  \A p, q \in Calls :
    p # q /\ Redeeming(p) /\ Redeeming(q) /\ SourceOf(p) # None =>
      /\ SourceOf(q) # SourceOf(p)
      /\ TargetOf(q) = SourceOf(p) => TargetOf(p) = SourceOf(q)

ApartNext == PgNext /\ Apart'

(* The database works on what it was asked and ends every deadlock.         *)
PgFairness ==
  /\ \A p \in Calls : WF_vars(Statement(p) /\ Apart')
  /\ WF_vars(BreakDeadlock /\ Apart')

ApartSpec == PgInit /\ [][ApartNext]_vars /\ PgFairness

-----------------------------------------------------------------------------

(* Whatever the interleaving of statements, and whoever is rolled back, the *)
(* calls behave as the contract says: each as if alone, at one instant.     *)
Contract == INSTANCE Repository
ImplementsRepository == Contract!RepositorySpec

(* A call on the repository returns, deadlocked with another one or not.    *)
CallsReturn == \A p \in Calls : call[p] # NoCall ~> answer[p] # None

(* Merging loses nothing: a run or a key that an account had belongs to an  *)
(* account ever after.                                                      *)
NothingLost == [][\A row \in Rows : owner[row] # None => owner'[row] # None]_vars
=============================================================================
