------------------------- MODULE PgRepositoryProofs -------------------------
(***************************************************************************)
(* The transactions on Postgres keep the repository's contract, for any     *)
(* accounts, rows and number of calls at once: what each of them knows of   *)
(* the tables between two of its statements stays true whoever else         *)
(* commits, so it commits what the contract says.                           *)
(***************************************************************************)
EXTENDS PgRepository, RepositoryProofs

(* A transaction that has touched no account but the caller's. *)
Plain(t) == t.code = None /\ t.source = None /\ t.dropped = {} /\ t.deleted = None

ResolveKnows(p) ==
  LET t == tx[p]
      key == call[p].key
  IN  /\ t.at \in {"lock", "find", "touch", "create", "commit"}
      /\ Plain(t) /\ t.gains = {}
      /\ t.at # "lock" => t.lock = key
      /\ t.at \in {"lock", "find", "create"} => t.target = None
      /\ t.at = "touch" =>
           /\ t.target \in Accounts /\ status[t.target] # "new"
           /\ status[t.target] = "live" => owner[key] = t.target
      /\ t.at = "commit" => t.target \in Accounts /\ status[t.target] = "new"
      /\ t.moved = IF t.at = "commit" THEN {key} ELSE {}

(* A userID that the caller was once given. *)
UserKnown(p) == tx[p].target = call[p].user /\ status[call[p].user] # "new"

RecordKnows(p) ==
  LET t == tx[p] IN
  /\ t.at \in {"lock", "insert", "commit"}
  /\ Plain(t) /\ t.gains = {} /\ UserKnown(p)
  /\ t.at # "lock" => t.lock = call[p].user
  /\ t.at = "commit" => status[call[p].user] = "live"
  /\ t.moved = IF t.at = "commit" THEN {call[p].run} ELSE {}

(* Who was found to have the money keeps it. *)
BuyKnows(p) ==
  LET t == tx[p]
      user == call[p].user
  IN  /\ t.at \in {"lock", "check", "purchase", "commit"}
      /\ Plain(t) /\ t.moved = {} /\ UserKnown(p)
      /\ t.at # "lock" => t.lock = user
      /\ t.at \in {"purchase", "commit"} => Balance(user) >= 1
      /\ t.at = "commit" => ~Owns(user, call[p].item)
      /\ t.gains = IF t.at = "commit" THEN {call[p].item} ELSE {}

(* Who was found to own the item keeps it. *)
EquipKnows(p) ==
  LET t == tx[p] IN
  /\ t.at \in {"lock", "wear", "commit"}
  /\ Plain(t) /\ t.target = None /\ t.moved = {} /\ t.gains = {}
  /\ t.at # "lock" => t.lock = call[p].user
  /\ t.at = "commit" /\ call[p].item # None => Owns(call[p].user, call[p].item)

CodeKnows(p) ==
  LET t == tx[p] IN
  /\ t.at \in {"sweep", "issue"}
  /\ Plain(t) /\ t.moved = {} /\ t.gains = {} /\ UserKnown(p)

(* What a redeem has done to the rows of an account it folds into another,   *)
(* as long as that other one is there.                                       *)
FoldKnows(t) ==
  /\ t.at \in {"drop", "purchases", "keys"} => t.moved = RunsOf(t.source)
  /\ t.at \in {"delete", "cascade", "commit"} =>
       t.moved = RunsOf(t.source) \cup KeysOf(t.source)
  /\ t.at \in {"purchases", "keys", "delete", "cascade", "commit"} =>
       t.dropped \subseteq Items(t.target)
  /\ t.at \in {"keys", "delete", "cascade", "commit"} =>
       t.gains = Items(t.source) \ t.dropped

(* The code it took leads to the target until the target is deleted. *)
TookCode(p) ==
  LET t == tx[p] IN
  /\ t.code = call[p].code /\ t.code \notin expired
  /\ t.target \in Accounts /\ status[t.target] # "new"
  /\ status[t.target] = "live" => codes[t.code] = t.target

Early == {"code", "source", "attach", "lock"}

RedeemKnows(p) ==
  LET t == tx[p] IN
  /\ t.at \in {"code", "source", "attach", "lock", "runs", "drop", "purchases", "keys",
               "delete", "cascade", "commit"}
  /\ IF t.at = "code" THEN t.code = None /\ t.target = None ELSE TookCode(p)
  /\ t.at \in {"code", "source", "attach"} => t.source = None
  /\ t.at \notin {"code", "source", "attach", "commit"} => t.source # None
  /\ t.source # None => owner[call[p].key] = t.source /\ status[t.source] = "live"
  /\ t.at \in Early => t.moved = {} /\ t.gains = {} /\ t.dropped = {}
  /\ t.lock = IF t.at \in Early THEN None ELSE t.source
  /\ t.at \notin Early \cup {"commit"} => t.source # t.target
  /\ t.at = "runs" => t.moved = {}
  /\ t.at \in {"runs", "drop", "purchases"} => t.gains = {}
  /\ t.deleted = IF t.at \in {"cascade", "commit"} /\ t.source # t.target
                 THEN t.source ELSE None
  /\ t.at = "commit" /\ t.source = None => t.moved = {call[p].key} /\ t.gains = {}
  /\ t.source = t.target => t.moved = {} /\ t.gains = {}
  /\ t.source \notin {None, t.target} /\ status[t.target] = "live" => FoldKnows(t)

(* What a transaction knows of the tables, whoever else is at work. *)
Knows(p) ==
  \/ tx[p] = Idle
  \/ /\ answer[p] = None
     /\ \A row \in tx[p].moved : owner[row] = tx[p].source
     /\ \/ call[p].op = "resolve" /\ ResolveKnows(p)
        \/ call[p].op = "record" /\ RecordKnows(p)
        \/ call[p].op = "buy" /\ BuyKnows(p)
        \/ call[p].op = "equip" /\ EquipKnows(p)
        \/ call[p].op = "code" /\ CodeKnows(p)
        \/ call[p].op = "redeem" /\ RedeemKnows(p)

(* Two transactions at work hold different locks and codes, move different   *)
(* rows and give different purchases; a new account is that of one.          *)
Separate(p, q) ==
  /\ tx[p].lock # None => tx[p].lock # tx[q].lock
  /\ tx[p].code # None => tx[p].code # tx[q].code
  /\ tx[p].moved \cap tx[q].moved = {}
  /\ tx[p].target = tx[q].target /\ tx[p].target # None =>
       tx[p].gains \cap tx[q].gains = {} /\ status[tx[p].target] # "new"

(* The inductive invariant, over that of the contract (IInv). *)
Orderly ==
  /\ tx \in [Calls -> Transactions]
  /\ \A p \in Calls : Knows(p)
  /\ \A p, q \in Calls : p # q => Separate(p, q)

(* Nobody is answered who did not ask. *)
Unasked == \A p \in Calls : call[p] = NoCall => answer[p] = None

PgInv == IInv /\ Unasked /\ Orderly /\ Apart
-----------------------------------------------------------------------------
(* The contract, read through its instance.                                *)

LEMMA ContractBalance == \A a : Contract!Balance(a) = Balance(a)
<1>1. \A S : Contract!Cardinality(S) = Cardinality(S)
  BY DEF Cardinality, Contract!Cardinality
<1>2. QED
  BY <1>1 DEF Balance, Contract!Balance, RunsOf, Contract!RunsOf, Items, Contract!Items

LEMMA ContractInit == RepositoryInit => Contract!RepositoryInit
BY ContractBalance
   DEF RepositoryInit, Contract!RepositoryInit, Quiet, Contract!Quiet,
       AccountsTypeOK, Contract!AccountsTypeOK, Consistent, Contract!Consistent,
       NoCall, Contract!NoCall, Rows, Contract!Rows, Maybe, Contract!Maybe,
       Requests, Contract!Requests, Refusals, Contract!Refusals,
       AskResolve, Contract!AskResolve, AskRecord, Contract!AskRecord, AskBuy, Contract!AskBuy,
       AskEquip, Contract!AskEquip, AskCode, Contract!AskCode, AskRedeem, Contract!AskRedeem,
       Slots, Contract!Slots

LEMMA ContractStep ==
  ASSUME NEW p \in Calls, RepositoryStep(p)
  PROVE  Contract!RepositoryStep(p)
<1>1. CASE Ask(p)
  BY <1>1 DEF Contract!RepositoryStep, Ask, Contract!Ask, MayAsk, Contract!MayAsk,
       NoCall, Contract!NoCall, Maybe, Contract!Maybe,
       Requests, Contract!Requests, tables, Contract!tables,
       AskResolve, Contract!AskResolve, AskRecord, Contract!AskRecord, AskBuy, Contract!AskBuy,
       AskEquip, Contract!AskEquip, AskCode, Contract!AskCode, AskRedeem, Contract!AskRedeem,
       Slots, Contract!Slots
<1>2. CASE ResolveUser(p)
  BY <1>2 DEF Contract!RepositoryStep, ResolveUser, Contract!ResolveUser, Open, Contract!Open,
       Answer, Contract!Answer, tables, Contract!tables
<1>3. CASE RecordRun(p)
  BY <1>3 DEF Contract!RepositoryStep, RecordRun, Contract!RecordRun, Open, Contract!Open,
       Answer, Contract!Answer
<1>4. CASE Buy(p)
  BY <1>4, ContractBalance DEF Contract!RepositoryStep, Buy, Contract!Buy, Open, Contract!Open,
       Answer, Contract!Answer, tables, Contract!tables, Refuse, Contract!Refuse,
       Owns, Contract!Owns
<1>5. CASE Equip(p)
  BY <1>5 DEF Contract!RepositoryStep, Equip, Contract!Equip, Open, Contract!Open,
       Answer, Contract!Answer, tables, Contract!tables, Refuse, Contract!Refuse,
       Owns, Contract!Owns, Wearing, Contract!Wearing
<1>6. CASE CreateLinkCode(p)
  BY <1>6 DEF Contract!RepositoryStep, CreateLinkCode, Contract!CreateLinkCode,
       Open, Contract!Open, Answer, Contract!Answer
<1>7. CASE RedeemLinkCode(p)
  BY <1>7 DEF Contract!RepositoryStep, RedeemLinkCode, Contract!RedeemLinkCode,
       Open, Contract!Open, Answer, Contract!Answer, tables, Contract!tables,
       Refuse, Contract!Refuse, Spend, Contract!Spend, Merge, Contract!Merge,
       Rows, Contract!Rows, Items, Contract!Items
<1>8. CASE Fail(p)
  BY <1>8 DEF Contract!RepositoryStep, Fail, Contract!Fail, NoCall, Contract!NoCall,
       Answer, Contract!Answer, tables, Contract!tables, Refuse, Contract!Refuse
<1>9. QED
  BY <1>1, <1>2, <1>3, <1>4, <1>5, <1>6, <1>7, <1>8 DEF RepositoryStep

LEMMA ContractNext ==
  [RepositoryNext]_<<tables, call, answer>>
    => [Contract!RepositoryNext]_<<Contract!tables, call, answer>>
<1>1. ASSUME NEW p \in Calls, RepositoryStep(p) PROVE Contract!RepositoryNext
  BY <1>1, ContractStep DEF Contract!RepositoryNext
<1>2. ASSUME NEW x \in Codes, Expire(x) PROVE Contract!RepositoryNext
  BY <1>2 DEF Contract!RepositoryNext, Expire, Contract!Expire
<1>3. CASE Sweep
  BY <1>3 DEF Contract!RepositoryNext, Sweep, Contract!Sweep
<1>4. CASE UNCHANGED <<tables, call, answer>>
  BY <1>4 DEF tables, Contract!tables
<1>5. QED
  BY <1>1, <1>2, <1>3, <1>4 DEF RepositoryNext

-----------------------------------------------------------------------------
(* What a transaction's record tells.                                      *)

LEMMA TxShape ==
  ASSUME tx \in [Calls -> Transactions], NEW p \in Calls
  PROVE  /\ tx[p].at \in Stages /\ tx[p].lock \in Maybe(Keys \cup Accounts)
         /\ tx[p].code \in Maybe(Codes)
         /\ tx[p].source \in Maybe(Accounts) /\ tx[p].target \in Maybe(Accounts)
         /\ tx[p].moved \subseteq Rows
         /\ tx[p].dropped \subseteq Cosmetics /\ tx[p].gains \subseteq Cosmetics
         /\ tx[p].deleted \in Maybe(Accounts)
         /\ tx[p] \in Transactions
BY DEF Transactions

LEMMA IdleOK == Idle \in Transactions
BY DEF Idle, Transactions, Stages, Maybe

(* The statement a transaction is at tells what it was asked. *)
LEMMA WhoIsAt ==
  ASSUME NEW p \in Calls, Knows(p)
  PROVE  /\ tx[p].at # "idle" => answer[p] = None /\ call[p] # NoCall
         /\ tx[p] # Idle => tx[p].at # "idle"
         /\ tx[p].at \in {"find", "touch", "create"} => Open(p, "resolve") /\ ResolveKnows(p)
         /\ tx[p].at = "insert" => Open(p, "record") /\ RecordKnows(p)
         /\ tx[p].at \in {"check", "purchase"} => Open(p, "buy") /\ BuyKnows(p)
         /\ tx[p].at = "wear" => Open(p, "equip") /\ EquipKnows(p)
         /\ tx[p].at \in {"sweep", "issue"} => Open(p, "code") /\ CodeKnows(p)
         /\ tx[p].at \in {"code", "source", "attach", "runs", "drop", "purchases", "keys",
                          "delete", "cascade"} => Open(p, "redeem") /\ RedeemKnows(p)
         /\ \A row \in tx[p].moved : owner[row] = tx[p].source
BY DEF Knows, Idle, NoCall, Open, ResolveKnows, RecordKnows, BuyKnows, EquipKnows, CodeKnows,
       RedeemKnows

(* A step that leaves the tables and q alone leaves what q knows. *)
LEMMA Undisturbed ==
  ASSUME NEW q \in Calls, Knows(q), UNCHANGED tables,
         call'[q] = call[q], answer'[q] = answer[q], tx'[q] = tx[q]
  PROVE  Knows(q)'
<1>1. UNCHANGED <<status, owner, bought, worn, codes, expired>>
  BY DEF tables
<1>2. /\ \A a : RunsOf(a)' = RunsOf(a) /\ KeysOf(a)' = KeysOf(a) /\ Items(a)' = Items(a)
      /\ \A a : Balance(a)' = Balance(a)
      /\ \A a, c : Owns(a, c)' = Owns(a, c)
  BY <1>1 DEF RunsOf, KeysOf, Items, Balance, Owns
<1>3. FoldKnows(tx[q])' <=> FoldKnows(tx[q])
  BY <1>1, <1>2 DEF FoldKnows
<1>4. QED
  BY <1>1, <1>2, <1>3 DEF Knows, Plain, ResolveKnows, UserKnown, RecordKnows, BuyKnows, EquipKnows,
       CodeKnows, RedeemKnows, TookCode

(* u holds no more than t. *)
Less(u, t) ==
  /\ u.lock \in {t.lock, None} /\ u.code \in {t.code, None} /\ u.target \in {t.target, None}
  /\ u.moved \subseteq t.moved /\ u.gains \subseteq t.gains

LEMMA IdleLess == ASSUME NEW t \in Transactions PROVE Less(Idle, t) /\ Less(t, t)
BY DEF Less, Idle, Transactions

LEMMA StaySeparate ==
  ASSUME NEW p \in Calls, NEW q \in Calls, tx' \in [Calls -> Transactions], Separate(p, q),
         Less(tx'[p], tx[p]), Less(tx'[q], tx[q]),
         \A a \in Accounts : status'[a] = "new" => status[a] = "new"
  PROVE  Separate(p, q)'
<1>1. tx'[p].target \in Maybe(Accounts)
  BY DEF Transactions
<1>2. QED
  BY <1>1 DEF Separate, Less, Maybe

LEMMA SeparateBoth == \A p, q : Separate(p, q)' => Separate(q, p)'
BY DEF Separate

-----------------------------------------------------------------------------
(* Steps that leave the tables as they are.                                *)

(* Everybody still knows what is true, and the tables have taken a step of   *)
(* the contract or none.                                                    *)
Faithful == Orderly' /\ [RepositoryNext]_<<tables, call, answer>>

(* What the others hold is as it was: only p's own record is to be looked at. *)
LEMMA OneChanged ==
  ASSUME Orderly, NEW p \in Calls, tx' \in [Calls -> Transactions],
         \A q \in Calls \ {p} : tx'[q] = tx[q] /\ Knows(q)',
         \A a \in Accounts : status'[a] = "new" => status[a] = "new",
         Knows(p)',
         Less(tx'[p], tx[p]) \/ \A q \in Calls \ {p} : Separate(p, q)'
  PROVE  Orderly'
<1>1. ASSUME NEW q \in Calls \ {p} PROVE Separate(p, q)'
  <2>1. CASE Less(tx'[p], tx[p])
    <3>1. Less(tx'[q], tx[q])
      BY IdleLess, TxShape DEF Orderly
    <3>2. QED
      BY <2>1, <3>1, StaySeparate DEF Orderly
  <2>2. QED
    BY <2>1
<1>2. ASSUME NEW q \in Calls \ {p}, NEW r \in Calls \ {p}, q # r PROVE Separate(q, r)'
  <2>1. Less(tx'[q], tx[q]) /\ Less(tx'[r], tx[r])
    BY IdleLess, TxShape DEF Orderly
  <2>2. QED
    BY <1>2, <2>1, StaySeparate DEF Orderly
<1>3. \A q \in Calls : Knows(q)'
  OBVIOUS
<1>4. \A q, r \in Calls : q # r => Separate(q, r)'
  <2>1. TAKE q, r \in Calls
  <2>2. HAVE q # r
  <2>3. CASE q = p
    BY <1>1, <2>2, <2>3
  <2>4. CASE r = p
    BY <1>1, <2>2, <2>4, SeparateBoth
  <2>5. QED
    BY <1>2, <2>2, <2>3, <2>4
<1>5. QED
  BY <1>3, <1>4 DEF Orderly

LEMMA DoesTx ==
  ASSUME tx \in [Calls -> Transactions], NEW p \in Calls, NEW stage \in Stages,
         NEW t \in Transactions, Does(p, stage, t)
  PROVE  /\ tx' \in [Calls -> Transactions]
         /\ tx'[p] \in Transactions
         /\ tx'[p].at = stage /\ tx'[p].lock = t.lock /\ tx'[p].code = t.code
         /\ tx'[p].source = t.source /\ tx'[p].target = t.target /\ tx'[p].moved = t.moved
         /\ tx'[p].dropped = t.dropped /\ tx'[p].gains = t.gains /\ tx'[p].deleted = t.deleted
         /\ \A q \in Calls \ {p} : tx'[q] = tx[q]
         /\ UNCHANGED <<status, owner, bought, worn, codes, expired, call, answer>>
<1>1. [t EXCEPT !.at = stage] \in Transactions
  BY DEF Transactions
<1>2. QED
  BY <1>1 DEF Does, tables, Transactions

(* A statement inside a transaction: nobody else sees it. *)
LEMMA DoesKeeps ==
  ASSUME Orderly, NEW p \in Calls, NEW stage \in Stages, NEW t \in Transactions,
         Does(p, stage, t), Knows(p)',
         Less(tx'[p], tx[p]) \/ \A q \in Calls \ {p} : Separate(p, q)'
  PROVE  Faithful
<1>1. /\ tx' \in [Calls -> Transactions] /\ \A q \in Calls \ {p} : tx'[q] = tx[q]
      /\ UNCHANGED <<status, tables, call, answer>>
  BY DoesTx DEF Orderly, Does, tables
<1>2. \A q \in Calls \ {p} : Knows(q)'
  BY <1>1, Undisturbed DEF Orderly
<1>3. Orderly'
  BY <1>1, <1>2, OneChanged
<1>4. QED
  BY <1>1, <1>3 DEF Faithful

(* A transaction that ends before it changed anything. *)
LEMMA ReturnKeeps ==
  ASSUME Orderly, NEW p \in Calls, NEW result, Return(p, result),
         answer[p] = None, IInv,
         RepositoryStep(p) \/ (result = "failed" /\ call[p] # NoCall)
  PROVE  Faithful
<1>1. /\ tx' \in [Calls -> Transactions] /\ \A q \in Calls \ {p} : tx'[q] = tx[q]
      /\ tx'[p] = Idle
      /\ UNCHANGED <<status, tables, call>>
      /\ \A q \in Calls \ {p} : answer'[q] = answer[q]
  BY IdleOK DEF Return, Orderly, Answer, tables, IInv, AccountsTypeOK
<1>2. \A q \in Calls \ {p} : Knows(q)'
  BY <1>1, Undisturbed DEF Orderly
<1>3. Knows(p)'
  BY <1>1 DEF Knows
<1>4. Orderly'
  BY <1>1, <1>2, <1>3, OneChanged, IdleLess, TxShape DEF Orderly
<1>5. RepositoryNext
  BY DEF Return, RepositoryNext, RepositoryStep, Fail, Refuse
<1>6. QED
  BY <1>4, <1>5 DEF Faithful

LEMMA RollKeeps ==
  ASSUME Orderly, IInv, NEW p \in Calls, tx[p].at # "idle", Roll(p)
  PROVE  Faithful
BY ReturnKeeps, WhoIsAt DEF Orderly, Roll

-----------------------------------------------------------------------------
(* Taking the lock, and what each call looks up first.                     *)

LEMMA TakeLockFaithful ==
  ASSUME Orderly, IInv, NEW p \in Calls, TakeLock(p)
  PROVE  Faithful
<1> DEFINE t == [tx[p] EXCEPT !.lock = LockOf(p)]
           op == call[p].op
<1>1. tx[p] \in Transactions /\ Knows(p)
  BY TxShape DEF Orderly
<1>2. tx[p].at = "lock" /\ \A q \in Calls \ {p} : tx[q].lock # LockOf(p)
  BY DEF TakeLock, Ready, At, Waits
<1>3. /\ op \in {"resolve", "record", "buy", "equip", "redeem"}
      /\ op = "resolve" => ResolveKnows(p)
      /\ op = "record" => RecordKnows(p)
      /\ op = "buy" => BuyKnows(p)
      /\ op = "equip" => EquipKnows(p)
      /\ op = "redeem" => RedeemKnows(p)
      /\ answer[p] = None
      /\ \A row \in tx[p].moved : owner[row] = tx[p].source
  <2>1. op # "code"
    BY <1>1, <1>2 DEF Knows, Idle, CodeKnows
  <2>2. QED
    BY <1>1, <1>2, <2>1 DEF Knows, Idle
<1>4. LockOf(p) \in Keys \cup Accounts
  <2>1. op = "redeem" => tx[p].source \in Accounts
    BY <1>2, <1>3, TxShape DEF RedeemKnows, Maybe, Orderly
  <2>2. QED
    BY <1>3, <2>1, CallShapes DEF LockOf, IInv, AccountsTypeOK
<1>5. /\ t \in Transactions
      /\ t.lock = LockOf(p) /\ t.code = tx[p].code
      /\ t.source = tx[p].source /\ t.target = tx[p].target
      /\ t.moved = tx[p].moved /\ t.dropped = tx[p].dropped
      /\ t.gains = tx[p].gains /\ t.deleted = tx[p].deleted
  BY <1>1, <1>4 DEF Transactions, Maybe
<1>6. PICK stage \in Stages :
        /\ Does(p, stage, t)
        /\ op = "resolve" => stage = "find"
        /\ op = "record" => stage = "insert"
        /\ op = "buy" => stage = "check"
        /\ op = "equip" => stage = "wear"
        /\ op = "redeem" /\ tx[p].source = tx[p].target => stage = "commit"
        /\ op = "redeem" /\ tx[p].source # tx[p].target => stage = "runs"
  BY <1>3 DEF TakeLock, Stages
<1> HIDE DEF t, op
<1>7. /\ tx'[p].at = stage /\ tx'[p].lock = LockOf(p) /\ tx'[p].code = tx[p].code
      /\ tx'[p].source = tx[p].source /\ tx'[p].target = tx[p].target
      /\ tx'[p].moved = tx[p].moved /\ tx'[p].dropped = tx[p].dropped
      /\ tx'[p].gains = tx[p].gains /\ tx'[p].deleted = tx[p].deleted
      /\ \A q \in Calls \ {p} : tx'[q] = tx[q]
      /\ UNCHANGED <<status, owner, bought, worn, codes, expired, call, answer>>
  BY <1>5, <1>6, DoesTx DEF Orderly
<1>8. \A q \in Calls \ {p} : Separate(p, q)'
  BY <1>2, <1>7 DEF Separate, Orderly
<1>9. Knows(p)'
  <2>1. CASE op = "resolve"
    BY <1>2, <1>3, <1>6, <1>7, <2>1 DEF op, Knows, ResolveKnows, Plain, LockOf
  <2>2. CASE op = "record"
    BY <1>2, <1>3, <1>6, <1>7, <2>2 DEF op, Knows, RecordKnows, UserKnown, Plain, LockOf
  <2>3. CASE op = "buy"
    BY <1>2, <1>3, <1>6, <1>7, <2>3 DEF op, Knows, BuyKnows, UserKnown, Plain, LockOf
  <2>4. CASE op = "equip"
    BY <1>2, <1>3, <1>6, <1>7, <2>4 DEF op, Knows, EquipKnows, Plain, LockOf
  <2>5. CASE op = "redeem"
    <3>1. RedeemKnows(p)'
      BY <1>2, <1>3, <1>6, <1>7, <2>5, AccountsNone
         DEF op, RedeemKnows, TookCode, FoldKnows, LockOf, Early
    <3>2. QED
      BY <1>3, <1>7, <2>5, <3>1 DEF op, Knows
  <2>6. QED
    BY <1>3, <2>1, <2>2, <2>3, <2>4, <2>5
<1>10. QED
  BY <1>5, <1>6, <1>8, <1>9, DoesKeeps

LEMMA FindFaithful ==
  ASSUME Orderly, IInv, NEW p \in Calls, Find(p)
  PROVE  Faithful
<1> DEFINE known == owner[call[p].key]
           t == [tx[p] EXCEPT !.target = known]
<1>1. tx[p] \in Transactions /\ Knows(p) /\ tx[p].at = "find"
  BY TxShape DEF Orderly, Find, Ready, At
<1>2. Open(p, "resolve") /\ ResolveKnows(p)
  BY <1>1, WhoIsAt
<1>3. call[p].key \in Keys /\ known \in Maybe(Accounts) /\ (known # None => status[known] = "live")
  BY <1>2, CallShapes DEF Open, IInv, AccountsTypeOK, Consistent, Rows
<1>4. /\ t \in Transactions
      /\ t.lock = tx[p].lock /\ t.code = tx[p].code
      /\ t.source = tx[p].source /\ t.target = known
      /\ t.moved = tx[p].moved /\ t.dropped = tx[p].dropped
      /\ t.gains = tx[p].gains /\ t.deleted = tx[p].deleted
  BY <1>1, <1>3 DEF Transactions
<1>5. PICK stage \in Stages :
        Does(p, stage, t) /\ stage = IF known = None THEN "create" ELSE "touch"
  BY DEF Find, Stages
<1> HIDE DEF t
<1>6. /\ tx'[p].at = stage /\ tx'[p].lock = tx[p].lock /\ tx'[p].code = tx[p].code
      /\ tx'[p].source = tx[p].source /\ tx'[p].target = known
      /\ tx'[p].moved = tx[p].moved /\ tx'[p].dropped = tx[p].dropped
      /\ tx'[p].gains = tx[p].gains /\ tx'[p].deleted = tx[p].deleted
      /\ \A q \in Calls \ {p} : tx'[q] = tx[q]
      /\ UNCHANGED <<status, owner, bought, worn, codes, expired, call, answer>>
  BY <1>4, <1>5, DoesTx DEF Orderly
<1>7. Knows(p)'
  BY <1>1, <1>2, <1>3, <1>5, <1>6 DEF Knows, Open, ResolveKnows, Plain, Maybe
<1>8. \A q \in Calls \ {p} : Separate(p, q)'
  BY <1>1, <1>2, <1>3, <1>6 DEF Separate, Orderly, ResolveKnows, Maybe
<1>9. QED
  BY <1>4, <1>5, <1>7, <1>8, DoesKeeps

LEMMA TouchFaithful ==
  ASSUME Orderly, IInv, NEW p \in Calls, Touch(p)
  PROVE  Faithful
<1>1. tx[p] \in Transactions /\ Knows(p) /\ tx[p].at = "touch"
  BY TxShape DEF Orderly, Touch, Ready, At
<1>2. Open(p, "resolve") /\ ResolveKnows(p)
  BY <1>1, WhoIsAt
<1>3. CASE Return(p, tx[p].target) /\ status[tx[p].target] = "live"
  <2>1. owner[call[p].key] = tx[p].target /\ owner[call[p].key] # None
    BY <1>1, <1>2, <1>3, AccountsNone DEF ResolveKnows
  <2>2. ResolveUser(p)
    BY <1>2, <1>3, <2>1 DEF Return, ResolveUser
  <2>3. QED
    BY <1>2, <1>3, <2>2, ReturnKeeps DEF RepositoryStep, Open
<1>4. CASE Does(p, "create", [tx[p] EXCEPT !.target = None])
  <2> DEFINE t == [tx[p] EXCEPT !.target = None]
  <2>1. /\ t \in Transactions /\ "create" \in Stages
        /\ t.lock = tx[p].lock /\ t.code = tx[p].code
        /\ t.source = tx[p].source /\ t.target = None
        /\ t.moved = tx[p].moved /\ t.dropped = tx[p].dropped
        /\ t.gains = tx[p].gains /\ t.deleted = tx[p].deleted
    BY <1>1 DEF Transactions, Maybe, Stages
  <2> HIDE DEF t
  <2>2. Does(p, "create", t)
    BY <1>4 DEF t
  <2>3. /\ tx'[p].at = "create" /\ tx'[p].lock = tx[p].lock /\ tx'[p].code = tx[p].code
        /\ tx'[p].source = tx[p].source /\ tx'[p].target = None
        /\ tx'[p].moved = tx[p].moved /\ tx'[p].dropped = tx[p].dropped
        /\ tx'[p].gains = tx[p].gains /\ tx'[p].deleted = tx[p].deleted
        /\ UNCHANGED <<status, owner, bought, worn, codes, expired, call, answer>>
    BY <2>1, <2>2, DoesTx DEF Orderly
  <2>4. Knows(p)'
    BY <1>1, <1>2, <2>3 DEF Knows, Open, ResolveKnows, Plain
  <2>5. Less(tx'[p], tx[p])
    BY <2>3 DEF Less
  <2>6. QED
    BY <2>1, <2>2, <2>4, <2>5, DoesKeeps
<1>5. QED
  BY <1>3, <1>4 DEF Touch

LEMMA CreateFaithful ==
  ASSUME Orderly, IInv, NEW p \in Calls, Create(p)
  PROVE  Faithful
<1>1. tx[p] \in Transactions /\ Knows(p) /\ tx[p].at = "create"
  BY TxShape DEF Orderly, Create, Ready, At
<1>2. Open(p, "resolve") /\ ResolveKnows(p) /\ call[p].key \in Rows
  BY <1>1, WhoIsAt, CallShapes DEF Open, IInv, AccountsTypeOK, Rows
<1>3. CASE Roll(p)
  BY <1>1, <1>3, RollKeeps
<1>4. CASE owner[call[p].key] = None
  <2>1. PICK a \in Accounts :
          /\ status[a] = "new" /\ \A q \in Calls : tx[q].target # a
          /\ Does(p, "commit", [tx[p] EXCEPT !.target = a, !.moved = {call[p].key}])
    BY <1>4 DEF Create
  <2>2. PICK t \in Transactions :
          /\ Does(p, "commit", t)
          /\ t.lock = tx[p].lock /\ t.code = tx[p].code
          /\ t.source = tx[p].source /\ t.target = a
          /\ t.moved = {call[p].key} /\ t.dropped = tx[p].dropped
          /\ t.gains = tx[p].gains /\ t.deleted = tx[p].deleted
    <3> DEFINE t == [tx[p] EXCEPT !.target = a, !.moved = {call[p].key}]
    <3>1. /\ t \in Transactions
          /\ t.lock = tx[p].lock /\ t.code = tx[p].code
          /\ t.source = tx[p].source /\ t.target = a
          /\ t.moved = {call[p].key} /\ t.dropped = tx[p].dropped
          /\ t.gains = tx[p].gains /\ t.deleted = tx[p].deleted
      BY <1>1, <1>2 DEF Transactions, Maybe
    <3>2. QED
      BY <2>1, <3>1
  <2>3. /\ tx'[p].at = "commit" /\ tx'[p].lock = t.lock /\ tx'[p].code = t.code
        /\ tx'[p].source = t.source /\ tx'[p].target = t.target /\ tx'[p].moved = t.moved
        /\ tx'[p].dropped = t.dropped /\ tx'[p].gains = t.gains /\ tx'[p].deleted = t.deleted
        /\ \A q \in Calls \ {p} : tx'[q] = tx[q]
        /\ UNCHANGED <<status, owner, bought, worn, codes, expired, call, answer>>
        /\ "commit" \in Stages
    BY <2>2, DoesTx DEF Orderly, Stages
  <2>4. Knows(p)'
    <3>1. tx'[p].source = None /\ tx'[p].target \in Accounts
      BY <1>2, <2>1, <2>2, <2>3 DEF ResolveKnows, Plain
    <3>2. ResolveKnows(p)'
      BY <1>1, <1>2, <2>1, <2>2, <2>3, <3>1 DEF ResolveKnows, Plain
    <3>3. \A row \in tx'[p].moved : owner'[row] = tx'[p].source
      BY <1>4, <2>2, <2>3, <3>1
    <3>4. QED
      BY <1>2, <2>3, <3>2, <3>3 DEF Knows, Open
  <2>5. ASSUME NEW q \in Calls \ {p} PROVE Separate(p, q)'
    <3>1. call[p].key \notin tx[q].moved
      BY <1>1 DEF Create, Ready, Waits, At
    <3>2. Separate(p, q) /\ tx[q].target # a
      BY <2>1 DEF Orderly
    <3>3. QED
      BY <2>2, <2>3, <3>1, <3>2 DEF Separate
  <2>6. QED
    BY <2>2, <2>3, <2>4, <2>5, DoesKeeps
<1>5. QED
  BY <1>3, <1>4 DEF Create

LEMMA InsertFaithful ==
  ASSUME Orderly, IInv, NEW p \in Calls, Insert(p)
  PROVE  Faithful
<1> DEFINE run == call[p].run
<1>1. tx[p] \in Transactions /\ Knows(p) /\ tx[p].at = "insert"
  BY TxShape DEF Orderly, Insert, Ready, At
<1>2. Open(p, "record") /\ RecordKnows(p)
  BY <1>1, WhoIsAt
<1>3. run \in Runs /\ run \in Rows /\ owner[run] = None /\ call[p].user \in Accounts
  BY <1>2, CallShapes DEF Open, IInv, AccountsTypeOK, Rows, OneRecord
<1>4. CASE Roll(p)
  BY <1>1, <1>4, RollKeeps
<1>5. CASE ~Refused(p) /\ Does(p, "commit", [tx[p] EXCEPT !.moved = NewRows(p)])
  <2>1. NewRows(p) = {run} /\ status[call[p].user] = "live"
    BY <1>1, <1>2, <1>5 DEF NewRows, At, Refused, Refers, RecordKnows, UserKnown
  <2>2. PICK t \in Transactions :
          /\ Does(p, "commit", t)
          /\ t.lock = tx[p].lock /\ t.code = tx[p].code
          /\ t.source = tx[p].source /\ t.target = tx[p].target
          /\ t.moved = {run} /\ t.dropped = tx[p].dropped
          /\ t.gains = tx[p].gains /\ t.deleted = tx[p].deleted
    <3> DEFINE t == [tx[p] EXCEPT !.moved = {run}]
    <3>1. /\ t \in Transactions
          /\ t.lock = tx[p].lock /\ t.code = tx[p].code
          /\ t.source = tx[p].source /\ t.target = tx[p].target
          /\ t.moved = {run} /\ t.dropped = tx[p].dropped
          /\ t.gains = tx[p].gains /\ t.deleted = tx[p].deleted
      BY <1>1, <1>3 DEF Transactions, Maybe
    <3>2. QED
      BY <1>5, <2>1, <3>1
  <2>3. /\ tx'[p].at = "commit" /\ tx'[p].lock = t.lock /\ tx'[p].code = t.code
        /\ tx'[p].source = t.source /\ tx'[p].target = t.target /\ tx'[p].moved = t.moved
        /\ tx'[p].dropped = t.dropped /\ tx'[p].gains = t.gains /\ tx'[p].deleted = t.deleted
        /\ \A q \in Calls \ {p} : tx'[q] = tx[q]
        /\ UNCHANGED <<status, owner, bought, worn, codes, expired, call, answer>>
        /\ "commit" \in Stages
    BY <2>2, DoesTx DEF Orderly, Stages
  <2>4. Knows(p)'
    <3>1. RecordKnows(p)'
      BY <1>1, <1>2, <2>1, <2>2, <2>3 DEF RecordKnows, Plain, UserKnown
    <3>2. \A row \in tx'[p].moved : owner'[row] = tx'[p].source
      BY <1>2, <1>3, <2>2, <2>3 DEF RecordKnows, Plain
    <3>3. QED
      BY <1>2, <2>3, <3>1, <3>2 DEF Knows, Open
  <2>5. ASSUME NEW q \in Calls \ {p} PROVE Separate(p, q)'
    <3>1. run \notin tx[q].moved
      <4>1. SUFFICES ASSUME run \in tx[q].moved PROVE FALSE
        OBVIOUS
      <4>2. Knows(q) /\ tx[q].source = None
        BY <1>3, <4>1, WhoIsAt DEF Orderly
      <4>3. tx[q].moved # {} /\ tx[q] # Idle
        BY <4>1 DEF Idle
      <4>4. call[q] \in Requests \cup {NoCall}
        BY DEF IInv, AccountsTypeOK
      <4>5. CASE call[q].op = "resolve" /\ ResolveKnows(q)
        BY <1>3, <4>1, <4>4, <4>5, KeysApart, CallShapes DEF ResolveKnows
      <4>6. CASE call[q].op = "record" /\ RecordKnows(q)
        BY <1>2, <4>1, <4>6 DEF RecordKnows, IInv, OneRecord, Open
      <4>7. CASE call[q].op = "redeem" /\ RedeemKnows(q)
        <5>1. tx[q].moved = {call[q].key}
          BY <4>2, <4>3, <4>7 DEF RedeemKnows, Early
        <5>2. QED
          BY <1>3, <4>1, <4>4, <4>7, <5>1, KeysApart, CallShapes
      <4>8. QED
        BY <4>2, <4>3, <4>5, <4>6, <4>7 DEF Knows, BuyKnows, EquipKnows, CodeKnows
    <3>2. Separate(p, q)
      BY DEF Orderly
    <3>3. QED
      BY <1>2, <2>1, <2>2, <2>3, <3>1, <3>2 DEF Separate, RecordKnows, UserKnown
  <2>6. QED
    BY <2>2, <2>3, <2>4, <2>5, DoesKeeps
<1>6. QED
  BY <1>4, <1>5 DEF Insert

LEMMA CheckFaithful ==
  ASSUME Orderly, IInv, NEW p \in Calls, Check(p)
  PROVE  Faithful
<1> DEFINE user == call[p].user
           item == call[p].item
<1>1. tx[p] \in Transactions /\ Knows(p) /\ tx[p].at = "check" /\ "purchase" \in Stages
  BY TxShape DEF Orderly, Check, Ready, At, Stages
<1>2. Open(p, "buy") /\ BuyKnows(p)
  BY <1>1, WhoIsAt
<1>3. CASE Owns(user, item) /\ Return(p, "already_owned")
  <2>1. Buy(p)
    BY <1>2, <1>3 DEF Buy, Return, Refuse
  <2>2. QED
    BY <1>2, <1>3, <2>1, ReturnKeeps DEF RepositoryStep, Open
<1>4. CASE ~Owns(user, item) /\ Balance(user) < 1 /\ Return(p, "insufficient")
  <2>1. Buy(p)
    BY <1>2, <1>4 DEF Buy, Return, Refuse
  <2>2. QED
    BY <1>2, <1>4, <2>1, ReturnKeeps DEF RepositoryStep, Open
<1>5. CASE Balance(user) >= 1 /\ Does(p, "purchase", tx[p])
  <2>1. /\ tx'[p].at = "purchase" /\ tx'[p].lock = tx[p].lock /\ tx'[p].code = tx[p].code
        /\ tx'[p].source = tx[p].source /\ tx'[p].target = tx[p].target
        /\ tx'[p].moved = tx[p].moved /\ tx'[p].dropped = tx[p].dropped
        /\ tx'[p].gains = tx[p].gains /\ tx'[p].deleted = tx[p].deleted
        /\ UNCHANGED <<status, owner, bought, worn, codes, expired, call, answer>>
    BY <1>1, <1>5, DoesTx DEF Orderly
  <2>2. Balance(user)' >= 1
    BY <1>5, <2>1 DEF Balance, RunsOf, Items
  <2>3. Knows(p)'
    BY <1>1, <1>2, <2>1, <2>2 DEF Knows, Open, BuyKnows, Plain, UserKnown
  <2>4. QED
    BY <1>1, <1>5, <2>1, <2>3, DoesKeeps DEF Less
<1>6. QED
  BY <1>3, <1>4, <1>5 DEF Check

LEMMA PurchaseFaithful ==
  ASSUME Orderly, IInv, NEW p \in Calls, Purchase(p)
  PROVE  Faithful
<1> DEFINE user == call[p].user
           item == call[p].item
<1>1. tx[p] \in Transactions /\ Knows(p) /\ tx[p].at = "purchase"
  BY TxShape DEF Orderly, Purchase, Ready, At
<1>2. Open(p, "buy") /\ BuyKnows(p)
  BY <1>1, WhoIsAt
<1>3. user \in Accounts /\ item \in Cosmetics
  BY <1>2, CallShapes DEF Open, IInv, AccountsTypeOK
<1>4. CASE Owns(user, item) /\ Return(p, "already_owned")
  <2>1. Buy(p)
    BY <1>2, <1>4 DEF Buy, Return, Refuse
  <2>2. QED
    BY <1>2, <1>4, <2>1, ReturnKeeps DEF RepositoryStep, Open
<1>5. CASE Roll(p)
  BY <1>1, <1>5, RollKeeps
<1>6. CASE ~Owns(user, item) /\ Does(p, "commit", [tx[p] EXCEPT !.gains = NewItems(p)])
  <2>1. NewItems(p) = {item}
    BY <1>1 DEF NewItems, At
  <2>2. PICK t \in Transactions :
          /\ Does(p, "commit", t)
          /\ t.lock = tx[p].lock /\ t.code = tx[p].code
          /\ t.source = tx[p].source /\ t.target = tx[p].target
          /\ t.moved = tx[p].moved /\ t.dropped = tx[p].dropped
          /\ t.gains = {item} /\ t.deleted = tx[p].deleted
    <3> DEFINE t == [tx[p] EXCEPT !.gains = {item}]
    <3>1. /\ t \in Transactions
          /\ t.lock = tx[p].lock /\ t.code = tx[p].code
          /\ t.source = tx[p].source /\ t.target = tx[p].target
          /\ t.moved = tx[p].moved /\ t.dropped = tx[p].dropped
          /\ t.gains = {item} /\ t.deleted = tx[p].deleted
      BY <1>1, <1>3 DEF Transactions, Maybe
    <3>2. QED
      BY <1>6, <2>1, <3>1
  <2>3. /\ tx'[p].at = "commit" /\ tx'[p].lock = t.lock /\ tx'[p].code = t.code
        /\ tx'[p].source = t.source /\ tx'[p].target = t.target /\ tx'[p].moved = t.moved
        /\ tx'[p].dropped = t.dropped /\ tx'[p].gains = t.gains /\ tx'[p].deleted = t.deleted
        /\ \A q \in Calls \ {p} : tx'[q] = tx[q]
        /\ UNCHANGED <<status, owner, bought, worn, codes, expired, call, answer>>
        /\ "commit" \in Stages
    BY <2>2, DoesTx DEF Orderly, Stages
  <2>4. Knows(p)'
    <3>1. Balance(user)' >= 1 /\ ~Owns(user, item)'
      <4>1. Balance(user) >= 1
        BY <1>1, <1>2 DEF BuyKnows
      <4>2. QED
        BY <1>6, <2>3, <4>1 DEF Balance, RunsOf, Items, Owns
    <3>2. QED
      BY <1>1, <1>2, <2>2, <2>3, <3>1 DEF Knows, Open, BuyKnows, Plain, UserKnown
  <2>5. ASSUME NEW q \in Calls \ {p} PROVE Separate(p, q)'
    <3>1. tx[p].target = tx[q].target => item \notin tx[q].gains
      <4>1. ({tx[p].target} \X NewItems(p)) \cap Unsettled(q) = {}
        BY DEF Purchase, Ready, Waits
      <4>2. <<tx[p].target, item>> \in {tx[p].target} \X NewItems(p)
        BY <2>1
      <4>3. QED
        BY <4>1, <4>2 DEF Unsettled
    <3>2. Separate(p, q)
      BY DEF Orderly
    <3>3. QED
      BY <1>2, <2>2, <2>3, <3>1, <3>2 DEF Separate, BuyKnows, UserKnown
  <2>6. QED
    BY <2>2, <2>3, <2>4, <2>5, DoesKeeps
<1>7. QED
  BY <1>4, <1>5, <1>6 DEF Purchase

LEMMA WearFaithful ==
  ASSUME Orderly, IInv, NEW p \in Calls, Wear(p)
  PROVE  Faithful
<1> DEFINE user == call[p].user
           item == call[p].item
<1>1. tx[p] \in Transactions /\ Knows(p) /\ tx[p].at = "wear" /\ "commit" \in Stages
  BY TxShape DEF Orderly, Wear, Ready, At, Stages
<1>2. Open(p, "equip") /\ EquipKnows(p)
  BY <1>1, WhoIsAt
<1>3. CASE item # None /\ ~Owns(user, item) /\ Return(p, "not_owned")
  <2>1. Equip(p)
    BY <1>2, <1>3 DEF Equip, Return, Refuse
  <2>2. QED
    BY <1>2, <1>3, <2>1, ReturnKeeps DEF RepositoryStep, Open
<1>4. CASE (item # None => Owns(user, item)) /\ Does(p, "commit", tx[p])
  <2>1. /\ tx'[p].at = "commit" /\ tx'[p].lock = tx[p].lock /\ tx'[p].code = tx[p].code
        /\ tx'[p].source = tx[p].source /\ tx'[p].target = tx[p].target
        /\ tx'[p].moved = tx[p].moved /\ tx'[p].dropped = tx[p].dropped
        /\ tx'[p].gains = tx[p].gains /\ tx'[p].deleted = tx[p].deleted
        /\ UNCHANGED <<status, owner, bought, worn, codes, expired, call, answer>>
    BY <1>1, <1>4, DoesTx DEF Orderly
  <2>2. Knows(p)'
    BY <1>1, <1>2, <1>4, <2>1 DEF Knows, Open, EquipKnows, Plain, Owns
  <2>3. QED
    BY <1>1, <1>4, <2>1, <2>2, DoesKeeps DEF Less
<1>5. QED
  BY <1>3, <1>4 DEF Wear

-----------------------------------------------------------------------------
(* Redeeming a code, up to the commit.                                     *)

(* Two redeems at work do not empty the same account. *)
LEMMA SourcesApart ==
  ASSUME Orderly, Apart, NEW p \in Calls, NEW q \in Calls, p # q, tx[p].source # None
  PROVE  /\ Open(p, "redeem") /\ RedeemKnows(p)
         /\ tx[q].source # tx[p].source
         /\ \A row \in tx[q].moved : owner[row] # tx[p].source
<1>1. ASSUME NEW r \in Calls, tx[r].source # None PROVE Open(r, "redeem") /\ RedeemKnows(r)
  <2>1. Knows(r) /\ ~Plain(tx[r]) /\ tx[r] # Idle
    BY <1>1 DEF Orderly, Plain, Idle
  <2>2. /\ ~ResolveKnows(r) /\ ~RecordKnows(r) /\ ~BuyKnows(r) /\ ~EquipKnows(r)
        /\ ~CodeKnows(r)
    BY <2>1 DEF ResolveKnows, RecordKnows, BuyKnows, EquipKnows, CodeKnows
  <2>3. QED
    BY <2>1, <2>2 DEF Knows, Open
<1>2. tx[q].source # tx[p].source
  BY <1>1 DEF Apart, Redeeming, SourceOf, Open
<1>3. \A row \in tx[q].moved : owner[row] = tx[q].source
  BY WhoIsAt DEF Orderly
<1>4. QED
  BY <1>1, <1>2, <1>3

LEMMA FindSourceFaithful ==
  ASSUME Orderly, IInv, NEW p \in Calls, FindSource(p)
  PROVE  Faithful
<1> DEFINE source == owner[call[p].key]
<1>1. tx[p] \in Transactions /\ Knows(p) /\ tx[p].at = "source"
  BY TxShape DEF Orderly, FindSource, Ready, At
<1>2. Open(p, "redeem") /\ RedeemKnows(p)
  BY <1>1, WhoIsAt
<1>3. source \in Maybe(Accounts) /\ (source # None => status[source] = "live")
  BY <1>2, CallShapes DEF Open, IInv, AccountsTypeOK, Consistent, Rows
<1>4. PICK t \in Transactions, stage \in Stages :
        /\ Does(p, stage, t) /\ stage = IF source = None THEN "attach" ELSE "lock"
        /\ t.lock = tx[p].lock /\ t.code = tx[p].code
        /\ t.source = source /\ t.target = tx[p].target
        /\ t.moved = tx[p].moved /\ t.dropped = tx[p].dropped
        /\ t.gains = tx[p].gains /\ t.deleted = tx[p].deleted
  <2> DEFINE t == [tx[p] EXCEPT !.source = source]
             stage == IF source = None THEN "attach" ELSE "lock"
  <2>1. /\ t \in Transactions /\ stage \in Stages
        /\ t.lock = tx[p].lock /\ t.code = tx[p].code
        /\ t.source = source /\ t.target = tx[p].target
        /\ t.moved = tx[p].moved /\ t.dropped = tx[p].dropped
        /\ t.gains = tx[p].gains /\ t.deleted = tx[p].deleted
    BY <1>1, <1>3 DEF Transactions, Maybe, Stages
  <2>2. Does(p, stage, t)
    BY DEF FindSource
  <2>3. QED
    BY <2>1, <2>2
<1>5. /\ tx'[p].at = stage /\ tx'[p].lock = t.lock /\ tx'[p].code = t.code
      /\ tx'[p].source = t.source /\ tx'[p].target = t.target /\ tx'[p].moved = t.moved
      /\ tx'[p].dropped = t.dropped /\ tx'[p].gains = t.gains /\ tx'[p].deleted = t.deleted
      /\ UNCHANGED <<status, owner, bought, worn, codes, expired, call, answer>>
  BY <1>4, DoesTx DEF Orderly
<1>6. Knows(p)'
  <2>1. TookCode(p)'
    BY <1>1, <1>2, <1>4, <1>5 DEF RedeemKnows, TookCode
  <2>2. RedeemKnows(p)'
    BY <1>1, <1>2, <1>3, <1>4, <1>5, <2>1 DEF RedeemKnows, FoldKnows, Early
  <2>3. tx'[p].moved = {}
    BY <1>1, <1>2, <1>4, <1>5 DEF RedeemKnows, Early
  <2>4. QED
    BY <1>2, <1>5, <2>2, <2>3 DEF Knows, Open
<1>7. Less(tx'[p], tx[p])
  BY <1>4, <1>5 DEF Less
<1>8. QED
  BY <1>4, <1>6, <1>7, DoesKeeps

LEMMA AttachFaithful ==
  ASSUME Orderly, IInv, NEW p \in Calls, Attach(p)
  PROVE  Faithful
<1> DEFINE key == call[p].key
<1>1. tx[p] \in Transactions /\ Knows(p) /\ tx[p].at = "attach" /\ "commit" \in Stages
  BY TxShape DEF Orderly, Attach, Ready, At, Stages
<1>2. Open(p, "redeem") /\ RedeemKnows(p) /\ key \in Rows
  BY <1>1, WhoIsAt, CallShapes DEF Open, IInv, AccountsTypeOK, Rows
<1>3. CASE Roll(p)
  BY <1>1, <1>3, RollKeeps
<1>4. CASE owner[key] = None /\ Does(p, "commit", [tx[p] EXCEPT !.moved = NewRows(p)])
  <2>1. NewRows(p) = {key}
    BY <1>1 DEF NewRows, At
  <2>2. PICK t \in Transactions :
          /\ Does(p, "commit", t)
          /\ t.lock = tx[p].lock /\ t.code = tx[p].code
          /\ t.source = tx[p].source /\ t.target = tx[p].target
          /\ t.moved = {key} /\ t.dropped = tx[p].dropped
          /\ t.gains = tx[p].gains /\ t.deleted = tx[p].deleted
    <3> DEFINE t == [tx[p] EXCEPT !.moved = {key}]
    <3>1. /\ t \in Transactions
          /\ t.lock = tx[p].lock /\ t.code = tx[p].code
          /\ t.source = tx[p].source /\ t.target = tx[p].target
          /\ t.moved = {key} /\ t.dropped = tx[p].dropped
          /\ t.gains = tx[p].gains /\ t.deleted = tx[p].deleted
      BY <1>1, <1>2 DEF Transactions, Maybe
    <3>2. QED
      BY <1>4, <2>1, <3>1
  <2>3. /\ tx'[p].at = "commit" /\ tx'[p].lock = t.lock /\ tx'[p].code = t.code
        /\ tx'[p].source = t.source /\ tx'[p].target = t.target /\ tx'[p].moved = t.moved
        /\ tx'[p].dropped = t.dropped /\ tx'[p].gains = t.gains /\ tx'[p].deleted = t.deleted
        /\ \A q \in Calls \ {p} : tx'[q] = tx[q]
        /\ UNCHANGED <<status, owner, bought, worn, codes, expired, call, answer>>
    BY <1>1, <2>2, DoesTx DEF Orderly
  <2>4. Knows(p)'
    <3>1. TookCode(p)' /\ tx'[p].source = None
      BY <1>1, <1>2, <2>2, <2>3 DEF RedeemKnows, TookCode
    <3>2. RedeemKnows(p)'
      BY <1>1, <1>2, <1>4, <2>2, <2>3, <3>1, AccountsNone
         DEF RedeemKnows, FoldKnows, Early, TookCode
    <3>3. \A row \in tx'[p].moved : owner'[row] = tx'[p].source
      BY <1>4, <2>2, <2>3, <3>1
    <3>4. QED
      BY <1>2, <2>3, <3>2, <3>3 DEF Knows, Open
  <2>5. ASSUME NEW q \in Calls \ {p} PROVE Separate(p, q)'
    <3>1. key \notin tx[q].moved
      BY <1>1 DEF Attach, Ready, Waits, At
    <3>2. Separate(p, q)
      BY DEF Orderly
    <3>3. QED
      BY <2>2, <2>3, <3>1, <3>2 DEF Separate
  <2>6. QED
    BY <1>1, <2>2, <2>4, <2>5, DoesKeeps
<1>5. QED
  BY <1>3, <1>4 DEF Attach

(* A fold of one account into another, which nobody sees before it commits: *)
(* t is the record by then.                                                 *)
LEMMA FoldingKeeps ==
  ASSUME Orderly, IInv, NEW p \in Calls, NEW stage \in Stages, NEW t \in Transactions,
         Does(p, stage, t), Open(p, "redeem"), RedeemKnows(p), tx[p].at \notin Early,
         tx[p].at # "commit", t.lock = tx[p].lock, t.code = tx[p].code,
         t.source = tx[p].source, t.target = tx[p].target,
         stage \in {"drop", "purchases", "keys", "delete", "cascade", "commit"},
         t.gains \subseteq Cosmetics,
         \A row \in t.moved : owner[row] = t.source,
         stage \in {"drop", "purchases"} => t.gains = {},
         t.deleted = IF stage \in {"cascade", "commit"} THEN t.source ELSE None,
         status[t.target] = "live" => FoldKnows([t EXCEPT !.at = stage]),
         \A q \in Calls \ {p} : t.moved \cap tx[q].moved = {},
         \A q \in Calls \ {p} : t.target = tx[q].target => t.gains \cap tx[q].gains = {}
  PROVE  Faithful
<1>1. /\ tx'[p].at = stage /\ tx'[p].lock = t.lock /\ tx'[p].code = t.code
      /\ tx'[p].source = t.source /\ tx'[p].target = t.target /\ tx'[p].moved = t.moved
      /\ tx'[p].dropped = t.dropped /\ tx'[p].gains = t.gains /\ tx'[p].deleted = t.deleted
      /\ \A q \in Calls \ {p} : tx'[q] = tx[q]
      /\ UNCHANGED <<status, owner, bought, worn, codes, expired, call, answer>>
  BY DoesTx DEF Orderly
<1>2. tx'[p] = [t EXCEPT !.at = stage]
  BY DEF Does, Orderly
<1>3. tx[p].source # None /\ tx[p].source # tx[p].target
  BY DEF RedeemKnows, Early
<1>4. TookCode(p) /\ TookCode(p)'
  BY <1>1 DEF RedeemKnows, TookCode, Early
<1>5. Knows(p)'
  <2>1. status[t.target] = "live" => FoldKnows(tx[p])'
    <3>1. \A a : RunsOf(a)' = RunsOf(a) /\ KeysOf(a)' = KeysOf(a) /\ Items(a)' = Items(a)
      BY <1>1 DEF RunsOf, KeysOf, Items
    <3>2. QED
      BY <1>1, <1>2, <3>1 DEF FoldKnows
  <2>2. RedeemKnows(p)'
    BY <1>1, <1>3, <1>4, <2>1 DEF RedeemKnows, Early
  <2>3. QED
    BY <1>1, <2>2 DEF Knows, Open
<1>6. ASSUME NEW q \in Calls \ {p} PROVE Separate(p, q)'
  <2>1. Separate(p, q)
    BY DEF Orderly
  <2>2. status[t.target] # "new"
    BY <1>4 DEF TookCode
  <2>3. QED
    BY <1>1, <2>1, <2>2 DEF Separate
<1>7. QED
  BY <1>5, <1>6, DoesKeeps

(* A statement that gives the rows of the account it empties to the target. *)
LEMMA MoveFaithful ==
  ASSUME Orderly, IInv, Apart, NEW p \in Calls, NEW stage, NEW next, Move(p, stage, next),
         <<stage, next>> \in {<<"runs", "drop">>, <<"keys", "delete">>}
  PROVE  Faithful
<1>1. tx[p] \in Transactions /\ Knows(p) /\ tx[p].at = stage /\ next \in Stages
  BY TxShape DEF Orderly, Move, Ready, At, Stages
<1>2. Open(p, "redeem") /\ RedeemKnows(p) /\ tx[p].source \in Accounts
  BY <1>1, WhoIsAt, TxShape DEF Orderly, RedeemKnows, Maybe
<1>3. CASE Roll(p)
  BY <1>1, <1>3, RollKeeps
<1>4. CASE Does(p, next, [tx[p] EXCEPT !.moved = @ \cup NewRows(p)])
  <2>1. /\ NewRows(p) = IF stage = "runs" THEN RunsOf(tx[p].source) ELSE KeysOf(tx[p].source)
        /\ NewRows(p) \subseteq Rows
        /\ \A row \in NewRows(p) : owner[row] = tx[p].source
    BY <1>1 DEF NewRows, At, RunsOf, KeysOf, Rows
  <2>2. PICK t \in Transactions :
          /\ Does(p, next, t)
          /\ t.lock = tx[p].lock /\ t.code = tx[p].code
          /\ t.source = tx[p].source /\ t.target = tx[p].target
          /\ t.moved = tx[p].moved \cup NewRows(p) /\ t.dropped = tx[p].dropped
          /\ t.gains = tx[p].gains /\ t.deleted = tx[p].deleted
    <3> DEFINE t == [tx[p] EXCEPT !.moved = @ \cup NewRows(p)]
    <3>1. /\ t \in Transactions
          /\ t.lock = tx[p].lock /\ t.code = tx[p].code
          /\ t.source = tx[p].source /\ t.target = tx[p].target
          /\ t.moved = tx[p].moved \cup NewRows(p) /\ t.dropped = tx[p].dropped
          /\ t.gains = tx[p].gains /\ t.deleted = tx[p].deleted
      BY <1>1, <2>1 DEF Transactions, Maybe
    <3>2. QED
      BY <1>4, <3>1
  <2>3. \A row \in t.moved : owner[row] = t.source
    BY <1>1, <2>1, <2>2, WhoIsAt
  <2>4. ASSUME NEW q \in Calls \ {p} PROVE t.moved \cap tx[q].moved = {}
    <3>1. \A row \in tx[q].moved : owner[row] # tx[p].source
      BY <1>2, SourcesApart, AccountsNone
    <3>2. QED
      BY <2>2, <2>3, <3>1
  <2>5. status[t.target] = "live" => FoldKnows([t EXCEPT !.at = next])
    <3>1. [t EXCEPT !.at = next].at = next
          /\ [t EXCEPT !.at = next].source = t.source /\ [t EXCEPT !.at = next].target = t.target
          /\ [t EXCEPT !.at = next].moved = t.moved /\ [t EXCEPT !.at = next].gains = t.gains
          /\ [t EXCEPT !.at = next].dropped = t.dropped
      BY DEF Transactions
    <3>2. status[t.target] = "live" =>
             IF stage = "runs" THEN tx[p].moved = {} ELSE FoldKnows(tx[p])
      BY <1>1, <1>2, <2>2 DEF RedeemKnows, Early
    <3>3. CASE stage = "runs" /\ next = "drop"
      BY <1>1, <2>1, <2>2, <3>1, <3>2, <3>3 DEF FoldKnows
    <3>4. CASE stage = "keys" /\ next = "delete"
      BY <1>1, <2>1, <2>2, <3>1, <3>2, <3>4 DEF FoldKnows
    <3>5. QED
      BY <3>3, <3>4
  <2>6. ASSUME NEW q \in Calls \ {p}, t.target = tx[q].target
        PROVE  t.gains \cap tx[q].gains = {}
    <3>1. Separate(p, q) /\ TookCode(p)
      BY <1>1, <1>2 DEF Orderly, RedeemKnows
    <3>2. tx[p].target # None
      BY <3>1, AccountsNone DEF TookCode
    <3>3. QED
      BY <2>2, <2>6, <3>1, <3>2 DEF Separate
  <2>7. /\ tx[p].at \notin Early /\ tx[p].at # "commit" /\ next \in {"drop", "delete"}
        /\ t.gains \subseteq Cosmetics
        /\ next \in {"drop", "purchases"} => t.gains = {}
        /\ t.deleted = None
    BY <1>1, <1>2, <2>2 DEF RedeemKnows, Early, Transactions
  <2>8. QED
    BY <1>1, <1>2, <2>2, <2>3, <2>4, <2>5, <2>6, <2>7, FoldingKeeps
<1>5. QED
  BY <1>3, <1>4 DEF Move

LEMMA DropDuplicatesFaithful ==
  ASSUME Orderly, IInv, Apart, NEW p \in Calls, DropDuplicates(p)
  PROVE  Faithful
<1> DEFINE both == Items(tx[p].source) \cap Items(tx[p].target)
<1>1. tx[p] \in Transactions /\ Knows(p) /\ tx[p].at = "drop" /\ "purchases" \in Stages
  BY TxShape DEF Orderly, DropDuplicates, Ready, At, Stages
<1>2. Open(p, "redeem") /\ RedeemKnows(p) /\ both \subseteq Cosmetics
  BY <1>1, WhoIsAt DEF Items
<1>3. PICK t \in Transactions :
        /\ Does(p, "purchases", t)
        /\ t.lock = tx[p].lock /\ t.code = tx[p].code
        /\ t.source = tx[p].source /\ t.target = tx[p].target
        /\ t.moved = tx[p].moved /\ t.dropped = both
        /\ t.gains = tx[p].gains /\ t.deleted = tx[p].deleted
  <2> DEFINE t == [tx[p] EXCEPT !.dropped = both]
  <2>1. /\ t \in Transactions
        /\ t.lock = tx[p].lock /\ t.code = tx[p].code
        /\ t.source = tx[p].source /\ t.target = tx[p].target
        /\ t.moved = tx[p].moved /\ t.dropped = both
        /\ t.gains = tx[p].gains /\ t.deleted = tx[p].deleted
    BY <1>1, <1>2 DEF Transactions
  <2>2. QED
    BY <2>1 DEF DropDuplicates
<1>4. \A row \in t.moved : owner[row] = t.source
  BY <1>1, <1>3, WhoIsAt
<1>5. status[t.target] = "live" => FoldKnows([t EXCEPT !.at = "purchases"])
  <2>1. [t EXCEPT !.at = "purchases"].at = "purchases"
        /\ [t EXCEPT !.at = "purchases"].source = t.source
        /\ [t EXCEPT !.at = "purchases"].target = t.target
        /\ [t EXCEPT !.at = "purchases"].moved = t.moved
        /\ [t EXCEPT !.at = "purchases"].dropped = t.dropped
    BY DEF Transactions
  <2>2. status[t.target] = "live" => FoldKnows(tx[p])
    BY <1>1, <1>2, <1>3 DEF RedeemKnows, Early
  <2>3. QED
    BY <1>1, <1>3, <2>1, <2>2 DEF FoldKnows
<1>6. \A q \in Calls \ {p} : t.moved \cap tx[q].moved = {}
  BY <1>3 DEF Orderly, Separate
<1>7. /\ tx[p].at \notin Early /\ tx[p].at # "commit" /\ t.gains = {} /\ t.deleted = None
  BY <1>1, <1>2, <1>3 DEF RedeemKnows, Early
<1>8. QED
  BY <1>1, <1>2, <1>3, <1>4, <1>5, <1>6, <1>7, FoldingKeeps

LEMMA MovePurchasesFaithful ==
  ASSUME Orderly, IInv, Apart, NEW p \in Calls, MovePurchases(p)
  PROVE  Faithful
<1>1. tx[p] \in Transactions /\ Knows(p) /\ tx[p].at = "purchases" /\ "keys" \in Stages
  BY TxShape DEF Orderly, MovePurchases, Ready, At, Stages
<1>2. Open(p, "redeem") /\ RedeemKnows(p)
  BY <1>1, WhoIsAt
<1>3. NewItems(p) = Items(tx[p].source) \ tx[p].dropped /\ NewItems(p) \subseteq Cosmetics
  BY <1>1 DEF NewItems, At, Items
<1>4. CASE Roll(p)
  BY <1>1, <1>4, RollKeeps
<1>5. CASE Does(p, "keys", [tx[p] EXCEPT !.gains = NewItems(p)])
  <2>1. PICK t \in Transactions :
          /\ Does(p, "keys", t)
          /\ t.lock = tx[p].lock /\ t.code = tx[p].code
          /\ t.source = tx[p].source /\ t.target = tx[p].target
          /\ t.moved = tx[p].moved /\ t.dropped = tx[p].dropped
          /\ t.gains = NewItems(p) /\ t.deleted = tx[p].deleted
    <3> DEFINE t == [tx[p] EXCEPT !.gains = NewItems(p)]
    <3>1. /\ t \in Transactions
          /\ t.lock = tx[p].lock /\ t.code = tx[p].code
          /\ t.source = tx[p].source /\ t.target = tx[p].target
          /\ t.moved = tx[p].moved /\ t.dropped = tx[p].dropped
          /\ t.gains = NewItems(p) /\ t.deleted = tx[p].deleted
      BY <1>1, <1>3 DEF Transactions
    <3>2. QED
      BY <1>5, <3>1
  <2>2. \A row \in t.moved : owner[row] = t.source
    BY <1>1, <2>1, WhoIsAt
  <2>3. status[t.target] = "live" => FoldKnows([t EXCEPT !.at = "keys"])
    <3>1. [t EXCEPT !.at = "keys"].at = "keys"
          /\ [t EXCEPT !.at = "keys"].source = t.source
          /\ [t EXCEPT !.at = "keys"].target = t.target
          /\ [t EXCEPT !.at = "keys"].moved = t.moved
          /\ [t EXCEPT !.at = "keys"].gains = t.gains
          /\ [t EXCEPT !.at = "keys"].dropped = t.dropped
      BY DEF Transactions
    <3>2. status[t.target] = "live" => FoldKnows(tx[p])
      BY <1>1, <1>2, <2>1 DEF RedeemKnows, Early
    <3>3. QED
      BY <1>1, <1>3, <2>1, <3>1, <3>2 DEF FoldKnows
  <2>4. \A q \in Calls \ {p} : t.moved \cap tx[q].moved = {}
    BY <2>1 DEF Orderly, Separate
  <2>5. ASSUME NEW q \in Calls \ {p}, t.target = tx[q].target
        PROVE  t.gains \cap tx[q].gains = {}
    <3>1. ({tx[p].target} \X NewItems(p)) \cap Unsettled(q) = {}
      BY DEF MovePurchases, Ready, Waits
    <3>2. ASSUME NEW c \in NewItems(p), c \in tx[q].gains PROVE FALSE
      <4>1. <<tx[p].target, c>> \in ({tx[p].target} \X NewItems(p)) \cap Unsettled(q)
        BY <2>1, <2>5, <3>2 DEF Unsettled
      <4>2. QED
        BY <3>1, <4>1
    <3>3. QED
      BY <2>1, <3>2
  <2>6. tx[p].at \notin Early /\ tx[p].at # "commit" /\ t.gains \subseteq Cosmetics
        /\ t.deleted = None
    BY <1>1, <1>2, <1>3, <2>1 DEF RedeemKnows, Early
  <2>7. QED
    BY <1>1, <1>2, <2>1, <2>2, <2>3, <2>4, <2>5, <2>6, FoldingKeeps
<1>6. QED
  BY <1>4, <1>5 DEF MovePurchases

(* The two statements that delete the account: the second is its cascade. *)
LEMMA DeleteFaithful ==
  ASSUME Orderly, IInv, Apart, NEW p \in Calls, DeleteSource(p) \/ Cascade(p)
  PROVE  Faithful
<1>1. /\ tx[p] \in Transactions /\ Knows(p) /\ tx[p].at \in {"delete", "cascade"}
      /\ "cascade" \in Stages /\ "commit" \in Stages
  BY TxShape DEF Orderly, DeleteSource, Cascade, Ready, At, Stages
<1>2. /\ Open(p, "redeem") /\ RedeemKnows(p) /\ tx[p].source \in Accounts
      /\ status[tx[p].source] = "live" /\ tx[p].source # tx[p].target
  <2>1. Open(p, "redeem") /\ RedeemKnows(p)
    BY <1>1, WhoIsAt
  <2>2. tx[p].source # None /\ status[tx[p].source] = "live" /\ tx[p].source # tx[p].target
    BY <1>1, <2>1 DEF RedeemKnows, Early
  <2>3. QED
    BY <2>1, <2>2, TxShape DEF Orderly, Maybe
<1>3. PICK t \in Transactions, stage \in {"cascade", "commit"} :
        /\ Does(p, stage, t)
        /\ t.lock = tx[p].lock /\ t.code = tx[p].code
        /\ t.source = tx[p].source /\ t.target = tx[p].target
        /\ t.moved = tx[p].moved /\ t.dropped = tx[p].dropped
        /\ t.gains = tx[p].gains /\ t.deleted = tx[p].source
  <2>1. CASE DeleteSource(p)
    <3> DEFINE t == [tx[p] EXCEPT !.deleted = tx[p].source]
    <3>1. /\ t \in Transactions
          /\ t.lock = tx[p].lock /\ t.code = tx[p].code
          /\ t.source = tx[p].source /\ t.target = tx[p].target
          /\ t.moved = tx[p].moved /\ t.dropped = tx[p].dropped
          /\ t.gains = tx[p].gains /\ t.deleted = tx[p].source
      BY <1>1, <1>2 DEF Transactions, Maybe
    <3>2. Does(p, "cascade", t)
      BY <1>2, <2>1 DEF DeleteSource
    <3>3. QED
      BY <3>1, <3>2
  <2>2. CASE Cascade(p)
    <3>1. tx[p].deleted = tx[p].source
      BY <1>2, <2>2 DEF Cascade, Ready, At, RedeemKnows
    <3>2. QED
      BY <1>1, <2>2, <3>1 DEF Cascade
  <2>3. QED
    BY <2>1, <2>2
<1>4. \A row \in t.moved : owner[row] = t.source
  BY <1>1, <1>3, WhoIsAt
<1>5. status[t.target] = "live" => FoldKnows([t EXCEPT !.at = stage])
  <2>1. [t EXCEPT !.at = stage].at = stage
        /\ [t EXCEPT !.at = stage].source = t.source
        /\ [t EXCEPT !.at = stage].target = t.target
        /\ [t EXCEPT !.at = stage].moved = t.moved
        /\ [t EXCEPT !.at = stage].gains = t.gains
        /\ [t EXCEPT !.at = stage].dropped = t.dropped
    BY DEF Transactions
  <2>2. status[t.target] = "live" => FoldKnows(tx[p])
    BY <1>1, <1>2, <1>3 DEF RedeemKnows, Early
  <2>3. QED
    BY <1>1, <1>3, <2>1, <2>2 DEF FoldKnows
<1>6. \A q \in Calls \ {p} : t.moved \cap tx[q].moved = {}
  BY <1>3 DEF Orderly, Separate
<1>7. ASSUME NEW q \in Calls \ {p}, t.target = tx[q].target
      PROVE  t.gains \cap tx[q].gains = {}
  <2>1. Separate(p, q) /\ TookCode(p)
    BY <1>1, <1>2 DEF Orderly, RedeemKnows
  <2>2. tx[p].target # None
    BY <2>1, AccountsNone DEF TookCode
  <2>3. QED
    BY <1>3, <1>7, <2>1, <2>2 DEF Separate
<1>8. tx[p].at \notin Early /\ tx[p].at # "commit" /\ t.gains \subseteq Cosmetics
      /\ stage \in Stages
  BY <1>1, <1>3 DEF Early, Transactions
<1>9. QED
  BY <1>1, <1>2, <1>3, <1>4, <1>5, <1>6, <1>7, <1>8, FoldingKeeps

-----------------------------------------------------------------------------
(* Beginning, and what happens to codes before anything else does.         *)

LEMMA BeginFaithful ==
  ASSUME Orderly, IInv, Unasked, NEW p \in Calls, Begin(p)
  PROVE  Faithful
<1>1. PICK request \in Requests : MayAsk(request) /\ call' = [call EXCEPT ![p] = request]
  BY DEF Begin, Ask
<1>2. /\ call[p] = NoCall /\ answer[p] = None
      /\ UNCHANGED <<status, owner, bought, worn, codes, expired, answer, tables>>
  BY DEF Begin, Ask, tables, Unasked
<1>3. call'[p] = request /\ \A q \in Calls \ {p} : call'[q] = call[q]
  BY <1>1 DEF IInv, AccountsTypeOK
<1>4. PICK stage \in Stages, target \in Maybe(Accounts) :
        /\ stage = CASE request.op = "code" -> "sweep" [] request.op = "redeem" -> "code"
                     [] OTHER -> "lock"
        /\ target = IF request.op \in {"record", "buy", "code"} THEN request.user ELSE None
        /\ tx' = [tx EXCEPT ![p] = [Idle EXCEPT !.at = stage, !.target = target]]
  <2> DEFINE stage == CASE request.op = "code" -> "sweep" [] request.op = "redeem" -> "code"
                        [] OTHER -> "lock"
             target == IF request.op \in {"record", "buy", "code"} THEN request.user ELSE None
  <2>1. stage \in Stages
    BY DEF Stages
  <2>2. target \in Maybe(Accounts)
    BY CallShapes DEF Maybe
  <2>3. tx' = [tx EXCEPT ![p] = [Idle EXCEPT !.at = stage, !.target = target]]
    BY <1>3 DEF Begin
  <2>4. QED
    BY <2>1, <2>2, <2>3
<1>5. /\ tx' \in [Calls -> Transactions] /\ \A q \in Calls \ {p} : tx'[q] = tx[q]
      /\ tx'[p].at = stage /\ tx'[p].lock = None /\ tx'[p].code = None
      /\ tx'[p].source = None /\ tx'[p].target = target
      /\ tx'[p].moved = {} /\ tx'[p].dropped = {} /\ tx'[p].gains = {} /\ tx'[p].deleted = None
  <2>1. [Idle EXCEPT !.at = stage, !.target = target] \in Transactions
    BY <1>4 DEF Idle, Transactions, Maybe
  <2>2. QED
    BY <1>4, <2>1 DEF Orderly, Idle
<1>6. Knows(p)'
  <2>1. request.op \in {"record", "buy", "code"} => status[request.user] # "new"
    BY <1>1 DEF MayAsk
  <2>2. request.op \in {"resolve", "record", "buy", "equip", "code", "redeem"}
    BY DEF Requests, AskResolve, AskRecord, AskBuy, AskEquip, AskCode, AskRedeem
  <2>3. CASE request.op = "resolve"
    BY <1>2, <1>3, <1>4, <1>5, <2>3 DEF Knows, ResolveKnows, Plain
  <2>4. CASE request.op = "record"
    BY <1>2, <1>3, <1>4, <1>5, <2>1, <2>4 DEF Knows, RecordKnows, Plain, UserKnown
  <2>5. CASE request.op = "buy"
    BY <1>2, <1>3, <1>4, <1>5, <2>1, <2>5 DEF Knows, BuyKnows, Plain, UserKnown
  <2>6. CASE request.op = "equip"
    BY <1>2, <1>3, <1>4, <1>5, <2>6 DEF Knows, EquipKnows, Plain
  <2>7. CASE request.op = "code"
    BY <1>2, <1>3, <1>4, <1>5, <2>1, <2>7 DEF Knows, CodeKnows, Plain, UserKnown
  <2>8. CASE request.op = "redeem"
    BY <1>2, <1>3, <1>4, <1>5, <2>8 DEF Knows, RedeemKnows, Early
  <2>9. QED
    BY <2>2, <2>3, <2>4, <2>5, <2>6, <2>7, <2>8
<1>7. ASSUME NEW q \in Calls \ {p} PROVE Knows(q)' /\ Separate(p, q)'
  <2>1. Knows(q)'
    BY <1>2, <1>3, <1>5, Undisturbed DEF Orderly
  <2>2. target # None => status[target] # "new"
    BY <1>1, <1>4 DEF MayAsk
  <2>3. QED
    BY <1>2, <1>5, <2>1, <2>2 DEF Separate
<1>8. Orderly'
  BY <1>2, <1>5, <1>6, <1>7, OneChanged
<1>9. RepositoryNext
  BY DEF Begin, RepositoryNext, RepositoryStep
<1>10. QED
  BY <1>8, <1>9 DEF Faithful

(* A code that a redeem took, and that is not expired, is still its own. *)
LEMMA CodesChange ==
  ASSUME IInv, NEW q \in Calls, Knows(q), UNCHANGED <<status, owner, bought, worn>>,
         call'[q] = call[q], answer'[q] = answer[q], tx'[q] = tx[q],
         tx[q].code # None /\ tx[q].code \notin expired =>
           /\ tx[q].code \notin expired'
           /\ codes[tx[q].code] # None => codes'[tx[q].code] = codes[tx[q].code]
  PROVE  Knows(q)'
<1>1. /\ \A a : RunsOf(a)' = RunsOf(a) /\ KeysOf(a)' = KeysOf(a) /\ Items(a)' = Items(a)
      /\ \A a : Balance(a)' = Balance(a)
      /\ \A a, c : Owns(a, c)' = Owns(a, c)
  BY DEF RunsOf, KeysOf, Items, Balance, Owns
<1>2. FoldKnows(tx[q])' <=> FoldKnows(tx[q])
  BY <1>1 DEF FoldKnows
<1>3. call[q].op = "redeem" /\ RedeemKnows(q) /\ tx[q].at # "code" => TookCode(q)'
  <2>1. call[q].op = "redeem" => call[q].code # None
    BY CallShapes, AccountsNone DEF IInv, AccountsTypeOK
  <2>2. QED
    BY <2>1, AccountsNone DEF RedeemKnows, TookCode
<1>4. call[q].op = "redeem" /\ RedeemKnows(q) => RedeemKnows(q)'
  BY <1>1, <1>2, <1>3 DEF RedeemKnows
<1>5. QED
  BY <1>1, <1>4 DEF Knows, Plain, ResolveKnows, UserKnown, RecordKnows, BuyKnows, EquipKnows,
     CodeKnows

LEMMA SweepCodesFaithful ==
  ASSUME Orderly, IInv, NEW p \in Calls, SweepCodes(p)
  PROVE  Faithful
<1>1. tx[p] \in Transactions /\ Knows(p) /\ tx[p].at = "sweep"
  BY TxShape DEF Orderly, SweepCodes, Ready, At
<1>2. Open(p, "code") /\ CodeKnows(p)
  BY <1>1, WhoIsAt
<1>3. /\ codes' = [x \in Codes |-> IF x \in expired THEN None ELSE codes[x]] /\ expired' = {}
      /\ tx' = [tx EXCEPT ![p].at = "issue"]
      /\ UNCHANGED <<status, owner, bought, worn, call, answer>>
  BY DEF SweepCodes
<1>4. /\ tx' \in [Calls -> Transactions] /\ \A q \in Calls \ {p} : tx'[q] = tx[q]
      /\ tx'[p].at = "issue" /\ tx'[p].lock = tx[p].lock /\ tx'[p].code = tx[p].code
      /\ tx'[p].source = tx[p].source /\ tx'[p].target = tx[p].target
      /\ tx'[p].moved = tx[p].moved /\ tx'[p].dropped = tx[p].dropped
      /\ tx'[p].gains = tx[p].gains /\ tx'[p].deleted = tx[p].deleted
  <2>1. [tx[p] EXCEPT !.at = "issue"] \in Transactions
    BY <1>1 DEF Transactions, Stages
  <2>2. tx' = [tx EXCEPT ![p] = [tx[p] EXCEPT !.at = "issue"]]
    BY <1>3
  <2>3. QED
    BY <1>1, <2>1, <2>2 DEF Orderly, Transactions
<1>5. ASSUME NEW q \in Calls \ {p} PROVE Knows(q)'
  <2>1. tx[q].code \in Maybe(Codes)
    BY TxShape DEF Orderly
  <2>2. QED
    BY <1>3, <1>4, <2>1, CodesChange DEF Orderly, Maybe
<1>6. Knows(p)'
  BY <1>1, <1>2, <1>3, <1>4 DEF Knows, Open, CodeKnows, UserKnown, Plain
<1>7. Orderly'
  BY <1>3, <1>4, <1>5, <1>6, OneChanged DEF Less
<1>8. RepositoryNext
  BY <1>3 DEF RepositoryNext, Sweep
<1>9. QED
  BY <1>7, <1>8 DEF Faithful

LEMMA IssueFaithful ==
  ASSUME Orderly, IInv, NEW p \in Calls, Issue(p)
  PROVE  Faithful
<1>1. tx[p] \in Transactions /\ Knows(p) /\ tx[p].at = "issue"
  BY TxShape DEF Orderly, Issue, Ready, At
<1>2. Open(p, "code") /\ CodeKnows(p)
  BY <1>1, WhoIsAt
<1>3. CASE Roll(p)
  BY <1>1, <1>3, RollKeeps
<1>4. CASE ~Roll(p)
  <2>1. PICK x \in Codes : codes[x] = None /\ codes' = [codes EXCEPT ![x] = call[p].user]
    BY <1>4 DEF Issue
  <2>2. /\ ~Refused(p) /\ tx' = [tx EXCEPT ![p] = Idle] /\ Answer(p, "ok")
        /\ UNCHANGED <<status, owner, bought, worn, expired>>
    BY <1>4 DEF Issue
  <2>3. /\ tx' \in [Calls -> Transactions] /\ \A q \in Calls \ {p} : tx'[q] = tx[q]
        /\ tx'[p] = Idle /\ UNCHANGED call
        /\ \A q \in Calls \ {p} : answer'[q] = answer[q]
    BY <2>2, IdleOK DEF Orderly, Answer, IInv, AccountsTypeOK
  <2>4. ASSUME NEW q \in Calls \ {p} PROVE Knows(q)'
    <3>1. \A y \in Codes : codes[y] # None => codes'[y] = codes[y]
      BY <2>1 DEF IInv, AccountsTypeOK
    <3>2. tx[q].code \in Maybe(Codes)
      BY TxShape DEF Orderly
    <3>3. QED
      BY <2>2, <2>3, <3>1, <3>2, CodesChange DEF Orderly, Maybe
  <2>5. Knows(p)'
    BY <2>3 DEF Knows
  <2>6. Orderly'
    BY <2>2, <2>3, <2>4, <2>5, OneChanged, IdleLess, TxShape DEF Orderly
  <2>7. status[call[p].user] = "live"
    BY <1>1, <1>2, <2>2 DEF Refused, Refers, At, CodeKnows, UserKnown
  <2>8. CreateLinkCode(p)
    BY <1>2, <2>1, <2>2, <2>7 DEF CreateLinkCode
  <2>9. QED
    BY <2>6, <2>8 DEF Faithful, RepositoryNext, RepositoryStep
<1>5. QED
  BY <1>3, <1>4

LEMMA TakeCodeFaithful ==
  ASSUME Orderly, IInv, NEW p \in Calls, TakeCode(p)
  PROVE  Faithful
<1> DEFINE x == call[p].code
<1>1. tx[p] \in Transactions /\ Knows(p) /\ tx[p].at = "code" /\ "source" \in Stages
  BY TxShape DEF Orderly, TakeCode, Ready, At, Stages
<1>2. Open(p, "redeem") /\ RedeemKnows(p)
  BY <1>1, WhoIsAt
<1>3. /\ x \in Codes /\ x # None /\ codes[x] \in Maybe(Accounts)
      /\ codes[x] # None => status[codes[x]] = "live"
  BY <1>2, CallShapes, AccountsNone DEF Open, IInv, AccountsTypeOK, Consistent
<1>4. CASE codes[x] = None /\ Return(p, "unknown_code")
  <2>1. RedeemLinkCode(p)
    BY <1>2, <1>4 DEF RedeemLinkCode, Return, Refuse
  <2>2. QED
    BY <1>2, <1>4, <2>1, ReturnKeeps DEF RepositoryStep, Open
<1>5. CASE /\ x \in expired
           /\ codes' = [codes EXCEPT ![x] = None] /\ expired' = expired \ {x}
           /\ tx' = [tx EXCEPT ![p] = Idle]
           /\ Answer(p, "expired_code")
           /\ UNCHANGED <<status, owner, bought, worn>>
  <2>1. /\ tx' \in [Calls -> Transactions] /\ \A q \in Calls \ {p} : tx'[q] = tx[q]
        /\ tx'[p] = Idle /\ UNCHANGED call
        /\ \A q \in Calls \ {p} : answer'[q] = answer[q]
    BY <1>5, IdleOK DEF Orderly, Answer, IInv, AccountsTypeOK
  <2>2. \A y \in Codes : codes'[y] = IF y = x THEN None ELSE codes[y]
    BY <1>5 DEF IInv, AccountsTypeOK
  <2>3. ASSUME NEW q \in Calls \ {p} PROVE Knows(q)'
    <3>1. tx[q].code \in Maybe(Codes)
      BY TxShape DEF Orderly
    <3>2. QED
      BY <1>5, <2>1, <2>2, <3>1, CodesChange DEF Orderly, Maybe
  <2>4. Knows(p)'
    BY <2>1 DEF Knows
  <2>5. Orderly'
    BY <1>5, <2>1, <2>3, <2>4, OneChanged, IdleLess, TxShape DEF Orderly
  <2>6. Spend(x, None)
    <3>1. codes' = [y \in Codes |-> IF y = x \/ codes[y] = None THEN None ELSE codes[y]]
      BY <1>5 DEF IInv, AccountsTypeOK
    <3>2. expired' = {y \in expired : codes'[y] # None}
      BY <1>5, <2>2 DEF IInv, AccountsTypeOK
    <3>3. QED
      BY <3>1, <3>2 DEF Spend
  <2>7. RedeemLinkCode(p)
    BY <1>2, <1>5, <2>6 DEF RedeemLinkCode
  <2>8. QED
    BY <2>5, <2>7 DEF Faithful, RepositoryNext, RepositoryStep
<1>6. CASE /\ codes[x] # None /\ x \notin expired
           /\ Does(p, "source", [tx[p] EXCEPT !.code = x, !.target = codes[x]])
  <2>1. PICK t \in Transactions :
          /\ Does(p, "source", t)
          /\ t.lock = tx[p].lock /\ t.code = x
          /\ t.source = tx[p].source /\ t.target = codes[x]
          /\ t.moved = tx[p].moved /\ t.dropped = tx[p].dropped
          /\ t.gains = tx[p].gains /\ t.deleted = tx[p].deleted
    <3> DEFINE t == [tx[p] EXCEPT !.code = x, !.target = codes[x]]
    <3>1. /\ t \in Transactions
          /\ t.lock = tx[p].lock /\ t.code = x
          /\ t.source = tx[p].source /\ t.target = codes[x]
          /\ t.moved = tx[p].moved /\ t.dropped = tx[p].dropped
          /\ t.gains = tx[p].gains /\ t.deleted = tx[p].deleted
      BY <1>1, <1>3 DEF Transactions, Maybe
    <3>2. QED
      BY <1>6, <3>1
  <2>2. /\ tx'[p].at = "source" /\ tx'[p].lock = t.lock /\ tx'[p].code = t.code
        /\ tx'[p].source = t.source /\ tx'[p].target = t.target /\ tx'[p].moved = t.moved
        /\ tx'[p].dropped = t.dropped /\ tx'[p].gains = t.gains /\ tx'[p].deleted = t.deleted
        /\ \A q \in Calls \ {p} : tx'[q] = tx[q]
        /\ UNCHANGED <<status, owner, bought, worn, codes, expired, call, answer>>
    BY <1>1, <2>1, DoesTx DEF Orderly
  <2>3. Knows(p)'
    <3>1. TookCode(p)'
      BY <1>3, <1>6, <2>1, <2>2 DEF TookCode, Maybe
    <3>2. RedeemKnows(p)'
      BY <1>1, <1>2, <2>1, <2>2, <3>1 DEF RedeemKnows, Early
    <3>3. tx'[p].moved = {}
      BY <1>1, <1>2, <2>1, <2>2 DEF RedeemKnows, Early
    <3>4. QED
      BY <1>2, <2>2, <3>2, <3>3 DEF Knows, Open
  <2>4. ASSUME NEW q \in Calls \ {p} PROVE Separate(p, q)'
    <3>1. x # tx[q].code
      BY <1>1, <1>3 DEF TakeCode, Ready, Waits, At, Taken
    <3>2. tx[p].gains = {} /\ Separate(p, q)
      BY <1>1, <1>2 DEF RedeemKnows, Early, Orderly
    <3>3. QED
      BY <1>3, <1>6, <2>1, <2>2, <3>1, <3>2 DEF Separate
  <2>5. QED
    BY <1>1, <2>1, <2>3, <2>4, DoesKeeps
<1>7. QED
  BY <1>4, <1>5, <1>6 DEF TakeCode

LEMMA LapseFaithful ==
  ASSUME Orderly, IInv, NEW x \in Codes, Lapse(x)
  PROVE  Faithful
<1>1. /\ codes[x] # None /\ \A q \in Calls : x \notin Taken(q)
      /\ expired' = expired \cup {x}
      /\ UNCHANGED <<status, owner, bought, worn, codes, call, answer, tx>>
  BY DEF Lapse
<1>2. ASSUME NEW q \in Calls PROVE Knows(q)'
  <2>1. tx[q].code # None => tx[q].code # x
    BY <1>1 DEF Taken
  <2>2. QED
    BY <1>1, <2>1, CodesChange DEF Orderly
<1>3. \A p, q \in Calls : p # q => Separate(p, q)'
  BY <1>1 DEF Orderly, Separate
<1>4. Orderly'
  BY <1>1, <1>2, <1>3 DEF Orderly
<1>5. Expire(x)
  BY <1>1 DEF Expire
<1>6. QED
  BY <1>4, <1>5 DEF Faithful, RepositoryNext

-----------------------------------------------------------------------------
(* Committing: what the others know stays true.                            *)

(* What a transaction that commits has done. *)
LEMMA Committing ==
  ASSUME Orderly, IInv, NEW p \in Calls, tx[p].at = "commit"
  PROVE  /\ answer[p] = None
         /\ \/ call[p].op = "resolve" /\ ResolveKnows(p)
            \/ call[p].op = "record" /\ RecordKnows(p)
            \/ call[p].op = "buy" /\ BuyKnows(p)
            \/ call[p].op = "equip" /\ EquipKnows(p)
            \/ call[p].op = "redeem" /\ RedeemKnows(p)
         /\ \A row \in tx[p].moved : owner[row] = tx[p].source
         /\ tx[p].deleted # None =>
              /\ call[p].op = "redeem"
              /\ tx[p].deleted = tx[p].source /\ tx[p].lock = tx[p].source
              /\ status[tx[p].deleted] = "live" /\ tx[p].deleted # tx[p].target
         /\ tx[p].source # None /\ (tx[p].moved # {} \/ tx[p].gains # {}) =>
              tx[p].deleted = tx[p].source
         /\ tx[p].gains # {} =>
              \/ call[p].op = "buy" /\ tx[p].lock = tx[p].target
              \/ call[p].op = "redeem" /\ tx[p].deleted # None
         /\ tx[p].moved # {} /\ call[p].op = "record" => tx[p].lock = tx[p].target
<1>1. Knows(p) /\ tx[p] # Idle /\ tx[p].at \notin Early
  BY DEF Orderly, Idle, Early
<1>2. ~CodeKnows(p)
  BY DEF CodeKnows
<1>3. /\ answer[p] = None
      /\ \/ call[p].op = "resolve" /\ ResolveKnows(p)
         \/ call[p].op = "record" /\ RecordKnows(p)
         \/ call[p].op = "buy" /\ BuyKnows(p)
         \/ call[p].op = "equip" /\ EquipKnows(p)
         \/ call[p].op = "redeem" /\ RedeemKnows(p)
      /\ \A row \in tx[p].moved : owner[row] = tx[p].source
  BY <1>1, <1>2 DEF Knows
<1>4. CASE call[p].op = "resolve" /\ ResolveKnows(p)
  BY <1>3, <1>4 DEF ResolveKnows, Plain
<1>5. CASE call[p].op = "record" /\ RecordKnows(p)
  BY <1>3, <1>5 DEF RecordKnows, Plain, UserKnown
<1>6. CASE call[p].op = "buy" /\ BuyKnows(p)
  <2>1. Plain(tx[p]) /\ tx[p].moved = {} /\ tx[p].lock = tx[p].target
    BY <1>6 DEF BuyKnows, UserKnown
  <2>2. QED
    BY <1>3, <1>6, <2>1 DEF Plain
<1>7. CASE call[p].op = "equip" /\ EquipKnows(p)
  BY <1>3, <1>7 DEF EquipKnows, Plain
<1>8. CASE call[p].op = "redeem" /\ RedeemKnows(p)
  <2>1. tx[p].deleted = IF tx[p].source # tx[p].target THEN tx[p].source ELSE None
    BY <1>8 DEF RedeemKnows
  <2>2. tx[p].source # None => status[tx[p].source] = "live"
    BY <1>8 DEF RedeemKnows
  <2>3. tx[p].lock = tx[p].source
    BY <1>1, <1>8 DEF RedeemKnows
  <2>4. tx[p].source = None => tx[p].gains = {}
    BY <1>8 DEF RedeemKnows
  <2>5. tx[p].source = tx[p].target => tx[p].moved = {} /\ tx[p].gains = {}
    BY <1>8 DEF RedeemKnows
  <2>6. QED
    BY <1>3, <1>8, <2>1, <2>2, <2>3, <2>4, <2>5
<1>9. QED
  BY <1>3, <1>4, <1>5, <1>6, <1>7, <1>8

LEMMA CommitEffect ==
  ASSUME Orderly, IInv, NEW p \in Calls, Commit(p)
  PROVE  /\ \A a \in Accounts : status'[a] =
              IF a = tx[p].deleted THEN "gone"
              ELSE IF a = tx[p].target /\ status[a] = "new" THEN "live" ELSE status[a]
         /\ \A row \in Rows : owner'[row] =
              IF row \in tx[p].moved THEN tx[p].target
              ELSE IF owner[row] = tx[p].deleted THEN None ELSE owner[row]
         /\ bought' = {b \in bought : b[1] # tx[p].deleted} \cup ({tx[p].target} \X tx[p].gains)
         /\ \A x \in Codes : codes'[x] =
              IF x = tx[p].code \/ codes[x] = tx[p].deleted THEN None ELSE codes[x]
         /\ expired' \subseteq expired
         /\ tx' \in [Calls -> Transactions] /\ tx'[p] = Idle
         /\ \A q \in Calls \ {p} : tx'[q] = tx[q] /\ answer'[q] = answer[q]
         /\ call' = call
         /\ answer'[p] = IF call[p].op \in {"resolve", "redeem"} THEN tx[p].target ELSE "ok"
         /\ tx[p].at = "commit"
<1>1. tx' = [tx EXCEPT ![p] = Idle] /\ tx[p].at = "commit"
      /\ Answer(p, IF call[p].op \in {"resolve", "redeem"} THEN tx[p].target ELSE "ok")
  BY DEF Commit, Ready, At
<1>2. /\ tx' \in [Calls -> Transactions] /\ tx'[p] = Idle
      /\ \A q \in Calls \ {p} : tx'[q] = tx[q] /\ answer'[q] = answer[q]
      /\ call' = call
      /\ answer'[p] = IF call[p].op \in {"resolve", "redeem"} THEN tx[p].target ELSE "ok"
  BY <1>1, IdleOK DEF Orderly, Answer, IInv, AccountsTypeOK
<1>3. /\ status' = [a \in Accounts |->
                      CASE a = tx[p].deleted -> "gone"
                        [] a = tx[p].target /\ status[a] = "new" -> "live"
                        [] OTHER -> status[a]]
      /\ owner' = [row \in Rows |->
                     CASE row \in tx[p].moved -> tx[p].target
                       [] row \notin tx[p].moved /\ owner[row] = tx[p].deleted -> None
                       [] OTHER -> owner[row]]
      /\ bought' = {b \in bought : b[1] # tx[p].deleted} \cup ({tx[p].target} \X tx[p].gains)
      /\ codes' = [x \in Codes |->
                     IF x = tx[p].code \/ codes[x] = tx[p].deleted THEN None ELSE codes[x]]
      /\ expired' = {x \in expired : codes'[x] # None}
  BY DEF Commit
<1>4. tx[p].deleted # tx[p].target \/ tx[p].deleted \notin Accounts
  BY <1>1, Committing, AccountsNone
<1>5. ASSUME NEW a \in Accounts
      PROVE  status'[a] = IF a = tx[p].deleted THEN "gone"
                          ELSE IF a = tx[p].target /\ status[a] = "new" THEN "live" ELSE status[a]
  <2>1. CASE a = tx[p].deleted
    BY <1>3, <1>4, <2>1
  <2>2. CASE a # tx[p].deleted
    BY <1>3, <2>2
  <2>3. QED
    BY <2>1, <2>2
<1>6. ASSUME NEW row \in Rows
      PROVE  owner'[row] = IF row \in tx[p].moved THEN tx[p].target
                           ELSE IF owner[row] = tx[p].deleted THEN None ELSE owner[row]
  BY <1>3
<1>7. ASSUME NEW x \in Codes
      PROVE  codes'[x] = IF x = tx[p].code \/ codes[x] = tx[p].deleted THEN None ELSE codes[x]
  BY <1>3
<1>8. expired' \subseteq expired
  BY <1>3
<1>9. QED
  BY <1>1, <1>2, <1>3, <1>5, <1>6, <1>7, <1>8

(* Only the account that p deletes loses anything, only the one it writes to *)
(* gains, and no row that another transaction moves is touched.             *)
LEMMA CommitFrame ==
  ASSUME Orderly, IInv, Apart, NEW p \in Calls, Commit(p), NEW q \in Calls \ {p}
  PROVE  /\ \A a \in Accounts : status[a] # "new" =>
              status'[a] = IF a = tx[p].deleted THEN "gone" ELSE status[a]
         /\ \A row \in tx[q].moved : owner'[row] = owner[row]
         /\ tx[q].lock # None => tx[q].lock # tx[p].deleted
         /\ tx[q].source # None => tx[q].source # tx[p].deleted
         /\ \A a \in Accounts \ {tx[p].deleted} :
              /\ RunsOf(a) \subseteq RunsOf(a)' /\ Items(a) \subseteq Items(a)'
              /\ RunsOf(a)' \subseteq Runs /\ Items(a)' \subseteq Cosmetics
              /\ a # tx[p].target \/ tx[p].moved = {} =>
                   RunsOf(a)' = RunsOf(a) /\ KeysOf(a)' = KeysOf(a)
              /\ a # tx[p].target \/ tx[p].gains = {} => Items(a)' = Items(a)
         /\ \A x \in Codes : x # tx[p].code /\ codes[x] # tx[p].deleted => codes'[x] = codes[x]
         /\ expired' \subseteq expired
<1>1. /\ \A a \in Accounts : status'[a] =
              IF a = tx[p].deleted THEN "gone"
              ELSE IF a = tx[p].target /\ status[a] = "new" THEN "live" ELSE status[a]
      /\ \A row \in Rows : owner'[row] =
              IF row \in tx[p].moved THEN tx[p].target
              ELSE IF owner[row] = tx[p].deleted THEN None ELSE owner[row]
      /\ bought' = {b \in bought : b[1] # tx[p].deleted} \cup ({tx[p].target} \X tx[p].gains)
      /\ \A x \in Codes : codes'[x] =
              IF x = tx[p].code \/ codes[x] = tx[p].deleted THEN None ELSE codes[x]
      /\ expired' \subseteq expired
      /\ tx[p].at = "commit"
  BY CommitEffect
<1>2. /\ \A row \in tx[p].moved : owner[row] = tx[p].source
      /\ tx[p].deleted # None => tx[p].deleted = tx[p].source /\ tx[p].lock = tx[p].source
      /\ tx[p].source # None /\ tx[p].moved # {} => tx[p].deleted = tx[p].source
  BY <1>1, Committing
<1>3. /\ tx[p].target \in Maybe(Accounts) /\ tx[p].moved \subseteq Rows
      /\ tx[p].gains \subseteq Cosmetics
      /\ tx[q].moved \subseteq Rows
  BY TxShape DEF Orderly
<1>4. Separate(p, q) /\ Separate(q, p)
  BY DEF Orderly
<1>5. tx[q].lock # None => tx[q].lock # tx[p].deleted
  BY <1>2, <1>4 DEF Separate
<1>6. tx[q].source # None => tx[q].source # tx[p].deleted
  BY <1>2, SourcesApart
<1>7. ASSUME NEW row \in tx[q].moved PROVE owner'[row] = owner[row]
  <2>1. row \in Rows /\ row \notin tx[p].moved
    BY <1>3, <1>4 DEF Separate
  <2>2. owner[row] = tx[q].source
    BY WhoIsAt DEF Orderly
  <2>3. owner[row] = tx[p].deleted => owner[row] = None
    BY <1>6, <2>2
  <2>4. QED
    BY <1>1, <2>1, <2>3
<1>8. ASSUME NEW a \in Accounts \ {tx[p].deleted}
      PROVE  /\ RunsOf(a) \subseteq RunsOf(a)' /\ Items(a) \subseteq Items(a)'
             /\ RunsOf(a)' \subseteq Runs /\ Items(a)' \subseteq Cosmetics
             /\ a # tx[p].target \/ tx[p].moved = {} =>
                  RunsOf(a)' = RunsOf(a) /\ KeysOf(a)' = KeysOf(a)
             /\ a # tx[p].target \/ tx[p].gains = {} => Items(a)' = Items(a)
  <2>1. a # None
    BY AccountsNone
  <2>2. ASSUME NEW row \in Rows
        PROVE  /\ owner[row] = a => owner'[row] = a
               /\ a # tx[p].target \/ tx[p].moved = {} => (owner'[row] = a <=> owner[row] = a)
    <3>1. row \in tx[p].moved => owner[row] # a
      BY <1>2, <2>1
    <3>2. QED
      BY <1>1, <2>1, <3>1
  <2>3. RunsOf(a) \subseteq RunsOf(a)' /\ RunsOf(a)' \subseteq Runs
    BY <2>2 DEF RunsOf, Rows
  <2>4. a # tx[p].target \/ tx[p].moved = {} => RunsOf(a)' = RunsOf(a) /\ KeysOf(a)' = KeysOf(a)
    BY <2>2 DEF RunsOf, KeysOf, Rows
  <2>5. \A c : <<a, c>> \in bought' <=>
                 <<a, c>> \in bought \/ (a = tx[p].target /\ c \in tx[p].gains)
    BY <1>1
  <2>6. Items(a) \subseteq Items(a)' /\ Items(a)' \subseteq Cosmetics
    BY <2>5 DEF Items
  <2>7. a # tx[p].target \/ tx[p].gains = {} => Items(a)' = Items(a)
    BY <2>5 DEF Items
  <2>8. QED
    BY <2>3, <2>4, <2>6, <2>7
<1>9. \A a \in Accounts : status[a] # "new" =>
        status'[a] = IF a = tx[p].deleted THEN "gone" ELSE status[a]
  BY <1>1
<1>10. \A x \in Codes : x # tx[p].code /\ codes[x] # tx[p].deleted => codes'[x] = codes[x]
  BY <1>1
<1>11. QED
  BY <1>1, <1>5, <1>6, <1>7, <1>8, <1>9, <1>10

(* Whoever else commits, what is known to find an account or to give one its *)
(* first key stays known.                                                   *)
LEMMA ResolveStays ==
  ASSUME Orderly, IInv, Apart, NEW p \in Calls, Commit(p), NEW q \in Calls \ {p},
         Open(q, "resolve"), ResolveKnows(q)
  PROVE  ResolveKnows(q)'
<1>1. call' = call /\ tx'[q] = tx[q] /\ tx[p].at = "commit"
  BY CommitEffect
<1>2. /\ \A a \in Accounts : status'[a] =
              IF a = tx[p].deleted THEN "gone"
              ELSE IF a = tx[p].target /\ status[a] = "new" THEN "live" ELSE status[a]
      /\ \A row \in Rows : owner'[row] =
              IF row \in tx[p].moved THEN tx[p].target
              ELSE IF owner[row] = tx[p].deleted THEN None ELSE owner[row]
  BY CommitEffect
<1>3. call[q].key \in Rows
  BY CallShapes DEF Open, IInv, AccountsTypeOK, Rows
<1>4. CASE tx[q].at = "touch"
  <2>1. tx[q].target \in Accounts /\ status[tx[q].target] # "new"
        /\ (status[tx[q].target] = "live" => owner[call[q].key] = tx[q].target)
    BY <1>4 DEF ResolveKnows
  <2>2. status'[tx[q].target] # "new"
    BY <1>2, <2>1
  <2>3. ASSUME status'[tx[q].target] = "live" PROVE owner'[call[q].key] = tx[q].target
    <3>1. status[tx[q].target] = "live" /\ tx[q].target # tx[p].deleted /\ tx[q].target # None
      BY <1>2, <2>1, <2>3, AccountsNone
    <3>2. owner[call[q].key] = tx[q].target
      BY <2>1, <3>1
    <3>3. call[q].key \notin tx[p].moved
      <4>1. call[q].key \in tx[p].moved => tx[p].source = tx[q].target
        BY <1>1, <3>2, Committing
      <4>2. QED
        BY <1>1, <3>1, <4>1, Committing
    <3>4. QED
      BY <1>2, <1>3, <3>1, <3>2, <3>3
  <2>4. QED
    BY <1>1, <1>4, <2>1, <2>2, <2>3 DEF ResolveKnows, Plain
<1>5. CASE tx[q].at = "commit"
  <2>1. tx[q].target \in Accounts /\ status[tx[q].target] = "new"
    BY <1>5 DEF ResolveKnows
  <2>2. tx[q].target # tx[p].target
    BY <2>1, AccountsNone DEF Orderly, Separate
  <2>3. tx[q].target # tx[p].deleted
    BY <1>1, <2>1, Committing, AccountsNone
  <2>4. status'[tx[q].target] = "new"
    BY <1>2, <2>1, <2>2, <2>3
  <2>5. QED
    BY <1>1, <1>5, <2>1, <2>4 DEF ResolveKnows, Plain
<1>6. CASE tx[q].at \notin {"touch", "commit"}
  BY <1>1, <1>6 DEF ResolveKnows, Plain
<1>7. QED
  BY <1>4, <1>5, <1>6

(* What stands for those who write to an account of their caller. *)
LEMMA UserStays ==
  ASSUME Orderly, IInv, Apart, NEW p \in Calls, Commit(p), NEW q \in Calls \ {p},
         call[q].user \in Accounts, UserKnown(q)
  PROVE  UserKnown(q)'
<1>1. call' = call /\ tx'[q] = tx[q]
  BY CommitEffect
<1>2. \A a \in Accounts : status[a] # "new" =>
        status'[a] = IF a = tx[p].deleted THEN "gone" ELSE status[a]
  BY CommitFrame
<1>3. QED
  BY <1>1, <1>2 DEF UserKnown

LEMMA RecordStays ==
  ASSUME Orderly, IInv, Apart, NEW p \in Calls, Commit(p), NEW q \in Calls \ {p},
         Open(q, "record"), RecordKnows(q)
  PROVE  RecordKnows(q)'
<1>1. call' = call /\ tx'[q] = tx[q]
  BY CommitEffect
<1>2. call[q].user \in Accounts
  BY CallShapes DEF Open, IInv, AccountsTypeOK
<1>3. UserKnown(q)'
  BY <1>2, UserStays DEF RecordKnows
<1>4. tx[q].at = "commit" => status'[call[q].user] = "live"
  <2>1. /\ \A a \in Accounts : status[a] # "new" =>
              status'[a] = IF a = tx[p].deleted THEN "gone" ELSE status[a]
        /\ tx[q].lock # None => tx[q].lock # tx[p].deleted
    BY CommitFrame
  <2>2. tx[q].at = "commit" => status[call[q].user] = "live" /\ tx[q].lock = call[q].user
    BY DEF RecordKnows
  <2>3. QED
    BY <1>2, <2>1, <2>2, AccountsNone
<1>5. QED
  BY <1>1, <1>3, <1>4 DEF RecordKnows, Plain

LEMMA EquipStays ==
  ASSUME Orderly, IInv, Apart, NEW p \in Calls, Commit(p), NEW q \in Calls \ {p},
         Open(q, "equip"), EquipKnows(q)
  PROVE  EquipKnows(q)'
<1>1. call' = call /\ tx'[q] = tx[q]
  BY CommitEffect
<1>2. PICK user \in Accounts, item \in Maybe(Cosmetics) :
        user = call[q].user /\ item = call[q].item
  BY CallShapes DEF Open, IInv, AccountsTypeOK
<1>3. ASSUME tx[q].at = "commit", item # None PROVE Owns(user, item)'
  <2>1. tx[q].lock = user /\ Owns(user, item)
    BY <1>2, <1>3 DEF EquipKnows
  <2>2. /\ tx[q].lock # None => tx[q].lock # tx[p].deleted
        /\ \A a \in Accounts \ {tx[p].deleted} : Items(a) \subseteq Items(a)'
    BY CommitFrame
  <2>3. Items(user) \subseteq Items(user)'
    BY <2>1, <2>2, AccountsNone
  <2>4. item \in Items(user)
    BY <1>2, <1>3, <2>1 DEF Items, Owns, Maybe
  <2>5. QED
    BY <2>3, <2>4 DEF Items, Owns
<1>4. QED
  BY <1>1, <1>2, <1>3 DEF EquipKnows, Plain

LEMMA CodeStays ==
  ASSUME Orderly, IInv, Apart, NEW p \in Calls, Commit(p), NEW q \in Calls \ {p},
         Open(q, "code"), CodeKnows(q)
  PROVE  CodeKnows(q)'
<1>1. call' = call /\ tx'[q] = tx[q]
  BY CommitEffect
<1>2. call[q].user \in Accounts
  BY CallShapes DEF Open, IInv, AccountsTypeOK
<1>3. UserKnown(q)'
  BY <1>2, UserStays DEF CodeKnows
<1>4. QED
  BY <1>1, <1>3 DEF CodeKnows, Plain

(* Who was found to have the money still has it: an account that is folded   *)
(* into the buyer's brings what it earned with what it bought.              *)
LEMMA BuyerStaysRich ==
  ASSUME Orderly, IInv, Apart, NEW p \in Calls, Commit(p), NEW q \in Calls \ {p},
         call[p].op = "redeem" => status[tx[p].target] = "live",
         NEW user \in Accounts, tx[q].lock = user, Balance(user) >= 1
  PROVE  Balance(user)' >= 1
<1>1. /\ user # None /\ user # tx[p].deleted
      /\ RunsOf(user) \subseteq RunsOf(user)' /\ RunsOf(user)' \subseteq Runs
      /\ Items(user)' \subseteq Cosmetics
      /\ user # tx[p].target \/ tx[p].gains = {} => Items(user)' = Items(user)
  BY CommitFrame, AccountsNone
<1>2. IsFiniteSet(RunsOf(user)') /\ Cardinality(RunsOf(user)') \in Nat
      /\ IsFiniteSet(Items(user)') /\ Cardinality(Items(user)') \in Nat
  BY <1>1, AccountsFinite, FS_Subset, FS_CardinalityType
<1>3. CASE user # tx[p].target \/ tx[p].gains = {}
  <2>1. Cardinality(RunsOf(user)) <= Cardinality(RunsOf(user)')
    BY <1>1, <1>2, FS_Subset
  <2>2. Items(user)' = Items(user)
    BY <1>1, <1>3
  <2>3. QED
    BY <1>2, <2>1, <2>2, BalanceCounts DEF Balance
<1>4. CASE user = tx[p].target /\ tx[p].gains # {}
  <2>1. tx[p].at = "commit"
    BY CommitEffect
  <2>2. tx[p].lock # user
    BY <1>1 DEF Orderly, Separate
  <2>3. call[p].op = "redeem" /\ tx[p].deleted # None /\ RedeemKnows(p)
    BY <1>4, <2>1, <2>2, Committing
  <2>4. PICK source \in Accounts : source = tx[p].source /\ source # None /\ source # user
    BY <1>4, <2>1, <2>3, Committing, TxShape DEF Orderly, Maybe
  <2>5. FoldKnows(tx[p])
    BY <1>4, <2>3, <2>4 DEF RedeemKnows
  <2>6. tx[p].moved = RunsOf(source) \cup KeysOf(source) /\ tx[p].gains \subseteq Items(source)
    BY <2>1, <2>4, <2>5 DEF FoldKnows
  <2>7. RunsOf(user)' = RunsOf(user) \cup RunsOf(source) /\ RunsOf(user) \cap RunsOf(source) = {}
    <3>1. \A row \in Rows : owner'[row] =
            IF row \in tx[p].moved THEN tx[p].target
            ELSE IF owner[row] = tx[p].deleted THEN None ELSE owner[row]
      BY CommitEffect
    <3>2. \A row \in Runs : row \in tx[p].moved <=> owner[row] = source
      BY <2>6, KeysApart DEF RunsOf, KeysOf
    <3>3. tx[p].deleted = source
      BY <2>1, <2>3, <2>4, Committing
    <3>4. \A row \in Runs : owner'[row] = user <=> owner[row] \in {user, source}
      BY <1>1, <1>4, <2>4, <3>1, <3>2, <3>3 DEF Rows
    <3>5. QED
      BY <2>4, <3>4 DEF RunsOf
  <2>8. Items(user)' = Items(user) \cup tx[p].gains
    <3>1. bought' = {b \in bought : b[1] # tx[p].deleted} \cup ({tx[p].target} \X tx[p].gains)
      BY CommitEffect
    <3>2. \A c : <<user, c>> \in bought' <=> <<user, c>> \in bought \/ c \in tx[p].gains
      BY <1>1, <1>4, <3>1
    <3>3. tx[p].gains \subseteq Cosmetics
      BY TxShape DEF Orderly
    <3>4. QED
      BY <3>2, <3>3 DEF Items
  <2>9. Cardinality(RunsOf(user)') = Cardinality(RunsOf(user)) + Cardinality(RunsOf(source))
    BY <2>7, BalanceCounts, UnionCounts
  <2>10. Cardinality(Items(user)') <= Cardinality(Items(user)) + Cardinality(Items(source))
    <3>1. Items(user)' \subseteq Items(user) \cup Items(source)
      BY <2>6, <2>8
    <3>2. IsFiniteSet(Items(user) \cup Items(source))
      BY BalanceCounts, FS_Union
    <3>3. Cardinality(Items(user)') <= Cardinality(Items(user) \cup Items(source))
          /\ Cardinality(Items(user) \cup Items(source)) \in Nat
      BY <3>1, <3>2, FS_Subset, FS_CardinalityType
    <3>4. Cardinality(Items(user) \cup Items(source))
            <= Cardinality(Items(user)) + Cardinality(Items(source))
      BY BalanceCounts, UnionCounts
    <3>5. QED
      BY <1>2, <3>3, <3>4, BalanceCounts
  <2>11. Balance(source) >= 0
    BY Tables DEF NoOverdraft
  <2>12. QED
    BY <1>2, <2>9, <2>10, <2>11, BalanceCounts DEF Balance
<1>5. QED
  BY <1>3, <1>4

LEMMA BuyStays ==
  ASSUME Orderly, IInv, Apart, NEW p \in Calls, Commit(p), NEW q \in Calls \ {p},
         call[p].op = "redeem" => status[tx[p].target] = "live",
         Open(q, "buy"), BuyKnows(q)
  PROVE  BuyKnows(q)'
<1>1. call' = call /\ tx'[q] = tx[q]
  BY CommitEffect
<1>2. PICK user \in Accounts, item \in Cosmetics : user = call[q].user /\ item = call[q].item
  BY CallShapes DEF Open, IInv, AccountsTypeOK
<1>3. UserKnown(q)'
  BY <1>2, UserStays DEF BuyKnows
<1>4. /\ tx[q].at # "lock" => tx[q].lock = user
      /\ tx[q].at \in {"purchase", "commit"} => Balance(user) >= 1
      /\ tx[q].at = "commit" => ~Owns(user, item)
      /\ tx[q].at = "commit" => tx[q].gains = {item} /\ tx[q].target = user
  BY <1>2 DEF BuyKnows, UserKnown
<1>5. tx[q].at \in {"purchase", "commit"} => Balance(user)' >= 1
  BY <1>4, BuyerStaysRich
<1>6. ASSUME tx[q].at = "commit" PROVE ~Owns(user, item)'
  <2>1. bought' = {b \in bought : b[1] # tx[p].deleted} \cup ({tx[p].target} \X tx[p].gains)
    BY CommitEffect
  <2>2. user = tx[p].target => item \notin tx[p].gains
    BY <1>4, <1>6, AccountsNone DEF Orderly, Separate
  <2>3. <<user, item>> \notin bought
    BY <1>4, <1>6 DEF Owns
  <2>4. <<user, item>> \notin bought'
    BY <2>1, <2>2, <2>3
  <2>5. QED
    BY <2>4 DEF Owns
<1>7. QED
  BY <1>1, <1>2, <1>3, <1>5, <1>6 DEF BuyKnows, Plain

(* A fold is not overtaken: whoever writes to the account it empties holds   *)
(* that account's lock, or folds the target the other way, and the target is *)
(* gone.                                                                    *)
LEMMA FoldStays ==
  ASSUME Orderly, IInv, Apart, NEW p \in Calls, Commit(p), NEW q \in Calls \ {p},
         Open(q, "redeem"), RedeemKnows(q), tx[q].source \notin {None, tx[q].target},
         status'[tx[q].target] = "live", status[tx[q].target] = "live", tx[q].at \notin Early,
         tx[q].target \in Accounts
  PROVE  FoldKnows(tx[q])'
<1>1. /\ call' = call /\ tx'[q] = tx[q] /\ tx[p].at = "commit"
      /\ tx[p].deleted \in Accounts => status'[tx[p].deleted] = "gone"
  BY CommitEffect
<1>2. FoldKnows(tx[q]) /\ tx[q].lock = tx[q].source /\ status[tx[q].source] = "live"
  BY DEF RedeemKnows
<1>3. PICK source \in Accounts, target \in Accounts : source = tx[q].source /\ target = tx[q].target
  BY TxShape DEF Orderly, Maybe
<1>4. source # None /\ target # None /\ source # tx[p].deleted /\ target # tx[p].deleted
  BY <1>1, <1>3, CommitFrame, AccountsNone
<1>5. source # tx[p].target \/ (tx[p].moved = {} /\ tx[p].gains = {})
  <2>1. SUFFICES ASSUME source = tx[p].target, tx[p].moved # {} \/ tx[p].gains # {} PROVE FALSE
    OBVIOUS
  <2>2. tx[p].lock # source
    BY <1>2, <1>3, <1>4 DEF Orderly, Separate
  <2>3. CASE call[p].op = "resolve" /\ ResolveKnows(p)
    BY <1>1, <1>2, <1>3, <2>1, <2>3 DEF ResolveKnows
  <2>4. CASE call[p].op \in {"record", "buy", "equip"}
    <3>1. ~RedeemKnows(p) \/ call[p].op # "redeem"
      BY <2>4
    <3>2. call[p].op = "equip" => tx[p].moved = {} /\ tx[p].gains = {}
      BY <1>1, Committing DEF EquipKnows
    <3>3. call[p].op = "buy" => tx[p].moved = {}
      BY <1>1, Committing DEF BuyKnows
    <3>4. call[p].op = "record" => tx[p].gains = {}
      BY <1>1, Committing DEF RecordKnows
    <3>5. QED
      BY <1>1, <2>1, <2>2, <2>4, <3>2, <3>3, <3>4, Committing
  <2>5. CASE call[p].op = "redeem" /\ RedeemKnows(p)
    <3>1. answer[p] = None
      BY <1>1, Committing
    <3>2. Redeeming(p) /\ Redeeming(q) /\ SourceOf(q) = source /\ TargetOf(p) = source
      BY <1>3, <1>4, <2>1, <2>5, <3>1 DEF Redeeming, Open, SourceOf, TargetOf
    <3>3. target = SourceOf(p)
      BY <1>3, <1>4, <3>2 DEF Apart, TargetOf
    <3>4. CASE tx[p].source = None
      <4>1. tx[p].moved = {call[p].key} /\ owner[call[p].key] = None
        BY <1>1, <2>5, <3>4, Committing DEF RedeemKnows
      <4>2. QED
        BY <1>4, <3>3, <3>4, <4>1 DEF SourceOf
    <3>5. CASE tx[p].source # None
      BY <1>1, <1>4, <2>1, <3>3, <3>5, Committing DEF SourceOf
    <3>6. QED
      BY <3>4, <3>5
  <2>6. QED
    BY <1>1, <2>3, <2>4, <2>5, Committing
<1>6. /\ RunsOf(source)' = RunsOf(source) /\ KeysOf(source)' = KeysOf(source)
      /\ Items(source)' = Items(source)
      /\ Items(target) \subseteq Items(target)'
  BY <1>4, <1>5, CommitFrame
<1>7. PICK t : t = tx[q]
  OBVIOUS
<1>8. FoldKnows(t)'
  BY <1>2, <1>3, <1>6, <1>7 DEF FoldKnows
<1>9. QED
  BY <1>1, <1>7, <1>8

LEMMA RedeemStays ==
  ASSUME Orderly, IInv, Apart, NEW p \in Calls, Commit(p), NEW q \in Calls \ {p},
         Open(q, "redeem"), RedeemKnows(q)
  PROVE  RedeemKnows(q)'
<1>1. /\ call' = call /\ tx'[q] = tx[q] /\ tx[p].at = "commit"
      /\ \A a \in Accounts : status'[a] =
              IF a = tx[p].deleted THEN "gone"
              ELSE IF a = tx[p].target /\ status[a] = "new" THEN "live" ELSE status[a]
      /\ \A row \in Rows : owner'[row] =
              IF row \in tx[p].moved THEN tx[p].target
              ELSE IF owner[row] = tx[p].deleted THEN None ELSE owner[row]
      /\ \A x \in Codes : codes'[x] =
              IF x = tx[p].code \/ codes[x] = tx[p].deleted THEN None ELSE codes[x]
      /\ expired' \subseteq expired
  BY CommitEffect
<1>2. call[q].code \in Codes /\ call[q].key \in Rows
  BY CallShapes DEF Open, IInv, AccountsTypeOK, Rows
<1>3. TookCode(q) => /\ tx[q].target \in Accounts
                     /\ status'[tx[q].target] = "live" =>
                          status[tx[q].target] = "live" /\ tx[q].target # tx[p].deleted
  BY <1>1 DEF TookCode
<1>4. TookCode(q) => TookCode(q)'
  <2>1. SUFFICES ASSUME TookCode(q) PROVE TookCode(q)'
    OBVIOUS
  <2>2. tx[q].code # tx[p].code
    BY <1>2, <2>1, AccountsNone DEF TookCode, Orderly, Separate
  <2>3. status'[tx[q].target] # "new"
    BY <1>1, <2>1 DEF TookCode
  <2>4. status'[tx[q].target] = "live" => codes'[tx[q].code] = tx[q].target
    BY <1>1, <1>2, <1>3, <2>1, <2>2 DEF TookCode
  <2>5. QED
    BY <1>1, <2>1, <2>3, <2>4 DEF TookCode
<1>5. tx[q].source # None =>
        owner'[call[q].key] = tx[q].source /\ status'[tx[q].source] = "live"
  <2>1. SUFFICES ASSUME tx[q].source # None
                 PROVE  owner'[call[q].key] = tx[q].source /\ status'[tx[q].source] = "live"
    OBVIOUS
  <2>2. /\ owner[call[q].key] = tx[q].source /\ status[tx[q].source] = "live"
        /\ tx[q].source \in Accounts
    BY <2>1, TxShape DEF RedeemKnows, Orderly, Maybe
  <2>3. tx[q].source # tx[p].deleted
    BY <2>1, CommitFrame
  <2>4. call[q].key \notin tx[p].moved
    BY <2>1, <2>2, SourcesApart
  <2>5. QED
    BY <1>1, <1>2, <2>2, <2>3, <2>4
<1>6. ASSUME tx[q].source \notin {None, tx[q].target}, status'[tx[q].target] = "live",
             TookCode(q)
      PROVE  FoldKnows(tx[q])'
  <2>1. CASE tx[q].at \in Early
    BY <1>1, <2>1 DEF FoldKnows, Early
  <2>2. CASE tx[q].at \notin Early
    BY <1>3, <1>6, <2>2, FoldStays
  <2>3. QED
    BY <2>1, <2>2
<1>7. tx[q].at = "code" => tx[q].source = None
  BY DEF RedeemKnows
<1>8. tx[q].at # "code" => TookCode(q)
  BY DEF RedeemKnows
<1>9. QED
  BY <1>1, <1>4, <1>5, <1>6, <1>7, <1>8 DEF RedeemKnows

LEMMA OthersStay ==
  ASSUME Orderly, IInv, Apart, NEW p \in Calls, Commit(p), NEW q \in Calls \ {p},
         call[p].op = "redeem" => status[tx[p].target] = "live"
  PROVE  Knows(q)'
<1>1. call' = call /\ tx'[q] = tx[q] /\ answer'[q] = answer[q]
  BY CommitEffect
<1>2. \A row \in tx[q].moved : owner'[row] = owner[row]
  BY CommitFrame
<1>3. Knows(q)
  BY DEF Orderly
<1>4. CASE tx[q] = Idle
  BY <1>1, <1>4 DEF Knows
<1>5. CASE tx[q] # Idle
  <2>1. /\ answer[q] = None /\ \A row \in tx[q].moved : owner[row] = tx[q].source
        /\ \/ Open(q, "resolve") /\ ResolveKnows(q)
           \/ Open(q, "record") /\ RecordKnows(q)
           \/ Open(q, "buy") /\ BuyKnows(q)
           \/ Open(q, "equip") /\ EquipKnows(q)
           \/ Open(q, "code") /\ CodeKnows(q)
           \/ Open(q, "redeem") /\ RedeemKnows(q)
    BY <1>3, <1>5 DEF Knows, Open
  <2>2. answer'[q] = None /\ \A row \in tx'[q].moved : owner'[row] = tx'[q].source
    BY <1>1, <1>2, <2>1
  <2>3. CASE Open(q, "resolve") /\ ResolveKnows(q)
    BY <1>1, <2>2, <2>3, ResolveStays DEF Knows, Open
  <2>4. CASE Open(q, "record") /\ RecordKnows(q)
    BY <1>1, <2>2, <2>4, RecordStays DEF Knows, Open
  <2>5. CASE Open(q, "buy") /\ BuyKnows(q)
    BY <1>1, <2>2, <2>5, BuyStays DEF Knows, Open
  <2>6. CASE Open(q, "equip") /\ EquipKnows(q)
    BY <1>1, <2>2, <2>6, EquipStays DEF Knows, Open
  <2>7. CASE Open(q, "code") /\ CodeKnows(q)
    BY <1>1, <2>2, <2>7, CodeStays DEF Knows, Open
  <2>8. CASE Open(q, "redeem") /\ RedeemKnows(q)
    BY <1>1, <2>2, <2>8, RedeemStays DEF Knows, Open
  <2>9. QED
    BY <2>1, <2>3, <2>4, <2>5, <2>6, <2>7, <2>8
<1>6. QED
  BY <1>4, <1>5

-----------------------------------------------------------------------------
(* Committing: a step of the contract.                                     *)

(* Who deletes no account takes nothing away, and who takes no code leaves   *)
(* the codes as they are.                                                   *)
LEMMA NothingDeleted ==
  ASSUME Orderly, IInv, NEW p \in Calls, Commit(p), tx[p].deleted = None
  PROVE  /\ status' = [a \in Accounts |->
                         IF a = tx[p].target /\ status[a] = "new" THEN "live" ELSE status[a]]
         /\ owner' = [row \in Rows |-> IF row \in tx[p].moved THEN tx[p].target ELSE owner[row]]
         /\ bought' = bought \cup ({tx[p].target} \X tx[p].gains)
         /\ call[p].op # "equip" => worn' = worn
         /\ codes' = [x \in Codes |-> IF x = tx[p].code THEN None ELSE codes[x]]
         /\ expired' = {x \in expired : codes'[x] # None}
         /\ tx[p].code = None => codes' = codes /\ expired' = expired
         /\ tx[p].gains = {} => bought' = bought
         /\ tx[p].moved = {} => owner' = owner
<1>1. /\ status' = [a \in Accounts |->
                      CASE a = tx[p].deleted -> "gone"
                        [] a = tx[p].target /\ status[a] = "new" -> "live"
                        [] OTHER -> status[a]]
      /\ owner' = [row \in Rows |->
                     CASE row \in tx[p].moved -> tx[p].target
                       [] row \notin tx[p].moved /\ owner[row] = tx[p].deleted -> None
                       [] OTHER -> owner[row]]
      /\ bought' = {b \in bought : b[1] # tx[p].deleted} \cup ({tx[p].target} \X tx[p].gains)
      /\ worn' = IF call[p].op = "equip" THEN Wearing(call[p].user, call[p].slot, call[p].item)
                 ELSE {w \in worn : w[1] # tx[p].deleted}
      /\ codes' = [x \in Codes |->
                     IF x = tx[p].code \/ codes[x] = tx[p].deleted THEN None ELSE codes[x]]
      /\ expired' = {x \in expired : codes'[x] # None}
  BY DEF Commit
<1>2. /\ status \in [Accounts -> {"new", "live", "gone"}]
      /\ owner \in [Rows -> Maybe(Accounts)]
      /\ bought \subseteq Accounts \X Cosmetics /\ worn \subseteq bought
      /\ codes \in [Codes -> Maybe(Accounts)]
      /\ expired \subseteq {x \in Codes : codes[x] # None}
  BY DEF IInv, AccountsTypeOK
<1>3. {b \in bought : b[1] # tx[p].deleted} = bought /\ {w \in worn : w[1] # tx[p].deleted} = worn
  BY <1>2, AccountsNone
<1>4. status' = [a \in Accounts |->
                   IF a = tx[p].target /\ status[a] = "new" THEN "live" ELSE status[a]]
  <2>1. \A a \in Accounts : status'[a] =
          IF a = tx[p].target /\ status[a] = "new" THEN "live" ELSE status[a]
    BY CommitEffect, AccountsNone
  <2>2. QED
    BY <1>1, <2>1
<1>5. owner' = [row \in Rows |-> IF row \in tx[p].moved THEN tx[p].target ELSE owner[row]]
  <2>1. \A row \in Rows : owner'[row] = IF row \in tx[p].moved THEN tx[p].target ELSE owner[row]
    BY CommitEffect
  <2>2. QED
    BY <1>1, <2>1
<1>6. codes' = [x \in Codes |-> IF x = tx[p].code THEN None ELSE codes[x]]
  <2>1. \A x \in Codes : codes'[x] = IF x = tx[p].code THEN None ELSE codes[x]
    BY CommitEffect
  <2>2. QED
    BY <1>1, <2>1
<1>7. tx[p].code = None => codes' = codes
  BY <1>2, <1>6, AccountsNone
<1>8. tx[p].code = None => expired' = expired
  BY <1>1, <1>2, <1>7
<1>9. tx[p].gains = {} => bought' = bought
  BY <1>1, <1>3
<1>10. tx[p].moved = {} => owner' = owner
  BY <1>2, <1>5
<1>11. QED
  BY <1>1, <1>3, <1>4, <1>5, <1>6, <1>7, <1>8, <1>9, <1>10

LEMMA CommitResolve ==
  ASSUME Orderly, IInv, NEW p \in Calls, Commit(p), Open(p, "resolve"), ResolveKnows(p)
  PROVE  ResolveUser(p)
<1>1. /\ tx[p].at = "commit" /\ Answer(p, tx[p].target)
  BY CommitEffect DEF Commit, Open
<1>2. /\ Plain(tx[p]) /\ tx[p].gains = {} /\ tx[p].moved = {call[p].key}
      /\ tx[p].target \in Accounts /\ status[tx[p].target] = "new"
  BY <1>1 DEF ResolveKnows
<1>3. owner[call[p].key] = None
  BY <1>1, <1>2, Committing DEF Plain
<1>4. /\ status' = [a \in Accounts |->
                      IF a = tx[p].target /\ status[a] = "new" THEN "live" ELSE status[a]]
      /\ owner' = [row \in Rows |-> IF row \in tx[p].moved THEN tx[p].target ELSE owner[row]]
      /\ UNCHANGED <<bought, worn, codes, expired>>
  BY <1>2, NothingDeleted DEF Plain, Open
<1>5. status' = [status EXCEPT ![tx[p].target] = "live"]
  BY <1>2, <1>4 DEF IInv, AccountsTypeOK
<1>6. owner' = [owner EXCEPT ![call[p].key] = tx[p].target]
  BY <1>2, <1>4 DEF IInv, AccountsTypeOK
<1>7. QED
  BY <1>1, <1>2, <1>3, <1>4, <1>5, <1>6 DEF ResolveUser

LEMMA CommitRecord ==
  ASSUME Orderly, IInv, NEW p \in Calls, Commit(p), Open(p, "record"), RecordKnows(p)
  PROVE  RecordRun(p)
<1>1. tx[p].at = "commit" /\ Answer(p, "ok")
  BY CommitEffect DEF Commit, Open
<1>2. /\ Plain(tx[p]) /\ tx[p].gains = {} /\ tx[p].moved = {call[p].run}
      /\ tx[p].target = call[p].user /\ status[call[p].user] = "live"
  BY <1>1 DEF RecordKnows, UserKnown
<1>3. /\ status' = [a \in Accounts |->
                      IF a = tx[p].target /\ status[a] = "new" THEN "live" ELSE status[a]]
      /\ owner' = [row \in Rows |-> IF row \in tx[p].moved THEN tx[p].target ELSE owner[row]]
      /\ UNCHANGED <<bought, worn, codes, expired>>
  BY <1>2, NothingDeleted DEF Plain, Open
<1>4. status' = status
  BY <1>2, <1>3 DEF IInv, AccountsTypeOK
<1>5. owner' = [owner EXCEPT ![call[p].run] = call[p].user]
  BY <1>2, <1>3 DEF IInv, AccountsTypeOK
<1>6. QED
  BY <1>1, <1>2, <1>3, <1>4, <1>5 DEF RecordRun

LEMMA CommitBuy ==
  ASSUME Orderly, IInv, NEW p \in Calls, Commit(p), Open(p, "buy"), BuyKnows(p)
  PROVE  Buy(p)
<1>1. tx[p].at = "commit" /\ Answer(p, "ok")
  BY CommitEffect DEF Commit, Open
<1>2. /\ Plain(tx[p]) /\ tx[p].gains = {call[p].item} /\ tx[p].moved = {}
      /\ tx[p].target = call[p].user /\ status[call[p].user] # "new"
      /\ Balance(call[p].user) >= 1 /\ ~Owns(call[p].user, call[p].item)
  BY <1>1 DEF BuyKnows, UserKnown
<1>3. /\ status' = [a \in Accounts |->
                      IF a = tx[p].target /\ status[a] = "new" THEN "live" ELSE status[a]]
      /\ bought' = bought \cup ({tx[p].target} \X tx[p].gains)
      /\ UNCHANGED <<owner, worn, codes, expired>>
  BY <1>2, NothingDeleted DEF Plain, Open
<1>4. status' = status
  BY <1>2, <1>3 DEF IInv, AccountsTypeOK
<1>5. bought' = bought \cup {<<call[p].user, call[p].item>>}
  <2>1. {call[p].user} \X {call[p].item} = {<<call[p].user, call[p].item>>}
    OBVIOUS
  <2>2. QED
    BY <1>2, <1>3, <2>1
<1>6. QED
  BY <1>1, <1>2, <1>3, <1>4, <1>5 DEF Buy

LEMMA CommitEquip ==
  ASSUME Orderly, IInv, NEW p \in Calls, Commit(p), Open(p, "equip"), EquipKnows(p)
  PROVE  Equip(p)
<1>1. /\ tx[p].at = "commit" /\ Answer(p, "ok")
      /\ worn' = Wearing(call[p].user, call[p].slot, call[p].item)
  BY CommitEffect DEF Commit, Open
<1>2. /\ Plain(tx[p]) /\ tx[p].gains = {} /\ tx[p].moved = {} /\ tx[p].target = None
      /\ call[p].item # None => Owns(call[p].user, call[p].item)
  BY <1>1 DEF EquipKnows
<1>3. /\ status' = [a \in Accounts |->
                      IF a = tx[p].target /\ status[a] = "new" THEN "live" ELSE status[a]]
      /\ UNCHANGED <<owner, bought, codes, expired>>
  BY <1>2, NothingDeleted DEF Plain
<1>4. status' = status
  BY <1>2, <1>3, AccountsNone DEF IInv, AccountsTypeOK
<1>5. QED
  BY <1>1, <1>2, <1>3, <1>4 DEF Equip

LEMMA CommitRedeem ==
  ASSUME Orderly, IInv, NEW p \in Calls, Commit(p), Open(p, "redeem"), RedeemKnows(p),
         status[tx[p].target] = "live"
  PROVE  RedeemLinkCode(p)
<1>1. tx[p].at = "commit" /\ Answer(p, tx[p].target)
  BY CommitEffect DEF Commit, Open
<1>2. PICK code \in Codes, key \in Keys, target \in Accounts, source \in Maybe(Accounts) :
        /\ code = call[p].code /\ key = call[p].key
        /\ target = tx[p].target /\ source = tx[p].source
  BY CallShapes, TxShape, <1>1 DEF Open, IInv, AccountsTypeOK, RedeemKnows, TookCode, Orderly
<1>3. /\ tx[p].code = code /\ code \notin expired /\ codes[code] = target /\ code # None
      /\ target # None /\ key \in Rows
  BY <1>1, <1>2, AccountsNone DEF RedeemKnows, TookCode, Rows
<1>4. CASE source = None \/ source = target
  <2>1. tx[p].deleted = None /\ tx[p].gains = {}
    BY <1>1, <1>2, <1>4, Committing DEF RedeemKnows
  <2>2. /\ status' = [a \in Accounts |->
                        IF a = tx[p].target /\ status[a] = "new" THEN "live" ELSE status[a]]
        /\ owner' = [row \in Rows |-> IF row \in tx[p].moved THEN tx[p].target ELSE owner[row]]
        /\ codes' = [x \in Codes |-> IF x = tx[p].code THEN None ELSE codes[x]]
        /\ expired' = {x \in expired : codes'[x] # None}
        /\ UNCHANGED <<bought, worn>>
        /\ tx[p].moved = {} => owner' = owner
    BY <2>1, NothingDeleted DEF Open
  <2>3. status' = status
    BY <1>2, <2>2 DEF IInv, AccountsTypeOK
  <2>4. Spend(code, None)
    <3>1. codes' = [x \in Codes |-> IF x = code \/ codes[x] = None THEN None ELSE codes[x]]
      BY <1>3, <2>2
    <3>2. QED
      BY <2>2, <3>1 DEF Spend
  <2>5. owner[key] = source /\ owner' = [owner EXCEPT ![key] = target]
    <3>1. CASE source = None
      <4>1. tx[p].moved = {key}
        BY <1>1, <1>2, <3>1 DEF RedeemKnows
      <4>2. owner[key] = source
        BY <1>1, <1>2, <4>1, Committing
      <4>3. QED
        BY <1>2, <1>3, <2>2, <4>1, <4>2 DEF IInv, AccountsTypeOK
    <3>2. CASE source = target
      <4>1. tx[p].moved = {} /\ owner[key] = source
        BY <1>2, <1>3, <3>2 DEF RedeemKnows
      <4>2. QED
        BY <1>3, <2>2, <3>2, <4>1 DEF IInv, AccountsTypeOK
    <3>3. QED
      BY <1>4, <3>1, <3>2
  <2>6. QED
    BY <1>1, <1>2, <1>3, <1>4, <2>2, <2>3, <2>4, <2>5 DEF RedeemLinkCode
<1>5. CASE source # None /\ source # target
  <2>1. source \in Accounts /\ tx[p].deleted = source /\ owner[key] = source
    BY <1>1, <1>2, <1>5 DEF RedeemKnows, Maybe
  <2>2. FoldKnows(tx[p])
    BY <1>2, <1>5 DEF RedeemKnows
  <2>3. /\ tx[p].moved = RunsOf(source) \cup KeysOf(source)
        /\ tx[p].dropped \subseteq Items(target)
        /\ tx[p].gains = Items(source) \ tx[p].dropped
    BY <1>1, <1>2, <2>2 DEF FoldKnows
  <2>4. status' = [status EXCEPT ![source] = "gone"]
    <3>1. status' = [a \in Accounts |->
                      CASE a = tx[p].deleted -> "gone"
                        [] a = tx[p].target /\ status[a] = "new" -> "live"
                        [] OTHER -> status[a]]
      BY DEF Commit
    <3>2. \A a \in Accounts : status'[a] = IF a = source THEN "gone" ELSE status[a]
      BY <1>2, <2>1, CommitEffect
    <3>3. QED
      BY <3>1, <3>2 DEF IInv, AccountsTypeOK
  <2>5. owner' = [row \in Rows |-> IF owner[row] = source THEN target ELSE owner[row]]
    <3>1. owner' = [row \in Rows |->
                      CASE row \in tx[p].moved -> tx[p].target
                        [] row \notin tx[p].moved /\ owner[row] = tx[p].deleted -> None
                        [] OTHER -> owner[row]]
      BY DEF Commit
    <3>2. \A row \in Rows : row \in tx[p].moved <=> owner[row] = source
      BY <2>3 DEF RunsOf, KeysOf, Rows
    <3>3. \A row \in Rows : owner'[row] = IF owner[row] = source THEN target ELSE owner[row]
      BY <1>2, <2>1, <3>2, CommitEffect
    <3>4. QED
      BY <3>1, <3>3
  <2>6. bought' = {b \in bought : b[1] # source} \cup {<<target, c>> : c \in Items(source)}
    <3>1. bought' = {b \in bought : b[1] # source} \cup ({target} \X tx[p].gains)
      BY <1>2, <2>1, CommitEffect
    <3>2. ASSUME NEW c \in Items(source), c \notin tx[p].gains
          PROVE  <<target, c>> \in {b \in bought : b[1] # source}
      BY <1>5, <2>3, <3>2 DEF Items
    <3>3. bought' \subseteq {b \in bought : b[1] # source} \cup {<<target, c>> : c \in Items(source)}
      BY <2>3, <3>1
    <3>4. {b \in bought : b[1] # source} \cup {<<target, c>> : c \in Items(source)} \subseteq bought'
      BY <3>1, <3>2
    <3>5. QED
      BY <3>3, <3>4
  <2>7. worn' = {w \in worn : w[1] # source} /\ Spend(code, source)
    BY <1>2, <1>3, <2>1 DEF Commit, Open, Spend
  <2>8. QED
    BY <1>1, <1>2, <1>3, <1>5, <2>1, <2>4, <2>5, <2>6, <2>7 DEF RedeemLinkCode, Merge
<1>6. QED
  BY <1>2, <1>4, <1>5

LEMMA CommitOrMissFaithful ==
  ASSUME Orderly, IInv, Apart, NEW p \in Calls, CommitOrMiss(p)
  PROVE  Faithful
<1>1. tx[p].at = "commit"
  BY DEF CommitOrMiss, At
<1>2. CASE Roll(p)
  BY <1>1, <1>2, RollKeeps
<1>3. CASE Commit(p) /\ (call[p].op = "redeem" => status[tx[p].target] = "live")
  <2>1. /\ tx' \in [Calls -> Transactions] /\ tx'[p] = Idle
        /\ \A q \in Calls \ {p} : tx'[q] = tx[q]
        /\ \A a \in Accounts : status'[a] = "new" => status[a] = "new"
    BY <1>3, CommitEffect
  <2>2. \A q \in Calls \ {p} : Knows(q)'
    BY <1>3, OthersStay
  <2>3. Knows(p)'
    BY <2>1 DEF Knows
  <2>4. Less(tx'[p], tx[p])
    BY <2>1, IdleLess, TxShape DEF Orderly
  <2>5. Orderly'
    BY <2>1, <2>2, <2>3, <2>4, OneChanged
  <2>6. RepositoryStep(p)
    <3>1. answer[p] = None
          /\ \/ call[p].op = "resolve" /\ ResolveKnows(p)
             \/ call[p].op = "record" /\ RecordKnows(p)
             \/ call[p].op = "buy" /\ BuyKnows(p)
             \/ call[p].op = "equip" /\ EquipKnows(p)
             \/ call[p].op = "redeem" /\ RedeemKnows(p)
      BY <1>1, Committing
    <3>2. QED
      BY <1>3, <3>1, CommitResolve, CommitRecord, CommitBuy, CommitEquip, CommitRedeem
         DEF RepositoryStep, Open
  <2>7. QED
    BY <2>5, <2>6 DEF Faithful, RepositoryNext
<1>4. QED
  BY <1>2, <1>3 DEF CommitOrMiss

-----------------------------------------------------------------------------
(* Every step.                                                             *)

LEMMA StatementFaithful ==
  ASSUME Orderly, IInv, Apart, NEW p \in Calls, Statement(p)
  PROVE  Faithful
<1>1. CASE TakeLock(p) \/ CommitOrMiss(p) \/ Find(p) \/ Touch(p) \/ Create(p)
  BY <1>1, TakeLockFaithful, CommitOrMissFaithful, FindFaithful, TouchFaithful, CreateFaithful
<1>2. CASE Insert(p) \/ Check(p) \/ Purchase(p) \/ Wear(p)
  BY <1>2, InsertFaithful, CheckFaithful, PurchaseFaithful, WearFaithful
<1>3. CASE SweepCodes(p) \/ Issue(p) \/ TakeCode(p)
  BY <1>3, SweepCodesFaithful, IssueFaithful, TakeCodeFaithful
<1>4. CASE FindSource(p) \/ Attach(p)
  BY <1>4, FindSourceFaithful, AttachFaithful
<1>5. CASE MoveRuns(p)
  BY <1>5, MoveFaithful DEF MoveRuns
<1>6. CASE MoveKeys(p)
  BY <1>6, MoveFaithful DEF MoveKeys
<1>7. CASE DropDuplicates(p) \/ MovePurchases(p) \/ DeleteSource(p) \/ Cascade(p)
  BY <1>7, DropDuplicatesFaithful, MovePurchasesFaithful, DeleteFaithful
<1>8. QED
  BY <1>1, <1>2, <1>3, <1>4, <1>5, <1>6, <1>7 DEF Statement

(* Whoever waits is at work, so breaking a deadlock rolls a call back. *)
LEMMA WaitingIsWork ==
  ASSUME Orderly, NEW p \in Calls, NEW q \in Calls, Waits(p, q)
  PROVE  tx[p].at # "idle"
<1>1. SUFFICES ASSUME tx[p] = Idle PROVE FALSE
  BY WhoIsAt DEF Orderly
<1>2. NewRows(p) = {} /\ NewItems(p) = {}
  BY <1>1 DEF Idle, NewRows, NewItems, At
<1>3. QED
  BY <1>1, <1>2 DEF Waits, At, Refers, Idle

LEMMA PgNextFaithful ==
  ASSUME Orderly, IInv, Unasked, Apart, PgNext
  PROVE  Faithful
<1>1. ASSUME NEW p \in Calls, Begin(p) \/ Statement(p) PROVE Faithful
  BY <1>1, BeginFaithful, StatementFaithful
<1>2. ASSUME NEW p \in Calls, GiveUp(p) PROVE Faithful
  BY <1>2, RollKeeps DEF GiveUp
<1>3. CASE BreakDeadlock
  <2>1. PICK S \in SUBSET Calls \ {{}} :
          /\ \E next \in [S -> S] :
               /\ \A p \in S : Waits(p, next[p])
               /\ S = {next[p] : p \in S}
          /\ \E p \in S : Roll(p)
    BY <1>3 DEF BreakDeadlock
  <2>2. PICK p \in S, q \in S : Waits(p, q) /\ Roll(p)
    BY <2>1
  <2>3. p \in Calls /\ q \in Calls
    BY <2>1
  <2>4. QED
    BY <2>2, <2>3, WaitingIsWork, RollKeeps
<1>4. ASSUME NEW x \in Codes, Lapse(x) PROVE Faithful
  BY <1>4, LapseFaithful
<1>5. QED
  BY <1>1, <1>2, <1>3, <1>4 DEF PgNext

(* Only who was asked answers. *)
LEMMA UnaskedStep ==
  ASSUME Unasked, IInv, [RepositoryNext]_<<tables, call, answer>>
  PROVE  Unasked'
<1>1. ASSUME NEW p \in Calls, RepositoryStep(p) PROVE Unasked'
  <2>1. CASE Ask(p)
    <3>1. PICK request \in Requests : call' = [call EXCEPT ![p] = request]
      BY <2>1 DEF Ask
    <3>2. request # NoCall
      BY DEF NoCall, Requests, AskResolve, AskRecord, AskBuy, AskEquip, AskCode, AskRedeem
    <3>3. QED
      BY <2>1, <3>1, <3>2 DEF Ask, Unasked, IInv, AccountsTypeOK
  <2>2. CASE call[p] # NoCall /\ \E result : Answer(p, result)
    BY <2>2 DEF Answer, Unasked, IInv, AccountsTypeOK
  <2>3. ~Ask(p) => call[p] # NoCall /\ \E result : Answer(p, result)
    BY <1>1 DEF RepositoryStep, ResolveUser, RecordRun, Buy, Equip, CreateLinkCode, RedeemLinkCode,
       Fail, Open, NoCall, Refuse
  <2>4. QED
    BY <2>1, <2>2, <2>3
<1>2. ASSUME NEW x \in Codes, Expire(x) PROVE Unasked'
  BY <1>2 DEF Expire, Unasked
<1>3. CASE Sweep
  BY <1>3 DEF Sweep, Unasked
<1>4. CASE UNCHANGED <<tables, call, answer>>
  BY <1>4 DEF Unasked
<1>5. QED
  BY <1>1, <1>2, <1>3, <1>4 DEF RepositoryNext

LEMMA PgInvInit == PgInit => PgInv /\ RepositoryInit
<1> SUFFICES ASSUME PgInit PROVE PgInv /\ RepositoryInit
  OBVIOUS
<1>1. RepositoryInit /\ IInv
  BY IInvInit DEF PgInit, RepositoryInit
<1>2. call = [p \in Calls |-> NoCall] /\ answer = [p \in Calls |-> None]
      /\ tx = [p \in Calls |-> Idle]
  BY DEF PgInit, Quiet
<1>3. Orderly
  <2>1. \A p \in Calls : Knows(p)
    BY <1>2 DEF Knows
  <2>2. \A p, q \in Calls : Separate(p, q)
    BY <1>2 DEF Separate, Idle
  <2>3. QED
    BY <1>2, <2>1, <2>2, IdleOK DEF Orderly
<1>4. Apart /\ Unasked
  BY <1>2 DEF Apart, Redeeming, NoCall, Unasked
<1>5. QED
  BY <1>1, <1>3, <1>4 DEF PgInv

LEMMA PgInvStep ==
  ASSUME PgInv, [ApartNext]_vars
  PROVE  PgInv' /\ [RepositoryNext]_<<tables, call, answer>>
<1>1. CASE ApartNext
  <2>1. Orderly' /\ [RepositoryNext]_<<tables, call, answer>> /\ Apart'
    BY <1>1, PgNextFaithful DEF ApartNext, PgInv, Faithful
  <2>2. IInv' /\ Unasked'
    BY <2>1, IInvStep, UnaskedStep DEF PgInv
  <2>3. QED
    BY <2>1, <2>2 DEF PgInv
<1>2. CASE UNCHANGED vars
  <2>1. UNCHANGED <<tables, call, answer, tx>>
    BY <1>2 DEF vars
  <2>2. UNCHANGED <<status, owner, bought, worn, codes, expired>>
    BY <2>1 DEF tables
  <2>3. Orderly'
    <3>1. \A q \in Calls : Knows(q)'
      BY <2>1, Undisturbed DEF PgInv, Orderly
    <3>2. \A p, q \in Calls : p # q => Separate(p, q)'
      BY <2>1, <2>2 DEF PgInv, Orderly, Separate
    <3>3. QED
      BY <2>1, <3>1, <3>2 DEF PgInv, Orderly
  <2>4. Apart'
    BY <2>1, <2>2 DEF PgInv, Apart, Redeeming, SourceOf, TargetOf
  <2>5. IInv' /\ Unasked'
    BY <2>1, IInvStep, UnaskedStep DEF PgInv
  <2>6. QED
    BY <2>1, <2>3, <2>4, <2>5 DEF PgInv
<1>3. QED
  BY <1>1, <1>2

(***************************************************************************)
(* pg.go keeps store.go's contract: however the statements of any number of *)
(* calls interleave, whoever is rolled back, every call behaves as if it    *)
(* alone had been at work at one instant. It is for merges that do not meet *)
(* (Apart): MCPgChain shows two that do, and what they lose.                *)
(***************************************************************************)
THEOREM ImplementsTheorem == ApartSpec => ImplementsRepository
<1>1. PgInv /\ [ApartNext]_vars => PgInv' /\ [RepositoryNext]_<<tables, call, answer>>
  BY PgInvStep
<1>2. PgInit => PgInv /\ Contract!RepositoryInit
  BY PgInvInit, ContractInit
<1>3. PgInv /\ [ApartNext]_vars => [Contract!RepositoryNext]_<<Contract!tables, call, answer>>
  BY <1>1, ContractNext
<1>4. QED
  BY <1>1, <1>2, <1>3, PTL DEF ApartSpec, ImplementsRepository, Contract!RepositorySpec

LEMMA PgInvariance == ApartSpec => []PgInv
<1>1. PgInv /\ [ApartNext]_vars => PgInv'
  BY PgInvStep
<1>2. PgInit => PgInv
  BY PgInvInit
<1>3. QED
  BY <1>1, <1>2, PTL DEF ApartSpec

(* Every transaction's record, like the tables, stays what PgTypeOK says. *)
THEOREM PgTypeTheorem == ApartSpec => []PgTypeOK
<1>1. PgInv => PgTypeOK
  BY DEF PgInv, IInv, Orderly, PgTypeOK
<1>2. QED
  BY <1>1, PgInvariance, PTL

(* Where merges do not meet (Apart), two sessions that buy at once, while an *)
(* account is merged, never overspend: the balance that Buy read holds until *)
(* its purchase commits. Apart is needed: when an account is folded away    *)
(* while another one is folded into it, the runs that just arrived can go   *)
(* with it and their purchases move on, which leaves a debt.                *)
THEOREM PgOverdraftTheorem == ApartSpec => []NoOverdraft
<1>1. PgInv => NoOverdraft
  BY Tables DEF PgInv
<1>2. QED
  BY <1>1, PgInvariance, PTL

(* No step of the contract leaves a run or a key with nobody. *)
LEMMA RowsStay ==
  ASSUME IInv, [RepositoryNext]_<<tables, call, answer>>
  PROVE  \A row \in Rows : owner[row] # None => owner'[row] # None
<1>1. ASSUME NEW p \in Calls, RepositoryStep(p)
      PROVE  \A row \in Rows : owner[row] # None => owner'[row] # None
  <2>1. CASE owner' = owner
    BY <2>1
  <2>2. CASE \E row \in Rows, a \in Accounts : owner' = [owner EXCEPT ![row] = a]
    BY <2>2, AccountsNone DEF IInv, AccountsTypeOK
  <2>3. CASE \E source, target \in Accounts :
               owner' = [row \in Rows |-> IF owner[row] = source THEN target ELSE owner[row]]
    BY <2>3, AccountsNone
  <2>4. CASE ResolveUser(p)
    <3>1. call[p].key \in Rows
      BY <2>4, CallShapes DEF ResolveUser, Open, IInv, AccountsTypeOK, Rows
    <3>2. QED
      BY <2>1, <2>2, <2>4, <3>1 DEF ResolveUser, tables
  <2>5. CASE RecordRun(p)
    BY <2>2, <2>5, CallShapes DEF RecordRun, Open, IInv, AccountsTypeOK, Rows
  <2>6. CASE RedeemLinkCode(p)
    <3>1. /\ codes[call[p].code] \in Maybe(Accounts) /\ owner[call[p].key] \in Maybe(Accounts)
          /\ call[p].key \in Rows
      BY <2>6, CallShapes DEF RedeemLinkCode, Open, IInv, AccountsTypeOK, Rows
    <3>2. CASE owner' = [owner EXCEPT ![call[p].key] = codes[call[p].code]]
               /\ codes[call[p].code] # None
      BY <2>2, <3>1, <3>2 DEF Maybe
    <3>3. CASE /\ Merge(owner[call[p].key], codes[call[p].code])
               /\ codes[call[p].code] # None /\ owner[call[p].key] # None
      BY <2>3, <3>1, <3>3 DEF Maybe, Merge
    <3>4. QED
      BY <2>1, <2>6, <3>2, <3>3 DEF RedeemLinkCode, Refuse, tables
  <2>7. CASE Ask(p) \/ Buy(p) \/ Equip(p) \/ CreateLinkCode(p) \/ Fail(p)
    BY <2>1, <2>7 DEF Ask, Buy, Equip, CreateLinkCode, Fail, Refuse, tables
  <2>8. QED
    BY <1>1, <2>4, <2>5, <2>6, <2>7 DEF RepositoryStep
<1>2. CASE UNCHANGED owner
  BY <1>2
<1>3. QED
  BY <1>1, <1>2 DEF RepositoryNext, Expire, Sweep, tables

(* As long as merges do not meet, no run and no key is ever lost: what        *)
(* MCPgChain shows takes an account that is folded away while another one is *)
(* being folded into it.                                                    *)
THEOREM NothingLostTheorem == ApartSpec => NothingLost
<1>1. PgInv /\ [ApartNext]_vars => [\A row \in Rows : owner[row] # None => owner'[row] # None]_vars
  BY PgInvStep, RowsStay DEF PgInv
<1>2. QED
  BY <1>1, PgInvariance, PTL DEF ApartSpec, NothingLost

=============================================================================
