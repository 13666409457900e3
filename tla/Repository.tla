----------------------------- MODULE Repository -----------------------------
(***************************************************************************)
(* The contract of store.Repository (store.go) as store.Memory keeps it     *)
(* (memory.go): every call takes effect and answers at one instant.         *)
(*                                                                         *)
(* Where the contract leaves a choice the specification has it: a write to  *)
(* an account that was merged away fails (Memory keeps it where nobody      *)
(* looks), expired codes may be swept, and any call may fail and leave      *)
(* everything as it was.                                                    *)
(***************************************************************************)
EXTENDS Accounts

RepositoryInit == Quiet

Refuse(p, result) == Answer(p, result) /\ UNCHANGED tables

ResolveUser(p) ==
  /\ Open(p, "resolve")
  /\ LET key == call[p].key IN
       \/ /\ owner[key] # None
          /\ Answer(p, owner[key])
          /\ UNCHANGED tables
       \/ /\ owner[key] = None
          /\ \E a \in Accounts :
               /\ status[a] = "new"
               /\ status' = [status EXCEPT ![a] = "live"]
               /\ owner' = [owner EXCEPT ![key] = a]
               /\ Answer(p, a)
          /\ UNCHANGED <<bought, worn, codes, expired>>

RecordRun(p) ==
  /\ Open(p, "record")
  /\ status[call[p].user] = "live"
  /\ owner' = [owner EXCEPT ![call[p].run] = call[p].user]
  /\ Answer(p, "ok")
  /\ UNCHANGED <<status, bought, worn, codes, expired>>

Buy(p) ==
  /\ Open(p, "buy")
  /\ LET user == call[p].user
         item == call[p].item
     IN  \/ Owns(user, item) /\ Refuse(p, "already_owned")
         \/ ~Owns(user, item) /\ Balance(user) < 1 /\ Refuse(p, "insufficient")
         \/ /\ ~Owns(user, item)
            /\ Balance(user) >= 1
            /\ bought' = bought \cup {<<user, item>>}
            /\ Answer(p, "ok")
            /\ UNCHANGED <<status, owner, worn, codes, expired>>

Equip(p) ==
  /\ Open(p, "equip")
  /\ LET user == call[p].user
         item == call[p].item
     IN  \/ item # None /\ ~Owns(user, item) /\ Refuse(p, "not_owned")
         \/ /\ item # None => Owns(user, item)
            /\ worn' = Wearing(user, call[p].slot, item)
            /\ Answer(p, "ok")
            /\ UNCHANGED <<status, owner, bought, codes, expired>>

CreateLinkCode(p) ==
  /\ Open(p, "code")
  /\ status[call[p].user] = "live"
  /\ \E x \in Codes :
       /\ codes[x] = None
       /\ codes' = [codes EXCEPT ![x] = call[p].user]
  /\ Answer(p, "ok")
  /\ UNCHANGED <<status, owner, bought, worn, expired>>

(* source folds into target: a cosmetic both own is refunded, everything    *)
(* arrives unequipped, every key of source reaches target.                  *)
Merge(source, target) ==
  /\ status' = [status EXCEPT ![source] = "gone"]
  /\ owner' = [row \in Rows |-> IF owner[row] = source THEN target ELSE owner[row]]
  /\ bought' = {b \in bought : b[1] # source} \cup {<<target, c>> : c \in Items(source)}
  /\ worn' = {w \in worn : w[1] # source}

(* The codes that led to an account which is no more lead nowhere.          *)
Spend(code, source) ==
  /\ codes' = [x \in Codes |-> IF x = code \/ codes[x] = source THEN None ELSE codes[x]]
  /\ expired' = {x \in expired : codes'[x] # None}

RedeemLinkCode(p) ==
  /\ Open(p, "redeem")
  /\ LET code == call[p].code
         key == call[p].key
         target == codes[code]
         source == owner[key]
     IN  \/ target = None /\ Refuse(p, "unknown_code")
         \/ /\ code \in expired
            /\ Spend(code, None)
            /\ Answer(p, "expired_code")
            /\ UNCHANGED <<status, owner, bought, worn>>
         \/ /\ target # None /\ code \notin expired
            /\ source \in {None, target}
            /\ owner' = [owner EXCEPT ![key] = target]
            /\ Spend(code, None)
            /\ Answer(p, target)
            /\ UNCHANGED <<status, bought, worn>>
         \/ /\ target # None /\ code \notin expired
            /\ source \notin {None, target}
            /\ Merge(source, target)
            /\ Spend(code, source)
            /\ Answer(p, target)

(* Nobody is told, and nothing happened.                                    *)
Fail(p) ==
  /\ call[p] # NoCall
  /\ answer[p] = None
  /\ Refuse(p, "failed")

Expire(x) ==
  /\ codes[x] # None
  /\ expired' = expired \cup {x}
  /\ UNCHANGED <<status, owner, bought, worn, codes, call, answer>>

Sweep ==
  /\ codes' = [x \in Codes |-> IF x \in expired THEN None ELSE codes[x]]
  /\ expired' = {}
  /\ UNCHANGED <<status, owner, bought, worn, call, answer>>

RepositoryStep(p) ==
  \/ Ask(p) \/ ResolveUser(p) \/ RecordRun(p) \/ Buy(p) \/ Equip(p)
  \/ CreateLinkCode(p) \/ RedeemLinkCode(p) \/ Fail(p)

RepositoryNext ==
  \/ \E p \in Calls : RepositoryStep(p)
  \/ \E x \in Codes : Expire(x)
  \/ Sweep

RepositorySpec == RepositoryInit /\ [][RepositoryNext]_<<tables, call, answer>>
=============================================================================
