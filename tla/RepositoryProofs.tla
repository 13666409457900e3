-------------------------- MODULE RepositoryProofs --------------------------
(***************************************************************************)
(* Proofs about the contract of the repository (Repository.tla): whatever   *)
(* is asked, in whatever order, its tables stay consistent.                 *)
(***************************************************************************)
EXTENDS Repository, FiniteSetTheorems, TLAPS

(* A run is asked for by one call, and is nobody's until that call answers. *)
OneRecord ==
  \A p \in Calls : call[p].op = "record" =>
    /\ answer[p] = None => owner[call[p].run] = None
    /\ \A q \in Calls : call[q].op = "record" /\ call[q].run = call[p].run => q = p

IInv == AccountsTypeOK /\ Consistent /\ OneRecord

repositoryVars == <<tables, call, answer>>

-----------------------------------------------------------------------------
(* What a call holds.                                                      *)

LEMMA CallShapes ==
  ASSUME NEW c \in Requests \cup {NoCall}
  PROVE  /\ c.op = "resolve" => c.key \in Keys
         /\ c.op = "record" => c.user \in Accounts /\ c.run \in Runs
         /\ c.op = "buy" => c.user \in Accounts /\ c.item \in Cosmetics
         /\ c.op = "equip" => c.user \in Accounts /\ c.item \in Maybe(Cosmetics)
                              /\ (c.item # None => SlotOf[c.item] = c.slot)
         /\ c.op = "code" => c.user \in Accounts
         /\ c.op = "redeem" => c.code \in Codes /\ c.key \in Keys
BY DEF Requests, NoCall, AskResolve, AskRecord, AskBuy, AskEquip, AskCode, AskRedeem

(* The sets a balance counts. *)
LEMMA BalanceCounts ==
  ASSUME NEW a
  PROVE  /\ IsFiniteSet(RunsOf(a)) /\ Cardinality(RunsOf(a)) \in Nat
         /\ IsFiniteSet(Items(a)) /\ Cardinality(Items(a)) \in Nat
<1>1. RunsOf(a) \subseteq Runs /\ Items(a) \subseteq Cosmetics
  BY DEF RunsOf, Items
<1>2. QED
  BY <1>1, AccountsFinite, FS_Subset, FS_CardinalityType

(* A union counts at most what its parts count together, and as much when   *)
(* they have nothing in common.                                             *)
LEMMA UnionCounts ==
  ASSUME NEW S, NEW T, IsFiniteSet(S), IsFiniteSet(T)
  PROVE  /\ Cardinality(S \cup T) <= Cardinality(S) + Cardinality(T)
         /\ S \cap T = {} => Cardinality(S \cup T) = Cardinality(S) + Cardinality(T)
<1>1. Cardinality(S \cup T) = Cardinality(S) + Cardinality(T) - Cardinality(S \cap T)
  BY FS_Union
<1>2. IsFiniteSet(S \cap T)
  BY FS_Intersection
<1>3. Cardinality(S) \in Nat /\ Cardinality(T) \in Nat /\ Cardinality(S \cap T) \in Nat
  BY <1>2, FS_CardinalityType
<1>4. S \cap T = {} => Cardinality(S \cap T) = 0
  BY FS_EmptySet
<1>5. QED
  BY <1>1, <1>3, <1>4

-----------------------------------------------------------------------------
(* Balances.                                                               *)

(* Who earned no less and bought no more is not poorer. *)
LEMMA BalanceKept ==
  ASSUME NEW a, RunsOf(a) \subseteq RunsOf(a)', Items(a)' = Items(a),
         RunsOf(a)' \subseteq Runs, Balance(a) >= 0
  PROVE  Balance(a)' >= 0
<1>1. IsFiniteSet(RunsOf(a)')
  BY AccountsFinite, FS_Subset
<1>2. Cardinality(RunsOf(a)) <= Cardinality(RunsOf(a)') /\ Cardinality(RunsOf(a)') \in Nat
  BY <1>1, FS_Subset, FS_CardinalityType
<1>3. QED
  BY <1>2, BalanceCounts DEF Balance

LEMMA BalancesSame ==
  ASSUME \A r \in Runs : owner'[r] = owner[r], bought' = bought, NoOverdraft
  PROVE  NoOverdraft'
<1>1. \A a : RunsOf(a)' = RunsOf(a) /\ Items(a)' = Items(a)
  BY DEF RunsOf, Items
<1>2. \A a : Balance(a)' = Balance(a)
  BY <1>1 DEF Balance
<1>3. QED
  BY <1>2 DEF NoOverdraft

-----------------------------------------------------------------------------
(* Answering.                                                              *)

Results == Accounts \cup Refusals \cup {"ok"}

(* An answer is one, and only the call that gets it had none. *)
LEMMA AnswerGiven ==
  ASSUME AccountsTypeOK, NEW p \in Calls, NEW result \in Results, Answer(p, result)
  PROVE  /\ call' = call
         /\ answer' \in [Calls -> Maybe(Results)]
         /\ \A q \in Calls : answer'[q] = None => answer[q] = None /\ q # p
<1>1. result # None
  BY AccountsNone DEF Results
<1>2. answer \in [Calls -> Maybe(Results)]
  BY DEF AccountsTypeOK, Results
<1>3. QED
  BY <1>1, <1>2 DEF Answer, Maybe

(* As long as a run that is nobody's stays so, the calls for it agree. *)
LEMMA OneRecordKept ==
  ASSUME AccountsTypeOK, OneRecord, call' = call,
         \A q \in Calls : answer'[q] = None => answer[q] = None,
         \A r \in Runs : owner[r] = None => owner'[r] = None
  PROVE  OneRecord'
<1>1. \A q \in Calls : call[q].op = "record" => call[q].run \in Runs
  BY CallShapes DEF AccountsTypeOK
<1>2. QED
  BY <1>1 DEF OneRecord

LEMMA AskKeeps == ASSUME IInv, NEW p \in Calls, Ask(p) PROVE IInv'
<1>1. PICK request \in Requests :
        MayAsk(request) /\ call' = [call EXCEPT ![p] = request]
  BY DEF Ask
<1>2. UNCHANGED <<status, owner, bought, worn, codes, expired, answer>> /\ call[p] = NoCall
  BY DEF Ask, tables
<1>3. AccountsTypeOK'
  BY <1>1, <1>2 DEF IInv, AccountsTypeOK
<1>4. Consistent'
  <2>1. NoOverdraft'
    BY <1>2, BalancesSame DEF IInv, Consistent, NoOverdraft
  <2>2. QED
    BY <1>2, <2>1 DEF IInv, Consistent, NoOverdraft
<1>5. OneRecord'
  <2>1. \A q \in Calls : call'[q] = IF q = p THEN request ELSE call[q]
    BY <1>1 DEF IInv, AccountsTypeOK
  <2>2. request.op = "record" =>
          /\ owner[request.run] = None
          /\ \A q \in Calls : call[q].op = "record" => call[q].run # request.run
    BY <1>1 DEF MayAsk
  <2>3. QED
    BY <1>2, <2>1, <2>2 DEF IInv, OneRecord
<1>6. QED
  BY <1>3, <1>4, <1>5 DEF IInv

(* A call that is refused, or fails, changes no table. *)
LEMMA RefuseKeeps ==
  ASSUME IInv, NEW p \in Calls, NEW result \in Results, Refuse(p, result)
  PROVE  IInv'
<1>1. UNCHANGED <<status, owner, bought, worn, codes, expired>> /\ Answer(p, result)
  BY DEF Refuse, tables
<1>2. /\ call' = call /\ answer' \in [Calls -> Maybe(Results)]
      /\ \A q \in Calls : answer'[q] = None => answer[q] = None /\ q # p
  BY <1>1, AnswerGiven DEF IInv
<1>3. AccountsTypeOK'
  BY <1>1, <1>2 DEF IInv, AccountsTypeOK, Results
<1>4. NoOverdraft'
  BY <1>1, BalancesSame DEF IInv, Consistent, NoOverdraft
<1>5. Consistent'
  BY <1>1, <1>4 DEF IInv, Consistent, NoOverdraft
<1>6. OneRecord'
  BY <1>1, <1>2, OneRecordKept DEF IInv
<1>7. QED
  BY <1>3, <1>5, <1>6 DEF IInv

-----------------------------------------------------------------------------
(* Calls that write.                                                       *)

TablesOK ==
  /\ status \in [Accounts -> {"new", "live", "gone"}]
  /\ owner \in [Rows -> Maybe(Accounts)]
  /\ bought \in SUBSET (Accounts \X Cosmetics)
  /\ worn \in SUBSET bought
  /\ codes \in [Codes -> Maybe(Accounts)]
  /\ expired \in SUBSET {x \in Codes : codes[x] # None}

(* What is left to show of a step that answers a call and gives away no run *)
(* of somebody's.                                                           *)
LEMMA AnsweredKeeps ==
  ASSUME IInv, NEW p \in Calls, NEW result \in Results, Answer(p, result),
         TablesOK', Consistent', \A r \in Runs : owner[r] = None => owner'[r] = None
  PROVE  IInv'
<1>1. /\ call' = call /\ answer' \in [Calls -> Maybe(Results)]
      /\ \A q \in Calls : answer'[q] = None => answer[q] = None /\ q # p
  BY AnswerGiven DEF IInv
<1>2. AccountsTypeOK'
  BY <1>1 DEF IInv, AccountsTypeOK, TablesOK, Results
<1>3. OneRecord'
  BY <1>1, OneRecordKept DEF IInv
<1>4. QED
  BY <1>2, <1>3 DEF IInv

LEMMA Tables == ASSUME IInv PROVE TablesOK /\ NoOverdraft
BY DEF IInv, AccountsTypeOK, TablesOK, Consistent, NoOverdraft

(* A key is no run. *)
LEMMA KeysApart == ASSUME NEW k \in Keys, NEW r \in Runs PROVE k # r
BY AccountsDisjoint

LEMMA ResolveUserKeeps == ASSUME IInv, NEW p \in Calls, ResolveUser(p) PROVE IInv'
<1> DEFINE key == call[p].key
<1>1. key \in Keys /\ key \in Rows
  BY CallShapes DEF IInv, AccountsTypeOK, ResolveUser, Open, Rows
<1>2. CASE owner[key] # None /\ Answer(p, owner[key]) /\ UNCHANGED tables
  <2>1. owner[key] \in Results
    BY <1>1, <1>2 DEF IInv, AccountsTypeOK, Maybe, Results
  <2>2. QED
    BY <1>2, <2>1, RefuseKeeps DEF Refuse
<1>3. ASSUME owner[key] = None, NEW a \in Accounts, status[a] = "new",
             status' = [status EXCEPT ![a] = "live"], owner' = [owner EXCEPT ![key] = a],
             Answer(p, a), UNCHANGED <<bought, worn, codes, expired>>
      PROVE  IInv'
  <2>1. TablesOK'
    BY <1>1, <1>3, Tables DEF TablesOK, Maybe
  <2>2. \A row \in Rows : owner'[row] = IF row = key THEN a ELSE owner[row]
    BY <1>3, Tables DEF TablesOK
  <2>3. \A r \in Runs : owner'[r] = owner[r]
    BY <1>1, <2>2, KeysApart DEF Rows
  <2>4. NoOverdraft'
    BY <1>3, <2>3, Tables, BalancesSame
  <2>5. \A b \in Accounts : status'[b] = IF b = a THEN "live" ELSE status[b]
    BY <1>3, Tables DEF TablesOK
  <2>6. Consistent'
    <3>1. \A row \in Rows : owner'[row] # None => status'[owner'[row]] = "live"
      BY <2>2, <2>5, Tables DEF IInv, Consistent, TablesOK, Maybe
    <3>2. \A b \in bought' : status'[b[1]] = "live"
      BY <1>3, <2>5, Tables DEF IInv, Consistent, TablesOK
    <3>3. \A x \in Codes : codes'[x] # None => status'[codes'[x]] = "live"
      BY <1>3, <2>5, Tables DEF IInv, Consistent, TablesOK, Maybe
    <3>4. QED
      BY <1>3, <2>4, <3>1, <3>2, <3>3 DEF IInv, Consistent, NoOverdraft
  <2>7. QED
    BY <1>3, <2>1, <2>3, <2>6, AnsweredKeeps DEF Results
<1>4. QED
  BY <1>2, <1>3 DEF ResolveUser

LEMMA RecordRunKeeps == ASSUME IInv, NEW p \in Calls, RecordRun(p) PROVE IInv'
<1> DEFINE user == call[p].user
           run == call[p].run
<1>1. user \in Accounts /\ run \in Runs /\ run \in Rows /\ owner[run] = None
  BY CallShapes DEF IInv, AccountsTypeOK, OneRecord, RecordRun, Open, Rows
<1>2. /\ status[user] = "live" /\ owner' = [owner EXCEPT ![run] = user]
      /\ Answer(p, "ok") /\ UNCHANGED <<status, bought, worn, codes, expired>>
  BY DEF RecordRun
<1>3. TablesOK'
  BY <1>1, <1>2, Tables DEF TablesOK, Maybe
<1>4. \A row \in Rows : owner'[row] = IF row = run THEN user ELSE owner[row]
  BY <1>2, Tables DEF TablesOK
<1>5. NoOverdraft'
  <2>1. ASSUME NEW a \in Accounts PROVE Balance(a)' >= 0
    <3>1. RunsOf(a) \subseteq RunsOf(a)' /\ RunsOf(a)' \subseteq Runs
      <4>1. a # None
        BY AccountsNone
      <4>2. QED
        BY <1>1, <1>4, <4>1 DEF RunsOf, Rows
    <3>2. Items(a)' = Items(a)
      BY <1>2 DEF Items
    <3>3. QED
      BY <3>1, <3>2, BalanceKept, Tables DEF NoOverdraft
  <2>2. QED
    BY <2>1 DEF NoOverdraft
<1>6. Consistent'
  <2>1. \A row \in Rows : owner'[row] # None => status'[owner'[row]] = "live"
    BY <1>2, <1>4 DEF IInv, Consistent
  <2>2. QED
    BY <1>2, <1>5, <2>1 DEF IInv, Consistent, NoOverdraft
<1>7. AccountsTypeOK' /\ OneRecord'
  <2>1. /\ call' = call /\ answer' \in [Calls -> Maybe(Results)]
        /\ \A q \in Calls : answer'[q] = None => answer[q] = None /\ q # p
    BY <1>2, AnswerGiven DEF IInv, Results
  <2>2. AccountsTypeOK'
    BY <1>3, <2>1 DEF IInv, AccountsTypeOK, TablesOK, Results
  <2>3. \A q \in Calls : q # p /\ call[q].op = "record" => call[q].run # run /\ call[q].run \in Runs
    BY CallShapes DEF IInv, AccountsTypeOK, OneRecord, RecordRun, Open
  <2>4. OneRecord'
    BY <1>4, <2>1, <2>3 DEF IInv, OneRecord, Rows
  <2>5. QED
    BY <2>2, <2>4
<1>8. QED
  BY <1>6, <1>7 DEF IInv

LEMMA BuyKeeps == ASSUME IInv, NEW p \in Calls, Buy(p) PROVE IInv'
<1> DEFINE user == call[p].user
           item == call[p].item
<1>1. user \in Accounts /\ item \in Cosmetics
  BY CallShapes DEF IInv, AccountsTypeOK, Buy, Open
<1>2. CASE Refuse(p, "already_owned") \/ Refuse(p, "insufficient")
  BY <1>2, RefuseKeeps DEF Results, Refusals
<1>3. CASE /\ ~Owns(user, item) /\ Balance(user) >= 1
           /\ bought' = bought \cup {<<user, item>>}
           /\ Answer(p, "ok")
           /\ UNCHANGED <<status, owner, worn, codes, expired>>
  <2>1. TablesOK'
    BY <1>1, <1>3, Tables DEF TablesOK
  <2>2. \A a : RunsOf(a)' = RunsOf(a)
    BY <1>3 DEF RunsOf
  <2>3. ASSUME NEW a \in Accounts PROVE Balance(a)' >= 0
    <3>1. CASE a = user
      <4>1. Items(a)' = Items(a) \cup {item} /\ item \notin Items(a)
        BY <1>1, <1>3, <3>1 DEF Items, Owns
      <4>2. Cardinality(Items(a)') = Cardinality(Items(a)) + 1
        BY <4>1, BalanceCounts, FS_AddElement
      <4>3. Balance(a) >= 1 /\ RunsOf(a)' = RunsOf(a)
        BY <1>3, <2>2, <3>1
      <4>4. QED
        BY <4>2, <4>3, BalanceCounts DEF Balance
    <3>2. CASE a # user
      <4>1. Items(a)' = Items(a)
        BY <1>3, <3>2 DEF Items
      <4>2. QED
        BY <2>2, <4>1, Tables DEF Balance, NoOverdraft
    <3>3. QED
      BY <3>1, <3>2
  <2>4. status[user] = "live"
    <3>1. RunsOf(user) # {}
      BY <1>3, BalanceCounts, FS_EmptySet DEF Balance
    <3>2. QED
      BY <1>1, <3>1, AccountsNone DEF IInv, Consistent, RunsOf, Rows
  <2>5. Consistent'
    BY <1>3, <2>3, <2>4 DEF IInv, Consistent
  <2>6. QED
    BY <1>3, <2>1, <2>5, AnsweredKeeps DEF Results
<1>4. QED
  BY <1>2, <1>3 DEF Buy

LEMMA EquipKeeps == ASSUME IInv, NEW p \in Calls, Equip(p) PROVE IInv'
<1> DEFINE user == call[p].user
           item == call[p].item
           slot == call[p].slot
<1>1. user \in Accounts /\ item \in Maybe(Cosmetics) /\ (item # None => SlotOf[item] = slot)
  BY CallShapes DEF IInv, AccountsTypeOK, Equip, Open
<1>2. CASE Refuse(p, "not_owned")
  BY <1>2, RefuseKeeps DEF Results, Refusals
<1>3. CASE /\ item # None => Owns(user, item)
           /\ worn' = Wearing(user, slot, item)
           /\ Answer(p, "ok")
           /\ UNCHANGED <<status, owner, bought, codes, expired>>
  <2>1. worn' \subseteq bought
    BY <1>3, Tables DEF TablesOK, Wearing, Owns
  <2>2. TablesOK'
    BY <1>3, <2>1, Tables DEF TablesOK
  <2>3. \A v, w \in worn' : v[1] = w[1] /\ SlotOf[v[2]] = SlotOf[w[2]] => v = w
    BY <1>1, <1>3 DEF IInv, Consistent, Wearing
  <2>4. NoOverdraft'
    BY <1>3, BalancesSame, Tables
  <2>5. Consistent'
    BY <1>3, <2>3, <2>4 DEF IInv, Consistent, NoOverdraft
  <2>6. QED
    BY <1>3, <2>2, <2>5, AnsweredKeeps DEF Results
<1>4. QED
  BY <1>2, <1>3 DEF Equip

LEMMA CreateLinkCodeKeeps == ASSUME IInv, NEW p \in Calls, CreateLinkCode(p) PROVE IInv'
<1>1. call[p].user \in Accounts
  BY CallShapes DEF IInv, AccountsTypeOK, CreateLinkCode, Open
<1>2. PICK x \in Codes : codes[x] = None /\ codes' = [codes EXCEPT ![x] = call[p].user]
  BY DEF CreateLinkCode
<1>3. /\ status[call[p].user] = "live" /\ Answer(p, "ok")
      /\ UNCHANGED <<status, owner, bought, worn, expired>>
  BY DEF CreateLinkCode
<1>4. \A y \in Codes : codes'[y] = IF y = x THEN call[p].user ELSE codes[y]
  BY <1>2, Tables DEF TablesOK
<1>5. TablesOK'
  <2>1. call[p].user # None
    BY <1>1, AccountsNone
  <2>2. QED
    BY <1>1, <1>2, <1>3, <1>4, <2>1, Tables DEF TablesOK, Maybe
<1>6. NoOverdraft'
  BY <1>3, BalancesSame, Tables
<1>7. Consistent'
  <2>1. \A y \in Codes : codes'[y] # None => status'[codes'[y]] = "live"
    BY <1>3, <1>4 DEF IInv, Consistent
  <2>2. QED
    BY <1>3, <1>6, <2>1 DEF IInv, Consistent, NoOverdraft
<1>8. QED
  BY <1>3, <1>5, <1>7, AnsweredKeeps DEF Results

-----------------------------------------------------------------------------
(* Redeeming a code.                                                       *)

(* The codes that stay lead where they led. *)
LEMMA SpendKeeps ==
  ASSUME TablesOK, NEW code, NEW source, Spend(code, source)
  PROVE  /\ codes' \in [Codes -> Maybe(Accounts)]
         /\ expired' \in SUBSET {x \in Codes : codes'[x] # None}
         /\ \A x \in Codes : codes'[x] # None => codes'[x] = codes[x] /\ codes[x] # source
BY DEF TablesOK, Spend, Maybe

(* A merge takes nothing from anybody: the target has what both earned, and *)
(* bought at most what both bought.                                         *)
LEMMA MergeBalances ==
  ASSUME TablesOK, NoOverdraft, NEW source \in Accounts, NEW target \in Accounts,
         source # target, Merge(source, target)
  PROVE  NoOverdraft'
<1>1. source # None /\ target # None
  BY AccountsNone
<1>2. \A row \in Rows : owner'[row] = IF owner[row] = source THEN target ELSE owner[row]
  BY DEF Merge
<1>3. bought' = {b \in bought : b[1] # source} \cup {<<target, c>> : c \in Items(source)}
  BY DEF Merge
<1>4. ASSUME NEW a \in Accounts PROVE Balance(a)' >= 0
  <2>1. CASE a = source
    <3>1. RunsOf(a)' = {} /\ Items(a)' = {}
      BY <1>2, <1>3, <2>1 DEF RunsOf, Items, Rows
    <3>2. QED
      BY <3>1, FS_EmptySet DEF Balance
  <2>2. CASE a = target
    <3>1. RunsOf(a)' = RunsOf(target) \cup RunsOf(source) /\ RunsOf(target) \cap RunsOf(source) = {}
      BY <1>2, <2>2 DEF RunsOf, Rows
    <3>2. Items(a)' = Items(target) \cup Items(source)
      BY <1>3, <2>2 DEF Items
    <3>3. Cardinality(RunsOf(a)') = Cardinality(RunsOf(target)) + Cardinality(RunsOf(source))
      BY <3>1, BalanceCounts, UnionCounts
    <3>4. Cardinality(Items(a)') <= Cardinality(Items(target)) + Cardinality(Items(source))
      BY <3>2, BalanceCounts, UnionCounts
    <3>5. IsFiniteSet(Items(a)')
      BY <3>2, BalanceCounts, FS_Union
    <3>6. Cardinality(Items(a)') \in Nat
      BY <3>5, FS_CardinalityType
    <3>7. Balance(target) >= 0 /\ Balance(source) >= 0
      BY DEF NoOverdraft
    <3>8. QED
      BY <3>3, <3>4, <3>6, <3>7, BalanceCounts DEF Balance
  <2>3. CASE a # source /\ a # target
    <3>1. RunsOf(a)' = RunsOf(a)
      BY <1>2, <2>3 DEF RunsOf, Rows
    <3>2. Items(a)' = Items(a)
      BY <1>3, <2>3 DEF Items
    <3>3. QED
      BY <3>1, <3>2 DEF NoOverdraft, Balance
  <2>4. QED
    BY <2>1, <2>2, <2>3
<1>5. QED
  BY <1>4 DEF NoOverdraft

(* The merge itself: rows and codes that survive lead to live accounts.     *)
LEMMA MergeKeeps ==
  ASSUME IInv, NEW p \in Calls, NEW code, NEW source \in Accounts, NEW target \in Accounts,
         source # target, status[target] = "live",
         Merge(source, target), Spend(code, source), Answer(p, target)
  PROVE  IInv'
<1>1. source # None /\ target # None
  BY AccountsNone
<1>2. \A row \in Rows : owner'[row] = IF owner[row] = source THEN target ELSE owner[row]
  BY DEF Merge
<1>3. /\ bought' = {b \in bought : b[1] # source} \cup {<<target, c>> : c \in Items(source)}
      /\ worn' = {w \in worn : w[1] # source}
      /\ status' = [status EXCEPT ![source] = "gone"]
  BY DEF Merge
<1>4. \A a \in Accounts : status'[a] = IF a = source THEN "gone" ELSE status[a]
  BY <1>3, Tables DEF TablesOK
<1>5. /\ codes' \in [Codes -> Maybe(Accounts)]
      /\ expired' \in SUBSET {x \in Codes : codes'[x] # None}
      /\ \A x \in Codes : codes'[x] # None => codes'[x] = codes[x] /\ codes[x] # source
  BY SpendKeeps, Tables
<1>6. TablesOK'
  <2>1. status' \in [Accounts -> {"new", "live", "gone"}]
    BY <1>3, Tables DEF TablesOK
  <2>2. owner' \in [Rows -> Maybe(Accounts)]
    <3>1. owner' = [row \in Rows |-> IF owner[row] = source THEN target ELSE owner[row]]
      BY DEF Merge
    <3>2. QED
      BY <3>1, Tables DEF TablesOK, Maybe
  <2>3. bought' \subseteq Accounts \X Cosmetics
    <3>1. {<<target, c>> : c \in Items(source)} \subseteq Accounts \X Cosmetics
      <4>1. ASSUME NEW c \in Items(source) PROVE <<target, c>> \in Accounts \X Cosmetics
        BY DEF Items
      <4>2. QED
        BY <4>1, Zenon
    <3>2. {b \in bought : b[1] # source} \subseteq Accounts \X Cosmetics
      BY Tables DEF TablesOK
    <3>3. QED
      BY <1>3, <3>1, <3>2, Zenon
  <2>4. worn' \subseteq bought'
    BY <1>3, Tables DEF TablesOK
  <2>5. QED
    BY <1>5, <2>1, <2>2, <2>3, <2>4 DEF TablesOK
<1>7. Consistent'
  <2>1. \A row \in Rows : owner'[row] # None => status'[owner'[row]] = "live"
    BY <1>2, <1>4, Tables DEF IInv, Consistent, TablesOK, Maybe
  <2>2. ASSUME NEW b \in bought' PROVE status'[b[1]] = "live"
    <3>1. CASE b \in bought /\ b[1] # source
      BY <1>4, <3>1, Tables DEF IInv, Consistent, TablesOK
    <3>2. CASE b[1] = target
      BY <1>4, <3>2
    <3>3. QED
      BY <1>3, <3>1, <3>2
  <2>3. \A x \in Codes : codes'[x] # None => status'[codes'[x]] = "live"
    BY <1>4, <1>5 DEF IInv, Consistent, Maybe
  <2>4. \A v, w \in worn' : v[1] = w[1] /\ SlotOf[v[2]] = SlotOf[w[2]] => v = w
    BY <1>3 DEF IInv, Consistent
  <2>5. NoOverdraft'
    BY MergeBalances, Tables
  <2>6. QED
    BY <2>1, <2>2, <2>3, <2>4, <2>5 DEF Consistent, NoOverdraft
<1>8. \A r \in Runs : owner[r] = None => owner'[r] = None
  BY <1>1, <1>2 DEF Rows
<1>9. QED
  BY <1>6, <1>7, <1>8, AnsweredKeeps DEF Results

LEMMA RedeemLinkCodeKeeps == ASSUME IInv, NEW p \in Calls, RedeemLinkCode(p) PROVE IInv'
<1> DEFINE code == call[p].code
           key == call[p].key
           target == codes[code]
           source == owner[key]
<1>1. code \in Codes /\ key \in Keys /\ key \in Rows
  BY CallShapes DEF IInv, AccountsTypeOK, RedeemLinkCode, Open, Rows
<1>2. target \in Maybe(Accounts) /\ source \in Maybe(Accounts)
  BY <1>1, Tables DEF TablesOK
<1>3. target # None => target \in Accounts /\ status[target] = "live"
  BY <1>1, <1>2 DEF IInv, Consistent, Maybe
<1>4. CASE Refuse(p, "unknown_code")
  BY <1>4, RefuseKeeps DEF Results, Refusals
<1>5. CASE /\ Spend(code, None) /\ Answer(p, "expired_code")
           /\ UNCHANGED <<status, owner, bought, worn>>
  <2>1. /\ codes' \in [Codes -> Maybe(Accounts)]
        /\ expired' \in SUBSET {x \in Codes : codes'[x] # None}
        /\ \A x \in Codes : codes'[x] # None => codes'[x] = codes[x]
    BY <1>5, SpendKeeps, Tables
  <2>2. TablesOK'
    BY <1>5, <2>1, Tables DEF TablesOK
  <2>3. NoOverdraft'
    BY <1>5, BalancesSame, Tables
  <2>4. Consistent'
    BY <1>5, <2>1, <2>3 DEF IInv, Consistent, NoOverdraft
  <2>5. QED
    BY <1>5, <2>2, <2>4, AnsweredKeeps DEF Results, Refusals
<1>6. CASE /\ target # None
           /\ owner' = [owner EXCEPT ![key] = target]
           /\ Spend(code, None) /\ Answer(p, target)
           /\ UNCHANGED <<status, bought, worn>>
  <2>1. /\ codes' \in [Codes -> Maybe(Accounts)]
        /\ expired' \in SUBSET {x \in Codes : codes'[x] # None}
        /\ \A x \in Codes : codes'[x] # None => codes'[x] = codes[x]
    BY <1>6, SpendKeeps, Tables
  <2>2. \A row \in Rows : owner'[row] = IF row = key THEN target ELSE owner[row]
    BY <1>6, Tables DEF TablesOK
  <2>3. \A r \in Runs : owner'[r] = owner[r]
    BY <1>1, <2>2, KeysApart DEF Rows
  <2>4. TablesOK'
    BY <1>1, <1>2, <1>6, <2>1, Tables DEF TablesOK
  <2>5. NoOverdraft'
    BY <1>6, <2>3, BalancesSame, Tables
  <2>6. \A row \in Rows : owner'[row] # None => status'[owner'[row]] = "live"
    BY <1>3, <1>6, <2>2 DEF IInv, Consistent
  <2>7. Consistent'
    BY <1>6, <2>1, <2>5, <2>6 DEF IInv, Consistent, NoOverdraft
  <2>8. target \in Results
    BY <1>3, <1>6 DEF Results
  <2>9. QED
    BY <1>6, <2>3, <2>4, <2>7, <2>8, AnsweredKeeps
<1>7. CASE /\ target # None /\ source \notin {None, target}
           /\ Merge(source, target) /\ Spend(code, source) /\ Answer(p, target)
  <2>1. source \in Accounts
    BY <1>2, <1>7 DEF Maybe
  <2>2. QED
    BY <1>3, <1>7, <2>1, MergeKeeps
<1>8. QED
  BY <1>4, <1>5, <1>6, <1>7 DEF RedeemLinkCode

-----------------------------------------------------------------------------
(* Link codes age without being asked.                                     *)

LEMMA ExpireKeeps == ASSUME IInv, NEW x \in Codes, Expire(x) PROVE IInv'
<1>1. /\ codes[x] # None /\ expired' = expired \cup {x}
      /\ UNCHANGED <<status, owner, bought, worn, codes, call, answer>>
  BY DEF Expire
<1>2. AccountsTypeOK'
  BY <1>1 DEF IInv, AccountsTypeOK
<1>3. NoOverdraft'
  BY <1>1, BalancesSame, Tables
<1>4. QED
  BY <1>1, <1>2, <1>3 DEF IInv, Consistent, OneRecord, NoOverdraft

LEMMA SweepKeeps == ASSUME IInv, Sweep PROVE IInv'
<1>1. /\ codes' = [x \in Codes |-> IF x \in expired THEN None ELSE codes[x]] /\ expired' = {}
      /\ UNCHANGED <<status, owner, bought, worn, call, answer>>
  BY DEF Sweep
<1>2. AccountsTypeOK'
  BY <1>1 DEF IInv, AccountsTypeOK, Maybe
<1>3. NoOverdraft'
  BY <1>1, BalancesSame, Tables
<1>4. \A x \in Codes : codes'[x] # None => status'[codes'[x]] = "live"
  BY <1>1 DEF IInv, Consistent
<1>5. QED
  BY <1>1, <1>2, <1>3, <1>4 DEF IInv, Consistent, OneRecord, NoOverdraft

-----------------------------------------------------------------------------

LEMMA IInvStep ==
  ASSUME IInv, [RepositoryNext]_<<tables, call, answer>>
  PROVE  IInv'
<1>1. ASSUME NEW p \in Calls, RepositoryStep(p) PROVE IInv'
  <2>1. CASE Ask(p)
    BY <2>1, AskKeeps
  <2>2. CASE ResolveUser(p)
    BY <2>2, ResolveUserKeeps
  <2>3. CASE RecordRun(p)
    BY <2>3, RecordRunKeeps
  <2>4. CASE Buy(p)
    BY <2>4, BuyKeeps
  <2>5. CASE Equip(p)
    BY <2>5, EquipKeeps
  <2>6. CASE CreateLinkCode(p)
    BY <2>6, CreateLinkCodeKeeps
  <2>7. CASE RedeemLinkCode(p)
    BY <2>7, RedeemLinkCodeKeeps
  <2>8. CASE Fail(p)
    BY <2>8, RefuseKeeps DEF Fail, Results, Refusals
  <2>9. QED
    BY <1>1, <2>1, <2>2, <2>3, <2>4, <2>5, <2>6, <2>7, <2>8 DEF RepositoryStep
<1>2. ASSUME NEW x \in Codes, Expire(x) PROVE IInv'
  BY <1>2, ExpireKeeps
<1>3. CASE Sweep
  BY <1>3, SweepKeeps
<1>4. CASE UNCHANGED <<tables, call, answer>>
  <2>1. NoOverdraft'
    BY <1>4, BalancesSame, Tables DEF tables
  <2>2. UNCHANGED <<status, owner, bought, worn, codes, expired, call, answer>>
    BY <1>4 DEF tables
  <2>3. QED
    BY <2>1, <2>2 DEF IInv, AccountsTypeOK, Consistent, OneRecord, NoOverdraft
<1>5. QED
  BY <1>1, <1>2, <1>3, <1>4 DEF RepositoryNext

LEMMA IInvInit == RepositoryInit => IInv
BY DEF RepositoryInit, Quiet, IInv, OneRecord, NoCall

LEMMA Invariance == RepositorySpec => []IInv
<1>1. IInv /\ [RepositoryNext]_<<tables, call, answer>> => IInv'
  BY IInvStep
<1>2. QED
  BY <1>1, IInvInit, PTL DEF RepositorySpec

(***************************************************************************)
(* Whatever is asked of the repository, rows, purchases and codes belong to *)
(* live accounts, nobody wears two things in one slot or has spent more     *)
(* than they earned: for any accounts, runs, cosmetics and calls.           *)
(***************************************************************************)
THEOREM ConsistentTheorem == RepositorySpec => [](AccountsTypeOK /\ Consistent)
<1>1. IInv => AccountsTypeOK /\ Consistent
  BY DEF IInv
<1>2. QED
  BY <1>1, Invariance, PTL

(* Nobody ever spends more than they earned, merged accounts included. *)
THEOREM OverdraftTheorem == RepositorySpec => []NoOverdraft
<1>1. IInv => NoOverdraft
  BY Tables
<1>2. QED
  BY <1>1, Invariance, PTL
=============================================================================
