------------------------------ MODULE Accounts ------------------------------
(***************************************************************************)
(* What a store.Repository keeps (internal/store): accounts, the keys that  *)
(* reach them, their runs, the cosmetics they bought and wear, link codes.  *)
(* Repository is the contract and PgRepository the Postgres implementation; *)
(* both are about these tables and the calls made on them.                  *)
(*                                                                         *)
(* Every run pays one byte and every cosmetic costs one.                    *)
(***************************************************************************)
EXTENDS Integers, FiniteSets

CONSTANTS
  Accounts,   \* account ids, NewID's included: one is never drawn twice
  Keys,       \* fingerprints
  Runs,
  Cosmetics,
  SlotOf,     \* the slot of each cosmetic
  Codes,      \* link codes
  Calls,      \* calls made on the repository, each of them once
  None

ASSUME AccountsDisjoint == Runs \cap Keys = {}
ASSUME AccountsFinite == IsFiniteSet(Runs) /\ IsFiniteSet(Cosmetics)

VARIABLES
  status,    \* of each account: new (no such id yet), live, gone (merged away)
  owner,     \* the account a run or a key belongs to
  bought,    \* <<account, cosmetic>> pairs
  worn,      \* those of them equipped
  codes,     \* the account a link code leads to
  expired,   \* the codes past their time
  call,      \* what each call asks for
  answer     \* what it returned

tables == <<status, owner, bought, worn, codes, expired>>

Rows == Runs \cup Keys
Slots == {SlotOf[c] : c \in Cosmetics}
Maybe(S) == S \cup {None}

NoCall == [op |-> "none"]

(* The userID of a call is one ResolveUser or RedeemLinkCode gave out.      *)
AskResolve == [op : {"resolve"}, key : Keys]
AskRecord == [op : {"record"}, user : Accounts, run : Runs]
AskBuy == [op : {"buy"}, user : Accounts, item : Cosmetics]
AskEquip == {c \in [op : {"equip"}, user : Accounts, slot : Slots, item : Maybe(Cosmetics)] :
               c.item # None => SlotOf[c.item] = c.slot}
AskCode == [op : {"code"}, user : Accounts]
AskRedeem == [op : {"redeem"}, code : Codes, key : Keys]

Requests == AskResolve \cup AskRecord \cup AskBuy \cup AskEquip \cup AskCode \cup AskRedeem

Refusals == {"already_owned", "insufficient", "not_owned", "unknown_code", "expired_code", "failed"}

ASSUME AccountsNone ==
  None \notin Accounts \cup Keys \cup Codes \cup Cosmetics \cup Refusals \cup {"ok"}

AccountsTypeOK ==
  /\ status \in [Accounts -> {"new", "live", "gone"}]
  /\ owner \in [Rows -> Maybe(Accounts)]
  /\ bought \in SUBSET (Accounts \X Cosmetics)
  /\ worn \in SUBSET bought
  /\ codes \in [Codes -> Maybe(Accounts)]
  /\ expired \in SUBSET {x \in Codes : codes[x] # None}
  /\ call \in [Calls -> Requests \cup {NoCall}]
  /\ answer \in [Calls -> Maybe(Accounts \cup Refusals \cup {"ok"})]

-----------------------------------------------------------------------------

RunsOf(a) == {r \in Runs : owner[r] = a}
KeysOf(a) == {k \in Keys : owner[k] = a}
Items(a) == {c \in Cosmetics : <<a, c>> \in bought}

Owns(a, c) == <<a, c>> \in bought

Balance(a) == Cardinality(RunsOf(a)) - Cardinality(Items(a))

(* What a gets to wear in the slot, after taking off what it wore there.    *)
Wearing(a, slot, item) ==
  {w \in worn : ~(w[1] = a /\ SlotOf[w[2]] = slot)}
    \cup (IF item = None THEN {} ELSE {<<a, item>>})

(* A database as the last server left it: rows belong to live accounts,     *)
(* nobody spent more than they earned or wears two things in one slot.      *)
Consistent ==
  /\ \A row \in Rows : owner[row] # None => status[owner[row]] = "live"
  /\ \A b \in bought : status[b[1]] = "live"
  /\ \A x \in Codes : codes[x] # None => status[codes[x]] = "live"
  /\ \A v, w \in worn : v[1] = w[1] /\ SlotOf[v[2]] = SlotOf[w[2]] => v = w
  /\ \A a \in Accounts : Balance(a) >= 0

Quiet ==
  /\ AccountsTypeOK
  /\ Consistent
  /\ expired = {}
  /\ call = [p \in Calls |-> NoCall]
  /\ answer = [p \in Calls |-> None]

-----------------------------------------------------------------------------

(* A session may hold the id of an account that was merged away; a run is    *)
(* recorded by one call.                                                    *)
MayAsk(request) ==
  /\ request.op \in {"record", "buy", "equip", "code"} => status[request.user] # "new"
  /\ request.op = "record" =>
       /\ owner[request.run] = None
       /\ \A q \in Calls : call[q].op = "record" => call[q].run # request.run

Ask(p) ==
  /\ call[p] = NoCall
  /\ \E request \in Requests :
       /\ MayAsk(request)
       /\ call' = [call EXCEPT ![p] = request]
  /\ UNCHANGED <<tables, answer>>

Open(p, op) == call[p].op = op /\ answer[p] = None

Answer(p, result) ==
  /\ answer' = [answer EXCEPT ![p] = result]
  /\ UNCHANGED call

-----------------------------------------------------------------------------

(* store.go, Balance: everything earned less everything bought. Sessions    *)
(* that buy at once and accounts that merge meanwhile never overspend: the  *)
(* contract's never, the transactions' where merges do not meet (Apart in   *)
(* PgRepository); a chain of merges can leave a debt.                       *)
NoOverdraft == \A a \in Accounts : Balance(a) >= 0
=============================================================================
