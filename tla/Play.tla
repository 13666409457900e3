-------------------------------- MODULE Play --------------------------------
(***************************************************************************)
(* A session that types for bytes and spends them (internal/ui: practice,   *)
(* race, shop, link, tracking): its update loop, the commands it starts on  *)
(* goroutines of their own, the queue its runs are written from, and the    *)
(* accounts behind it, which another session may be spending from.          *)
(*                                                                         *)
(* The results of an attempt are one screen, practised or raced, and the    *)
(* lobbies one is looked for in are part of the menu.                       *)
(*                                                                         *)
(* A command's answer goes to whatever screen is up when it comes. Moving   *)
(* between screens is one step (Sessions has it in two). The repository's   *)
(* calls are atomic (PgRepository), and one that fails did nothing.         *)
(***************************************************************************)
EXTENDS Typing, Economy, SequencesExt

CONSTANTS
  Own,            \* the account of this session's key
  None,           \* no account: the session is anonymous
  Other,          \* an account of the same person, with a link code to type in
  Cosmetics,
  SlotOf,         \* the slot of each cosmetic
  Price,          \* and its price
  Saved,          \* what each account earned so far
  QueueSize,
  \* Bounds.
  Draws,          \* the base payouts drawn
  WPMs,           \* the speeds an attempt ends with
  MaxRacers,
  MaxKeystrokes,  \* per attempt
  MaxAttempts,
  MaxCommands     \* commands the session starts

ASSUME AccountsDiffer == Own # Other /\ None \notin {Own, Other}

Accounts == {Own, Other}

(* The catalogue charges for everything in it, and nobody earned less than  *)
(* nothing.                                                                 *)
ASSUME PricesAssumption ==
  /\ IsFiniteSet(Cosmetics) /\ Cosmetics # {}
  /\ Price \in [Cosmetics -> Nat \ {0}]
  /\ Saved \in [Accounts -> Nat]

ASSUME PlayBounds == {QueueSize, MaxCommands} \subseteq Nat /\ WPMs \subseteq Int /\ MaxRacers \in Int

VARIABLES
  screen,    \* the one that is up
  raced,     \* Race.finished
  shop,      \* Shop's loading, busy, err and wallet
  ctx,       \* Context: the account, its balance, what it wears
  commands,  \* commands under way, or answered and not yet delivered
  queue,     \* store.Async: runs to write
  accounts,  \* of each account: earned, owned, worn
  merged,    \* accounts that are no more
  known,     \* the balance on show came from the account
  lost,      \* bytes on show whose run was dropped or could not be written
  elsewhere, \* another session of the account has spent
  attempts, begun    \* bounds

vars == <<sess, screen, raced, shop, ctx, commands, queue, accounts, merged,
          known, lost, elsewhere, attempts, begun>>

bounds == <<attempts, begun>>
stored == <<accounts, merged>>
history == <<known, lost, elsewhere>>

-----------------------------------------------------------------------------
(* Accounts.                                                               *)

Spent(items) == MapThenSumSet(LAMBDA c : Price[c], items)

WalletOf(account) ==
  [balance |-> account.earned - Spent(account.owned), owned |-> account.owned, worn |-> account.worn]

BalanceOf(a) == WalletOf(accounts[a]).balance

NoWallet == [balance |-> 0, owned |-> {}, worn |-> {}]

Wallets == [balance : Int, owned : SUBSET Cosmetics, worn : SUBSET Cosmetics]

Gains(a, c) == [accounts EXCEPT ![a].owned = @ \cup {c}]

Wears(a, slot, items) ==
  [accounts EXCEPT ![a].worn = {w \in @ : SlotOf[w] # slot} \cup items]

(* What both earned and own; a cosmetic both bought is paid for once.       *)
Merge(source, target) ==
  [accounts EXCEPT
     ![target].earned = @ + accounts[source].earned,
     ![target].owned = @ \cup accounts[source].owned,
     ![source] = [earned |-> 0, owned |-> {}, worn |-> {}]]

-----------------------------------------------------------------------------
(* The session.                                                            *)

Screens == {"menu", "practice", "race", "results", "shop", "link"}

CommandKinds == {"load", "buy", "equip", "redeem"}

(* A command goes from step to step; ahead counts the queued runs its flush *)
(* waits for. What it answers: a wallet, loaded or not, an error or none.   *)
Commands ==
  [id : 1..MaxCommands, kind : CommandKinds, user : Accounts, item : Cosmetics, wear : BOOLEAN,
   step : {"flush", "wallet", "buy", "equip", "redeem", "answered"}, ahead : 0..QueueSize,
   wallet : Wallets, loaded : BOOLEAN, error : {"none", "refusal", "error", "unread"}]

PlayTypeOK ==
  /\ sess \in Session
  /\ screen \in Screens
  /\ raced \in BOOLEAN
  /\ shop \in [loading : BOOLEAN, busy : BOOLEAN, error : BOOLEAN, wallet : Wallets]
  /\ ctx \in [user : Accounts \cup {None}, balance : Int, worn : SUBSET Cosmetics]
  /\ commands \subseteq Commands
  /\ \A d, e \in commands : d.id = e.id => d = e
  /\ queue \in Seq([user : Accounts, earned : Nat]) /\ Len(queue) <= QueueSize
  /\ accounts \in [Accounts -> [earned : Nat, owned : SUBSET Cosmetics, worn : SUBSET Cosmetics]]
  /\ merged \subseteq {Own}
  /\ lost \in Nat
  /\ {known, elsewhere} \subseteq BOOLEAN

ShopClosed == [loading |-> FALSE, busy |-> FALSE, error |-> FALSE, wallet |-> NoWallet]

(* Login looks up the account and reads its wallet, and goes on without     *)
(* either when it cannot.                                                   *)
PlayInit ==
  /\ sess = New(FALSE)
  /\ screen = "menu"
  /\ raced = FALSE
  /\ shop = ShopClosed
  /\ accounts = [a \in Accounts |-> [earned |-> Saved[a], owned |-> {}, worn |-> {}]]
  /\ known \in BOOLEAN
  /\ \E user \in IF known THEN {Own} ELSE {Own, None} :
       ctx = [user |-> user, balance |-> IF known THEN Saved[user] ELSE 0, worn |-> {}]
  /\ commands = {}
  /\ queue = <<>>
  /\ merged = {}
  /\ lost = 0
  /\ elsewhere = FALSE
  /\ attempts = 0
  /\ begun = 0

-----------------------------------------------------------------------------
(* Typing, and what a finished attempt pays.                               *)

Tracking == ctx.user # None

(* A mutant: the run is queued whether there is room or not.                *)
RecordFault(run) == queue' = Append(queue, run) /\ UNCHANGED lost

(* To the queue, or nowhere when that is full.                              *)
Record(run) ==
  LET fits == Len(queue) < QueueSize
  IN  /\ queue' = IF fits THEN Append(queue, run) ELSE queue
      /\ lost' = IF fits THEN lost ELSE lost + run.earned

(* The bytes go into the run and onto the balance. An anonymous session     *)
(* earns nothing and leaves no run.                                         *)
Earn(award) ==
  \/ ~Tracking /\ UNCHANGED <<ctx, queue, lost>>
  \/ /\ Tracking
     /\ ctx' = [ctx EXCEPT !.balance = @ + award.total]
     /\ Record([user |-> ctx.user, earned |-> award.total])

Begin(where, clock) ==
  /\ attempts < MaxAttempts
  /\ attempts' = attempts + 1
  /\ sess' = New(clock)
  /\ raced' = FALSE
  /\ screen' = where
  /\ UNCHANGED <<shop, ctx, commands, queue, stored, history, begun>>

(* From the menu, the results or with tab on the practice screen.           *)
OpenPractice == screen \in {"menu", "results", "practice"} /\ Begin("practice", FALSE)

(* The lobby and its countdown are Lobby's and Sessions'.                   *)
StartRace == screen = "menu" /\ Begin("race", TRUE)

Leave ==
  /\ screen \in {"practice", "race", "results"}
  /\ screen' = "menu"
  /\ sess' = New(FALSE)
  /\ raced' = FALSE
  /\ UNCHANGED <<shop, ctx, commands, queue, stored, history, bounds>>

(* A key on the practice screen.                                            *)
PracticeKey ==
  /\ screen = "practice"
  /\ ~sess.finished
  /\ sess.keystrokes < MaxKeystrokes
  /\ \E right \in BOOLEAN :
       /\ sess' = Type(sess, right)
       /\ \/ ~sess'.finished /\ UNCHANGED <<screen, ctx, queue, lost>>
          \/ /\ sess'.finished
             /\ \E base \in PracticeBase \cap Draws, wpm \in WPMs :
                  Earn(AwardPractice(base, wpm, Accuracy(sess')))
             /\ screen' = "results"
  /\ UNCHANGED <<raced, shop, commands, stored, known, elsewhere, bounds>>

(* A key in a race; the last one tells the lobby.                           *)
RaceKey ==
  /\ screen = "race"
  /\ ~raced
  /\ sess.keystrokes < MaxKeystrokes
  /\ \E right \in BOOLEAN : sess' = Type(sess, right)
  /\ raced' = sess'.finished
  /\ UNCHANGED <<screen, shop, ctx, commands, queue, stored, history, bounds>>

BackspaceKey ==
  /\ screen \in {"practice", "race"}
  /\ ~sess.finished
  /\ sess' = Backspace(sess)
  /\ UNCHANGED <<screen, raced, shop, ctx, commands, queue, stored, history, bounds>>

(* The lobby's standings: this player is among the finishers, or was not    *)
(* done when the race ended. A place counts everyone who crossed, racers    *)
(* only those who have not left.                                            *)
RaceEnded ==
  /\ screen = "race"
  /\ \/ UNCHANGED <<ctx, queue, lost>>
     \/ /\ raced
        /\ \E base \in RaceBase \cap Draws, wpm \in WPMs, place, racers \in 1..MaxRacers :
             Earn(AwardRace(base, place, racers, wpm, Accuracy(sess)))
  /\ screen' = "results"
  /\ UNCHANGED <<sess, raced, shop, commands, stored, known, elsewhere, bounds>>

(* The queue's worker writes the oldest run. One whose account is no more   *)
(* is refused, and any write may fail: it is logged and gone.               *)
WriteRun ==
  /\ queue # <<>>
  /\ LET run == Head(queue) IN
       \/ /\ run.user \notin merged
          /\ accounts' = [accounts EXCEPT ![run.user].earned = @ + run.earned]
          /\ UNCHANGED lost
       \/ /\ lost' = lost + run.earned
          /\ UNCHANGED accounts
  /\ queue' = Tail(queue)
  /\ commands' = {[d EXCEPT !.ahead = IF @ > 0 THEN @ - 1 ELSE 0] : d \in commands}
  /\ UNCHANGED <<sess, screen, raced, shop, ctx, merged, known, elsewhere, bounds>>

-----------------------------------------------------------------------------
(* Commands.                                                               *)

Command(kind, item, wear, step) ==
  [id |-> begun + 1, kind |-> kind, user |-> ctx.user, item |-> item, wear |-> wear,
   step |-> step, ahead |-> Len(queue), wallet |-> NoWallet, loaded |-> FALSE, error |-> "none"]

AnyItem == CHOOSE c \in Cosmetics : TRUE

Start(command) ==
  /\ begun < MaxCommands
  /\ begun' = begun + 1
  /\ commands' = commands \cup {command}

(* A mutant: the wallet is read without waiting for the queued runs.        *)
LoadFault == Command("load", AnyItem, FALSE, "wallet")

Load == Command("load", AnyItem, FALSE, "flush")

OpenShop ==
  /\ screen = "menu" /\ Tracking
  /\ screen' = "shop"
  /\ shop' = [ShopClosed EXCEPT !.loading = TRUE]
  /\ Start(Load)
  /\ UNCHANGED <<sess, raced, ctx, queue, stored, history, attempts>>

Refresh ==
  /\ screen = "shop"
  /\ ~shop.busy
  /\ shop' = [shop EXCEPT !.loading = TRUE, !.error = FALSE]
  /\ Start(Load)
  /\ UNCHANGED <<sess, screen, raced, ctx, queue, stored, history, attempts>>

CloseShop ==
  /\ screen = "shop"
  /\ ~shop.busy
  /\ screen' = "menu"
  /\ shop' = ShopClosed
  /\ UNCHANGED <<sess, raced, ctx, commands, queue, stored, history, bounds>>

(* A mutant: enter waits for a wallet and not for its own last purchase.    *)
FreeToActFault == ~shop.loading

FreeToAct == ~shop.loading /\ ~shop.busy

(* Enter on a cosmetic: buy it, wear it, or put it away.                    *)
Act ==
  /\ screen = "shop"
  /\ FreeToAct
  /\ \E c \in Cosmetics :
       LET owned == c \in shop.wallet.owned
           worn == c \in shop.wallet.worn
       IN  /\ owned \/ shop.wallet.balance >= Price[c]
           /\ Start(Command(IF owned THEN "equip" ELSE "buy", c, ~worn,
                            IF owned THEN "equip" ELSE "buy"))
  /\ shop' = [shop EXCEPT !.busy = TRUE]
  /\ UNCHANGED <<sess, screen, raced, ctx, queue, stored, history, attempts>>

OpenLink ==
  /\ screen = "menu" /\ Tracking
  /\ screen' = "link"
  /\ UNCHANGED <<sess, raced, shop, ctx, commands, queue, stored, history, bounds>>

(* The code of the other account.                                           *)
EnterCode ==
  /\ screen = "link"
  /\ Start(Command("redeem", AnyItem, FALSE, "flush"))
  /\ UNCHANGED <<sess, screen, raced, shop, ctx, queue, stored, history, attempts>>

CloseLink ==
  /\ screen = "link"
  /\ screen' = "menu"
  /\ UNCHANGED <<sess, raced, shop, ctx, commands, queue, stored, history, bounds>>

(* One step of a command's goroutine: what it is afterwards.                *)
Becomes(d, e) == commands' = (commands \ {d}) \cup {e}

Answers(d, wallet) ==
  Becomes(d, [d EXCEPT !.step = "answered", !.wallet = wallet, !.loaded = TRUE])

Refuses(d) == Becomes(d, [d EXCEPT !.step = "answered", !.error = "refusal"])

Flushed(d) ==
  /\ d.step = "flush"
  /\ d.ahead = 0
  /\ Becomes(d, [d EXCEPT !.step = IF d.kind = "redeem" THEN "redeem" ELSE "wallet"])
  /\ UNCHANGED stored

ReadWallet(d) ==
  /\ d.step = "wallet"
  /\ Answers(d, WalletOf(accounts[d.user]))
  /\ UNCHANGED stored

(* A purchase is worn right away, by a second call.                         *)
Buy(d) ==
  /\ d.step = "buy"
  /\ \/ /\ d.item \in accounts[d.user].owned \/ BalanceOf(d.user) < Price[d.item]
        /\ Refuses(d)
        /\ UNCHANGED stored
     \/ /\ d.item \notin accounts[d.user].owned
        /\ BalanceOf(d.user) >= Price[d.item]
        /\ accounts' = Gains(d.user, d.item)
        /\ Becomes(d, [d EXCEPT !.step = "equip", !.wallet = WalletOf(accounts'[d.user]), !.loaded = TRUE])
        /\ UNCHANGED merged

Equip(d) ==
  /\ d.step = "equip"
  /\ \/ /\ d.wear /\ d.item \notin accounts[d.user].owned
        /\ Refuses(d)
        /\ UNCHANGED stored
     \/ /\ d.wear => d.item \in accounts[d.user].owned
        /\ accounts' = Wears(d.user, SlotOf[d.item], IF d.wear THEN {d.item} ELSE {})
        /\ Answers(d, WalletOf(accounts'[d.user]))
        /\ UNCHANGED merged

(* The key's account folds into the other one; a code of one's own changes  *)
(* nothing.                                                                 *)
Redeem(d) ==
  /\ d.step = "redeem"
  /\ accounts' = IF Own \in merged THEN accounts ELSE Merge(Own, Other)
  /\ merged' = {Own}
  /\ Becomes(d, [d EXCEPT !.step = "wallet", !.user = Other])

(* A timeout, a lost connection, a code that is wrong or too old.           *)
Fails(d) ==
  /\ d.step # "answered"
  /\ Becomes(d, [d EXCEPT !.step = "answered",
                          !.error = IF d.kind = "redeem" /\ d.step = "wallet"
                                    THEN "unread" ELSE "error"])
  /\ UNCHANGED stored

CommandStep(d) ==
  /\ Flushed(d) \/ ReadWallet(d) \/ Buy(d) \/ Equip(d) \/ Redeem(d) \/ Fails(d)
  /\ UNCHANGED <<sess, screen, raced, shop, ctx, queue, history, bounds>>

-----------------------------------------------------------------------------
(* Answers.                                                                *)

ApplyWallet(user, wallet) ==
  ctx' = [user |-> user, balance |-> wallet.balance, worn |-> wallet.worn]

ToShop(d) == screen = "shop" /\ d.kind \in {"load", "buy", "equip"}
ToLink(d) == screen = "link" /\ d.kind = "redeem"

(* A wallet, with or without an error beside it.                            *)
ShowWallet(d) ==
  /\ ToShop(d) /\ d.loaded
  /\ shop' = [ShopClosed EXCEPT !.wallet = d.wallet]
  /\ ApplyWallet(ctx.user, d.wallet)
  /\ known' = TRUE
  /\ lost' = 0
  /\ commands' = commands \ {d}

(* A refusal reads the wallet again. (It is the bounds' only exception: the *)
(* reload takes the place of the command it follows.)                       *)
ShowRefusal(d) ==
  /\ ToShop(d) /\ ~d.loaded /\ d.error = "refusal"
  /\ shop' = [shop EXCEPT !.loading = TRUE, !.busy = FALSE]
  /\ Becomes(d, [Load EXCEPT !.id = d.id])
  /\ UNCHANGED <<ctx, known, lost>>

(* A mutant: an error only puts its message on the screen.                  *)
ShowErrorFault(d) ==
  /\ ToShop(d) /\ ~d.loaded /\ d.error = "error"
  /\ shop' = [shop EXCEPT !.error = TRUE]
  /\ commands' = commands \ {d}
  /\ UNCHANGED <<ctx, known, lost>>

ShowError(d) ==
  /\ ToShop(d) /\ ~d.loaded /\ d.error = "error"
  /\ shop' = [shop EXCEPT !.loading = FALSE, !.busy = FALSE, !.error = TRUE]
  /\ commands' = commands \ {d}
  /\ UNCHANGED <<ctx, known, lost>>

Linked(d) ==
  /\ ToLink(d) /\ d.error # "error"
  /\ ApplyWallet(d.user, d.wallet)
  /\ known' = d.loaded
  /\ lost' = 0
  /\ commands' = commands \ {d}
  /\ UNCHANGED shop

(* A link that failed, and what comes to a screen that does not ask for it. *)
Dropped(d) ==
  /\ IF ToLink(d) THEN d.error = "error" ELSE ~ToShop(d)
  /\ commands' = commands \ {d}
  /\ UNCHANGED <<shop, ctx, known, lost>>

Deliver(d) ==
  /\ d.step = "answered"
  /\ ShowWallet(d) \/ ShowRefusal(d) \/ ShowError(d) \/ Linked(d) \/ Dropped(d)
  /\ UNCHANGED <<sess, screen, raced, queue, stored, elsewhere, bounds>>

(* Someone else at a second session of the account buys something.          *)
BuyElsewhere ==
  /\ ~elsewhere /\ Tracking
  /\ \E c \in Cosmetics :
       /\ c \notin accounts[ctx.user].owned
       /\ BalanceOf(ctx.user) >= Price[c]
       /\ accounts' = Gains(ctx.user, c)
  /\ elsewhere' = TRUE
  /\ UNCHANGED <<sess, screen, raced, shop, ctx, commands, queue, merged, known, lost, bounds>>

-----------------------------------------------------------------------------

Keys ==
  \/ OpenPractice \/ StartRace \/ Leave \/ PracticeKey \/ RaceKey \/ BackspaceKey
  \/ OpenShop \/ Refresh \/ CloseShop \/ Act \/ OpenLink \/ EnterCode \/ CloseLink

PlayNext ==
  \/ Keys
  \/ RaceEnded
  \/ WriteRun
  \/ \E d \in commands : CommandStep(d) \/ Deliver(d)
  \/ BuyElsewhere

PlaySpec == PlayInit /\ [][PlayNext]_vars

(* A typist who lets one read answer before starting the next, be it a      *)
(* wallet's or a code's, and does not leave the link screen while a code is *)
(* being redeemed. What keeps purchases apart is the shop's guards.         *)
Patient ==
  /\ Cardinality({d \in commands : d.kind \in {"load", "redeem"}}) <= 1
  /\ \A d \in commands : d.kind = "redeem" => screen = "link"

Progress(i) == \E d \in commands : d.id = i /\ (CommandStep(d) \/ Deliver(d))

(* The worker writes, the goroutines run, the program takes its messages.   *)
PlayFairness ==
  /\ WF_vars(WriteRun)
  /\ \A i \in 1..MaxCommands : WF_vars(Progress(i))

PatientSpec == PlayInit /\ [][PlayNext /\ Patient']_vars /\ PlayFairness

-----------------------------------------------------------------------------

Queued(a) == FoldSeq(LAMBDA run, sum : (IF run.user = a THEN run.earned ELSE 0) + sum, 0, queue)

(* tracking.go adds an award to the balance on show and hands the run to a  *)
(* queue; shop.go and link.go replace it by what they read. At rest the two *)
(* agree: what is shown is what the account has, what is queued for it, and *)
(* what could not be written since it was last read.                        *)
ShownIsStored ==
  commands = {} /\ known /\ ~elsewhere =>
    ctx.balance = BalanceOf(ctx.user) + Queued(ctx.user) + lost

Purchase(d) == d.kind \in {"buy", "equip"}

(* shop.go: busy is "a buy or an equip is in flight" and loading a read, so *)
(* that enter never spends twice and esc never abandons a purchase.         *)
BusyIsInFlight ==
  /\ screen = "shop" =>
       /\ shop.busy <=> \E d \in commands : Purchase(d)
       /\ shop.loading <=> \E d \in commands : d.kind = "load"
  /\ \A d \in commands : Purchase(d) => screen = "shop"
  /\ \A d, e \in commands : Purchase(d) /\ Purchase(e) => d = e

(* The shop always gets out of loading and busy, whether its command is     *)
(* answered, refused or times out.                                          *)
ShopSettles == shop.loading \/ shop.busy ~> screen # "shop" \/ ~(shop.loading \/ shop.busy)

(* link.go: "The session is now this account", which makes the next run     *)
(* record against it.                                                       *)
PlaysForALiveAccount == commands = {} => ctx.user \notin merged
=============================================================================
