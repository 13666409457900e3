# Verification of typesafe

typesafe is a typing game served over SSH: people connect with a key, type
passages alone or race each other in lobbies, earn bytes and spend them on
cosmetics. This directory holds TLA+ models of it, the TLC runs that check them
and theorems about them checked by TLAPS.

## 1. The system

| Component | Source | State | Operations |
|---|---|---|---|
| Lobby | `internal/lobby/lobby.go`, `race.go` | players, join order, host, phase, finishers, subscriptions, abort channel, under `Lobby.mu` | `Join`, `Leave`, `SetReady`, `SetFlair`, `Start`, `RecordProgress`, `Finish`, `Rematch`, `Subscribe`, `Unsubscribe`, `Snapshot`, `Results`; goroutines `runCountdown`/`beginRace` and `watchRaceDeadline` |
| Registry | `lobby.go` (`Store`) | code -> lobby, the generator, under `Store.mu` | `Create`, `Get`, `List`, `Len`, `remove` |
| Event delivery | `lobby.go`, `event.go`, `ui/ui.go` | one buffered channel and one pump goroutine per subscriber | `broadcastLocked` (drops when full), `Subscribe` (replaces), `closeSubLocked` |
| Background writer | `internal/store/async.go` | bounded queue, worker, `closed`, `RWMutex` | `RecordRun`, `Flush`, `Close`, `work` |
| Repository contract, in-memory | `store/store.go`, `memory.go` | users, keys, runs, purchases, link codes | `ResolveUser`, `RecordRun`, `Wallet`, `Buy`, `Equip`, `CreateLinkCode`, `RedeemLinkCode`, `Summary`, `RecentRuns` |
| Postgres repository | `store/pg/pg.go` | the same, in tables; advisory locks per account and per key | the same, one transaction each |
| Migrations | `store/pg/migrate.go` | `schema_migrations`, one advisory lock | `Migrate` |
| Session and screens | `internal/ui` | the active screen, `Context` (lobby, user, wallet), commands in flight | key and message handlers, `navigate`, `enterLobby`, `leaveLobby`, `Disconnect` |
| Shop, device linking | `ui/shop.go`, `ui/link.go` | wallet on show, busy/loading, a code | load, buy, equip; create and redeem a code |
| Typing engine | `internal/typing` | cursor, character states, counters | `Type`, `Backspace` |
| Economy | `internal/economy` | none | `AwardRace`, `AwardPractice` |
| Cosmetics, words | `internal/cosmetics`, `internal/words` | none | catalogue and passages |
| Server | `cmd/server/main.go` | repository, registry, sessions | login, shutdown |

**How they interact.** Each SSH session runs one Bubble Tea program, whose
update loop calls into a lobby synchronously. A lobby handler holds `Lobby.mu`
from beginning to end and publishes events with non-blocking sends; a pump
goroutine per session forwards them into the program. A lobby starts goroutines
of its own that sleep, take the lock again and act. The last player to leave
closes the lobby and, after releasing its lock, drops it from the registry; the
two locks are never held together. A session that finishes a race hands its run
to the background writer and goes on; a screen that needs the balance flushes
the writer, then reads. On shutdown the server waits for sessions up to a
timeout and then closes the writer and the pool whether they are gone or not.

**What is hard about it.** Goroutines that outlive the reason they were started
for; abort channels closed from several paths; membership changing under a
countdown, a race or its results; events dropped, late, or from a lobby the
session has left; keys pressed while a navigation or a command is in flight; a
queue, a barrier and a shutdown sharing one `RWMutex`; check-then-act in SQL
transactions, account merges against purchases and queued runs.
`PROJECT.json` lists each of these at its line under `hazards`, with the
properties that cover it or the reason why none does.

**What makes each component correct.**

- *Lobby*: the roster, its order and its host agree; nobody races who did not
  ready up; a countdown or a race never outlives its reason and always ends;
  places and standings are those of the crossing order, whoever left; no channel
  is closed twice and no goroutine leaks.
- *Registry*: a code names at most one live lobby; a lobby that closed is
  dropped and no other lobby is; nobody ends up in a lobby nobody can reach.
- *Event delivery, sessions*: a session in a lobby sees its events in order, is
  a member of at most the lobby it believes to be in, is released on disconnect,
  and its screen does not stay behind the lobby's phase for ever.
- *Background writer*: a flush means what it says; nothing accepted is lost at
  shutdown or written twice; nobody sends on the closed queue; everyone returns.
- *Repositories*: a key belongs to one account; a balance is earned less bought
  and never negative through buying; a cosmetic is owned once and worn once per
  slot; a code is used once; a merge loses no run, key or cosmetic.
- *Migrations*: each applied once, in order, however many servers start.
- *Shop, link*: the balance on show is the account's; the shop is busy exactly
  while it spends, and always settles; a linked session uses the account it was
  linked to.
- *Typing*: the counters agree with the characters on the line.
- *Economy*: a race pays more than practice, an earlier place more than a later.

## 2. Modules

| Module | Models | Composed with | Proofs |
|---|---|---|---|
| `RaceCycle` | what a lobby promises | | |
| `Lobby`, `LobbyProperties` | one lobby and its goroutines | implements `RaceCycle` | `LobbyProofs`, over `ListsAndSums` |
| `AsyncWrites`, `AsyncWritesProperties` | the background writer | | `AsyncWritesProofs` |
| `Sessions`, `SessionsProperties` | registry, event delivery, screens in and around lobbies | a lobby moves as `RaceCycle` says | `SessionsProofs` |
| `Accounts` | the tables of a repository and the calls on them | | |
| `Repository` | the contract, as `store.Memory` keeps it | extends `Accounts` | `RepositoryProofs` |
| `PgRepository` | the transactions of `pg.Repo` | extends `Accounts`, implements `Repository` | `PgRepositoryProofs` |
| `Migrations` | servers starting up | | `MigrationsProofs` |
| `Typing` | the keystroke engine | | `PlayProofs` |
| `Economy` | what an attempt pays | | `PlayProofs` |
| `Play` | a session that types, earns, shops and links | extends `Typing` and `Economy` | `PlayProofs` |

Each layer uses the one below through what that one was checked to promise:
`Sessions` and `Play` call lobbies and accounts in one step because the lobby's
lock and the repository's transactions make a call atomic, and `Play` queues its
runs because `AsyncWrites` shows what the queue does with them.

What would come next: `PgRepository` with a call's answer lost after its commit; the profile's summary
against the SQL that computes it.

## 3. Lobby

`Lobby.tla` models one lobby and the goroutines it starts. Every handler holds
the lock from its first line to its last, so each is one action; a call that
returns an error or returns early takes no step. State and code correspond name
by name: `players`, `order`, `hostID`, `phase`, `closed`, `finishers` and
`abort` are the fields, `ready`, `chars`, `finished` and `place` those of the
player records.

A goroutine is identified by the abort channel it holds, and `routine` says
where it is:

| `routine[c]` | code |
|---|---|
| `tick` | `runCountdown` before `l.mu.Lock()` (race.go:46) |
| `sleep` | its select (54-58) |
| `start` | before the lock in `beginRace` (64) |
| `watch` | `watchRaceDeadline`'s select (87) |
| `call` | its timer won; before the lock (90) |

`open` holds the channels made and not closed; a closed channel may be made
again once its goroutine is gone, which is how a finite pool stands for ever
new channels. Closing a channel does not stop its goroutine: the select may
take the timer if both are ready, and a goroutine past its select does not look
at the channel again. `CountdownTimer` and `DeadlineTimer` are therefore not
guarded by `open`.

Abstracted away: names, flair, seed, speed, accuracy and times; only the
position (`chars`) matters to the standings. A finisher stands at `PassageLen`,
as the screens report it. Events are left out: they change nothing in the
lobby. `SetFlair` changes decoration only.

`RaceCycle.tla` is what a lobby promises without hosts, readiness, locks or
goroutines: a stage, the racers present and the podium. `LobbyProperties.tla`
maps the lobby onto it. A closed lobby is "gone" whatever its phase says: a
goroutine may still move the phase of a closed lobby.

### Runs

| Run | Instance | States | Shows |
|---|---|---|---|
| `lobby` | `Spec`: 4 sessions, room for 3, countdown of 2, passage of 2, 2 channels | 143,392 | the safety invariants, refinement of `RaceCycle`, goroutines exit |
| `lobby_prompt` | `PromptSpec` | 2,790 | each race opened by its countdown, called by its deadline, and it ends |
| `lobby_stale` | 2 sessions, `Spec` | violation | `RaceEnds` fails |

Four sessions and room for three make the limit bite; three players are enough
for a countdown that survives one leaver and dies of the second, for a finisher
leaving between two others, and for a tie. A passage of 2 gives racers who fell
short different positions. Two channels allow the current goroutine and one left
over from a cancelled countdown, which is what it takes for the one to do the
other's work.

### Fairness and the prompt-exit assumption

`Fairness` is weak fairness of each goroutine: the scheduler runs it, the mutex
is granted (Go's mutex does not starve a waiter) and timers fire. Players owe
the lobby nothing, so nothing is assumed of handlers.

`PromptSpec` adds one assumption: a goroutine whose channel was closed is gone
before the next `Start`. Nothing in the code waits for it. In between people
have to join, ready up and press enter, so it holds in practice; but it is an
assumption, and `lobby_stale` shows what happens without it. `Leave` cancels the
countdown while its goroutine is past the select (or takes the timer over the
closed channel); someone joins, both ready up, the host starts; the stale
goroutine finds `phase == countdown` in `beginRace`, opens the race and watches
it on its own channel, which is closed, so the watcher returns. The new
countdown's goroutine finds the phase changed and returns. The race has no
deadline. The same trace exists when timers are not allowed to win over a closed
channel: being past the select is enough. Comparing the goroutine's channel with
`l.abort` under the lock would close the window.

### Proofs

`LobbyProofs.tla` proves the run's invariants for any finite set of sessions,
any limit, countdown, passage and set of channels. `LobbyInv`, the inductive invariant, conjoins them with what ties them
together: each conjunct needs others (places need the roster, the countdown
needs its open channel, the channel needs the phase), so none is inductive by
itself. One lemma per action, and under it one step per conjunct the action can
disturb. `ListsAndSums.tla` holds the facts about lists without repetition
(append, removing the first occurrence) the roster and the podium rest on.

It also proves the deadline properties under `PromptSpec`: the
invariant adds that every goroutine with a closed channel is one that cannot
meet a live countdown, from which `RaceHasDeadline` is inductive and the two
action properties follow step by step.

The last part of `LobbyProofs` proves `Spec => ImplementsRaceCycle`: under
`LobbyInv` each step of the lobby is a step of `RaceCycle` or a stutter. It holds
with the stale goroutines included.

`StandingsTheorem` follows from the invariant in any state. `Results` is stated
as the order a sort must reach, a list of all players with each standing above
the next, and the theorem holds of every such list. That there is one is what
the proof is about: the comparison of `resultsLocked` ranks any two players one
way and never in a circle (`StandingRanks`), because no two finishers share a
place (`PlacesAreThePodium`) and the join order names nobody twice
(`RosterAgrees`); a finite ranked set can be listed in order (`SortedExists` in
`ListsAndSums`); and the list has everybody (`ListsAll`).

Only model-checked: the liveness properties, which are out of TLAPS's reach.

## 4. Background writer

`AsyncWrites.tla` models `store.Async`. The queue is a log of everything ever
sent and the number of items received, which keeps "queued before this call"
expressible: a `Flush` remembers the log's length when it was called. The worker
is `receiving`, `handling` the item it took last, or `stopped`.

The lock is Go's `RWMutex` as documented: a waiting writer keeps new readers
out and waits for those that are in. `RecordRun` holds the read lock for one
non-blocking step, so it is one action; `Flush` holds it from `FlushLock` until
it sent its barrier or gave up (`send`). A write is `stored` or `failed`: the
repository is external and `writeTimeout` bounds it. The case of a closed `done`
while a `Flush` holds the lock cannot arise (the worker stops only after `Close`
had the lock) and is left out. A call refused at its lock with `ErrClosed` is
`refused`.

### Runs

| Run | Instance | States | Shows |
|---|---|---|---|
| `async` | 3 runs, 1 flush, 2 closes, buffer 2 | 222,763 | the safety invariants; flushes and closes return |

Three runs overfill the queue, so drops, a flush waiting for room and a worker
busy with an earlier run all happen together with a shutdown; two closes cover
the call that finds the writer closed.

Fairness: the worker keeps going and each call goes on when it can. Nobody need
call and no context need expire; `FlushReturns` holds without expiry.

`RecordRun` can wait, which no property states: with the queue full, a `Flush`
holds the read lock waiting for room, `Close` waits for the lock, and a
`RecordRun` arriving now waits behind `Close`, for up to `writeTimeout` per
queued write, though the type's comment says recording never blocks. The three
can meet because `main.go` closes the repository when the shutdown timeout has
passed even if sessions are still running.

### Proofs

`AsyncWritesProofs.tla` proves the safety invariants for any sets of calls and
any buffer. The invariant adds that an item is attempted exactly when the worker
is done with it (`WorkerKeepsOrder`) and that a barrier lies behind everything
its flush saw (`BarrierIsBehind`): together they turn "the barrier was reached"
into "everything before the call was attempted".

Only model-checked: the liveness properties.

## 5. Sessions

`Sessions.tla` puts SSH sessions around a `Store`. A lobby is the part of it that
sessions meet: `phase` (with `Unborn` and `Closed`), `order`, `ready`, `subs`,
`code`; it moves through the race cycle that `Lobby.tla` is shown to implement,
without places, so a race may end at any time and a leaver may or may not end
it. The limit on players is left to `Lobby.tla`.

| State | Code |
|---|---|
| `registry`, `removing` | `Store.lobbies`; the lobby a session closed and has yet to `remove` (lobby.go:307-311) |
| `queue`, `pump`, `reader` | a subscriber's channel, whether it is open, whose it is |
| `held` | the event its pump took from the channel and is sending to the program |
| `screen`, `navs` | the active screen; the `navigateMsg`s on their way |
| `ctxLobby` | `Context.lobby` |
| `session` | the program runs, has ended, was cleaned up (`cleanupMiddleware`) |

Events are kept as what screens tell apart: `started`, `ended`, `waiting` (a
`LobbyUpdated` in `PhaseWaiting`) and `news` (the rest). `News` broadcasts at any
time what else a lobby sends, the `LobbyUpdated` that goes with another event
included. A channel whose pump has ended may be made again, so a finite pool
stands for new channels. `MaxNavs` and the sizes of the pools are bounds.

### Four specifications

`SessionsSpec` is the code: messages reach the update loop in any order. Three
assumptions narrow it:

- `Settled`: a navigation is delivered before the next key or event. It takes a
  goroutine switch, keys and events take milliseconds;
- `Drained`: nobody enters a lobby before the pump of the last one has ended;
- `KeepUp`: a broadcast finds room in every buffer. A session that is cut off is
  not held to it: its channel is closed whatever is buffered.

`SettledSpec` makes the first, `DrainedSpec` the first two, `SteadySpec` all
three. The code enforces none of them, and each is needed:

- without `Settled`, two creates leave a ghost (`sessions_keys`); and an event
  handled before the navigation to the screen it is for is lost to that screen,
  and `InStep` fails;
- without `Drained`, a `RaceStarted` of the lobby a session left, held by its
  old pump, takes the waiting room of its next lobby to a race there is none of:
  closing the channel ends the pump only after what is buffered was delivered,
  and an event does not say which lobby it is from. `InStep` fails;
- without `KeepUp`, a phase change lost to a full buffer strands a screen
  (`sessions_missed`).

So `InStep` and `CatchesUp` say that screens follow the events they get, each in
the lobby it is from. They say nothing of events out of their order or dropped.

`RegistryAgrees` and `ChannelsAgree` need none of them: they are proved of
`SessionsSpec`.

### Runs

| Run | Instance | States | Shows |
|---|---|---|---|
| `sessions` | `SteadySpec`: 2 sessions, 2 lobbies, 1 code, 2 channels, buffer 1 | 249,260 | safety, screens catch up, pumps end |
| `sessions_keys` | `SessionsSpec`: 2 codes, 3 channels, 2 navigations | violation | `Released` fails |
| `sessions_missed` | `DrainedSpec`: 2 sessions, 1 lobby, 2 channels, buffer 1 | violation | `SnapshotMakesUp` fails |

Two lobbies and one code make the second wait for the removal of the first, the
case `remove` could get wrong. Under `SteadySpec` a session has one navigation
under way at most and one channel, so neither `MaxNavs` nor the pool holds
anything back. A buffer of one is full whenever an event waits; the code's 64
changes when that happens, not what happens.

`sessions_missed` is about what lobby.go:366-368 says of a dropped event: that
phase changes are also reflected in the next snapshot a subscriber receives. They
are, but no screen goes by it: the waiting room and the race store a snapshot
(waiting.go:40-45, race.go:94-96) and navigate on `RaceStarted` and `RaceEnded`
only. In the trace a session's buffer still holds `RaceStarted` when the race
ends, so `RaceEnded` is dropped; the session goes to the race screen, is told
that the lobby is waiting again after the rematch, and stays on the race screen
for as long as the lobby waits. Following the phase of a snapshot would close it.

Fairness: the program handles what is sent to it, pumps and navigations are
scheduled. Messages wait for the loop as senders on one unbuffered channel,
which Go serves in order, hence strong fairness of `Handle` against keys. Nobody
need press a key, leave, or be cut off, and no race need end.

### Proofs

`SessionsProofs.tla` proves all five safety invariants for any sets of sessions,
lobbies, codes and channels and any buffer, each for the weakest specification
it holds of. `RegistryTheorem`, `ChannelsTheorem` and `SessionsTypeTheorem` are
about `SessionsSpec`: no order of messages is assumed. The registry's invariant adds that what
a session has yet to remove is still there under its code, closed, and its alone
(`RemovalsArePending`): a code is taken until its lobby is removed, so a late
removal never drops another lobby. For the channels it adds that nobody is on
the way to a lobby that was never created. `SessionsInv` conjoins these with the
rosters (a player is in one lobby, and subscribed where it is a player) and the
types of events.

`KnowsTheorem` and `ReleasedTheorem` are about `SettledSpec`. `SettledInv` adds
that at most one navigation is under way and that it, or the screen if there is
none, is for the lobby in the context (`Heading`): that is what makes the
context a session leaves by the one it is in. `Released` follows: a session that
is gone has no lobby in its context, and `KnowsItsLobby` says it is then a player
in none.

`InStepTheorem` is about `SteadySpec`. Its invariant, `SteadyInv`, is about every
moment and not only those at rest: handling what the pump holds and then what is
buffered takes the screen a session shows, or is on its way to, to the screen of
the phase its lobby is in (`OnWay`). "Takes" is a path through the kinds of
screens, one per event (`Leads`); a broadcast appends one step to it that ends
where the lobby now is (`Tells`), handling an event removes the first. `KeepUp`
is used where a broadcast is appended and `Drained` where a session enters a
lobby: `OldDrained` says no event of the last one is then left.

Constants are assumed only to be told apart (`NoneAssumption`, `EventAssumption`:
no lobby, no event), and the buffer to be a positive number. Only model-checked:
the liveness properties.

## 6. Accounts

`Accounts.tla` holds the tables: the status of each account, the owner of each
key and run (`owner`), purchases (`bought`), what is worn, link codes and the
expired among them; and, per call, what was asked and what it answered. Every
run pays one byte and every cosmetic costs one, so a balance is a difference of
two cardinalities; prices are in `Play`. A call's `userID` is one the repository
gave out earlier, and may be that of an account merged away since: sessions keep
it.

`Repository.tla` is the contract, one step per call, translated from
`store.Memory`. Three choices are left open, because the two implementations
differ there and no caller can tell: a write to an account that was merged away
fails (Memory accepts it into a map entry nobody reads), expired codes are swept
at any time, and every call may fail having done nothing. A code of an account
that was merged away leads nowhere: Memory keeps it and answers `ErrUnknownCode`
when it is redeemed, Postgres' cascade deletes it.

`PgRepository.tla` is `pg.Repo`: a transaction per call at READ COMMITTED, one
step per statement. A statement sees what is committed when it runs. What a
transaction wrote is in its record `tx[p]` until `Commit`, and makes others wait
(`Waits`): advisory locks, the unique keys of `user_keys` and `purchases`, the
lock a foreign key takes on the account it refers to, and the row locks of
deleted codes and accounts. `Waits`, `BreakDeadlock` and `GiveUp` are Postgres
and the network, modelled from what the statements ask of them. `DeleteSource`
and `Cascade` are two steps since the cascade reads its rows after the delete
waited for its lock; that gap is where the chain below loses rows. A transaction
may be rolled back at any statement (`GiveUp`).

### Runs

| Run | Instance | States | Shows |
|---|---|---|---|
| `accounts` | 2 accounts and an id to give out, 3 keys, runs and codes, 2 cosmetics of one slot; any 2 calls at once; `Apart` | 148,116 | where merges do not meet: implements `Repository`, nobody overspends, calls return |
| `accounts_chain` | 3 accounts, one cosmetic, 2 calls | violation | `NothingLost` fails |

Both start from accounts that exist: each with a key, a run and a code, and with
the run spent by one or by both of them, so a merge meets duplicates, a purchase
meets an empty purse and a key nobody has seen resolves to a new account. Two
calls are enough for every pair of transactions to interleave and to deadlock;
what three could add is a chain of waits, which the same rule breaks.

`Apart` keeps merges from meeting: no two redeems empty one account at once, and
none fills an account another one is emptying, except two that fold into each
other, which Postgres aborts one of. Outside it the contract is broken:

- *a chain* (`accounts_chain`): a redeem folds b into c while another folds a
  into b. The first moved b's rows already; the second's arrive in b and are
  deleted with it. With two cosmetics it can leave a debt, and `NoOverdraft`
  fails: the first moved b's runs, the second brings a run and the purchase made
  with it into b, and the first then moves that purchase on to c and deletes b
  with the run. Locking the target as well as the source, in one order, would
  close the window;
- *two redeems from one account*, by two of its keys, into two others: the
  second read its source before it had the lock, moves nothing, and answers with
  an account its key is not attached to.

`ResolveUser` racing a redeem of its key's account may find the account, wait for
the merge, find it gone and try to create one for a key that has one: it fails on
the unique key, and the session goes on anonymously. The contract allows that
(any call may fail).

Fairness: the database executes statements that are not waiting and breaks
deadlocks. `CallsReturn` needs both; that a call may be rolled back is not
needed.

### Proofs

`RepositoryProofs.tla` proves `NoOverdraft` and `Consistent` of `Repository` for
any accounts, keys and codes and any finite sets of runs and cosmetics: rows,
purchases and codes belong to live accounts, and one cosmetic is worn per slot.
`Consistent` is not inductive: two record calls under way could carry one run,
and the run would move from one balance to another, leaving that one negative.
`IInv` adds `OneRecord`: a run in a call not yet answered is nobody's, and no
other call carries it. A merge adds what both earned less what they own
together, and the union of two sets of purchases is no larger than both: that
is why it cannot leave a debt.

`PgRepositoryProofs.tla` proves `ApartSpec => ImplementsRepository`: every
statement of every transaction, for any number of calls and whatever others do
between two statements, is a step of the contract or a stutter, where merges do
not meet. So under `Apart`, and only there, what is proved of the contract holds
of the transactions (`PgOverdraftTheorem`), and with it the types of tables and
transactions (`PgTypeTheorem`). In the contract itself nobody owes bytes however
accounts merge (`OverdraftTheorem`).

The work is in `PgInv`. Tables change only in commits, so what a transaction read
or wrote has to stay true, or become false in a way it will notice, across the
commits of others. `Knows(p)` says what p still knows at each of its statements:
that a row it locked is not there to be taken, that an account it is buying for
can pay, that an item or a key it found missing still is. `Separate(p, q)` says
why: two transactions hold different account locks and different link codes, move
different rows, and give one account different purchases (the unique keys). Given both, one lemma per pair of a commit and what it could
spoil remains: a purchase stays affordable since nobody else commits to that
account while its lock is held and rows that arrive bring at least what they cost
(`BuyerStaysRich`); a merge still empties its source since nobody adds to it
meanwhile (`FoldStays`); and so on for each operation. `Apart` is needed at
exactly one place, to exclude that the account a merge fills is emptied.

`NothingLostTheorem` states that place by its result: under `ApartSpec` no run
and no key ever disappears in a cascade, which `accounts_chain` shows false
without it.

The model assumes that no id, key or code is the absent value (`AccountsNone`).
Only model-checked: `CallsReturn`, which is liveness.

## 7. A session at play

`Typing.tla` is the engine: marks, cursor and counters. A rune is the expected
one or not. `Economy.tla` is the two awards, their tiers and limits; accuracies
are pairs of counters and speeds whole numbers, since the code truncates them.

`Play.tla` puts them into a session: attempts in practice and in races, the
award added to `Context.Balance` and written with the run through the queue, the
shop, device linking, and one purchase by another session of the same account.
Commands are goroutines: each goes through its steps (`flush`, `wallet`, `buy`,
`equip`, `redeem`), may fail at any of them, and its answer goes to whatever
screen is up when it is delivered. `ahead` counts the queued runs a flush still
waits for. `known`, `lost` and `elsewhere` record what the balance on show can
owe to a wallet that could not be read, a run that could not be written and
another session.

Simplified: moving to another screen is one step (that it is not is `Sessions`'
subject), so keys do not outrun a navigation here; the lobby's part in a race
is left to `Lobby`; the profile and the typing of a code are left out.

### Runs

| Run | Instance | States | Shows |
|---|---|---|---|
| `play` | `PatientSpec`: passage of 2, 2 cosmetics of one slot at 12 and 10, 12 bytes saved, queue of 1, 2 attempts, 3 keystrokes each, 3 commands | 647,904 | counters, balance on show, busy and loading; the shop settles |
| `play_link` | `PlaySpec` | violation | `PlaysForALiveAccount` fails |

Twelve bytes buy either cosmetic but not both, until a race pays for the other;
a queue of one overflows at the second attempt; three keystrokes for two
characters leave room for a mistake taken back; three commands are a load, a
purchase and a redeem, or a load, a purchase and a reload.

`PatientSpec` assumes that the session lets one read, of a wallet or of a code to
redeem, answer before it starts the next, and stays on the link screen until a
redeem is answered. Purchases it leaves to the shop: that there is one at a time
and none beside a read comes from the guards of `act`, `Refresh` and `CloseShop`
(shop.go:205, 221, 238), and `BusyIsInFlight` fails when one is dropped. Nothing
enforces the two assumptions, and without them:

- *the redeem's answer* comes to a screen that does not take it (`play_link`):
  the session plays on for an account that is no more, its runs are refused, and
  only connecting again repairs it. A `busy` flag on the link screen, as the shop
  has one, would close it;
- *a stale load*: `r` twice, or leaving the shop and coming back, puts two loads
  under way. The first answer ends `loading`; enter buys; the second answer, read
  before the purchase, puts the old wallet back and clears `busy`
  (shop.go:160-167), so that another purchase can start and esc leaves the one
  under way. The repository refuses what cannot be paid, and the next load
  repairs the screen.

Fairness: the queue's worker, the commands and the program's loop go on. Keys
are never owed.

### Proofs

`PlayProofs.tla` proves, for passages of any length, that the engine's
counters are the passage's own marks (`CountersTheorem`); for any numbers, that
an earlier place never pays less, and on the podium or with a finisher behind
pays more (`PlacesInOrder`), and that a finished race always pays more than the
same typing in practice (`RaceBeatsPractice`). A place counts everyone who
crossed, the racers it is paid for only those still in the lobby, so places past
the number of racers are among the cases.

Of `Play` itself it proves, for any prices, queue, bounds and failures, that the
counters stay the passage's marks however attempts begin and are left
(`PlayCountersTheorem`, of every session), and two facts of a patient session:
the shop is busy exactly while its one purchase is under way and loading exactly
while its wallet is read (`BusyTheorem`), and
the session never plays on for an account that was merged away (`LinkTheorem`,
next to the counterexample of `play_link` the statement that patience is enough).
The inductive invariant `PatientInv` says there is at most one command (one read
by assumption, no purchase beside it by the guards), that a redeem keeps its
screen up, and that while the session's account is merged away
the redeem that merged it is on its way with the other account's name; neither
property is inductive without them. `AccountsDiffer`, that the two accounts and
the anonymous one are told apart, is all it assumes.

`PlayTypeTheorem` is about every session; its invariant adds that commands are
numbered as they begin, which keeps two of them from being one.
`ShownTheorem` proves `ShownIsStored` of a patient session, for any catalogue,
payouts and queue and with writes that fail. The property is about rest only;
`ShownInv` says how every moment is on its way there. A command that is watched
(its answer will find its screen) waits, while it flushes, for all that is
queued, and past its flush nothing is: the shop cannot earn, so nothing is
queued while it is up. What it read is then what the account still has, unless
another session spent. Between a purchase or a merge and its answer the balance
is known to be off (`Spends`); at all other times each run moves its bytes from
the queue to the account, or to what is lost, and leaves the sum alone. That a
purchase never starts on an unread wallet rests on prices being positive
(`PricesAssumption`, as the catalogue's are, along with what an account saved
being no debt); `PlayBounds` says that the bounds are numbers.

The sums are folds, over the queue and over what an account owns. What a fold
computes for every input takes induction over data: `ListsAndSums.tla` has it
from the well-foundedness of strict inclusion among the subsets of a finite set
(`SmallestSubset`: among the subsets on which two ways to add up differ, one
is smallest), and derives from it what one member more, or a sequence's
first one less, does to a sum.

Only model-checked: `ShopSettles`, which is liveness.

## 8. Starting up

`Migrations.tla`: servers, each built with some prefix of the migrations,
connect, take the advisory lock, read `schema_migrations` and apply what is
missing, one transaction each. A transaction's effects appear with its commit. A
server may fail or be killed at every step, which frees its lock and rolls back
its transaction, and systemd starts it again.

| Run | Instance | States | Shows |
|---|---|---|---|
| `startup` | 3 servers, one knowing 2 migrations and two 3, up to 3 failures | 972 | applied once and in order; served on a complete schema; all start |

Three failures let each server die once in another's way. Fairness: a server that
is up goes on, one that is down is started again. With no bound on failures
nobody need ever start, so the bound stands for "failures stop".

`Knows` is assumed to be prefix-closed between builds (`KnowsAssumption`): the
directory grows at its end. That the SQL of a migration does what its file says
is not modelled.

### Proofs

`MigrationsProofs.tla` proves `AppliedOnceInOrder` and `ServedIsMigrated` for any
servers, builds and number of failures. The invariant `MInv` adds to them: the
versions recorded have no gap with respect to any server's build (`NoGaps`, from
`KnowsAssumption`: what one server applies next is the least version it lacks,
and every older version another server knows is in); whoever is past the lock
holds it (`LockIsHeld`); what a server has left to do is what it knows and the
table lacks, which only the holder of the lock can change (`TodoIsMissing`); and
a server that serves has nothing missing (`Ready`). `EveryServerStarts` is
liveness and only model-checked.

## 9. Not modelled

- Reads: `Summary`, `RecentRuns` and the profile screen. (`Summarize` and the SQL
  agree except for an account all of whose runs have no speed at all: the former
  then reports an accuracy of zero, the latter that of one of the runs.)
- The pool of four connections, a commit whose acknowledgement is lost, a code
  that expires between its deletion and the commit, and two accounts whose lock
  hashes collide (they would only wait for each other).
- `SetFlair`, `Unsubscribe`, `List`, `Len`: decoration, unused or reads.
- The catalogue and the word list, rendering and layout (`chrome.go`,
  `styles.go`, `renderer.go`), the SSH and Bubble Tea libraries, deployment.
- The data race of `Rematch` on `Store.rand` (race.go:261): the models choose
  seeds and codes freely, so it is a question for the race detector.
- Ticks: each tab on the practice screen starts another one that ends
  with the attempt. They redraw and change nothing.

Out of the prover's reach, and therefore only model-checked: liveness under
fairness. Every invariant and every action property of the runs that pass has a
theorem.

## 10. Running

    tlc -config MCLobby.cfg MCLobby.tla
    tlapm LobbyProofs.tla

Each `MC*.cfg` says in its first line what it checks; `PROJECT.json` lists the
runs, for each property a plausible mistake in the code that the property
notices (`mutants`, the `...Fault` definitions), the lines each definition
models (`map`), and the theorems.
