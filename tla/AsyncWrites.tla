---------------------------- MODULE AsyncWrites ----------------------------
(***************************************************************************)
(* store.Async (internal/store/async.go): runs go onto a bounded channel    *)
(* drained by one worker, Flush waits behind a barrier on that channel and  *)
(* Close stops it.  The channel is the log of everything ever sent on it    *)
(* and how much of that the worker has received.                            *)
(*                                                                         *)
(* The lock is Go's sync.RWMutex: a Close waiting for it keeps later        *)
(* readers out, and waits for the readers that are in.  RecordRun holds it  *)
(* for one non-blocking step; Flush holds it while it waits for room.       *)
(***************************************************************************)
EXTENDS Naturals, Sequences, FiniteSets

CONSTANTS
  Runs,      \* the runs sessions record, each by one call of RecordRun
  Flushes,   \* the calls of Flush
  Closes,    \* the calls of Close
  Buffer     \* capacity of the queue

ASSUME AsyncDisjoint == Runs \cap Flushes = {}
ASSUME AsyncBuffer == Buffer \in Nat \ {0}

VARIABLES
  log,      \* what was sent on a.queue: runs, and barriers named by their Flush
  taken,    \* how many of those the worker has received
  worker,   \* receiving, handling log[taken], or stopped (a.done is closed)
  closed,   \* a.closed; a.queue is closed with it
  run,      \* what became of each run
  flush,    \* where each Flush is
  seen,     \* Len(log) when the Flush was called
  close     \* where each Close is

asyncVars == <<log, taken, worker, closed, run, flush, seen, close>>

Items == Runs \cup Flushes

(* called: waiting for the lock.  refused: ErrClosed.                       *)
RunStates == {"new", "called", "refused", "dropped", "queued", "stored", "failed"}

(* send: waiting for room, lock held.  wait: behind the barrier.            *)
FlushStates == {"new", "called", "send", "wait", "refused", "flushed", "expired"}

(* waiting: announced to the lock.  drain: waiting for a.done.              *)
CloseStates == {"new", "waiting", "drain", "returned"}

AsyncTypeOK ==
  /\ log \in Seq(Items)
  /\ taken \in 0..Len(log)
  /\ Len(log) - taken <= Buffer
  /\ worker \in {"receiving", "handling", "stopped"}
  /\ closed \in BOOLEAN
  /\ run \in [Runs -> RunStates]
  /\ flush \in [Flushes -> FlushStates]
  /\ seen \in [Flushes -> 0..Len(log)]
  /\ close \in [Closes -> CloseStates]

AsyncInit ==
  /\ log = <<>>
  /\ taken = 0
  /\ worker = "receiving"
  /\ closed = FALSE
  /\ run = [r \in Runs |-> "new"]
  /\ flush = [f \in Flushes |-> "new"]
  /\ seen = [f \in Flushes |-> 0]
  /\ close = [k \in Closes |-> "new"]

-----------------------------------------------------------------------------
(* The lock. *)

Readers == {f \in Flushes : flush[f] = "send"}
WriterWaits == \E k \in Closes : close[k] = "waiting"

MayRead == ~WriterWaits
MayWrite == Readers = {}

Full == Len(log) - taken >= Buffer

Send(item) == log' = Append(log, item)

-----------------------------------------------------------------------------
(* RecordRun *)

RecordCall(r) ==
  /\ run[r] = "new"
  /\ run' = [run EXCEPT ![r] = "called"]
  /\ UNCHANGED <<log, taken, worker, closed, flush, seen, close>>

RecordRun(r) ==
  /\ run[r] = "called"
  /\ MayRead
  /\ \/ closed /\ run' = [run EXCEPT ![r] = "refused"] /\ UNCHANGED log
     \/ ~closed /\ ~Full /\ Send(r) /\ run' = [run EXCEPT ![r] = "queued"]
     \/ ~closed /\ Full /\ run' = [run EXCEPT ![r] = "dropped"] /\ UNCHANGED log
  /\ UNCHANGED <<taken, worker, closed, flush, seen, close>>

-----------------------------------------------------------------------------
(* Flush *)

FlushCall(f) ==
  /\ flush[f] = "new"
  /\ flush' = [flush EXCEPT ![f] = "called"]
  /\ seen' = [seen EXCEPT ![f] = Len(log)]
  /\ UNCHANGED <<log, taken, worker, closed, run, close>>

FlushLock(f) ==
  /\ flush[f] = "called"
  /\ MayRead
  /\ flush' = [flush EXCEPT ![f] = IF closed THEN "refused" ELSE "send"]
  /\ UNCHANGED <<log, taken, worker, closed, run, seen, close>>

(* The send, under the lock; a.done cannot close while the lock is held, so *)
(* that case of the select never fires here.                                *)
FlushSend(f) ==
  /\ flush[f] = "send"
  /\ ~Full
  /\ Send(f)
  /\ flush' = [flush EXCEPT ![f] = "wait"]
  /\ UNCHANGED <<taken, worker, closed, run, seen, close>>

BarrierReachedFault(f) == \E i \in 1..Len(log) : log[i] = f

(* The worker received the barrier of f and closed its channel. *)
BarrierReached(f) ==
  \E i \in 1..taken : log[i] = f /\ (i = taken => worker # "handling")

FlushDone(f) ==
  /\ flush[f] = "wait"
  /\ BarrierReached(f) \/ worker = "stopped"
  /\ flush' = [flush EXCEPT ![f] = "flushed"]
  /\ UNCHANGED <<log, taken, worker, closed, run, seen, close>>

(* The context expires, before the barrier is sent or while it waits. *)
FlushExpire(f) ==
  /\ flush[f] \in {"send", "wait"}
  /\ flush' = [flush EXCEPT ![f] = "expired"]
  /\ UNCHANGED <<log, taken, worker, closed, run, seen, close>>

-----------------------------------------------------------------------------
(* Close *)

CloseCall(k) ==
  /\ close[k] = "new"
  /\ close' = [close EXCEPT ![k] = "waiting"]
  /\ UNCHANGED <<log, taken, worker, closed, run, flush, seen>>

CloseQueueFault(k) ==
  /\ close[k] = "waiting"
  /\ closed' = TRUE
  /\ close' = [close EXCEPT ![k] = IF closed THEN "returned" ELSE "drain"]
  /\ UNCHANGED <<log, taken, worker, run, flush, seen>>

CloseQueue(k) ==
  /\ close[k] = "waiting"
  /\ MayWrite
  /\ closed' = TRUE
  /\ close' = [close EXCEPT ![k] = IF closed THEN "returned" ELSE "drain"]
  /\ UNCHANGED <<log, taken, worker, run, flush, seen>>

CloseReturn(k) ==
  /\ close[k] = "drain"
  /\ worker = "stopped"
  /\ close' = [close EXCEPT ![k] = "returned"]
  /\ UNCHANGED <<log, taken, worker, closed, run, flush, seen>>

-----------------------------------------------------------------------------
(* work *)

Receive ==
  /\ worker = "receiving"
  /\ taken < Len(log)
  /\ taken' = taken + 1
  /\ worker' = "handling"
  /\ UNCHANGED <<log, closed, run, flush, seen, close>>

HandleRetryFault ==
  /\ worker = "handling"
  /\ worker' = "receiving"
  /\ \/ log[taken] \in Flushes /\ UNCHANGED <<run, log>>
     \/ /\ log[taken] \in Runs
        /\ \/ run' = [run EXCEPT ![log[taken]] = "stored"] /\ UNCHANGED log
           \/ Send(log[taken]) /\ UNCHANGED run
  /\ UNCHANGED <<taken, closed, flush, seen, close>>

HandleWedgedFault ==
  /\ worker = "handling"
  /\ worker' = "receiving"
  /\ log[taken] \in Flushes
  /\ UNCHANGED <<log, taken, run, closed, flush, seen, close>>

(* Close the barrier, or attempt the write; writeTimeout bounds the attempt. *)
Handle ==
  /\ worker = "handling"
  /\ worker' = "receiving"
  /\ \/ log[taken] \in Flushes /\ UNCHANGED run
     \/ /\ log[taken] \in Runs
        /\ \E outcome \in {"stored", "failed"} :
             run' = [run EXCEPT ![log[taken]] = outcome]
  /\ UNCHANGED <<log, taken, closed, flush, seen, close>>

StopFault ==
  /\ worker = "receiving"
  /\ closed
  /\ worker' = "stopped"
  /\ UNCHANGED <<log, taken, closed, run, flush, seen, close>>

(* The range ends when the queue is closed and drained. *)
Stop ==
  /\ worker = "receiving"
  /\ closed
  /\ taken = Len(log)
  /\ worker' = "stopped"
  /\ UNCHANGED <<log, taken, closed, run, flush, seen, close>>

Work == Receive \/ Handle \/ Stop

-----------------------------------------------------------------------------
FlushStep(f) == FlushLock(f) \/ FlushSend(f) \/ FlushDone(f)
CloseStep(k) == CloseQueue(k) \/ CloseReturn(k)

AsyncNext ==
  \/ \E r \in Runs : RecordCall(r) \/ RecordRun(r)
  \/ \E f \in Flushes : FlushCall(f) \/ FlushStep(f) \/ FlushExpire(f)
  \/ \E k \in Closes : CloseCall(k) \/ CloseStep(k)
  \/ Work

(***************************************************************************)
(* The worker keeps going (writeTimeout ends a wedged write), and a call    *)
(* goes on when it can.  Nobody need call, and no context need expire.      *)
(***************************************************************************)
AsyncFairness ==
  /\ WF_asyncVars(Work)
  /\ \A r \in Runs : WF_asyncVars(RecordRun(r))
  /\ \A f \in Flushes : WF_asyncVars(FlushStep(f))
  /\ \A k \in Closes : WF_asyncVars(CloseStep(k))

AsyncSpec == AsyncInit /\ [][AsyncNext]_asyncVars /\ AsyncFairness

=============================================================================
