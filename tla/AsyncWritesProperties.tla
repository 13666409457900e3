----------------------- MODULE AsyncWritesProperties -----------------------
(***************************************************************************)
(* What sessions rely on when their runs are written behind their backs.    *)
(***************************************************************************)
EXTENDS AsyncWrites

Attempted(r) == run[r] \in {"stored", "failed"}

(***************************************************************************)
(* Nobody sends on the closed queue, which would panic: a Flush waiting for *)
(* room holds the lock Close needs (async.go:100-116, 132-140).             *)
(***************************************************************************)
NoSendOnClosedQueue == closed => Readers = {}

(***************************************************************************)
(* A Flush that returns nil means what it says (async.go:86): every run     *)
(* queued before the call has been attempted, even when Close raced it.     *)
(***************************************************************************)
FlushedMeansAttempted ==
  \A f \in Flushes : flush[f] = "flushed" =>
    \A i \in 1..seen[f] : log[i] \in Runs => Attempted(log[i])

(***************************************************************************)
(* Close throws no accepted run away: when the worker has stopped, nothing  *)
(* is left in the queue and every run that was queued was attempted.        *)
(***************************************************************************)
StoppedMeansDrained ==
  worker = "stopped" =>
    /\ closed
    /\ \A r \in Runs : run[r] # "queued"

(***************************************************************************)
(* A run is written at most once and none is made up: the log holds each    *)
(* item once, and exactly the runs that were accepted.                      *)
(***************************************************************************)
AcceptedOnce ==
  /\ \A i, j \in DOMAIN log : log[i] = log[j] => i = j
  /\ \A r \in Runs :
       (\E i \in DOMAIN log : log[i] = r) <=> run[r] \in {"queued", "stored", "failed"}

(* Every Flush returns, though none of its contexts ever expires. *)
FlushReturns ==
  \A f \in Flushes :
    flush[f] = "called" ~> flush[f] \in {"refused", "flushed", "expired"}

(* Close drains the queue and returns, whoever else holds the lock. *)
CloseReturns == \A k \in Closes : close[k] = "waiting" ~> close[k] = "returned"

=============================================================================
