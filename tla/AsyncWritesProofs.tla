------------------------- MODULE AsyncWritesProofs -------------------------
(***************************************************************************)
(* The safety of the write queue for any number of runs, flushes and closes *)
(* and any buffer.                                                          *)
(***************************************************************************)
EXTENDS AsyncWritesProperties, SequenceTheorems, TLAPS

Settled(i) == i < taken \/ (i = taken /\ worker # "handling")

(* The worker has attempted what it is done with, and nothing else. *)
WorkerKeepsOrder ==
  /\ worker = "handling" => taken >= 1
  /\ worker = "stopped" => closed /\ taken = Len(log)
  /\ \A i \in DOMAIN log : log[i] \in Runs => (Attempted(log[i]) <=> Settled(i))

(* A barrier is behind everything its Flush saw, and sent by that Flush. *)
BarrierIsBehind ==
  \A i \in DOMAIN log : log[i] \in Flushes =>
    /\ seen[log[i]] < i
    /\ flush[log[i]] \in {"wait", "flushed", "expired"}

AsyncInv ==
  /\ AsyncTypeOK
  /\ NoSendOnClosedQueue
  /\ FlushedMeansAttempted
  /\ AcceptedOnce
  /\ WorkerKeepsOrder
  /\ BarrierIsBehind

-----------------------------------------------------------------------------
LEMMA LogFacts ==
  ASSUME AsyncTypeOK
  PROVE  /\ Len(log) \in Nat /\ DOMAIN log = 1..Len(log)
         /\ \A i \in 1..Len(log) : log[i] \in Items
         /\ taken \in Nat /\ taken <= Len(log)
BY LenProperties, ElementOfSeq DEF AsyncTypeOK

LEMMA AsyncInitInv == AsyncInit => AsyncInv
<1> SUFFICES ASSUME AsyncInit PROVE AsyncInv
  OBVIOUS
<1> USE DEF AsyncInit
<1>1. log \in Seq(Items) /\ Len(log) = 0 /\ DOMAIN log = {}
  OBVIOUS
<1>2. AsyncTypeOK
  <2>1. 0 \in 0..Len(log) /\ Len(log) - taken <= Buffer
    BY <1>1, AsyncBuffer
  <2>2. seen \in [Flushes -> 0..Len(log)]
    BY <2>1
  <2>3. /\ run \in [Runs -> RunStates] /\ flush \in [Flushes -> FlushStates]
        /\ close \in [Closes -> CloseStates]
    BY DEF RunStates, FlushStates, CloseStates
  <2> QED
    BY <1>1, <2>1, <2>2, <2>3 DEF AsyncTypeOK
<1>3. NoSendOnClosedQueue /\ FlushedMeansAttempted
  BY DEF NoSendOnClosedQueue, FlushedMeansAttempted
<1>4. AcceptedOnce /\ WorkerKeepsOrder /\ BarrierIsBehind
  BY <1>1 DEF AcceptedOnce, WorkerKeepsOrder, BarrierIsBehind
<1> QED
  BY <1>2, <1>3, <1>4 DEF AsyncInv

(* Sending puts one item at the end of the log and changes none before it. *)
LEMMA SendFacts ==
  ASSUME AsyncTypeOK, NEW item \in Items, Send(item)
  PROVE  /\ log' \in Seq(Items)
         /\ Len(log') = Len(log) + 1
         /\ DOMAIN log' = 1..(Len(log) + 1)
         /\ \A i \in 1..Len(log) : log'[i] = log[i]
         /\ log'[Len(log) + 1] = item
<1>1. /\ log' \in Seq(Items) /\ Len(log') = Len(log) + 1
      /\ \A i \in 1..Len(log) : log'[i] = log[i]
      /\ log'[Len(log) + 1] = item
  BY AppendProperties DEF Send, AsyncTypeOK
<1> QED
  BY <1>1, LenProperties

-----------------------------------------------------------------------------
LEMMA RecordCallInv ==
  ASSUME AsyncInv, NEW r \in Runs, RecordCall(r)
  PROVE  AsyncInv'
<1> USE DEF AsyncInv, RecordCall
<1>1. AsyncTypeOK' /\ NoSendOnClosedQueue' /\ BarrierIsBehind'
  BY DEF AsyncTypeOK, RunStates, NoSendOnClosedQueue, Readers, BarrierIsBehind
<1>2. \A q \in Runs : (Attempted(q)' <=> Attempted(q))
  BY DEF AsyncTypeOK, Attempted
<1>3. FlushedMeansAttempted' /\ AcceptedOnce' /\ WorkerKeepsOrder'
  BY <1>2
  DEF FlushedMeansAttempted, AcceptedOnce, WorkerKeepsOrder, Settled, AsyncTypeOK
<1> QED
  BY <1>1, <1>3

LEMMA RecordRunInv ==
  ASSUME AsyncInv, NEW r \in Runs, RecordRun(r)
  PROVE  AsyncInv'
<1> USE DEF AsyncInv
<1>1. /\ run[r] = "called"
      /\ UNCHANGED <<taken, worker, closed, flush, seen, close>>
  BY DEF RecordRun
<1>2. CASE UNCHANGED log /\ \E s \in {"refused", "dropped"} :
                              run' = [run EXCEPT ![r] = s]
  <2>1. AsyncTypeOK' /\ NoSendOnClosedQueue' /\ BarrierIsBehind'
    BY <1>1, <1>2
    DEF AsyncTypeOK, RunStates, NoSendOnClosedQueue, Readers, BarrierIsBehind
  <2>2. \A q \in Runs : (Attempted(q)' <=> Attempted(q))
    BY <1>1, <1>2 DEF AsyncTypeOK, Attempted
  <2>3. FlushedMeansAttempted' /\ AcceptedOnce' /\ WorkerKeepsOrder'
    BY <1>1, <1>2, <2>2
    DEF FlushedMeansAttempted, AcceptedOnce, WorkerKeepsOrder, Settled, AsyncTypeOK
  <2> QED
    BY <2>1, <2>3
<1>3. CASE ~closed /\ ~Full /\ Send(r) /\ run' = [run EXCEPT ![r] = "queued"]
  <2>1. /\ log' \in Seq(Items)
        /\ Len(log') = Len(log) + 1
        /\ DOMAIN log' = 1..(Len(log) + 1)
        /\ \A i \in 1..Len(log) : log'[i] = log[i]
        /\ log'[Len(log) + 1] = r
    BY <1>3, SendFacts DEF Items
  <2>2. /\ Len(log) \in Nat /\ DOMAIN log = 1..Len(log)
        /\ \A i \in 1..Len(log) : log[i] \in Items
        /\ taken \in Nat /\ taken <= Len(log)
    BY LogFacts
  <2>3. \A i \in 1..Len(log) : log[i] # r
    BY <1>1, <2>2 DEF AcceptedOnce
  <2>4. \A q \in Runs : (Attempted(q)' <=> Attempted(q))
    BY <1>1, <1>3 DEF AsyncTypeOK, Attempted
  <2>5. AsyncTypeOK'
    <3>1. Len(log') - taken <= Buffer
      BY <1>3, <2>1, <2>2, AsyncBuffer DEF Full
    <3>2. run' \in [Runs -> RunStates]
      BY <1>3 DEF AsyncTypeOK, RunStates
    <3>3. taken' \in 0..Len(log') /\ seen' \in [Flushes -> 0..Len(log')]
      BY <1>1, <2>1, <2>2 DEF AsyncTypeOK
    <3> QED
      BY <1>1, <2>1, <3>1, <3>2, <3>3 DEF AsyncTypeOK
  <2>6. NoSendOnClosedQueue'
    BY <1>1, <1>3 DEF NoSendOnClosedQueue
  <2>7. FlushedMeansAttempted'
    <3> SUFFICES ASSUME NEW f \in Flushes, flush'[f] = "flushed",
                        NEW i \in 1..seen'[f], log'[i] \in Runs
                 PROVE  Attempted(log[i])'
      BY DEF FlushedMeansAttempted
    <3>1. flush[f] = "flushed" /\ i \in 1..seen[f]
      BY <1>1
    <3>2. i \in 1..Len(log)
      BY <3>1, <2>2 DEF AsyncTypeOK
    <3>3. log'[i] = log[i] /\ log[i] \in Runs
      BY <3>2, <2>1
    <3>4. Attempted(log[i])
      BY <3>1, <3>3 DEF FlushedMeansAttempted
    <3> QED
      BY <3>3, <3>4, <2>4 DEF Attempted
  <2>8. AcceptedOnce'
    <3>1. \A i, j \in DOMAIN log' : log'[i] = log'[j] => i = j
      BY <2>1, <2>2, <2>3 DEF AcceptedOnce
    <3>2. ASSUME NEW q \in Runs
          PROVE  (\E i \in DOMAIN log' : log'[i] = q)
                   <=> run'[q] \in {"queued", "stored", "failed"}
      <4>1. CASE q = r
        <5>1. Len(log) + 1 \in DOMAIN log' /\ log'[Len(log) + 1] = q
          BY <4>1, <2>1, <2>2
        <5>2. run'[q] = "queued"
          BY <4>1, <1>3 DEF AsyncTypeOK
        <5> QED
          BY <5>1, <5>2
      <4>2. CASE q # r
        <5>1. (\E i \in DOMAIN log' : log'[i] = q) <=> \E i \in DOMAIN log : log[i] = q
          <6>1. \A i \in DOMAIN log' : i \in DOMAIN log \/ i = Len(log) + 1
            BY <2>1, <2>2
          <6>2. \A i \in DOMAIN log : i \in DOMAIN log' /\ log'[i] = log[i]
            BY <2>1, <2>2
          <6> QED
            BY <4>2, <6>1, <6>2, <2>1
        <5>2. run'[q] = run[q]
          BY <4>2, <1>3 DEF AsyncTypeOK
        <5> QED
          BY <5>1, <5>2 DEF AcceptedOnce
      <4> QED
        BY <4>1, <4>2
    <3> QED
      BY <3>1, <3>2 DEF AcceptedOnce
  <2>9. WorkerKeepsOrder'
    <3>1. worker # "stopped"
      BY <1>3 DEF WorkerKeepsOrder
    <3>2. ~Attempted(r) /\ ~Settled(Len(log) + 1)
      BY <1>1, <2>2 DEF Attempted, Settled
    <3>3. ASSUME NEW i \in DOMAIN log', log'[i] \in Runs
          PROVE  Attempted(log[i])' <=> Settled(i)'
      <4>1. Settled(i)' <=> Settled(i)
        BY <1>1 DEF Settled
      <4>2. CASE i \in DOMAIN log
        <5>1. log'[i] = log[i] /\ log[i] \in Runs
          BY <4>2, <3>3, <2>1, <2>2
        <5>2. Attempted(log[i]) <=> Settled(i)
          BY <4>2, <5>1 DEF WorkerKeepsOrder
        <5> QED
          BY <4>1, <5>1, <5>2, <2>4 DEF Attempted
      <4>3. CASE i \notin DOMAIN log
        <5>1. i = Len(log) + 1 /\ log'[i] = r
          BY <3>3, <4>3, <2>1, <2>2
        <5>2. ~Attempted(r)'
          BY <2>4, <3>2
        <5> QED
          BY <4>1, <5>1, <5>2, <3>2 DEF Attempted
      <4> QED
        BY <4>2, <4>3
    <3>4. /\ worker' = "handling" => taken' >= 1
          /\ worker' = "stopped" => closed' /\ taken' = Len(log')
      BY <1>1, <3>1 DEF WorkerKeepsOrder
    <3> QED
      BY <3>3, <3>4 DEF WorkerKeepsOrder
  <2>10. BarrierIsBehind'
    BY <1>1, <2>1, <2>2, AsyncDisjoint DEF BarrierIsBehind
  <2> QED
    BY <2>5, <2>6, <2>7, <2>8, <2>9, <2>10
<1> QED
  BY <1>2, <1>3 DEF RecordRun

-----------------------------------------------------------------------------
(* Steps of a Flush or a Close that neither send nor touch the worker.      *)
LEMMA CallStepInv ==
  ASSUME AsyncInv, UNCHANGED <<log, taken, worker, run>>,
         flush' \in [Flushes -> FlushStates],
         seen' \in [Flushes -> 0..Len(log)],
         close' \in [Closes -> CloseStates],
         closed' \in BOOLEAN, closed => closed',
         closed' => Readers' = {},
         FlushedMeansAttempted',
         BarrierIsBehind'
  PROVE  AsyncInv'
<1> USE DEF AsyncInv
<1>1. AsyncTypeOK' /\ NoSendOnClosedQueue'
  BY DEF AsyncTypeOK, NoSendOnClosedQueue
<1>2. AcceptedOnce' /\ WorkerKeepsOrder'
  BY DEF AcceptedOnce, WorkerKeepsOrder, Settled, Attempted
<1> QED
  BY <1>1, <1>2

LEMMA FlushCallInv ==
  ASSUME AsyncInv, NEW f \in Flushes, FlushCall(f)
  PROVE  AsyncInv'
<1> USE DEF AsyncInv, FlushCall
<1>1. Len(log) \in 0..Len(log)
  BY LogFacts
<1>2. seen' \in [Flushes -> 0..Len(log)] /\ flush' \in [Flushes -> FlushStates]
  BY <1>1 DEF AsyncTypeOK, FlushStates
<1>3. \A g \in Flushes : g # f => flush'[g] = flush[g] /\ seen'[g] = seen[g]
  BY DEF AsyncTypeOK
<1>4. flush[f] = "new" /\ flush'[f] = "called"
  BY DEF AsyncTypeOK
<1>5. FlushedMeansAttempted'
  BY <1>3, <1>4 DEF FlushedMeansAttempted, Attempted
<1>6. BarrierIsBehind'
  BY <1>3, <1>4 DEF BarrierIsBehind
<1>7. closed' => Readers' = {}
  BY <1>3, <1>4 DEF NoSendOnClosedQueue, Readers
<1> QED
  BY <1>2, <1>5, <1>6, <1>7, CallStepInv DEF AsyncTypeOK

LEMMA FlushLockInv ==
  ASSUME AsyncInv, NEW f \in Flushes, FlushLock(f)
  PROVE  AsyncInv'
<1> USE DEF AsyncInv, FlushLock
<1>1. flush' \in [Flushes -> FlushStates]
  BY DEF AsyncTypeOK, FlushStates
<1>2. \A g \in Flushes : g # f => flush'[g] = flush[g]
  BY DEF AsyncTypeOK
<1>3. flush[f] = "called" /\ flush'[f] \in {"refused", "send"}
      /\ (closed => flush'[f] = "refused")
  BY DEF AsyncTypeOK
<1>4. FlushedMeansAttempted'
  BY <1>2, <1>3 DEF FlushedMeansAttempted, Attempted
<1>5. BarrierIsBehind'
  BY <1>2, <1>3 DEF BarrierIsBehind
<1>6. closed' => Readers' = {}
  BY <1>2, <1>3 DEF NoSendOnClosedQueue, Readers
<1> QED
  BY <1>1, <1>4, <1>5, <1>6, CallStepInv DEF AsyncTypeOK

LEMMA FlushExpireInv ==
  ASSUME AsyncInv, NEW f \in Flushes, FlushExpire(f)
  PROVE  AsyncInv'
<1> USE DEF AsyncInv, FlushExpire
<1>1. flush' \in [Flushes -> FlushStates]
  BY DEF AsyncTypeOK, FlushStates
<1>2. \A g \in Flushes : g # f => flush'[g] = flush[g]
  BY DEF AsyncTypeOK
<1>3. flush'[f] = "expired"
  BY DEF AsyncTypeOK
<1>4. FlushedMeansAttempted' /\ BarrierIsBehind'
  BY <1>2, <1>3 DEF FlushedMeansAttempted, Attempted, BarrierIsBehind
<1>5. closed' => Readers' = {}
  BY <1>2, <1>3 DEF NoSendOnClosedQueue, Readers
<1> QED
  BY <1>1, <1>4, <1>5, CallStepInv DEF AsyncTypeOK

(* A Flush returns once everything before its barrier is settled.           *)
LEMMA FlushDoneInv ==
  ASSUME AsyncInv, NEW f \in Flushes, FlushDone(f)
  PROVE  AsyncInv'
<1> USE DEF AsyncInv, FlushDone
<1>1. flush' \in [Flushes -> FlushStates]
  BY DEF AsyncTypeOK, FlushStates
<1>2. \A g \in Flushes : g # f => flush'[g] = flush[g]
  BY DEF AsyncTypeOK
<1>3. flush[f] = "wait" /\ flush'[f] = "flushed"
  BY DEF AsyncTypeOK
<1>4. /\ Len(log) \in Nat /\ DOMAIN log = 1..Len(log)
      /\ taken \in Nat /\ taken <= Len(log)
      /\ seen[f] \in Nat /\ seen[f] <= Len(log)
  BY LogFacts DEF AsyncTypeOK
<1>5. \A i \in 1..seen[f] : Settled(i)
  <2>1. CASE worker = "stopped"
    <3>1. taken = Len(log) /\ worker # "handling"
      BY <2>1 DEF WorkerKeepsOrder
    <3>2. ASSUME NEW i \in 1..seen[f] PROVE Settled(i)
      <4>1. i \in Nat /\ i <= taken
        BY <3>1, <1>4
      <4>2. i < taken \/ i = taken
        BY <4>1, <1>4
      <4> QED
        BY <3>1, <4>1, <4>2 DEF Settled
    <3> QED
      BY <3>2
  <2>2. CASE BarrierReached(f)
    <3>1. PICK b \in 1..taken : log[b] = f
      BY <2>2 DEF BarrierReached
    <3>2. seen[f] < b
      BY <3>1, <1>4 DEF BarrierIsBehind
    <3> QED
      BY <3>1, <3>2, <1>4 DEF Settled
  <2> QED
    BY <2>1, <2>2
<1>6. FlushedMeansAttempted'
  <2>1. ASSUME NEW i \in 1..seen[f], log[i] \in Runs PROVE Attempted(log[i])
    <3>1. i \in DOMAIN log
      BY <1>4
    <3>2. Settled(i)
      BY <1>5
    <3> QED
      BY <2>1, <3>1, <3>2 DEF WorkerKeepsOrder
  <2> QED
    BY <1>2, <2>1 DEF FlushedMeansAttempted, Attempted
<1>7. BarrierIsBehind'
  BY <1>2, <1>3 DEF BarrierIsBehind
<1>8. closed' => Readers' = {}
  BY <1>2, <1>3 DEF NoSendOnClosedQueue, Readers
<1> QED
  BY <1>1, <1>6, <1>7, <1>8, CallStepInv DEF AsyncTypeOK

LEMMA CloseInv ==
  ASSUME AsyncInv, NEW k \in Closes,
         CloseCall(k) \/ CloseQueue(k) \/ CloseReturn(k)
  PROVE  AsyncInv'
<1> USE DEF AsyncInv, CloseCall, CloseQueue, CloseReturn, MayWrite
<1>1. close' \in [Closes -> CloseStates] /\ closed' \in BOOLEAN
      /\ (closed => closed') /\ UNCHANGED <<log, taken, worker, run, flush, seen>>
  BY DEF AsyncTypeOK, CloseStates
<1>2. closed' => Readers' = {}
  BY DEF NoSendOnClosedQueue, Readers
<1>3. FlushedMeansAttempted' /\ BarrierIsBehind'
  BY <1>1 DEF FlushedMeansAttempted, Attempted, BarrierIsBehind
<1> QED
  BY <1>1, <1>2, <1>3, CallStepInv DEF AsyncTypeOK

LEMMA FlushSendInv ==
  ASSUME AsyncInv, NEW f \in Flushes, FlushSend(f)
  PROVE  AsyncInv'
<1> USE DEF AsyncInv
<1>1. /\ flush[f] = "send" /\ ~Full /\ Send(f)
      /\ flush' = [flush EXCEPT ![f] = "wait"]
      /\ UNCHANGED <<taken, worker, closed, run, seen, close>>
  BY DEF FlushSend
<1>2. /\ log' \in Seq(Items)
      /\ Len(log') = Len(log) + 1
      /\ DOMAIN log' = 1..(Len(log) + 1)
      /\ \A i \in 1..Len(log) : log'[i] = log[i]
      /\ log'[Len(log) + 1] = f
  BY <1>1, SendFacts DEF Items
<1>3. /\ Len(log) \in Nat /\ DOMAIN log = 1..Len(log)
      /\ \A i \in 1..Len(log) : log[i] \in Items
      /\ taken \in Nat /\ taken <= Len(log)
  BY LogFacts
<1>4. \A i \in 1..Len(log) : log[i] # f
  BY <1>1, <1>3 DEF BarrierIsBehind
<1>5. \A g \in Flushes : g # f => flush'[g] = flush[g]
  BY <1>1 DEF AsyncTypeOK
<1>6. flush'[f] = "wait"
  BY <1>1 DEF AsyncTypeOK
<1>7. AsyncTypeOK'
  <2>1. Len(log') - taken <= Buffer
    BY <1>1, <1>2, <1>3, AsyncBuffer DEF Full
  <2>2. flush' \in [Flushes -> FlushStates]
    BY <1>1 DEF AsyncTypeOK, FlushStates
  <2>3. taken' \in 0..Len(log') /\ seen' \in [Flushes -> 0..Len(log')]
    BY <1>1, <1>2, <1>3 DEF AsyncTypeOK
  <2> QED
    BY <1>1, <1>2, <2>1, <2>2, <2>3 DEF AsyncTypeOK
<1>8. ~closed
  BY <1>1 DEF NoSendOnClosedQueue, Readers
<1>9. NoSendOnClosedQueue'
  BY <1>1, <1>8 DEF NoSendOnClosedQueue
<1>10. FlushedMeansAttempted'
  <2>1. \A g \in Flushes : flush'[g] = "flushed" => flush[g] = "flushed"
    BY <1>5, <1>6
  <2>2. \A g \in Flushes : \A i \in 1..seen[g] : i \in 1..Len(log)
    BY <1>3 DEF AsyncTypeOK
  <2> QED
    BY <1>1, <1>2, <2>1, <2>2 DEF FlushedMeansAttempted, Attempted
<1>11. AcceptedOnce'
  <2>1. \A i, j \in DOMAIN log' : log'[i] = log'[j] => i = j
    BY <1>2, <1>3, <1>4 DEF AcceptedOnce
  <2>2. f \notin Runs
    BY AsyncDisjoint
  <2>3. \A i \in DOMAIN log' : i \in DOMAIN log \/ i = Len(log) + 1
    BY <1>2, <1>3
  <2>4. \A i \in DOMAIN log : i \in DOMAIN log' /\ log'[i] = log[i]
    BY <1>2, <1>3
  <2>5. ASSUME NEW q \in Runs
        PROVE  (\E i \in DOMAIN log' : log'[i] = q)
                 <=> run'[q] \in {"queued", "stored", "failed"}
    <3>1. (\E i \in DOMAIN log' : log'[i] = q) <=> \E i \in DOMAIN log : log[i] = q
      BY <1>2, <2>2, <2>3, <2>4
    <3> QED
      BY <1>1, <3>1 DEF AcceptedOnce
  <2> QED
    BY <2>1, <2>5 DEF AcceptedOnce
<1>12. WorkerKeepsOrder'
  <2>1. worker # "stopped" /\ f \notin Runs
    BY <1>8, AsyncDisjoint DEF WorkerKeepsOrder
  <2> QED
    BY <1>1, <1>2, <1>3, <2>1 DEF WorkerKeepsOrder, Settled, Attempted
<1>13. BarrierIsBehind'
  <2>1. seen[f] < Len(log) + 1
    BY <1>3 DEF AsyncTypeOK
  <2>2. ASSUME NEW i \in DOMAIN log', log'[i] \in Flushes
        PROVE  seen'[log'[i]] < i /\ flush'[log'[i]] \in {"wait", "flushed", "expired"}
    <3>1. CASE i = Len(log) + 1
      BY <3>1, <2>1, <1>1, <1>2, <1>6
    <3>2. CASE i \in 1..Len(log)
      <4>1. log'[i] = log[i] /\ log[i] # f /\ log[i] \in Flushes
        BY <3>2, <2>2, <1>2, <1>4
      <4> QED
        BY <3>2, <4>1, <1>1, <1>3, <1>5 DEF BarrierIsBehind
    <3> QED
      BY <3>1, <3>2, <1>2, <1>3
  <2> QED
    BY <2>2 DEF BarrierIsBehind
<1> QED
  BY <1>7, <1>9, <1>10, <1>11, <1>12, <1>13

-----------------------------------------------------------------------------
(* The worker. *)

LEMMA ReceiveInv ==
  ASSUME AsyncInv, Receive
  PROVE  AsyncInv'
<1> USE DEF AsyncInv, Receive
<1>1. /\ Len(log) \in Nat /\ DOMAIN log = 1..Len(log)
      /\ taken \in Nat /\ taken <= Len(log)
  BY LogFacts
<1>2. AsyncTypeOK'
  BY <1>1, AsyncBuffer DEF AsyncTypeOK
<1>3. NoSendOnClosedQueue' /\ FlushedMeansAttempted' /\ AcceptedOnce'
      /\ BarrierIsBehind'
  BY DEF NoSendOnClosedQueue, Readers, FlushedMeansAttempted, AcceptedOnce,
         BarrierIsBehind, Attempted
<1>4. \A i \in DOMAIN log : Settled(i)' <=> Settled(i)
  BY <1>1 DEF Settled
<1>5. WorkerKeepsOrder'
  BY <1>1, <1>4 DEF WorkerKeepsOrder, Attempted
<1> QED
  BY <1>2, <1>3, <1>5

LEMMA HandleInv ==
  ASSUME AsyncInv, Handle
  PROVE  AsyncInv'
<1> USE DEF AsyncInv
<1>1. /\ Len(log) \in Nat /\ DOMAIN log = 1..Len(log)
      /\ taken \in Nat /\ taken <= Len(log)
      /\ taken >= 1
  BY LogFacts DEF Handle, WorkerKeepsOrder
<1>2. /\ worker = "handling" /\ worker' = "receiving"
      /\ UNCHANGED <<log, taken, closed, flush, seen, close>>
  BY DEF Handle
<1>3. \A i \in DOMAIN log : Settled(i)' <=> (Settled(i) \/ i = taken)
  BY <1>1, <1>2 DEF Settled
<1>4. ~Settled(taken)
  BY <1>1, <1>2 DEF Settled
<1>5. CASE log[taken] \in Flushes /\ UNCHANGED run
  <2>1. log[taken] \notin Runs
    BY <1>5, AsyncDisjoint
  <2>2. AsyncTypeOK' /\ NoSendOnClosedQueue' /\ FlushedMeansAttempted'
        /\ AcceptedOnce' /\ BarrierIsBehind'
    BY <1>2, <1>5
    DEF AsyncTypeOK, NoSendOnClosedQueue, Readers, FlushedMeansAttempted,
        AcceptedOnce, BarrierIsBehind, Attempted
  <2>3. WorkerKeepsOrder'
    BY <1>1, <1>2, <1>3, <1>5, <2>1 DEF WorkerKeepsOrder, Attempted
  <2> QED
    BY <2>2, <2>3
<1>6. ASSUME log[taken] \in Runs,
             NEW o \in {"stored", "failed"}, run' = [run EXCEPT ![log[taken]] = o]
      PROVE  AsyncInv'
  <2>1. AsyncTypeOK'
    BY <1>2, <1>6 DEF AsyncTypeOK, RunStates
  <2>2. \A q \in Runs : Attempted(q)' <=> (Attempted(q) \/ q = log[taken])
    BY <1>6 DEF Attempted, AsyncTypeOK
  <2>3. NoSendOnClosedQueue' /\ FlushedMeansAttempted' /\ BarrierIsBehind'
    BY <1>2, <2>2
    DEF NoSendOnClosedQueue, Readers, FlushedMeansAttempted, BarrierIsBehind
  <2>4. AcceptedOnce'
    <3>1. run[log[taken]] \in {"queued", "stored", "failed"}
      BY <1>1, <1>6 DEF AcceptedOnce
    <3>2. \A q \in Runs : run'[q] \in {"queued", "stored", "failed"}
                            <=> run[q] \in {"queued", "stored", "failed"}
      BY <1>6, <3>1 DEF AsyncTypeOK
    <3> QED
      BY <1>2, <3>2 DEF AcceptedOnce
  <2>5. \A i \in DOMAIN log : log[i] = log[taken] <=> i = taken
    BY <1>1 DEF AcceptedOnce
  <2>6. WorkerKeepsOrder'
    BY <1>1, <1>2, <1>3, <2>2, <2>5 DEF WorkerKeepsOrder
  <2> QED
    BY <2>1, <2>3, <2>4, <2>6
<1> QED
  BY <1>5, <1>6 DEF Handle

LEMMA StopInv ==
  ASSUME AsyncInv, Stop
  PROVE  AsyncInv'
<1> USE DEF AsyncInv, Stop
<1>1. AsyncTypeOK' /\ NoSendOnClosedQueue' /\ FlushedMeansAttempted'
      /\ AcceptedOnce' /\ BarrierIsBehind'
  BY DEF AsyncTypeOK, NoSendOnClosedQueue, Readers, FlushedMeansAttempted,
         AcceptedOnce, BarrierIsBehind, Attempted
<1>2. WorkerKeepsOrder'
  BY DEF WorkerKeepsOrder, Settled, Attempted
<1> QED
  BY <1>1, <1>2

LEMMA AsyncNextInv == AsyncInv /\ [AsyncNext]_asyncVars => AsyncInv'
<1> SUFFICES ASSUME AsyncInv, [AsyncNext]_asyncVars
             PROVE  AsyncInv'
  OBVIOUS
<1>1. CASE UNCHANGED asyncVars
  BY <1>1
  DEF asyncVars, AsyncInv, AsyncTypeOK, NoSendOnClosedQueue, Readers,
      FlushedMeansAttempted, AcceptedOnce, WorkerKeepsOrder, Settled,
      BarrierIsBehind, Attempted
<1>2. CASE AsyncNext
  BY <1>2, RecordCallInv, RecordRunInv, FlushCallInv, FlushLockInv, FlushSendInv,
     FlushDoneInv, FlushExpireInv, CloseInv, ReceiveInv, HandleInv, StopInv
  DEF AsyncNext, FlushStep, CloseStep, Work
<1> QED
  BY <1>1, <1>2

THEOREM AsyncInvariant == AsyncSpec => []AsyncInv
BY AsyncInitInv, AsyncNextInv, PTL DEF AsyncSpec

(* No send meets a closed queue, whatever the timing of Close. *)
THEOREM ClosedQueueTheorem == AsyncSpec => []NoSendOnClosedQueue
BY AsyncInvariant, PTL DEF AsyncInv

(* Flush returning nil means every earlier run was attempted (async.go:86). *)
THEOREM FlushTheorem == AsyncSpec => []FlushedMeansAttempted
BY AsyncInvariant, PTL DEF AsyncInv

(* Runs are accepted and written once, in the order they were queued. *)
THEOREM AcceptedTheorem == AsyncSpec => []AcceptedOnce
BY AsyncInvariant, PTL DEF AsyncInv

(* Close leaves nothing behind in the queue (async.go:130-144). *)
THEOREM DrainTheorem == AsyncSpec => []StoppedMeansDrained
<1>1. AsyncInv => StoppedMeansDrained
  <2> SUFFICES ASSUME AsyncInv, worker = "stopped", NEW r \in Runs,
                      run[r] = "queued"
               PROVE  FALSE
    BY DEF StoppedMeansDrained, AsyncInv, WorkerKeepsOrder
  <2>1. PICK i \in DOMAIN log : log[i] = r
    BY DEF AsyncInv, AcceptedOnce
  <2>2. Settled(i)
    BY <2>1, LogFacts DEF AsyncInv, WorkerKeepsOrder, Settled
  <2>3. Attempted(r)
    BY <2>1, <2>2 DEF AsyncInv, WorkerKeepsOrder
  <2> QED
    BY <2>3 DEF Attempted
<1> QED
  BY <1>1, AsyncInvariant, PTL

=============================================================================
