------------------------------ MODULE EventQueue ------------------------------
(***************************************************************************)
(* The asynchronous observer queue: internal/observability/queue.go.       *)
(*                                                                         *)
(* Request goroutines call Enqueue; one flusher goroutine (run) takes      *)
(* batches and hands each batch to every observer in turn; somebody may    *)
(* call Close once.  Enqueue and takeBatch are each one critical section   *)
(* under q.mu, so each is one step; everything else interleaves.           *)
(*                                                                         *)
(* An event is the ordinal of the Enqueue call that brought it.            *)
(***************************************************************************)
EXTENDS Integers, Sequences

CONSTANTS
  QueueSize,     \* cfg.Observability.QueueSize
  BatchSize,     \* cfg.Observability.BatchSize
  Policies,      \* values of cfg.Observability.OnOverflow considered
  NumObservers,  \* len(q.observers)
  MaxEvents      \* bound: Enqueue calls in one behaviour

ASSUME QueueAssumption ==
  /\ QueueSize \in Int
  /\ BatchSize \in Int
  /\ NumObservers \in Nat
  /\ MaxEvents \in Nat

VARIABLES
  overflow,   \* q.overflow, the policy at capacity
  events,     \* q.events
  calls,      \* Enqueue calls so far
  closed,     \* the channel q.closed is closed
  done,       \* the channel q.done is closed
  pc,         \* the flusher: "select", "take", "emit" or "exited"
  final,      \* the flusher is in the flush that follows q.closed
  batch,      \* the batch the flusher holds
  turn,       \* the observer whose Emit comes next
  offered,    \* per observer, the events its Emit was called with
  dropped,    \* events evicted by the drop_oldest policy
  rejected,   \* events for which Enqueue returned false
  closer,     \* the caller of Close: "idle", "waiting", "ok" or "timeout"
  closeMark   \* Enqueue calls that had happened when Close was called

vars == <<overflow, events, calls, closed, done, pc, final, batch, turn, offered,
          dropped, rejected, closer, closeMark>>

flusherVars == <<pc, final, batch, turn, offered, done>>
closeVars   == <<closed, closer, closeMark>>
lossVars    == <<calls, dropped, rejected>>

Observers == 1 .. NumObservers
Elems(s)  == {s[i] : i \in 1 .. Len(s)}

(***************************************************************************)
(* NewQueue: the defaults for sizes that are not positive.                 *)
(***************************************************************************)
Cap   == IF QueueSize <= 0 THEN 10000 ELSE QueueSize
Batch == IF BatchSize <= 0 THEN 100 ELSE BatchSize

Init ==
  /\ overflow \in Policies
  /\ events = <<>> /\ batch = <<>>
  /\ calls = 0 /\ closeMark = 0
  /\ closed = FALSE /\ done = FALSE /\ final = FALSE
  /\ pc = "select" /\ turn = 1 /\ closer = "idle"
  /\ offered = [o \in Observers |-> <<>>]
  /\ dropped = {} /\ rejected = {}

-----------------------------------------------------------------------------
(***************************************************************************)
(* Enqueue, one critical section.  At capacity "block" and "fail" both     *)
(* return false; every other policy shifts the buffer left by one.         *)
(***************************************************************************)
Full_OffByOne == Len(events) > Cap
Full == Len(events) >= Cap

Evict_Newest(e) == Append(SubSeq(events, 1, Len(events) - 1), e)
Evict(e) == Append(Tail(events), e)

Enqueue ==
  /\ calls < MaxEvents
  /\ calls' = calls + 1
  /\ \/ /\ ~Full
        /\ events' = Append(events, calls + 1)
        /\ UNCHANGED <<dropped, rejected>>
     \/ /\ Full /\ overflow \in {"block", "fail"}
        /\ rejected' = rejected \cup {calls + 1}
        /\ UNCHANGED <<events, dropped>>
     \/ /\ Full /\ overflow \notin {"block", "fail"}
        /\ dropped' = dropped \cup {events[1]}
        /\ events' = Evict(calls + 1)
        /\ UNCHANGED rejected
  /\ UNCHANGED <<flusherVars, closeVars, overflow>>

-----------------------------------------------------------------------------
(***************************************************************************)
(* run: the select between the ticker and q.closed.  When both are ready   *)
(* Go picks either, so both steps are enabled.                             *)
(***************************************************************************)
SelectTick ==
  /\ pc = "select"
  /\ pc' = "take" /\ final' = FALSE
  /\ UNCHANGED <<events, done, batch, turn, offered, lossVars, closeVars, overflow>>

SelectClosed_NoFlush ==
  /\ pc = "select" /\ closed
  /\ pc' = "exited" /\ done' = TRUE
  /\ UNCHANGED <<events, final, batch, turn, offered, lossVars, closeVars, overflow>>
SelectClosed ==
  /\ pc = "select" /\ closed
  /\ pc' = "take" /\ final' = TRUE
  /\ UNCHANGED <<events, done, batch, turn, offered, lossVars, closeVars, overflow>>

(***************************************************************************)
(* takeBatch, one critical section: copy out the first n events and keep   *)
(* the rest.                                                               *)
(***************************************************************************)
BatchLen == IF Batch <= Len(events) THEN Batch ELSE Len(events)

Rest_OffByOne(n) == SubSeq(events, n, Len(events))
Rest(n) == SubSeq(events, n + 1, Len(events))

TakeBatch ==
  /\ pc = "take" /\ events # <<>>
  /\ batch' = SubSeq(events, 1, BatchLen)
  /\ events' = Rest(BatchLen)
  /\ pc' = "emit" /\ turn' = 1
  /\ UNCHANGED <<final, offered, done, lossVars, closeVars, overflow>>

(***************************************************************************)
(* takeBatch returned nil: flush returns, and run either selects again or, *)
(* after the flush that follows q.closed, exits and closes q.done.         *)
(***************************************************************************)
FlushReturns_NoExit ==
  /\ pc = "take" /\ events = <<>>
  /\ pc' = "select"
  /\ UNCHANGED <<events, final, batch, turn, offered, done, lossVars, closeVars, overflow>>
FlushReturns ==
  /\ pc = "take" /\ events = <<>>
  /\ pc' = IF final THEN "exited" ELSE "select"
  /\ done' = final
  /\ UNCHANGED <<events, final, batch, turn, offered, lossVars, closeVars, overflow>>

(***************************************************************************)
(* flush hands the batch to the next observer.  The call ends within its   *)
(* 30 second timeout; an error is logged and the batch goes on to the      *)
(* observers that follow, so success and failure have the same effect.     *)
(***************************************************************************)
EmitTo_StopAtError(o) ==
  /\ pc = "emit" /\ turn = o
  /\ offered' = [offered EXCEPT ![o] = @ \o batch]
  /\ \/ turn' = turn + 1 /\ UNCHANGED pc
     \/ pc' = "take" /\ UNCHANGED turn
  /\ UNCHANGED <<events, batch, final, done, lossVars, closeVars, overflow>>
EmitTo(o) ==
  /\ pc = "emit" /\ turn = o
  /\ offered' = [offered EXCEPT ![o] = @ \o batch]
  /\ turn' = turn + 1
  /\ UNCHANGED <<events, pc, batch, final, done, lossVars, closeVars, overflow>>

BatchDone ==
  /\ pc = "emit" /\ turn > NumObservers
  /\ pc' = "take" /\ batch' = <<>>
  /\ UNCHANGED <<events, turn, final, offered, done, lossVars, closeVars, overflow>>

-----------------------------------------------------------------------------
(***************************************************************************)
(* Close: signal the flusher, then wait for q.done or for the context.     *)
(***************************************************************************)
CloseBegin ==
  /\ closer = "idle"
  /\ closed' = TRUE /\ closer' = "waiting" /\ closeMark' = calls
  /\ UNCHANGED <<events, overflow, flusherVars, lossVars>>

CloseEnd ==
  /\ closer = "waiting"
  /\ \/ done /\ closer' = "ok"
     \/ closer' = "timeout"
  /\ UNCHANGED <<events, overflow, closed, closeMark, flusherVars, lossVars>>

Flusher ==
  \/ SelectTick \/ SelectClosed \/ TakeBatch \/ FlushReturns \/ BatchDone
  \/ \E o \in Observers : EmitTo(o)

Next == Enqueue \/ Flusher \/ CloseBegin \/ CloseEnd

(***************************************************************************)
(* The flusher never stops for good: the ticker keeps firing, critical     *)
(* sections are short and every Emit has a timeout.  SelectClosed is       *)
(* strongly fair because select chooses at random among its ready cases.   *)
(***************************************************************************)
Fairness == WF_vars(Flusher) /\ SF_vars(SelectClosed)

Spec == Init /\ [][Next]_vars
FairSpec == Spec /\ Fairness

-----------------------------------------------------------------------------
(***************************************************************************)
(* Properties.                                                             *)
(***************************************************************************)

(* Type invariant.  It carries the bound of queue.go:42: the buffer never  *)
(* exceeds q.cap and a batch never exceeds q.batch.                        *)
TypeOK ==
  /\ overflow \in Policies
  /\ events \in Seq(Nat) /\ Len(events) <= Cap
  /\ batch \in Seq(Nat) /\ Len(batch) <= Batch
  /\ calls \in Nat /\ closeMark \in Nat
  /\ closed \in BOOLEAN /\ done \in BOOLEAN /\ final \in BOOLEAN
  /\ pc \in {"select", "take", "emit", "exited"}
  /\ turn \in 1 .. NumObservers + 1
  /\ offered \in [Observers -> Seq(Nat)]
  /\ dropped \in SUBSET Nat /\ rejected \in SUBSET Nat
  /\ closer \in {"idle", "waiting", "ok", "timeout"}

(* The events the flusher holds that observer o has still to be given.     *)
Pending(o) == IF pc = "emit" /\ turn <= o THEN batch ELSE <<>>

Increasing(s) == \A i, j \in 1 .. Len(s) : i < j => s[i] < s[j]

(* flush and takeBatch give every observer each event at most once and in  *)
(* the order of the Enqueue calls, whatever was evicted in between.        *)
InOrderOnce == \A o \in Observers : Increasing(offered[o])

(* No event vanishes unrecorded: each Enqueue call's event was refused,    *)
(* was evicted, is buffered, or has been or is about to be given to o; and *)
(* an event that Enqueue refused or evicted is never given to anybody.     *)
Kept(o) == Elems(events) \cup Elems(Pending(o)) \cup Elems(offered[o])
Accounted ==
  \A o \in Observers :
    /\ 1 .. calls = rejected \cup dropped \cup Kept(o)
    /\ (rejected \cup dropped) \cap Kept(o) = {}

(* Overflow of a drop_oldest queue costs the oldest events: whatever was   *)
(* evicted is older than everything the buffer still holds.                *)
OldestGoesFirst ==
  \A d \in dropped : \A i \in 1 .. Len(events) : d < events[i]

(* When run has exited (and Close may return nil), every event enqueued    *)
(* before Close was called has left the buffer; the ones still in it came  *)
(* in later, and nobody will ever take them out.                           *)
CloseDrains ==
  done => \A i \in 1 .. Len(events) : events[i] > closeMark

(* An event that is buffered while the queue is open is given to every     *)
(* observer or evicted, even if Close comes in between and even if other   *)
(* observers fail.                                                         *)
Settled(e) == e \in dropped \/ \A o \in Observers : e \in Elems(offered[o])
EventuallySettled ==
  \A e \in 1 .. MaxEvents : (e \in Elems(events) /\ ~closed) ~> Settled(e)

(* Once Close has signalled q.closed, the flusher drains and exits.  The   *)
(* producers of a behaviour are finite (MaxEvents); flush would not return *)
(* while they kept the buffer filled.                                      *)
CloseStopsFlusher == closed ~> done

(* To an observer the queue is a lossy FIFO channel; the first and the     *)
(* last of q.observers see a batch at the two ends of flush's loop.        *)
FirstFifo == INSTANCE LossyFifo WITH
  sent <- calls, chan <- Pending(1) \o events, out <- offered[1]
LastFifo == INSTANCE LossyFifo WITH
  sent <- calls, chan <- Pending(NumObservers) \o events,
  out <- offered[NumObservers]
ImplementsLossyFifo == FirstFifo!Spec /\ LastFifo!Spec
=============================================================================
