--------------------------- MODULE EventQueueProofs ---------------------------
(***************************************************************************)
(* Proofs about the observer queue for every capacity, batch size,         *)
(* overflow policy, number of observers and number of events.              *)
(***************************************************************************)
EXTENDS EventQueue, SequenceTheorems, TLAPS

(* The sizes NewQueue installs are positive whatever the configuration.    *)
LEMMA Sizes == Cap \in Nat \ {0} /\ Batch \in Nat \ {0}
  BY QueueAssumption DEF Cap, Batch

(* takeBatch splits a nonempty buffer into a batch and a rest that are     *)
(* typed, bounded and keep their elements in place.                        *)
LEMMA Split ==
  ASSUME NEW s \in Seq(Nat), NEW n \in 1 .. Len(s)
  PROVE  /\ SubSeq(s, 1, n) \in Seq(Nat) /\ Len(SubSeq(s, 1, n)) = n
         /\ \A i \in 1 .. n : SubSeq(s, 1, n)[i] = s[i]
         /\ SubSeq(s, n + 1, Len(s)) \in Seq(Nat)
         /\ Len(SubSeq(s, n + 1, Len(s))) = Len(s) - n
         /\ \A i \in 1 .. Len(s) - n : SubSeq(s, n + 1, Len(s))[i] = s[n + i]
  BY SubSeqProperties

(* takeBatch takes at least one event and at most a batch.                 *)
LEMMA BatchLenBounds ==
  ASSUME events \in Seq(Nat), events # <<>>
  PROVE  BatchLen \in 1 .. Len(events) /\ BatchLen <= Batch
  <1>1. Len(events) \in Nat \ {0}
    BY EmptySeq, LenProperties
  <1> QED BY <1>1, Sizes DEF BatchLen

(* Enqueue keeps the buffer within its capacity, whatever the policy.      *)
LEMMA EnqueueTypes ==
  ASSUME TypeOK, Enqueue
  PROVE  /\ events' \in Seq(Nat) /\ Len(events') <= Cap
         /\ dropped' \in SUBSET Nat /\ rejected' \in SUBSET Nat
  <1>0. /\ events \in Seq(Nat) /\ Len(events) \in Nat /\ Len(events) <= Cap
        /\ calls + 1 \in Nat /\ Cap \in Nat \ {0}
        /\ dropped \in SUBSET Nat /\ rejected \in SUBSET Nat
    BY Sizes, LenProperties DEF TypeOK
  <1>1. CASE ~Full /\ events' = Append(events, calls + 1)
                  /\ UNCHANGED <<dropped, rejected>>
    <2>1. events' \in Seq(Nat) /\ Len(events') = Len(events) + 1
      BY <1>0, <1>1, AppendProperties
    <2> QED BY <1>0, <1>1, <2>1 DEF Full
  <1>2. CASE rejected' = rejected \cup {calls + 1}
             /\ UNCHANGED <<events, dropped>>
    BY <1>0, <1>2
  <1>3. CASE Full /\ dropped' = dropped \cup {events[1]}
             /\ events' = Evict(calls + 1) /\ UNCHANGED rejected
    <2>1. events # <<>> /\ events[1] \in Nat
      BY <1>0, <1>3, EmptySeq, ElementOfSeq DEF Full
    <2>2. Tail(events) \in Seq(Nat) /\ Len(Tail(events)) = Len(events) - 1
      BY <1>0, <2>1, HeadTailProperties
    <2>3. events' \in Seq(Nat) /\ Len(events') = Len(events)
      BY <1>0, <1>3, <2>2, AppendProperties DEF Evict
    <2> QED BY <1>0, <1>3, <2>1, <2>3
  <1> QED BY <1>1, <1>2, <1>3 DEF Enqueue

(* NewQueue establishes the type invariant.                                *)
LEMMA TypeInit == Init => TypeOK
  <1> SUFFICES ASSUME Init PROVE TypeOK
    OBVIOUS
  <1>1. /\ events \in Seq(Nat) /\ Len(events) <= Cap
        /\ batch \in Seq(Nat) /\ Len(batch) <= Batch
    BY Sizes, EmptySeq DEF Init
  <1>2. offered \in [Observers -> Seq(Nat)]
    BY EmptySeq DEF Init
  <1>3. turn \in 1 .. NumObservers + 1
    BY QueueAssumption DEF Init
  <1> QED BY <1>1, <1>2, <1>3 DEF Init, TypeOK

(* Every step of a producer, the flusher or Close keeps it.                *)
LEMMA TypeStep == TypeOK /\ [Next]_vars => TypeOK'
  <1> SUFFICES ASSUME TypeOK, [Next]_vars PROVE TypeOK'
    OBVIOUS
  <1> USE QueueAssumption, Sizes
  <1>1. CASE Enqueue
    <2>1. calls' \in Nat
      BY <1>1 DEF Enqueue, TypeOK
    <2>2. /\ events' \in Seq(Nat) /\ Len(events') <= Cap
          /\ dropped' \in SUBSET Nat /\ rejected' \in SUBSET Nat
      BY <1>1, EnqueueTypes DEF TypeOK
    <2> QED BY <1>1, <2>1, <2>2 DEF Enqueue, TypeOK, flusherVars, closeVars
  <1>2. CASE SelectTick
    BY <1>2 DEF SelectTick, TypeOK, lossVars, closeVars
  <1>3. CASE SelectClosed
    BY <1>3 DEF SelectClosed, TypeOK, lossVars, closeVars
  <1>4. CASE TakeBatch
    <2>1. BatchLen \in 1 .. Len(events) /\ BatchLen <= Batch
      BY <1>4, BatchLenBounds DEF TypeOK, TakeBatch
    <2>2. /\ batch' \in Seq(Nat) /\ Len(batch') = BatchLen
          /\ events' \in Seq(Nat) /\ Len(events') = Len(events) - BatchLen
      BY <1>4, <2>1, Split DEF TypeOK, TakeBatch, Rest
    <2> QED BY <1>4, <2>1, <2>2 DEF TakeBatch, TypeOK, lossVars, closeVars
  <1>5. CASE FlushReturns
    BY <1>5 DEF FlushReturns, TypeOK, lossVars, closeVars
  <1>6. CASE BatchDone
    BY <1>6 DEF BatchDone, TypeOK, lossVars, closeVars
  <1>7. ASSUME NEW o \in Observers, EmitTo(o) PROVE TypeOK'
    BY <1>7 DEF EmitTo, TypeOK, Observers, lossVars, closeVars
  <1>8. CASE CloseBegin
    BY <1>8 DEF CloseBegin, TypeOK, flusherVars, lossVars
  <1>9. CASE CloseEnd
    BY <1>9 DEF CloseEnd, TypeOK, flusherVars, lossVars
  <1>10. CASE UNCHANGED vars
    BY <1>10 DEF TypeOK, vars
  <1> QED
    BY <1>1, <1>2, <1>3, <1>4, <1>5, <1>6, <1>7, <1>8, <1>9, <1>10
    DEF Next, Flusher

(* Type correctness: the buffer never exceeds its capacity and a batch     *)
(* never exceeds the batch size (NewQueue, Enqueue, takeBatch).            *)
THEOREM TypeCorrect == Spec => []TypeOK
  BY TypeInit, TypeStep, PTL DEF Spec

-----------------------------------------------------------------------------
(***************************************************************************)
(* The inductive invariant.  InOrderOnce speaks of what the observers got, *)
(* but a step can only keep it if everything on its way to them is ordered *)
(* too: what an observer got, then the batch it has still to get, then the *)
(* buffer, then the next call number.  CloseDrains needs in addition that  *)
(* the last flush runs after Close, so that no later Close moves the mark. *)
(***************************************************************************)
Below(s, t)  == \A i \in 1 .. Len(s), j \in 1 .. Len(t) : s[i] < t[j]
AtMost(s, n) == \A i \in 1 .. Len(s) : s[i] <= n

Ordered ==
  /\ Increasing(events) /\ AtMost(events, calls)
  /\ Increasing(batch) /\ AtMost(batch, calls) /\ Below(batch, events)
  /\ \A o \in Observers :
       /\ Increasing(offered[o]) /\ AtMost(offered[o], calls)
       /\ Below(offered[o], events)
       /\ pc = "emit" /\ turn <= o => Below(offered[o], batch)
  /\ \A d \in dropped : d <= calls
  /\ OldestGoesFirst

Draining ==
  /\ closed => closer # "idle"
  /\ final => closed
  /\ done => closed
  /\ closeMark <= calls
  /\ CloseDrains

IInv == TypeOK /\ Ordered /\ Draining

-----------------------------------------------------------------------------
(***************************************************************************)
(* Order and the operations on the buffer.                                 *)
(***************************************************************************)

(* The newest call number goes behind everything.                          *)
LEMMA AppendOrder ==
  ASSUME NEW s \in Seq(Nat), NEW n \in Nat, Increasing(s), AtMost(s, n)
  PROVE  /\ Append(s, n + 1) \in Seq(Nat)
         /\ Increasing(Append(s, n + 1)) /\ AtMost(Append(s, n + 1), n + 1)
         /\ \A j \in 1 .. Len(Append(s, n + 1)) :
              \/ Append(s, n + 1)[j] = n + 1
              \/ j \in 1 .. Len(s) /\ Append(s, n + 1)[j] = s[j]
  <1> DEFINE t == Append(s, n + 1)
  <1>1. /\ t \in Seq(Nat) /\ Len(t) = Len(s) + 1
        /\ \A i \in 1 .. Len(s) : t[i] = s[i]
        /\ t[Len(s) + 1] = n + 1
    BY AppendProperties
  <1>2. Len(s) \in Nat /\ \A i \in 1 .. Len(s) : s[i] \in Nat
    BY LenProperties, ElementOfSeq
  <1> HIDE DEF t
  <1>3. \A j \in 1 .. Len(t) :
          (j = Len(s) + 1 /\ t[j] = n + 1) \/ (j \in 1 .. Len(s) /\ t[j] = s[j])
    BY <1>1, <1>2
  <1>4. Increasing(t) /\ AtMost(t, n + 1)
    <2>1. ASSUME NEW i \in 1 .. Len(t), NEW j \in 1 .. Len(t), i < j
          PROVE  t[i] < t[j]
      <3>1. i \in 1 .. Len(s) /\ t[i] = s[i] /\ s[i] <= n
        BY <1>1, <1>2, <2>1 DEF AtMost
      <3>2. CASE j = Len(s) + 1
        BY <1>1, <1>2, <3>1, <3>2
      <3>3. CASE j \in 1 .. Len(s)
        BY <1>1, <2>1, <3>1, <3>3 DEF Increasing
      <3> QED BY <1>3, <3>2, <3>3
    <2>2. ASSUME NEW i \in 1 .. Len(t) PROVE t[i] <= n + 1
      BY <1>2, <1>3 DEF AtMost
    <2> QED BY <2>1, <2>2 DEF Increasing, AtMost
  <1> QED BY <1>1, <1>3, <1>4 DEF t

(* Dropping the oldest event keeps the others ordered, and it was older.   *)
LEMMA TailOrder ==
  ASSUME NEW s \in Seq(Nat), s # <<>>, NEW n \in Nat, Increasing(s), AtMost(s, n)
  PROVE  /\ Tail(s) \in Seq(Nat) /\ Increasing(Tail(s)) /\ AtMost(Tail(s), n)
         /\ \A j \in 1 .. Len(Tail(s)) :
              /\ s[1] < Tail(s)[j]
              /\ j + 1 \in 1 .. Len(s) /\ Tail(s)[j] = s[j + 1]
         /\ s[1] <= n
  <1>1. /\ Tail(s) \in Seq(Nat) /\ Len(Tail(s)) = Len(s) - 1
        /\ \A i \in 1 .. Len(Tail(s)) : Tail(s)[i] = s[i + 1]
        /\ Len(s) \in Nat \ {0}
    BY HeadTailProperties, EmptySeq
  <1> QED BY <1>1 DEF Increasing, AtMost

(* Giving an observer a batch that is newer than all it has.               *)
LEMMA ConcatOrder ==
  ASSUME NEW s \in Seq(Nat), NEW t \in Seq(Nat), NEW u \in Seq(Nat), NEW n \in Nat,
         Increasing(s), Increasing(t), Below(s, t),
         Below(s, u), Below(t, u), AtMost(s, n), AtMost(t, n)
  PROVE  /\ s \o t \in Seq(Nat) /\ Increasing(s \o t)
         /\ Below(s \o t, u) /\ AtMost(s \o t, n)
  <1> DEFINE c == s \o t
  <1>1. /\ c \in Seq(Nat) /\ Len(c) = Len(s) + Len(t)
        /\ \A i \in 1 .. Len(s) + Len(t) :
             c[i] = IF i <= Len(s) THEN s[i] ELSE t[i - Len(s)]
        /\ Len(s) \in Nat /\ Len(t) \in Nat
    BY ConcatProperties, LenProperties
  <1> HIDE DEF c
  <1>2. \A i \in 1 .. Len(c) :
          \/ i \in 1 .. Len(s) /\ c[i] = s[i]
          \/ i > Len(s) /\ i - Len(s) \in 1 .. Len(t) /\ c[i] = t[i - Len(s)]
    BY <1>1
  <1>3. Increasing(c)
    <2> SUFFICES ASSUME NEW i \in 1 .. Len(c), NEW j \in 1 .. Len(c), i < j
                 PROVE  c[i] < c[j]
      BY DEF Increasing
    <2>1. CASE j <= Len(s)
      <3>0. i \in Nat /\ j \in Nat /\ ~(i > Len(s)) /\ ~(j > Len(s))
        BY <1>1, <2>1
      <3>1. /\ i \in 1 .. Len(s) /\ c[i] = s[i]
            /\ j \in 1 .. Len(s) /\ c[j] = s[j]
        BY <1>2, <3>0
      <3>2. s[i] < s[j]
        BY <3>1 DEF Increasing
      <3> QED BY <3>1, <3>2
    <2>2. CASE i > Len(s)
      <3>1. /\ i - Len(s) \in 1 .. Len(t) /\ c[i] = t[i - Len(s)]
            /\ j - Len(s) \in 1 .. Len(t) /\ c[j] = t[j - Len(s)]
            /\ i - Len(s) < j - Len(s)
        <4>1. j > Len(s) /\ i \in Nat /\ j \in Nat
          BY <1>1, <2>2
        <4>2. i \notin 1 .. Len(s) /\ j \notin 1 .. Len(s)
          BY <1>1, <2>2, <4>1
        <4> QED BY <1>1, <1>2, <4>1, <4>2
      <3>2. t[i - Len(s)] < t[j - Len(s)]
        BY <3>1 DEF Increasing
      <3> QED BY <3>1, <3>2
    <2>3. CASE i <= Len(s) /\ j > Len(s)
      <3>0. i \in Nat /\ ~(i > Len(s))
        BY <1>1, <2>3
      <3>1. i \in 1 .. Len(s) /\ c[i] = s[i]
        BY <1>2, <3>0
      <3>2. j - Len(s) \in 1 .. Len(t) /\ c[j] = t[j - Len(s)]
        BY <1>1, <1>2, <2>3
      <3>3. s[i] < t[j - Len(s)]
        BY <3>1, <3>2 DEF Below
      <3> QED BY <3>1, <3>2, <3>3
    <2> QED BY <1>1, <2>1, <2>2, <2>3
  <1>4. Below(c, u)
    BY <1>2 DEF Below
  <1>5. AtMost(c, n)
    BY <1>2 DEF AtMost
  <1> QED BY <1>1, <1>3, <1>4, <1>5 DEF c

(* takeBatch: the batch is older than the rest.                            *)
LEMMA SplitOrder ==
  ASSUME NEW s \in Seq(Nat), NEW k \in 1 .. Len(s), NEW n \in Nat,
         Increasing(s), AtMost(s, n)
  PROVE  LET b == SubSeq(s, 1, k)
             r == SubSeq(s, k + 1, Len(s))
         IN  /\ Increasing(b) /\ AtMost(b, n) /\ Increasing(r) /\ AtMost(r, n)
             /\ Below(b, r)
             /\ \A i \in 1 .. Len(b) : i \in 1 .. Len(s) /\ b[i] = s[i]
             /\ \A i \in 1 .. Len(r) : k + i \in 1 .. Len(s) /\ r[i] = s[k + i]
  <1> DEFINE b == SubSeq(s, 1, k)
             r == SubSeq(s, k + 1, Len(s))
  <1>1. /\ Len(b) = k /\ Len(r) = Len(s) - k /\ Len(s) \in Nat
        /\ \A i \in 1 .. k : b[i] = s[i]
        /\ \A i \in 1 .. Len(s) - k : r[i] = s[k + i]
    BY Split, LenProperties
  <1> HIDE DEF b, r
  <1>2. \A i \in 1 .. Len(b) : i \in 1 .. Len(s) /\ b[i] = s[i] /\ i <= k
    BY <1>1
  <1>3. \A i \in 1 .. Len(r) : k + i \in 1 .. Len(s) /\ r[i] = s[k + i]
    BY <1>1
  <1>4. Increasing(b) /\ AtMost(b, n)
    BY <1>1, <1>2 DEF Increasing, AtMost
  <1>5. Increasing(r) /\ AtMost(r, n)
    <2>1. AtMost(r, n)
      BY <1>3 DEF AtMost
    <2>2. ASSUME NEW i \in 1 .. Len(r), NEW j \in 1 .. Len(r), i < j
          PROVE  r[i] < r[j]
      <3>1. k + i < k + j
        BY <1>1, <2>2
      <3>2. s[k + i] < s[k + j]
        BY <1>3, <3>1 DEF Increasing
      <3> QED BY <1>3, <3>2
    <2> QED BY <2>1, <2>2 DEF Increasing
  <1>6. Below(b, r)
    <2>1. ASSUME NEW i \in 1 .. Len(b), NEW j \in 1 .. Len(r)
          PROVE  b[i] < r[j]
      <3>1. i < k + j /\ i \in 1 .. Len(s)
        BY <1>1, <1>2
      <3>2. s[i] < s[k + j]
        BY <1>3, <3>1 DEF Increasing
      <3> QED BY <1>2, <1>3, <3>2
    <2> QED BY <2>1 DEF Below
  <1> QED BY <1>2, <1>3, <1>4, <1>5, <1>6 DEF b, r

-----------------------------------------------------------------------------
(* The elements of the buffer after an Enqueue: old ones and the new one.  *)
LEMMA EnqueueOrder ==
  ASSUME TypeOK, Ordered, Enqueue
  PROVE  /\ Increasing(events') /\ AtMost(events', calls')
         /\ calls' = calls + 1
         /\ \A j \in 1 .. Len(events') :
              \/ events'[j] = calls'
              \/ \E k \in 1 .. Len(events) : events'[j] = events[k]
         /\ \A d \in dropped' : d <= calls'
         /\ \A d \in dropped' : \A j \in 1 .. Len(events') : d < events'[j]
  <1> USE DEF TypeOK
  <1>0. /\ Increasing(events) /\ AtMost(events, calls) /\ calls' = calls + 1
        /\ \A d \in dropped : d \in Nat /\ d <= calls
        /\ \A d \in dropped : \A j \in 1 .. Len(events) : d < events[j]
        /\ Len(events) \in Nat /\ \A j \in 1 .. Len(events) : events[j] \in Nat
    BY LenProperties, ElementOfSeq DEF Ordered, OldestGoesFirst, Enqueue
  <1>1. CASE events' = Append(events, calls + 1) /\ UNCHANGED dropped
    <2>1. /\ Increasing(events') /\ AtMost(events', calls')
          /\ \A j \in 1 .. Len(events') :
               \/ events'[j] = calls + 1
               \/ j \in 1 .. Len(events) /\ events'[j] = events[j]
      BY <1>0, <1>1, AppendOrder
    <2>2. \A d \in dropped' : d <= calls'
      BY <1>0, <1>1
    <2>3. \A d \in dropped' : \A j \in 1 .. Len(events') : d < events'[j]
      BY <1>0, <1>1, <2>1
    <2> QED BY <1>0, <2>1, <2>2, <2>3
  <1>2. CASE UNCHANGED <<events, dropped>>
    <2>1. AtMost(events', calls') /\ \A d \in dropped' : d <= calls'
      BY <1>0, <1>2 DEF AtMost
    <2>2. Increasing(events')
      BY <1>0, <1>2
    <2> QED BY <1>0, <1>2, <2>1, <2>2
  <1>3. CASE Full /\ dropped' = dropped \cup {events[1]}
             /\ events' = Evict(calls + 1)
    <2> DEFINE t == Tail(events)
    <2>1. events # <<>>
      BY <1>0, <1>3, Sizes, EmptySeq DEF Full
    <2>2. /\ t \in Seq(Nat) /\ Increasing(t) /\ AtMost(t, calls)
          /\ \A j \in 1 .. Len(t) :
               /\ events[1] < t[j]
               /\ j + 1 \in 1 .. Len(events) /\ t[j] = events[j + 1]
          /\ events[1] <= calls
      BY <1>0, <2>1, TailOrder
    <2> HIDE DEF t
    <2>3. /\ Increasing(events') /\ AtMost(events', calls')
          /\ \A j \in 1 .. Len(events') :
               \/ events'[j] = calls + 1
               \/ j \in 1 .. Len(t) /\ events'[j] = t[j]
      BY <1>0, <1>3, <2>2, AppendOrder DEF Evict, t
    <2>4. \A j \in 1 .. Len(events') :
            \/ events'[j] = calls'
            \/ \E k \in 1 .. Len(events) : events'[j] = events[k]
      BY <1>0, <2>2, <2>3
    <2>5. 1 \in 1 .. Len(events) /\ events[1] \in Nat
      BY <1>0, <2>1, EmptySeq
    <2>6. \A d \in dropped' : d <= calls'
      BY <1>0, <1>3, <2>2, <2>5
    <2>7. \A d \in dropped' : \A j \in 1 .. Len(events') : d < events'[j]
      <3>1. ASSUME NEW j \in 1 .. Len(events') PROVE events[1] < events'[j]
        <4>1. CASE events'[j] = calls + 1
          BY <2>2, <2>5, <4>1
        <4>2. CASE j \in 1 .. Len(t) /\ events'[j] = t[j]
          BY <2>2, <4>2
        <4> QED BY <2>3, <4>1, <4>2
      <3>2. ASSUME NEW d \in dropped, NEW j \in 1 .. Len(events')
            PROVE  d < events'[j]
        <4>1. CASE events'[j] = calls'
          BY <1>0, <4>1
        <4>2. CASE \E k \in 1 .. Len(events) : events'[j] = events[k]
          BY <1>0, <4>2
        <4> QED BY <2>4, <4>1, <4>2
      <3> QED BY <1>3, <3>1, <3>2
    <2> QED BY <1>0, <2>3, <2>4, <2>6, <2>7
  <1> QED BY <1>1, <1>2, <1>3 DEF Enqueue

(* Enqueue keeps the order, under every overflow policy.                   *)
LEMMA EnqueueKeepsOrdered == TypeOK /\ Ordered /\ Enqueue => Ordered'
  <1> SUFFICES ASSUME TypeOK, Ordered, Enqueue PROVE Ordered'
    OBVIOUS
  <1>0. UNCHANGED <<pc, batch, turn, offered>>
    BY DEF Enqueue, flusherVars
  <1>1. /\ Increasing(events') /\ AtMost(events', calls')
        /\ calls' = calls + 1 /\ calls \in Nat
        /\ \A j \in 1 .. Len(events') :
             \/ events'[j] = calls'
             \/ \E k \in 1 .. Len(events) : events'[j] = events[k]
        /\ \A d \in dropped' : d <= calls'
        /\ OldestGoesFirst'
    BY EnqueueOrder DEF OldestGoesFirst, TypeOK
  <1>2. ASSUME NEW s \in Seq(Nat), AtMost(s, calls), Below(s, events)
        PROVE  AtMost(s, calls') /\ Below(s, events')
    <2>1. \A i \in 1 .. Len(s) : s[i] \in Nat /\ s[i] <= calls
      BY <1>2, ElementOfSeq DEF AtMost
    <2>2. AtMost(s, calls')
      BY <1>1, <2>1 DEF AtMost
    <2>3. ASSUME NEW i \in 1 .. Len(s), NEW j \in 1 .. Len(events')
          PROVE  s[i] < events'[j]
      <3>1. CASE events'[j] = calls'
        BY <1>1, <2>1, <3>1
      <3>2. CASE \E k \in 1 .. Len(events) : events'[j] = events[k]
        BY <1>2, <3>2 DEF Below
      <3> QED BY <1>1, <3>1, <3>2
    <2> QED BY <2>2, <2>3 DEF Below
  <1>3. Increasing(batch') /\ AtMost(batch', calls') /\ Below(batch', events')
    BY <1>0, <1>2 DEF Ordered, TypeOK
  <1>4. ASSUME NEW o \in Observers
        PROVE  /\ Increasing(offered'[o]) /\ AtMost(offered'[o], calls')
               /\ Below(offered'[o], events')
               /\ pc' = "emit" /\ turn' <= o => Below(offered'[o], batch')
    BY <1>0, <1>2 DEF Ordered, TypeOK
  <1> QED BY <1>1, <1>3, <1>4 DEF Ordered

(* takeBatch moves the oldest events, so what moves goes before what stays. *)
LEMMA TakeBatchKeepsOrdered == TypeOK /\ Ordered /\ TakeBatch => Ordered'
  <1> SUFFICES ASSUME TypeOK, Ordered, TakeBatch PROVE Ordered'
    OBVIOUS
  <1>0. /\ UNCHANGED <<offered, calls, dropped>> /\ calls \in Nat
        /\ Increasing(events) /\ AtMost(events, calls) /\ events \in Seq(Nat)
    BY DEF TakeBatch, lossVars, Ordered, TypeOK
  <1>1. BatchLen \in 1 .. Len(events)
    BY BatchLenBounds DEF TakeBatch, TypeOK
  <1>2. /\ Increasing(batch') /\ AtMost(batch', calls)
        /\ Increasing(events') /\ AtMost(events', calls)
        /\ Below(batch', events')
        /\ \A i \in 1 .. Len(batch') : i \in 1 .. Len(events) /\ batch'[i] = events[i]
        /\ \A i \in 1 .. Len(events') : /\ BatchLen + i \in 1 .. Len(events)
                                        /\ events'[i] = events[BatchLen + i]
    BY <1>0, <1>1, SplitOrder DEF TakeBatch, Rest
  <1>3. ASSUME NEW o \in Observers
        PROVE  Below(offered'[o], events') /\ Below(offered'[o], batch')
    <2>1. Below(offered[o], events)
      BY DEF Ordered
    <2> QED BY <1>0, <1>2, <2>1 DEF Below
  <1>4. OldestGoesFirst'
    BY <1>0, <1>2 DEF Ordered, OldestGoesFirst
  <1> QED BY <1>0, <1>2, <1>3, <1>4 DEF Ordered

(* An observer's Emit puts the batch behind what that observer had.        *)
LEMMA EmitToKeepsOrdered ==
  ASSUME TypeOK, Ordered, NEW o \in Observers, EmitTo(o)
  PROVE  Ordered'
  <1>0. /\ UNCHANGED <<events, calls, dropped, batch, pc>> /\ pc = "emit" /\ turn = o
        /\ turn' = turn + 1 /\ offered' = [offered EXCEPT ![o] = @ \o batch]
        /\ offered \in [Observers -> Seq(Nat)] /\ o \in Nat
    BY DEF EmitTo, lossVars, TypeOK, Observers
  <1>1. ASSUME NEW p \in Observers
        PROVE  /\ Increasing(offered'[p]) /\ AtMost(offered'[p], calls)
               /\ Below(offered'[p], events)
               /\ turn' <= p => Below(offered'[p], batch)
    <2>1. CASE p = o
      <3>1. offered'[p] = offered[o] \o batch /\ ~(turn' <= p)
        BY <1>0, <2>1
      <3>2. Below(offered[o], batch)
        BY <1>0 DEF Ordered
      <3> QED BY <1>0, <3>1, <3>2, ConcatOrder DEF Ordered, TypeOK
    <2>2. CASE p # o
      <3>1. offered'[p] = offered[p]
        BY <1>0, <2>2
      <3>2. turn' <= p => turn <= p
        BY <1>0 DEF Observers
      <3> QED BY <1>0, <3>1, <3>2 DEF Ordered
    <2> QED BY <2>1, <2>2
  <1>2. OldestGoesFirst'
    BY <1>0 DEF Ordered, OldestGoesFirst
  <1> QED BY <1>0, <1>1, <1>2 DEF Ordered

(* A step that leaves buffer, deliveries and losses alone and does not     *)
(* start an emit phase.                                                    *)
LEMMA QuietKeepsOrdered ==
  ASSUME Ordered, UNCHANGED <<events, calls, dropped, offered, turn>>,
         \/ batch' = batch /\ (pc' = "emit" => pc = "emit")
         \/ batch' = <<>>
  PROVE  Ordered'
  <1>1. OldestGoesFirst'
    BY DEF Ordered, OldestGoesFirst
  <1>2. CASE batch' = batch /\ (pc' = "emit" => pc = "emit")
    <2>1. \A o \in Observers :
            pc' = "emit" /\ turn' <= o => Below(offered'[o], batch')
      BY <1>2 DEF Ordered
    <2> QED BY <1>1, <1>2, <2>1 DEF Ordered
  <1>3. CASE batch' = <<>>
    <2>1. Len(batch') = 0
      BY <1>3, EmptySeq
    <2>2. /\ Increasing(batch') /\ AtMost(batch', calls') /\ Below(batch', events')
          /\ \A o \in Observers : Below(offered'[o], batch')
      BY <2>1 DEF Increasing, AtMost, Below
    <2> QED BY <1>1, <2>2 DEF Ordered
  <1> QED BY <1>2, <1>3

(* Every step keeps the invariant.                                         *)
LEMMA OrderedStep == IInv /\ [Next]_vars => Ordered'
  <1> SUFFICES ASSUME IInv, [Next]_vars PROVE Ordered'
    OBVIOUS
  <1> USE DEF IInv
  <1>1. CASE Enqueue
    BY <1>1, EnqueueKeepsOrdered
  <1>2. CASE SelectTick
    BY <1>2, QuietKeepsOrdered DEF SelectTick, lossVars
  <1>3. CASE SelectClosed
    BY <1>3, QuietKeepsOrdered DEF SelectClosed, lossVars
  <1>4. CASE TakeBatch
    BY <1>4, TakeBatchKeepsOrdered
  <1>5. CASE FlushReturns
    BY <1>5, QuietKeepsOrdered DEF FlushReturns, lossVars
  <1>6. CASE BatchDone
    BY <1>6, QuietKeepsOrdered DEF BatchDone, lossVars
  <1>7. ASSUME NEW o \in Observers, EmitTo(o) PROVE Ordered'
    BY <1>7, EmitToKeepsOrdered
  <1>8. CASE CloseBegin
    BY <1>8, QuietKeepsOrdered DEF CloseBegin, flusherVars, lossVars
  <1>9. CASE CloseEnd
    BY <1>9, QuietKeepsOrdered DEF CloseEnd, flusherVars, lossVars
  <1>10. CASE UNCHANGED vars
    BY <1>10, QuietKeepsOrdered DEF vars
  <1> QED
    BY <1>1, <1>2, <1>3, <1>4, <1>5, <1>6, <1>7, <1>8, <1>9, <1>10
    DEF Next, Flusher

(* Every step keeps the part of the invariant about Close and run's exit.  *)
LEMMA DrainingStep == IInv /\ [Next]_vars => Draining'
  <1> SUFFICES ASSUME IInv, [Next]_vars PROVE Draining'
    OBVIOUS
  <1> USE DEF IInv, Draining, CloseDrains
  <1>0. calls \in Nat /\ closeMark \in Nat
    BY DEF TypeOK
  <1>1. CASE Enqueue
    <2>1. /\ calls' = calls + 1 /\ UNCHANGED <<closed, done, final, closer, closeMark>>
          /\ \A j \in 1 .. Len(events') :
               \/ events'[j] = calls'
               \/ \E k \in 1 .. Len(events) : events'[j] = events[k]
      BY <1>1, EnqueueOrder DEF Enqueue, flusherVars, closeVars
    <2>2. CloseDrains'
      BY <1>0, <2>1
    <2> QED BY <1>0, <2>1, <2>2
  <1>2. CASE SelectTick
    BY <1>2 DEF SelectTick, lossVars, closeVars
  <1>3. CASE SelectClosed
    BY <1>3 DEF SelectClosed, lossVars, closeVars
  <1>4. CASE TakeBatch
    <2>1. UNCHANGED <<closed, done, final, closer, closeMark, calls>>
      BY <1>4 DEF TakeBatch, lossVars, closeVars
    <2>2. BatchLen \in 1 .. Len(events)
      BY <1>4, BatchLenBounds DEF TakeBatch, TypeOK
    <2>3. \A i \in 1 .. Len(events') :
            BatchLen + i \in 1 .. Len(events) /\ events'[i] = events[BatchLen + i]
      BY <1>0, <1>4, <2>2, SplitOrder DEF TakeBatch, Rest, Ordered, TypeOK
    <2> QED BY <2>1, <2>3
  <1>5. CASE FlushReturns
    <2>1. Len(events') = 0
      BY <1>5, EmptySeq DEF FlushReturns
    <2> QED BY <1>5, <2>1 DEF FlushReturns, lossVars, closeVars
  <1>6. CASE BatchDone
    BY <1>6 DEF BatchDone, lossVars, closeVars
  <1>7. ASSUME NEW o \in Observers, EmitTo(o) PROVE Draining'
    BY <1>7 DEF EmitTo, lossVars, closeVars
  <1>8. CASE CloseBegin
    BY <1>0, <1>8 DEF CloseBegin, flusherVars, lossVars
  <1>9. CASE CloseEnd
    BY <1>9 DEF CloseEnd, flusherVars, lossVars
  <1>10. CASE UNCHANGED vars
    BY <1>10 DEF vars
  <1> QED
    BY <1>1, <1>2, <1>3, <1>4, <1>5, <1>6, <1>7, <1>8, <1>9, <1>10
    DEF Next, Flusher

(* A new queue satisfies the inductive invariant.                          *)
LEMMA InitInv == Init => IInv
  <1> SUFFICES ASSUME Init PROVE IInv
    OBVIOUS
  <1>1. TypeOK
    BY TypeInit
  <1>2. Len(events) = 0 /\ Len(batch) = 0
    BY EmptySeq DEF Init
  <1>3. \A o \in Observers : Len(offered[o]) = 0
    BY EmptySeq DEF Init
  <1>4. Ordered
    BY <1>2, <1>3 DEF Init, Ordered, Increasing, AtMost, Below, OldestGoesFirst
  <1>5. Draining
    BY DEF Init, Draining, CloseDrains
  <1> QED BY <1>1, <1>4, <1>5 DEF IInv

(* The inductive invariant holds throughout every run of the queue.        *)
THEOREM Invariance == Spec => []IInv
  <1>1. IInv /\ [Next]_vars => IInv'
    BY TypeStep, OrderedStep, DrainingStep DEF IInv
  <1> QED BY InitInv, <1>1, PTL DEF Spec

(* Every observer gets each event at most once and in the order of the     *)
(* Enqueue calls, for every capacity, batch size, policy and number of     *)
(* observers (Enqueue, takeBatch, flush).                                  *)
THEOREM DeliveryInOrder == Spec => []InOrderOnce
  <1>1. IInv => InOrderOnce
    BY DEF IInv, Ordered, InOrderOnce
  <1> QED BY <1>1, Invariance, PTL

(* An overflow costs the oldest events (the copy and append of Enqueue).   *)
THEOREM OldestEvicted == Spec => []OldestGoesFirst
  <1>1. IInv => OldestGoesFirst
    BY DEF IInv, Ordered
  <1> QED BY <1>1, Invariance, PTL

(* When run has exited, whatever was enqueued before Close was called has  *)
(* left the buffer (Close, run, flush).                                    *)
THEOREM CloseFlushes == Spec => []CloseDrains
  <1>1. IInv => CloseDrains
    BY DEF IInv, Draining
  <1> QED BY <1>1, Invariance, PTL

-----------------------------------------------------------------------------
(* Enqueue's append adds the new event to the events held.                 *)
LEMMA ElemsAppend ==
  ASSUME NEW s \in Seq(Nat), NEW e \in Nat
  PROVE  Elems(Append(s, e)) = Elems(s) \cup {e}
  <1> DEFINE t == Append(s, e)
  <1>1. /\ Len(s) \in Nat /\ Len(t) = Len(s) + 1
        /\ t[Len(s) + 1] = e /\ \A i \in 1 .. Len(s) : t[i] = s[i]
    BY AppendProperties, LenProperties
  <1> HIDE DEF t
  <1>2. \A i \in 1 .. Len(t) : i \in 1 .. Len(s) \/ i = Len(s) + 1
    BY <1>1
  <1>3. \A i \in 1 .. Len(s) + 1 : i \in 1 .. Len(t)
    BY <1>1
  <1>4. Elems(t) \subseteq Elems(s) \cup {e}
    BY <1>1, <1>2 DEF Elems
  <1>5. Elems(s) \cup {e} \subseteq Elems(t)
    BY <1>1, <1>3 DEF Elems
  <1> QED BY <1>4, <1>5 DEF t

(* flush adds the batch to what the observer was given.                    *)
LEMMA ElemsConcat ==
  ASSUME NEW s \in Seq(Nat), NEW b \in Seq(Nat)
  PROVE  Elems(s \o b) = Elems(s) \cup Elems(b)
  <1> DEFINE t == s \o b
  <1>1. /\ Len(s) \in Nat /\ Len(b) \in Nat /\ Len(t) = Len(s) + Len(b)
        /\ \A i \in 1 .. Len(t) : t[i] = IF i <= Len(s) THEN s[i] ELSE b[i - Len(s)]
    BY ConcatProperties, LenProperties
  <1> HIDE DEF t
  <1>2. ASSUME NEW i \in 1 .. Len(t) PROVE t[i] \in Elems(s) \cup Elems(b)
    <2>1. CASE i <= Len(s)
      BY <1>1, <2>1 DEF Elems
    <2>2. CASE ~(i <= Len(s))
      <3>1. i - Len(s) \in 1 .. Len(b) /\ t[i] = b[i - Len(s)]
        BY <1>1, <2>2
      <3> QED BY <3>1 DEF Elems
    <2> QED BY <2>1, <2>2
  <1>3. ASSUME NEW i \in 1 .. Len(s) PROVE s[i] \in Elems(t)
    <2>1. i \in 1 .. Len(t) /\ t[i] = s[i]
      BY <1>1
    <2> QED BY <2>1 DEF Elems
  <1>4. ASSUME NEW i \in 1 .. Len(b) PROVE b[i] \in Elems(t)
    <2>0. /\ Len(s) + i \in 1 .. Len(t) /\ ~(Len(s) + i <= Len(s))
          /\ (Len(s) + i) - Len(s) = i
      BY <1>1
    <2>1. t[Len(s) + i] = b[i]
      BY <1>1, <2>0
    <2> QED BY <2>0, <2>1 DEF Elems
  <1>5. Elems(t) \subseteq Elems(s) \cup Elems(b)
    BY <1>2 DEF Elems
  <1>6. Elems(s) \subseteq Elems(t) /\ Elems(b) \subseteq Elems(t)
    BY <1>3, <1>4 DEF Elems
  <1> QED BY <1>5, <1>6 DEF t

(* takeBatch splits the buffer without losing or inventing an event.       *)
LEMMA ElemsSplit ==
  ASSUME NEW s \in Seq(Nat), NEW n \in 1 .. Len(s)
  PROVE  Elems(s) = Elems(SubSeq(s, 1, n)) \cup Elems(SubSeq(s, n + 1, Len(s)))
  <1> DEFINE b == SubSeq(s, 1, n)
             r == SubSeq(s, n + 1, Len(s))
  <1>1. /\ Len(b) = n /\ Len(r) = Len(s) - n /\ Len(s) \in Nat
        /\ \A i \in 1 .. n : b[i] = s[i]
        /\ \A i \in 1 .. Len(s) - n : r[i] = s[n + i]
    BY Split, LenProperties
  <1> HIDE DEF b, r
  <1>2. ASSUME NEW i \in 1 .. Len(s) PROVE s[i] \in Elems(b) \cup Elems(r)
    <2>1. CASE i <= n
      <3>1. i \in 1 .. Len(b) /\ b[i] = s[i]
        BY <1>1, <2>1
      <3> QED BY <3>1 DEF Elems
    <2>2. CASE i > n
      <3>1. i - n \in 1 .. Len(r) /\ r[i - n] = s[i]
        BY <1>1, <2>2
      <3> QED BY <3>1 DEF Elems
    <2> QED BY <2>1, <2>2
  <1>3. ASSUME NEW i \in 1 .. Len(b) PROVE b[i] \in Elems(s)
    <2>1. i \in 1 .. Len(s) /\ b[i] = s[i]
      BY <1>1
    <2> QED BY <2>1 DEF Elems
  <1>4. ASSUME NEW i \in 1 .. Len(r) PROVE r[i] \in Elems(s)
    <2>1. n + i \in 1 .. Len(s) /\ r[i] = s[n + i]
      BY <1>1
    <2> QED BY <2>1 DEF Elems
  <1>5. Elems(s) \subseteq Elems(b) \cup Elems(r)
    BY <1>2 DEF Elems
  <1>6. Elems(b) \subseteq Elems(s) /\ Elems(r) \subseteq Elems(s)
    BY <1>3, <1>4 DEF Elems
  <1> QED BY <1>5, <1>6 DEF b, r

(* Shifting the buffer by one removes its first event only.                *)
LEMMA ElemsTail ==
  ASSUME NEW s \in Seq(Nat), s # <<>>
  PROVE  Elems(s) = {s[1]} \cup Elems(Tail(s))
  <1> DEFINE t == Tail(s)
  <1>1. /\ Len(s) \in Nat \ {0} /\ Len(t) = Len(s) - 1
        /\ \A i \in 1 .. Len(t) : t[i] = s[i + 1]
    BY HeadTailProperties, LenProperties, EmptySeq
  <1> HIDE DEF t
  <1>2. ASSUME NEW i \in 1 .. Len(s) PROVE s[i] \in {s[1]} \cup Elems(t)
    <2>1. CASE i = 1
      BY <2>1
    <2>2. CASE i # 1
      <3>1. i - 1 \in 1 .. Len(t) /\ t[i - 1] = s[i]
        BY <1>1, <2>2
      <3> QED BY <3>1 DEF Elems
    <2> QED BY <2>1, <2>2
  <1>3. ASSUME NEW i \in 1 .. Len(t) PROVE t[i] \in Elems(s)
    <2>1. i + 1 \in 1 .. Len(s) /\ t[i] = s[i + 1]
      BY <1>1
    <2> QED BY <2>1 DEF Elems
  <1>4. s[1] \in Elems(s)
    BY <1>1 DEF Elems
  <1>5. Elems(s) \subseteq {s[1]} \cup Elems(t)
    BY <1>2 DEF Elems
  <1>6. Elems(t) \subseteq Elems(s)
    BY <1>3 DEF Elems
  <1> QED BY <1>4, <1>5, <1>6 DEF t

(* An empty buffer holds no event.                                         *)
LEMMA ElemsEmpty == Elems(<<>>) = {}
  BY EmptySeq DEF Elems

-----------------------------------------------------------------------------
(* What observer o still has coming besides the buffer, by the phase.      *)
LEMMA PendingIn ==
  ASSUME NEW o \in Observers
  PROVE  /\ pc = "emit" /\ turn <= o => Pending(o) = batch
         /\ ~(pc = "emit" /\ turn <= o) => Pending(o) = <<>>
  BY DEF Pending

(* An Enqueue adds its own event to the buffer or to the refused ones, and *)
(* moves at most the oldest buffered event to the evicted ones.            *)
LEMMA EnqueueKeepsAccounted ==
  TypeOK /\ Ordered /\ Accounted /\ Enqueue => Accounted'
  <1> SUFFICES ASSUME TypeOK, Ordered, Accounted, Enqueue, NEW o \in Observers
               PROVE  /\ 1 .. calls' = rejected' \cup dropped' \cup Kept(o)'
                      /\ (rejected' \cup dropped') \cap Kept(o)' = {}
    BY DEF Accounted
  <1> DEFINE E == Elems(events)
             P == Elems(Pending(o))
             O == Elems(offered[o])
  <1>1. /\ 1 .. calls = rejected \cup dropped \cup E \cup P \cup O
        /\ (rejected \cup dropped) \cap (E \cup P \cup O) = {}
    BY DEF Accounted, Kept
  <1>2. Kept(o)' = Elems(events') \cup P \cup O
    BY DEF Enqueue, flusherVars, Kept, Pending, Elems
  <1>3. /\ calls \in Nat /\ calls' = calls + 1
        /\ events \in Seq(Nat) /\ offered[o] \in Seq(Nat)
    BY DEF Enqueue, TypeOK
  <1>4. 1 .. calls' = 1 .. calls \cup {calls + 1} /\ calls + 1 \notin 1 .. calls
    BY <1>3
  <1>5. CASE events' = Append(events, calls + 1) /\ UNCHANGED <<dropped, rejected>>
    <2>1. Elems(events') = E \cup {calls + 1}
      BY <1>3, <1>5, ElemsAppend
    <2> HIDE DEF E, P, O
    <2> QED BY <1>1, <1>2, <1>4, <1>5, <2>1
  <1>6. CASE rejected' = rejected \cup {calls + 1} /\ UNCHANGED <<events, dropped>>
    <2>1. Elems(events') = E
      BY <1>6
    <2> HIDE DEF E, P, O
    <2> QED BY <1>1, <1>2, <1>4, <1>6, <2>1
  <1>7. CASE /\ Full /\ dropped' = dropped \cup {events[1]}
             /\ events' = Evict(calls + 1) /\ UNCHANGED rejected
    <2> DEFINE T == Elems(Tail(events))
    <2>1. events # <<>>
      BY <1>3, <1>7, Sizes, EmptySeq DEF Full
    <2>2. Tail(events) \in Seq(Nat) /\ 1 \in 1 .. Len(events) /\ events[1] \in Nat
      BY <1>3, <2>1, HeadTailProperties, EmptySeq, LenProperties, ElementOfSeq
    <2>3. E = {events[1]} \cup T
      BY <1>3, <2>1, ElemsTail
    <2>4. Elems(events') = T \cup {calls + 1}
      <3>0. Tail(events) \in Seq(Nat) /\ calls + 1 \in Nat
        BY <1>3, <2>2
      <3>1. Elems(Append(Tail(events), calls + 1)) = T \cup {calls + 1}
        BY <3>0, ElemsAppend
      <3> QED BY <1>7, <3>1 DEF Evict
    <2>5. events[1] \notin T
      <3>1. \A i \in 1 .. Len(Tail(events)) : events[1] < Tail(events)[i]
        BY <1>3, <2>1, TailOrder DEF Ordered
      <3> QED BY <2>2, <3>1 DEF Elems
    <2>6. events[1] \notin O
      <3>1. \A i \in 1 .. Len(offered[o]) : offered[o][i] < events[1]
        BY <2>2 DEF Ordered, Below
      <3> QED BY <2>2, <3>1 DEF Elems
    <2>7. events[1] \notin P
      <3>1. \A i \in 1 .. Len(batch) : batch[i] < events[1]
        BY <2>2 DEF Ordered, Below
      <3>2. events[1] \notin Elems(batch)
        BY <2>2, <3>1 DEF Elems
      <3> QED BY <3>2, PendingIn, ElemsEmpty
    <2>8. events[1] # calls + 1
      BY <1>3, <2>2 DEF Ordered, AtMost
    <2> HIDE DEF E, P, O, T
    <2>9. 1 .. calls' = rejected' \cup dropped' \cup Elems(events') \cup P \cup O
      BY <1>1, <1>4, <1>7, <2>3, <2>4
    <2>10. (rejected' \cup dropped') \cap (Elems(events') \cup P \cup O) = {}
      <3>1. calls + 1 \notin rejected \cup dropped
        BY <1>1, <1>4
      <3>2. (rejected \cup dropped) \cap (T \cup P \cup O) = {}
        BY <1>1, <2>3
      <3> QED BY <1>7, <2>4, <2>5, <2>6, <2>7, <2>8, <3>1, <3>2
    <2> QED BY <1>2, <2>9, <2>10
  <1> QED BY <1>5, <1>6, <1>7 DEF Enqueue

(* takeBatch only moves events from the buffer to the batch.               *)
LEMMA TakeBatchKeepsAccounted == TypeOK /\ Accounted /\ TakeBatch => Accounted'
  <1> SUFFICES ASSUME TypeOK, Accounted, TakeBatch, NEW o \in Observers
               PROVE  Kept(o)' = Kept(o)
    BY DEF Accounted, TakeBatch, lossVars
  <1>1. BatchLen \in 1 .. Len(events) /\ events \in Seq(Nat)
    BY BatchLenBounds DEF TakeBatch, TypeOK
  <1>2. Elems(events) = Elems(batch') \cup Elems(events')
    BY <1>1, ElemsSplit DEF TakeBatch, Rest
  <1>3. Pending(o) = <<>>
    BY DEF TakeBatch, Pending
  <1>4. Pending(o)' = batch'
    <2>1. pc' = "emit" /\ turn' = 1 /\ 1 <= o
      BY DEF TakeBatch, Observers
    <2> QED BY <2>1 DEF Pending
  <1>5. offered' = offered
    BY DEF TakeBatch
  <1>6. Kept(o) = Elems(events) \cup {} \cup Elems(offered[o])
    BY <1>3, ElemsEmpty DEF Kept
  <1>7. Kept(o)' = Elems(events') \cup Elems(batch') \cup Elems(offered[o])
    BY <1>4, <1>5 DEF Kept
  <1> QED BY <1>2, <1>6, <1>7

(* An Emit moves the batch from what is pending for the observer to what   *)
(* it was given, and changes nothing for the others.                       *)
LEMMA EmitToKeepsAccounted ==
  ASSUME TypeOK, Accounted, NEW p \in Observers, EmitTo(p)
  PROVE  Accounted'
  <1> SUFFICES ASSUME NEW o \in Observers
               PROVE  Kept(o)' = Kept(o)
    BY DEF Accounted, EmitTo, lossVars
  <1>1. /\ UNCHANGED <<events, batch, pc>> /\ pc = "emit" /\ turn = p
        /\ turn' = turn + 1 /\ offered' = [offered EXCEPT ![p] = @ \o batch]
        /\ offered \in [Observers -> Seq(Nat)] /\ batch \in Seq(Nat)
        /\ o \in Int /\ p \in Int
    BY DEF EmitTo, TypeOK, Observers
  <1>2. Elems(events') = Elems(events)
    BY <1>1
  <1>3. CASE o = p
    <2>1. Pending(o) = batch /\ Pending(o)' = <<>>
      BY <1>1, <1>3 DEF Pending
    <2>2. offered'[o] = offered[o] \o batch
      BY <1>1, <1>3
    <2>3. Elems(offered'[o]) = Elems(offered[o]) \cup Elems(batch)
      BY <1>1, <2>2, ElemsConcat
    <2>4. Kept(o)' = Elems(events) \cup {} \cup Elems(offered'[o])
      BY <1>2, <2>1, ElemsEmpty DEF Kept
    <2>5. Kept(o) = Elems(events) \cup Elems(batch) \cup Elems(offered[o])
      BY <2>1 DEF Kept
    <2> QED BY <2>3, <2>4, <2>5
  <1>4. CASE o # p
    <2>1. Pending(o)' = Pending(o)
      BY <1>1, <1>4 DEF Pending
    <2>2. offered'[o] = offered[o]
      BY <1>1, <1>4
    <2> QED BY <1>2, <2>1, <2>2 DEF Kept
  <1> QED BY <1>3, <1>4

(* A step that leaves buffer, deliveries and losses alone and neither      *)
(* enters an emit phase nor leaves one with an observer still to serve.    *)
LEMMA QuietKeepsAccounted ==
  ASSUME TypeOK, Accounted,
         UNCHANGED <<events, calls, dropped, rejected, offered, turn>>,
         \/ UNCHANGED <<pc, batch>>
         \/ pc # "emit" /\ pc' # "emit"
         \/ turn > NumObservers
  PROVE  Accounted'
  <1> SUFFICES ASSUME NEW o \in Observers
               PROVE  Kept(o)' = Kept(o)
    BY DEF Accounted
  <1>1. Pending(o)' = Pending(o)
    <2>1. turn > NumObservers => ~(turn <= o)
      BY QueueAssumption DEF TypeOK, Observers
    <2> QED BY <2>1 DEF Pending
  <1> QED BY <1>1 DEF Kept

(* Every step keeps the accounts.                                          *)
LEMMA AccountedStep == IInv /\ Accounted /\ [Next]_vars => Accounted'
  <1> SUFFICES ASSUME IInv, Accounted, [Next]_vars PROVE Accounted'
    OBVIOUS
  <1> USE DEF IInv
  <1>1. CASE Enqueue
    BY <1>1, EnqueueKeepsAccounted
  <1>2. CASE SelectTick
    BY <1>2, QuietKeepsAccounted DEF SelectTick, lossVars
  <1>3. CASE SelectClosed
    BY <1>3, QuietKeepsAccounted DEF SelectClosed, lossVars
  <1>4. CASE TakeBatch
    BY <1>4, TakeBatchKeepsAccounted
  <1>5. CASE FlushReturns
    BY <1>5, QuietKeepsAccounted DEF FlushReturns, lossVars
  <1>6. CASE BatchDone
    BY <1>6, QuietKeepsAccounted DEF BatchDone, lossVars
  <1>7. ASSUME NEW o \in Observers, EmitTo(o) PROVE Accounted'
    BY <1>7, EmitToKeepsAccounted
  <1>8. CASE CloseBegin
    BY <1>8, QuietKeepsAccounted DEF CloseBegin, flusherVars, lossVars
  <1>9. CASE CloseEnd
    BY <1>9, QuietKeepsAccounted DEF CloseEnd, flusherVars, lossVars
  <1>10. CASE UNCHANGED vars
    BY <1>10, QuietKeepsAccounted DEF vars
  <1> QED
    BY <1>1, <1>2, <1>3, <1>4, <1>5, <1>6, <1>7, <1>8, <1>9, <1>10
    DEF Next, Flusher

(* No event vanishes unrecorded on its way to any observer, and no event   *)
(* refused or evicted by Enqueue is given to anybody, for every capacity,  *)
(* batch size, policy and number of observers.                             *)
THEOREM NothingLost == Spec => []Accounted
  <1>1. Init => Accounted
    <2> SUFFICES ASSUME Init, NEW o \in Observers
                 PROVE  /\ 1 .. calls = rejected \cup dropped \cup Kept(o)
                        /\ (rejected \cup dropped) \cap Kept(o) = {}
      BY DEF Accounted
    <2>1. Kept(o) = {}
      <3>1. events = <<>> /\ Pending(o) = <<>> /\ offered[o] = <<>>
        BY DEF Init, Pending
      <3> QED BY <3>1, ElemsEmpty DEF Kept
    <2>2. calls = 0 /\ rejected = {} /\ dropped = {} /\ 1 .. 0 = {}
      BY DEF Init
    <2> QED BY <2>1, <2>2
  <1>2. IInv /\ Accounted /\ [Next]_vars => Accounted'
    BY AccountedStep
  <1> QED BY <1>1, <1>2, Invariance, PTL DEF Spec

-----------------------------------------------------------------------------
(***************************************************************************)
(* The queue implements a lossy FIFO channel to every one of its observers *)
(* (the run follows the first and the last).  What is on its way to o is   *)
(* the batch o has still to get, then the buffer.                          *)
(***************************************************************************)
Fifo(o) == INSTANCE LossyFifo WITH
  sent <- calls, chan <- Pending(o) \o events, out <- offered[o]

(* The two parts of what is on its way, and the oldest of the second.      *)
LEMMA Parts ==
  ASSUME NEW s \in Seq(Nat), NEW t \in Seq(Nat)
  PROVE  /\ s \o t \in Seq(Nat) /\ Len(s \o t) = Len(s) + Len(t)
         /\ SubSeq(s \o t, 1, Len(s)) = s
         /\ SubSeq(s \o t, Len(s) + 1, Len(s \o t)) = t
         /\ t # <<>> => SubSeq(s \o t, Len(s) + 2, Len(s \o t)) = Tail(t)
  <1>1. /\ s \o t \in Seq(Nat) /\ Len(s \o t) = Len(s) + Len(t)
        /\ Len(s) \in Nat /\ Len(t) \in Nat
    BY ConcatProperties, LenProperties
  <1>2. SubSeq(s \o t, 1, Len(s)) = s
    <2>1. CASE s = <<>>
      BY <1>1, <2>1, SubSeqEmpty, EmptySeq
    <2>2. CASE s # <<>>
      <3>1. Len(s) \in Nat \ {0}
        BY <2>2, EmptySeq
      <3>2. SubSeq(s \o t, 1, Len(s)) = SubSeq(s, 1, Len(s))
        BY <3>1, SubSeqOfConcat1
      <3> QED BY <3>2, SubSeqFull
    <2> QED BY <2>1, <2>2
  <1>3. SubSeq(s \o t, Len(s) + 1, Len(s) + Len(t)) = t
    <2>1. CASE t = <<>>
      BY <1>1, <2>1, SubSeqEmpty, EmptySeq
    <2>2. CASE t # <<>>
      <3>1. Len(t) \in Nat \ {0}
        BY <2>2, EmptySeq
      <3>2. SubSeq(s \o t, Len(s) + 1, Len(s) + Len(t))
              = SubSeq(t, Len(s) + 1 - Len(s), Len(s) + Len(t) - Len(s))
        BY <1>1, <3>1, SubSeqOfConcat2
      <3>3. Len(s) + 1 - Len(s) = 1 /\ Len(s) + Len(t) - Len(s) = Len(t)
        BY <1>1
      <3> QED BY <3>2, <3>3, SubSeqFull
    <2> QED BY <2>1, <2>2
  <1>4. ASSUME t # <<>>
        PROVE  SubSeq(s \o t, Len(s) + 2, Len(s) + Len(t)) = Tail(t)
    <2>1. Len(t) \in Nat \ {0} /\ Tail(t) = SubSeq(t, 2, Len(t))
      BY <1>4, EmptySeq, TailIsSubSeq
    <2>2. CASE Len(t) = 1
      <3>1. Len(s) + Len(t) < Len(s) + 2 /\ Len(t) < 2
        BY <1>1, <2>2
      <3> QED BY <1>1, <2>1, <3>1, SubSeqEmpty
    <2>3. CASE Len(t) # 1
      <3>1. SubSeq(s \o t, Len(s) + 2, Len(s) + Len(t))
              = SubSeq(t, Len(s) + 2 - Len(s), Len(s) + Len(t) - Len(s))
        BY <1>1, <2>1, <2>3, SubSeqOfConcat2
      <3>2. Len(s) + 2 - Len(s) = 2 /\ Len(s) + Len(t) - Len(s) = Len(t)
        BY <1>1
      <3> QED BY <2>1, <3>1, <3>2
    <2> QED BY <2>2, <2>3
  <1> QED BY <1>1, <1>2, <1>3, <1>4

(* An Enqueue sends, is refused or displaces the oldest buffered event.    *)
LEMMA EnqueueRefines ==
  ASSUME TypeOK, Enqueue, NEW o \in Observers
  PROVE  Fifo(o)!Send \/ Fifo(o)!Refuse \/ Fifo(o)!Displace
  <1> DEFINE P == Pending(o)
  <1>1. P' = P /\ offered' = offered /\ calls' = calls + 1
    BY DEF Enqueue, flusherVars, Pending
  <1>2. /\ P \in Seq(Nat) /\ events \in Seq(Nat) /\ calls + 1 \in Nat
        /\ Len(P) \in Nat
    BY EmptySeq, LenProperties DEF TypeOK, Pending
  <1> HIDE DEF P
  <1>3. \A s \in Seq(Nat) : P \o Append(s, calls + 1) = (P \o s) \o <<calls + 1>>
    <2>1. <<calls + 1>> \in Seq(Nat)
      BY <1>2
    <2> QED BY <1>2, <2>1, AppendIsConcat, ConcatAssociative
  <1>4. CASE events' = Append(events, calls + 1)
    <2>1. P \o events \in Seq(Nat)
      BY <1>2, ConcatProperties
    <2>2. P \o events' = Append(P \o events, calls + 1)
      BY <1>2, <1>3, <1>4, <2>1, AppendIsConcat
    <2> QED BY <1>1, <2>2 DEF Fifo!Send, P
  <1>5. CASE events' = events
    BY <1>1, <1>5 DEF Fifo!Refuse, P
  <1>6. CASE Full /\ events' = Evict(calls + 1)
    <2>1. events # <<>>
      BY <1>2, <1>6, Sizes, EmptySeq DEF Full
    <2>2. Tail(events) \in Seq(Nat) /\ Len(events) \in Nat \ {0}
      BY <1>2, <2>1, HeadTailProperties, EmptySeq
    <2> DEFINE c == P \o events
               i == Len(P) + 1
    <2>3. Len(c) = Len(P) + Len(events) /\ i \in 1 .. Len(c)
      BY <1>2, <2>2, Parts
    <2>4. SubSeq(c, 1, i - 1) = P /\ SubSeq(c, i + 1, Len(c)) = Tail(events)
      <3>1. i - 1 = Len(P) /\ i + 1 = Len(P) + 2
        BY <1>2
      <3>2. SubSeq(c, 1, Len(P)) = P /\ SubSeq(c, Len(P) + 2, Len(c)) = Tail(events)
        BY <1>2, <2>1, Parts
      <3> HIDE DEF c, i
      <3> QED BY <3>1, <3>2
    <2>5. P \o events' = SubSeq(c, 1, i - 1) \o SubSeq(c, i + 1, Len(c)) \o <<calls + 1>>
      <3>1. P \o events' = (P \o Tail(events)) \o <<calls + 1>>
        BY <1>3, <1>6, <2>2 DEF Evict
      <3> HIDE DEF c, i
      <3> QED BY <2>4, <3>1
    <2> QED BY <1>1, <2>3, <2>5 DEF Fifo!Displace, P
  <1> QED BY <1>4, <1>5, <1>6 DEF Enqueue

(* takeBatch moves events from the buffer to the batch: nothing happens on *)
(* the channel.                                                            *)
LEMMA TakeBatchStutters ==
  ASSUME TypeOK, TakeBatch, NEW o \in Observers
  PROVE  UNCHANGED Fifo(o)!vars
  <1>1. /\ events \in Seq(Nat) /\ events # <<>> /\ BatchLen \in 1 .. Len(events)
        /\ Len(events) \in Nat
    BY BatchLenBounds, LenProperties DEF TakeBatch, TypeOK
  <1>2. Pending(o) = <<>> /\ <<>> \o events = events
    BY <1>1, ConcatEmptySeq DEF TakeBatch, Pending
  <1>3. Pending(o)' = SubSeq(events, 1, BatchLen)
    <2>1. pc' = "emit" /\ turn' = 1 /\ 1 <= o /\ batch' = SubSeq(events, 1, BatchLen)
      BY DEF TakeBatch, Observers
    <2> QED BY <2>1 DEF Pending
  <1>4. events' = SubSeq(events, BatchLen + 1, Len(events))
    BY DEF TakeBatch, Rest
  <1>5. SubSeq(events, 1, BatchLen) \o SubSeq(events, BatchLen + 1, Len(events)) = events
    <2>1. /\ 1 \in 1 .. Len(events) + 1 /\ BatchLen \in 1 - 1 .. Len(events)
          /\ Len(events) \in BatchLen .. Len(events)
      BY <1>1
    <2> HIDE DEF BatchLen
    <2> QED BY <1>1, <2>1, ConcatAdjacentSubSeq, SubSeqFull
  <1>6. UNCHANGED <<calls, offered>>
    BY DEF TakeBatch, lossVars
  <1> QED BY <1>2, <1>3, <1>4, <1>5, <1>6 DEF Fifo!vars

(* An Emit delivers the batch to its observer and to no other.             *)
LEMMA EmitToRefines ==
  ASSUME TypeOK, NEW p \in Observers, EmitTo(p), NEW o \in Observers
  PROVE  [Fifo(o)!Deliver]_(Fifo(o)!vars)
  <1>1. /\ UNCHANGED <<events, batch, pc, calls>> /\ pc = "emit" /\ turn = p
        /\ turn' = turn + 1 /\ offered' = [offered EXCEPT ![p] = @ \o batch]
        /\ offered \in [Observers -> Seq(Nat)] /\ batch \in Seq(Nat) /\ events \in Seq(Nat)
        /\ o \in Int /\ p \in Int
    BY DEF EmitTo, TypeOK, Observers, lossVars
  <1>2. CASE o = p
    <2>1. Pending(o) = batch /\ Pending(o)' = <<>>
      BY <1>1, <1>2 DEF Pending
    <2>2. offered'[o] = offered[o] \o batch /\ <<>> \o events = events
      BY <1>1, <1>2, ConcatEmptySeq
    <2>3. CASE batch = <<>>
      <3>1. offered'[o] = offered[o]
        BY <1>1, <2>2, <2>3, ConcatEmptySeq
      <3> QED BY <1>1, <2>1, <2>2, <2>3, <3>1 DEF Fifo!vars
    <2>4. CASE batch # <<>>
      <3> DEFINE c == batch \o events
      <3>1. /\ Len(batch) \in 1 .. Len(c)
            /\ SubSeq(c, 1, Len(batch)) = batch /\ SubSeq(c, Len(batch) + 1, Len(c)) = events
        <4>1. Len(batch) \in Nat \ {0} /\ Len(events) \in Nat
          BY <1>1, <2>4, EmptySeq, LenProperties
        <4>2. /\ Len(c) = Len(batch) + Len(events)
              /\ SubSeq(c, 1, Len(batch)) = batch /\ SubSeq(c, Len(batch) + 1, Len(c)) = events
          BY <1>1, Parts
        <4> HIDE DEF c
        <4> QED BY <4>1, <4>2
      <3>2. Fifo(o)!Deliver
        BY <1>1, <2>1, <2>2, <3>1 DEF Fifo!Deliver
      <3> QED BY <3>2
    <2> QED BY <2>3, <2>4
  <1>3. CASE o # p
    <2>1. Pending(o)' = Pending(o) /\ offered'[o] = offered[o]
      BY <1>1, <1>3 DEF Pending
    <2> QED BY <1>1, <2>1 DEF Fifo!vars
  <1> QED BY <1>2, <1>3

(* No other step changes what is on its way to an observer.                *)
LEMMA QuietStutters ==
  ASSUME TypeOK, NEW o \in Observers,
         \/ SelectTick \/ SelectClosed \/ FlushReturns \/ BatchDone
         \/ CloseBegin \/ CloseEnd \/ UNCHANGED vars
  PROVE  UNCHANGED Fifo(o)!vars
  <1>1. UNCHANGED <<events, offered, calls>>
    BY DEF SelectTick, SelectClosed, FlushReturns, BatchDone, CloseBegin, CloseEnd, vars,
           flusherVars, lossVars
  <1>2. Pending(o)' = Pending(o)
    <2>1. turn > NumObservers => ~(turn <= o)
      BY QueueAssumption DEF TypeOK, Observers
    <2> QED BY <2>1 DEF SelectTick, SelectClosed, FlushReturns, BatchDone, CloseBegin, CloseEnd,
                        vars, flusherVars, Pending
  <1> QED BY <1>1, <1>2 DEF Fifo!vars

(* flush and takeBatch, seen by any one observer: a FIFO channel that may  *)
(* lose events, for every number of observers.                             *)
THEOREM EveryObserverHasAFifo ==
  ASSUME NEW o \in Observers
  PROVE  Spec => Fifo(o)!Spec
  <1>1. Init => Fifo(o)!Init
    <2>1. <<>> \in Seq(Nat) /\ <<>> \o <<>> = <<>>
      BY EmptySeq, ConcatEmptySeq
    <2> QED BY <2>1 DEF Init, Fifo!Init, Pending
  <1>2. TypeOK /\ [Next]_vars => [Fifo(o)!Next]_(Fifo(o)!vars)
    <2> SUFFICES ASSUME TypeOK, [Next]_vars PROVE [Fifo(o)!Next]_(Fifo(o)!vars)
      OBVIOUS
    <2>1. CASE Enqueue
      BY <2>1, EnqueueRefines DEF Fifo!Next
    <2>2. CASE TakeBatch
      BY <2>2, TakeBatchStutters
    <2>3. ASSUME NEW p \in Observers, EmitTo(p)
          PROVE  [Fifo(o)!Next]_(Fifo(o)!vars)
      BY <2>3, EmitToRefines DEF Fifo!Next
    <2>4. CASE \/ SelectTick \/ SelectClosed \/ FlushReturns \/ BatchDone
               \/ CloseBegin \/ CloseEnd \/ UNCHANGED vars
      BY <2>4, QuietStutters
    <2> QED BY <2>1, <2>2, <2>3, <2>4 DEF Next, Flusher
  <1> QED BY <1>1, <1>2, TypeCorrect, PTL DEF Spec, Fifo!Spec

(* The same for the first and the last of q.observers, as the run has it,  *)
(* where there is an observer at all.                                      *)
THEOREM QueueIsALossyFifo ==
  ASSUME NumObservers > 0
  PROVE  Spec => ImplementsLossyFifo
  <1>1. 1 \in Observers /\ NumObservers \in Observers
    BY QueueAssumption DEF Observers
  <1>2. (Spec => Fifo(1)!Spec) /\ (Spec => Fifo(NumObservers)!Spec)
    BY <1>1, EveryObserverHasAFifo
  <1>3. /\ Fifo(1)!Init <=> FirstFifo!Init
        /\ [Fifo(1)!Next]_(Fifo(1)!vars) <=> [FirstFifo!Next]_(FirstFifo!vars)
    BY DEF Fifo!Init, FirstFifo!Init, Fifo!Next, FirstFifo!Next, Fifo!vars, FirstFifo!vars,
           Fifo!Send, FirstFifo!Send, Fifo!Refuse, FirstFifo!Refuse, Fifo!Displace,
           FirstFifo!Displace, Fifo!Deliver, FirstFifo!Deliver
  <1>4. /\ Fifo(NumObservers)!Init <=> LastFifo!Init
        /\ [Fifo(NumObservers)!Next]_(Fifo(NumObservers)!vars) <=> [LastFifo!Next]_(LastFifo!vars)
    BY DEF Fifo!Init, LastFifo!Init, Fifo!Next, LastFifo!Next, Fifo!vars, LastFifo!vars,
           Fifo!Send, LastFifo!Send, Fifo!Refuse, LastFifo!Refuse, Fifo!Displace,
           LastFifo!Displace, Fifo!Deliver, LastFifo!Deliver
  <1> QED BY <1>2, <1>3, <1>4, PTL DEF Fifo!Spec, FirstFifo!Spec, LastFifo!Spec, ImplementsLossyFifo
=============================================================================
