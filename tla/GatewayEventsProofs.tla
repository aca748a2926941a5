------------------------- MODULE GatewayEventsProofs -------------------------
(***************************************************************************)
(* Proofs about the events of any set of requests with any number of       *)
(* attempts, in a queue of any size with any number of observers.  The     *)
(* queue's part is taken from EventQueueProofs: its invariants hold here   *)
(* because the composition only takes the queue's own steps.               *)
(***************************************************************************)
EXTENDS GatewayEvents, SequenceTheorems, TLAPS

QueueProofs == INSTANCE EventQueueProofs

-----------------------------------------------------------------------------
(***************************************************************************)
(* The inductive invariant.  Histories is ReceivedAsHistory said of all    *)
(* calls of emit, with what the place of a request says about the events   *)
(* it has had: after a second upstream.error of one attempt it is stuck,   *)
(* and so has no third event after the two.  Maps says that maps do not change under the events that    *)
(* refer to them, except that of request.started, and why a prompt only    *)
(* writes to its own.  Encoding is ShownAsEmitted with the event that is   *)
(* being encoded.                                                          *)
(***************************************************************************)
Places  == {"new", "prompt", "lookup", "attempt", "failing", "interrupted", "stuck",
            "done"}
Types   == {"request.started", "cache.hit", "route.selected", "upstream.error",
            "request.completed", "request.failed"}
MapType == [prompt : BOOLEAN, index : Int]
Entry   == [req : Requests, type : Types, try : Int, map : Int, was : MapType]

Typed ==
  /\ at \in [Requests -> Places] /\ try \in [Requests -> 0 .. Attempts - 1]
  /\ base \in [Requests -> 0 .. Len(heap)]
  /\ heap \in Seq(MapType) /\ log \in Seq(Entry) /\ Len(log) = calls
  /\ shown \in [Observers -> Seq(MapType)]
  /\ process \in {"up", "exited", "crashed"}

(* The event f may come after e of the same request.                       *)
Follows(e, f) ==
  /\ f.type # "request.started" /\ ~Last(e.type)
  /\ f.type = "route.selected" => e.type = "request.started"
  /\ e.type = "upstream.error" =>
       \/ e.try < f.try
       \/ e.try = f.try /\ f.type \in {"upstream.error", "request.failed"}

(* What a request that is at a place and tries n may have emitted.         *)
Possible(e, place, n) ==
  /\ place # "new"
  /\ place \in {"prompt", "lookup"} => e.type = "request.started"
  /\ place # "done" => ~Last(e.type)
  /\ place = "attempt" /\ e.type = "upstream.error" => e.try < n
  /\ place \in {"failing", "interrupted", "stuck"} /\ e.type = "upstream.error" => e.try <= n

Histories ==
  /\ \A a \in 1 .. Len(log) : Possible(log[a], at[log[a].req], try[log[a].req])
  /\ \A a, b \in 1 .. Len(log) :
       a < b /\ log[a].req = log[b].req =>
         /\ Follows(log[a], log[b])
         /\ Repeats(log[a], log[b]) =>
              /\ at[log[a].req] = "stuck"
              /\ \A c \in b + 1 .. Len(log) : log[c].req # log[a].req

(* The map m shows the event e as it was.                                  *)
Shows(m, e) == m.index = e.was.index /\ (e.type # "request.started" => m = e.was)

Maps ==
  /\ \A a \in 1 .. Len(log) : log[a].map \in 1 .. Len(heap) /\ Shows(heap[log[a].map], log[a])
  /\ \A r \in Requests : at[r] # "new" =>
       /\ base[r] \in 1 .. Len(heap)
       /\ \A a \in 1 .. Len(log) : log[a].map = base[r] => log[a].req = r
       /\ \A q \in Requests : at[q] # "new" /\ base[q] = base[r] => q = r

(* Events of the batch that observer o has been shown already.             *)
Half(o) == IF pc = "emit" /\ turn = o THEN encoded ELSE 0

Encoding ==
  /\ encoded \in 0 .. Len(batch)
  /\ encoded # 0 \/ reading # 0 => pc = "emit" /\ turn \in Observers
  /\ reading # 0 => encoded < Len(batch) /\ reading = log[batch[encoded + 1]].map
  /\ \A o \in Observers :
       /\ Len(shown[o]) = Len(offered[o]) + Half(o)
       /\ \A i \in 1 .. Len(offered[o]) : Shows(shown[o][i], log[offered[o][i]])
       /\ \A i \in 1 .. Half(o) : Shows(shown[o][Len(offered[o]) + i], log[batch[i]])

IInv == Typed /\ Histories /\ Maps /\ Encoding

-----------------------------------------------------------------------------
(***************************************************************************)
(* The queue in the composition.                                           *)
(***************************************************************************)
(* The assumption of the queue is part of that of the composition.         *)
LEMMA QueueSizes == QueueProofs!QueueAssumption
  BY EventsAssumption DEF QueueProofs!QueueAssumption

(* What a call of emit does to the queue.                                  *)
LEMMA EnqueueStep ==
  ASSUME Queue!Enqueue
  PROVE  /\ QueueProofs!Enqueue /\ calls' = calls + 1
         /\ UNCHANGED <<pc, final, batch, turn, offered, done>>
  <1>1. QueueProofs!Enqueue
    BY DEF Queue!Enqueue, QueueProofs!Enqueue, Queue!Full, QueueProofs!Full, Queue!Cap,
           QueueProofs!Cap, Queue!Evict, QueueProofs!Evict, Queue!flusherVars,
           QueueProofs!flusherVars, Queue!closeVars, QueueProofs!closeVars
  <1>2. calls' = calls + 1 /\ UNCHANGED <<pc, final, batch, turn, offered, done>>
    BY DEF Queue!Enqueue, Queue!flusherVars
  <1> QED BY <1>1, <1>2

(* The flusher's actions are those of the queue.                           *)
LEMMA FlushStep ==
  ASSUME Flush
  PROVE  QueueProofs!Flusher
  BY DEF Flush, QueueProofs!Flusher, Queue!SelectTick, QueueProofs!SelectTick,
         Queue!TakeBatch, QueueProofs!TakeBatch, Queue!FlushReturns,
         QueueProofs!FlushReturns, Queue!BatchDone, QueueProofs!BatchDone,
         Queue!BatchLen, QueueProofs!BatchLen, Queue!Batch, QueueProofs!Batch,
         Queue!Rest, QueueProofs!Rest, Queue!lossVars, QueueProofs!lossVars,
         Queue!closeVars, QueueProofs!closeVars

(* An observer's call returns.                                             *)
LEMMA EmitStep ==
  ASSUME EmitReturns
  PROVE  QueueProofs!Flusher
  BY DEF EmitReturns, QueueProofs!Flusher, Queue!EmitTo, QueueProofs!EmitTo,
         QueueProofs!Observers, Queue!lossVars, QueueProofs!lossVars,
         Queue!closeVars, QueueProofs!closeVars

(* The actions of a request that emit.                                     *)
Emits(r) ==
  \E type \in Types : \E h, m : Emit(r, type, h, m)

(* A step of a request is a call of emit or does not touch the queue.      *)
LEMMA RequestStep ==
  ASSUME NEW r \in Requests, Request(r)
  PROVE  Emits(r) \/ UNCHANGED queueVars
  <1> USE DEF Emits, Types
  <1>1. CASE Started(r)
    BY <1>1 DEF Started
  <1>2. CASE PromptAdds(r) \/ PromptAddsNothing(r) \/ EndsEarly(r)
    BY <1>2 DEF PromptAdds, PromptAddsNothing, EndsEarly
  <1>3. CASE CacheHit(r)
    BY <1>3 DEF CacheHit
  <1>4. CASE RouteSelected(r)
    BY <1>4 DEF RouteSelected
  <1>5. CASE AttemptFails(r)
    BY <1>5 DEF AttemptFails
  <1>6. CASE StreamFails(r)
    BY <1>6 DEF StreamFails
  <1>7. CASE Completed(r)
    BY <1>7 DEF Completed
  <1>8. CASE Failed(r)
    BY <1>8 DEF Failed
  <1>9. CASE SkipRoute(r)
    BY <1>9 DEF SkipRoute
  <1>10. CASE StreamFailsAgain(r)
    BY <1>10 DEF StreamFailsAgain
  <1> QED BY <1>1, <1>2, <1>3, <1>4, <1>5, <1>6, <1>7, <1>8, <1>9, <1>10 DEF Request

(* Every step is one of the queue or leaves it alone.                      *)
LEMMA QueueStep == [Next]_vars => [QueueProofs!Next]_QueueProofs!vars
  <1> SUFFICES ASSUME [Next]_vars PROVE [QueueProofs!Next]_QueueProofs!vars
    OBVIOUS
  <1>1. ASSUME UNCHANGED queueVars PROVE UNCHANGED QueueProofs!vars
    BY <1>1 DEF queueVars, QueueProofs!vars
  <1>2. ASSUME NEW r \in Requests, Request(r)
        PROVE  QueueProofs!Next \/ UNCHANGED queueVars
    BY <1>2, RequestStep, EnqueueStep DEF Emits, Emit, QueueProofs!Next
  <1>3. CASE Flush \/ EmitReturns
    BY <1>3, FlushStep, EmitStep DEF QueueProofs!Next
  <1>4. CASE EncodeBegins \/ EncodeEnds \/ Exit
    BY <1>1, <1>4 DEF EncodeBegins, EncodeEnds, Exit
  <1>5. CASE UNCHANGED vars
    BY <1>1, <1>5 DEF vars
  <1> QED BY <1>1, <1>2, <1>3, <1>4, <1>5 DEF Next

(* The queue starts as NewQueue makes it.                                  *)
LEMMA QueueInit == Init => QueueProofs!Init
  BY DEF Init, Queue!Init, QueueProofs!Init, Queue!Observers, QueueProofs!Observers

(* Composed with requests, encoder and exit the queue is still the queue:  *)
(* emit is a producer, and the flusher keeps its order (ExecuteChat, run). *)
THEOREM QueueComposed == Spec => QueueProofs!Spec
  BY QueueInit, QueueStep, PTL DEF Spec, QueueProofs!Spec

(* What the proofs below need to know of the queue.                        *)
Held ==
  /\ calls \in Nat /\ batch \in Seq(Nat) /\ offered \in [Observers -> Seq(Nat)]
  /\ pc \in {"select", "take", "emit", "exited"} /\ turn \in 1 .. NumObservers + 1
  /\ \A o \in Observers :
       /\ \A i \in 1 .. Len(offered[o]) : offered[o][i] \in 1 .. calls
       /\ \A i, j \in 1 .. Len(offered[o]) : i < j => offered[o][i] < offered[o][j]
       /\ pc = "emit" /\ turn <= o => \A i \in 1 .. Len(batch) : batch[i] \in 1 .. calls

(* It holds because the queue is the queue (EventQueueProofs).             *)
LEMMA QueueHolds == Spec => []Held
  <1>1. ASSUME QueueProofs!TypeOK, QueueProofs!InOrderOnce, QueueProofs!Accounted PROVE Held
    <2>1. /\ calls \in Nat /\ batch \in Seq(Nat) /\ offered \in [Observers -> Seq(Nat)]
          /\ pc \in {"select", "take", "emit", "exited"} /\ turn \in 1 .. NumObservers + 1
      BY <1>1 DEF QueueProofs!TypeOK, QueueProofs!Observers, Observers
    <2> SUFFICES ASSUME NEW o \in Observers
                 PROVE  /\ \A i \in 1 .. Len(offered[o]) : offered[o][i] \in 1 .. calls
                        /\ \A i, j \in 1 .. Len(offered[o]) :
                             i < j => offered[o][i] < offered[o][j]
                        /\ pc = "emit" /\ turn <= o =>
                             \A i \in 1 .. Len(batch) : batch[i] \in 1 .. calls
      BY <2>1 DEF Held
    <2>2. QueueProofs!Kept(o) \subseteq 1 .. calls
      BY <1>1 DEF QueueProofs!Accounted, QueueProofs!Observers, Observers
    <2>3. \A i \in 1 .. Len(offered[o]) : offered[o][i] \in 1 .. calls
      BY <2>2 DEF QueueProofs!Kept, QueueProofs!Elems
    <2>4. \A i, j \in 1 .. Len(offered[o]) : i < j => offered[o][i] < offered[o][j]
      BY <1>1 DEF QueueProofs!InOrderOnce, QueueProofs!Increasing, QueueProofs!Observers,
                  Observers
    <2>5. ASSUME pc = "emit", turn <= o, NEW i \in 1 .. Len(batch)
          PROVE  batch[i] \in 1 .. calls
      BY <2>2, <2>5 DEF QueueProofs!Kept, QueueProofs!Elems, QueueProofs!Pending
    <2> QED BY <2>3, <2>4, <2>5
  <1>2. /\ QueueProofs!Spec => []QueueProofs!TypeOK
        /\ QueueProofs!Spec => []QueueProofs!InOrderOnce
        /\ QueueProofs!Spec => []QueueProofs!Accounted
    BY QueueSizes, QueueProofs!TypeCorrect, QueueProofs!DeliveryInOrder,
       QueueProofs!NothingLost
  <1> QED BY <1>1, <1>2, QueueComposed, PTL

-----------------------------------------------------------------------------
(***************************************************************************)
(* Maps and the log.                                                       *)
(***************************************************************************)
(* What h has grown to.                                                    *)
Grown(h, g) ==
  g \in Seq(MapType) /\ Len(g) >= Len(h) /\ \A i \in 1 .. Len(h) : g[i] = h[i]

(* A map more.                                                             *)
LEMMA AppendGrows ==
  ASSUME NEW h \in Seq(MapType), NEW e \in MapType
  PROVE  Grown(h, Append(h, e)) /\ Len(Append(h, e)) = Len(h) + 1
  BY AppendProperties, LenProperties DEF Grown

(* addTiming and routeEventProps leave the maps there are as they are and  *)
(* return a new one.                                                       *)
LEMMA AddTimingCopies ==
  ASSUME NEW h \in Seq(MapType), NEW m \in 1 .. Len(h)
  PROVE  /\ AddTiming(h, m).map = Len(h) + 1
         /\ Len(AddTiming(h, m).heap) = Len(h) + 1
         /\ AddTiming(h, m).heap[Len(h) + 1] = h[m]
         /\ Grown(h, AddTiming(h, m).heap)
  <1>1. h[m] \in MapType
    BY ElementOfSeq
  <1>2. AddTiming(h, m).heap = Append(h, h[m]) /\ AddTiming(h, m).map = Len(h) + 1
    BY DEF AddTiming
  <1> QED BY <1>1, <1>2, AppendProperties, LenProperties DEF Grown

(* The copy that names a route leaves the other maps alone as well.        *)
LEMMA RouteEventPropsCopies ==
  ASSUME NEW h \in Seq(MapType), NEW m \in 1 .. Len(h), NEW i \in Int
  PROVE  /\ RouteEventProps(h, m, i).map = Len(h) + 1
         /\ Len(RouteEventProps(h, m, i).heap) = Len(h) + 1
         /\ Grown(h, RouteEventProps(h, m, i).heap)
  <1> DEFINE copy == AddTiming(h, m)
             g    == copy.heap
             e    == [g[Len(h) + 1] EXCEPT !.index = i]
  <1>1. /\ copy.map = Len(h) + 1 /\ Len(g) = Len(h) + 1 /\ Len(h) \in Nat
        /\ g[Len(h) + 1] = h[m] /\ Grown(h, g)
    BY AddTimingCopies, LenProperties
  <1>2. /\ RouteEventProps(h, m, i).map = copy.map
        /\ RouteEventProps(h, m, i).heap = [g EXCEPT ![Len(h) + 1] = e]
    BY <1>1 DEF RouteEventProps, AddTiming
  <1>3. e \in MapType
    <2>1. h[m] \in MapType
      BY ElementOfSeq
    <2>2. g[Len(h) + 1] \in MapType
      BY <1>1, <2>1
    <2> QED BY <2>2 DEF MapType
  <1>4. g \in Seq(MapType) /\ Len(h) + 1 \in 1 .. Len(g)
    BY <1>1 DEF Grown
  <1> HIDE DEF e, g, copy
  <1>5. /\ [g EXCEPT ![Len(h) + 1] = e] \in Seq(MapType)
        /\ Len([g EXCEPT ![Len(h) + 1] = e]) = Len(g)
        /\ \A j \in 1 .. Len(g) :
             [g EXCEPT ![Len(h) + 1] = e][j] = IF j = Len(h) + 1 THEN e ELSE g[j]
    BY <1>3, <1>4, ExceptSeq
  <1> QED BY <1>1, <1>2, <1>5 DEF Grown

(* No request but r has props in the map m.                                *)
Owned(r, m) == \A q \in Requests : at[q] # "new" /\ base[q] = m => q = r

(* A call of emit: the log grows by an event that refers to a new map, or  *)
(* to one that is not of another request, and shows it as it is.           *)
Adds(r, type) ==
  /\ log' \in Seq(Entry) /\ Len(log') = Len(log) + 1
  /\ \A i \in 1 .. Len(log) : log'[i] = log[i]
  /\ LET e == log'[Len(log) + 1]
     IN  /\ e.req = r /\ e.type = type /\ e.try = try[r] /\ e.was = heap'[e.map]
         /\ e.map \in 1 .. Len(heap')
         /\ e.map \in 1 .. Len(heap) => Owned(r, e.map)
  /\ Grown(heap, heap')
  /\ calls' = calls + 1
  /\ UNCHANGED <<encVars, process, pc, batch, turn, offered>>

(* Emit as it is called: with heap or what has grown out of it.            *)
LEMMA EmitAdds ==
  ASSUME Typed, NEW r \in Requests, NEW type \in Types, NEW h, Grown(heap, h),
         NEW m \in 1 .. Len(h), m \in 1 .. Len(heap) => Owned(r, m),
         Emit(r, type, h, m), UNCHANGED <<encVars, process>>
  PROVE  Adds(r, type)
  <1> DEFINE e == [req |-> r, type |-> type, try |-> try[r], map |-> m, was |-> h[m]]
  <1>1. h[m] \in MapType /\ m \in Int
    BY ElementOfSeq, LenProperties DEF Grown
  <1>2. try[r] \in Int
    BY EventsAssumption DEF Typed
  <1>3. e \in Entry
    BY <1>1, <1>2 DEF Entry
  <1>4. e.req = r /\ e.type = type /\ e.try = try[r] /\ e.was = h[m] /\ e.map = m
    OBVIOUS
  <1>5. log' = Append(log, e) /\ heap' = h /\ Queue!Enqueue
    BY DEF Emit
  <1> HIDE DEF e
  <1>6. log \in Seq(Entry) /\ Len(log) \in Nat
    BY LenProperties DEF Typed
  <1>7. /\ log' \in Seq(Entry) /\ Len(log') = Len(log) + 1 /\ log'[Len(log) + 1] = e
        /\ \A i \in 1 .. Len(log) : log'[i] = log[i]
    BY <1>3, <1>5, <1>6, AppendProperties
  <1> QED BY <1>4, <1>5, <1>7, EnqueueStep DEF Adds

(* Events that are in the log do not change.                               *)
LEMMA TypedAdds ==
  ASSUME Typed, Held, NEW r \in Requests, NEW type \in Types, Adds(r, type),
         NEW w \in Places, at' = [at EXCEPT ![r] = w],
         NEW n \in 0 .. Attempts - 1, try' = [try EXCEPT ![r] = n],
         base' \in [Requests -> 0 .. Len(heap')]
  PROVE  Typed'
  <1>1. at' \in [Requests -> Places] /\ try' \in [Requests -> 0 .. Attempts - 1]
    BY DEF Typed
  <1>2. Len(log') = calls'
    BY DEF Typed, Adds
  <1> QED BY <1>1, <1>2 DEF Typed, Adds, Grown, encVars, Observers

(* The maps of the events so far do not change, and a map that is new      *)
(* belongs to nobody else.                                                 *)
LEMMA MapsAdds ==
  ASSUME Typed, Maps, NEW r \in Requests, NEW type \in Types, Adds(r, type),
         base' = base, \A q \in Requests : at'[q] # "new" => at[q] # "new"
  PROVE  Maps'
  <1> DEFINE n == Len(log) + 1
  <1>1. Len(log) \in Nat /\ Len(log') = n /\ Len(heap) \in Nat /\ Len(heap') \in Nat
        /\ Len(heap') >= Len(heap)
    BY LenProperties DEF Typed, Adds, Grown
  <1>2. ASSUME NEW a \in 1 .. Len(log)
        PROVE  /\ log'[a] = log[a] /\ log[a].map \in 1 .. Len(heap)
               /\ log'[a].map \in 1 .. Len(heap')
               /\ Shows(heap'[log'[a].map], log'[a])
    BY <1>1 DEF Adds, Maps, Grown
  <1>3. /\ log'[n].map \in 1 .. Len(heap') /\ Shows(heap'[log'[n].map], log'[n])
        /\ log'[n].req = r
        /\ log'[n].map \in 1 .. Len(heap) => Owned(r, log'[n].map)
    BY DEF Adds, Shows
  <1>4. ASSUME NEW q \in Requests, at'[q] # "new"
        PROVE  /\ base'[q] \in 1 .. Len(heap) /\ base'[q] \in 1 .. Len(heap')
               /\ \A a \in 1 .. Len(log') : log'[a].map = base'[q] => log'[a].req = q
               /\ \A p \in Requests : at'[p] # "new" /\ base'[p] = base'[q] => p = q
    <2>1. /\ base[q] \in 1 .. Len(heap) /\ base' = base /\ at[q] # "new"
          /\ \A a \in 1 .. Len(log) : log[a].map = base[q] => log[a].req = q
          /\ \A p \in Requests : at[p] # "new" /\ base[p] = base[q] => p = q
      BY <1>4 DEF Maps
    <2>2. log'[n].map = base[q] => q = r
      BY <1>3, <2>1 DEF Owned
    <2>3. ASSUME NEW a \in 1 .. Len(log'), log'[a].map = base'[q] PROVE log'[a].req = q
      <3>1. CASE a = n
        BY <1>3, <2>1, <2>2, <2>3, <3>1
      <3>2. CASE a # n
        BY <1>1, <1>2, <2>1, <2>3, <3>2
      <3> QED BY <3>1, <3>2
    <2>4. base'[q] \in 1 .. Len(heap) /\ base'[q] \in 1 .. Len(heap')
      BY <1>1, <2>1
    <2>5. \A p \in Requests : at'[p] # "new" /\ base'[p] = base'[q] => p = q
      BY <2>1
    <2> QED BY <2>3, <2>4, <2>5
  <1>5. \A a \in 1 .. Len(log') :
          log'[a].map \in 1 .. Len(heap') /\ Shows(heap'[log'[a].map], log'[a])
    BY <1>1, <1>2, <1>3
  <1> QED BY <1>4, <1>5 DEF Maps

(* What has been shown was shown of events that stay as they are.          *)
LEMMA EncodingAdds ==
  ASSUME Typed, Held, Encoding, NEW r \in Requests, NEW type \in Types, Adds(r, type)
  PROVE  Encoding'
  <1>1. /\ UNCHANGED <<reading, encoded, shown, pc, batch, turn, offered>>
        /\ \A i \in 1 .. calls : log'[i] = log[i]
    BY DEF Adds, encVars, Typed
  <1>2. \A o \in Observers : Half(o)' = Half(o)
    BY <1>1 DEF Half
  <1>3. reading # 0 => log'[batch[encoded + 1]] = log[batch[encoded + 1]]
    <2> SUFFICES ASSUME reading # 0 PROVE batch[encoded + 1] \in 1 .. calls
      BY <1>1
    <2>1. pc = "emit" /\ turn \in Observers /\ encoded + 1 \in 1 .. Len(batch)
      BY LenProperties DEF Encoding, Held
    <2> QED BY <2>1 DEF Held, Observers
  <1>4. ASSUME NEW o \in Observers
        PROVE  /\ \A i \in 1 .. Len(offered[o]) : log'[offered[o][i]] = log[offered[o][i]]
               /\ \A i \in 1 .. Half(o) : log'[batch[i]] = log[batch[i]]
    <2>1. \A i \in 1 .. Len(offered[o]) : offered[o][i] \in 1 .. calls
      BY DEF Held
    <2>2. ASSUME NEW i \in 1 .. Half(o) PROVE batch[i] \in 1 .. calls
      <3>1. pc = "emit" /\ turn = o /\ i \in 1 .. Len(batch)
        BY <2>2, LenProperties DEF Half, Encoding, Held
      <3> QED BY <3>1 DEF Held, Observers
    <2> QED BY <1>1, <2>1, <2>2
  <1>5. /\ encoded \in 0 .. Len(batch)
        /\ encoded # 0 \/ reading # 0 => pc = "emit" /\ turn \in Observers
        /\ reading # 0 => encoded < Len(batch) /\ reading = log'[batch[encoded + 1]].map
    BY <1>3 DEF Encoding
  <1>6. ASSUME NEW o \in Observers
        PROVE  /\ Len(shown[o]) = Len(offered[o]) + Half(o)
               /\ \A i \in 1 .. Len(offered[o]) : Shows(shown[o][i], log'[offered[o][i]])
               /\ \A i \in 1 .. Half(o) : Shows(shown[o][Len(offered[o]) + i], log'[batch[i]])
    BY <1>4 DEF Encoding
  <1> QED BY <1>1, <1>2, <1>5, <1>6 DEF Encoding

(* A request at a place, at attempt k, may go on to place w and attempt n, *)
(* without an event or with one of a type.                                 *)
Passes(place, k, w, n) ==
  place # "stuck" /\ \A e \in Entry : Possible(e, place, k) => Possible(e, w, n)

Allowed(place, k, type, w, n) ==
  /\ Passes(place, k, w, n)
  /\ \A e, f \in Entry :
       Possible(e, place, k) /\ f.type = type /\ f.try = k =>
         Follows(e, f) /\ (Repeats(e, f) => w = "stuck")
  /\ \A f \in Entry : f.type = type /\ f.try = k => Possible(f, w, n)

(* The order in which ExecuteChat and what it calls emit events.           *)
LEMMA AllowedSteps ==
  ASSUME NEW k \in Int
  PROVE  /\ Allowed("new", k, "request.started", "prompt", k)
         /\ Allowed("lookup", k, "cache.hit", "done", k)
         /\ Allowed("lookup", k, "route.selected", "attempt", k)
         /\ Allowed("attempt", k, "upstream.error", "attempt", k + 1)
         /\ Allowed("attempt", k, "upstream.error", "failing", k)
         /\ Allowed("attempt", k, "upstream.error", "interrupted", k)
         /\ Allowed("attempt", k, "request.completed", "done", k)
         /\ Allowed("failing", k, "request.failed", "done", k)
         /\ Allowed("interrupted", k, "request.failed", "done", k)
         /\ Allowed("interrupted", k, "upstream.error", "stuck", k)
  <1> USE DEF Allowed, Passes, Possible, Follows, Repeats, Last, Entry
  <1>1. /\ Allowed("new", k, "request.started", "prompt", k)
        /\ Allowed("lookup", k, "cache.hit", "done", k)
        /\ Allowed("lookup", k, "route.selected", "attempt", k)
    OBVIOUS
  <1>2. Allowed("attempt", k, "upstream.error", "attempt", k + 1)
    OBVIOUS
  <1>3. Allowed("attempt", k, "upstream.error", "failing", k)
    OBVIOUS
  <1>4. Allowed("attempt", k, "upstream.error", "interrupted", k)
    OBVIOUS
  <1>5. Allowed("attempt", k, "request.completed", "done", k)
    OBVIOUS
  <1>6. Allowed("failing", k, "request.failed", "done", k)
    OBVIOUS
  <1>7. Allowed("interrupted", k, "request.failed", "done", k)
    OBVIOUS
  <1>8. Allowed("interrupted", k, "upstream.error", "stuck", k)
    OBVIOUS
  <1> QED BY <1>1, <1>2, <1>3, <1>4, <1>5, <1>6, <1>7, <1>8

(* Where it goes without an event.                                         *)
LEMMA PassesSteps ==
  ASSUME NEW k \in Int
  PROVE  /\ Passes("prompt", k, "lookup", k)
         /\ Passes("prompt", k, "done", k) /\ Passes("lookup", k, "done", k)
         /\ Passes("attempt", k, "attempt", k + 1) /\ Passes("attempt", k, "failing", k)
  BY DEF Passes, Possible, Last, Entry

(* One more event makes a longer history.                                  *)
LEMMA HistoriesAdds ==
  ASSUME Typed, Histories, NEW r \in Requests, NEW type \in Types, Adds(r, type),
         NEW w \in Places, at' = [at EXCEPT ![r] = w],
         NEW n \in 0 .. Attempts - 1, try' = [try EXCEPT ![r] = n],
         Allowed(at[r], try[r], type, w, n)
  PROVE  Histories'
  <1> DEFINE k == Len(log) + 1
             f == log'[k]
  <1>1. /\ Len(log) \in Nat /\ Len(log') = k /\ \A i \in 1 .. Len(log) : log'[i] = log[i]
        /\ f.req = r /\ f.type = type /\ f.try = try[r]
    BY LenProperties DEF Adds, Typed
  <1>2. \A a \in 1 .. Len(log') : log'[a] \in Entry
    BY ElementOfSeq DEF Adds
  <1>3. at'[r] = w /\ try'[r] = n
        /\ \A q \in Requests \ {r} : at'[q] = at[q] /\ try'[q] = try[q]
    BY DEF Typed
  <1>4. ASSUME NEW a \in 1 .. Len(log)
        PROVE  /\ Possible(log'[a], at'[log'[a].req], try'[log'[a].req])
               /\ log'[a].req = r =>
                    Follows(log'[a], f) /\ (Repeats(log'[a], f) => w = "stuck")
    <2>1. log'[a] = log[a] /\ log[a] \in Entry /\ log[a].req \in Requests /\ f \in Entry
      <3>1. log'[a] = log[a] /\ log'[a] \in Entry /\ f \in Entry
        BY <1>1, <1>2
      <3>2. log[a].req \in Requests
        BY <3>1 DEF Entry
      <3> QED BY <3>1, <3>2
    <2>2. Possible(log[a], at[log[a].req], try[log[a].req])
      BY DEF Histories
    <2> QED BY <1>1, <1>3, <2>1, <2>2 DEF Allowed, Passes
  <1>5. Possible(f, at'[f.req], try'[f.req])
    BY <1>1, <1>2, <1>3 DEF Allowed
  <1>6. ASSUME NEW a \in 1 .. Len(log'), NEW b \in 1 .. Len(log'), a < b,
               log'[a].req = log'[b].req
        PROVE  /\ Follows(log'[a], log'[b])
               /\ Repeats(log'[a], log'[b]) =>
                    /\ at'[log'[a].req] = "stuck"
                    /\ \A c \in b + 1 .. Len(log') : log'[c].req # log'[a].req
    <2>1. CASE b = k
      <3>1. a \in 1 .. Len(log) /\ log'[a].req = r /\ b + 1 .. Len(log') = {}
        BY <1>1, <1>6, <2>1
      <3> QED BY <1>3, <1>4, <2>1, <3>1
    <2>2. CASE b # k
      <3>1. /\ a \in 1 .. Len(log) /\ b \in 1 .. Len(log)
            /\ log'[a] = log[a] /\ log'[b] = log[b]
        BY <1>1, <1>6, <2>2
      <3>2. /\ Follows(log[a], log[b])
            /\ Repeats(log[a], log[b]) =>
                 /\ at[log[a].req] = "stuck"
                 /\ \A c \in b + 1 .. Len(log) : log[c].req # log[a].req
        BY <1>6, <3>1 DEF Histories
      <3>3. ASSUME Repeats(log[a], log[b])
            PROVE  /\ at'[log'[a].req] = "stuck"
                   /\ \A c \in b + 1 .. Len(log') : log'[c].req # log'[a].req
        <4>1. log[a].req # r /\ log[a].req \in Requests
          <5>1. log'[a] \in Entry
            BY <1>2
          <5> QED BY <3>1, <3>2, <3>3, <5>1 DEF Allowed, Passes, Entry
        <4>2. \A c \in b + 1 .. Len(log') : c = k \/ c \in b + 1 .. Len(log)
          BY <1>1
        <4>3. \A c \in b + 1 .. Len(log) : log'[c] = log[c]
          BY <1>1, <3>1
        <4> QED BY <1>1, <1>3, <3>1, <3>2, <3>3, <4>1, <4>2, <4>3
      <3> QED BY <3>1, <3>2, <3>3
    <2> QED BY <2>1, <2>2
  <1>7. \A a \in 1 .. Len(log') : Possible(log'[a], at'[log'[a].req], try'[log'[a].req])
    BY <1>1, <1>4, <1>5
  <1> QED BY <1>6, <1>7 DEF Histories

(* A request that has begun emits an event and goes to w, to attempt n.    *)
LEMMA AddsKeeps ==
  ASSUME IInv, Held, NEW r \in Requests, at[r] # "new",
         NEW type \in Types, Adds(r, type), base' = base,
         NEW w \in Places, at' = [at EXCEPT ![r] = w],
         NEW n \in 0 .. Attempts - 1, try' = [try EXCEPT ![r] = n],
         Allowed(at[r], try[r], type, w, n)
  PROVE  IInv'
  <1>1. base' \in [Requests -> 0 .. Len(heap')]
    BY LenProperties DEF IInv, Typed, Adds, Grown
  <1>2. \A q \in Requests : at'[q] # "new" => at[q] # "new"
    BY DEF IInv, Typed
  <1>3. Typed'
    BY <1>1, TypedAdds DEF IInv
  <1>4. Maps'
    BY <1>2, MapsAdds DEF IInv
  <1>5. Encoding'
    BY EncodingAdds DEF IInv
  <1>6. Histories'
    BY HistoriesAdds DEF IInv
  <1> QED BY <1>3, <1>4, <1>5, <1>6 DEF IInv

(* request.started, with a map of its own.                                 *)
LEMMA StartedKeeps ==
  ASSUME IInv, Held, NEW r \in Requests, Started(r)
  PROVE  IInv'
  <1> DEFINE m == Len(heap) + 1
             h == Append(heap, Map(FALSE, None))
  <1>1. Map(FALSE, None) \in MapType
    BY DEF Map, None, MapType
  <1>2. heap \in Seq(MapType) /\ Len(heap) \in Nat
    BY LenProperties DEF IInv, Typed
  <1>3. Grown(heap, h) /\ Len(h) = m
    BY <1>1, <1>2, AppendGrows
  <1>4. /\ at[r] = "new" /\ at' = [at EXCEPT ![r] = "prompt"] /\ UNCHANGED <<try, encVars, process>>
        /\ base' = [base EXCEPT ![r] = m] /\ heap' = h
        /\ Emit(r, "request.started", h, m)
    BY DEF Started, GoOn, Emit
  <1>5. log' = Append(log, [req |-> r, type |-> "request.started", try |-> try[r],
                            map |-> m, was |-> h[m]])
    BY <1>4 DEF Emit
  <1> HIDE DEF h
  <1>6. Adds(r, "request.started")
    BY <1>2, <1>3, <1>4, EmitAdds DEF IInv, Types
  <1>7. log'[Len(log) + 1].map = m
    BY <1>5, AppendProperties DEF IInv, Typed
  <1>8. try[r] \in 0 .. Attempts - 1 /\ try' = [try EXCEPT ![r] = try[r]]
    BY <1>4 DEF IInv, Typed
  <1>9. Typed'
    <2>1. base' \in [Requests -> 0 .. Len(heap')]
      BY <1>2, <1>3, <1>4 DEF IInv, Typed
    <2> QED BY <1>4, <1>6, <1>8, <2>1, TypedAdds DEF IInv, Types, Places
  <1>10. Encoding'
    BY <1>6, EncodingAdds DEF IInv, Types
  <1>11. Histories'
    <2>1. Allowed(at[r], try[r], "request.started", "prompt", try[r])
      BY <1>4, <1>8, AllowedSteps, EventsAssumption
    <2>2. "prompt" \in Places /\ "request.started" \in Types /\ Typed /\ Histories
      BY DEF Places, Types, IInv
    <2> QED BY <1>4, <1>6, <1>8, <2>1, <2>2, HistoriesAdds
  <1>12. Maps'
    <2>1. Len(log) \in Nat /\ Len(log') = Len(log) + 1 /\ Len(heap') = m
      BY <1>3, <1>4, <1>6, LenProperties DEF IInv, Typed, Adds
    <2>2. ASSUME NEW a \in 1 .. Len(log)
          PROVE  /\ log'[a] = log[a] /\ log[a].map \in 1 .. Len(heap)
                 /\ log'[a].map \in 1 .. Len(heap')
                 /\ Shows(heap'[log'[a].map], log'[a])
      <3>1. log'[a] = log[a] /\ Grown(heap, heap')
        BY <1>6 DEF Adds
      <3>2. log[a].map \in 1 .. Len(heap) /\ Shows(heap[log[a].map], log[a])
        BY DEF IInv, Maps
      <3> QED BY <1>2, <2>1, <3>1, <3>2 DEF Grown
    <2>3. /\ log'[Len(log) + 1].map \in 1 .. Len(heap')
          /\ Shows(heap'[log'[Len(log) + 1].map], log'[Len(log) + 1])
          /\ log'[Len(log) + 1].req = r
      BY <1>6 DEF Adds, Shows
    <2>4. base'[r] = m /\ \A q \in Requests \ {r} : base'[q] = base[q] /\ at'[q] = at[q]
      BY <1>4 DEF IInv, Typed
    <2>5. ASSUME NEW q \in Requests, at'[q] # "new"
          PROVE  /\ base'[q] \in 1 .. Len(heap')
                 /\ \A a \in 1 .. Len(log') : log'[a].map = base'[q] => log'[a].req = q
                 /\ \A p \in Requests : at'[p] # "new" /\ base'[p] = base'[q] => p = q
      <3>1. \A p \in Requests \ {r} : at'[p] # "new" => base'[p] \in 1 .. Len(heap)
        BY <2>4 DEF IInv, Maps
      <3>2. CASE q = r
        <4>1. \A p \in Requests : at'[p] # "new" /\ base'[p] = base'[q] => p = q
          BY <1>2, <2>4, <3>1, <3>2
        <4>2. ASSUME NEW a \in 1 .. Len(log'), log'[a].map = base'[q] PROVE log'[a].req = q
          BY <1>2, <2>1, <2>2, <2>3, <2>4, <3>2, <4>2
        <4> QED BY <1>2, <2>1, <2>4, <3>2, <4>1, <4>2
      <3>3. CASE q # r
        <4>1. /\ base[q] \in 1 .. Len(heap) /\ base'[q] = base[q]
              /\ \A a \in 1 .. Len(log) : log[a].map = base[q] => log[a].req = q
              /\ \A p \in Requests : at[p] # "new" /\ base[p] = base[q] => p = q
          BY <2>4, <2>5, <3>3 DEF IInv, Maps
        <4>2. \A p \in Requests : at'[p] # "new" /\ base'[p] = base'[q] => p = q
          BY <1>2, <2>4, <4>1
        <4>3. ASSUME NEW a \in 1 .. Len(log'), log'[a].map = base'[q] PROVE log'[a].req = q
          BY <1>2, <1>7, <2>1, <2>2, <4>1, <4>3
        <4> QED BY <1>2, <2>1, <4>1, <4>2, <4>3
      <3> QED BY <3>2, <3>3
    <2>6. \A a \in 1 .. Len(log') :
            log'[a].map \in 1 .. Len(heap') /\ Shows(heap'[log'[a].map], log'[a])
      BY <2>1, <2>2, <2>3
    <2> QED BY <2>5, <2>6 DEF Maps
  <1> QED BY <1>9, <1>10, <1>11, <1>12 DEF IInv

(* An event with a copy of the request's map that names route i, or with a *)
(* plain copy, or with the map itself.                                     *)
LEMMA RoutedAdds ==
  ASSUME IInv, NEW r \in Requests, at[r] # "new", NEW type \in Types, NEW i \in Int,
         LET p == RouteEventProps(heap, base[r], i) IN Emit(r, type, p.heap, p.map),
         UNCHANGED <<encVars, process>>
  PROVE  Adds(r, type)
  <1> DEFINE h == RouteEventProps(heap, base[r], i).heap
             m == RouteEventProps(heap, base[r], i).map
  <1>1. heap \in Seq(MapType) /\ base[r] \in 1 .. Len(heap) /\ Len(heap) \in Nat
    BY LenProperties DEF IInv, Typed, Maps
  <1>2. m = Len(heap) + 1 /\ Len(h) = Len(heap) + 1 /\ Grown(heap, h)
    BY <1>1, RouteEventPropsCopies
  <1>3. Emit(r, type, h, m)
    OBVIOUS
  <1> HIDE DEF h, m
  <1> QED BY <1>1, <1>2, <1>3, EmitAdds DEF IInv

(* The plain copy.                                                         *)
LEMMA TimedAdds ==
  ASSUME IInv, NEW r \in Requests, at[r] # "new", NEW type \in Types,
         LET p == AddTiming(heap, base[r]) IN Emit(r, type, p.heap, p.map),
         UNCHANGED <<encVars, process>>
  PROVE  Adds(r, type)
  <1> DEFINE h == AddTiming(heap, base[r]).heap
             m == AddTiming(heap, base[r]).map
  <1>1. heap \in Seq(MapType) /\ base[r] \in 1 .. Len(heap) /\ Len(heap) \in Nat
    BY LenProperties DEF IInv, Typed, Maps
  <1>2. m = Len(heap) + 1 /\ Len(h) = Len(heap) + 1 /\ Grown(heap, h)
    BY <1>1, AddTimingCopies
  <1>3. Emit(r, type, h, m)
    OBVIOUS
  <1> HIDE DEF h, m
  <1> QED BY <1>1, <1>2, <1>3, EmitAdds DEF IInv

(* Where a request may be, and how a step moves it.                        *)
LEMMA Moves ==
  ASSUME IInv, NEW r \in Requests
  PROVE  /\ try[r] \in 0 .. Attempts - 1 /\ try = [try EXCEPT ![r] = try[r]]
         /\ at = [at EXCEPT ![r] = at[r]] /\ at[r] \in Places
  BY DEF IInv, Typed

(* cache.hit refers to the map of the request itself.                      *)
LEMMA CacheHitKeeps ==
  ASSUME IInv, Held, NEW r \in Requests, CacheHit(r)
  PROVE  IInv'
  <1>1. /\ at[r] = "lookup" /\ at' = [at EXCEPT ![r] = "done"] /\ base' = base
        /\ try' = try /\ Emit(r, "cache.hit", heap, base[r]) /\ UNCHANGED <<encVars, process>>
    BY DEF CacheHit, GoOn
  <1>2. "cache.hit" \in Types /\ "done" \in Places
    BY DEF Types, Places
  <1>3. heap \in Seq(MapType) /\ Grown(heap, heap) /\ base[r] \in 1 .. Len(heap) /\ Typed
    BY <1>1, LenProperties DEF IInv, Typed, Maps, Grown
  <1>4. Adds(r, "cache.hit")
    <2>1. Owned(r, base[r])
      BY <1>1 DEF IInv, Maps, Owned
    <2> QED BY <1>1, <1>2, <1>3, <2>1, EmitAdds
  <1>5. Allowed(at[r], try[r], "cache.hit", "done", try[r])
    BY <1>1, Moves, AllowedSteps
  <1> QED BY <1>1, <1>2, <1>4, <1>5, Moves, AddsKeeps

(* route.selected, with a copy of the map.                                 *)
LEMMA RouteSelectedKeeps ==
  ASSUME IInv, Held, NEW r \in Requests, RouteSelected(r)
  PROVE  IInv'
  <1>1. /\ at[r] = "lookup" /\ at' = [at EXCEPT ![r] = "attempt"] /\ base' = base
        /\ try' = try /\ UNCHANGED <<encVars, process>>
        /\ LET p == RouteEventProps(heap, base[r], 0)
           IN  Emit(r, "route.selected", p.heap, p.map)
    BY DEF RouteSelected, GoOn
  <1>2. "route.selected" \in Types /\ "attempt" \in Places /\ 0 \in Int
    BY DEF Types, Places
  <1>3. Adds(r, "route.selected")
    BY <1>1, <1>2, RoutedAdds
  <1>4. Allowed(at[r], try[r], "route.selected", "attempt", try[r])
    BY <1>1, Moves, AllowedSteps
  <1> QED BY <1>1, <1>2, <1>3, <1>4, Moves, AddsKeeps

(* upstream.error: on to the next attempt, or out of attempts, or out of   *)
(* the stream.                                                             *)
LEMMA UpstreamErrorKeeps ==
  ASSUME IInv, Held, NEW r \in Requests, AttemptFails(r) \/ StreamFails(r)
  PROVE  IInv'
  <1>1. /\ at[r] = "attempt" /\ base' = base /\ UNCHANGED <<encVars, process>>
        /\ LET p == RouteEventProps(heap, base[r], try[r])
           IN  Emit(r, "upstream.error", p.heap, p.map)
    BY DEF AttemptFails, StreamFails
  <1>2. /\ "upstream.error" \in Types /\ "attempt" \in Places
        /\ {"failing", "interrupted"} \subseteq Places
    BY DEF Types, Places
  <1>3. try[r] \in 0 .. Attempts - 1 /\ try[r] \in Int
    BY Moves
  <1>4. Adds(r, "upstream.error")
    BY <1>1, <1>2, <1>3, RoutedAdds
  <1>5. CASE try[r] + 1 < Attempts /\ try' = [try EXCEPT ![r] = try[r] + 1] /\ UNCHANGED at
    <2>1. try[r] + 1 \in 0 .. Attempts - 1 /\ at' = [at EXCEPT ![r] = "attempt"]
      BY <1>1, <1>3, <1>5, Moves, EventsAssumption
    <2>2. Allowed(at[r], try[r], "upstream.error", "attempt", try[r] + 1)
      BY <1>1, <1>3, AllowedSteps
    <2> QED BY <1>1, <1>2, <1>4, <1>5, <2>1, <2>2, AddsKeeps
  <1>6. ASSUME NEW w \in {"failing", "interrupted"}, at' = [at EXCEPT ![r] = w], UNCHANGED try
        PROVE  IInv'
    <2>1. Allowed(at[r], try[r], "upstream.error", w, try[r])
      BY <1>1, <1>3, AllowedSteps
    <2> QED BY <1>1, <1>2, <1>4, <1>6, <2>1, Moves, AddsKeeps
  <1>7. \/ try[r] + 1 < Attempts /\ try' = [try EXCEPT ![r] = try[r] + 1] /\ UNCHANGED at
        \/ \E w \in {"failing", "interrupted"} : at' = [at EXCEPT ![r] = w] /\ UNCHANGED try
    BY DEF AttemptFails, StreamFails, GoOn
  <1> QED BY <1>5, <1>6, <1>7

(* A second error of a stream has the map of the first.                    *)
LEMMA StreamFailsAgainKeeps ==
  ASSUME IInv, Held, NEW r \in Requests, StreamFailsAgain(r)
  PROVE  IInv'
  <1>1. /\ at[r] = "interrupted" /\ at' = [at EXCEPT ![r] = "stuck"]
        /\ base' = base /\ try' = try /\ UNCHANGED <<encVars, process>>
    BY DEF StreamFailsAgain, GoOn
  <1>2. PICK a \in 1 .. Len(log) :
          log[a].req = r /\ Emit(r, "upstream.error", heap, log[a].map)
    BY DEF StreamFailsAgain
  <1>3. "upstream.error" \in Types /\ "stuck" \in Places
    BY DEF Types, Places
  <1>4. heap \in Seq(MapType) /\ Grown(heap, heap) /\ Typed
    BY LenProperties DEF IInv, Typed, Grown
  <1>5. log[a].map \in 1 .. Len(heap) /\ Owned(r, log[a].map)
    BY <1>2 DEF IInv, Maps, Owned
  <1>6. Adds(r, "upstream.error")
    BY <1>1, <1>2, <1>3, <1>4, <1>5, EmitAdds
  <1>7. Allowed(at[r], try[r], "upstream.error", "stuck", try[r])
    BY <1>1, Moves, AllowedSteps
  <1> QED BY <1>1, <1>3, <1>6, <1>7, Moves, AddsKeeps

(* request.completed and request.failed end a request.                     *)
LEMMA EndKeeps ==
  ASSUME IInv, Held, NEW r \in Requests, Completed(r) \/ Failed(r)
  PROVE  IInv'
  <1>1. /\ at' = [at EXCEPT ![r] = "done"] /\ try' = try /\ base' = base
        /\ UNCHANGED <<encVars, process>>
    BY DEF Completed, Failed, GoOn
  <1>2. /\ "request.completed" \in Types /\ "request.failed" \in Types /\ "done" \in Places
    BY DEF Types, Places
  <1>3. try[r] \in 0 .. Attempts - 1 /\ try[r] \in Int
    BY Moves
  <1>4. CASE Completed(r)
    <2>1. /\ at[r] = "attempt"
          /\ LET p == RouteEventProps(heap, base[r], try[r])
             IN  Emit(r, "request.completed", p.heap, p.map)
      BY <1>4 DEF Completed
    <2>2. Adds(r, "request.completed")
      BY <1>1, <1>2, <1>3, <2>1, RoutedAdds
    <2>3. Allowed(at[r], try[r], "request.completed", "done", try[r])
      BY <1>3, <2>1, AllowedSteps
    <2> QED BY <1>1, <1>2, <2>1, <2>2, <2>3, Moves, AddsKeeps
  <1>5. CASE Failed(r)
    <2>1. at[r] = "failing" \/ at[r] = "interrupted"
      BY <1>5 DEF Failed
    <2>2. ASSUME at[r] = "failing" PROVE Adds(r, "request.failed")
      <3>1. LET p == AddTiming(heap, base[r]) IN Emit(r, "request.failed", p.heap, p.map)
        BY <1>5, <2>2 DEF Failed
      <3> QED BY <1>1, <1>2, <2>2, <3>1, TimedAdds
    <2>3. ASSUME at[r] = "interrupted" PROVE Adds(r, "request.failed")
      <3>1. LET p == RouteEventProps(heap, base[r], try[r])
            IN  Emit(r, "request.failed", p.heap, p.map)
        BY <1>5, <2>3 DEF Failed
      <3> QED BY <1>1, <1>2, <1>3, <2>3, <3>1, RoutedAdds
    <2>4. Adds(r, "request.failed")
      BY <2>1, <2>2, <2>3
    <2>5. Allowed(at[r], try[r], "request.failed", "done", try[r])
      BY <1>3, <2>1, AllowedSteps
    <2> QED BY <1>1, <1>2, <2>1, <2>4, <2>5, Moves, AddsKeeps
  <1> QED BY <1>4, <1>5

-----------------------------------------------------------------------------
(***************************************************************************)
(* The steps that emit nothing.                                            *)
(***************************************************************************)
(* A request goes on without an event.                                     *)
LEMMA HistoriesMove ==
  ASSUME Typed, Histories, NEW r \in Requests, NEW w, NEW n, Passes(at[r], try[r], w, n),
         at' = [at EXCEPT ![r] = w], try' = [try EXCEPT ![r] = n], UNCHANGED log
  PROVE  Histories'
  <1>1. /\ at'[r] = w /\ try'[r] = n
        /\ \A q \in Requests \ {r} : at'[q] = at[q] /\ try'[q] = try[q]
    BY DEF Typed
  <1>2. \A a \in 1 .. Len(log) : log[a] \in Entry /\ log[a].req \in Requests
    <2>1. \A a \in 1 .. Len(log) : log[a] \in Entry
      BY ElementOfSeq DEF Typed
    <2> QED BY <2>1 DEF Entry
  <1>3. ASSUME NEW a \in 1 .. Len(log) PROVE Possible(log[a], at'[log[a].req], try'[log[a].req])
    <2>1. Possible(log[a], at[log[a].req], try[log[a].req])
      BY DEF Histories
    <2>2. CASE log[a].req = r
      BY <1>1, <1>2, <2>1, <2>2 DEF Passes
    <2>3. CASE log[a].req # r
      BY <1>1, <1>2, <2>1, <2>3
    <2> QED BY <2>2, <2>3
  <1>4. \A a \in 1 .. Len(log) : at[log[a].req] = "stuck" => at'[log[a].req] = "stuck"
    BY <1>1, <1>2 DEF Passes
  <1> QED BY <1>3, <1>4 DEF Histories

(* A request goes on, or ends before a route is selected, or skips a route *)
(* that has no provider.                                                   *)
LEMMA QuietKeeps ==
  ASSUME IInv, NEW r \in Requests, PromptAddsNothing(r) \/ EndsEarly(r) \/ SkipRoute(r)
  PROVE  IInv'
  <1>1. try[r] \in 0 .. Attempts - 1 /\ try[r] \in Int /\ at[r] \in Places
    BY Moves
  <1>2. PICK w \in Places, n \in 0 .. Attempts - 1 :
          /\ at' = [at EXCEPT ![r] = w] /\ try' = [try EXCEPT ![r] = n]
          /\ Passes(at[r], try[r], w, n)
    <2>1. CASE PromptAddsNothing(r)
      <3>1. /\ at[r] = "prompt" /\ at' = [at EXCEPT ![r] = "lookup"] /\ try' = try
            /\ "lookup" \in Places
        BY <2>1 DEF PromptAddsNothing, GoOn, Places
      <3> QED BY <1>1, <3>1, Moves, PassesSteps
    <2>2. CASE EndsEarly(r)
      <3>1. /\ at[r] \in {"prompt", "lookup"} /\ at' = [at EXCEPT ![r] = "done"] /\ try' = try
            /\ "done" \in Places
        BY <2>2 DEF EndsEarly, GoOn, Places
      <3>2. Passes(at[r], try[r], "done", try[r])
        BY <1>1, <3>1, PassesSteps
      <3>3. try' = [try EXCEPT ![r] = try[r]]
        BY <3>1, Moves
      <3> QED BY <1>1, <3>1, <3>2, <3>3
    <2>3. CASE SkipRoute(r)
      <3>1. /\ at[r] = "attempt" /\ "attempt" \in Places /\ "failing" \in Places
            /\ \/ try[r] + 1 < Attempts /\ try' = [try EXCEPT ![r] = try[r] + 1] /\ UNCHANGED at
               \/ at' = [at EXCEPT ![r] = "failing"] /\ UNCHANGED try
        BY <2>3 DEF SkipRoute, GoOn, Places
      <3>2. CASE try[r] + 1 < Attempts /\ try' = [try EXCEPT ![r] = try[r] + 1] /\ UNCHANGED at
        <4>1. try[r] + 1 \in 0 .. Attempts - 1 /\ at' = [at EXCEPT ![r] = "attempt"]
          BY <1>1, <3>1, <3>2, Moves, EventsAssumption
        <4> QED BY <1>1, <3>1, <3>2, <4>1, PassesSteps
      <3>3. CASE at' = [at EXCEPT ![r] = "failing"] /\ UNCHANGED try
        <4>1. Passes(at[r], try[r], "failing", try[r])
          BY <1>1, <3>1, PassesSteps
        <4>2. try' = [try EXCEPT ![r] = try[r]]
          BY <3>3, Moves
        <4> QED BY <1>1, <3>1, <3>3, <4>1, <4>2
      <3> QED BY <3>1, <3>2, <3>3
    <2> QED BY <2>1, <2>2, <2>3
  <1>3. at[r] # "new" /\ UNCHANGED <<base, heap, log, encVars, process, queueVars>>
    BY DEF PromptAddsNothing, EndsEarly, SkipRoute
  <1>4. Histories'
    BY <1>2, <1>3, HistoriesMove DEF IInv
  <1>5. Typed'
    BY <1>2, <1>3 DEF IInv, Typed, encVars, queueVars, Observers
  <1>6. Maps'
    <2>1. \A q \in Requests : at'[q] # "new" => at[q] # "new"
      BY <1>2, <1>3 DEF IInv, Typed
    <2> QED BY <1>3, <2>1 DEF IInv, Maps
  <1>7. Encoding'
    BY <1>3 DEF IInv, Encoding, Half, encVars, queueVars
  <1> QED BY <1>4, <1>5, <1>6, <1>7 DEF IInv

(* The prompt writes to a map that only request.started refers to, and so  *)
(* only its own.                                                           *)
LEMMA PromptAddsKeeps ==
  ASSUME IInv, NEW r \in Requests, PromptAdds(r)
  PROVE  IInv'
  <1> DEFINE m == base[r]
             e == [heap[m] EXCEPT !.prompt = TRUE]
  <1>1. /\ at[r] = "prompt" /\ at' = [at EXCEPT ![r] = "lookup"]
        /\ heap' = [heap EXCEPT ![m] = e]
        /\ process' \in {process, "crashed"}
        /\ UNCHANGED <<try, base, log, encVars, queueVars>>
    BY DEF PromptAdds, GoOn
  <1>2. m \in 1 .. Len(heap) /\ heap \in Seq(MapType)
    BY <1>1 DEF IInv, Typed, Maps
  <1>3. heap[m] \in MapType
    BY <1>2, ElementOfSeq
  <1>4. e \in MapType /\ e.index = heap[m].index
    BY <1>3 DEF MapType
  <1> HIDE DEF e
  <1>5. /\ heap' \in Seq(MapType) /\ Len(heap') = Len(heap)
        /\ \A i \in 1 .. Len(heap) : heap'[i] = IF i = m THEN e ELSE heap[i]
    BY <1>1, <1>2, <1>4, ExceptSeq
  <1>6. Histories'
    <2>1. try[r] \in Int /\ try' = [try EXCEPT ![r] = try[r]]
      BY <1>1, Moves
    <2>2. Passes(at[r], try[r], "lookup", try[r])
      BY <1>1, <2>1, PassesSteps
    <2> QED BY <1>1, <2>1, <2>2, HistoriesMove DEF IInv
  <1>7. Typed'
    BY <1>1, <1>5 DEF IInv, Typed, Places, encVars, queueVars, Observers
  <1>8. Encoding'
    BY <1>1 DEF IInv, Encoding, Half, encVars, queueVars
  <1>9. Maps'
    <2>1. ASSUME NEW a \in 1 .. Len(log)
          PROVE  log[a].map \in 1 .. Len(heap) /\ Shows(heap'[log[a].map], log[a])
      <3>1. log[a].map \in 1 .. Len(heap) /\ Shows(heap[log[a].map], log[a])
        BY DEF IInv, Maps
      <3>2. CASE log[a].map = m
        <4>1. log[a].req = r
          BY <1>1, <3>2 DEF IInv, Maps
        <4>2. log[a].type = "request.started"
          BY <1>1, <4>1 DEF IInv, Histories, Possible
        <4> QED BY <1>4, <1>5, <3>1, <3>2, <4>2 DEF Shows
      <3>3. CASE log[a].map # m
        BY <1>5, <3>1, <3>3
      <3> QED BY <3>2, <3>3
    <2>2. \A q \in Requests : at'[q] # "new" => at[q] # "new"
      BY <1>1 DEF IInv, Typed
    <2> QED BY <1>1, <1>5, <2>1, <2>2 DEF IInv, Maps
  <1> QED BY <1>6, <1>7, <1>8, <1>9 DEF IInv

(* The flusher and the encoder leave requests, maps and log alone.         *)
LEMMA RestKeeps ==
  ASSUME IInv, UNCHANGED <<reqVars, process, calls>>, Encoding',
         shown' \in [Observers -> Seq(MapType)]
  PROVE  IInv'
  <1>1. UNCHANGED <<at, try, base, heap, log, process, calls>>
    BY DEF reqVars
  <1>2. Typed'
    BY <1>1 DEF IInv, Typed, Observers
  <1>3. Histories' /\ Maps'
    BY <1>1 DEF IInv, Histories, Maps
  <1> QED BY <1>2, <1>3 DEF IInv

(* Nothing is being encoded while the flusher takes or leaves a batch.     *)
LEMMA FlushKeeps ==
  ASSUME IInv, Held, Held', Flush
  PROVE  IInv'
  <1>1. /\ UNCHANGED <<reqVars, reading, shown, process, calls, offered>>
        /\ encoded' = 0
        /\ pc # "emit" \/ turn > NumObservers
        /\ pc' = "emit" => turn' = 1
    BY DEF Flush, Queue!SelectTick, Queue!TakeBatch, Queue!FlushReturns, Queue!BatchDone,
           Queue!lossVars
  <1>2. encoded = 0 /\ reading = 0
    BY <1>1, EventsAssumption DEF IInv, Encoding, Observers, Held
  <1>3. \A o \in Observers : Half(o) = 0 /\ Half(o)' = 0
    BY <1>1, <1>2 DEF Half
  <1>4. Encoding'
    <2>1. encoded' \in 0 .. Len(batch')
      <3>1. Len(batch') \in Nat
        BY LenProperties DEF Held
      <3> QED BY <1>1, <3>1
    <2>2. UNCHANGED <<shown, offered, log, reading>>
      BY <1>1 DEF reqVars
    <2>3. ASSUME NEW o \in Observers
          PROVE  /\ Len(shown[o]) = Len(offered[o])
                 /\ \A i \in 1 .. Len(offered[o]) : Shows(shown[o][i], log[offered[o][i]])
      <3>1. Len(offered[o]) \in Nat
        BY LenProperties DEF Held
      <3> QED BY <1>3, <3>1 DEF IInv, Encoding
    <2>4. ASSUME NEW o \in Observers
          PROVE  Len(shown'[o]) = Len(offered'[o]) + Half(o)'
      <3>1. Len(offered[o]) \in Nat
        BY LenProperties DEF Held
      <3> QED BY <1>3, <2>2, <2>3, <3>1
    <2>5. \A o \in Observers : 1 .. Half(o)' = {}
      BY <1>3
    <2> QED BY <1>1, <1>2, <2>1, <2>2, <2>3, <2>4, <2>5 DEF Encoding
  <1>5. shown' \in [Observers -> Seq(MapType)]
    BY <1>1 DEF IInv, Typed
  <1> QED BY <1>1, <1>4, <1>5, RestKeeps

(* The encoder begins to read the map of the next event.                   *)
LEMMA EncodeBeginsKeeps ==
  ASSUME IInv, Held, EncodeBegins
  PROVE  IInv'
  <1>1. /\ UNCHANGED <<reqVars, encoded, shown, process, queueVars>>
        /\ pc = "emit" /\ turn <= NumObservers /\ encoded < Len(batch)
        /\ reading' = log[batch[encoded + 1]].map
    BY DEF EncodeBegins
  <1>2. turn \in Observers
    BY <1>1 DEF Held, Observers
  <1>3. UNCHANGED <<encoded, shown, offered, pc, turn, batch, log, calls>>
    BY <1>1 DEF queueVars, reqVars
  <1>4. Encoding'
    <2>1. \A o \in Observers : Half(o)' = Half(o)
      BY <1>3 DEF Half
    <2> QED BY <1>1, <1>2, <1>3, <2>1 DEF IInv, Encoding
  <1>5. shown' \in [Observers -> Seq(MapType)]
    BY <1>1 DEF IInv, Typed
  <1> QED BY <1>1, <1>3, <1>4, <1>5, RestKeeps

(* What it has read is what the event was, by Maps.                        *)
LEMMA EncodeEndsKeeps ==
  ASSUME IInv, Held, EncodeEnds
  PROVE  IInv'
  <1> DEFINE e == log[batch[encoded + 1]]
             s == Append(shown[turn], heap[reading])
  <1>1. /\ UNCHANGED <<reqVars, process, queueVars>> /\ reading # 0
        /\ shown' = [shown EXCEPT ![turn] = s]
        /\ encoded' = encoded + 1 /\ reading' = 0
    BY DEF EncodeEnds
  <1>2. UNCHANGED <<offered, pc, turn, batch, log, calls>>
    BY <1>1 DEF queueVars, reqVars
  <1>3. /\ pc = "emit" /\ turn \in Observers /\ encoded < Len(batch) /\ reading = e.map
        /\ encoded \in 0 .. Len(batch) /\ Len(batch) \in Nat
    BY <1>1, LenProperties DEF IInv, Encoding, Held
  <1>4. batch[encoded + 1] \in 1 .. Len(log)
    BY <1>3 DEF Held, IInv, Typed, Observers
  <1>5. heap[reading] \in MapType /\ Shows(heap[reading], e)
    <2>1. e.map \in 1 .. Len(heap) /\ Shows(heap[e.map], e)
      BY <1>4 DEF IInv, Maps
    <2> QED BY <1>3, <2>1, ElementOfSeq DEF IInv, Typed
  <1>6. /\ shown[turn] \in Seq(MapType) /\ Len(offered[turn]) \in Nat
        /\ Len(shown[turn]) = Len(offered[turn]) + encoded
    BY <1>3, LenProperties DEF IInv, Typed, Encoding, Half, Held
  <1>7. /\ s \in Seq(MapType) /\ Len(s) = Len(shown[turn]) + 1
        /\ s[Len(shown[turn]) + 1] = heap[reading]
        /\ \A i \in 1 .. Len(shown[turn]) : s[i] = shown[turn][i]
    BY <1>5, <1>6, AppendProperties
  <1> HIDE DEF s, e
  <1>8. shown' \in [Observers -> Seq(MapType)]
    BY <1>1, <1>7 DEF IInv, Typed
  <1>9. ASSUME NEW o \in Observers
        PROVE  /\ Len(shown'[o]) = Len(offered[o]) + Half(o)'
               /\ \A i \in 1 .. Len(offered[o]) : Shows(shown'[o][i], log[offered[o][i]])
               /\ \A i \in 1 .. Half(o)' : Shows(shown'[o][Len(offered[o]) + i], log[batch[i]])
    <2>1. CASE o = turn
      <3>1. Half(o) = encoded /\ Half(o)' = encoded + 1 /\ shown'[o] = s
        BY <1>1, <1>2, <1>3, <2>1 DEF Half, IInv, Typed
      <3>2. /\ \A i \in 1 .. Len(offered[o]) : Shows(shown[o][i], log[offered[o][i]])
            /\ \A i \in 1 .. encoded : Shows(shown[o][Len(offered[o]) + i], log[batch[i]])
        BY <3>1 DEF IInv, Encoding
      <3>3. \A i \in 1 .. Len(offered[o]) : Shows(shown'[o][i], log[offered[o][i]])
        BY <1>3, <1>6, <1>7, <2>1, <3>1, <3>2
      <3>4. ASSUME NEW i \in 1 .. encoded + 1
            PROVE  Shows(shown'[o][Len(offered[o]) + i], log[batch[i]])
        <4>1. CASE i = encoded + 1
          BY <1>3, <1>5, <1>6, <1>7, <2>1, <3>1, <4>1 DEF e
        <4>2. CASE i # encoded + 1
          <5>1. i \in 1 .. encoded /\ Len(offered[o]) + i \in 1 .. Len(shown[turn])
            BY <1>3, <1>6, <2>1, <4>2
          <5> QED BY <1>7, <2>1, <3>1, <3>2, <5>1
        <4> QED BY <4>1, <4>2
      <3>5. Len(shown'[o]) = Len(offered[o]) + Half(o)'
        BY <1>3, <1>6, <1>7, <2>1, <3>1
      <3> QED BY <3>1, <3>3, <3>4, <3>5
    <2>2. CASE o # turn
      <3>1. Half(o)' = Half(o) /\ shown'[o] = shown[o]
        BY <1>1, <1>2, <2>2 DEF Half, IInv, Typed
      <3> QED BY <3>1 DEF IInv, Encoding
    <2> QED BY <2>1, <2>2
  <1>10. Encoding'
    BY <1>1, <1>2, <1>3, <1>9 DEF Encoding
  <1> QED BY <1>1, <1>2, <1>8, <1>10, RestKeeps

(* The observer has been shown the batch and counts as having received it. *)
LEMMA EmitReturnsKeeps ==
  ASSUME IInv, Held, EmitReturns
  PROVE  IInv'
  <1>1. PICK q \in Observers :
          /\ pc = "emit" /\ turn = q /\ turn' = turn + 1
          /\ offered' = [offered EXCEPT ![q] = offered[q] \o batch]
          /\ UNCHANGED <<pc, batch, calls>>
    BY DEF EmitReturns, Queue!EmitTo, Queue!lossVars, Observers
  <1>2. /\ UNCHANGED <<reqVars, reading, shown, process>> /\ encoded = Len(batch)
        /\ encoded' = 0
    BY DEF EmitReturns
  <1>3. UNCHANGED log /\ reading = 0 /\ Len(batch) \in Nat
    BY <1>2, LenProperties DEF reqVars, IInv, Encoding, Held
  <1>4. ASSUME NEW o \in Observers
        PROVE  /\ Half(o)' = 0
               /\ Len(shown[o]) = Len(offered'[o])
               /\ \A i \in 1 .. Len(offered'[o]) : Shows(shown[o][i], log[offered'[o][i]])
    <2>1. Half(o)' = 0
      BY <1>2 DEF Half
    <2>2. offered[o] \in Seq(Nat) /\ Len(offered[o]) \in Nat /\ batch \in Seq(Nat)
      BY LenProperties DEF Held
    <2>3. /\ Len(shown[o]) = Len(offered[o]) + Half(o)
          /\ \A i \in 1 .. Len(offered[o]) : Shows(shown[o][i], log[offered[o][i]])
          /\ \A i \in 1 .. Half(o) : Shows(shown[o][Len(offered[o]) + i], log[batch[i]])
      BY DEF IInv, Encoding
    <2>4. CASE o = q
      <3>1. offered'[o] = offered[o] \o batch /\ Half(o) = Len(batch)
        BY <1>1, <1>2, <2>4 DEF Half, Held
      <3>2. /\ Len(offered'[o]) = Len(offered[o]) + Len(batch)
            /\ \A i \in 1 .. Len(offered[o]) : offered'[o][i] = offered[o][i]
            /\ \A i \in 1 .. Len(batch) : offered'[o][Len(offered[o]) + i] = batch[i]
        BY <2>2, <3>1, ConcatProperties
      <3>3. ASSUME NEW i \in 1 .. Len(offered'[o])
            PROVE  Shows(shown[o][i], log[offered'[o][i]])
        <4>1. CASE i <= Len(offered[o])
          <5>1. i \in 1 .. Len(offered[o])
            BY <2>2, <3>2, <4>1
          <5> QED BY <2>3, <3>2, <5>1
        <4>2. CASE i > Len(offered[o])
          <5>1. /\ i - Len(offered[o]) \in 1 .. Len(batch)
                /\ i = Len(offered[o]) + (i - Len(offered[o]))
            BY <1>3, <2>2, <3>2, <4>2
          <5> QED BY <2>3, <3>1, <3>2, <5>1
        <4> QED BY <2>2, <4>1, <4>2
      <3> QED BY <2>1, <2>3, <3>1, <3>2, <3>3
    <2>5. CASE o # q
      <3>1. offered'[o] = offered[o] /\ Half(o) = 0
        BY <1>1, <2>5 DEF Half, Held
      <3> QED BY <2>1, <2>2, <2>3, <3>1
    <2> QED BY <2>4, <2>5
  <1>5. Encoding'
    <2>1. \A o \in Observers : Len(shown[o]) = Len(offered'[o]) + Half(o)'
      <3> SUFFICES ASSUME NEW o \in Observers PROVE Len(shown[o]) = Len(offered'[o]) + Half(o)'
        OBVIOUS
      <3>1. Len(shown[o]) \in Nat
        BY LenProperties DEF IInv, Typed
      <3> QED BY <1>4, <3>1
    <2>2. \A o \in Observers : 1 .. Half(o)' = {}
      BY <1>4
    <2> QED BY <1>1, <1>2, <1>3, <1>4, <2>1, <2>2 DEF Encoding
  <1>6. shown' \in [Observers -> Seq(MapType)]
    BY <1>2 DEF IInv, Typed
  <1> QED BY <1>1, <1>2, <1>5, <1>6, RestKeeps

-----------------------------------------------------------------------------
(***************************************************************************)
(* The theorems.                                                           *)
(***************************************************************************)
LEMMA IInvInit == Init => IInv
  <1> SUFFICES ASSUME Init PROVE IInv
    OBVIOUS
  <1>1. /\ log = <<>> /\ heap = <<>> /\ calls = 0 /\ batch = <<>> /\ pc = "select"
        /\ reading = 0 /\ encoded = 0 /\ offered = [o \in Observers |-> <<>>]
        /\ shown = [o \in Observers |-> <<>>] /\ process = "up"
        /\ at = [r \in Requests |-> "new"] /\ try = [r \in Requests |-> 0]
        /\ base = [r \in Requests |-> 0]
    BY DEF Init, Queue!Init, Queue!Observers, Observers
  <1>2. Len(log) = 0 /\ Len(heap) = 0 /\ Len(batch) = 0
    BY <1>1
  <1>3. heap \in Seq(MapType) /\ log \in Seq(Entry) /\ <<>> \in Seq(MapType)
    BY <1>1, EmptySeq
  <1>4. Typed
    BY <1>1, <1>2, <1>3, EventsAssumption DEF Typed, Places
  <1>5. Histories /\ Maps
    BY <1>1, <1>2 DEF Histories, Maps
  <1>6. ASSUME NEW o \in Observers
        PROVE  shown[o] = <<>> /\ offered[o] = <<>> /\ Half(o) = 0
    BY <1>1 DEF Half
  <1>7. Encoding
    <2>1. \A o \in Observers : Len(shown[o]) = Len(offered[o]) + Half(o)
      BY <1>6
    <2>2. \A o \in Observers : 1 .. Len(offered[o]) = {} /\ 1 .. Half(o) = {}
      BY <1>6
    <2> QED BY <1>1, <1>2, <2>1, <2>2 DEF Encoding
  <1> QED BY <1>4, <1>5, <1>7 DEF IInv

(* Every step, given what holds of the queue.                              *)
LEMMA IInvStep ==
  ASSUME IInv, Held, Held', [Next]_vars
  PROVE  IInv'
  <1>1. ASSUME NEW r \in Requests, Request(r) PROVE IInv'
    BY <1>1, StartedKeeps, PromptAddsKeeps, QuietKeeps, CacheHitKeeps, RouteSelectedKeeps,
       UpstreamErrorKeeps, StreamFailsAgainKeeps, EndKeeps DEF Request
  <1>2. CASE Flush
    BY <1>2, FlushKeeps
  <1>3. CASE EncodeBegins
    BY <1>3, EncodeBeginsKeeps
  <1>4. CASE EncodeEnds
    BY <1>4, EncodeEndsKeeps
  <1>5. CASE EmitReturns
    BY <1>5, EmitReturnsKeeps
  <1>6. CASE Exit \/ UNCHANGED vars
    <2>1. UNCHANGED <<reqVars, encVars, queueVars>> /\ process' \in {process, "exited"}
      BY <1>6 DEF Exit, vars
    <2>2. Typed'
      BY <2>1 DEF IInv, Typed, reqVars, encVars, queueVars, Observers
    <2>3. Histories' /\ Maps'
      BY <2>1 DEF IInv, Histories, Maps, reqVars
    <2>4. Encoding'
      BY <2>1 DEF IInv, Encoding, Half, reqVars, encVars, queueVars
    <2> QED BY <2>2, <2>3, <2>4 DEF IInv
  <1> QED BY <1>1, <1>2, <1>3, <1>4, <1>5, <1>6 DEF Next

(* The inductive invariant, for any set of requests, any number of         *)
(* attempts and observers and any queue.                                   *)
THEOREM Invariance == Spec => []IInv
  <1>1. IInv /\ Held /\ Held' /\ [Next]_vars => IInv'
    BY IInvStep
  <1> QED BY <1>1, IInvInit, QueueHolds, PTL DEF Spec

(* Type correctness, that of the queue included: emit and the encoder      *)
(* always refer to a map that there is (addTiming, routeEventProps).       *)
THEOREM TypeCorrect == Spec => []TypeOK
  <1>1. ASSUME QueueProofs!TypeOK PROVE Queue!TypeOK
    BY <1>1 DEF QueueProofs!TypeOK, Queue!TypeOK, QueueProofs!Cap, Queue!Cap,
                QueueProofs!Batch, Queue!Batch, QueueProofs!Observers, Queue!Observers
  <1>2. ASSUME IInv, Held, Queue!TypeOK PROVE TypeOK
    <2>1. \A e \in 1 .. calls : log[e].map \in 1 .. Len(heap)
      BY <1>2 DEF IInv, Typed, Maps
    <2>2. reading \in 0 .. Len(heap)
      <3>1. Len(heap) \in Nat
        BY <1>2, LenProperties DEF IInv, Typed
      <3>2. CASE reading # 0
        <4>1. /\ pc = "emit" /\ turn \in Observers /\ encoded + 1 \in 1 .. Len(batch)
              /\ reading = log[batch[encoded + 1]].map
          BY <1>2, <3>2, LenProperties DEF IInv, Encoding, Held
        <4>2. batch[encoded + 1] \in 1 .. calls
          BY <1>2, <4>1 DEF Held, Observers
        <4> QED BY <2>1, <3>1, <4>1, <4>2
      <3> QED BY <3>1, <3>2
    <2> QED BY <1>2, <2>1, <2>2 DEF IInv, Typed, Encoding, TypeOK, Places
  <1>3. QueueProofs!Spec => []QueueProofs!TypeOK
    BY QueueSizes, QueueProofs!TypeCorrect
  <1> QED BY <1>1, <1>2, <1>3, Invariance, QueueHolds, QueueComposed, PTL

(* What an observer receives of a request, with gaps and among the events  *)
(* of other requests, is a history of that request (ExecuteChat, emit).    *)
THEOREM ObserversReceiveHistories == Spec => []ReceivedAsHistory
  <1>1. ASSUME IInv, Held PROVE ReceivedAsHistory
    <2> SUFFICES ASSUME NEW o \in Observers, NEW i \in 1 .. Len(offered[o]),
                        NEW j \in 1 .. Len(offered[o]), i < j,
                        log[offered[o][i]].req = log[offered[o][j]].req
                 PROVE  /\ Follows(log[offered[o][i]], log[offered[o][j]])
                        /\ Repeats(log[offered[o][i]], log[offered[o][j]]) =>
                             \A k \in j + 1 .. Len(offered[o]) :
                               log[offered[o][k]].req # log[offered[o][i]].req
      BY DEF ReceivedAsHistory, Follows
    <2>1. /\ \A k \in 1 .. Len(offered[o]) : offered[o][k] \in 1 .. Len(log)
          /\ offered[o][i] < offered[o][j]
      BY <1>1 DEF Held, IInv, Typed
    <2>2. /\ Follows(log[offered[o][i]], log[offered[o][j]])
          /\ Repeats(log[offered[o][i]], log[offered[o][j]]) =>
               \A c \in offered[o][j] + 1 .. Len(log) : log[c].req # log[offered[o][i]].req
      BY <1>1, <2>1 DEF IInv, Histories
    <2>3. ASSUME NEW k \in j + 1 .. Len(offered[o])
          PROVE  offered[o][k] \in offered[o][j] + 1 .. Len(log)
      <3>1. k \in 1 .. Len(offered[o]) /\ j < k
        OBVIOUS
      <3>2. offered[o][j] < offered[o][k]
        BY <1>1, <3>1 DEF Held
      <3>3. /\ offered[o][k] \in 1 .. Len(log) /\ offered[o][j] \in 1 .. Len(log)
            /\ Len(log) \in Nat
        BY <1>1, <2>1, <3>1, LenProperties DEF IInv, Typed
      <3> QED BY <3>2, <3>3
    <2> QED BY <2>2, <2>3
  <1> QED BY <1>1, Invariance, QueueHolds, PTL

(* Copies keep what an event says from what the request does next, however *)
(* late it is encoded (addTiming, routeEventProps).                        *)
THEOREM EventsAreShownAsEmitted == Spec => []ShownAsEmitted
  <1>1. ASSUME IInv, Held PROVE ShownAsEmitted
    <2> SUFFICES ASSUME NEW o \in Observers, NEW i \in 1 .. Len(offered[o])
                 PROVE  LET e == log[offered[o][i]]
                        IN  shown[o][i] = IF e.type = "request.started"
                                          THEN [e.was EXCEPT !.prompt = shown[o][i].prompt]
                                          ELSE e.was
      BY DEF ShownAsEmitted
    <2> DEFINE e == log[offered[o][i]]
               m == shown[o][i]
    <2>1. Shows(m, e)
      BY <1>1 DEF IInv, Encoding
    <2>2. e.was \in MapType
      <3>1. offered[o][i] \in 1 .. Len(log) /\ log \in Seq(Entry)
        BY <1>1 DEF Held, IInv, Typed
      <3>2. e \in Entry
        BY <3>1, ElementOfSeq
      <3> QED BY <3>2 DEF Entry
    <2>3. m \in MapType
      <3>1. /\ shown[o] \in Seq(MapType) /\ Len(shown[o]) = Len(offered[o]) + Half(o)
            /\ Len(offered[o]) \in Nat /\ Half(o) \in Nat
        BY <1>1, LenProperties DEF IInv, Typed, Encoding, Half, Held
      <3>2. i \in 1 .. Len(shown[o])
        BY <3>1
      <3> QED BY <3>1, <3>2, ElementOfSeq
    <2> HIDE DEF e, m
    <2>4. e.type = "request.started" => m = [e.was EXCEPT !.prompt = m.prompt]
      BY <2>1, <2>2, <2>3 DEF Shows, MapType
    <2> QED BY <2>1, <2>4 DEF Shows, e, m
  <1> QED BY <1>1, Invariance, QueueHolds, PTL
===============================================================================
