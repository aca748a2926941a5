---------------------------- MODULE GatewayEvents ----------------------------
(***************************************************************************)
(* The events of requests on their way through the observer queue: emit in *)
(* ExecuteChat and what it calls, composed with EventQueue, whose actions  *)
(* take the queue's part.                                                  *)
(*                                                                         *)
(* An event carries its properties as a Go map, that is, by reference; the *)
(* flusher reads the map when the plugin client encodes the event, much    *)
(* later and in another goroutine.  heap holds the maps, and a map is      *)
(* abstracted to whether a prompt has added to it and to the route it      *)
(* names (None before there is one).                                       *)
(*                                                                         *)
(* The program never calls Queue.Close: the gateway exits with whatever is *)
(* in the queue.                                                           *)
(***************************************************************************)
EXTENDS Integers, Sequences

CONSTANTS
  Requests,     \* the requests that may come
  Attempts,     \* routes a request tries at most
  QueueSize, BatchSize, Policies, NumObservers, MaxEvents   \* see EventQueue

ASSUME EventsAssumption ==
  /\ Attempts \in Nat \ {0}
  /\ QueueSize \in Int /\ BatchSize \in Int
  /\ NumObservers \in Nat /\ MaxEvents \in Nat

VARIABLES
  at,        \* per request: "new", "prompt", "lookup", "attempt", "failing",
             \*   "interrupted", "stuck" or "done"
  try,       \* per request: the attempt it is at
  base,      \* per request: props of ExecuteChat, an index of heap
  heap,      \* the maps
  log,       \* the calls of emit: request, type, map and what the map held
  reading,   \* the map the encoder iterates over, 0 if none
  encoded,   \* events of the batch encoded for the observer whose turn it is
  shown,     \* per observer: what the maps held when its events were encoded
  process    \* "up", "exited" or "crashed"

VARIABLES overflow, events, calls, closed, done, pc, final, batch, turn, offered,
          dropped, rejected, closer, closeMark                     \* see EventQueue

Queue == INSTANCE EventQueue

reqVars == <<at, try, base, heap, log>>
encVars == <<reading, encoded, shown>>
queueVars == <<overflow, events, calls, closed, done, pc, final, batch, turn, offered,
               dropped, rejected, closer, closeMark>>
vars    == <<reqVars, encVars, process, queueVars>>

None    == -1
Map(p, i) == [prompt |-> p, index |-> i]
Running == process = "up"

Init ==
  /\ at = [r \in Requests |-> "new"] /\ try = [r \in Requests |-> 0]
  /\ base = [r \in Requests |-> 0] /\ heap = <<>> /\ log = <<>>
  /\ reading = 0 /\ encoded = 0 /\ shown = [o \in 1 .. NumObservers |-> <<>>]
  /\ process = "up"
  /\ Queue!Init

-----------------------------------------------------------------------------
(***************************************************************************)
(* Maps.                                                                   *)
(***************************************************************************)
(* addTiming: a copy; routeEventProps: the copy names the route.  Both     *)
(* give the heap that results and the map.                                 *)
AddTiming(h, m) == [heap |-> Append(h, h[m]), map |-> Len(h) + 1]

RouteEventProps_InPlace(h, m, i) == [heap |-> [h EXCEPT ![m].index = i], map |-> m]
RouteEventProps(h, m, i) ==
  LET copy == AddTiming(h, m) IN [copy EXCEPT !.heap[copy.map].index = i]

-----------------------------------------------------------------------------
(***************************************************************************)
(* ExecuteChat, as far as it emits events.                                 *)
(***************************************************************************)
(* emit and emitError, with a map h[m]; the result of Enqueue is discarded.*)
Emit(r, type, h, m) ==
  /\ log' = Append(log, [req |-> r, type |-> type, try |-> try[r], map |-> m, was |-> h[m]])
  /\ heap' = h
  /\ Queue!Enqueue

GoOn(r, where) == at' = [at EXCEPT ![r] = where]

(* extractProperties has made the map; request.started refers to it.       *)
Started(r) ==
  /\ Running /\ at[r] = "new"
  /\ base' = [base EXCEPT ![r] = Len(heap) + 1]
  /\ Emit(r, "request.started", Append(heap, Map(FALSE, None)), Len(heap) + 1)
  /\ GoOn(r, "prompt")
  /\ UNCHANGED <<try, encVars, process>>

(* The prompt's properties are written to the same map.  Go checks, though *)
(* not in every case, whether somebody iterates over a map that is written *)
(* to, and then ends the process.                                          *)
PromptAdds(r) ==
  /\ Running /\ at[r] = "prompt"
  /\ heap' = [heap EXCEPT ![base[r]].prompt = TRUE]
  /\ \/ UNCHANGED process
     \/ reading = base[r] /\ process' = "crashed"
  /\ GoOn(r, "lookup")
  /\ UNCHANGED <<try, base, log, encVars, queueVars>>

(* No prompt provider, no messages or no properties.                       *)
PromptAddsNothing(r) ==
  /\ Running /\ at[r] = "prompt"
  /\ GoOn(r, "lookup")
  /\ UNCHANGED <<try, base, heap, log, encVars, process, queueVars>>

(* Denied, limited, unknown model, no route, or an error of a plugin: no   *)
(* further event.                                                          *)
EndsEarly(r) ==
  /\ Running /\ at[r] \in {"prompt", "lookup"}
  /\ GoOn(r, "done")
  /\ UNCHANGED <<try, base, heap, log, encVars, process, queueVars>>

CacheHit(r) ==
  /\ Running /\ at[r] = "lookup"
  /\ Emit(r, "cache.hit", heap, base[r])
  /\ GoOn(r, "done")
  /\ UNCHANGED <<try, base, encVars, process>>

RouteSelected(r) ==
  /\ Running /\ at[r] = "lookup"
  /\ LET p == RouteEventProps(heap, base[r], 0)
     IN  Emit(r, "route.selected", p.heap, p.map)
  /\ GoOn(r, "attempt")
  /\ UNCHANGED <<try, base, encVars, process>>

(* An attempt fails: the next one follows, or request.failed does.         *)
AttemptFails(r) ==
  /\ Running /\ at[r] = "attempt"
  /\ LET p == RouteEventProps(heap, base[r], try[r])
     IN  Emit(r, "upstream.error", p.heap, p.map)
  /\ \/ try[r] + 1 < Attempts /\ try' = [try EXCEPT ![r] = @ + 1] /\ UNCHANGED at
     \/ GoOn(r, "failing") /\ UNCHANGED try
  /\ UNCHANGED <<base, encVars, process>>

(* The provider of a route is not configured: no event.                    *)
SkipRoute(r) ==
  /\ Running /\ at[r] = "attempt"
  /\ \/ try[r] + 1 < Attempts /\ try' = [try EXCEPT ![r] = @ + 1] /\ UNCHANGED at
     \/ GoOn(r, "failing") /\ UNCHANGED try
  /\ UNCHANGED <<base, heap, log, encVars, process, queueVars>>

(* A stream is broken off: the forwarder receives an error chunk.          *)
StreamFails(r) ==
  /\ Running /\ at[r] = "attempt"
  /\ LET p == RouteEventProps(heap, base[r], try[r])
     IN  Emit(r, "upstream.error", p.heap, p.map)
  /\ GoOn(r, "interrupted")
  /\ UNCHANGED <<try, base, encVars, process>>

(* One more error chunk, that of the cancelled InvokeNext or the plugin's, *)
(* is an event of its own with the map of the first.  Then the forwarder   *)
(* sends it on to a writer that has returned, and never comes back.        *)
StreamFailsAgain(r) ==
  /\ Running /\ at[r] = "interrupted"
  /\ \E a \in 1 .. Len(log) :
       /\ log[a].req = r /\ log[a].type = "upstream.error" /\ log[a].try = try[r]
       /\ Emit(r, "upstream.error", heap, log[a].map)
  /\ GoOn(r, "stuck")
  /\ UNCHANGED <<try, base, encVars, process>>

Completed(r) ==
  /\ Running /\ at[r] = "attempt"
  /\ LET p == RouteEventProps(heap, base[r], try[r])
     IN  Emit(r, "request.completed", p.heap, p.map)
  /\ GoOn(r, "done")
  /\ UNCHANGED <<try, base, encVars, process>>

(* The last event of a broken stream names its route, that of a request    *)
(* without a response names none.                                          *)
Failed_Silent(r) ==
  /\ Running /\ at[r] \in {"failing", "interrupted"}
  /\ GoOn(r, "done")
  /\ UNCHANGED <<try, base, heap, log, encVars, process, queueVars>>
Failed(r) ==
  /\ Running /\ at[r] \in {"failing", "interrupted"}
  /\ LET p == IF at[r] = "failing" THEN AddTiming(heap, base[r])
                                   ELSE RouteEventProps(heap, base[r], try[r])
     IN  Emit(r, "request.failed", p.heap, p.map)
  /\ GoOn(r, "done")
  /\ UNCHANGED <<try, base, encVars, process>>

-----------------------------------------------------------------------------
(***************************************************************************)
(* The flusher.  Inside an observer's Emit the events of the batch are     *)
(* encoded one after the other, each by an iteration over its map.         *)
(***************************************************************************)
Flush ==
  /\ Running
  /\ Queue!SelectTick \/ Queue!TakeBatch \/ Queue!FlushReturns \/ Queue!BatchDone
  /\ encoded' = 0
  /\ UNCHANGED <<reqVars, reading, shown, process>>

EncodeBegins ==
  /\ Running /\ pc = "emit" /\ turn <= NumObservers
  /\ reading = 0 /\ encoded < Len(batch)
  /\ reading' = log[batch[encoded + 1]].map
  /\ UNCHANGED <<reqVars, encoded, shown, process, queueVars>>

EncodeEnds ==
  /\ Running /\ reading # 0
  /\ shown' = [shown EXCEPT ![turn] = Append(@, heap[reading])]
  /\ encoded' = encoded + 1 /\ reading' = 0
  /\ UNCHANGED <<reqVars, process, queueVars>>

EmitReturns ==
  /\ Running /\ encoded = Len(batch)
  /\ \E o \in 1 .. NumObservers : Queue!EmitTo(o)
  /\ encoded' = 0
  /\ UNCHANGED <<reqVars, reading, shown, process>>

-----------------------------------------------------------------------------
(* App.Run returns: after a signal, when the requests have ended or its    *)
(* timeout has passed.  That no requests come after the signal is covered  *)
(* by the behaviours in which none do.                                     *)
Exit ==
  /\ Running
  /\ process' = "exited"
  /\ UNCHANGED <<reqVars, encVars, queueVars>>

Request(r) ==
  \/ Started(r) \/ PromptAdds(r) \/ PromptAddsNothing(r) \/ EndsEarly(r) \/ CacheHit(r)
  \/ RouteSelected(r) \/ AttemptFails(r) \/ SkipRoute(r) \/ StreamFails(r)
  \/ StreamFailsAgain(r) \/ Completed(r) \/ Failed(r)

Next ==
  \/ \E r \in Requests : Request(r)
  \/ Flush \/ EncodeBegins \/ EncodeEnds \/ EmitReturns
  \/ Exit

(* The ticker ticks and the flusher is scheduled; requests may hang in a   *)
(* plugin.                                                                 *)
Spec     == Init /\ [][Next]_vars
FairSpec == Spec /\ WF_vars(Flush \/ EncodeBegins \/ EncodeEnds \/ EmitReturns)

-----------------------------------------------------------------------------
(***************************************************************************)
(* Properties.                                                             *)
(***************************************************************************)
Observers == 1 .. NumObservers

(* Type invariant.                                                         *)
TypeOK ==
  /\ at \in [Requests -> {"new", "prompt", "lookup", "attempt", "failing", "interrupted",
                         "stuck", "done"}]
  /\ try \in [Requests -> 0 .. Attempts - 1] /\ base \in [Requests -> 0 .. Len(heap)]
  /\ Len(log) = calls /\ \A e \in 1 .. calls : log[e].map \in 1 .. Len(heap)
  /\ reading \in 0 .. Len(heap) /\ encoded \in 0 .. Len(batch)
  /\ process \in {"up", "exited", "crashed"}
  /\ Queue!TypeOK

Last(type)    == type \in {"cache.hit", "request.completed", "request.failed"}
Repeats(e, f) == e.type = "upstream.error" /\ f.type = "upstream.error" /\ e.try = f.try

(* What an observer has received of a request is a history of that request *)
(* with gaps: request.started comes first, the attempts follow in order,   *)
(* and nothing comes after the event that ends it.  An attempt has one     *)
(* upstream.error, but for a stream that breaks twice: the second one is   *)
(* then the last event of the request.                                     *)
ReceivedAsHistory ==
  \A o \in Observers : \A i, j \in 1 .. Len(offered[o]) :
    LET e == log[offered[o][i]]
        f == log[offered[o][j]]
    IN  i < j /\ e.req = f.req =>
          /\ f.type # "request.started" /\ ~Last(e.type)
          /\ f.type = "route.selected" => e.type = "request.started"
          /\ e.type = "upstream.error" =>
               \/ e.try < f.try
               \/ e.try = f.try /\ f.type \in {"upstream.error", "request.failed"}
          /\ Repeats(e, f) =>
               \A k \in j + 1 .. Len(offered[o]) : log[offered[o][k]].req # e.req

(* An observer sees an event as it was when it was emitted, however late   *)
(* it is encoded and whatever attempts followed.  Only request.started may *)
(* already show what the prompt added (routeEventProps, addTiming).        *)
ShownAsEmitted ==
  \A o \in Observers : \A i \in 1 .. Len(offered[o]) :
    LET e == log[offered[o][i]]
    IN  shown[o][i] = IF e.type = "request.started" THEN [e.was EXCEPT !.prompt = shown[o][i].prompt]
                                                    ELSE e.was

(* The last event of every request that has tried a route reaches each     *)
(* observer, overflows or goes down with the process.                      *)
LastIsSeen ==
  \A r \in Requests :
    (at[r] = "done" /\ \E e \in 1 .. calls : log[e].req = r /\ log[e].type = "route.selected")
      ~> \/ ~Running
         \/ \E e \in 1 .. calls :
              /\ log[e].req = r /\ Last(log[e].type)
              /\ \/ e \in dropped \cup rejected
                 \/ \A o \in Observers : e \in Queue!Elems(offered[o])

(* What the contract of observers promises: they cannot take the gateway   *)
(* down.                                                                   *)
NeverCrashes == process # "crashed"
=============================================================================
