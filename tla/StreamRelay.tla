----------------------------- MODULE StreamRelay -----------------------------
(***************************************************************************)
(* One streamed response on its way from the plugin to the HTTP client:    *)
(* four goroutines and two unbuffered channels.                            *)
(*                                                                         *)
(*   reader     RPCPluginClient.Invoke, loops InvokeNext and fills ch      *)
(*   canceller  started by it, tells the plugin when ctx ends              *)
(*   forwarder  executeStream's goroutine, copies ch to out, then commits  *)
(*              the usage and emits the terminal event                     *)
(*   writer     the HTTP handler in writeStream, copies out to the client  *)
(*                                                                         *)
(* ctx is the request's context: net/http ends it when the client goes     *)
(* away, when the server's ReadTimeout has passed, when a write to the     *)
(* client fails and when the handler has returned.  A send on an           *)
(* unbuffered channel and its receive are one step.  The plugin is         *)
(* external: its stream is a script of chunks chosen initially, and it may *)
(* stop answering at any point.                                            *)
(***************************************************************************)
EXTENDS Integers, Sequences

CONSTANTS
  MaxChunks,   \* bound: chunks in the plugin's stream
  RateLimited  \* a rate limiter is configured (p.ratelimit # nil)

ASSUME StreamAssumption == MaxChunks \in Nat /\ RateLimited \in BOOLEAN

(* A chunk is the set of its fields that are present: a delta for the      *)
(* client, a usage record with tokens in it or one without, an error.      *)
Records == {"usage", "no tokens"}
Chunk   == {c \in SUBSET ({"chunk", "error"} \cup Records) : ~(Records \subseteq c)}
Scripts == UNION {[1 .. n -> Chunk] : n \in 0 .. MaxChunks}

VARIABLES
  script,     \* what the plugin would produce
  taken,      \* how many of its chunks InvokeNext has returned
  reader,     \* "next", "push", "pushErr" or "done" (ch is closed)
  ended,      \* why the reader returned: "eof", "failed" or "ctx"
  canceller,  \* "wait", "call", "told" or "quit"
  forwarder,  \* "recv", "push", "commit", "emit" or "done" (out is closed)
  held,       \* the chunk the forwarder holds; 0 is the reader's own error
  failed, usage,  \* the forwarder's locals; usage is the chunk it came from
  committed,  \* the usage Commit was called with, 0 if it was not
  events,     \* lifecycle events emitted for this request
  writer,     \* "recv" or "returned"
  wire,       \* deltas written to the client
  wireEnd,    \* how the handler ended it: "open" (it has not), "error" or "[DONE]"
  ctxDone,    \* the request's context has ended
  conn        \* the connection: "up", "gone" (the client left), "late" (ReadTimeout
              \*   has passed) or "mute" (WriteTimeout has: writes fail)

vars == <<script, taken, reader, ended, canceller, forwarder, held, failed,
          usage, committed, events, writer, wire, wireEnd, ctxDone, conn>>

readerVars == <<script, taken, reader, ended>>
relayVars  == <<forwarder, held, failed, usage, committed, events>>
clientVars == <<writer, wire, wireEnd>>
ctxVars    == <<ctxDone, conn>>

Fields(i)  == IF i = 0 THEN {"error"} ELSE script[i]
HasUsage(i) == Fields(i) \cap Records # {}

Init ==
  /\ script \in Scripts /\ taken = 0
  /\ reader = "next" /\ ended = "no" /\ canceller = "wait"
  /\ forwarder = "recv" /\ held = 0 /\ failed = FALSE /\ usage = 0
  /\ committed = 0 /\ events = <<>>
  /\ writer = "recv" /\ wire = <<>> /\ wireEnd = "open"
  /\ ctxDone = FALSE /\ conn = "up"

ReaderReturns(why) == reader' = "done" /\ ended' = why

-----------------------------------------------------------------------------
(***************************************************************************)
(* The reader.  InvokeNext returns a chunk or EOF if the plugin answers,   *)
(* an error if the connection is lost, and an error once ctx has ended.    *)
(***************************************************************************)
NextChunk_IgnoresEOF ==
  /\ reader = "next"
  /\ taken' = taken + 1 /\ reader' = "push"
  /\ UNCHANGED <<script, ended, canceller, relayVars, clientVars, ctxVars>>
NextChunk ==
  /\ reader = "next" /\ taken < Len(script)
  /\ taken' = taken + 1 /\ reader' = "push"
  /\ UNCHANGED <<script, ended, canceller, relayVars, clientVars, ctxVars>>

NextEOF ==
  /\ reader = "next" /\ taken = Len(script)
  /\ ReaderReturns("eof")
  /\ UNCHANGED <<script, taken, canceller, relayVars, clientVars, ctxVars>>

NextFails_Silent ==
  /\ reader = "next" /\ ~ctxDone
  /\ ReaderReturns("failed")
  /\ UNCHANGED <<script, taken, canceller, relayVars, clientVars, ctxVars>>
NextFails ==
  /\ reader = "next" /\ ~ctxDone
  /\ reader' = "pushErr"
  /\ UNCHANGED <<script, taken, ended, canceller, relayVars, clientVars, ctxVars>>

NextCancelled_Ignored ==
  /\ reader = "next" /\ ctxDone /\ taken = Len(script)
  /\ reader' = "pushErr"
  /\ UNCHANGED <<script, taken, ended, canceller, relayVars, clientVars, ctxVars>>
NextCancelled ==
  /\ reader = "next" /\ ctxDone
  /\ reader' = "pushErr"
  /\ UNCHANGED <<script, taken, ended, canceller, relayVars, clientVars, ctxVars>>

(* ch <- chunk, received by the forwarder's range loop.                    *)
Receive_NotFailed(i) ==
  /\ forwarder = "recv" /\ forwarder' = "push" /\ held' = i
  /\ usage' = IF HasUsage(i) THEN i ELSE usage
  /\ events' = IF "error" \in Fields(i) THEN Append(events, "upstream.error")
                                        ELSE events
  /\ UNCHANGED <<failed, committed>>
Receive(i) ==
  /\ forwarder = "recv" /\ forwarder' = "push" /\ held' = i
  /\ usage' = IF HasUsage(i) THEN i ELSE usage
  /\ failed' = (failed \/ "error" \in Fields(i))
  /\ events' = IF "error" \in Fields(i) THEN Append(events, "upstream.error")
                                        ELSE events
  /\ UNCHANGED committed

PushChunk ==
  /\ reader = "push"
  /\ Receive(taken)
  /\ reader' = "next"
  /\ UNCHANGED <<script, taken, ended, canceller, clientVars, ctxVars>>

PushError ==
  /\ reader = "pushErr"
  /\ Receive(0)
  /\ ReaderReturns("failed")
  /\ UNCHANGED <<script, taken, canceller, clientVars, ctxVars>>

(* The other case of both selects: <-ctx.Done().                           *)
PushCancelled_Continues ==
  /\ reader \in {"push", "pushErr"} /\ ctxDone
  /\ reader' = "next"
  /\ UNCHANGED <<script, taken, ended, canceller, relayVars, clientVars, ctxVars>>
PushCancelled ==
  /\ reader \in {"push", "pushErr"} /\ ctxDone
  /\ ReaderReturns("ctx")
  /\ UNCHANGED <<script, taken, canceller, relayVars, clientVars, ctxVars>>

(***************************************************************************)
(* The canceller: a select between ctx.Done() and streamDone; if both are  *)
(* ready Go picks either.  The InvokeCancel call may fail; its error is    *)
(* ignored and it is over within two seconds.                              *)
(***************************************************************************)
CancelStart ==
  /\ canceller = "wait" /\ ctxDone
  /\ canceller' = "call"
  /\ UNCHANGED <<readerVars, relayVars, clientVars, ctxVars>>

CancelReturns ==
  /\ canceller = "call"
  /\ canceller' = "told"
  /\ UNCHANGED <<readerVars, relayVars, clientVars, ctxVars>>

CancelQuits ==
  /\ canceller = "wait" /\ reader = "done"
  /\ canceller' = "quit"
  /\ UNCHANGED <<readerVars, relayVars, clientVars, ctxVars>>

-----------------------------------------------------------------------------
(***************************************************************************)
(* The forwarder sends without looking at ctx.  When ch is closed it       *)
(* commits the usage, with a context of its own that never ends, emits the *)
(* terminal event and closes out.                                          *)
(***************************************************************************)
ChClosed ==
  /\ forwarder = "recv" /\ reader = "done"
  /\ forwarder' = "commit"
  /\ UNCHANGED <<readerVars, held, failed, usage, committed, events, canceller,
                 clientVars, ctxVars>>

(* usage.TotalTokens > 0: a later record without tokens takes the place of *)
(* one that had some.  What Commit returns is ignored.                     *)
Due(u) == RateLimited /\ u # 0 /\ "usage" \in Fields(u)

CommitUsage ==
  /\ forwarder = "commit" /\ Due(usage)
  /\ forwarder' = "emit" /\ committed' = usage
  /\ UNCHANGED <<readerVars, held, failed, usage, events, canceller, clientVars,
                 ctxVars>>

NothingToCommit ==
  /\ forwarder = "commit" /\ ~Due(usage)
  /\ forwarder' = "emit"
  /\ UNCHANGED <<readerVars, held, failed, usage, committed, events, canceller,
                 clientVars, ctxVars>>

EmitTerminal ==
  /\ forwarder = "emit"
  /\ forwarder' = "done"
  /\ events' = Append(events, IF failed THEN "request.failed" ELSE "request.completed")
  /\ UNCHANGED <<readerVars, held, failed, usage, committed, canceller, clientVars,
                 ctxVars>>

(***************************************************************************)
(* out <- chunk, received by writeStream: an error ends the response and   *)
(* the handler, a delta is written and flushed, anything else is skipped.  *)
(* The error of a write is ignored by writeStream, and net/http ends the   *)
(* context over it.                                                        *)
(***************************************************************************)
Written == IF conn = "mute" THEN wire ELSE Append(wire, held)
AfterWrite == ctxDone' = (ctxDone \/ conn = "mute") /\ UNCHANGED conn

WriteChunk ==
  /\ forwarder = "push" /\ writer = "recv"
  /\ forwarder' = "recv"
  /\ \/ /\ "error" \in Fields(held)
        /\ writer' = "returned" /\ wireEnd' = "error"
        /\ AfterWrite /\ UNCHANGED wire
     \/ /\ "error" \notin Fields(held) /\ "chunk" \in Fields(held)
        /\ wire' = Written
        /\ AfterWrite /\ UNCHANGED <<writer, wireEnd>>
     \/ /\ Fields(held) \cap {"error", "chunk"} = {}
        /\ UNCHANGED <<clientVars, ctxVars>>
  /\ UNCHANGED <<readerVars, held, failed, usage, committed, events, canceller>>

WriteDone ==
  /\ writer = "recv" /\ forwarder = "done"
  /\ writer' = "returned" /\ wireEnd' = "[DONE]"
  /\ UNCHANGED <<readerVars, relayVars, canceller, wire, ctxVars>>

-----------------------------------------------------------------------------
(***************************************************************************)
(* net/http (external): NewHTTPServer gives it request_timeout as both     *)
(* ReadTimeout and WriteTimeout.                                           *)
(***************************************************************************)
HandlerReturned ==
  /\ writer = "returned" /\ ~ctxDone
  /\ ctxDone' = TRUE
  /\ UNCHANGED <<readerVars, relayVars, canceller, clientVars, conn>>

ClientGone ==
  /\ writer = "recv" /\ ~ctxDone /\ conn = "up"
  /\ ctxDone' = TRUE /\ conn' = "gone"
  /\ UNCHANGED <<readerVars, relayVars, canceller, clientVars>>

(* While the handler works the server reads on in the background, to see   *)
(* the client leave; ReadTimeout ends this read, and the context with it,  *)
(* under a client that is still there.                                     *)
ReadTimeout ==
  /\ writer = "recv" /\ ~ctxDone
  /\ ctxDone' = TRUE /\ conn' = IF conn = "up" THEN "late" ELSE conn
  /\ UNCHANGED <<readerVars, relayVars, canceller, clientVars>>

(* From now on nothing that is written gets to the client.                 *)
WriteTimeout ==
  /\ writer = "recv" /\ conn \in {"up", "late"}
  /\ conn' = "mute"
  /\ UNCHANGED <<readerVars, relayVars, canceller, clientVars, ctxDone>>

-----------------------------------------------------------------------------
Plugin == NextChunk \/ NextEOF \/ NextFails
Go ==
  \/ NextCancelled \/ PushChunk \/ PushError \/ PushCancelled
  \/ CancelStart \/ CancelReturns \/ CancelQuits
  \/ ChClosed \/ NothingToCommit \/ EmitTerminal \/ WriteChunk \/ WriteDone \/ HandlerReturned

Next == Plugin \/ Go \/ CommitUsage \/ ClientGone \/ ReadTimeout \/ WriteTimeout

(* Every goroutine that can go on does.  The upstream plugin may fall      *)
(* silent, the rate limiter need not answer Commit (its context never      *)
(* ends), the client need not leave, and the timeouts may be far away.     *)
Fairness ==
  /\ WF_vars(NextCancelled) /\ WF_vars(PushChunk) /\ WF_vars(PushError)
  /\ WF_vars(PushCancelled)
  /\ WF_vars(CancelStart \/ CancelQuits) /\ WF_vars(CancelReturns)
  /\ WF_vars(ChClosed) /\ WF_vars(NothingToCommit) /\ WF_vars(EmitTerminal)
  /\ WF_vars(WriteChunk) /\ WF_vars(WriteDone) /\ WF_vars(HandlerReturned)

Spec == Init /\ [][Next]_vars
FairSpec == Spec /\ Fairness

-----------------------------------------------------------------------------
(***************************************************************************)
(* Properties.                                                             *)
(***************************************************************************)

(* Type invariant.                                                         *)
TypeOK ==
  /\ script \in Scripts /\ taken \in 0 .. Len(script)
  /\ reader \in {"next", "push", "pushErr", "done"}
  /\ ended \in {"no", "eof", "failed", "ctx"}
  /\ canceller \in {"wait", "call", "told", "quit"}
  /\ forwarder \in {"recv", "push", "commit", "emit", "done"}
  /\ held \in 0 .. Len(script) /\ usage \in 0 .. Len(script)
  /\ committed \in 0 .. Len(script)
  /\ failed \in BOOLEAN /\ ctxDone \in BOOLEAN
  /\ conn \in {"up", "gone", "late", "mute"}
  /\ events \in Seq({"upstream.error", "request.failed", "request.completed"})
  /\ writer \in {"recv", "returned"} /\ wireEnd \in {"open", "error", "[DONE]"}
  /\ wire \in Seq(1 .. Len(script))

(* The deltas among the first m chunks of the script, in order.            *)
Deltas(m) == {i \in 1 .. m : "chunk" \in script[i] /\ "error" \notin script[i]}

(* The client gets the plugin's deltas in order, without gap or repetition *)
(* (InvokeNext loop, both channels, writeStream), and nothing that comes   *)
(* after an error.                                                         *)
RelayedInOrder ==
  /\ \A i, j \in 1 .. Len(wire) : i < j => wire[i] < wire[j]
  /\ \E m \in 0 .. Len(script) :
       /\ {wire[i] : i \in 1 .. Len(wire)} = Deltas(m)
       /\ \A i \in 1 .. m : "error" \notin script[i]

Terminal == {"request.failed", "request.completed"}
EventSet == {events[i] : i \in 1 .. Len(events)}
LastUsage ==
  LET U == {i \in 1 .. Len(script) : HasUsage(i)}
  IN  IF U = {} THEN 0 ELSE CHOOSE i \in U : \A j \in U : j <= i

(* The usage Commit has to be called with, if that of chunk u is the last. *)
ToCommit(u) == IF Due(u) THEN u ELSE 0

(* A response that the handler ends with [DONE] was completed without an   *)
(* error, as far as observers are told.  It is whole, and all its usage    *)
(* was committed, if nothing happened to the connection, and also if the   *)
(* reader saw the stream's end before it saw that of the context.          *)
DoneMeansAll ==
  wireEnd = "[DONE]" =>
    /\ "request.completed" \in EventSet /\ ended \in {"eof", "ctx"}
    /\ conn = "up" => ended = "eof"
    /\ ended = "eof" => committed = ToCommit(LastUsage)
    /\ ended = "eof" /\ conn # "mute" =>
         {wire[i] : i \in 1 .. Len(wire)} = Deltas(Len(script))

(* Observers and client are told the same: request.failed is emitted only  *)
(* after the handler has written the error, request.completed never when   *)
(* there was one.                                                          *)
EventMatchesWire ==
  /\ "request.failed" \in EventSet => wireEnd = "error"
  /\ "request.completed" \in EventSet =>
       wireEnd # "error" /\ "upstream.error" \notin EventSet

(* Once the stream or the context has ended the handler returns, even if   *)
(* the upstream plugin never answers again; the one thing that can hold it *)
(* up is the forwarder's Commit, which the rate limiter has to answer.     *)
(* Nothing in the plugin client outlives the request either: reader and    *)
(* canceller both end, whatever forwarder and writer do.                   *)
HandlerEnds ==
  /\ (ctxDone \/ reader = "done")
       ~> (writer = "returned" \/ (forwarder = "commit" /\ Due(usage)))
  /\ ctxDone ~> (reader = "done" /\ canceller \in {"told", "quit"})

(* A stream in which the upstream failed ends with request.failed.         *)
FailureReported == failed ~> "request.failed" \in EventSet
=============================================================================
