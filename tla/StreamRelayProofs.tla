--------------------------- MODULE StreamRelayProofs ---------------------------
(***************************************************************************)
(* Proofs about one streamed response, for scripts of every length, with   *)
(* and without a rate limiter.                                             *)
(***************************************************************************)
EXTENDS StreamRelay, SequenceTheorems, TLAPS

-----------------------------------------------------------------------------
(***************************************************************************)
(* The inductive invariant.                                                *)
(***************************************************************************)

(* How many of the plugin's chunks the forwarder has received, and how     *)
(* many of them have got as far as the writer while it was there.          *)
Got   == IF ended = "failed" THEN taken ELSE held
Shown == IF forwarder = "push" /\ held > 0 THEN held - 1 ELSE Got

(* A chunk is with the reader, with the forwarder, or has been passed on.  *)
Places ==
  /\ ended = "no" <=> reader # "done"
  /\ reader \in {"next", "pushErr"} => held = taken
  /\ reader = "push" => taken = held + 1
  /\ ended = "eof" => held = Len(script)
  /\ ended = "failed" => held = 0 /\ failed
  /\ forwarder \in {"commit", "emit", "done"} => reader = "done"
  /\ forwarder = "push" /\ held = 0 => ended = "failed"

(* An error is known to the forwarder until the writer knows it too; while *)
(* nothing happens to the connection only the handler's return ends the    *)
(* context.                                                                *)
Ends ==
  /\ writer = "recv" <=> wireEnd = "open"
  /\ wireEnd = "[DONE]" => forwarder = "done"
  /\ wireEnd = "error" => failed
  /\ failed /\ wireEnd # "error" => forwarder = "push" /\ "error" \in Fields(held)
  /\ ~failed /\ forwarder = "push" => "error" \notin Fields(held)
  /\ ctxDone => conn # "up" \/ writer = "returned"
  /\ ended = "ctx" => conn # "up" \/ wireEnd = "error"

(* The wire has the deltas of the first m chunks.                          *)
WireHas(m) ==
  /\ {wire[i] : i \in 1 .. Len(wire)} = Deltas(m)
  /\ \A i \in 1 .. m : "error" \notin script[i]

Relayed ==
  RelayedInOrder /\ (wireEnd # "error" /\ conn # "mute" => WireHas(Shown))

(* The usage is that of the last chunk received that had a record, and it  *)
(* is committed if there are tokens in it.                                 *)
Accounts ==
  /\ usage <= Got
  /\ usage # 0 => HasUsage(usage)
  /\ \A i \in usage + 1 .. Got : ~HasUsage(i)
  /\ forwarder \in {"recv", "push", "commit"} => committed = 0
  /\ forwarder \in {"emit", "done"} => committed = ToCommit(usage)

Log ==
  /\ "upstream.error" \in EventSet => failed
  /\ forwarder # "done" => EventSet \cap Terminal = {}
  /\ forwarder = "done" =>
       EventSet \cap Terminal = {IF failed THEN "request.failed" ELSE "request.completed"}

IInv == TypeOK /\ Places /\ Ends /\ Relayed /\ Accounts /\ Log

-----------------------------------------------------------------------------
(***************************************************************************)
(* Scripts, logs, and what a step leaves as it was.                        *)
(***************************************************************************)
EventNames == {"upstream.error", "request.failed", "request.completed"}

(* A script is a finite sequence.                                          *)
LEMMA ScriptLength ==
  ASSUME TypeOK
  PROVE  Len(script) \in Nat
  <1>1. script \in Scripts
    BY DEF TypeOK
  <1>2. PICK n \in 0 .. MaxChunks : script \in [1 .. n -> Chunk]
    BY <1>1 DEF Scripts
  <1>3. n \in Nat
    BY StreamAssumption
  <1>4. script \in Seq(Chunk)
    BY <1>2, <1>3, SeqDef
  <1> QED BY <1>4, LenProperties

(* Where the chunks are, as numbers.                                       *)
LEMMA Numbers ==
  ASSUME TypeOK, Places
  PROVE  /\ Len(script) \in Nat /\ taken \in Nat /\ held \in Nat /\ usage \in Nat
         /\ taken <= Len(script) /\ held <= Len(script)
         /\ Got \in Nat /\ Got <= Len(script)
         /\ Shown \in Nat /\ Shown <= Got
         /\ ended # "failed" => Got = held
  <1>1. Len(script) \in Nat /\ taken \in 0 .. Len(script) /\ held \in 0 .. Len(script)
        /\ usage \in 0 .. Len(script)
    BY ScriptLength DEF TypeOK
  <1>2. held > 0 => ended # "failed"
    BY <1>1 DEF Places
  <1> QED BY <1>1, <1>2 DEF Got, Shown

(* One event more.                                                         *)
LEMMA EmitsOne ==
  ASSUME TypeOK, NEW e \in EventNames, events' = Append(events, e)
  PROVE  events' \in Seq(EventNames) /\ EventSet' = EventSet \cup {e}
  <1>1. events \in Seq(EventNames)
    BY DEF TypeOK, EventNames
  <1>2. /\ events' \in Seq(EventNames) /\ Len(events') = Len(events) + 1
        /\ \A i \in 1 .. Len(events) : events'[i] = events[i]
        /\ events'[Len(events) + 1] = e /\ Len(events) \in Nat
    BY <1>1, AppendProperties, LenProperties
  <1>3. \A i \in 1 .. Len(events') : i \in 1 .. Len(events) \/ i = Len(events) + 1
    BY <1>2
  <1>4. 1 .. Len(events) \subseteq 1 .. Len(events') /\ Len(events) + 1 \in 1 .. Len(events')
    BY <1>2
  <1>5. EventSet' \subseteq EventSet \cup {e}
    BY <1>2, <1>3 DEF EventSet
  <1>6. EventSet \cup {e} \subseteq EventSet'
    BY <1>2, <1>4 DEF EventSet
  <1> QED BY <1>2, <1>5, <1>6

(* No event and no end of the forwarder: the log stays right.              *)
LEMMA LogKept ==
  ASSUME Log, UNCHANGED <<events, failed>>, forwarder' = "done" <=> forwarder = "done"
  PROVE  Log'
  <1>1. EventSet' = EventSet
    BY DEF EventSet
  <1> QED BY <1>1 DEF Log

(* Nothing written: what the client has stays right.                       *)
LEMMA RelayedKept ==
  ASSUME Relayed, UNCHANGED <<wire, wireEnd, script>>, conn = "mute" => conn' = "mute",
         wireEnd # "error" => Shown' = Shown
  PROVE  Relayed'
  <1>1. RelayedInOrder'
    BY DEF Relayed, RelayedInOrder, Deltas
  <1>2. ASSUME wireEnd' # "error", conn' # "mute" PROVE WireHas(Shown)'
    <2>1. WireHas(Shown) /\ Shown' = Shown
      BY <1>2 DEF Relayed
    <2> QED BY <2>1 DEF WireHas, Deltas
  <1> QED BY <1>1, <1>2 DEF Relayed

(* Nothing received or committed: the accounts stay right.                 *)
LEMMA AccountsKept ==
  ASSUME Accounts, UNCHANGED <<script, usage, committed>>, Got' = Got,
         \/ forwarder' = forwarder
         \/ {forwarder, forwarder'} \subseteq {"recv", "push", "commit"}
         \/ {forwarder, forwarder'} \subseteq {"emit", "done"}
  PROVE  Accounts'
  <1>1. Accounts' <=> /\ usage <= Got
                      /\ usage # 0 => HasUsage(usage)
                      /\ \A i \in usage + 1 .. Got : ~HasUsage(i)
                      /\ forwarder' \in {"recv", "push", "commit"} => committed = 0
                      /\ forwarder' \in {"emit", "done"} => committed = ToCommit(usage)
    BY DEF Accounts, HasUsage, ToCommit, Due, Fields
  <1> QED BY <1>1 DEF Accounts

-----------------------------------------------------------------------------
(***************************************************************************)
(* The reader's own steps, the canceller and the context.                  *)
(***************************************************************************)
ReaderSteps == NextChunk \/ NextEOF \/ NextFails \/ NextCancelled \/ PushCancelled

(* The reader takes a chunk or ends: the forwarder does not see it yet.    *)
LEMMA ReaderStepsKeep ==
  ASSUME IInv, ReaderSteps
  PROVE  IInv'
  <1> USE DEF IInv
  <1>1. /\ UNCHANGED <<script, canceller, forwarder, held, failed, usage, committed, events,
                       writer, wire, wireEnd, ctxDone, conn>>
        /\ reader # "done" /\ ended = "no"
    BY DEF ReaderSteps, NextChunk, NextEOF, NextFails, NextCancelled, PushCancelled, relayVars,
           clientVars, ctxVars, Places
  <1>2. \/ /\ reader = "next" /\ taken < Len(script) /\ taken' = taken + 1
           /\ reader' = "push" /\ ended' = "no"
        \/ /\ reader = "next" /\ taken = Len(script) /\ taken' = taken
           /\ reader' = "done" /\ ended' = "eof"
        \/ reader = "next" /\ taken' = taken /\ reader' = "pushErr" /\ ended' = "no"
        \/ taken' = taken /\ ctxDone /\ reader' = "done" /\ ended' = "ctx"
    BY <1>1 DEF ReaderSteps, NextChunk, NextEOF, NextFails, NextCancelled, PushCancelled,
                ReaderReturns
  <1>3. Len(script) \in Nat /\ taken \in Nat /\ held \in Nat /\ taken <= Len(script)
    BY Numbers
  <1>4. TypeOK'
    BY <1>1, <1>2, <1>3 DEF TypeOK
  <1>5. Places'
    BY <1>1, <1>2, <1>3 DEF Places
  <1>6. Ends'
    <2>1. Fields(held)' = Fields(held)
      BY <1>1 DEF Fields
    <2>2. ended' = "ctx" => conn # "up" \/ wireEnd = "error"
      BY <1>1, <1>2 DEF Ends, Places, TypeOK
    <2> QED BY <1>1, <2>1, <2>2 DEF Ends
  <1>7. Got' = Got /\ Shown' = Shown
    BY <1>1, <1>2 DEF Got, Shown
  <1>8. Relayed' /\ Accounts'
    BY <1>1, <1>7, RelayedKept, AccountsKept
  <1>9. Log'
    BY <1>1, LogKept DEF Places, TypeOK
  <1> QED BY <1>4, <1>5, <1>6, <1>8, <1>9

ContextSteps == HandlerReturned \/ ClientGone \/ ReadTimeout \/ WriteTimeout

(* The canceller, the context and the connection: the client may leave,    *)
(* the server's timeouts pass, or the handler has returned.  Nothing that  *)
(* has been relayed depends on it.                                         *)
LEMMA ContextStepsKeep ==
  ASSUME IInv,
         CancelStart \/ CancelReturns \/ CancelQuits \/ ContextSteps
  PROVE  IInv'
  <1> USE DEF IInv
  <1>1. UNCHANGED <<readerVars, relayVars, clientVars>>
    BY DEF CancelStart, CancelReturns, CancelQuits, ContextSteps, HandlerReturned, ClientGone,
           ReadTimeout, WriteTimeout
  <1>2. /\ canceller' \in {"wait", "call", "told", "quit"}
        /\ ctxDone' \in BOOLEAN /\ conn' \in {"up", "gone", "late", "mute"}
        /\ conn # "up" => conn' # "up"
        /\ conn = "mute" => conn' = "mute"
        /\ ctxDone' => ctxDone \/ conn' # "up" \/ writer = "returned"
    <2> USE DEF TypeOK
    <2>1. CASE CancelStart \/ CancelReturns \/ CancelQuits
      <3>1. ctxDone' = ctxDone /\ conn' = conn
        BY <2>1 DEF CancelStart, CancelReturns, CancelQuits, ctxVars
      <3>2. canceller' \in {"wait", "call", "told", "quit"}
        BY <2>1 DEF CancelStart, CancelReturns, CancelQuits
      <3> QED BY <3>1, <3>2
    <2>2. CASE HandlerReturned
      BY <2>2 DEF HandlerReturned
    <2>3. CASE ClientGone
      BY <2>3 DEF ClientGone
    <2>4. CASE ReadTimeout
      BY <2>4 DEF ReadTimeout
    <2>5. CASE WriteTimeout
      BY <2>5 DEF WriteTimeout
    <2> QED BY <2>1, <2>2, <2>3, <2>4, <2>5 DEF ContextSteps
  <1>3. TypeOK'
    BY <1>1, <1>2 DEF TypeOK, readerVars, relayVars, clientVars
  <1>4. Places'
    BY <1>1 DEF Places, readerVars, relayVars
  <1>5. Ends'
    <2>1. Fields(held)' = Fields(held)
      BY <1>1 DEF Fields, readerVars, relayVars
    <2> QED BY <1>1, <1>2, <2>1 DEF Ends, readerVars, relayVars, clientVars
  <1>6. Got' = Got /\ Shown' = Shown
    BY <1>1 DEF Got, Shown, readerVars, relayVars
  <1>7. Relayed' /\ Accounts' /\ Log'
    <2>1. UNCHANGED <<script, forwarder, failed, usage, committed, events, wire, wireEnd>>
      BY <1>1 DEF readerVars, relayVars, clientVars
    <2> QED BY <1>2, <1>6, <2>1, RelayedKept, AccountsKept, LogKept
  <1> QED BY <1>3, <1>4, <1>5, <1>7

-----------------------------------------------------------------------------
(***************************************************************************)
(* The forwarder.                                                          *)
(***************************************************************************)

(* It receives a chunk, or the reader's error: nothing is skipped.         *)
LEMMA ReceiveKeeps ==
  ASSUME IInv, PushChunk \/ PushError
  PROVE  IInv'
  <1> USE DEF IInv
  <1>1. PICK i \in {0, taken} :
          /\ Receive(i) /\ UNCHANGED <<script, taken, canceller, writer, wire, wireEnd, ctxDone, conn>>
          /\ \/ i = taken /\ reader = "push" /\ reader' = "next" /\ ended' = ended
             \/ i = 0 /\ reader = "pushErr" /\ reader' = "done" /\ ended' = "failed"
    BY DEF PushChunk, PushError, ReaderReturns, clientVars, ctxVars
  <1>2. /\ forwarder = "recv" /\ forwarder' = "push" /\ held' = i /\ committed' = committed
        /\ usage' = IF HasUsage(i) THEN i ELSE usage
        /\ failed' = (failed \/ "error" \in Fields(i))
        /\ events' = IF "error" \in Fields(i) THEN Append(events, "upstream.error") ELSE events
    BY <1>1 DEF Receive
  <1>3. /\ Len(script) \in Nat /\ taken \in Nat /\ held \in Nat /\ usage \in Nat
        /\ taken <= Len(script) /\ held <= Len(script) /\ usage <= Len(script) /\ usage <= Got
        /\ ended = "no" /\ Got = held /\ Shown = held
        /\ \/ reader = "push" /\ i = held + 1 /\ i = taken /\ Fields(i) = script[i] /\ ended' = "no"
           \/ reader = "pushErr" /\ i = 0 /\ held = taken /\ Fields(i) = {"error"} /\ ended' = "failed"
    <2>1. reader # "done" /\ ended = "no"
      BY <1>1 DEF Places
    <2>2. Got = held /\ Shown = held
      BY <1>2, <2>1 DEF Got, Shown
    <2>3. usage \in 0 .. Len(script) /\ usage <= Got
      BY DEF TypeOK, Accounts
    <2> QED BY <1>1, <2>1, <2>2, <2>3, Numbers DEF Places, Fields
  <1>4. i \in 0 .. Len(script) /\ usage' \in 0 .. Len(script) /\ failed' \in BOOLEAN
    BY <1>2, <1>3 DEF TypeOK
  <1>5. /\ events' \in Seq(EventNames)
        /\ EventSet' = IF "error" \in Fields(i) THEN EventSet \cup {"upstream.error"} ELSE EventSet
    <2>1. CASE "error" \in Fields(i)
      BY <1>2, <2>1, EmitsOne DEF EventNames
    <2>2. CASE "error" \notin Fields(i)
      BY <1>2, <2>2 DEF EventSet, TypeOK, EventNames
    <2> QED BY <2>1, <2>2
  <1>6. TypeOK'
    BY <1>1, <1>2, <1>4, <1>5 DEF TypeOK, EventNames
  <1>7. failed' = TRUE <=> failed = TRUE \/ "error" \in Fields(i)
    BY <1>2 DEF TypeOK
  <1>8. Places'
    BY <1>1, <1>2, <1>3, <1>7 DEF Places
  <1>9. Ends'
    <2>1. Fields(held)' = Fields(i)
      BY <1>1, <1>2 DEF Fields
    <2>2. wireEnd # "error" => ~failed
      BY <1>2 DEF Ends
    <2>3. wireEnd # "[DONE]"
      BY <1>2 DEF Ends
    <2> QED BY <1>1, <1>2, <1>3, <2>1, <2>2, <2>3 DEF Ends
  <1>10. Shown' = Shown
    BY <1>1, <1>2, <1>3 DEF Shown, Got
  <1>11. Relayed'
    BY <1>1, <1>10, RelayedKept
  <1>12. Accounts'
    <2>1. CASE i = 0
      <3>0. ~HasUsage(i)
        BY <2>1 DEF HasUsage, Fields, Records
      <3>1. Got' = Got /\ usage' = usage
        BY <1>1, <1>2, <1>3, <2>1, <3>0 DEF Got
      <3> QED BY <1>1, <1>2, <3>1, AccountsKept
    <2>2. CASE i # 0
      <3>1. Got' = Got + 1 /\ i = Got + 1 /\ Fields(i) = script[i] /\ Got \in Nat
        BY <1>1, <1>2, <1>3, <2>2 DEF Got
      <3>2. \A j \in usage + 1 .. i : j \in usage + 1 .. Got \/ j = i
        BY <1>3, <3>1
      <3>3. /\ \A j \in Nat : HasUsage(j)' <=> HasUsage(j)
            /\ committed' = 0 /\ forwarder' = "push"
        BY <1>1, <1>2 DEF HasUsage, Fields, Accounts
      <3>4. CASE HasUsage(i)
        <4>1. usage' = i /\ Got' = i /\ i \in Nat
          BY <1>2, <3>1, <3>4
        <4>2. i + 1 .. i = {} /\ i <= i
          BY <4>1
        <4>3. HasUsage(usage)'
          BY <1>1, <3>4, <4>1 DEF HasUsage, Fields
        <4> QED BY <3>3, <4>1, <4>2, <4>3 DEF Accounts
      <3>5. CASE ~HasUsage(i)
        <4>1. usage' = usage /\ Got' = i /\ usage <= i
          BY <1>2, <1>3, <3>1, <3>5
        <4>2. usage # 0 => HasUsage(usage)'
          BY <1>1, <4>1 DEF HasUsage, Fields, Accounts
        <4>3. \A j \in usage + 1 .. i : ~HasUsage(j)'
          BY <1>3, <3>1, <3>2, <3>3, <3>5 DEF Accounts
        <4> QED BY <3>3, <4>1, <4>2, <4>3 DEF Accounts
      <3> QED BY <3>4, <3>5
    <2> QED BY <2>1, <2>2
  <1>13. Log'
    BY <1>2, <1>5, <1>7 DEF Log, Terminal
  <1> QED BY <1>6, <1>8, <1>9, <1>11, <1>12, <1>13

(* ch is closed: the forwarder commits the usage, if there is any, and     *)
(* says how the stream ended.                                              *)
LEMMA SettlingKeeps ==
  ASSUME IInv, ChClosed \/ CommitUsage \/ NothingToCommit \/ EmitTerminal
  PROVE  IInv'
  <1> USE DEF IInv
  <1>1. /\ UNCHANGED <<script, taken, reader, ended, held, failed, usage, canceller, writer, wire,
                       wireEnd, ctxDone, conn>>
        /\ reader = "done" /\ forwarder # "done" /\ forwarder # "push"
        /\ forwarder' \in {"commit", "emit", "done"}
    BY DEF ChClosed, CommitUsage, NothingToCommit, EmitTerminal, readerVars, clientVars, ctxVars,
           Places
  <1>2. /\ committed' \in 0 .. Len(script) /\ events' \in Seq(EventNames)
    <2>1. CASE EmitTerminal
      <3>1. PICK e \in EventNames : events' = Append(events, e)
        BY <2>1 DEF EmitTerminal, EventNames
      <3>2. events' \in Seq(EventNames) /\ committed' = committed
        BY <2>1, <3>1, EmitsOne DEF EmitTerminal
      <3> QED BY <3>2 DEF TypeOK
    <2>2. CASE ChClosed \/ CommitUsage \/ NothingToCommit
      BY <2>2 DEF ChClosed, CommitUsage, NothingToCommit, TypeOK, EventNames
    <2> QED BY <2>1, <2>2
  <1>3. TypeOK'
    BY <1>1, <1>2 DEF TypeOK, EventNames
  <1>4. Places'
    BY <1>1 DEF Places
  <1>5. Ends'
    <2>1. Fields(held)' = Fields(held)
      BY <1>1 DEF Fields
    <2>2. wireEnd # "error" => ~failed
      BY <1>1 DEF Ends
    <2> QED BY <1>1, <2>1, <2>2 DEF Ends
  <1>6. Got' = Got /\ Shown' = Shown
    BY <1>1 DEF Got, Shown
  <1>7. Relayed'
    BY <1>1, <1>6, RelayedKept
  <1>8. Accounts'
    <2>1. CASE ChClosed \/ EmitTerminal
      <3>1. UNCHANGED <<script, usage, committed>> /\ Got' = Got
        BY <1>1, <1>6, <2>1 DEF ChClosed, EmitTerminal
      <3>2. \/ {forwarder, forwarder'} \subseteq {"recv", "push", "commit"}
            \/ {forwarder, forwarder'} \subseteq {"emit", "done"}
        BY <2>1 DEF ChClosed, EmitTerminal
      <3> QED BY <3>1, <3>2, AccountsKept
    <2>2. CASE CommitUsage \/ NothingToCommit
      <3>1. /\ forwarder = "commit" /\ forwarder' = "emit" /\ committed = 0
            /\ committed' = ToCommit(usage)
        BY <2>2 DEF CommitUsage, NothingToCommit, Accounts, ToCommit
      <3>2. script' = script /\ usage' = usage
        BY <1>1
      <3>3. /\ ToCommit(usage)' = ToCommit(usage)
            /\ \A j \in Nat : HasUsage(j)' <=> HasUsage(j)
            /\ HasUsage(usage)' <=> HasUsage(usage)
        BY <3>2 DEF ToCommit, Due, HasUsage, Fields
      <3> QED BY <1>6, <3>1, <3>2, <3>3, Numbers DEF Accounts
    <2> QED BY <2>1, <2>2
  <1>9. Log'
    <2>1. CASE EmitTerminal
      <3> DEFINE e == IF failed THEN "request.failed" ELSE "request.completed"
      <3>1. e \in EventNames /\ e \in Terminal /\ e # "upstream.error" /\ events' = Append(events, e)
            /\ forwarder' = "done"
        BY <2>1 DEF EmitTerminal, EventNames, Terminal
      <3>2. e' = e
        BY <1>1
      <3> HIDE DEF e
      <3>3. EventSet' = EventSet \cup {e}
        BY <3>1, EmitsOne
      <3>4. EventSet \cap Terminal = {} /\ ("upstream.error" \in EventSet => failed)
        BY <1>1 DEF Log
      <3>5. EventSet' \cap Terminal = {e}
        BY <3>1, <3>3, <3>4
      <3>6. "upstream.error" \in EventSet' => failed'
        BY <1>1, <3>1, <3>3, <3>4
      <3> QED BY <3>1, <3>2, <3>5, <3>6 DEF Log, e
    <2>2. CASE ChClosed \/ CommitUsage \/ NothingToCommit
      <3>1. events' = events /\ forwarder' # "done"
        BY <2>2 DEF ChClosed, CommitUsage, NothingToCommit
      <3> QED BY <1>1, <3>1, LogKept
    <2> QED BY <2>1, <2>2
  <1> QED BY <1>3, <1>4, <1>5, <1>7, <1>8, <1>9

-----------------------------------------------------------------------------
(***************************************************************************)
(* The writer.                                                             *)
(***************************************************************************)

(* A delta is written when all that came before it has been: the wire goes *)
(* on in order, without a gap.                                             *)
LEMMA WritesInOrder ==
  ASSUME TypeOK, RelayedInOrder, NEW m \in 1 .. Len(script), WireHas(m - 1),
         "error" \notin script[m], script' = script,
         wire' = IF "chunk" \in script[m] THEN Append(wire, m) ELSE wire
  PROVE  /\ wire' \in Seq(1 .. Len(script)) /\ RelayedInOrder'
         /\ {wire'[i] : i \in 1 .. Len(wire')} = Deltas(m)
         /\ \A i \in 1 .. m : "error" \notin script[i]
  <1>0. Len(script) \in Nat /\ wire \in Seq(1 .. Len(script)) /\ m \in Nat
    BY ScriptLength DEF TypeOK
  <1>1. \A i \in 1 .. m : i = m \/ i \in 1 .. m - 1
    BY <1>0
  <1>2. \A i \in 1 .. m - 1 : i \in 1 .. m /\ i < m
    BY <1>0
  <1>3. \A i \in 1 .. m : "error" \notin script[i]
    BY <1>1 DEF WireHas
  <1>4. Deltas(m) = Deltas(m - 1) \cup {i \in {m} : "chunk" \in script[i]}
    BY <1>0, <1>1, <1>2 DEF Deltas
  <1>5. /\ wire' \in Seq(1 .. Len(script))
        /\ \A i, j \in 1 .. Len(wire') : i < j => wire'[i] < wire'[j]
        /\ {wire'[i] : i \in 1 .. Len(wire')} = Deltas(m)
    <2>1. CASE "chunk" \notin script[m]
      <3>1. wire' = wire /\ Deltas(m) = Deltas(m - 1)
        BY <1>4, <2>1
      <3> QED BY <1>0, <3>1 DEF RelayedInOrder, WireHas
    <2>2. CASE "chunk" \in script[m]
      <3> DEFINE L == Len(wire)
                 S == 1 .. Len(script)
      <3>1. wire' = Append(wire, m) /\ Deltas(m) = Deltas(m - 1) \cup {m}
        BY <1>4, <2>2
      <3>a. wire \in Seq(S) /\ m \in S
        BY <1>0
      <3> HIDE DEF S
      <3>b. /\ wire' \in Seq(S) /\ Len(wire') = L + 1 /\ L \in Nat
            /\ \A i \in 1 .. L : wire'[i] = wire[i]
            /\ wire'[L + 1] = m
        BY <3>1, <3>a, AppendProperties, LenProperties
      <3>2. /\ wire' \in Seq(1 .. Len(script)) /\ Len(wire') = L + 1 /\ L \in Nat
            /\ \A i \in 1 .. L : wire'[i] = wire[i]
            /\ wire'[L + 1] = m
        BY <3>b DEF S
      <3>3. {wire[i] : i \in 1 .. L} = Deltas(m - 1)
        BY DEF WireHas
      <3>4. \A i \in 1 .. L : wire[i] < m
        BY <1>2, <3>3 DEF Deltas
      <3> HIDE DEF L
      <3>5. \A i \in 1 .. Len(wire') : i \in 1 .. L \/ i = L + 1
        BY <3>2
      <3>6. 1 .. L \subseteq 1 .. Len(wire') /\ L + 1 \in 1 .. Len(wire')
        BY <3>2
      <3>7. ASSUME NEW i \in 1 .. Len(wire'), NEW j \in 1 .. Len(wire'), i < j
            PROVE  wire'[i] < wire'[j]
        <4>1. i \in 1 .. L
          BY <3>2, <3>7
        <4>2. CASE j \in 1 .. L
          <5>1. wire[i] < wire[j]
            BY <3>7, <4>1, <4>2 DEF RelayedInOrder, L
          <5> QED BY <3>2, <4>1, <4>2, <5>1
        <4>3. CASE j = L + 1
          BY <3>2, <3>4, <4>1, <4>3
        <4> QED BY <3>5, <4>2, <4>3
      <3>8. {wire'[i] : i \in 1 .. Len(wire')} = {wire[i] : i \in 1 .. L} \cup {m}
        BY <3>2, <3>5, <3>6
      <3> QED BY <3>1, <3>2, <3>3, <3>7, <3>8
    <2> QED BY <2>1, <2>2
  <1>6. RelayedInOrder'
    <2>1. m \in 0 .. Len(script)
      BY <1>0
    <2>2. Deltas(m)' = Deltas(m)
      BY DEF Deltas
    <2> QED BY <1>3, <1>5, <2>1, <2>2 DEF RelayedInOrder, Deltas
  <1> QED BY <1>3, <1>5, <1>6

(* writeStream takes a chunk: it ends the response at an error, writes a   *)
(* delta, and drops the rest.                                              *)
LEMMA WriteChunkKeeps ==
  ASSUME IInv, WriteChunk
  PROVE  IInv'
  <1> USE DEF IInv
  <1>1. /\ forwarder = "push" /\ writer = "recv" /\ forwarder' = "recv" /\ wireEnd = "open"
        /\ UNCHANGED <<script, taken, reader, ended, held, failed, usage, committed, events,
                       canceller, conn>>
        /\ ctxDone' \in BOOLEAN /\ (ctxDone' => ctxDone \/ conn = "mute")
    <2>1. \/ ctxDone' = (ctxDone \/ conn = "mute") /\ conn' = conn
          \/ ctxDone' = ctxDone /\ conn' = conn
      BY DEF WriteChunk, AfterWrite, ctxVars
    <2>2. ctxDone \in BOOLEAN
      BY DEF TypeOK
    <2>3. conn' = conn /\ ctxDone' \in BOOLEAN
      BY <2>1, <2>2
    <2>4. ctxDone' => ctxDone \/ conn = "mute"
      BY <2>1, <2>2
    <2>5. /\ forwarder = "push" /\ writer = "recv" /\ forwarder' = "recv" /\ wireEnd = "open"
          /\ UNCHANGED <<script, taken, reader, ended, held, failed, usage, committed, events,
                         canceller>>
      BY DEF WriteChunk, readerVars, Ends
    <2> QED BY <2>3, <2>4, <2>5
  <1>2. Got' = Got /\ Fields(held)' = Fields(held)
    BY <1>1 DEF Got, Fields
  <1>3. Accounts' /\ Log'
    BY <1>1, <1>2, AccountsKept, LogKept
  <1>4. Places'
    BY <1>1 DEF Places
  <1>5. CASE "error" \in Fields(held)
    <2>1. writer' = "returned" /\ wireEnd' = "error" /\ wire' = wire
      BY <1>5 DEF WriteChunk
    <2>2. TypeOK'
      BY <1>1, <2>1 DEF TypeOK
    <2>3. failed
      BY <1>1, <1>5 DEF Ends
    <2>4. Ends'
      BY <1>1, <2>1, <2>3 DEF Ends
    <2>5. Relayed'
      BY <1>1, <2>1 DEF Relayed, RelayedInOrder, Deltas
    <2> QED BY <1>3, <1>4, <2>2, <2>4, <2>5
  <1>6. CASE "error" \notin Fields(held)
    <2>1. /\ writer' = writer /\ wireEnd' = wireEnd
          /\ wire' = IF "chunk" \in Fields(held) /\ conn # "mute" THEN Append(wire, held)
                                                              ELSE wire
      BY <1>6 DEF WriteChunk, Written, clientVars
    <2>2. held # 0 /\ Fields(held) = script[held]
      BY <1>6 DEF Fields
    <2>3. held \in 1 .. Len(script) /\ ended # "failed" /\ held > 0 /\ held \in Nat
      BY <2>2, Numbers DEF Places
    <2>4. ~failed
      BY <1>1, <1>6 DEF Ends
    <2>5. Ends'
      BY <1>1, <2>1, <2>4 DEF Ends
    <2>6. CASE conn = "mute"
      <3>1. wire' = wire /\ conn' = "mute"
        BY <1>1, <2>1, <2>6
      <3>2. TypeOK' /\ Relayed'
        BY <1>1, <2>1, <3>1 DEF TypeOK, Relayed, RelayedInOrder, Deltas
      <3> QED BY <1>3, <1>4, <2>5, <3>2
    <2>7. CASE conn # "mute"
      <3>1. Shown = held - 1 /\ Shown' = held
        BY <1>1, <2>3 DEF Shown, Got
      <3>2. WireHas(held - 1) /\ RelayedInOrder
        BY <1>1, <2>7, <3>1 DEF Relayed
      <3>3. wire' = IF "chunk" \in script[held] THEN Append(wire, held) ELSE wire
        BY <2>1, <2>2, <2>7
      <3>4. /\ wire' \in Seq(1 .. Len(script)) /\ RelayedInOrder'
            /\ {wire'[i] : i \in 1 .. Len(wire')} = Deltas(held)
            /\ \A i \in 1 .. held : "error" \notin script[i]
        BY <1>1, <1>6, <2>2, <2>3, <3>2, <3>3, WritesInOrder
      <3>5. TypeOK'
        BY <1>1, <2>1, <3>4 DEF TypeOK
      <3>6. WireHas(Shown)'
        BY <1>1, <3>1, <3>4 DEF WireHas, Deltas
      <3> QED BY <1>3, <1>4, <2>5, <3>4, <3>5, <3>6 DEF Relayed
    <2> QED BY <2>6, <2>7
  <1> QED BY <1>5, <1>6

(* out is closed: the client gets its [DONE].                              *)
LEMMA WriteDoneKeeps ==
  ASSUME IInv, WriteDone
  PROVE  IInv'
  <1> USE DEF IInv
  <1>1. /\ writer = "recv" /\ forwarder = "done" /\ wireEnd = "open"
        /\ writer' = "returned" /\ wireEnd' = "[DONE]"
        /\ UNCHANGED <<readerVars, relayVars, canceller, wire, ctxVars>>
    BY DEF WriteDone, Ends
  <1>2. UNCHANGED <<script, taken, reader, ended, forwarder, held, failed, usage, committed,
                    events, canceller, wire, ctxDone, conn>>
    BY <1>1 DEF readerVars, relayVars, ctxVars
  <1>3. TypeOK' /\ Places'
    BY <1>1, <1>2 DEF TypeOK, Places
  <1>4. Got' = Got /\ Shown' = Shown /\ Fields(held)' = Fields(held)
    BY <1>2 DEF Got, Shown, Fields
  <1>5. Ends'
    BY <1>1, <1>2, <1>4 DEF Ends
  <1>6. Relayed'
    <2>1. RelayedInOrder' /\ (conn' # "mute" => WireHas(Shown)')
      BY <1>1, <1>2, <1>4 DEF Relayed, RelayedInOrder, WireHas, Deltas
    <2> QED BY <2>1 DEF Relayed
  <1>7. Accounts' /\ Log'
    BY <1>2, <1>4, AccountsKept, LogKept
  <1> QED BY <1>3, <1>5, <1>6, <1>7

-----------------------------------------------------------------------------
(***************************************************************************)
(* The theorems.                                                           *)
(***************************************************************************)

(* At first the stream is in the plugin.                                   *)
LEMMA IInvInit ==
  ASSUME Init
  PROVE  IInv
  <1>0. script \in Scripts
    BY DEF Init
  <1>1. PICK n \in 0 .. MaxChunks : script \in [1 .. n -> Chunk]
    BY <1>0 DEF Scripts
  <1>2. n \in Nat
    BY StreamAssumption
  <1>3. Len(script) \in Nat
    BY <1>1, <1>2, SeqDef, LenProperties
  <1>4. Len(wire) = 0 /\ Len(events) = 0 /\ wire = <<>> /\ events = <<>>
        /\ 1 .. Len(wire) = {} /\ 1 .. Len(events) = {} /\ 1 .. 0 = {} /\ 0 + 1 .. 0 = {}
    BY EmptySeq DEF Init
  <1>5. events \in Seq(EventNames) /\ wire \in Seq(1 .. Len(script))
    BY <1>4, EmptySeq
  <1>6. TypeOK
    <2> DEFINE Z == 0 .. Len(script)
               W == wire \in Seq(1 .. Len(script))
    <2>1. 0 \in Z /\ W
      BY <1>3, <1>5
    <2> HIDE DEF Z, W
    <2>2. /\ taken \in Z /\ held \in Z /\ usage \in Z /\ committed \in Z
          /\ failed \in BOOLEAN /\ ctxDone \in BOOLEAN /\ conn = "up"
      BY <2>1 DEF Init
    <2>3. events \in Seq({"upstream.error", "request.failed", "request.completed"})
      BY <1>5 DEF EventNames
    <2> QED BY <1>0, <2>1, <2>2, <2>3 DEF Init, TypeOK, Z, W
  <1>7. Places /\ Ends
    BY DEF Init, Places, Ends
  <1>8. Got = 0 /\ Shown = 0
    BY DEF Init, Got, Shown
  <1>9. Deltas(0) = {} /\ {wire[i] : i \in 1 .. Len(wire)} = {} /\ EventSet = {}
    BY <1>4 DEF Deltas, EventSet
  <1>10. RelayedInOrder /\ WireHas(0)
    <2>1. 0 \in 0 .. Len(script)
      BY <1>3
    <2> QED BY <1>4, <1>9, <2>1 DEF RelayedInOrder, WireHas
  <1>11. Relayed
    BY <1>8, <1>10 DEF Relayed
  <1>12. Accounts
    <2>1. usage = 0 /\ committed = 0 /\ forwarder = "recv" /\ usage <= Got
          /\ usage + 1 .. Got = {}
      BY <1>8 DEF Init
    <2> QED BY <2>1 DEF Accounts
  <1>13. Log
    BY <1>9 DEF Init, Log
  <1> QED BY <1>6, <1>7, <1>11, <1>12, <1>13 DEF IInv

(* The inductive invariant holds in every reachable state of the four      *)
(* goroutines, whatever the plugin streams and whoever is first.           *)
THEOREM Invariance == Spec => []IInv
  <1>1. Init => IInv
    BY IInvInit
  <1>2. IInv /\ [Next]_vars => IInv'
    <2> SUFFICES ASSUME IInv, [Next]_vars PROVE IInv'
      OBVIOUS
    <2>1. CASE ReaderSteps
      BY <2>1, ReaderStepsKeep
    <2>2. CASE CancelStart \/ CancelReturns \/ CancelQuits \/ ContextSteps
      BY <2>2, ContextStepsKeep
    <2>3. CASE PushChunk \/ PushError
      BY <2>3, ReceiveKeeps
    <2>4. CASE ChClosed \/ CommitUsage \/ NothingToCommit \/ EmitTerminal
      BY <2>4, SettlingKeeps
    <2>5. CASE WriteChunk
      BY <2>5, WriteChunkKeeps
    <2>6. CASE WriteDone
      BY <2>6, WriteDoneKeeps
    <2>7. CASE UNCHANGED vars
      <3>1. UNCHANGED <<script, taken, reader, ended, canceller, forwarder, held, failed, usage,
                        committed, events, writer, wire, wireEnd, ctxDone, conn>>
        BY <2>7 DEF vars
      <3>2. Got' = Got /\ Shown' = Shown /\ Fields(held)' = Fields(held)
        BY <3>1 DEF Got, Shown, Fields
      <3>3. TypeOK' /\ Places' /\ Ends'
        BY <3>1, <3>2 DEF IInv, TypeOK, Places, Ends
      <3>4. Relayed' /\ Accounts' /\ Log'
        BY <3>1, <3>2, RelayedKept, AccountsKept, LogKept DEF IInv
      <3> QED BY <3>3, <3>4 DEF IInv
    <2> QED BY <2>1, <2>2, <2>3, <2>4, <2>5, <2>6, <2>7
             DEF Next, Plugin, Go, ReaderSteps, ContextSteps
  <1> QED BY <1>1, <1>2, PTL DEF Spec

(* Each goroutine is at a place of its code and holds a chunk of the       *)
(* script; the log and the wire hold nothing else.                         *)
THEOREM TypeCorrect == Spec => []TypeOK
  <1>1. IInv => TypeOK
    BY DEF IInv
  <1> QED BY <1>1, Invariance, PTL

(* Two channels and four goroutines away, the client reads the plugin's    *)
(* deltas in order and without a gap, for a stream of any length.          *)
THEOREM TheWireIsAPrefix == Spec => []RelayedInOrder
  <1>1. IInv => RelayedInOrder
    BY DEF IInv, Relayed
  <1> QED BY <1>1, Invariance, PTL

(* [DONE] means what it can mean: observers are told of a completed        *)
(* response, and if the stream's end was seen the whole of it is before    *)
(* the [DONE] and its usage is committed.  Only something that happens to  *)
(* the connection can end the context, and with it the stream, early.      *)
THEOREM DoneIsTheEnd == Spec => []DoneMeansAll
  <1>1. ASSUME IInv PROVE DoneMeansAll
    <2> USE <1>1 DEF IInv
    <2> SUFFICES ASSUME wireEnd = "[DONE]"
                 PROVE  /\ "request.completed" \in EventSet /\ ended \in {"eof", "ctx"}
                        /\ conn = "up" => ended = "eof"
                        /\ ended = "eof" => committed = ToCommit(LastUsage)
                        /\ ended = "eof" /\ conn # "mute" =>
                             {wire[i] : i \in 1 .. Len(wire)} = Deltas(Len(script))
      BY DEF DoneMeansAll
    <2>1. forwarder = "done" /\ reader = "done" /\ ~failed
      BY DEF Ends, Places
    <2>2. ended \in {"eof", "ctx"} /\ (conn = "up" => ended = "eof")
      <3>1. ended \in {"no", "eof", "failed", "ctx"}
        BY DEF TypeOK
      <3> QED BY <2>1, <3>1 DEF Ends, Places
    <2>3. "request.completed" \in EventSet
      BY <2>1 DEF Log
    <2>4. ASSUME ended = "eof" PROVE Got = Len(script) /\ Shown = Len(script)
      BY <2>1, <2>4 DEF Got, Shown, Places
    <2>5. ASSUME ended = "eof", conn # "mute"
          PROVE  {wire[i] : i \in 1 .. Len(wire)} = Deltas(Len(script))
      BY <2>4, <2>5 DEF Relayed, WireHas
    <2>6. ASSUME ended = "eof" PROVE committed = ToCommit(LastUsage)
      <3> DEFINE U == {i \in 1 .. Len(script) : HasUsage(i)}
      <3>1. /\ committed = ToCommit(usage) /\ usage \in Nat /\ usage <= Len(script)
            /\ Len(script) \in Nat
            /\ usage # 0 => HasUsage(usage)
            /\ \A i \in usage + 1 .. Len(script) : ~HasUsage(i)
        BY <2>1, <2>4, <2>6, Numbers DEF Accounts
      <3>2. \A j \in U : j <= usage
        <4>1. \A j \in 1 .. Len(script) : j <= usage \/ j \in usage + 1 .. Len(script)
          BY <3>1
        <4> QED BY <3>1, <4>1
      <3>3. CASE usage = 0
        <4>1. U = {}
          BY <3>2, <3>3
        <4> QED BY <3>1, <3>3, <4>1 DEF LastUsage
      <3>4. CASE usage # 0
        <4>1. usage \in U
          BY <3>1, <3>4
        <4>2. \A i \in U : (\A j \in U : j <= i) => i = usage
          BY <3>1, <3>2, <4>1
        <4> HIDE DEF U
        <4>3. (CHOOSE i \in U : \A j \in U : j <= i) = usage
          BY <3>2, <4>1, <4>2
        <4> QED BY <3>1, <4>1, <4>3 DEF LastUsage, U
      <3> QED BY <3>3, <3>4
    <2> QED BY <2>2, <2>3, <2>5, <2>6
  <1> QED BY <1>1, Invariance, PTL

(* The event of a stream and its end at the client never contradict each   *)
(* other.                                                                  *)
THEOREM EventsTellTheTruth == Spec => []EventMatchesWire
  <1>1. ASSUME IInv PROVE EventMatchesWire
    <2> USE DEF IInv
    <2>1. ASSUME "request.failed" \in EventSet PROVE wireEnd = "error"
      <3>1. forwarder = "done" /\ failed
        BY <1>1, <2>1 DEF Log, Terminal
      <3> QED BY <1>1, <3>1 DEF Ends
    <2>2. ASSUME "request.completed" \in EventSet
          PROVE  wireEnd # "error" /\ "upstream.error" \notin EventSet
      <3>1. forwarder = "done" /\ ~failed
        BY <1>1, <2>2 DEF Log, Terminal
      <3> QED BY <1>1, <3>1 DEF Ends, Log
    <2> QED BY <2>1, <2>2 DEF EventMatchesWire
  <1> QED BY <1>1, Invariance, PTL
=============================================================================
