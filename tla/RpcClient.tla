------------------------------ MODULE RpcClient ------------------------------
(***************************************************************************)
(* One plugin's RPC client, internal/plugins/rpc.go: concurrent calls over *)
(* one shared connection, and the redial after it died.                    *)
(*                                                                         *)
(* Each caller makes one call.  A call has at most two attempts, each a    *)
(* goroutine running rpc.Client.Call that outlives a caller whose          *)
(* context ends.  Connections are numbered in the order of their dials;    *)
(* connection 1 is the one DialRPCPlugin made.  net/rpc and the plugin are *)
(* external: they are modelled as far as reconnect depends on them.        *)
(***************************************************************************)
EXTENDS Integers

CONSTANTS
  Callers,    \* goroutines that use the client
  MaxConns    \* bound: connections dialled in one behaviour

ASSUME RpcAssumption == MaxConns \in Nat \ {0}

Conns    == 1 .. MaxConns
Attempts == {1, 2}
NoConn   == 0

VARIABLES
  client,      \* c.client, guarded by c.mu
  dialled,     \* how many connections exist so far
  closing,     \* per connection: Close was called on its rpc.Client
  peerClosed,  \* per connection: the plugin closed its side
  input,       \* per connection, its reader: "reading", "eof", "err", "stopped"
  pc,          \* per caller: where call is
  fresh,       \* per caller: the connection reconnect dialled
  on,          \* per caller and attempt: the connection it uses
  att,         \* per caller and attempt: the state of its goroutine
  execs,       \* per caller: how often the plugin ran the request
  closeCalled  \* RPCPluginClient.Close has been called

vars == <<client, dialled, closing, peerClosed, input, pc, fresh, on, att,
          execs, closeCalled>>

connVars == <<dialled, closing, peerClosed, input>>

PCs == {"idle", "wait1", "check", "dial", "swap", "discard", "wait2",
        "ok", "failed", "ctx"}
AttStates == {"none", "spawned", "pending", "executed", "ok", "failed", "shutdown"}

Init ==
  /\ client = 1 /\ dialled = 1
  /\ closing = [c \in Conns |-> FALSE]
  /\ peerClosed = [c \in Conns |-> FALSE]
  /\ input = [c \in Conns |-> "reading"]
  /\ pc = [k \in Callers |-> "idle"]
  /\ fresh = [k \in Callers |-> NoConn]
  /\ on = [k \in Callers |-> [a \in Attempts |-> NoConn]]
  /\ att = [k \in Callers |-> [a \in Attempts |-> "none"]]
  /\ execs = [k \in Callers |-> 0]
  /\ closeCalled = FALSE

(* rpc.Client.send answers ErrShutdown without sending.                    *)
Dead(c) == closing[c] \/ input[c] = "stopped"

InFlight(k, a) == att[k][a] \in {"pending", "executed"}

(* callOn starts attempt a on connection c and waits for it.               *)
Spawn(k, a, c) ==
  /\ on' = [on EXCEPT ![k][a] = c]
  /\ att' = [att EXCEPT ![k][a] = "spawned"]
  /\ pc' = [pc EXCEPT ![k] = IF a = 1 THEN "wait1" ELSE "wait2"]

-----------------------------------------------------------------------------
(***************************************************************************)
(* call, callOn and reconnect.                                             *)
(***************************************************************************)
GetClient(k) ==
  /\ pc[k] = "idle"
  /\ Spawn(k, 1, client)
  /\ UNCHANGED <<client, connVars, fresh, execs, closeCalled>>

(* callOn returns what its goroutine reported; only ErrShutdown on the     *)
(* first attempt makes call go on to reconnect.                            *)
CallOnReturns_RetryAny(k, a) ==
  /\ pc[k] = IF a = 1 THEN "wait1" ELSE "wait2"
  /\ att[k][a] \in {"ok", "failed", "shutdown"}
  /\ pc' = [pc EXCEPT ![k] =
       CASE att[k][a] = "ok" -> "ok"
         [] att[k][a] # "ok" /\ a = 1 -> "check"
         [] OTHER -> "failed"]
  /\ UNCHANGED <<client, connVars, fresh, on, att, execs, closeCalled>>
CallOnReturns(k, a) ==
  /\ pc[k] = IF a = 1 THEN "wait1" ELSE "wait2"
  /\ att[k][a] \in {"ok", "failed", "shutdown"}
  /\ pc' = [pc EXCEPT ![k] =
       CASE att[k][a] = "ok" -> "ok"
         [] att[k][a] = "shutdown" /\ a = 1 -> "check"
         [] OTHER -> "failed"]
  /\ UNCHANGED <<client, connVars, fresh, on, att, execs, closeCalled>>

(* callOn returns ctx.Err(); the goroutine stays behind.                   *)
CtxDone(k) ==
  /\ pc[k] \in {"wait1", "wait2"}
  /\ pc' = [pc EXCEPT ![k] = "ctx"]
  /\ UNCHANGED <<client, connVars, fresh, on, att, execs, closeCalled>>

(* reconnect, first critical section: somebody else may have reconnected.  *)
ReconnectCheck_WaitsForOther(k) ==
  /\ pc[k] = "check" /\ client # on[k][1]
  /\ Spawn(k, 2, client)
  /\ UNCHANGED <<client, connVars, fresh, execs, closeCalled>>
ReconnectCheck(k) ==
  /\ pc[k] = "check"
  /\ \/ /\ client # on[k][1]
        /\ Spawn(k, 2, client)
     \/ /\ client = on[k][1]
        /\ pc' = [pc EXCEPT ![k] = "dial"]
        /\ UNCHANGED <<on, att>>
  /\ UNCHANGED <<client, connVars, fresh, execs, closeCalled>>

Dial(k) ==
  /\ pc[k] = "dial" /\ dialled < MaxConns
  /\ dialled' = dialled + 1
  /\ fresh' = [fresh EXCEPT ![k] = dialled + 1]
  /\ pc' = [pc EXCEPT ![k] = "swap"]
  /\ UNCHANGED <<client, closing, peerClosed, input, on, att, execs, closeCalled>>

(* The dial fails, or its context ends.                                    *)
DialFails(k) ==
  /\ pc[k] = "dial"
  /\ pc' = [pc EXCEPT ![k] = "failed"]
  /\ UNCHANGED <<client, connVars, fresh, on, att, execs, closeCalled>>

(* reconnect, second critical section: close the stale client and install  *)
(* the fresh one, unless another caller was faster.                        *)
Swap_NoRecheck(k) ==
  /\ pc[k] = "swap"
  /\ client' = fresh[k]
  /\ closing' = [closing EXCEPT ![on[k][1]] = TRUE]
  /\ Spawn(k, 2, fresh[k])
  /\ UNCHANGED <<dialled, peerClosed, input, fresh, execs, closeCalled>>
Swap(k) ==
  /\ pc[k] = "swap" /\ client = on[k][1]
  /\ client' = fresh[k]
  /\ closing' = [closing EXCEPT ![on[k][1]] = TRUE]
  /\ Spawn(k, 2, fresh[k])
  /\ UNCHANGED <<dialled, peerClosed, input, fresh, execs, closeCalled>>

SwapLost_NoClose(k) ==
  /\ pc[k] = "swap" /\ client # on[k][1]
  /\ Spawn(k, 2, client)
  /\ UNCHANGED <<client, connVars, fresh, execs, closeCalled>>
SwapLost(k) ==
  /\ pc[k] = "swap" /\ client # on[k][1]
  /\ pc' = [pc EXCEPT ![k] = "discard"]
  /\ on' = [on EXCEPT ![k][2] = client]
  /\ UNCHANGED <<client, connVars, fresh, att, execs, closeCalled>>

(* After the unlock: close the superfluous connection, use the current.    *)
Discard(k) ==
  /\ pc[k] = "discard"
  /\ closing' = [closing EXCEPT ![fresh[k]] = TRUE]
  /\ Spawn(k, 2, on[k][2])
  /\ UNCHANGED <<client, dialled, peerClosed, input, fresh, execs, closeCalled>>

(* RPCPluginClient.Close closes whatever client is current.                *)
Close ==
  /\ ~closeCalled
  /\ closeCalled' = TRUE
  /\ closing' = [closing EXCEPT ![client] = TRUE]
  /\ UNCHANGED <<client, dialled, peerClosed, input, pc, fresh, on, att, execs>>

-----------------------------------------------------------------------------
(***************************************************************************)
(* net/rpc (external).  send refuses on a client that is closed or whose   *)
(* reader has stopped; a write to a connection the plugin has closed may   *)
(* fail or be swallowed.                                                   *)
(***************************************************************************)
Send(k, a) ==
  /\ att[k][a] = "spawned"
  /\ \/ /\ Dead(on[k][a])
        /\ att' = [att EXCEPT ![k][a] = "shutdown"]
     \/ /\ ~Dead(on[k][a])
        /\ att' = [att EXCEPT ![k][a] = "pending"]
     \/ /\ ~Dead(on[k][a]) /\ peerClosed[on[k][a]]
        /\ att' = [att EXCEPT ![k][a] = "failed"]
  /\ UNCHANGED <<client, connVars, pc, fresh, on, execs, closeCalled>>

(* The reader of connection c meets the end of the stream, or another      *)
(* error: what it read decides what pending calls are told.                *)
InputFails(c) ==
  /\ c <= dialled /\ input[c] = "reading"
  /\ \/ peerClosed[c] /\ input' = [input EXCEPT ![c] = "eof"]
     \/ (peerClosed[c] \/ closing[c]) /\ input' = [input EXCEPT ![c] = "err"]
  /\ UNCHANGED <<client, dialled, closing, peerClosed, pc, fresh, on, att,
                 execs, closeCalled>>

(* The reader stops and fails the pending calls: with ErrShutdown if it    *)
(* met the end of the stream and Close had been called by then.            *)
InputStops(c) ==
  /\ input[c] \in {"eof", "err"}
  /\ input' = [input EXCEPT ![c] = "stopped"]
  /\ att' = [k \in Callers |-> [a \in Attempts |->
       IF on[k][a] = c /\ InFlight(k, a)
       THEN IF input[c] = "eof" /\ closing[c] THEN "shutdown" ELSE "failed"
       ELSE att[k][a]]]
  /\ UNCHANGED <<client, dialled, closing, peerClosed, pc, fresh, on, execs,
                 closeCalled>>

(***************************************************************************)
(* The plugin (external) runs a request that reached it, answers it, or    *)
(* closes a connection (say because encoding an answer failed).            *)
(***************************************************************************)
Execute(k, a) ==
  /\ att[k][a] = "pending" /\ ~peerClosed[on[k][a]]
  /\ att' = [att EXCEPT ![k][a] = "executed"]
  /\ execs' = [execs EXCEPT ![k] = @ + 1]
  /\ UNCHANGED <<client, connVars, pc, fresh, on, closeCalled>>

Answer(k, a) ==
  /\ att[k][a] = "executed" /\ input[on[k][a]] = "reading"
  /\ att' = [att EXCEPT ![k][a] = "ok"]
  /\ UNCHANGED <<client, connVars, pc, fresh, on, execs, closeCalled>>

PeerCloses(c) ==
  /\ c <= dialled /\ ~peerClosed[c]
  /\ peerClosed' = [peerClosed EXCEPT ![c] = TRUE]
  /\ UNCHANGED <<client, dialled, closing, input, pc, fresh, on, att, execs,
                 closeCalled>>

-----------------------------------------------------------------------------
CallerStep(k) ==
  \/ GetClient(k) \/ CtxDone(k) \/ ReconnectCheck(k) \/ Dial(k) \/ DialFails(k)
  \/ Swap(k) \/ SwapLost(k) \/ Discard(k)
  \/ \E a \in Attempts : CallOnReturns(k, a) \/ Send(k, a) \/ Execute(k, a)
                         \/ Answer(k, a)

ConnStep(c) == InputFails(c) \/ InputStops(c) \/ PeerCloses(c)

Next == Close \/ (\E k \in Callers : CallerStep(k)) \/ (\E c \in Conns : ConnStep(c))

(* Readers and attempt goroutines are never parked for good by the Go      *)
(* scheduler; nothing is assumed of the plugin or of a caller's context.   *)
Fairness ==
  /\ \A c \in Conns : WF_vars(InputFails(c)) /\ WF_vars(InputStops(c))
  /\ \A k \in Callers :
       /\ WF_vars(ReconnectCheck(k)) /\ WF_vars(Dial(k) \/ DialFails(k))
       /\ WF_vars(Swap(k) \/ SwapLost(k)) /\ WF_vars(Discard(k))
       /\ \A a \in Attempts : WF_vars(Send(k, a)) /\ WF_vars(CallOnReturns(k, a))

Spec == Init /\ [][Next]_vars
FairSpec == Spec /\ Fairness

-----------------------------------------------------------------------------
(***************************************************************************)
(* Properties.                                                             *)
(***************************************************************************)

(* Type invariant.                                                         *)
TypeOK ==
  /\ client \in Conns /\ dialled \in Conns
  /\ closing \in [Conns -> BOOLEAN]
  /\ peerClosed \in [Conns -> BOOLEAN]
  /\ input \in [Conns -> {"reading", "eof", "err", "stopped"}]
  /\ pc \in [Callers -> PCs]
  /\ fresh \in [Callers -> Conns \cup {NoConn}]
  /\ on \in [Callers -> [Attempts -> Conns \cup {NoConn}]]
  /\ att \in [Callers -> [Attempts -> AttStates]]
  /\ execs \in [Callers -> Nat]
  /\ closeCalled \in BOOLEAN

(* reconnect leaks no connection: one that exists and is not closed is the *)
(* current client, or is in the hands of the caller that dialled it and is *)
(* about to install or close it.                                           *)
NoConnLeak ==
  \A c \in 1 .. dialled :
    closing[c] \/ c = client
      \/ \E k \in Callers : fresh[k] = c /\ pc[k] \in {"swap", "discard"}

(* However many callers see ErrShutdown at once, reconnect only ever       *)
(* replaces a client that is dead, and never returns to an older one.      *)
OnlyDeadReplaced == [][client' # client => Dead(client) /\ client' > client]_vars

(* The retry after ErrShutdown never makes the plugin run a request twice, *)
(* as long as nobody calls Close: a request that was sent is not retried.  *)
NoDoubleExecution == ~closeCalled => \A k \in Callers : execs[k] <= 1

(* A caller does not hang on a connection that is gone: it is told, and it *)
(* either ends or gets to wait on a connection that is still there.        *)
Gone(c) == peerClosed[c] \/ closing[c]
Lost(k) ==
  \/ pc[k] \in {"check", "dial", "swap", "discard"}
  \/ pc[k] = "wait1" /\ Gone(on[k][1])
  \/ pc[k] = "wait2" /\ Gone(on[k][2])
LostCallsEnd == \A k \in Callers : Lost(k) ~> ~Lost(k)
=============================================================================
