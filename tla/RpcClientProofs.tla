--------------------------- MODULE RpcClientProofs ---------------------------
(***************************************************************************)
(* Proofs about RpcClient for every set of callers and every number of     *)
(* connections.                                                            *)
(***************************************************************************)
EXTENDS RpcClient, TLAPS

Reconnecting(k) == pc[k] \in {"check", "dial", "swap", "discard"}
Holding(k)      == pc[k] \in {"swap", "discard"}

(***************************************************************************)
(* The inductive invariant.                                                *)
(***************************************************************************)

(* Connections in use have been dialled.                                   *)
Dialled ==
  /\ client <= dialled
  /\ \A k \in Callers : fresh[k] <= dialled
  /\ \A k \in Callers, a \in Attempts :
       /\ on[k][a] <= dialled
       /\ att[k][a] # "none" => on[k][a] # NoConn
  /\ \A k \in Callers : pc[k] = "discard" => on[k][2] # NoConn

(* How far call has come and what its attempts were told.                  *)
Progress ==
  \A k \in Callers :
    /\ pc[k] = "idle" => att[k][1] = "none"
    /\ pc[k] # "idle" => att[k][1] # "none"
    /\ Reconnecting(k) => att[k][1] = "shutdown" /\ att[k][2] = "none"
    /\ att[k][2] # "none" => att[k][1] = "shutdown"
    /\ pc[k] = "wait1" => att[k][2] = "none"

(* ErrShutdown is only ever said of a dead client.                         *)
ShutdownIsDeath ==
  \A k \in Callers, a \in Attempts : att[k][a] = "shutdown" => Dead(on[k][a])

(* A connection between dial and swap belongs to the caller that made it.  *)
Private ==
  \A k \in Callers : Holding(k) =>
    /\ fresh[k] \in Conns /\ fresh[k] # client /\ fresh[k] > on[k][1]
    /\ \A j \in Callers, a \in Attempts : on[j][a] # fresh[k]
    /\ \A j \in Callers : Holding(j) /\ j # k => fresh[j] # fresh[k]

(* Nothing is in flight on a dead connection, unless Close cut it off.     *)
Quiet ==
  \A k \in Callers, a \in Attempts : InFlight(k, a) =>
    /\ input[on[k][a]] # "stopped"
    /\ ~closeCalled => ~closing[on[k][a]]

(* A request is executed only after it was sent, and not sent again.       *)
Unsent(k) == /\ att[k][1] \in {"none", "spawned", "pending", "shutdown"}
             /\ att[k][2] \in {"none", "spawned", "pending"}
Once ==
  ~closeCalled => \A k \in Callers : execs[k] <= 1 /\ (Unsent(k) => execs[k] = 0)

Safe == Dialled /\ Progress /\ ShutdownIsDeath /\ Private /\ Quiet /\ Once /\ NoConnLeak
IInv == TypeOK /\ Safe

-----------------------------------------------------------------------------
(***************************************************************************)
(* What the updates of the per-caller, per-attempt tables do, entry by     *)
(* entry.                                                                  *)
(***************************************************************************)

(* An attempt goroutine changes its own entry only.                        *)
LEMMA AttEffect ==
  ASSUME TypeOK, NEW k \in Callers, NEW a \in Attempts, NEW s \in AttStates,
         att' = [att EXCEPT ![k][a] = s]
  PROVE  /\ att' \in [Callers -> [Attempts -> AttStates]]
         /\ \A j \in Callers, b \in Attempts :
              att'[j][b] = IF j = k /\ b = a THEN s ELSE att[j][b]
  BY DEF TypeOK

(* callOn's start of an attempt.                                           *)
LEMMA SpawnEffect ==
  ASSUME TypeOK, NEW k \in Callers, NEW a \in Attempts, NEW c \in Conns,
         Spawn(k, a, c)
  PROVE  /\ att' \in [Callers -> [Attempts -> AttStates]]
         /\ on' \in [Callers -> [Attempts -> Conns \cup {NoConn}]]
         /\ pc' \in [Callers -> PCs]
         /\ \A j \in Callers, b \in Attempts :
              /\ att'[j][b] = IF j = k /\ b = a THEN "spawned" ELSE att[j][b]
              /\ on'[j][b] = IF j = k /\ b = a THEN c ELSE on[j][b]
         /\ pc'[k] = IF a = 1 THEN "wait1" ELSE "wait2"
         /\ \A j \in Callers : j # k => pc'[j] = pc[j]
  <1>1. att' \in [Callers -> [Attempts -> AttStates]]
    BY DEF TypeOK, Spawn, AttStates
  <1>2. on' \in [Callers -> [Attempts -> Conns \cup {NoConn}]]
    BY DEF TypeOK, Spawn
  <1>3. /\ pc' \in [Callers -> PCs] /\ pc'[k] = IF a = 1 THEN "wait1" ELSE "wait2"
        /\ \A j \in Callers : j # k => pc'[j] = pc[j]
    BY DEF TypeOK, Spawn, PCs
  <1>4. \A j \in Callers, b \in Attempts :
          /\ att'[j][b] = IF j = k /\ b = a THEN "spawned" ELSE att[j][b]
          /\ on'[j][b] = IF j = k /\ b = a THEN c ELSE on[j][b]
    BY DEF TypeOK, Spawn
  <1> QED BY <1>1, <1>2, <1>3, <1>4

(***************************************************************************)
(* Starting an attempt keeps what is said of connections and attempts, as  *)
(* long as the clients it closes are closed for good reason.               *)
(***************************************************************************)
LEMMA SpawnSafe ==
  ASSUME IInv, NEW k \in Callers, NEW a \in Attempts, NEW c \in Conns,
         c <= dialled, Spawn(k, a, c),
         \/ a = 1 /\ att[k][1] = "none"
         \/ a = 2 /\ att[k][1] = "shutdown" /\ att[k][2] = "none",
         UNCHANGED <<dialled, input, fresh, execs, closeCalled>>,
         client' \in Conns, client' <= dialled,
         closing' \in [Conns -> BOOLEAN],
         \A x \in Conns : closing[x] => closing'[x],
         \A x \in Conns : closing'[x] /\ ~closing[x] /\ ~closeCalled =>
           \A j \in Callers, b \in Attempts : InFlight(j, b) => on[j][b] # x
  PROVE  Dialled' /\ Progress' /\ ShutdownIsDeath' /\ Quiet' /\ Once'
  <1> USE DEF IInv, Safe, NoConn
  <1>0. /\ \A j \in Callers, b \in Attempts :
             /\ att'[j][b] = IF j = k /\ b = a THEN "spawned" ELSE att[j][b]
             /\ on'[j][b] = IF j = k /\ b = a THEN c ELSE on[j][b]
        /\ pc'[k] = IF a = 1 THEN "wait1" ELSE "wait2"
        /\ \A j \in Callers : j # k => pc'[j] = pc[j]
    BY SpawnEffect
  <1>1. Dialled'
    <2>1. \A j \in Callers : pc'[j] = "discard" => on'[j][2] # NoConn
      BY <1>0 DEF Dialled, Attempts
    <2>2. c # NoConn
      BY DEF Conns
    <2> QED BY <1>0, <2>1, <2>2 DEF Dialled, Attempts, TypeOK
  <1>2. Progress'
    BY <1>0 DEF Progress, Reconnecting, Attempts
  <1>3. ShutdownIsDeath'
    <2>1. ASSUME NEW j \in Callers, NEW b \in Attempts, att'[j][b] = "shutdown"
          PROVE  Dead(on[j][b]) /\ on'[j][b] = on[j][b] /\ on[j][b] \in Conns
      BY <1>0, <2>1 DEF ShutdownIsDeath, Dialled, TypeOK
    <2> QED BY <2>1 DEF ShutdownIsDeath, Dead
  <1>4. Quiet'
    <2>1. ASSUME NEW j \in Callers, NEW b \in Attempts,
                 att'[j][b] \in {"pending", "executed"}
          PROVE  InFlight(j, b) /\ on'[j][b] = on[j][b] /\ on[j][b] \in Conns
      <3>1. ~(j = k /\ b = a)
        BY <1>0, <2>1
      <3>2. att[j][b] = att'[j][b] /\ on'[j][b] = on[j][b]
        BY <1>0, <3>1
      <3> QED BY <2>1, <3>2 DEF InFlight, Dialled, TypeOK
    <2> QED BY <2>1 DEF Quiet, InFlight
  <1>5. Once'
    <2>1. Unsent(k)
      BY DEF Unsent, Progress
    <2>2. \A j \in Callers : j # k /\ Unsent(j)' => Unsent(j)
      BY <1>0 DEF Unsent, Attempts
    <2> QED BY <2>1, <2>2 DEF Once
  <1> QED BY <1>1, <1>2, <1>3, <1>4, <1>5

-----------------------------------------------------------------------------
(***************************************************************************)
(* One lemma per action.                                                   *)
(***************************************************************************)

(* dialled counts connections from 1.                                      *)
LEMMA DialledIsConn == TypeOK => \A x \in 1 .. dialled : x \in Conns
  BY RpcAssumption DEF TypeOK, Conns

(* getClient and the first callOn.                                         *)
LEMMA GetClientStep ==
  ASSUME IInv, NEW k \in Callers, GetClient(k)
  PROVE  IInv'
  <1> USE DEF IInv, Safe, GetClient, connVars
  <1>1. Dialled' /\ Progress' /\ ShutdownIsDeath' /\ Quiet' /\ Once'
    BY SpawnSafe DEF Progress, Dialled, TypeOK, Attempts
  <1>2. TypeOK'
    BY SpawnEffect DEF TypeOK, Attempts
  <1>3. /\ \A j \in Callers, b \in Attempts :
             on'[j][b] = IF j = k /\ b = 1 THEN client ELSE on[j][b]
        /\ pc'[k] = "wait1" /\ pc[k] = "idle"
        /\ \A j \in Callers : j # k => pc'[j] = pc[j]
    BY SpawnEffect DEF TypeOK, Attempts
  <1>4. Private'
    BY <1>3 DEF Private, Holding, Attempts
  <1>5. NoConnLeak'
    BY <1>3 DEF NoConnLeak
  <1> QED BY <1>1, <1>2, <1>4, <1>5

(* A caller's own pc moves between places where it holds no connection.    *)
LEMMA MoveStep ==
  ASSUME IInv, NEW k \in Callers, NEW p \in PCs, pc' = [pc EXCEPT ![k] = p],
         ~Holding(k), pc[k] # "idle", p \notin {"idle", "wait1", "swap", "discard"},
         p \in {"check", "dial"} => att[k][1] = "shutdown" /\ att[k][2] = "none",
         UNCHANGED <<client, connVars, fresh, on, att, execs, closeCalled>>
  PROVE  IInv'
  <1> USE DEF IInv, Safe, connVars
  <1>1. /\ pc' \in [Callers -> PCs] /\ pc'[k] = p
        /\ \A j \in Callers : j # k => pc'[j] = pc[j]
    BY DEF TypeOK
  <1>2. TypeOK'
    BY <1>1 DEF TypeOK
  <1>3. Dialled' /\ ShutdownIsDeath' /\ Quiet' /\ Once'
    BY <1>1 DEF Dialled, ShutdownIsDeath, Dead, Quiet, InFlight, Once, Unsent
  <1>4. Progress'
    BY <1>1 DEF Progress, Reconnecting
  <1>5. Private'
    BY <1>1 DEF Private, Holding
  <1>6. NoConnLeak'
    BY <1>1 DEF NoConnLeak, Holding
  <1> QED BY <1>2, <1>3, <1>4, <1>5, <1>6

(* call looks at what callOn returned.                                     *)
LEMMA CallOnReturnsStep ==
  ASSUME IInv, NEW k \in Callers, NEW a \in Attempts, CallOnReturns(k, a)
  PROVE  IInv'
  <1>1. ~Holding(k) /\ pc[k] # "idle"
    BY DEF CallOnReturns, Holding, Attempts
  <1>2. CASE att[k][a] = "shutdown" /\ a = 1
    <2>1. pc' = [pc EXCEPT ![k] = "check"]
      BY <1>2 DEF CallOnReturns
    <2>2. att[k][2] = "none"
      BY <1>2 DEF CallOnReturns, IInv, Safe, Progress, Reconnecting
    <2> QED BY <1>1, <1>2, <2>1, <2>2, MoveStep DEF CallOnReturns, PCs
  <1>3. CASE ~(att[k][a] = "shutdown" /\ a = 1)
    <2>1. PICK p \in {"ok", "failed"} : pc' = [pc EXCEPT ![k] = p]
      BY <1>3 DEF CallOnReturns
    <2> QED BY <1>1, <2>1, MoveStep DEF CallOnReturns, PCs
  <1> QED BY <1>2, <1>3

(* callOn gives up with its context.                                       *)
LEMMA CtxDoneStep ==
  ASSUME IInv, NEW k \in Callers, CtxDone(k)
  PROVE  IInv'
  BY MoveStep DEF CtxDone, Holding, PCs

(* reconnect's first look at c.client.                                     *)
LEMMA ReconnectCheckStep ==
  ASSUME IInv, NEW k \in Callers, ReconnectCheck(k)
  PROVE  IInv'
  <1>0. att[k][1] = "shutdown" /\ att[k][2] = "none" /\ ~Holding(k)
    BY DEF ReconnectCheck, IInv, Safe, Progress, Reconnecting, Holding
  <1>1. CASE Spawn(k, 2, client)
    <2> USE DEF IInv, Safe, ReconnectCheck, connVars
    <2>1. Dialled' /\ Progress' /\ ShutdownIsDeath' /\ Quiet' /\ Once'
      BY <1>0, <1>1, SpawnSafe DEF Dialled, TypeOK, Attempts
    <2>2. TypeOK'
      BY <1>1, SpawnEffect DEF TypeOK, Attempts
    <2>3. /\ \A j \in Callers, b \in Attempts :
               on'[j][b] = IF j = k /\ b = 2 THEN client ELSE on[j][b]
          /\ pc'[k] = "wait2" /\ pc[k] = "check"
          /\ \A j \in Callers : j # k => pc'[j] = pc[j]
      BY <1>1, SpawnEffect DEF TypeOK, Attempts
    <2>4. Private'
      BY <2>3 DEF Private, Holding, Attempts
    <2>5. NoConnLeak'
      BY <2>3 DEF NoConnLeak
    <2> QED BY <2>1, <2>2, <2>4, <2>5
  <1>2. CASE pc' = [pc EXCEPT ![k] = "dial"] /\ UNCHANGED <<on, att>>
    BY <1>0, <1>2, MoveStep DEF ReconnectCheck, PCs
  <1> QED BY <1>1, <1>2 DEF ReconnectCheck

(* The dial of reconnect fails.                                            *)
LEMMA DialFailsStep ==
  ASSUME IInv, NEW k \in Callers, DialFails(k)
  PROVE  IInv'
  BY MoveStep DEF DialFails, Holding, PCs

(* The dial of reconnect: a new connection nobody else knows.              *)
LEMMA DialStep ==
  ASSUME IInv, NEW k \in Callers, Dial(k)
  PROVE  IInv'
  <1> USE DEF IInv, Safe, Dial
  <1>0. /\ dialled \in Nat /\ dialled + 1 \in Conns /\ dialled' = dialled + 1
        /\ pc' \in [Callers -> PCs] /\ pc'[k] = "swap" /\ pc[k] = "dial"
        /\ \A j \in Callers : j # k => pc'[j] = pc[j]
        /\ fresh'[k] = dialled + 1 /\ \A j \in Callers : j # k => fresh'[j] = fresh[j]
        /\ fresh' \in [Callers -> Conns \cup {NoConn}]
    BY RpcAssumption DEF TypeOK, Conns, PCs
  <1>1. TypeOK'
    BY <1>0 DEF TypeOK
  <1>2. Dialled'
    <2>1. ASSUME NEW x \in Conns \cup {NoConn}, x <= dialled PROVE x <= dialled'
      BY <1>0, <2>1 DEF Conns, NoConn
    <2>2. \A j \in Callers : fresh'[j] <= dialled'
      <3>1. dialled + 1 <= dialled'
        BY <1>0
      <3>2. \A j \in Callers : fresh[j] <= dialled'
        BY <2>1 DEF Dialled, TypeOK
      <3> QED BY <1>0, <3>1, <3>2
    <2>3. \A j \in Callers : pc'[j] = "discard" => on'[j][2] # NoConn
      BY <1>0 DEF Dialled
    <2> QED BY <2>1, <2>2, <2>3 DEF Dialled, TypeOK
  <1>3. Progress'
    BY <1>0 DEF Progress, Reconnecting
  <1>4. ShutdownIsDeath' /\ Quiet' /\ Once'
    BY DEF ShutdownIsDeath, Dead, Quiet, InFlight, Once, Unsent
  <1>5. Private'
    <2>1. ASSUME NEW x \in Conns \cup {NoConn}, x <= dialled PROVE dialled + 1 > x
      BY <1>0, <2>1 DEF Conns, NoConn
    <2>2. /\ dialled + 1 # client
          /\ \A j \in Callers, b \in Attempts : dialled + 1 > on[j][b]
          /\ \A j \in Callers : dialled + 1 > fresh[j]
      BY <2>1 DEF Dialled, TypeOK
    <2>3. \A j \in Callers, b \in Attempts : on[j][b] # dialled + 1
      BY <1>0, <2>2 DEF TypeOK, Conns, NoConn
    <2>4. \A j \in Callers : fresh[j] # dialled + 1
      BY <1>0, <2>2 DEF TypeOK, Conns, NoConn
    <2>5. \A j \in Callers : j # k => (Holding(j)' <=> Holding(j))
      BY <1>0 DEF Holding
    <2> QED BY <1>0, <2>2, <2>3, <2>4, <2>5 DEF Private, Attempts
  <1>6. NoConnLeak'
    <2>1. ASSUME NEW x \in 1 .. dialled'
          PROVE  x \in 1 .. dialled \/ x = dialled + 1
      BY <1>0
    <2>2. \A j \in Callers : pc[j] \in {"swap", "discard"} =>
            pc'[j] = pc[j] /\ fresh'[j] = fresh[j]
      BY <1>0
    <2> QED BY <1>0, <2>1, <2>2 DEF NoConnLeak
  <1> QED BY <1>1, <1>2, <1>3, <1>4, <1>5, <1>6

(* reconnect installs its connection and closes the stale client.          *)
LEMMA SwapStep ==
  ASSUME IInv, NEW k \in Callers, Swap(k)
  PROVE  IInv'
  <1> USE DEF IInv, Safe, Swap
  <1>0. /\ att[k][1] = "shutdown" /\ att[k][2] = "none"
        /\ fresh[k] \in Conns /\ fresh[k] <= dialled /\ client \in Conns
        /\ Dead(client) /\ Spawn(k, 2, fresh[k]) /\ on[k][1] = client
    BY DEF Progress, Reconnecting, Private, Holding, Dialled, ShutdownIsDeath,
           Attempts, TypeOK
  <1>1. /\ closing' \in [Conns -> BOOLEAN] /\ closing'[client]
        /\ \A x \in Conns : x # client => closing'[x] = closing[x]
    BY <1>0 DEF TypeOK
  <1>2. \A x \in Conns : closing'[x] /\ ~closing[x] /\ ~closeCalled =>
          \A j \in Callers, b \in Attempts : InFlight(j, b) => on[j][b] # x
    BY <1>0, <1>1 DEF Quiet, Dead
  <1>3. Dialled' /\ Progress' /\ ShutdownIsDeath' /\ Quiet' /\ Once'
    BY <1>0, <1>1, <1>2, SpawnSafe DEF Attempts
  <1>4. TypeOK'
    BY <1>0, <1>1, SpawnEffect DEF TypeOK, Attempts
  <1>5. /\ \A j \in Callers, b \in Attempts :
             on'[j][b] = IF j = k /\ b = 2 THEN fresh[k] ELSE on[j][b]
        /\ pc'[k] = "wait2"
        /\ \A j \in Callers : j # k => pc'[j] = pc[j]
    BY <1>0, SpawnEffect DEF Attempts
  <1>6. Private'
    BY <1>0, <1>5 DEF Private, Holding, Attempts
  <1>7. NoConnLeak'
    <2>1. \A x \in 1 .. dialled : x \in Conns
      BY DialledIsConn
    <2> QED BY <1>0, <1>1, <1>5, <2>1 DEF NoConnLeak
  <1> QED BY <1>3, <1>4, <1>6, <1>7

(* reconnect finds that another caller was faster.                         *)
LEMMA SwapLostStep ==
  ASSUME IInv, NEW k \in Callers, SwapLost(k)
  PROVE  IInv'
  <1> USE DEF IInv, Safe, SwapLost, connVars
  <1>0. /\ att[k][2] = "none" /\ client \in Conns /\ client <= dialled
        /\ client # NoConn /\ pc[k] = "swap" /\ pc'[k] = "discard"
        /\ \A j \in Callers : j # k => pc'[j] = pc[j]
        /\ pc' \in [Callers -> PCs]
        /\ on' \in [Callers -> [Attempts -> Conns \cup {NoConn}]]
        /\ \A j \in Callers, b \in Attempts :
             on'[j][b] = IF j = k /\ b = 2 THEN client ELSE on[j][b]
    BY DEF Progress, Reconnecting, TypeOK, Conns, NoConn, PCs, Attempts, Dialled
  <1>1. TypeOK'
    BY <1>0 DEF TypeOK
  <1>2. Dialled'
    BY <1>0 DEF Dialled, Attempts
  <1>3. Progress'
    BY <1>0 DEF Progress, Reconnecting
  <1>4. ShutdownIsDeath' /\ Quiet'
    <2>1. \A j \in Callers, b \in Attempts :
            att[j][b] # "none" => on'[j][b] = on[j][b]
      BY <1>0
    <2> QED BY <2>1 DEF ShutdownIsDeath, Dead, Quiet, InFlight
  <1>5. Private'
    BY <1>0 DEF Private, Holding, Attempts
  <1>6. Once' /\ NoConnLeak'
    BY <1>0 DEF Once, Unsent, NoConnLeak
  <1> QED BY <1>1, <1>2, <1>3, <1>4, <1>5, <1>6

(* reconnect closes its superfluous connection.                            *)
LEMMA DiscardStep ==
  ASSUME IInv, NEW k \in Callers, Discard(k)
  PROVE  IInv'
  <1> USE DEF IInv, Safe, Discard
  <1>0. /\ att[k][1] = "shutdown" /\ att[k][2] = "none"
        /\ fresh[k] \in Conns /\ Holding(k)
        /\ on[k][2] \in Conns /\ on[k][2] <= dialled
        /\ client \in Conns /\ client <= dialled
        /\ Spawn(k, 2, on[k][2])
    BY DEF Progress, Reconnecting, Private, Holding, Dialled, Attempts, TypeOK
  <1>1. /\ closing' \in [Conns -> BOOLEAN] /\ closing'[fresh[k]]
        /\ \A x \in Conns : x # fresh[k] => closing'[x] = closing[x]
    BY <1>0 DEF TypeOK
  <1>2. \A x \in Conns : closing'[x] /\ ~closing[x] /\ ~closeCalled =>
          \A j \in Callers, b \in Attempts : InFlight(j, b) => on[j][b] # x
    BY <1>0, <1>1 DEF Private
  <1>3. Dialled' /\ Progress' /\ ShutdownIsDeath' /\ Quiet' /\ Once'
    BY <1>0, <1>1, <1>2, SpawnSafe DEF Attempts
  <1>4. TypeOK'
    BY <1>0, <1>1, SpawnEffect DEF TypeOK, Attempts
  <1>5. /\ \A j \in Callers, b \in Attempts : on'[j][b] = on[j][b]
        /\ pc'[k] = "wait2"
        /\ \A j \in Callers : j # k => pc'[j] = pc[j]
    BY <1>0, SpawnEffect DEF Attempts
  <1>6. Private'
    BY <1>0, <1>5 DEF Private, Holding, Attempts
  <1>7. NoConnLeak'
    <2>1. \A x \in 1 .. dialled : x \in Conns
      BY DialledIsConn
    <2> QED BY <1>0, <1>1, <1>5, <2>1 DEF NoConnLeak
  <1> QED BY <1>3, <1>4, <1>6, <1>7

(* RPCPluginClient.Close.                                                  *)
LEMMA CloseStep ==
  ASSUME IInv, Close
  PROVE  IInv'
  <1> USE DEF IInv, Safe, Close
  <1>0. /\ closing' \in [Conns -> BOOLEAN]
        /\ \A x \in Conns : closing[x] => closing'[x]
    BY DEF TypeOK
  <1>1. TypeOK'
    BY <1>0 DEF TypeOK
  <1>2. Dialled' /\ Progress' /\ Private' /\ Quiet' /\ Once'
    BY DEF Dialled, Progress, Reconnecting, Private, Holding, Quiet, InFlight, Once
  <1>3. ShutdownIsDeath'
    <2>1. \A j \in Callers, b \in Attempts : att[j][b] = "shutdown" => on[j][b] \in Conns
      BY DEF Dialled, TypeOK
    <2> QED BY <1>0, <2>1 DEF ShutdownIsDeath, Dead
  <1>4. NoConnLeak'
    BY <1>0 DEF NoConnLeak, TypeOK, Conns
  <1> QED BY <1>1, <1>2, <1>3, <1>4

(***************************************************************************)
(* net/rpc and the plugin.                                                 *)
(***************************************************************************)

(* rpc.Client.send.                                                        *)
LEMMA SendStep ==
  ASSUME IInv, NEW k \in Callers, NEW a \in Attempts, Send(k, a)
  PROVE  IInv'
  <1> USE DEF IInv, Safe
  <1>0. UNCHANGED <<client, dialled, closing, peerClosed, input, pc, fresh, on,
                    execs, closeCalled>>
    BY DEF Send, connVars
  <1>1. PICK s \in {"shutdown", "pending", "failed"} :
          /\ att' = [att EXCEPT ![k][a] = s]
          /\ s = "shutdown" => Dead(on[k][a])
          /\ s = "pending" => ~Dead(on[k][a])
    BY DEF Send
  <1>2. /\ att' \in [Callers -> [Attempts -> AttStates]]
        /\ \A j \in Callers, b \in Attempts :
             att'[j][b] = IF j = k /\ b = a THEN s ELSE att[j][b]
        /\ att[k][a] = "spawned"
    <2>1. s \in AttStates
      BY DEF AttStates
    <2> QED BY <1>1, <2>1, AttEffect DEF Send
  <1>3. TypeOK'
    BY <1>0, <1>2 DEF TypeOK
  <1>4. Dialled' /\ Private' /\ NoConnLeak'
    BY <1>0, <1>2 DEF Dialled, Private, Holding, NoConnLeak
  <1>5. Progress'
    BY <1>0, <1>2 DEF Progress, Reconnecting, Attempts
  <1>6. ShutdownIsDeath'
    BY <1>0, <1>1, <1>2 DEF ShutdownIsDeath, Dead
  <1>7. Quiet'
    <2>1. ASSUME NEW j \in Callers, NEW b \in Attempts, InFlight(j, b)'
          PROVE  InFlight(j, b) \/ ~Dead(on[j][b])
      <3>1. CASE j = k /\ b = a
        BY <1>1, <1>2, <2>1, <3>1 DEF InFlight
      <3>2. CASE ~(j = k /\ b = a)
        BY <1>2, <2>1, <3>2 DEF InFlight
      <3> QED BY <3>1, <3>2
    <2> QED BY <1>0, <2>1 DEF Quiet, Dead
  <1>8. Once'
    <2>1. \A j \in Callers : Unsent(j)' => Unsent(j)
      BY <1>2 DEF Unsent, Attempts, Progress
    <2> QED BY <1>0, <2>1 DEF Once
  <1> QED BY <1>3, <1>4, <1>5, <1>6, <1>7, <1>8

(* The plugin runs a request.                                              *)
LEMMA ExecuteStep ==
  ASSUME IInv, NEW k \in Callers, NEW a \in Attempts, Execute(k, a)
  PROVE  IInv'
  <1> USE DEF IInv, Safe
  <1>0. UNCHANGED <<client, dialled, closing, peerClosed, input, pc, fresh, on,
                    closeCalled>>
    BY DEF Execute, connVars
  <1>1. /\ att' \in [Callers -> [Attempts -> AttStates]]
        /\ \A j \in Callers, b \in Attempts :
             att'[j][b] = IF j = k /\ b = a THEN "executed" ELSE att[j][b]
        /\ att[k][a] = "pending"
    <2>1. "executed" \in AttStates
      BY DEF AttStates
    <2> QED BY <2>1, AttEffect DEF Execute
  <1>2. /\ execs' \in [Callers -> Nat] /\ execs'[k] = execs[k] + 1
        /\ \A j \in Callers : j # k => execs'[j] = execs[j]
    BY DEF Execute, TypeOK
  <1>3. TypeOK'
    BY <1>0, <1>1, <1>2 DEF TypeOK
  <1>4. Dialled' /\ Private' /\ NoConnLeak' /\ ShutdownIsDeath'
    BY <1>0, <1>1 DEF Dialled, Private, Holding, NoConnLeak, ShutdownIsDeath, Dead
  <1>5. Progress'
    BY <1>0, <1>1 DEF Progress, Reconnecting, Attempts
  <1>6. Quiet'
    BY <1>0, <1>1 DEF Quiet, InFlight
  <1>7. Once'
    <2>1. Unsent(k) /\ ~Unsent(k)'
      BY <1>1 DEF Unsent, Progress, Attempts
    <2>2. \A j \in Callers : j # k => (Unsent(j)' <=> Unsent(j))
      BY <1>1 DEF Unsent, Attempts
    <2> QED BY <1>0, <1>2, <2>1, <2>2 DEF Once
  <1> QED BY <1>3, <1>4, <1>5, <1>6, <1>7

(* The answer of the plugin arrives.                                       *)
LEMMA AnswerStep ==
  ASSUME IInv, NEW k \in Callers, NEW a \in Attempts, Answer(k, a)
  PROVE  IInv'
  <1> USE DEF IInv, Safe
  <1>0. UNCHANGED <<client, dialled, closing, peerClosed, input, pc, fresh, on,
                    execs, closeCalled>>
    BY DEF Answer, connVars
  <1>1. /\ att' \in [Callers -> [Attempts -> AttStates]]
        /\ \A j \in Callers, b \in Attempts :
             att'[j][b] = IF j = k /\ b = a THEN "ok" ELSE att[j][b]
        /\ att[k][a] = "executed"
    <2>1. "ok" \in AttStates
      BY DEF AttStates
    <2> QED BY <2>1, AttEffect DEF Answer
  <1>2. TypeOK'
    BY <1>0, <1>1 DEF TypeOK
  <1>3. Dialled' /\ Private' /\ NoConnLeak' /\ ShutdownIsDeath'
    BY <1>0, <1>1 DEF Dialled, Private, Holding, NoConnLeak, ShutdownIsDeath, Dead
  <1>4. Progress'
    BY <1>0, <1>1 DEF Progress, Reconnecting, Attempts
  <1>5. Quiet'
    BY <1>0, <1>1 DEF Quiet, InFlight
  <1>6. Once'
    <2>1. \A j \in Callers : Unsent(j)' => Unsent(j)
      BY <1>1 DEF Unsent, Attempts
    <2> QED BY <1>0, <2>1 DEF Once
  <1> QED BY <1>2, <1>3, <1>4, <1>5, <1>6

(* A connection's reader meets an error.                                   *)
LEMMA InputFailsStep ==
  ASSUME IInv, NEW c \in Conns, InputFails(c)
  PROVE  IInv'
  <1> USE DEF IInv, Safe, InputFails
  <1>0. /\ input' \in [Conns -> {"reading", "eof", "err", "stopped"}]
        /\ \A x \in Conns : input'[x] = "stopped" <=> input[x] = "stopped"
    BY DEF TypeOK
  <1>1. TypeOK'
    BY <1>0 DEF TypeOK
  <1>2. Dialled' /\ Progress' /\ Private' /\ Once' /\ NoConnLeak'
    BY DEF Dialled, Progress, Reconnecting, Private, Holding, Once, Unsent, NoConnLeak
  <1>3. \A j \in Callers, b \in Attempts : att[j][b] # "none" => on[j][b] \in Conns
    BY DEF Dialled, TypeOK
  <1>4. ShutdownIsDeath'
    BY <1>0, <1>3 DEF ShutdownIsDeath, Dead
  <1>5. Quiet'
    BY <1>0, <1>3 DEF Quiet, InFlight
  <1> QED BY <1>1, <1>2, <1>4, <1>5

(* A connection's reader stops and fails what is pending.                  *)
LEMMA InputStopsStep ==
  ASSUME IInv, NEW c \in Conns, InputStops(c)
  PROVE  IInv'
  <1> USE DEF IInv, Safe
  <1>0. UNCHANGED <<client, dialled, closing, peerClosed, pc, fresh, on, execs,
                    closeCalled>>
    BY DEF InputStops
  <1>1. /\ input' \in [Conns -> {"reading", "eof", "err", "stopped"}]
        /\ input'[c] = "stopped"
        /\ \A x \in Conns : x # c => input'[x] = input[x]
    BY DEF InputStops, TypeOK
  <1>2. ASSUME NEW j \in Callers, NEW b \in Attempts
        PROVE  \/ att'[j][b] = att[j][b] /\ ~(on[j][b] = c /\ InFlight(j, b))
               \/ on[j][b] = c /\ InFlight(j, b) /\ closing[c] /\ att'[j][b] = "shutdown"
               \/ on[j][b] = c /\ InFlight(j, b) /\ att'[j][b] = "failed"
    BY DEF InputStops
  <1>3. att' \in [Callers -> [Attempts -> AttStates]]
    BY DEF InputStops, TypeOK, AttStates
  <1>4. TypeOK'
    BY <1>0, <1>1, <1>3 DEF TypeOK
  <1>5. ASSUME NEW j \in Callers, NEW b \in Attempts
        PROVE  /\ att[j][b] \in {"none", "spawned", "shutdown"} => att'[j][b] = att[j][b]
               /\ att'[j][b] = "none" => att[j][b] = "none"
               /\ InFlight(j, b)' => InFlight(j, b) /\ on[j][b] # c
               /\ att'[j][b] = "shutdown" => att[j][b] = "shutdown" \/ on[j][b] = c
               /\ ~closeCalled => (att'[j][b] \in {"none", "spawned", "pending", "shutdown"}
                                     => att'[j][b] = att[j][b])
    BY <1>2 DEF InFlight, Quiet
  <1>6. Dialled' /\ Private' /\ NoConnLeak'
    BY <1>0, <1>5 DEF Dialled, Private, Holding, NoConnLeak
  <1>7. Progress'
    BY <1>0, <1>5 DEF Progress, Reconnecting, Attempts
  <1>8. ShutdownIsDeath'
    <2>1. \A j \in Callers, b \in Attempts : att[j][b] # "none" => on[j][b] \in Conns
      BY DEF Dialled, TypeOK
    <2> QED BY <1>0, <1>1, <1>5, <2>1 DEF ShutdownIsDeath, Dead
  <1>9. Quiet'
    <2>1. \A j \in Callers, b \in Attempts : InFlight(j, b) => on[j][b] \in Conns
      BY DEF Dialled, TypeOK, InFlight
    <2>2. \A j \in Callers, b \in Attempts : InFlight(j, b)' =>
            /\ InFlight(j, b) /\ input'[on[j][b]] = input[on[j][b]]
      BY <1>1, <1>5, <2>1
    <2> QED BY <1>0, <2>2 DEF Quiet
  <1>10. Once'
    <2>1. ~closeCalled => \A j \in Callers : Unsent(j)' => Unsent(j)
      BY <1>5 DEF Unsent, Attempts
    <2> QED BY <1>0, <2>1 DEF Once
  <1> QED BY <1>4, <1>6, <1>7, <1>8, <1>9, <1>10

(* The plugin closes a connection.                                         *)
LEMMA PeerClosesStep ==
  ASSUME IInv, NEW c \in Conns, PeerCloses(c)
  PROVE  IInv'
  <1> USE DEF IInv, Safe, PeerCloses
  <1>1. TypeOK'
    BY DEF TypeOK
  <1>2. Dialled' /\ Progress' /\ ShutdownIsDeath' /\ Private'
    BY DEF Dialled, Progress, Reconnecting, ShutdownIsDeath, Dead, Private, Holding
  <1>3. Quiet' /\ Once' /\ NoConnLeak'
    BY DEF Quiet, InFlight, Once, Unsent, NoConnLeak
  <1> QED BY <1>1, <1>2, <1>3

-----------------------------------------------------------------------------
(* The client DialRPCPlugin returns satisfies the invariant.               *)
LEMMA InitInv == Init => IInv
  <1> SUFFICES ASSUME Init PROVE IInv
    OBVIOUS
  <1> USE DEF Init
  <1>1. TypeOK
    <2>1. client \in Conns /\ dialled \in Conns
      BY RpcAssumption DEF Conns
    <2>2. "idle" \in PCs /\ "none" \in AttStates
      BY DEF PCs, AttStates
    <2> QED BY <2>1, <2>2 DEF TypeOK
  <1>2. Dialled /\ Progress /\ ShutdownIsDeath /\ Private /\ Quiet /\ Once
    BY DEF Dialled, Progress, Reconnecting, ShutdownIsDeath, Private, Holding, Quiet,
           InFlight, Once, Unsent, NoConn, Attempts
  <1>3. NoConnLeak
    BY DEF NoConnLeak
  <1> QED BY <1>1, <1>2, <1>3 DEF IInv, Safe

(* Every step of callers, net/rpc, plugin and Close keeps it.              *)
LEMMA StepInv == IInv /\ [Next]_vars => IInv'
  <1> SUFFICES ASSUME IInv, [Next]_vars PROVE IInv'
    OBVIOUS
  <1>1. CASE Close
    BY <1>1, CloseStep
  <1>2. ASSUME NEW k \in Callers, CallerStep(k) PROVE IInv'
    BY <1>2, GetClientStep, CtxDoneStep, ReconnectCheckStep, DialStep, DialFailsStep,
       SwapStep, SwapLostStep, DiscardStep, CallOnReturnsStep, SendStep, ExecuteStep,
       AnswerStep DEF CallerStep
  <1>3. ASSUME NEW c \in Conns, ConnStep(c) PROVE IInv'
    BY <1>3, InputFailsStep, InputStopsStep, PeerClosesStep DEF ConnStep
  <1>4. CASE UNCHANGED vars
    BY <1>4 DEF vars, IInv, Safe, TypeOK, Dialled, Progress, Reconnecting,
       ShutdownIsDeath, Dead, Private, Holding, Quiet, InFlight, Once, Unsent, NoConnLeak
  <1> QED BY <1>1, <1>2, <1>3, <1>4 DEF Next

(* The inductive invariant holds throughout.                               *)
THEOREM Invariance == Spec => []IInv
  BY InitInv, StepInv, PTL DEF Spec

(* Type correctness of the client's state.                                 *)
THEOREM TypeCorrect == Spec => []TypeOK
  <1>1. IInv => TypeOK
    BY DEF IInv
  <1> QED BY <1>1, Invariance, PTL

(* However many callers reconnect at once, no connection is left open      *)
(* without an owner (reconnect).                                           *)
THEOREM NoLeak == Spec => []NoConnLeak
  <1>1. IInv => NoConnLeak
    BY DEF IInv, Safe
  <1> QED BY <1>1, Invariance, PTL

(* Until Close is called, the retry in call never makes the plugin run a   *)
(* request a second time.                                                  *)
THEOREM AtMostOnce == Spec => []NoDoubleExecution
  <1>1. IInv => NoDoubleExecution
    BY DEF IInv, Safe, Once, NoDoubleExecution
  <1> QED BY <1>1, Invariance, PTL

(* reconnect replaces only a dead client, and by a newer one.              *)
THEOREM ReplaceOnlyDead == Spec => OnlyDeadReplaced
  <1>1. IInv /\ [Next]_vars =>
          [client' # client => Dead(client) /\ client' > client]_vars
    <2> SUFFICES ASSUME IInv, Next, client' # client
                 PROVE  Dead(client) /\ client' > client
      BY DEF vars
    <2>1. PICK k \in Callers : Swap(k)
      BY DEF Next, CallerStep, ConnStep, Close, GetClient, CtxDone, ReconnectCheck,
         Dial, DialFails, SwapLost, Discard, CallOnReturns, Send, Execute, Answer,
         InputFails, InputStops, PeerCloses
    <2> QED
      BY <2>1 DEF IInv, Safe, Swap, Progress, Reconnecting, ShutdownIsDeath, Private,
         Holding, Attempts
  <1> QED BY <1>1, Invariance, PTL DEF Spec, OnlyDeadReplaced
=============================================================================
