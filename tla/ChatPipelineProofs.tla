-------------------------- MODULE ChatPipelineProofs --------------------------
(***************************************************************************)
(* Proofs about one chat request, for every configuration of the pipeline, *)
(* every answer of the router and every behaviour of the plugins.          *)
(***************************************************************************)
EXTENDS ChatPipeline, SequenceTheorems, TLAPS

-----------------------------------------------------------------------------
(***************************************************************************)
(* The inductive invariant.                                                *)
(***************************************************************************)
Terminals == {"request.completed", "request.failed"}
Checks    == {"authn", "authz", "limit"}
Admitting == {"start", "authn", "authz", "prompt", "cache", "limit", "route"}
Succeeded == {"streaming", "store", "commit", "observe"}

EventNames == Terminals \cup {"request.started", "cache.hit", "route.selected", "upstream.error"}

(* A log without a terminal event, and one that e ends.                    *)
Quiet(s)       == \A i \in 1 .. Len(s) : s[i] \notin Terminals
EndsWith(s, e) == /\ Len(s) > 0 /\ s[Len(s)] = e
                  /\ \A i \in 1 .. Len(s) - 1 : s[i] \notin Terminals

Logs == events \in Seq(EventNames) /\ tried \in Seq(Nat \X Outcomes)

(* Which checks are behind a request, by the stage that comes next, and    *)
(* what has not happened before there are routes.                          *)
Admission ==
  /\ pc \in {"start", "authn"} => passed = {}
  /\ pc = "authz" => passed = {"authn"}
  /\ pc \in {"prompt", "cache", "limit"} => passed = {"authn", "authz"}
  /\ pc = "route" => passed = Checks
  /\ pc \in Admitting => routes = <<>>
  /\ pc \notin Admitting \cup {"done"} => routes # <<>>
  /\ routes # <<>> => passed = Checks
  /\ cacheHdr = "HIT" => pc = "done" /\ routes = <<>>
  /\ routes = <<>> => tried = <<>> /\ route = 0 /\ fallback = -1

(* The fallback loop: what was tried before the route that comes next.     *)
Attempts ==
  /\ FallbackDiscipline
  /\ tried # <<>> => fallback = tried[Len(tried)][1]
  /\ pc = "attempt" =>
       /\ \A n \in 1 .. Len(tried) : tried[n][1] < route /\ tried[n][2] = "retryable"
       /\ \A r \in 0 .. route - 1 :
            routes[r + 1] \in cfg.upstreams => \E m \in 1 .. Len(tried) : tried[m][1] = r
  /\ pc = "giveup" => ~TriedOK
  /\ pc \in Succeeded =>
       /\ tried # <<>> /\ tried[Len(tried)] = <<route, "ok">>
       /\ stream <=> pc = "streaming"

(* What has been emitted, committed and answered, by the stage.            *)
Settlement ==
  /\ pc # "done" => status = 0
  /\ pc \notin {"observe", "done"} => Quiet(events) /\ commits = 0
  /\ pc = "observe" =>
       /\ EndsWith(events, "request.completed")
       /\ cfg.limiter => commits = 1
  /\ pc = "done" =>
       /\ \/ Quiet(events) /\ (stream \/ routes = <<>>)
          \/ EndsWith(events, "request.completed") /\ TriedOK
          \/ EndsWith(events, "request.failed")
       /\ ~stream => /\ commits > 0 => TriedOK
                     /\ TriedOK /\ cfg.limiter => commits = 1
       /\ status = 200 /\ cacheHdr # "HIT" =>
            /\ tried # <<>>
            /\ ~stream => tried[Len(tried)][2] = "ok"

(* The properties of a request name nothing of its payload.                *)
PropertyNames == {"team", "requested_model", "prompt_messages"}
Frugal == props \subseteq PropertyNames /\ LeastData

Control == TypeOK /\ Logs /\ Admission /\ Attempts /\ Settlement
IInv    == Control /\ Frugal

-----------------------------------------------------------------------------
(***************************************************************************)
(* Logs, routes and attempts.                                              *)
(***************************************************************************)

(* A quiet log goes on being quiet, or ends, with what is added to it.     *)
LEMMA LogGrows ==
  ASSUME NEW s \in Seq(EventNames), NEW t \in Seq(EventNames), Quiet(s)
  PROVE  /\ s \o t \in Seq(EventNames)
         /\ Quiet(t) => Quiet(s \o t)
         /\ \A e : EndsWith(t, e) => EndsWith(s \o t, e)
  <1> DEFINE u == s \o t
  <1>1. /\ u \in Seq(EventNames) /\ Len(u) = Len(s) + Len(t)
        /\ \A i \in 1 .. Len(s) + Len(t) : u[i] = IF i <= Len(s) THEN s[i] ELSE t[i - Len(s)]
        /\ Len(s) \in Nat /\ Len(t) \in Nat
    BY ConcatProperties, LenProperties
  <1> HIDE DEF u
  <1>2. \A i \in 1 .. Len(u) : \/ (i \in 1 .. Len(s) /\ u[i] = s[i])
                               \/ (i - Len(s) \in 1 .. Len(t) /\ u[i] = t[i - Len(s)])
    BY <1>1
  <1>3. Quiet(t) => Quiet(u)
    BY <1>2 DEF Quiet
  <1>4. ASSUME NEW e, EndsWith(t, e) PROVE EndsWith(u, e)
    <2>1. Len(u) > 0 /\ Len(u) - Len(s) = Len(t) /\ ~(Len(u) <= Len(s))
      BY <1>1, <1>4 DEF EndsWith
    <2>2. u[Len(u)] = e
      BY <1>1, <1>4, <2>1 DEF EndsWith
    <2>3. ASSUME NEW i \in 1 .. Len(u) - 1 PROVE u[i] \notin Terminals
      <3>1. CASE i <= Len(s)
        <4>1. i \in 1 .. Len(s) /\ u[i] = s[i]
          BY <1>1, <3>1
        <4> QED BY <4>1 DEF Quiet
      <3>2. CASE ~(i <= Len(s))
        <4>1. i - Len(s) \in 1 .. Len(t) - 1 /\ u[i] = t[i - Len(s)]
          BY <1>1, <3>2
        <4> QED BY <1>4, <4>1 DEF EndsWith
      <3> QED BY <3>1, <3>2
    <2> QED BY <2>1, <2>2, <2>3 DEF EndsWith
  <1> QED BY <1>1, <1>3, <1>4 DEF u

(* The log of one event, which is what most steps add.                     *)
LEMMA OneEvent ==
  ASSUME NEW e \in EventNames
  PROVE  /\ <<e>> \in Seq(EventNames)
         /\ e \notin Terminals => Quiet(<<e>>)
         /\ EndsWith(<<e>>, e)
  <1> DEFINE s == <<e>>
  <1>1. Len(s) = 1 /\ s[1] = e /\ s \in Seq(EventNames)
    OBVIOUS
  <1> HIDE DEF s
  <1>2. \A i \in 1 .. Len(s) : i = 1
    BY <1>1
  <1>3. 1 .. Len(s) - 1 = {}
    BY <1>1
  <1>4. EndsWith(s, e)
    BY <1>1, <1>3 DEF EndsWith
  <1>5. e \notin Terminals => Quiet(s)
    BY <1>1, <1>2 DEF Quiet
  <1> QED BY <1>1, <1>4, <1>5 DEF s

(* A log that has ended has one terminal event, its last.                  *)
LEMMA EndedLog ==
  ASSUME NEW s \in Seq(EventNames), NEW e \in Terminals, EndsWith(s, e)
  PROVE  /\ {i \in 1 .. Len(s) : s[i] \in Terminals} = {Len(s)}
         /\ \A i \in 1 .. Len(s) : s[i] \in Terminals => s[i] = e
  <1>1. Len(s) \in Nat \ {0} /\ Len(s) \in 1 .. Len(s) /\ s[Len(s)] = e
    BY LenProperties DEF EndsWith
  <1>2. \A i \in 1 .. Len(s) : i = Len(s) \/ i \in 1 .. Len(s) - 1
    BY <1>1
  <1> QED BY <1>1, <1>2 DEF EndsWith

(* The routes of a request.                                                *)
LEMMA RoutesAreSeqs ==
  ASSUME TypeOK
  PROVE  /\ routes \in Seq(STRING) /\ Len(routes) \in Nat
         /\ routes # <<>> => Len(routes) > 0
         /\ routes = <<>> => Len(routes) = 0
  <1>1. routes \in Routings \cup {<<>>}
    BY DEF TypeOK
  <1>2. routes \in Seq(STRING)
    BY <1>1, PipelineAssumption, EmptySeq
  <1> QED BY <1>2, EmptySeq, LenProperties

(* max_attempts and the number of routes both bound the loop.              *)
LEMMA LimitBounds ==
  ASSUME TypeOK
  PROVE  /\ Limit \in Int /\ Limit <= Len(routes)
         /\ cfg.maxAttempts \in Int
         /\ cfg.maxAttempts > 0 => Limit <= cfg.maxAttempts
  <1>1. cfg.maxAttempts \in Int /\ Len(routes) \in Nat
    BY RoutesAreSeqs, PipelineAssumption DEF TypeOK, ConfigType
  <1> QED BY <1>1 DEF Limit

(* One attempt more, at the route that comes next.                         *)
LEMMA AppendAttempt ==
  ASSUME NEW o \in Outcomes, tried \in Seq(Nat \X Outcomes), route \in Nat,
         tried' = Append(tried, <<route, o>>)
  PROVE  /\ tried' \in Seq(Nat \X Outcomes) /\ tried' # <<>>
         /\ Len(tried) \in Nat /\ Len(tried') = Len(tried) + 1
         /\ \A n \in 1 .. Len(tried) : tried'[n] = tried[n]
         /\ tried'[Len(tried)+1] = <<route, o>>
         /\ \A n \in 1 .. Len(tried') : n \in 1 .. Len(tried) \/ n = Len(tried) + 1
  <1>1. <<route, o>> \in Nat \X Outcomes
    OBVIOUS
  <1>2. Len(tried) \in Nat
    BY LenProperties
  <1>3. /\ tried' \in Seq(Nat \X Outcomes) /\ tried' # <<>> /\ Len(tried') = Len(tried) + 1
        /\ \A n \in 1 .. Len(tried) : tried'[n] = tried[n]
        /\ tried'[Len(tried)+1] = <<route, o>>
    BY <1>1, AppendProperties
  <1> QED BY <1>2, <1>3

-----------------------------------------------------------------------------
(***************************************************************************)
(* The steps of the admission.                                             *)
(***************************************************************************)
Admits ==
  \/ Start \/ Authenticate \/ Authorize \/ ResolvePrompt \/ Lookup \/ CheckLimit \/ SelectRoutes

(* The checks that a request must have behind it at a stage.               *)
Before(stage) ==
  CASE stage \in {"start", "authn"} -> {}
    [] stage = "authz" -> {"authn"}
    [] stage \in {"prompt", "cache", "limit"} -> {"authn", "authz"}
    [] OTHER -> Checks

Codes == {200, 400, 401, 403, 404, 429, 500, 503}

(* What an admission step comes to: the request is answered, goes on to    *)
(* the next stage, or has its routes.                                      *)
AdmissionResult ==
  /\ pc \in Admitting
  /\ UNCHANGED <<cfg, stream, route, tried, fallback, commits, audited>>
  /\ \/ events' = events
     \/ \E e \in {"request.started", "cache.hit", "route.selected"} : events' = events \o <<e>>
  /\ cacheHdr' \in {"BYPASS", "HIT", "MISS"} /\ passed' \subseteq Checks
  /\ \/ /\ pc' = "done" /\ routes' = routes /\ status' \in Codes
        /\ status' = 200 => cacheHdr' = "HIT"
     \/ /\ pc' \in Admitting /\ UNCHANGED <<routes, status>>
        /\ cacheHdr' # "HIT" /\ passed' = Before(pc')
     \/ /\ pc' = "attempt" /\ routes' \in Routings /\ status' = status
        /\ cacheHdr' # "HIT" /\ passed' = Checks

(* Every step of Pipeline.prepare, from request.started to the routing,    *)
(* has one of these results.                                               *)
LEMMA AdmissionSteps ==
  ASSUME TypeOK, Admission, Admits
  PROVE  AdmissionResult
  <1> USE DEF request, admission, routing, settling, log, Emit, GoTo, Answer, Before, Admitting,
              Checks, Codes, AdmissionResult
  <1>0. cacheHdr \in {"BYPASS", "HIT", "MISS"} /\ passed \subseteq Checks
    BY DEF TypeOK
  <1>1. CASE Start
    BY <1>0, <1>1 DEF Start, Admission
  <1>2. CASE Authenticate
    BY <1>0, <1>2 DEF Authenticate, Admission
  <1>3. CASE Authorize
    BY <1>0, <1>3 DEF Authorize, Admission
  <1>4. CASE ResolvePrompt
    BY <1>0, <1>4 DEF ResolvePrompt, Admission
  <1>5. CASE Lookup
    BY <1>0, <1>5 DEF Lookup, Admission
  <1>6. CASE CheckLimit
    BY <1>0, <1>6 DEF CheckLimit, Admission
  <1>7. CASE SelectRoutes
    BY <1>0, <1>7 DEF SelectRoutes, Admission
  <1> QED BY <1>1, <1>2, <1>3, <1>4, <1>5, <1>6, <1>7 DEF Admits

(* An admission step keeps everything: until there are routes nothing has  *)
(* been tried, and a request that is answered was not settled.             *)
LEMMA AdmissionKeeps ==
  ASSUME Control, AdmissionResult
  PROVE  Control'
  <1> USE DEF Control
  <1>1. /\ pc \in Admitting /\ routes = <<>> /\ tried = <<>> /\ route = 0 /\ fallback = -1
        /\ commits = 0 /\ status = 0 /\ Quiet(events) /\ events \in Seq(EventNames)
        /\ UNCHANGED <<cfg, stream, route, tried, fallback, commits, audited>>
    BY DEF AdmissionResult, Admission, Settlement, Logs, Admitting
  <1>2. events' \in Seq(EventNames) /\ Quiet(events')
    <2>1. CASE events' = events
      BY <1>1, <2>1
    <2>2. ASSUME NEW e \in {"request.started", "cache.hit", "route.selected"},
                 events' = events \o <<e>>
          PROVE  events' \in Seq(EventNames) /\ Quiet(events')
      <3>1. e \in EventNames /\ e \notin Terminals
        BY DEF EventNames, Terminals
      <3> QED BY <1>1, <2>2, <3>1, OneEvent, LogGrows
    <2> QED BY <2>1, <2>2 DEF AdmissionResult
  <1>3. Len(tried) = 0 /\ 1 .. Len(tried) = {} /\ Len(routes) = 0
    BY <1>1, EmptySeq
  <1>4. ~TriedOK' /\ FallbackDiscipline'
    BY <1>1, <1>3 DEF TriedOK, FallbackDiscipline
  <1>5. CASE /\ pc' = "done" /\ routes' = routes /\ status' \in Codes
             /\ status' = 200 => cacheHdr' = "HIT"
    <2>1. TypeOK'
      BY <1>1, <1>3, <1>5 DEF AdmissionResult, TypeOK, Codes, Checks
    <2>2. Admission'
      BY <1>1, <1>5 DEF Admission, Admitting
    <2>3. Attempts'
      BY <1>1, <1>4, <1>5 DEF Attempts, Succeeded
    <2>4. Settlement'
      BY <1>1, <1>2, <1>4, <1>5 DEF Settlement
    <2> QED BY <1>1, <1>2, <2>1, <2>2, <2>3, <2>4 DEF Logs
  <1>6. CASE /\ pc' \in Admitting /\ UNCHANGED <<routes, status>>
             /\ cacheHdr' # "HIT" /\ passed' = Before(pc')
    <2>1. TypeOK'
      BY <1>1, <1>3, <1>6 DEF AdmissionResult, TypeOK, Admitting, Checks
    <2>2. Admission'
      BY <1>1, <1>6 DEF Admission, Admitting, Before
    <2>3. Attempts'
      BY <1>1, <1>4, <1>6 DEF Attempts, Succeeded, Admitting
    <2>4. Settlement'
      BY <1>1, <1>2, <1>6 DEF Settlement, Admitting
    <2> QED BY <1>1, <1>2, <2>1, <2>2, <2>3, <2>4 DEF Logs
  <1>7. CASE /\ pc' = "attempt" /\ routes' \in Routings /\ status' = status
             /\ cacheHdr' # "HIT" /\ passed' = Checks
    <2>0. Len(routes') \in Nat /\ Len(routes') > 0 /\ routes' # <<>>
      <3>1. routes' \in Seq(STRING) /\ Len(routes') > 0
        BY <1>7, PipelineAssumption
      <3> QED BY <3>1, EmptySeq, LenProperties
    <2>1. TypeOK'
      BY <1>1, <1>3, <1>7, <2>0 DEF AdmissionResult, TypeOK, Checks
    <2>2. Admission'
      BY <1>1, <1>7, <2>0 DEF Admission, Admitting
    <2>3. Attempts'
      BY <1>1, <1>3, <1>4, <1>7 DEF Attempts, Succeeded
    <2>4. Settlement'
      BY <1>1, <1>2, <1>7 DEF Settlement
    <2> QED BY <1>1, <1>2, <2>1, <2>2, <2>3, <2>4 DEF Logs
  <1> QED BY <1>5, <1>6, <1>7 DEF AdmissionResult

-----------------------------------------------------------------------------
(***************************************************************************)
(* The steps of the fallback loop.                                         *)
(***************************************************************************)

(* A configured route is tried: the discipline of the loop holds on.       *)
LEMMA AttemptDiscipline ==
  ASSUME Control, pc = "attempt", route < Limit, Configured, NEW o \in Outcomes,
         tried' = Append(tried, <<route, o>>), UNCHANGED <<cfg, routes>>
  PROVE  /\ FallbackDiscipline' /\ tried' \in Seq(Nat \X Outcomes) /\ tried' # <<>>
         /\ tried'[Len(tried')] = <<route, o>>
         /\ \A n \in 1 .. Len(tried') : tried'[n] \in (0 .. Len(routes) - 1) \X Outcomes
         /\ \A n \in 1 .. Len(tried') :
              n = Len(tried') \/ (tried'[n][1] < route /\ tried'[n][2] = "retryable")
         /\ \A r \in 0 .. route : routes[r + 1] \in cfg.upstreams =>
              \E m \in 1 .. Len(tried') : tried'[m][1] = r
  <1> DEFINE L == Len(tried)
  <1>1. /\ route \in Nat /\ tried \in Seq(Nat \X Outcomes) /\ Len(routes) \in Nat
        /\ route < Len(routes) /\ (cfg.maxAttempts > 0 => route < cfg.maxAttempts)
    BY RoutesAreSeqs, LimitBounds DEF Control, TypeOK, Logs
  <1>2. /\ tried' \in Seq(Nat \X Outcomes) /\ tried' # <<>> /\ L \in Nat /\ Len(tried') = L + 1
        /\ \A n \in 1 .. L : tried'[n] = tried[n]
        /\ tried'[L + 1] = <<route, o>>
        /\ \A n \in 1 .. Len(tried') : n \in 1 .. L \/ n = L + 1
    BY <1>1, AppendAttempt
  <1>3. /\ FallbackDiscipline
        /\ \A n \in 1 .. L : tried[n][1] < route /\ tried[n][2] = "retryable"
        /\ \A r \in 0 .. route - 1 :
             routes[r + 1] \in cfg.upstreams => \E m \in 1 .. L : tried[m][1] = r
        /\ \A n \in 1 .. L : tried[n] \in (0 .. Len(routes) - 1) \X Outcomes
    BY DEF Control, Attempts, TypeOK
  <1>4. <<route, o>>[1] = route /\ <<route, o>> \in (0 .. Len(routes) - 1) \X Outcomes
    BY <1>1
  <1> HIDE DEF L
  <1>5. \A r \in 0 .. route : routes[r + 1] \in cfg.upstreams =>
          \E m \in 1 .. L + 1 : tried'[m][1] = r
    <2> SUFFICES ASSUME NEW r \in 0 .. route, routes[r + 1] \in cfg.upstreams
                 PROVE  \E m \in 1 .. L + 1 : tried'[m][1] = r
      OBVIOUS
    <2>1. CASE r = route
      BY <1>2, <1>4, <2>1
    <2>2. CASE r # route
      <3>1. r \in 0 .. route - 1
        BY <1>1, <2>2
      <3>2. PICK m \in 1 .. L : tried[m][1] = r
        BY <1>3, <3>1
      <3> QED BY <1>2, <3>2
    <2> QED BY <2>1, <2>2
  <1>6. \A m, n \in 1 .. L + 1 : m < n => tried'[m][1] < tried'[n][1]
    <2> SUFFICES ASSUME NEW m \in 1 .. L + 1, NEW n \in 1 .. L + 1, m < n
                 PROVE  tried'[m][1] < tried'[n][1]
      OBVIOUS
    <2>1. m \in 1 .. L /\ tried'[m] = tried[m]
      BY <1>2
    <2>2. CASE n = L + 1
      BY <1>2, <1>3, <1>4, <2>1, <2>2
    <2>3. CASE n \in 1 .. L
      BY <1>2, <1>3, <2>1, <2>3 DEF FallbackDiscipline, L
    <2> QED BY <1>2, <2>2, <2>3
  <1>7. ASSUME NEW n \in 1 .. L + 1
        PROVE  /\ cfg.maxAttempts > 0 => tried'[n][1] < cfg.maxAttempts
               /\ n < L + 1 => tried'[n][2] = "retryable"
               /\ \A r \in 0 .. tried'[n][1] :
                    routes[r + 1] \in cfg.upstreams => \E m \in 1 .. n : tried'[m][1] = r
    <2> DEFINE Covers(k, s) ==
                 \A r \in 0 .. k : routes[r + 1] \in cfg.upstreams => \E m \in 1 .. n : s[m][1] = r
    <2>1. CASE n = L + 1
      <3>1. tried'[n][1] = route /\ ~(n < L + 1)
        BY <1>2, <1>4, <2>1
      <3>2. Covers(route, tried')
        BY <1>5, <2>1
      <3>3. Covers(tried'[n][1], tried')
        BY <3>1, <3>2
      <3> QED BY <1>1, <3>1, <3>3
    <2>2. CASE n \in 1 .. L
      <3>1. /\ tried'[n] = tried[n]
            /\ cfg.maxAttempts > 0 => tried[n][1] < cfg.maxAttempts
            /\ \A r \in 0 .. tried[n][1] :
                 routes[r + 1] \in cfg.upstreams => \E m \in 1 .. n : tried[m][1] = r
        BY <1>2, <1>3, <2>2 DEF FallbackDiscipline, L
      <3>2. \A m \in 1 .. n : tried'[m] = tried[m]
        BY <1>2, <2>2
      <3>3. Covers(tried[n][1], tried')
        BY <3>1, <3>2
      <3>4. Covers(tried'[n][1], tried')
        BY <3>1, <3>3
      <3>5. tried'[n][2] = "retryable"
        BY <1>3, <2>2, <3>1
      <3>6. cfg.maxAttempts > 0 => tried'[n][1] < cfg.maxAttempts
        BY <3>1
      <3> QED BY <3>4, <3>5, <3>6
    <2> QED BY <1>2, <2>1, <2>2
  <1>8. FallbackDiscipline'
    BY <1>2, <1>6, <1>7 DEF FallbackDiscipline
  <1>9. \A n \in 1 .. Len(tried') : tried'[n] \in (0 .. Len(routes) - 1) \X Outcomes
    BY <1>2, <1>3, <1>4
  <1>10. \A n \in 1 .. Len(tried') :
           n = Len(tried') \/ (tried'[n][1] < route /\ tried'[n][2] = "retryable")
    BY <1>2, <1>3
  <1> QED BY <1>2, <1>5, <1>8, <1>9, <1>10

(* What is left alone while routes are tried, or after that.               *)
LEMMA AdmissionKept ==
  ASSUME Admission, UNCHANGED <<passed, cacheHdr, routes>>, routes # <<>>,
         pc \notin Admitting, pc' \notin Admitting
  PROVE  Admission'
  BY DEF Admission, Admitting

(* A provider fails: the next route, or none if the error is final.        *)
LEMMA FailureKeeps ==
  ASSUME Control, InvokeFails \/ CollectFails
  PROVE  Control'
  <1>1. /\ pc = "attempt" /\ route < Limit /\ Configured
        /\ UNCHANGED <<cfg, stream, passed, cacheHdr, routes, commits, audited, status>>
        /\ fallback' = route /\ route' = route + 1 /\ events' = events \o <<"upstream.error">>
    BY DEF InvokeFails, CollectFails, Failed, Emit, GoTo, request, admission, settling
  <1>2. PICK o \in {"retryable", "fatal"} : /\ tried' = Append(tried, <<route, o>>)
                                            /\ pc' = IF o = "retryable" THEN "attempt" ELSE "giveup"
    <2>1. PICK e \in Errors : Failed(e)
      BY DEF InvokeFails, CollectFails
    <2>2. CASE Retryable(e)
      BY <2>1, <2>2 DEF Failed, GoTo
    <2>3. CASE ~Retryable(e)
      BY <2>1, <2>3 DEF Failed, GoTo
    <2> QED BY <2>2, <2>3
  <1>3. o \in Outcomes
    BY DEF Outcomes
  <1>4. /\ route \in Nat /\ Len(routes) \in Nat /\ route < Len(routes) /\ routes # <<>>
        /\ commits = 0 /\ status = 0 /\ Quiet(events) /\ events \in Seq(EventNames)
    <2>1. Limit \in Int /\ Limit <= Len(routes) /\ Len(routes) \in Nat
      BY LimitBounds, RoutesAreSeqs DEF Control
    <2>2. route \in Nat
      BY <2>1 DEF Control, TypeOK
    <2> QED BY <1>1, <2>1, <2>2 DEF Control, Admission, Settlement, Logs, Admitting
  <1>5. /\ FallbackDiscipline' /\ tried' \in Seq(Nat \X Outcomes) /\ tried' # <<>>
        /\ tried'[Len(tried')] = <<route, o>>
        /\ \A n \in 1 .. Len(tried') : tried'[n] \in (0 .. Len(routes) - 1) \X Outcomes
        /\ \A n \in 1 .. Len(tried') :
             n = Len(tried') \/ (tried'[n][1] < route /\ tried'[n][2] = "retryable")
        /\ \A r \in 0 .. route : routes[r + 1] \in cfg.upstreams =>
             \E m \in 1 .. Len(tried') : tried'[m][1] = r
    BY <1>1, <1>2, <1>3, AttemptDiscipline
  <1>6. <<route, o>>[1] = route /\ <<route, o>>[2] = o
    OBVIOUS
  <1>7. events' \in Seq(EventNames) /\ Quiet(events')
    <2>1. "upstream.error" \in EventNames /\ "upstream.error" \notin Terminals
      BY DEF EventNames, Terminals
    <2> QED BY <1>1, <1>4, <2>1, OneEvent, LogGrows
  <1>8. TypeOK'
    <2>1. pc' \in {"attempt", "giveup"} /\ route' \in 0 .. Len(routes)
          /\ fallback' \in -1 .. Len(routes) - 1
      BY <1>1, <1>2, <1>4
    <2> QED BY <1>1, <1>5, <2>1 DEF Control, TypeOK
  <1>9. Logs' /\ Admission'
    BY <1>1, <1>2, <1>4, <1>5, <1>7, AdmissionKept DEF Control, Logs, Admitting
  <1>10. Attempts'
    <2>1. /\ pc' = "attempt" => o = "retryable"
          /\ pc' = "giveup" => o = "fatal"
          /\ pc' \in {"attempt", "giveup"} /\ pc' \notin Succeeded
      BY <1>2 DEF Succeeded
    <2>2. fallback' = tried'[Len(tried')][1]
      BY <1>1, <1>5, <1>6
    <2>3. \A n \in 1 .. Len(tried') : tried'[n][1] < route + 1 /\ tried'[n][2] \in {"retryable", o}
      BY <1>4, <1>5, <1>6
    <2>4. 0 .. (route + 1) - 1 = 0 .. route
      BY <1>4
    <2>5. pc' = "giveup" => ~TriedOK'
      BY <2>1, <2>3 DEF TriedOK
    <2>6. pc' = "attempt" =>
            /\ \A n \in 1 .. Len(tried') : tried'[n][1] < route' /\ tried'[n][2] = "retryable"
            /\ \A r \in 0 .. route' - 1 :
                 routes[r + 1] \in cfg.upstreams => \E m \in 1 .. Len(tried') : tried'[m][1] = r
      BY <1>1, <1>5, <2>1, <2>3, <2>4
    <2> QED BY <1>1, <1>5, <2>1, <2>2, <2>5, <2>6 DEF Attempts
  <1>11. Settlement'
    BY <1>1, <1>2, <1>4, <1>7 DEF Settlement
  <1> QED BY <1>8, <1>9, <1>10, <1>11 DEF Control

(* A provider has answered: its route is the one that serves.              *)
LEMMA SuccessKeeps ==
  ASSUME Control, AttemptSucceeds
  PROVE  Control'
  <1>1. /\ pc = "attempt" /\ route < Limit /\ Configured
        /\ UNCHANGED <<cfg, stream, passed, cacheHdr, routes, route, commits, audited, events, status>>
        /\ fallback' = route /\ pc' = IF stream THEN "streaming" ELSE "store"
        /\ tried' = Append(tried, <<route, "ok">>)
    BY DEF AttemptSucceeds, GoTo, request, admission, settling, log
  <1>2. "ok" \in Outcomes
    BY DEF Outcomes
  <1>3. /\ route \in Nat /\ Len(routes) \in Nat /\ route < Len(routes) /\ routes # <<>>
        /\ commits = 0 /\ status = 0 /\ Quiet(events) /\ stream \in BOOLEAN
    <2>1. Limit \in Int /\ Limit <= Len(routes) /\ Len(routes) \in Nat
      BY LimitBounds, RoutesAreSeqs DEF Control
    <2>2. route \in Nat /\ stream \in BOOLEAN
      BY <2>1 DEF Control, TypeOK
    <2> QED BY <1>1, <2>1, <2>2 DEF Control, Admission, Settlement, Admitting
  <1>4. /\ FallbackDiscipline' /\ tried' \in Seq(Nat \X Outcomes) /\ tried' # <<>>
        /\ tried'[Len(tried')] = <<route, "ok">>
        /\ \A n \in 1 .. Len(tried') : tried'[n] \in (0 .. Len(routes) - 1) \X Outcomes
    BY <1>1, <1>2, AttemptDiscipline
  <1>5. pc' \in {"streaming", "store"} /\ (stream <=> pc' = "streaming")
    BY <1>1, <1>3
  <1>6. TypeOK'
    BY <1>1, <1>3, <1>4, <1>5 DEF Control, TypeOK
  <1>7. Logs' /\ Admission'
    BY <1>1, <1>3, <1>4, <1>5, AdmissionKept DEF Control, Logs, Admitting
  <1>8. Attempts'
    <2>1. <<route, "ok">>[1] = route
      OBVIOUS
    <2> QED BY <1>1, <1>4, <1>5, <2>1 DEF Attempts, Succeeded
  <1>9. Settlement'
    BY <1>1, <1>3, <1>5 DEF Settlement
  <1> QED BY <1>6, <1>7, <1>8, <1>9 DEF Control

(* A provider that is not configured is passed over.                       *)
LEMMA SkipKeeps ==
  ASSUME Control, SkipRoute
  PROVE  Control'
  <1>1. /\ pc = "attempt" /\ pc' = "attempt" /\ route < Limit /\ ~Configured /\ route' = route + 1
        /\ UNCHANGED <<cfg, stream, passed, cacheHdr, routes, tried, fallback, commits, audited,
                       events, status>>
    BY DEF SkipRoute, GoTo, request, admission, settling, log
  <1>2. /\ route \in Nat /\ Len(routes) \in Nat /\ route < Len(routes) /\ routes # <<>>
    <2>1. Limit \in Int /\ Limit <= Len(routes) /\ Len(routes) \in Nat
      BY LimitBounds, RoutesAreSeqs DEF Control
    <2>2. route \in Nat
      BY <2>1 DEF Control, TypeOK
    <2> QED BY <1>1, <2>1, <2>2 DEF Control, Admission, Admitting
  <1>3. TypeOK'
    BY <1>1, <1>2 DEF Control, TypeOK
  <1>4. Logs' /\ Admission'
    BY <1>1, <1>2, AdmissionKept DEF Control, Logs, Admitting
  <1>5. Attempts'
    <2>1. FallbackDiscipline'
      BY <1>1 DEF Control, Attempts, FallbackDiscipline
    <2>2. \A n \in 1 .. Len(tried) : tried[n][1] < route + 1 /\ tried[n][2] = "retryable"
      <3>1. \A n \in 1 .. Len(tried) : tried[n] \in (0 .. Len(routes) - 1) \X Outcomes
        BY DEF Control, TypeOK
      <3>2. \A n \in 1 .. Len(tried) : tried[n][1] \in Int
        BY <1>2, <3>1
      <3> QED BY <1>1, <1>2, <3>2 DEF Control, Attempts
    <2>3. \A r \in 0 .. (route + 1) - 1 :
            routes[r + 1] \in cfg.upstreams => \E m \in 1 .. Len(tried) : tried[m][1] = r
      <3>1. \A r \in 0 .. (route + 1) - 1 : r = route \/ r \in 0 .. route - 1
        BY <1>2
      <3> QED BY <1>1, <3>1 DEF Control, Attempts, Configured
    <2> QED BY <1>1, <2>1, <2>2, <2>3 DEF Control, Attempts, Succeeded
  <1>6. Settlement'
    BY <1>1 DEF Control, Settlement
  <1> QED BY <1>3, <1>4, <1>5, <1>6 DEF Control

(* No route is left: the request has failed, and none has served it.       *)
LEMMA ExhaustedKeeps ==
  ASSUME Control, Exhausted
  PROVE  Control'
  <1>1. /\ pc \in {"attempt", "giveup"} /\ pc' = "done" /\ status' = 503
        /\ UNCHANGED <<cfg, stream, passed, cacheHdr, routes, route, tried, fallback, commits, audited>>
        /\ events' = events \o <<"request.failed">>
    BY DEF Exhausted, Answer, Emit, request, admission, routing, settling
  <1>2. routes # <<>> /\ commits = 0 /\ Quiet(events) /\ events \in Seq(EventNames)
    BY <1>1 DEF Control, Admission, Settlement, Logs, Admitting
  <1>3. ~TriedOK
    BY <1>1 DEF Control, Attempts, TriedOK
  <1>4. events' \in Seq(EventNames) /\ EndsWith(events', "request.failed")
    <2>1. "request.failed" \in EventNames
      BY DEF EventNames, Terminals
    <2> QED BY <1>1, <1>2, <2>1, OneEvent, LogGrows
  <1>5. TypeOK'
    BY <1>1 DEF Control, TypeOK
  <1>6. Logs' /\ Admission'
    BY <1>1, <1>2, <1>4, AdmissionKept DEF Control, Logs, Admitting
  <1>7. Attempts'
    <2>1. FallbackDiscipline'
      BY <1>1 DEF Control, Attempts, FallbackDiscipline
    <2> QED BY <1>1, <2>1 DEF Control, Attempts, Succeeded
  <1>8. Settlement'
    <2>1. ~TriedOK'
      BY <1>1, <1>3 DEF TriedOK
    <2> QED BY <1>1, <1>2, <1>4, <2>1 DEF Settlement
  <1> QED BY <1>5, <1>6, <1>7, <1>8 DEF Control

-----------------------------------------------------------------------------
(***************************************************************************)
(* The steps after an attempt has succeeded.                               *)
(***************************************************************************)

(* Who has a successful attempt behind it.                                 *)
LEMMA HasSucceeded ==
  ASSUME Control, pc \in Succeeded
  PROVE  /\ routes # <<>> /\ tried # <<>> /\ Len(tried) \in Nat \ {0}
         /\ tried[Len(tried)] = <<route, "ok">> /\ TriedOK
         /\ stream <=> pc = "streaming"
  <1>1. /\ tried # <<>> /\ tried[Len(tried)] = <<route, "ok">> /\ (stream <=> pc = "streaming")
        /\ tried \in Seq(Nat \X Outcomes) /\ routes # <<>>
    BY DEF Control, Attempts, Logs, Admission, Admitting, Succeeded
  <1>2. Len(tried) \in Nat \ {0} /\ Len(tried) \in 1 .. Len(tried)
    BY <1>1, EmptySeq
  <1> QED BY <1>1, <1>2 DEF TriedOK

(* afterSuccess, up to the answer, leaves the attempts alone.              *)
LEMMA AfterSuccessKeeps ==
  ASSUME Control, Store \/ Commit \/ Observe
  PROVE  Control'
  <1>1. /\ pc \in {"store", "commit", "observe"}
        /\ UNCHANGED <<cfg, stream, passed, cacheHdr, routes, route, tried, fallback>>
    BY DEF Store, Commit, Observe, request, admission, routing
  <1>2. /\ routes # <<>> /\ tried # <<>> /\ tried[Len(tried)] = <<route, "ok">>
        /\ TriedOK /\ ~stream
    BY <1>1, HasSucceeded DEF Succeeded
  <1>3. pc' \in {"commit", "observe", "done"}
    BY DEF Store, Commit, Observe, GoTo, Answer
  <1>4. Attempts' /\ TriedOK'
    <2>1. FallbackDiscipline' /\ TriedOK'
      BY <1>1, <1>2 DEF Control, Attempts, FallbackDiscipline, TriedOK
    <2> QED BY <1>1, <1>2, <1>3, <2>1 DEF Control, Attempts, Succeeded
  <1>5. Admission'
    BY <1>1, <1>2, <1>3, AdmissionKept DEF Control, Admitting
  <1>6. CASE Store
    <2>1. /\ pc = "store" /\ pc' = "commit" /\ UNCHANGED <<commits, audited, events, status>>
      BY <1>6 DEF Store, GoTo, log
    <2>2. TypeOK' /\ Logs'
      BY <1>1, <2>1 DEF Control, TypeOK, Logs
    <2>3. Settlement'
      BY <2>1 DEF Control, Settlement
    <2> QED BY <1>4, <1>5, <2>2, <2>3 DEF Control
  <1>7. CASE Commit
    <2>1. /\ pc = "commit" /\ pc' = "observe" /\ UNCHANGED <<audited, status>>
          /\ commits' = IF cfg.limiter THEN commits + 1 ELSE commits
          /\ events' = events \o <<"request.completed">>
      BY <1>7 DEF Commit, GoTo, Emit
    <2>2. commits = 0 /\ Quiet(events) /\ events \in Seq(EventNames) /\ status = 0
      BY <2>1 DEF Control, Settlement, Logs
    <2>3. events' \in Seq(EventNames) /\ EndsWith(events', "request.completed")
      <3>1. "request.completed" \in EventNames
        BY DEF EventNames, Terminals
      <3> QED BY <2>1, <2>2, <3>1, OneEvent, LogGrows
    <2>4. commits' \in 0 .. 1 /\ (cfg.limiter => commits' = 1)
      BY <2>1, <2>2
    <2>5. TypeOK' /\ Logs'
      BY <1>1, <2>1, <2>3, <2>4 DEF Control, TypeOK, Logs
    <2>6. Settlement'
      BY <1>1, <2>1, <2>2, <2>3, <2>4 DEF Settlement
    <2> QED BY <1>4, <1>5, <2>5, <2>6 DEF Control
  <1>8. CASE Observe
    <2>1. /\ pc = "observe" /\ UNCHANGED <<commits, events>>
          /\ \/ pc' = "observe" /\ status' = status
             \/ pc' = "done" /\ status' \in {200, 500}
      BY <1>8 DEF Observe, GoTo, Answer, log
    <2>2. audited' \in 0 .. cfg.blocking
      <3>1. audited \in 0 .. cfg.blocking /\ cfg.blocking \in Nat
        BY PipelineAssumption DEF Control, TypeOK, ConfigType
      <3>2. audited' = audited \/ (audited < cfg.blocking /\ audited' = audited + 1)
        BY <1>8 DEF Observe
      <3> QED BY <3>1, <3>2
    <2>3. TypeOK' /\ Logs'
      BY <1>1, <2>1, <2>2 DEF Control, TypeOK, Logs
    <2>4. Settlement'
      <3>1. EndsWith(events, "request.completed") /\ (cfg.limiter => commits = 1) /\ status = 0
        BY <2>1 DEF Control, Settlement
      <3>2. <<route, "ok">>[2] = "ok"
        OBVIOUS
      <3> QED BY <1>1, <1>2, <1>4, <2>1, <3>1, <3>2 DEF Settlement
    <2> QED BY <1>4, <1>5, <2>3, <2>4 DEF Control
  <1> QED BY <1>6, <1>7, <1>8

(* A stream that fails rewrites the outcome of the last attempt: it stays  *)
(* in the discipline.                                                      *)
LEMMA OutcomeChanges ==
  ASSUME Control, pc = "streaming", NEW o \in Outcomes,
         tried' = [tried EXCEPT ![Len(tried)] = <<route, o>>], UNCHANGED <<cfg, routes>>
  PROVE  /\ FallbackDiscipline' /\ tried' \in Seq(Nat \X Outcomes) /\ tried' # <<>>
         /\ tried'[Len(tried')] = <<route, o>>
         /\ \A n \in 1 .. Len(tried') : tried'[n] \in (0 .. Len(routes) - 1) \X Outcomes
  <1> DEFINE L == Len(tried)
  <1>1. /\ tried # <<>> /\ L \in Nat \ {0} /\ tried[L] = <<route, "ok">>
        /\ tried \in Seq(Nat \X Outcomes) /\ FallbackDiscipline
        /\ \A n \in 1 .. L : tried[n] \in (0 .. Len(routes) - 1) \X Outcomes
    BY HasSucceeded DEF Control, Logs, Attempts, TypeOK, Succeeded
  <1>2. L \in 1 .. L /\ <<route, "ok">>[1] = route /\ <<route, o>>[1] = route
    BY <1>1
  <1>3. route \in Nat /\ <<route, o>> \in Nat \X Outcomes
    <2>1. tried[L] \in Nat \X Outcomes
      BY <1>1, <1>2, ElementOfSeq
    <2> QED BY <1>1, <2>1
  <1>4. /\ tried' \in Seq(Nat \X Outcomes) /\ Len(tried') = L
        /\ \A n \in 1 .. L : tried'[n] = IF n = L THEN <<route, o>> ELSE tried[n]
    BY <1>1, <1>2, <1>3, ExceptSeq
  <1>5. ASSUME NEW n \in 1 .. L
        PROVE  tried'[n][1] = tried[n][1] /\ (n < L => tried'[n] = tried[n])
    <2>1. CASE n = L
      <3>1. tried'[n] = <<route, o>> /\ tried[n] = <<route, "ok">> /\ ~(n < L)
        BY <1>1, <1>4, <2>1
      <3> QED BY <1>2, <3>1
    <2>2. CASE n # L
      BY <1>4, <2>2
    <2> QED BY <2>1, <2>2
  <1> HIDE DEF L
  <1>6. FallbackDiscipline'
    <2>1. \A m, n \in 1 .. L : m < n => tried'[m][1] < tried'[n][1]
      BY <1>1, <1>5 DEF FallbackDiscipline, L
    <2>2. ASSUME NEW n \in 1 .. L
          PROVE  /\ cfg.maxAttempts > 0 => tried'[n][1] < cfg.maxAttempts
                 /\ n < L => tried'[n][2] = "retryable"
      BY <1>1, <1>5, <2>2 DEF FallbackDiscipline, L
    <2>3. ASSUME NEW n \in 1 .. L
          PROVE  \A r \in 0 .. tried'[n][1] :
                   routes[r + 1] \in cfg.upstreams => \E m \in 1 .. n : tried'[m][1] = r
      <3>1. \A r \in 0 .. tried[n][1] :
              routes[r + 1] \in cfg.upstreams => \E m \in 1 .. n : tried[m][1] = r
        BY <1>1 DEF FallbackDiscipline, L
      <3>2. \A m \in 1 .. n : m \in 1 .. L
        BY <1>1
      <3>3. tried'[n][1] = tried[n][1] /\ \A m \in 1 .. n : tried'[m][1] = tried[m][1]
        BY <1>5, <3>2
      <3> QED BY <3>1, <3>3
    <2>4. 1 .. Len(tried') = 1 .. L /\ Len(tried') = L /\ cfg' = cfg /\ routes' = routes
      BY <1>4
    <2>5. \A m, n \in 1 .. Len(tried') : m < n => tried'[m][1] < tried'[n][1]
      BY <2>1, <2>4
    <2>6. \A n \in 1 .. Len(tried') :
            /\ cfg'.maxAttempts > 0 => tried'[n][1] < cfg'.maxAttempts
            /\ n < Len(tried') => tried'[n][2] = "retryable"
            /\ \A r \in 0 .. tried'[n][1] :
                 routes'[r + 1] \in cfg'.upstreams => \E m \in 1 .. n : tried'[m][1] = r
      BY <2>2, <2>3, <2>4
    <2> QED BY <2>5, <2>6 DEF FallbackDiscipline
  <1>7. <<route, o>> \in (0 .. Len(routes) - 1) \X Outcomes
    <2>1. <<route, "ok">> \in (0 .. Len(routes) - 1) \X Outcomes
      BY <1>1, <1>2
    <2> QED BY <2>1
  <1>8. \A n \in 1 .. L : tried'[n] \in (0 .. Len(routes) - 1) \X Outcomes
    BY <1>1, <1>4, <1>7 DEF L
  <1>9. tried' # <<>>
    BY <1>1, <1>4, EmptySeq
  <1> QED BY <1>2, <1>4, <1>6, <1>8, <1>9

(* What the goroutine of a stream adds to the log.                         *)
LEMMA StreamLogs ==
  /\ <<"upstream.error", "request.failed">> \in Seq(EventNames)
  /\ EndsWith(<<"upstream.error", "request.failed">>, "request.failed")
  /\ \A n \in 1 .. 2 : /\ [i \in 1 .. n |-> "upstream.error"] \in Seq(EventNames)
                       /\ Quiet([i \in 1 .. n |-> "upstream.error"])
  <1>1. /\ "upstream.error" \in EventNames \ Terminals
        /\ "request.failed" \in EventNames /\ "request.completed" \in EventNames
    BY DEF EventNames, Terminals
  <1> DEFINE a == <<"upstream.error">>
             b == <<"request.failed">>
             c == <<"upstream.error", "request.failed">>
  <1>2. c = a \o b
    OBVIOUS
  <1>a. a \in Seq(EventNames) /\ Quiet(a)
    BY <1>1, OneEvent
  <1>b. b \in Seq(EventNames) /\ EndsWith(b, "request.failed")
    BY <1>1, OneEvent
  <1> HIDE DEF a, b, c
  <1>c. c \in Seq(EventNames) /\ EndsWith(c, "request.failed")
    BY <1>2, <1>a, <1>b, LogGrows
  <1>3. /\ <<"upstream.error", "request.failed">> \in Seq(EventNames)
        /\ EndsWith(<<"upstream.error", "request.failed">>, "request.failed")
    BY <1>c DEF c
  <1>4. ASSUME NEW n \in 1 .. 2
        PROVE  /\ [i \in 1 .. n |-> "upstream.error"] \in Seq(EventNames)
               /\ Quiet([i \in 1 .. n |-> "upstream.error"])
    <2> DEFINE s == [i \in 1 .. n |-> "upstream.error"]
    <2>1. s \in [1 .. n -> EventNames] /\ n \in Nat
      BY <1>1
    <2>2. \A i \in 1 .. n : s[i] = "upstream.error"
      OBVIOUS
    <2>3. DOMAIN s = 1 .. n
      OBVIOUS
    <2> HIDE DEF s
    <2>4. s \in Seq(EventNames)
      BY <2>1, SeqDef
    <2>5. 1 .. Len(s) = 1 .. n
      BY <2>3, <2>4, LenProperties
    <2>6. Quiet(s)
      BY <1>1, <2>2, <2>5 DEF Quiet
    <2> QED BY <2>4, <2>6 DEF s
  <1> QED BY <1>3, <1>4

(* However a stream ends: its log is quiet, or has one terminal event, and *)
(* its attempt is the one that served.                                     *)
LEMMA StreamEndsKeeps ==
  ASSUME Control, StreamEnds
  PROVE  Control'
  <1>1. /\ pc = "streaming" /\ pc' = "done" /\ status' = 200
        /\ UNCHANGED <<cfg, stream, passed, cacheHdr, routes, route, fallback, audited>>
    BY DEF StreamEnds, Answer, request, admission
  <1>2. /\ routes # <<>> /\ tried # <<>> /\ tried[Len(tried)] = <<route, "ok">> /\ TriedOK
        /\ stream = TRUE /\ commits = 0 /\ Quiet(events) /\ events \in Seq(EventNames)
        /\ cacheHdr # "HIT"
    <2>1. stream /\ stream \in BOOLEAN /\ routes # <<>> /\ tried # <<>> /\ TriedOK
          /\ tried[Len(tried)] = <<route, "ok">>
      BY <1>1, HasSucceeded DEF Succeeded, Control, TypeOK
    <2> QED BY <1>1, <2>1 DEF Control, Settlement, Logs, Admission
  <1>3. commits' \in {commits, commits + 1}
    BY DEF StreamEnds, Settle
  <1>4. commits' \in 0 .. 1
    BY <1>2, <1>3
  <1>5. /\ events' \in Seq(EventNames)
        /\ \/ Quiet(events')
           \/ EndsWith(events', "request.completed") /\ tried' = tried
           \/ EndsWith(events', "request.failed")
    <2>1. "request.completed" \in EventNames
      BY DEF EventNames, Terminals
    <2>2. CASE events' = events \o <<"request.completed">> /\ tried' = tried
      BY <1>2, <2>1, <2>2, OneEvent, LogGrows
    <2>3. CASE events' = events \o <<"upstream.error", "request.failed">>
      BY <1>2, <2>3, StreamLogs, LogGrows
    <2>4. ASSUME NEW n \in 1 .. 2, events' = events \o [i \in 1 .. n |-> "upstream.error"]
          PROVE  events' \in Seq(EventNames) /\ Quiet(events')
      BY <1>2, <2>4, StreamLogs, LogGrows
    <2> QED BY <2>2, <2>3, <2>4 DEF StreamEnds, Emit
  <1>6. /\ FallbackDiscipline' /\ tried' \in Seq(Nat \X Outcomes) /\ tried' # <<>>
        /\ tried'[Len(tried')][1] = route
        /\ \A n \in 1 .. Len(tried') : tried'[n] \in (0 .. Len(routes) - 1) \X Outcomes
    <2>1. CASE tried' = tried
      <3>1. FallbackDiscipline'
        BY <1>1, <2>1 DEF Control, Attempts, FallbackDiscipline
      <3>2. <<route, "ok">>[1] = route
        OBVIOUS
      <3> QED BY <1>1, <1>2, <2>1, <3>1, <3>2 DEF Control, Logs, TypeOK
    <2>2. ASSUME NEW o \in {"first chunk failed", "later chunk failed"},
                 tried' = [tried EXCEPT ![Len(tried)] = <<route, o>>]
          PROVE  /\ FallbackDiscipline' /\ tried' \in Seq(Nat \X Outcomes) /\ tried' # <<>>
                 /\ tried'[Len(tried')][1] = route
                 /\ \A n \in 1 .. Len(tried') : tried'[n] \in (0 .. Len(routes) - 1) \X Outcomes
      <3>1. o \in Outcomes /\ <<route, o>>[1] = route
        BY DEF Outcomes
      <3> QED BY <1>1, <2>2, <3>1, OutcomeChanges
    <2> QED BY <2>1, <2>2 DEF StreamEnds
  <1>7. TypeOK'
    BY <1>1, <1>4, <1>6 DEF Control, TypeOK
  <1>8. Logs' /\ Admission'
    BY <1>1, <1>2, <1>5, <1>6, AdmissionKept DEF Logs, Control, Admitting
  <1>9. Attempts'
    <2>1. tried # <<>> => fallback = tried[Len(tried)][1]
      BY DEF Control, Attempts
    <2>2. <<route, "ok">>[1] = route
      OBVIOUS
    <2>3. fallback' = tried'[Len(tried')][1]
      BY <1>1, <1>2, <1>6, <2>1, <2>2
    <2> QED BY <1>1, <1>6, <2>3 DEF Attempts, Succeeded
  <1>10. Settlement'
    <2>1. tried' = tried => TriedOK'
      BY <1>2 DEF TriedOK
    <2> QED BY <1>1, <1>2, <1>5, <1>6, <2>1 DEF Settlement
  <1> QED BY <1>7, <1>8, <1>9, <1>10 DEF Control

-----------------------------------------------------------------------------
(***************************************************************************)
(* Every step.                                                             *)
(***************************************************************************)

(* The first state.                                                        *)
LEMMA ControlInit ==
  ASSUME Init
  PROVE  Control
  <1>1. Len(tried) = 0 /\ Len(routes) = 0 /\ Len(events) = 0
        /\ tried = <<>> /\ routes = <<>> /\ events = <<>>
    BY EmptySeq DEF Init
  <1>2. tried \in Seq(Nat \X Outcomes) /\ events \in Seq(EventNames)
    BY <1>1, EmptySeq
  <1>3. cfg \in Configs /\ cfg.blocking \in Nat
    BY PipelineAssumption DEF Init, ConfigType
  <1>4. TypeOK
    BY <1>1, <1>3 DEF Init, TypeOK
  <1>5. Logs /\ Admission
    BY <1>1, <1>2 DEF Init, Logs, Admission, Admitting
  <1>6. Attempts
    BY <1>1 DEF Init, Attempts, FallbackDiscipline, Succeeded
  <1>7. Settlement
    BY <1>1 DEF Init, Settlement, Quiet
  <1> QED BY <1>4, <1>5, <1>6, <1>7 DEF Control

(* A step that changes nothing.                                            *)
LEMMA ControlStutters ==
  ASSUME Control, UNCHANGED vars
  PROVE  Control'
  <1>1. TypeOK' /\ Logs' /\ Admission'
    BY DEF vars, Control, TypeOK, Logs, Admission, Admitting
  <1>2. Attempts'
    BY DEF vars, Control, Attempts, FallbackDiscipline, TriedOK, Succeeded
  <1>3. Settlement'
    BY DEF vars, Control, Settlement, TriedOK, Quiet, EndsWith
  <1> QED BY <1>1, <1>2, <1>3 DEF Control

(* A step of the request or of a plugin keeps the control part.            *)
LEMMA ControlSteps ==
  ASSUME Control, Next
  PROVE  Control'
  <1>1. CASE Admits
    BY <1>1, AdmissionSteps, AdmissionKeeps DEF Control
  <1>2. CASE SkipRoute
    BY <1>2, SkipKeeps
  <1>3. CASE InvokeFails \/ CollectFails
    BY <1>3, FailureKeeps
  <1>4. CASE AttemptSucceeds
    BY <1>4, SuccessKeeps
  <1>5. CASE Exhausted
    BY <1>5, ExhaustedKeeps
  <1>6. CASE Store \/ Commit \/ Observe
    BY <1>6, AfterSuccessKeeps
  <1>7. CASE StreamEnds
    BY <1>7, StreamEndsKeeps
  <1> QED BY <1>1, <1>2, <1>3, <1>4, <1>5, <1>6, <1>7 DEF Next, Admits

-----------------------------------------------------------------------------
(***************************************************************************)
(* What the plugins are told.                                              *)
(***************************************************************************)

(* What a plugin of kind k, and the observer queue, may carry.             *)
Fits(k, data) ==
  /\ k # "authenticator" => "Authorization" \notin data
  /\ k \in {"authenticator", "authorizer", "rate_limiter", "router"} => data \cap Payload = {}
  /\ k = "cache_provider" => data \cap Payload \subseteq {"response"}
  /\ k = "observer" /\ ~cfg.capture => data \cap Payload = {}
Publishable(data) == "Authorization" \notin data /\ (~cfg.capture => data \cap Payload = {})

(* LeastData, said of each kind of plugin alone.                           *)
LEMMA LeastDataByKind ==
  LeastData <=> (\A k \in DOMAIN told : Fits(k, told[k])) /\ Publishable(published)
  <1>1. ASSUME LeastData, NEW k \in DOMAIN told PROVE Fits(k, told[k])
    BY <1>1 DEF LeastData, Fits, Told
  <1>2. LeastData => Publishable(published)
    BY DEF LeastData, Publishable
  <1>3. ASSUME \A k \in DOMAIN told : Fits(k, told[k]), Publishable(published) PROVE LeastData
    <2>1. \A k \in DOMAIN told \ {"authenticator"} : "Authorization" \notin told[k]
      BY <1>3 DEF Fits
    <2>2. \A k \in {"authenticator", "authorizer", "rate_limiter", "router"} :
            Told(k) \cap Payload = {}
      BY <1>3 DEF Fits, Told
    <2>3. Told("cache_provider") \cap Payload \subseteq {"response"}
      BY <1>3 DEF Fits, Told
    <2>4. ~cfg.capture => Told("observer") \cap Payload = {}
      BY <1>3 DEF Fits, Told
    <2> QED BY <1>3, <2>1, <2>2, <2>3, <2>4 DEF Publishable, LeastData
  <1> QED BY <1>1, <1>2, <1>3

(* What fits may be told: the kinds go on being told what fits them.       *)
LEMMA TellingFits ==
  ASSUME NEW kind, NEW data, Tell(kind, data), Fits(kind, data), cfg' = cfg,
         \A k \in DOMAIN told : Fits(k, told[k])
  PROVE  (\A k \in DOMAIN told : Fits(k, told[k]))'
  <1> SUFFICES ASSUME NEW k \in DOMAIN told' PROVE Fits(k, told'[k])
    BY DEF Fits
  <1>1. k \in DOMAIN told \cup {kind} /\ told'[k] = Told(k) \cup IF k = kind THEN data ELSE {}
    BY DEF Tell
  <1>2. Fits(k, Told(k)) 
    BY DEF Told, Fits
  <1>3. CASE k = kind
    <2>1. told'[k] = Told(k) \cup data /\ Fits(k, data)
      BY <1>1, <1>3
    <2> QED BY <1>2, <2>1 DEF Fits
  <1>4. CASE k # kind
    <2>1. told'[k] = Told(k)
      BY <1>1, <1>4
    <2> QED BY <1>2, <2>1
  <1> QED BY <1>3, <1>4

(* Every call carries what fits the plugin it goes to, as long as the      *)
(* properties are free of the payload.                                     *)
LEMMA CallsFit ==
  ASSUME props \subseteq PropertyNames
  PROVE  /\ Fits("authenticator", AuthenticateRequest)
         /\ Fits("authorizer", AuthorizeRequest)
         /\ Fits("prompt_provider", PromptResolveRequest)
         /\ Fits("cache_provider", CacheLookupRequest)
         /\ Fits("cache_provider", CacheStoreRequest)
         /\ Fits("rate_limiter", RateLimitCheckRequest)
         /\ Fits("rate_limiter", CommitUsageRequest)
         /\ Fits("router", RouteRequest)
         /\ Fits("upstream_provider", InvokeRequest)
         /\ Fits("observer", GatewayEvent(RouteProps))
  <1>1. "Authorization" \notin props /\ props \cap Payload = {}
    BY DEF PropertyNames, Payload
  <1>2. Fits("authenticator", AuthenticateRequest)
    BY DEF Fits, AuthenticateRequest, Headers, Payload
  <1>3. Fits("authorizer", AuthorizeRequest)
    BY <1>1 DEF Fits, AuthorizeRequest, RequestSummary, Payload
  <1>4. Fits("prompt_provider", PromptResolveRequest)
    BY <1>1 DEF Fits, PromptResolveRequest, promptVariables
  <1>5. Fits("cache_provider", CacheLookupRequest)
    BY DEF Fits, CacheLookupRequest, Payload
  <1>6. Fits("cache_provider", CacheStoreRequest)
    BY DEF Fits, CacheStoreRequest, Payload
  <1>7. Fits("rate_limiter", RateLimitCheckRequest)
    BY <1>1 DEF Fits, RateLimitCheckRequest, Payload
  <1>8. Fits("rate_limiter", CommitUsageRequest)
    BY DEF Fits, CommitUsageRequest, Payload
  <1>9. Fits("router", RouteRequest)
    BY <1>1 DEF Fits, RouteRequest, RequestSummary, Payload
  <1>10. Fits("upstream_provider", InvokeRequest)
    BY <1>1 DEF Fits, InvokeRequest, routeEventProps
  <1>11. Fits("observer", GatewayEvent(RouteProps))
    BY <1>1 DEF Fits, GatewayEvent, RouteProps, withTranscriptProps, routeEventProps, Payload
  <1> QED BY <1>2, <1>3, <1>4, <1>5, <1>6, <1>7, <1>8, <1>9, <1>10, <1>11

(* Every event carries what may be published, transcripts only if they are *)
(* captured.                                                               *)
LEMMA EventsFit ==
  ASSUME props \subseteq PropertyNames
  PROVE  /\ Publishable(GatewayEvent(props))
         /\ Publishable(GatewayEvent(routeEventProps(props)))
         /\ Publishable(GatewayEvent(withTranscriptProps(addTiming(props))))
         /\ Publishable(GatewayEvent(RouteProps))
  <1>1. "Authorization" \notin props /\ props \cap Payload = {}
    BY DEF PropertyNames, Payload
  <1>2. Publishable(GatewayEvent(props))
    BY <1>1 DEF Publishable, GatewayEvent, Payload
  <1>3. Publishable(GatewayEvent(routeEventProps(props)))
    BY <1>1 DEF Publishable, GatewayEvent, Payload, routeEventProps
  <1>4. Publishable(GatewayEvent(withTranscriptProps(addTiming(props))))
    BY <1>1 DEF Publishable, GatewayEvent, Payload, addTiming, withTranscriptProps
  <1>5. Publishable(GatewayEvent(RouteProps))
    BY <1>1 DEF Publishable, GatewayEvent, Payload, RouteProps, routeEventProps,
                withTranscriptProps
  <1> QED BY <1>2, <1>3, <1>4, <1>5

(* The calls and the events of all steps.                                  *)
Calls ==
  \/ UNCHANGED told
  \/ Tell("authenticator", AuthenticateRequest)
  \/ Tell("authorizer", AuthorizeRequest)
  \/ Tell("prompt_provider", PromptResolveRequest)
  \/ Tell("cache_provider", CacheLookupRequest)
  \/ Tell("cache_provider", CacheStoreRequest)
  \/ Tell("rate_limiter", RateLimitCheckRequest)
  \/ Tell("rate_limiter", CommitUsageRequest)
  \/ Tell("router", RouteRequest)
  \/ Tell("upstream_provider", InvokeRequest)
  \/ Tell("observer", GatewayEvent(RouteProps))

Publishes ==
  \/ UNCHANGED published
  \/ published' = published \cup GatewayEvent(props)
  \/ published' = published \cup GatewayEvent(routeEventProps(props))
  \/ published' = published \cup GatewayEvent(withTranscriptProps(addTiming(props)))
  \/ published' = published \cup GatewayEvent(RouteProps)

(* A step makes at most one call, publishes at most once, and adds only    *)
(* the prompt's properties.                                                *)
LEMMA StepsCarry ==
  ASSUME Next
  PROVE  /\ cfg' = cfg
         /\ props' = props \/ props' = props \cup {"prompt_messages"}
         /\ Calls /\ Publishes
  <1> USE DEF request, admission, routing, settling, log, Emit, TellIf
  <1>1. CASE Start
    BY <1>1 DEF Start, Calls, Publishes
  <1>2. CASE Authenticate
    BY <1>2 DEF Authenticate, Calls, Publishes
  <1>3. CASE Authorize
    BY <1>3 DEF Authorize, Calls, Publishes
  <1>4. CASE ResolvePrompt
    BY <1>4 DEF ResolvePrompt, Calls, Publishes
  <1>5. CASE Lookup
    BY <1>5 DEF Lookup, Calls, Publishes
  <1>6. CASE CheckLimit
    BY <1>6 DEF CheckLimit, Calls, Publishes
  <1>7. CASE SelectRoutes
    BY <1>7 DEF SelectRoutes, Calls, Publishes
  <1>8. CASE SkipRoute
    BY <1>8 DEF SkipRoute, Calls, Publishes
  <1>9. CASE InvokeFails
    BY <1>9 DEF InvokeFails, Failed, Calls, Publishes
  <1>10. CASE CollectFails
    BY <1>10 DEF CollectFails, Failed, Calls, Publishes
  <1>11. CASE AttemptSucceeds
    BY <1>11 DEF AttemptSucceeds, Calls, Publishes
  <1>12. CASE Exhausted
    BY <1>12 DEF Exhausted, Calls, Publishes
  <1>13. CASE Store
    BY <1>13 DEF Store, Calls, Publishes
  <1>14. CASE Commit
    BY <1>14 DEF Commit, Calls, Publishes
  <1>15. CASE Observe
    BY <1>15 DEF Observe, Calls, Publishes
  <1>16. CASE StreamEnds
    BY <1>16 DEF StreamEnds, Settle, Calls, Publishes
  <1> QED BY <1>1, <1>2, <1>3, <1>4, <1>5, <1>6, <1>7, <1>8, <1>9, <1>10, <1>11, <1>12,
             <1>13, <1>14, <1>15, <1>16 DEF Next

(* So nothing is told that does not fit.                                   *)
LEMMA FrugalSteps ==
  ASSUME Frugal, Next
  PROVE  Frugal'
  <1>1. /\ props \subseteq PropertyNames /\ Publishable(published)
        /\ \A k \in DOMAIN told : Fits(k, told[k])
    BY LeastDataByKind DEF Frugal
  <1>2. /\ cfg' = cfg /\ Calls /\ Publishes
        /\ props' = props \/ props' = props \cup {"prompt_messages"}
    BY StepsCarry
  <1>3. props' \subseteq PropertyNames
    BY <1>1, <1>2 DEF PropertyNames
  <1>4. (\A k \in DOMAIN told : Fits(k, told[k]))'
    <2>1. CASE UNCHANGED told
      BY <1>1, <1>2, <2>1 DEF Fits
    <2>2. ASSUME NEW kind, NEW data, Tell(kind, data), Fits(kind, data)
          PROVE  (\A k \in DOMAIN told : Fits(k, told[k]))'
      BY <1>1, <1>2, <2>2, TellingFits
    <2> QED BY <1>1, <1>2, <2>1, <2>2, CallsFit DEF Calls
  <1>5. Publishable(published)'
    <2>1. CASE UNCHANGED published
      BY <1>1, <1>2, <2>1 DEF Publishable
    <2>2. ASSUME NEW data, published' = published \cup data, Publishable(data)
          PROVE  Publishable(published)'
      BY <1>1, <1>2, <2>2 DEF Publishable
    <2> QED BY <1>1, <1>2, <2>1, <2>2, EventsFit DEF Publishes
  <1>6. LeastData'
    BY <1>4, <1>5, LeastDataByKind, PTL
  <1> QED BY <1>3, <1>6 DEF Frugal

(* At first nothing is told.                                               *)
LEMMA FrugalInit ==
  ASSUME Init
  PROVE  Frugal
  <1>1. extractProperties(Headers) \subseteq {"team"}
    BY DEF extractProperties, PropertyOf, Headers
  <1>2. props \subseteq PropertyNames
    BY <1>1 DEF Init, PropertyNames
  <1>3. DOMAIN told = {} /\ published = {}
    BY DEF Init
  <1>4. LeastData
    BY <1>3, LeastDataByKind DEF Publishable
  <1> QED BY <1>2, <1>4 DEF Frugal

-----------------------------------------------------------------------------
(***************************************************************************)
(* The theorems.                                                           *)
(***************************************************************************)

(* The inductive invariant holds in every reachable state: one request of  *)
(* Server.chat through ExecuteChat, whatever its plugins answer.           *)
THEOREM Invariance == Spec => []IInv
  <1>1. Init => IInv
    BY ControlInit, FrugalInit DEF IInv
  <1>2. IInv /\ [Next]_vars => IInv'
    <2> SUFFICES ASSUME IInv, [Next]_vars PROVE IInv'
      OBVIOUS
    <2>1. CASE Next
      BY <2>1, ControlSteps, FrugalSteps DEF IInv
    <2>2. CASE UNCHANGED vars
      <3>1. Frugal'
        BY <2>2 DEF IInv, Frugal, LeastData, Told, vars
      <3> QED BY <2>2, <3>1, ControlStutters DEF IInv
    <2> QED BY <2>1, <2>2
  <1> QED BY <1>1, <1>2, PTL DEF Spec

(* The state of a request is always one that ExecuteChat can be in: usage  *)
(* is committed at most once, the routes in use are the router's.          *)
THEOREM TypeCorrect == Spec => []TypeOK
  <1>1. IInv => TypeOK
    BY DEF IInv, Control
  <1> QED BY <1>1, Invariance, PTL

(* No upstream plugin is called before the authenticator, the authorizer   *)
(* and the rate limiter have let the request through, nor after a hit.     *)
THEOREM NothingIsTriedUnadmitted == Spec => []AdmittedFirst
  <1>1. IInv => AdmittedFirst
    BY DEF IInv, Control, Admission, AdmittedFirst, Checks
  <1> QED BY <1>1, Invariance, PTL

(* The fallback loop follows the router's order, its bound max_attempts    *)
(* and retryable's verdict, and leaves out no configured provider.         *)
THEOREM FallbackIsDisciplined == Spec => []FallbackDiscipline
  <1>1. IInv => FallbackDiscipline
    BY DEF IInv, Control, Attempts
  <1> QED BY <1>1, Invariance, PTL

(* X-Gateway-Fallback-Index names the route that served the response.      *)
THEOREM TheIndexIsTheServer == Spec => []IndexIsServer
  <1>1. ASSUME IInv PROVE IndexIsServer
    <2>1. tried # <<>> => fallback = tried[Len(tried)][1]
      BY <1>1 DEF IInv, Control, Attempts
    <2>2. status = 200 => pc = "done"
      BY <1>1 DEF IInv, Control, Settlement
    <2>3. status = 200 /\ cacheHdr # "HIT" =>
            tried # <<>> /\ (~stream => tried[Len(tried)][2] = "ok")
      BY <1>1, <2>2 DEF IInv, Control, Settlement
    <2> QED BY <2>1, <2>3 DEF IndexIsServer
  <1> QED BY <1>1, Invariance, PTL

(* A request ends in at most one of request.completed and request.failed,  *)
(* the last event of its log; a response that is not streamed ends in one, *)
(* and its usage is committed exactly when a provider gave it.             *)
THEOREM RequestsSettleOnce == Spec => []SettledOnce
  <1>1. ASSUME IInv PROVE SettledOnce
    <2> DEFINE T == {i \in 1 .. Len(events) :
                       events[i] \in {"request.completed", "request.failed"}}
    <2>1. /\ events \in Seq(EventNames) /\ commits \in 0 .. 1 /\ stream \in BOOLEAN
          /\ Settlement /\ Attempts /\ Admission /\ TypeOK
      BY <1>1 DEF IInv, Control, Logs, TypeOK
    <2>2. Quiet(events) => T = {} /\ "request.completed" \notin EventSet
      BY DEF Quiet, Terminals, EventSet
    <2>3. ASSUME NEW e \in Terminals, EndsWith(events, e)
          PROVE  T = {Len(events)} /\ (e # "request.completed" => "request.completed" \notin EventSet)
      BY <2>1, <2>3, EndedLog DEF Terminals, EventSet
    <2> HIDE DEF T
    <2>4. \/ pc # "observe" /\ Quiet(events) /\ (pc = "done" => stream \/ routes = <<>>)
          \/ EndsWith(events, "request.completed") /\ TriedOK
          \/ EndsWith(events, "request.failed")
      <3>1. CASE pc = "observe"
        <4>1. TriedOK
          BY <1>1, <3>1, HasSucceeded DEF IInv, Succeeded
        <4> QED BY <2>1, <3>1, <4>1 DEF Settlement
      <3>2. CASE pc # "observe"
        BY <2>1, <3>2 DEF Settlement
      <3> QED BY <3>1, <3>2
    <2>5. /\ T \subseteq {Len(events)}
          /\ pc = "done" /\ routes # <<>> /\ ~stream => T # {}
          /\ "request.completed" \in EventSet => TriedOK
      BY <2>2, <2>3, <2>4 DEF Terminals
    <2>6. commits > 0 /\ ~stream => TriedOK
      <3>1. CASE pc = "observe"
        BY <1>1, <3>1, HasSucceeded DEF IInv, Succeeded
      <3>2. CASE pc # "observe"
        BY <2>1, <3>2 DEF Settlement
      <3> QED BY <3>1, <3>2
    <2>7. pc = "done" /\ TriedOK /\ cfg.limiter /\ ~stream => commits = 1
      BY <2>1 DEF Settlement
    <2>8. commits <= 1
      BY <2>1
    <2> QED BY <2>5, <2>6, <2>7, <2>8 DEF SettledOnce, T
  <1> QED BY <1>1, Invariance, PTL

(* Credentials go to the authenticator alone, payloads only to those that  *)
(* work on them, and to observers only with capture_payloads.              *)
THEOREM PluginsSeeLeastData == Spec => []LeastData
  <1>1. IInv => LeastData
    BY DEF IInv, Frugal
  <1> QED BY <1>1, Invariance, PTL
=============================================================================
