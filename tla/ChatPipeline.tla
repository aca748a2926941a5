----------------------------- MODULE ChatPipeline -----------------------------
(***************************************************************************)
(* One POST /v1/chat/completions through the compiled pipeline:            *)
(* Server.chat, Pipeline.ExecuteChat, executeNonStream, executeStream and  *)
(* afterSuccess.                                                           *)
(*                                                                         *)
(* The pipeline is immutable after compile, so requests share nothing but  *)
(* the plugins; what a plugin answers is a free choice here.  One step is  *)
(* one plugin call with what the code does up to the next one.  Routes are *)
(* numbered from 0 as in the code.                                         *)
(***************************************************************************)
EXTENDS Integers, Sequences

CONSTANTS
  Configs,   \* the pipeline configurations considered
  Routings   \* the route lists a router may answer with: sequences of providers

(* A configuration: which stages exist, which providers are in p.upstreams,*)
(* fallbacks.max_attempts, the number of blocking observers and            *)
(* observability.capture_payloads.                                         *)
ConfigType ==
  [ready : BOOLEAN, anonymous : BOOLEAN, authz : BOOLEAN, prompt : BOOLEAN,
   cache : BOOLEAN, limiter : BOOLEAN, upstreams : SUBSET STRING,
   maxAttempts : Int, blocking : Nat, capture : BOOLEAN]

ASSUME PipelineAssumption ==
  /\ \A c \in Configs : c \in ConfigType
  /\ \A rs \in Routings : rs \in Seq(STRING) /\ Len(rs) > 0

VARIABLES
  cfg,        \* p.cfg and the compiled stages
  stream,     \* req.Stream
  pc,         \* the stage that comes next
  passed,     \* the admission checks that let the request through
  props,      \* names of the properties collected for the request
  told,       \* per kind of plugin: what the calls have carried to it
  lookupKey,  \* the cache key looked up, <<>> if none
  storeKey,   \* the cache key stored under, <<>> if none
  cacheHdr,   \* X-Gateway-Cache
  routes,     \* routeResp.Routes
  route,      \* index of the route that comes next
  tried,      \* the attempts: <<route, outcome>>
  fallback,   \* result.FallbackIndex, -1 before the first attempt
  events,     \* lifecycle events emitted
  published,  \* what they have carried to the observer queue
  commits,    \* usage commits
  audited,    \* blocking observers that accepted the request
  status      \* HTTP status of the answer, 0 before it

vars == <<cfg, stream, pc, passed, props, told, lookupKey, storeKey, cacheHdr, routes,
          route, tried, fallback, events, published, commits, audited, status>>

request   == <<cfg, stream>>
admission == <<passed, props, lookupKey, cacheHdr>>
routing   == <<routes, route, tried, fallback>>
settling  == <<storeKey, commits, audited>>
log       == <<events, published>>

-----------------------------------------------------------------------------
(***************************************************************************)
(* What the calls carry, as the set of the names in it: a field, a         *)
(* property, a variable.  Fields that no property is about are left out.   *)
(***************************************************************************)
Headers == {"Authorization", "X-Gateway-Property-Team"}

(* The headers X-Gateway-Property-..., without their prefix.               *)
PropertyOf == [h \in {"X-Gateway-Property-Team"} |-> "team"]
extractProperties(headers) == {PropertyOf[h] : h \in headers \cap DOMAIN PropertyOf}

(* A copy of the properties, and the request in two encodings.             *)
promptVariables(ps) ==
  ps \cup {"model", "tenant_id", "subject", "messages_json", "request_json"}

(* routeEventProps and addTiming copy the map they are given.              *)
routeEventProps(ps) ==
  ps \cup {"route_provider", "route_model", "fallback_index", "duration_ms"}
addTiming(ps) == ps \cup {"duration_ms"}

(* withStreamTranscriptProps adds the same names.                          *)
withTranscriptProps_Always(ps) ==
  ps \cup {"request_json", "response_json", "payloads_captured"}
withTranscriptProps(ps) ==
  IF cfg.capture THEN ps \cup {"request_json", "response_json", "payloads_captured"} ELSE ps

RequestSummary(ps) == {"operation", "requested_model", "estimated_input_tokens"} \cup ps

AuthenticateRequest  == Headers \cup {"source_ip", "method", "path"}
AuthorizeRequest     == {"identity"} \cup RequestSummary(props)
PromptResolveRequest == {"identity", "prompt_ref"} \cup promptVariables(props)
CacheLookupRequest   == {"identity", "cache_key", "policy"}
CacheStoreRequest    == {"identity", "cache_key", "policy", "response", "usage"}
RateLimitCheckRequest ==
  {"identity", "model", "estimated_input_tokens", "requested_output_tokens"} \cup props
CommitUsageRequest   == {"identity", "usage"}
RouteRequest         == {"identity", "candidates"} \cup RequestSummary(props)
InvokeRequest        == {"identity", "provider_model", "request"} \cup routeEventProps(props)
GatewayEvent(ps)     == {"request_id", "tenant_id", "event_type", "usage", "error"} \cup ps

Told(kind) == IF kind \in DOMAIN told THEN told[kind] ELSE {}
Tell(kind, data) ==
  told' = [k \in DOMAIN told \cup {kind} |-> Told(k) \cup IF k = kind THEN data ELSE {}]
TellIf(configured, kind, data) ==
  IF configured THEN Tell(kind, data) ELSE UNCHANGED told

Init ==
  /\ cfg \in Configs /\ stream \in BOOLEAN
  /\ pc = "start" /\ passed = {} /\ told = [k \in {} |-> {}]
  /\ props = extractProperties(Headers) \cup {"requested_model"}
  /\ lookupKey = <<>> /\ storeKey = <<>> /\ cacheHdr = "BYPASS"
  /\ routes = <<>> /\ route = 0 /\ tried = <<>> /\ fallback = -1
  /\ events = <<>> /\ published = {} /\ commits = 0 /\ audited = 0 /\ status = 0

GoTo(stage)  == pc' = stage /\ UNCHANGED status
Answer(code) == pc' = "done" /\ status' = code
Emit(es, ps) == /\ events' = events \o es
                /\ published' = published \cup GatewayEvent(ps)

-----------------------------------------------------------------------------
(***************************************************************************)
(* Admission.                                                              *)
(***************************************************************************)

(* chat and the head of ExecuteChat: a body that does not decode or has no *)
(* model is refused, as is everything while the pipeline is not ready.     *)
Start ==
  /\ pc = "start"
  /\ \/ Answer(400)
     \/ ~cfg.ready /\ Answer(503)
     \/ cfg.ready /\ GoTo("authn")
  /\ UNCHANGED <<request, admission, told, routing, settling, log>>

(* Every failure of the authenticator is a 401.                            *)
Authenticate ==
  /\ pc = "authn"
  /\ \/ ~cfg.anonymous /\ Answer(401) /\ UNCHANGED <<passed, log>>
     \/ /\ GoTo("authz") /\ passed' = passed \cup {"authn"}
        /\ Emit(<<"request.started">>, props)
  /\ TellIf(~cfg.anonymous, "authenticator", AuthenticateRequest)
  /\ UNCHANGED <<request, props, lookupKey, cacheHdr, routing, settling>>

Authorize_ErrorAllows ==
  /\ pc = "authz"
  /\ \/ cfg.authz /\ Answer(403) /\ UNCHANGED passed
     \/ cfg.authz /\ GoTo("prompt") /\ UNCHANGED passed
     \/ GoTo("prompt") /\ passed' = passed \cup {"authz"}
  /\ TellIf(cfg.authz, "authorizer", AuthorizeRequest)
  /\ UNCHANGED <<request, props, lookupKey, cacheHdr, routing, settling, log>>
Authorize ==
  /\ pc = "authz"
  /\ \/ cfg.authz /\ Answer(500) /\ UNCHANGED passed
     \/ cfg.authz /\ Answer(403) /\ UNCHANGED passed
     \/ GoTo("prompt") /\ passed' = passed \cup {"authz"}
  /\ TellIf(cfg.authz, "authorizer", AuthorizeRequest)
  /\ UNCHANGED <<request, props, lookupKey, cacheHdr, routing, settling, log>>

(* A prompt with messages replaces the request's and adds its properties.  *)
ResolvePrompt ==
  /\ pc = "prompt"
  /\ \/ cfg.prompt /\ Answer(500) /\ UNCHANGED props
     \/ GoTo("cache") /\ UNCHANGED props
     \/ cfg.prompt /\ GoTo("cache") /\ props' = props \cup {"prompt_messages"}
  /\ TellIf(cfg.prompt, "prompt_provider", PromptResolveRequest)
  /\ UNCHANGED <<request, passed, lookupKey, cacheHdr, routing, settling, log>>

(* A hash of the request, the tenant and the properties.  The first two    *)
(* are the same in both uses; sha256 is taken to be injective.             *)
CacheKey(properties) == <<"request", "tenant", properties>>

(* Streams bypass the cache.  A failing cache counts as a miss.            *)
Lookup ==
  /\ pc = "cache"
  /\ \/ /\ ~(cfg.cache /\ ~stream)
        /\ GoTo("limit")
        /\ UNCHANGED <<told, lookupKey, cacheHdr, log>>
     \/ /\ cfg.cache /\ ~stream
        /\ lookupKey' = CacheKey(props) /\ Tell("cache_provider", CacheLookupRequest)
        /\ \/ cacheHdr' = "HIT" /\ Emit(<<"cache.hit">>, props) /\ Answer(200)
           \/ cacheHdr' = "MISS" /\ GoTo("limit") /\ UNCHANGED log
  /\ UNCHANGED <<request, passed, props, routing, settling>>

(* Only the decision "deny" refuses; "delay" passes like "allow".          *)
CheckLimit ==
  /\ pc = "limit"
  /\ \/ cfg.limiter /\ Answer(500) /\ UNCHANGED passed
     \/ cfg.limiter /\ Answer(429) /\ UNCHANGED passed
     \/ GoTo("route") /\ passed' = passed \cup {"limit"}
  /\ TellIf(cfg.limiter, "rate_limiter", RateLimitCheckRequest)
  /\ UNCHANGED <<request, props, lookupKey, cacheHdr, routing, settling, log>>

(* Candidates and Route: unknown model, router failure, no route, routes.  *)
SelectRoutes ==
  /\ pc = "route"
  /\ \/ Answer(404) /\ UNCHANGED <<told, routes, log>>
     \/ /\ Tell("router", RouteRequest)
        /\ \/ \E code \in {500, 503} : Answer(code) /\ UNCHANGED <<routes, log>>
           \/ /\ routes' \in Routings
              /\ Emit(<<"route.selected">>, routeEventProps(props)) /\ GoTo("attempt")
  /\ UNCHANGED <<request, admission, route, tried, fallback, settling>>

-----------------------------------------------------------------------------
(***************************************************************************)
(* The fallback loop, the same in executeNonStream and executeStream.      *)
(***************************************************************************)
Limit ==
  LET m == IF cfg.maxAttempts < Len(routes) THEN cfg.maxAttempts ELSE Len(routes)
  IN  IF m <= 0 THEN Len(routes) ELSE m

Configured == routes[route + 1] \in cfg.upstreams

(* The provider is not one of p.upstreams: continue.                       *)
SkipRoute_Stuck ==
  /\ pc = "attempt" /\ route + 1 < Limit /\ ~Configured
  /\ route' = route + 1 /\ GoTo("attempt")
  /\ UNCHANGED <<request, admission, told, routes, tried, fallback, settling, log>>
SkipRoute ==
  /\ pc = "attempt" /\ route < Limit /\ ~Configured
  /\ route' = route + 1 /\ GoTo("attempt")
  /\ UNCHANGED <<request, admission, told, routes, tried, fallback, settling, log>>

(* The errors of an attempt: an UpstreamError that is retryable, rate      *)
(* limited or a 5xx, one that is none of these, and any other error (what  *)
(* net/rpc makes of every error that InvokeStart returns).                 *)
Errors       == {"upstream transient", "upstream final", "other"}
Retryable(e) == e # "upstream final"

(* upstream.error is emitted; retryable decides between continue and break.*)
Failed_AlwaysRetry(e) ==
  /\ fallback' = route /\ route' = route + 1
  /\ tried' = Append(tried, <<route, IF Retryable(e) THEN "retryable" ELSE "fatal">>)
  /\ Emit(<<"upstream.error">>, routeEventProps(props)) /\ GoTo("attempt")
Failed(e) ==
  /\ fallback' = route /\ route' = route + 1
  /\ tried' = Append(tried, <<route, IF Retryable(e) THEN "retryable" ELSE "fatal">>)
  /\ Emit(<<"upstream.error">>, routeEventProps(props))
  /\ GoTo(IF Retryable(e) THEN "attempt" ELSE "giveup")

InvokeFails ==
  /\ pc = "attempt" /\ route < Limit /\ Configured
  /\ \E e \in Errors : Failed(e)
  /\ Tell("upstream_provider", InvokeRequest)
  /\ UNCHANGED <<request, admission, routes, settling>>

(* collectResponse meets an error chunk, always an UpstreamError, and      *)
(* drops what it has collected.                                            *)
CollectFails ==
  /\ pc = "attempt" /\ route < Limit /\ Configured /\ ~stream
  /\ \E e \in Errors \ {"other"} : Failed(e)
  /\ Tell("upstream_provider", InvokeRequest)
  /\ UNCHANGED <<request, admission, routes, settling>>

AttemptSucceeds_IndexKept ==
  /\ pc = "attempt" /\ route < Limit /\ Configured
  /\ tried' = Append(tried, <<route, "ok">>)
  /\ Tell("upstream_provider", InvokeRequest)
  /\ GoTo(IF stream THEN "streaming" ELSE "store")
  /\ UNCHANGED <<request, admission, routes, route, fallback, settling, log>>
AttemptSucceeds ==
  /\ pc = "attempt" /\ route < Limit /\ Configured
  /\ fallback' = route
  /\ tried' = Append(tried, <<route, "ok">>)
  /\ Tell("upstream_provider", InvokeRequest)
  /\ GoTo(IF stream THEN "streaming" ELSE "store")
  /\ UNCHANGED <<request, admission, routes, route, settling, log>>

Exhausted_Silent ==
  /\ \/ pc = "giveup"
     \/ pc = "attempt" /\ route >= Limit
  /\ Answer(503)
  /\ UNCHANGED <<request, admission, told, routing, settling, log>>
Exhausted ==
  /\ \/ pc = "giveup"
     \/ pc = "attempt" /\ route >= Limit
  /\ Emit(<<"request.failed">>, withTranscriptProps(addTiming(props))) /\ Answer(503)
  /\ UNCHANGED <<request, admission, told, routing, settling>>

-----------------------------------------------------------------------------
(***************************************************************************)
(* afterSuccess: store, commit, emit, then the blocking observers.  Errors *)
(* of the first two are ignored.                                           *)
(***************************************************************************)
RouteProps == withTranscriptProps(routeEventProps(props))

Store ==
  /\ pc = "store"
  /\ storeKey' = IF cfg.cache THEN CacheKey(RouteProps) ELSE <<>>
  /\ TellIf(cfg.cache, "cache_provider", CacheStoreRequest)
  /\ GoTo("commit")
  /\ UNCHANGED <<request, admission, routing, commits, audited, log>>

Commit_Twice ==
  /\ pc = "commit"
  /\ commits' = IF cfg.limiter THEN commits + 1 ELSE commits
  /\ \/ GoTo("commit") /\ commits = 0 /\ UNCHANGED log
     \/ Emit(<<"request.completed">>, RouteProps) /\ GoTo("observe")
  /\ TellIf(cfg.limiter, "rate_limiter", CommitUsageRequest)
  /\ UNCHANGED <<request, admission, routing, storeKey, audited>>
Commit ==
  /\ pc = "commit"
  /\ commits' = IF cfg.limiter THEN commits + 1 ELSE commits
  /\ TellIf(cfg.limiter, "rate_limiter", CommitUsageRequest)
  /\ Emit(<<"request.completed">>, RouteProps) /\ GoTo("observe")
  /\ UNCHANGED <<request, admission, routing, storeKey, audited>>

Observe ==
  /\ pc = "observe"
  /\ \/ /\ audited < cfg.blocking
        /\ \/ audited' = audited + 1 /\ GoTo("observe")
           \/ Answer(500) /\ UNCHANGED audited
     \/ audited = cfg.blocking /\ Answer(200) /\ UNCHANGED audited
  /\ TellIf(audited < cfg.blocking, "observer", GatewayEvent(RouteProps))
  /\ UNCHANGED <<request, admission, routing, storeKey, commits, log>>

(***************************************************************************)
(* The goroutine of executeStream and writeStream, summed up: the response *)
(* has status 200 before its first chunk arrives.  After an error chunk    *)
(* the handler is gone; if the plugin sends one more chunk (an error or    *)
(* not) the goroutine is stuck and settles nothing.  StreamRelay has the   *)
(* detail.  A failure is one that retryable would accept.                  *)
(***************************************************************************)
Settle ==
  \/ /\ cfg.limiter /\ commits' = commits + 1
     /\ Tell("rate_limiter", CommitUsageRequest)
  \/ UNCHANGED <<commits, told>>

StreamEnds ==
  /\ pc = "streaming"
  /\ Answer(200)
  /\ \/ Emit(<<"request.completed">>, RouteProps) /\ Settle /\ UNCHANGED tried
     \/ /\ \E outcome \in {"first chunk failed", "later chunk failed"} :
             tried' = [tried EXCEPT ![Len(tried)] = <<route, outcome>>]
        /\ \/ Emit(<<"upstream.error", "request.failed">>, RouteProps) /\ Settle
           \/ /\ \E n \in 1 .. 2 :
                   Emit([i \in 1 .. n |-> "upstream.error"], routeEventProps(props))
              /\ UNCHANGED <<commits, told>>
  /\ UNCHANGED <<request, admission, routes, route, fallback, storeKey, audited>>

Next ==
  \/ Start \/ Authenticate \/ Authorize \/ ResolvePrompt \/ Lookup \/ CheckLimit
  \/ SelectRoutes \/ SkipRoute \/ InvokeFails \/ CollectFails \/ AttemptSucceeds \/ Exhausted
  \/ Store \/ Commit \/ Observe \/ StreamEnds

Spec == Init /\ [][Next]_vars

(* Plugins answer, or their calls fail: each call before the response      *)
(* starts has the request's context, which the server's timeout ends.      *)
FairSpec == Spec /\ WF_vars(Next)

-----------------------------------------------------------------------------
(***************************************************************************)
(* Properties.                                                             *)
(***************************************************************************)
Outcomes == {"ok", "retryable", "fatal", "first chunk failed", "later chunk failed"}
EventSet == {events[i] : i \in 1 .. Len(events)}
TriedOK  == \E n \in 1 .. Len(tried) : tried[n][2] = "ok"

(* Type invariant.                                                         *)
TypeOK ==
  /\ cfg \in Configs /\ stream \in BOOLEAN
  /\ pc \in {"start", "authn", "authz", "prompt", "cache", "limit", "route", "attempt",
             "giveup", "streaming", "store", "commit", "observe", "done"}
  /\ passed \subseteq {"authn", "authz", "limit"}
  /\ cacheHdr \in {"BYPASS", "HIT", "MISS"}
  /\ routes \in Routings \cup {<<>>}
  /\ route \in 0 .. Len(routes) /\ fallback \in -1 .. Len(routes) - 1
  /\ \A n \in 1 .. Len(tried) : tried[n] \in (0 .. Len(routes) - 1) \X Outcomes
  /\ commits \in 0 .. 1 /\ audited \in 0 .. cfg.blocking
  /\ status \in {0, 200, 400, 401, 403, 404, 429, 500, 503}

(* No provider is called before every configured check has let the request *)
(* through, and never for an answer that came from the cache.              *)
AdmittedFirst ==
  tried # <<>> => /\ passed = {"authn", "authz", "limit"}
                  /\ cacheHdr # "HIT"

(* Fallback: routes are tried in the router's order, each at most once, at *)
(* most max_attempts positions deep; every configured route before the     *)
(* last one tried was tried and failed in a way that is retryable.         *)
FallbackDiscipline ==
  /\ \A m, n \in 1 .. Len(tried) : m < n => tried[m][1] < tried[n][1]
  /\ \A n \in 1 .. Len(tried) :
       /\ cfg.maxAttempts > 0 => tried[n][1] < cfg.maxAttempts
       /\ n < Len(tried) => tried[n][2] = "retryable"
       /\ \A r \in 0 .. tried[n][1] :
            routes[r + 1] \in cfg.upstreams => \E m \in 1 .. n : tried[m][1] = r

(* The fallback index told to the client is that of the route that served  *)
(* it, and a 200 that is not a cache hit was served by an attempt.         *)
IndexIsServer ==
  /\ tried # <<>> => fallback = tried[Len(tried)][1]
  /\ status = 200 /\ cacheHdr # "HIT" => tried # <<>>
  /\ status = 200 /\ ~stream /\ cacheHdr # "HIT" => tried[Len(tried)][2] = "ok"

(* A request has at most one terminal event and it is the last; one that   *)
(* was routed and is not streamed does end with it.  request.completed     *)
(* means that an attempt succeeded, and the usage of a response that is    *)
(* not streamed is committed exactly when a provider gave it, once.        *)
SettledOnce ==
  LET T == {i \in 1 .. Len(events) :
              events[i] \in {"request.completed", "request.failed"}}
  IN  /\ T \subseteq {Len(events)}
      /\ pc = "done" /\ routes # <<>> /\ ~stream => T # {}
      /\ "request.completed" \in EventSet => TriedOK
      /\ commits <= 1
      /\ commits > 0 /\ ~stream => TriedOK
      /\ pc = "done" /\ TriedOK /\ cfg.limiter /\ ~stream => commits = 1

(* Whatever the plugins answer, the request is answered or begins to       *)
(* stream; how a stream ends is StreamRelay's matter.                      *)
EveryRequestAnswered == <>(pc \in {"streaming", "done"})

(* What an exact cache promises: the response is stored under the key that *)
(* the same request looks up.                                              *)
StoredIsFound == storeKey # <<>> => storeKey = lookupKey

(* Least data to plugins: the client's credentials go to the authenticator *)
(* alone; the messages go to the prompt provider and the upstream          *)
(* providers, the answer to the cache; an observer gets either only if     *)
(* observability.capture_payloads says so.                                 *)
Payload == {"request", "messages_json", "request_json", "response", "response_json"}
LeastData ==
  /\ \A k \in DOMAIN told \ {"authenticator"} : "Authorization" \notin told[k]
  /\ \A k \in {"authenticator", "authorizer", "rate_limiter", "router"} :
       Told(k) \cap Payload = {}
  /\ Told("cache_provider") \cap Payload \subseteq {"response"}
  /\ "Authorization" \notin published
  /\ ~cfg.capture => (Told("observer") \cup published) \cap Payload = {}
=============================================================================
