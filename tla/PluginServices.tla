---------------------------- MODULE PluginServices ----------------------------
(***************************************************************************)
(* The two ways to a plugin's methods: the gRPC services that are          *)
(* published for plugin authors (gen/go/gateway/v1/*_grpc.pb.go) and the   *)
(* net/rpc names that RPCPluginClient calls.                               *)
(*                                                                         *)
(* A full name is a pair of a service's and a method's name (those of gRPC *)
(* without the package gateway.v1).  A service is a record of              *)
(*   name     the ServiceName of its ServiceDesc                           *)
(*   stub     method of the client -> the full name that it sends          *)
(*   unary    MethodName in the ServiceDesc -> its handler                 *)
(*   stream   StreamName in the ServiceDesc -> the method its handler calls*)
(* The gRPC library (dispatch, transport, streams) is external, and so is  *)
(* the plugin's implementation.                                            *)
(***************************************************************************)
EXTENDS Integers, Sequences, FiniteSets

CONSTANTS
  Calls,        \* the calls that may be made
  Deployments,  \* the plugin servers considered
  MaxChunks     \* bound: chunks of a stream

-----------------------------------------------------------------------------
(* A unary handler: the method that it calls if there is no interceptor,   *)
(* the full name it tells an interceptor otherwise (UnaryServerInfo), and  *)
(* the method called by the closure that it hands to the interceptor.      *)
Handler(plain, tells, wrapped) == [plain |-> plain, tells |-> tells, wrapped |-> wrapped]

(***************************************************************************)
(* The services.  The names in the LETs are the FullMethodName constants.  *)
(***************************************************************************)
AuthenticatorService ==
  LET Authenticate == <<"AuthenticatorService", "Authenticate">>
  IN  [name |-> "AuthenticatorService",
       stub |-> [Authenticate |-> Authenticate],
       unary |-> [Authenticate |-> Handler("Authenticate", Authenticate, "Authenticate")],
       stream |-> <<>>]
AuthorizerService ==
  LET Authorize == <<"AuthorizerService", "Authorize">>
  IN  [name |-> "AuthorizerService",
       stub |-> [Authorize |-> Authorize],
       unary |-> [Authorize |-> Handler("Authorize", Authorize, "Authorize")],
       stream |-> <<>>]
RateLimiterService_RuleCrossed ==
  LET Check  == <<"RateLimiterService", "Check">>
      Commit == <<"RateLimiterService", "Commit">>
  IN  [name |-> "RateLimiterService",
       stub |-> [Check |-> Check, Commit |-> Commit],
       unary |-> [Check |-> Handler("Check", Check, "Check"),
                  Commit |-> Handler("Commit", Check, "Commit")],
       stream |-> <<>>]
RateLimiterService ==
  LET Check  == <<"RateLimiterService", "Check">>
      Commit == <<"RateLimiterService", "Commit">>
  IN  [name |-> "RateLimiterService",
       stub |-> [Check |-> Check, Commit |-> Commit],
       unary |-> [Check |-> Handler("Check", Check, "Check"),
                  Commit |-> Handler("Commit", Commit, "Commit")],
       stream |-> <<>>]
RouterService ==
  LET Route == <<"RouterService", "Route">>
  IN  [name |-> "RouterService",
       stub |-> [Route |-> Route],
       unary |-> [Route |-> Handler("Route", Route, "Route")],
       stream |-> <<>>]
UpstreamProviderService ==
  LET Invoke     == <<"UpstreamProviderService", "Invoke">>
      ListModels == <<"UpstreamProviderService", "ListModels">>
  IN  [name |-> "UpstreamProviderService",
       stub |-> [Invoke |-> Invoke, ListModels |-> ListModels],
       unary |-> [ListModels |-> Handler("ListModels", ListModels, "ListModels")],
       stream |-> [Invoke |-> "Invoke"]]
CacheProviderService_Crossed ==
  LET Lookup == <<"CacheProviderService", "Lookup">>
      Store  == <<"CacheProviderService", "Store">>
  IN  [name |-> "CacheProviderService",
       stub |-> [Lookup |-> Lookup, Store |-> Lookup],
       unary |-> [Lookup |-> Handler("Lookup", Lookup, "Lookup"),
                  Store |-> Handler("Store", Store, "Store")],
       stream |-> <<>>]
CacheProviderService ==
  LET Lookup == <<"CacheProviderService", "Lookup">>
      Store  == <<"CacheProviderService", "Store">>
  IN  [name |-> "CacheProviderService",
       stub |-> [Lookup |-> Lookup, Store |-> Store],
       unary |-> [Lookup |-> Handler("Lookup", Lookup, "Lookup"),
                  Store |-> Handler("Store", Store, "Store")],
       stream |-> <<>>]
ObserverService ==
  LET Emit == <<"ObserverService", "Emit">>
  IN  [name |-> "ObserverService",
       stub |-> [Emit |-> Emit],
       unary |-> [Emit |-> Handler("Emit", Emit, "Emit")],
       stream |-> <<>>]
PromptProviderService ==
  LET ResolvePrompt == <<"PromptProviderService", "ResolvePrompt">>
  IN  [name |-> "PromptProviderService",
       stub |-> [ResolvePrompt |-> ResolvePrompt],
       unary |-> [ResolvePrompt |-> Handler("ResolvePrompt", ResolvePrompt, "ResolvePrompt")],
       stream |-> <<>>]
CostProviderService ==
  LET Estimate == <<"CostProviderService", "Estimate">>
  IN  [name |-> "CostProviderService",
       stub |-> [Estimate |-> Estimate],
       unary |-> [Estimate |-> Handler("Estimate", Estimate, "Estimate")],
       stream |-> <<>>]
ModelRegistryProviderService ==
  LET ListModels == <<"ModelRegistryProviderService", "ListModels">>
  IN  [name |-> "ModelRegistryProviderService",
       stub |-> [ListModels |-> ListModels],
       unary |-> [ListModels |-> Handler("ListModels", ListModels, "ListModels")],
       stream |-> <<>>]

(* The core service, in three parts.                                       *)
PluginServiceNames ==
  [Handshake |-> <<"PluginService", "Handshake">>,
   GetMetadata |-> <<"PluginService", "GetMetadata">>,
   GetConfigSchema |-> <<"PluginService", "GetConfigSchema">>,
   Configure |-> <<"PluginService", "Configure">>,
   Health |-> <<"PluginService", "Health">>,
   Shutdown |-> <<"PluginService", "Shutdown">>]
PluginServiceHandlers ==
  LET Name == PluginServiceNames
  IN  [Handshake |-> Handler("Handshake", Name.Handshake, "Handshake"),
       GetMetadata |-> Handler("GetMetadata", Name.GetMetadata, "GetMetadata"),
       GetConfigSchema |-> Handler("GetConfigSchema", Name.GetConfigSchema, "GetConfigSchema"),
       Configure |-> Handler("Configure", Name.Configure, "Configure"),
       Health |-> Handler("Health", Name.Health, "Health"),
       Shutdown |-> Handler("Shutdown", Name.Shutdown, "Shutdown")]
PluginService ==
  [name |-> "PluginService", stub |-> PluginServiceNames, unary |-> PluginServiceHandlers,
   stream |-> <<>>]

Service ==
  [authenticator |-> AuthenticatorService, authorizer |-> AuthorizerService,
   rate_limiter |-> RateLimiterService, router |-> RouterService,
   upstream_provider |-> UpstreamProviderService, cache_provider |-> CacheProviderService,
   observer |-> ObserverService, prompt_provider |-> PromptProviderService,
   cost_provider |-> CostProviderService,
   model_registry_provider |-> ModelRegistryProviderService, plugin |-> PluginService]

(* RPCPluginClient's names, all of the one service "Plugin": ListModels is *)
(* that of two capabilities.  Invoke is a start and a loop (StreamRelay);  *)
(* Shutdown is never called.                                               *)
NetRpc ==
  [authenticator |-> [Authenticate |-> "Authenticate"],
   authorizer |-> [Authorize |-> "Authorize"],
   rate_limiter |-> [Check |-> "CheckRateLimit", Commit |-> "CommitUsage"],
   router |-> [Route |-> "Route"],
   upstream_provider |-> [Invoke |-> "InvokeStart", ListModels |-> "ListModels"],
   cache_provider |-> [Lookup |-> "CacheLookup", Store |-> "CacheStore"],
   observer |-> [Emit |-> "Emit"],
   prompt_provider |-> [ResolvePrompt |-> "ResolvePrompt"],
   cost_provider |-> [Estimate |-> "EstimateCost"],
   model_registry_provider |-> [ListModels |-> "ListModels"],
   plugin |-> [Handshake |-> "Handshake", GetMetadata |-> "GetMetadata",
               GetConfigSchema |-> "GetConfigSchema", Configure |-> "Configure",
               Health |-> "Health"]]

(* The implementation's methods, each with the service it is written for.  *)
Methods(s) == DOMAIN Service[s].stub

-----------------------------------------------------------------------------
(* A deployment is the transport, the full name that an interceptor        *)
(* refuses if there is one, and for each service it serves how             *)
(* Unimplemented...Server is embedded ("value", "pointer" or "nil") and    *)
(* the methods it implements itself.  net/rpc has no interceptors.         *)
NoRule == <<"", "">>

ASSUME ServicesAssumption ==
  /\ MaxChunks \in Nat
  /\ \A d \in Deployments :
       /\ d.transport \in {"grpc", "netrpc"}
       /\ DOMAIN d.services \subseteq DOMAIN Service
       /\ d.transport = "netrpc" => d.refuses = NoRule

VARIABLES
  dep,         \* the deployment
  server,      \* "starting", "serving" or "panicked"
  registered,  \* services registered so far
  client,      \* per call: "idle", "waiting", "ok" or "failed"
  request,     \* per call: service, method, and the full name that was sent
  at,          \* per call, in the server: "none", "dispatch", "decode", "intercept",
               \*   "method", "streaming" or "done"
  target,      \* per call: service, entry of the ServiceDesc, method its handler calls
  outcome,     \* per call: "none", "ok" or "error"
  ran,         \* the executions: call, service, method
  sent, received \* per call: chunks sent and received

vars == <<dep, server, registered, client, request, at, target, outcome, ran, sent, received>>
callVars == <<client, request, at, target, outcome, ran, sent, received>>

NoCall     == [service |-> "", method |-> "", name |-> <<"", "">>]
NoTarget   == [service |-> "", entry |-> "", method |-> ""]
Served     == DOMAIN dep.services
Intercepts == dep.refuses # NoRule

Init ==
  /\ dep \in Deployments
  /\ server = "starting" /\ registered = {}
  /\ client = [c \in Calls |-> "idle"] /\ request = [c \in Calls |-> NoCall]
  /\ at = [c \in Calls |-> "none"] /\ target = [c \in Calls |-> NoTarget]
  /\ outcome = [c \in Calls |-> "none"] /\ ran = {}
  /\ sent = [c \in Calls |-> 0] /\ received = [c \in Calls |-> 0]

(* Register...Server calls a method through the embedded value, which      *)
(* panics if that is a nil pointer: better now than in a call.             *)
Register_Untested(s) ==
  /\ server = "starting" /\ s \in Served \ registered
  /\ registered' = registered \cup {s} /\ UNCHANGED server
  /\ UNCHANGED <<dep, callVars>>
Register(s) ==
  /\ server = "starting" /\ s \in Served \ registered
  /\ IF dep.transport = "grpc" /\ dep.services[s].embeds = "nil"
     THEN server' = "panicked" /\ UNCHANGED registered
     ELSE registered' = registered \cup {s} /\ UNCHANGED server
  /\ UNCHANGED <<dep, callVars>>

Serve ==
  /\ server = "starting" /\ registered = Served
  /\ server' = "serving"
  /\ UNCHANGED <<dep, registered, callVars>>

-----------------------------------------------------------------------------
(* The client's method: cc.Invoke or NewStream with the full name, or the  *)
(* wrapper's net/rpc name.                                                 *)
Stub(c, s, m) ==
  /\ server = "serving" /\ client[c] = "idle"
  /\ dep.transport = "netrpc" => m \in DOMAIN NetRpc[s]
  /\ request' = [request EXCEPT ![c] =
       [service |-> s, method |-> m,
        name |-> IF dep.transport = "grpc" THEN Service[s].stub[m]
                                           ELSE <<"Plugin", NetRpc[s][m]>>]]
  /\ client' = [client EXCEPT ![c] = "waiting"] /\ at' = [at EXCEPT ![c] = "dispatch"]
  /\ UNCHANGED <<dep, server, registered, target, outcome, ran, sent, received>>

Ends(c, how) ==
  /\ at' = [at EXCEPT ![c] = "done"] /\ outcome' = [outcome EXCEPT ![c] = how]

(* What the full name n leads to: gRPC looks for a registered service of   *)
(* that name and then in its ServiceDesc, net/rpc in the one receiver.     *)
Entries(s) == DOMAIN Service[s].unary \cup DOMAIN Service[s].stream
Callee(s, entry) ==
  IF entry \in DOMAIN Service[s].stream THEN Service[s].stream[entry]
  ELSE IF Intercepts THEN Service[s].unary[entry].wrapped ELSE Service[s].unary[entry].plain
Targets(n) ==
  IF dep.transport = "grpc"
  THEN {[service |-> s, entry |-> n[2], method |-> Callee(s, n[2])] :
          s \in {r \in registered : Service[r].name = n[1] /\ n[2] \in Entries(r)}}
  ELSE UNION {{[service |-> s, entry |-> n[2], method |-> m] :
                 m \in {k \in DOMAIN NetRpc[s] : NetRpc[s][k] = n[2]}} : s \in registered}

Dispatch(c) ==
  /\ server = "serving" /\ at[c] = "dispatch"
  /\ \/ /\ \E t \in Targets(request[c].name) : target' = [target EXCEPT ![c] = t]
        /\ at' = [at EXCEPT ![c] = "decode"] /\ UNCHANGED outcome
     \/ /\ Targets(request[c].name) = {}
        /\ Ends(c, "error") /\ UNCHANGED target
  /\ UNCHANGED <<dep, server, registered, client, request, ran, sent, received>>

(* The entry is a StreamDesc.                                              *)
Streams(c) ==
  /\ dep.transport = "grpc" /\ target[c] # NoTarget
  /\ target[c].entry \in DOMAIN Service[target[c].service].stream

(* dec(in) or RecvMsg.                                                     *)
Decode_Ignored(c) ==
  /\ server = "serving" /\ at[c] = "decode"
  /\ \/ Ends(c, "ok")
     \/ at' = [at EXCEPT ![c] = "intercept"] /\ UNCHANGED outcome
  /\ UNCHANGED <<dep, server, registered, client, request, target, ran, sent, received>>
Decode(c) ==
  /\ server = "serving" /\ at[c] = "decode"
  /\ \/ Ends(c, "error")
     \/ at' = [at EXCEPT ![c] = "intercept"] /\ UNCHANGED outcome
  /\ UNCHANGED <<dep, server, registered, client, request, target, ran, sent, received>>

(* A unary handler runs the interceptor if there is one and gives it its   *)
(* own full name, whatever the client sent.                                *)
Refused(c) ==
  /\ Intercepts /\ ~Streams(c)
  /\ Service[target[c].service].unary[target[c].entry].tells = dep.refuses
Intercept_Skipped(c) ==
  /\ server = "serving" /\ at[c] = "intercept"
  /\ at' = [at EXCEPT ![c] = "method"] /\ UNCHANGED outcome
  /\ UNCHANGED <<dep, server, registered, client, request, target, ran, sent, received>>
Intercept(c) ==
  /\ server = "serving" /\ at[c] = "intercept"
  /\ IF Refused(c) THEN Ends(c, "error")
                   ELSE at' = [at EXCEPT ![c] = "method"] /\ UNCHANGED outcome
  /\ UNCHANGED <<dep, server, registered, client, request, target, ran, sent, received>>

(* The implementation's own method, which may return an error.             *)
Implements(t) == t.method \in dep.services[t.service].implements
Method(c) ==
  /\ server = "serving" /\ at[c] = "method" /\ Implements(target[c])
  /\ ran' = ran \cup {[call |-> c, service |-> target[c].service, method |-> target[c].method]}
  /\ \/ Streams(c) /\ at' = [at EXCEPT ![c] = "streaming"] /\ UNCHANGED outcome
     \/ ~Streams(c) /\ \E how \in {"ok", "error"} : Ends(c, how)
  /\ UNCHANGED <<dep, server, registered, client, request, target, sent, received>>

(* The one of Unimplemented...Server; through a nil pointer it panics, and *)
(* net/rpc has no such method.                                             *)
Unimplemented(c) ==
  /\ server = "serving" /\ at[c] = "method" /\ ~Implements(target[c])
  /\ IF dep.transport = "grpc" /\ dep.services[target[c].service].embeds = "nil"
     THEN server' = "panicked" /\ UNCHANGED <<at, outcome>>
     ELSE Ends(c, "error") /\ UNCHANGED server
  /\ UNCHANGED <<dep, registered, client, request, target, ran, sent, received>>

(* Invoke's stream (external): chunks in order, then the outcome.          *)
Send(c) ==
  /\ server = "serving" /\ at[c] = "streaming" /\ sent[c] < MaxChunks
  /\ sent' = [sent EXCEPT ![c] = @ + 1]
  /\ UNCHANGED <<dep, server, registered, client, request, at, target, outcome, ran, received>>
StreamEnds(c) ==
  /\ server = "serving" /\ at[c] = "streaming"
  /\ \E how \in {"ok", "error"} : Ends(c, how)
  /\ UNCHANGED <<dep, server, registered, client, request, target, ran, sent, received>>
Receive(c) ==
  /\ client[c] = "waiting" /\ received[c] < sent[c]
  /\ received' = [received EXCEPT ![c] = @ + 1]
  /\ UNCHANGED <<dep, server, registered, client, request, at, target, outcome, ran, sent>>

(* The answer, after the chunks; or the context of the call has ended, the *)
(* connection is lost: the server knows nothing of it.                     *)
Answer(c) ==
  /\ client[c] = "waiting" /\ at[c] = "done"
  /\ outcome[c] = "ok" => received[c] = sent[c]
  /\ client' = [client EXCEPT ![c] = IF outcome[c] = "ok" THEN "ok" ELSE "failed"]
  /\ UNCHANGED <<dep, server, registered, request, at, target, outcome, ran, sent, received>>
GiveUp(c) ==
  /\ client[c] = "waiting"
  /\ client' = [client EXCEPT ![c] = "failed"]
  /\ UNCHANGED <<dep, server, registered, request, at, target, outcome, ran, sent, received>>

Handle(c) ==
  \/ Dispatch(c) \/ Decode(c) \/ Intercept(c) \/ Method(c) \/ Unimplemented(c)
  \/ Send(c) \/ StreamEnds(c)

Next ==
  \/ \E s \in Served : Register(s)
  \/ Serve
  \/ \E c \in Calls :
       \/ \E s \in DOMAIN Service : \E m \in Methods(s) : Stub(c, s, m)
       \/ Handle(c) \/ Receive(c) \/ Answer(c) \/ GiveUp(c)

Spec == Init /\ [][Next]_vars

-----------------------------------------------------------------------------
(* Every variable has its type; a handler calls a method that exists; and  *)
(* a server that embeds a nil Unimplemented...Server dies when it          *)
(* registers, never in a call that somebody made.                          *)
TypeOK ==
  /\ dep \in Deployments
  /\ server \in {"starting", "serving", "panicked"} /\ registered \subseteq Served
  /\ server = "panicked" => \A c \in Calls : client[c] = "idle"
  /\ client \in [Calls -> {"idle", "waiting", "ok", "failed"}]
  /\ \A c \in Calls :
       /\ request[c] # NoCall => request[c].method \in Methods(request[c].service)
       /\ target[c] # NoTarget => target[c].method \in Methods(target[c].service)
       /\ received[c] <= sent[c] /\ sent[c] <= MaxChunks
  /\ at \in [Calls -> {"none", "dispatch", "decode", "intercept", "method", "streaming", "done"}]
  /\ outcome \in [Calls -> {"none", "ok", "error"}]

(* A call runs the method that the caller named, of the service that it    *)
(* named, whatever services share the process, and none of a service that  *)
(* is served is turned away as unknown: the clients' full names, the       *)
(* ServiceDesc tables and the handlers, plain and behind an interceptor,   *)
(* agree.  Only net/rpc's ListModels is shared, by an upstream provider    *)
(* and a model registry provider.                                          *)
RoutedToSelf ==
  /\ \A r \in ran :
       /\ r.method = request[r.call].method
       /\ \/ r.service = request[r.call].service
          \/ dep.transport = "netrpc" /\ r.method = "ListModels"
  /\ \A c \in Calls :
       at[c] = "done" /\ target[c] = NoTarget => request[c].service \notin registered

(* A successful answer is the implementation's: its method ran, once, on a *)
(* request that was decoded, and all its chunks were received.  A method   *)
(* that is missing (Unimplemented...Server) never looks like an empty      *)
(* success.  A unary call that the interceptor refuses has no effect:      *)
(* handlers go through the interceptor when there is one, and the full     *)
(* name they give it is that of the method which then runs, so that a rule *)
(* about one method cannot let it through under another's name.            *)
AnswerMatchesRun ==
  /\ \A c \in Calls :
       client[c] = "ok" => /\ Cardinality({r \in ran : r.call = c}) = 1
                           /\ received[c] = sent[c]
  /\ \A r \in ran : <<Service[r.service].name, r.method>> = dep.refuses =>
       r.method \in DOMAIN Service[r.service].stream
=============================================================================
