------------------------- MODULE PluginServicesProofs -------------------------
(***************************************************************************)
(* Proofs about the calls to plugin servers: for every set of deployments, *)
(* any number of calls under way and streams of any length.                *)
(***************************************************************************)
EXTENDS PluginServices, FiniteSetTheorems, TLAPS

-----------------------------------------------------------------------------
(***************************************************************************)
(* The inductive invariant.                                                *)
(***************************************************************************)
(* The name of a request is that of its method, on the transport in use.   *)
Named(q) ==
  /\ q.service \in DOMAIN Service /\ q.method \in Methods(q.service)
  /\ dep.transport = "netrpc" => q.method \in DOMAIN NetRpc[q.service]
  /\ q.name = IF dep.transport = "grpc" THEN Service[q.service].stub[q.method]
                                        ELSE <<"Plugin", NetRpc[q.service][q.method]>>

(* The target of a request is the method that it names, found under its    *)
(* own name.                                                               *)
Fitting(t, q) ==
  /\ t # NoTarget
  /\ t.service \in registered /\ t.method = q.method /\ t.method \in Methods(t.service)
  /\ dep.transport = "grpc" => t.entry = t.method /\ t.entry \in Entries(t.service)
  /\ \/ t.service = q.service
     \/ dep.transport = "netrpc" /\ t.method = "ListModels"

(* What a call c runs, and whether the interceptor has let it.             *)
Run(c)     == [call |-> c, service |-> target[c].service, method |-> target[c].method]
Allowed(c) ==
  <<Service[target[c].service].name, target[c].method>> = dep.refuses =>
    target[c].method \in DOMAIN Service[target[c].service].stream

(* A call, by where it is in the server.                                   *)
Places(c) ==
  /\ client[c] = "idle" <=> at[c] = "none"
  /\ at[c] = "none" => request[c] = NoCall
  /\ at[c] # "none" => Named(request[c])
  /\ at[c] \in {"none", "dispatch"} => target[c] = NoTarget
  /\ at[c] \in {"decode", "intercept", "method", "streaming"} => Fitting(target[c], request[c])
  /\ target[c] # NoTarget => Fitting(target[c], request[c])
  /\ at[c] = "method" => Allowed(c)
  /\ at[c] = "done" /\ target[c] = NoTarget => request[c].service \notin registered
Runs(c) ==
  /\ at[c] # "done" => outcome[c] = "none"
  /\ Run(c) \in ran => /\ at[c] \in {"streaming", "done"} /\ Allowed(c)
                       /\ Fitting(target[c], request[c])
  /\ at[c] = "streaming" \/ outcome[c] = "ok" => Run(c) \in ran
  /\ client[c] = "ok" => outcome[c] = "ok" /\ received[c] = sent[c]

PerCall(f) == f = [c \in Calls |-> f[c]]
Shapes ==
  /\ PerCall(request) /\ PerCall(target)
  /\ sent \in [Calls -> 0 .. MaxChunks] /\ received \in [Calls -> 0 .. MaxChunks]
Servers ==
  /\ dep.transport = "grpc" => \A s \in registered : dep.services[s].embeds # "nil"
  /\ server # "serving" => \A c \in Calls : client[c] = "idle"

IInv ==
  /\ TypeOK /\ Shapes /\ Servers
  /\ \A c \in Calls : Places(c) /\ Runs(c)
  /\ \A r \in ran : r.call \in Calls /\ r = Run(r.call)

-----------------------------------------------------------------------------
(***************************************************************************)
(* The tables.                                                             *)
(***************************************************************************)
Services ==
  {"authenticator", "authorizer", "rate_limiter", "router", "upstream_provider",
   "cache_provider", "observer", "prompt_provider", "cost_provider",
   "model_registry_provider", "plugin"}

(* What the generated tables of a service agree on: each constant is its   *)
(* own service's name and its method's, each handler calls the method that *)
(* it is listed under and tells the interceptor that method's full name,   *)
(* and every method of the client has a handler.                           *)
Agrees(sv) ==
  /\ sv.name # ""
  /\ \A m \in DOMAIN sv.stub : sv.stub[m] = <<sv.name, m>>
  /\ \A n \in DOMAIN sv.unary :
       /\ sv.unary[n].plain = n /\ sv.unary[n].wrapped = n
       /\ sv.unary[n].tells = <<sv.name, n>>
  /\ \A n \in DOMAIN sv.stream : sv.stream[n] = n
  /\ DOMAIN sv.unary \cup DOMAIN sv.stream = DOMAIN sv.stub

(* Whose name it is.                                                       *)
NameOf(n) ==
  CASE n = "AuthenticatorService" -> "authenticator"   [] n = "AuthorizerService" -> "authorizer"
    [] n = "RateLimiterService" -> "rate_limiter"      [] n = "RouterService" -> "router"
    [] n = "UpstreamProviderService" -> "upstream_provider"
    [] n = "CacheProviderService" -> "cache_provider"  [] n = "ObserverService" -> "observer"
    [] n = "PromptProviderService" -> "prompt_provider"
    [] n = "CostProviderService" -> "cost_provider"
    [] n = "ModelRegistryProviderService" -> "model_registry_provider"
    [] OTHER -> "plugin"

(* The tables of every generated service agree, and no two services share  *)
(* a name.                                                                 *)
LEMMA ServicesAgree ==
  /\ DOMAIN Service = Services
  /\ \A s \in Services : Agrees(Service[s]) /\ NameOf(Service[s].name) = s
  <1>1. DOMAIN Service = Services
    BY DEF Service, Services
  <1> DEFINE Good(sv, s) == Agrees(sv) /\ NameOf(sv.name) = s
  <1>2. Good(AuthenticatorService, "authenticator")
    BY DEF Agrees, Handler, NameOf, AuthenticatorService
  <1>3. Good(AuthorizerService, "authorizer")
    BY DEF Agrees, Handler, NameOf, AuthorizerService
  <1>4. Good(RateLimiterService, "rate_limiter")
    BY DEF Agrees, Handler, NameOf, RateLimiterService
  <1>5. Good(RouterService, "router")
    BY DEF Agrees, Handler, NameOf, RouterService
  <1>6. Good(UpstreamProviderService, "upstream_provider")
    BY DEF Agrees, Handler, NameOf, UpstreamProviderService
  <1>7. Good(CacheProviderService, "cache_provider")
    BY DEF Agrees, Handler, NameOf, CacheProviderService
  <1>8. Good(ObserverService, "observer")
    BY DEF Agrees, Handler, NameOf, ObserverService
  <1>9. Good(PromptProviderService, "prompt_provider")
    BY DEF Agrees, Handler, NameOf, PromptProviderService
  <1>10. Good(CostProviderService, "cost_provider")
    BY DEF Agrees, Handler, NameOf, CostProviderService
  <1>11. Good(ModelRegistryProviderService, "model_registry_provider")
    BY DEF Agrees, Handler, NameOf, ModelRegistryProviderService
  <1>12. Good(PluginService, "plugin")
    BY DEF Agrees, Handler, NameOf, PluginService, PluginServiceNames, PluginServiceHandlers
  <1>13. /\ Service["authenticator"] = AuthenticatorService
         /\ Service["authorizer"] = AuthorizerService
         /\ Service["rate_limiter"] = RateLimiterService
         /\ Service["router"] = RouterService
         /\ Service["upstream_provider"] = UpstreamProviderService
         /\ Service["cache_provider"] = CacheProviderService
         /\ Service["observer"] = ObserverService
         /\ Service["prompt_provider"] = PromptProviderService
         /\ Service["cost_provider"] = CostProviderService
         /\ Service["model_registry_provider"] = ModelRegistryProviderService
         /\ Service["plugin"] = PluginService
    BY DEF Service
  <1> HIDE DEF Good
  <1>14. ASSUME NEW s \in Services PROVE Good(Service[s], s)
    BY <1>2, <1>3, <1>4, <1>5, <1>6, <1>7, <1>8, <1>9, <1>10, <1>11, <1>12, <1>13 DEF Services
  <1> QED BY <1>1, <1>14 DEF Good

(* The method, and but for ListModels the service, that a net/rpc name is  *)
(* the wrapper of.                                                         *)
WrapsMethod(n) ==
  CASE n = "CheckRateLimit" -> "Check"  [] n = "CommitUsage" -> "Commit"
    [] n = "InvokeStart" -> "Invoke"    [] n = "CacheLookup" -> "Lookup"
    [] n = "CacheStore" -> "Store"      [] n = "EstimateCost" -> "Estimate"
    [] OTHER -> n
WrapsService(n) ==
  CASE n = "Authenticate" -> "authenticator"     [] n = "Authorize" -> "authorizer"
    [] n = "Route" -> "router"                   [] n = "InvokeStart" -> "upstream_provider"
    [] n = "Emit" -> "observer"                  [] n = "ResolvePrompt" -> "prompt_provider"
    [] n = "EstimateCost" -> "cost_provider"
    [] n \in {"CheckRateLimit", "CommitUsage"} -> "rate_limiter"
    [] n \in {"CacheLookup", "CacheStore"} -> "cache_provider"
    [] OTHER -> "plugin"

(* The wrapper table can be read backwards.                                *)
Wraps(s, names) ==
  \A m \in DOMAIN names :
    /\ m \in Methods(s) /\ WrapsMethod(names[m]) = m
    /\ m = "ListModels" \/ WrapsService(names[m]) = s

(* All of RPCPluginClient's wrappers are named so.                         *)
LEMMA NetRpcWraps ==
  \A s \in Services : Wraps(s, NetRpc[s])
  <1>1. /\ Methods("authenticator") = {"Authenticate"} /\ Methods("authorizer") = {"Authorize"}
        /\ Methods("rate_limiter") = {"Check", "Commit"} /\ Methods("router") = {"Route"}
        /\ Methods("upstream_provider") = {"Invoke", "ListModels"}
        /\ Methods("cache_provider") = {"Lookup", "Store"}
        /\ Methods("observer") = {"Emit"} /\ Methods("prompt_provider") = {"ResolvePrompt"}
        /\ Methods("cost_provider") = {"Estimate"}
        /\ Methods("model_registry_provider") = {"ListModels"}
        /\ Methods("plugin") = {"Handshake", "GetMetadata", "GetConfigSchema", "Configure",
                                "Health", "Shutdown"}
    BY DEF Methods, Service, AuthenticatorService, AuthorizerService, RateLimiterService,
       RouterService, UpstreamProviderService, CacheProviderService, ObserverService,
       PromptProviderService, CostProviderService, ModelRegistryProviderService,
       PluginService, PluginServiceNames
  <1> USE DEF NetRpc, Wraps, WrapsMethod, WrapsService
  <1>2. Wraps("authenticator", NetRpc["authenticator"])
    BY <1>1
  <1>3. Wraps("authorizer", NetRpc["authorizer"])
    BY <1>1
  <1>4. Wraps("rate_limiter", NetRpc["rate_limiter"])
    BY <1>1
  <1>5. Wraps("router", NetRpc["router"])
    BY <1>1
  <1>6. Wraps("upstream_provider", NetRpc["upstream_provider"])
    BY <1>1
  <1>7. Wraps("cache_provider", NetRpc["cache_provider"])
    BY <1>1
  <1>8. Wraps("observer", NetRpc["observer"])
    BY <1>1
  <1>9. Wraps("prompt_provider", NetRpc["prompt_provider"])
    BY <1>1
  <1>10. Wraps("cost_provider", NetRpc["cost_provider"])
    BY <1>1
  <1>11. Wraps("model_registry_provider", NetRpc["model_registry_provider"])
    BY <1>1
  <1>12. Wraps("plugin", NetRpc["plugin"])
    BY <1>1
  <1> HIDE DEF NetRpc, Wraps, WrapsMethod, WrapsService
  <1> QED BY <1>2, <1>3, <1>4, <1>5, <1>6, <1>7, <1>8, <1>9, <1>10, <1>11, <1>12 DEF Services

(* A full name that a client sends leads to the method that it stands for, *)
(* of the same service unless that method is the shared one.               *)
LEMMA TargetsFit ==
  ASSUME TypeOK, NEW q, Named(q), NEW t \in Targets(q.name)
  PROVE  Fitting(t, q)
  <1>1. dep \in Deployments /\ registered \subseteq Served
    BY DEF TypeOK
  <1>2. /\ dep.transport \in {"grpc", "netrpc"} /\ Served \subseteq Services
    BY <1>1, ServicesAssumption, ServicesAgree DEF Served
  <1>3. q.service \in Services /\ q.method \in Methods(q.service)
    BY ServicesAgree DEF Named
  <1>4. ASSUME NEW r, r.service \in Services PROVE r # NoTarget
    <2>1. NoTarget.service = "" /\ "" \notin Services
      BY DEF NoTarget, Services
    <2> QED BY <1>4, <2>1
  <1>5. CASE dep.transport = "grpc"
    <2> DEFINE sv == Service[q.service]
    <2>1. q.name = <<sv.name, q.method>>
      BY <1>3, <1>5, ServicesAgree DEF Named, Methods, Agrees
    <2>2. PICK s \in registered :
            /\ Service[s].name = q.name[1] /\ q.name[2] \in Entries(s)
            /\ t = [service |-> s, entry |-> q.name[2], method |-> Callee(s, q.name[2])]
      BY <1>5 DEF Targets
    <2>3. s = q.service
      BY <1>1, <1>2, <1>3, <2>1, <2>2, ServicesAgree
    <2>4. Callee(s, q.method) = q.method
      <3>1. q.name[2] = q.method /\ Agrees(Service[s])
        BY <1>3, <2>1, <2>3, ServicesAgree
      <3>2. q.method \in DOMAIN Service[s].unary \cup DOMAIN Service[s].stream
        BY <2>2, <3>1 DEF Entries
      <3> QED BY <3>1, <3>2 DEF Callee, Agrees
    <2>5. t.service = q.service /\ t.method = q.method /\ t.entry = q.method
      BY <2>1, <2>2, <2>3, <2>4
    <2>6. t.service \in registered /\ q.method \in Entries(t.service)
      BY <2>1, <2>2
    <2> QED BY <1>3, <1>4, <2>5, <2>6 DEF Fitting
  <1>6. CASE dep.transport = "netrpc"
    <2>a. PICK s \in registered :
            t \in {[service |-> s, entry |-> q.name[2], method |-> m] :
                     m \in {k \in DOMAIN NetRpc[s] : NetRpc[s][k] = q.name[2]}}
      BY <1>6 DEF Targets
    <2>1. PICK m \in DOMAIN NetRpc[s] :
            NetRpc[s][m] = q.name[2] /\ t = [service |-> s, entry |-> q.name[2], method |-> m]
      BY <2>a
    <2>2. /\ q.name[2] = NetRpc[q.service][q.method] /\ q.method \in DOMAIN NetRpc[q.service]
      BY <1>6 DEF Named
    <2>3. /\ m \in Methods(s) /\ WrapsMethod(q.name[2]) = m
          /\ m = "ListModels" \/ WrapsService(q.name[2]) = s
      BY <1>1, <1>2, <2>1, NetRpcWraps DEF Wraps
    <2>4. /\ WrapsMethod(q.name[2]) = q.method
          /\ q.method = "ListModels" \/ WrapsService(q.name[2]) = q.service
      BY <1>3, <2>2, NetRpcWraps DEF Wraps
    <2>5. m = q.method /\ (s = q.service \/ m = "ListModels") /\ t.service = s /\ t.method = m
      BY <2>1, <2>3, <2>4
    <2>6. t # NoTarget
      BY <1>1, <1>2, <1>4, <2>5
    <2> QED BY <1>6, <2>3, <2>5, <2>6 DEF Fitting
  <1> QED BY <1>2, <1>5, <1>6

(* It leads somewhere, if the service is there at all.                     *)
LEMMA TargetsFound ==
  ASSUME TypeOK, NEW q, Named(q), q.service \in registered
  PROVE  Targets(q.name) # {}
  <1>1. dep.transport \in {"grpc", "netrpc"}
    BY ServicesAssumption DEF TypeOK
  <1>2. q.service \in Services /\ q.method \in Methods(q.service)
    BY ServicesAgree DEF Named
  <1>3. CASE dep.transport = "grpc"
    <2>1. q.name = <<Service[q.service].name, q.method>>
      BY <1>2, <1>3, ServicesAgree DEF Named, Methods, Agrees
    <2>2. q.method \in Entries(q.service)
      BY <1>2, ServicesAgree DEF Methods, Agrees, Entries
    <2>3. [service |-> q.service, entry |-> q.name[2], method |-> Callee(q.service, q.name[2])]
            \in Targets(q.name)
      BY <1>3, <2>1, <2>2 DEF Targets
    <2> QED BY <2>3
  <1>4. CASE dep.transport = "netrpc"
    <2>1. q.name[2] = NetRpc[q.service][q.method] /\ q.method \in DOMAIN NetRpc[q.service]
      BY <1>4 DEF Named
    <2>2. [service |-> q.service, entry |-> q.name[2], method |-> q.method] \in Targets(q.name)
      BY <1>4, <2>1 DEF Targets
    <2> QED BY <2>2
  <1> QED BY <1>1, <1>3, <1>4

-----------------------------------------------------------------------------
(***************************************************************************)
(* One call's step, and the other calls.                                   *)
(***************************************************************************)

(* From f to g, the value of no other call changes.                        *)
Only(f, g, c) == PerCall(g) /\ \A d \in Calls : d # c => g[d] = f[d]

(* One call's value is updated.                                            *)
LEMMA EachUpdates ==
  ASSUME TypeOK, Shapes, NEW c \in Calls, NEW e
  PROVE  /\ client' = [client EXCEPT ![c] = e] => Only(client, client', c) /\ client'[c] = e
         /\ request' = [request EXCEPT ![c] = e] => Only(request, request', c) /\ request'[c] = e
         /\ at' = [at EXCEPT ![c] = e] => Only(at, at', c) /\ at'[c] = e
         /\ target' = [target EXCEPT ![c] = e] => Only(target, target', c) /\ target'[c] = e
         /\ outcome' = [outcome EXCEPT ![c] = e] => Only(outcome, outcome', c) /\ outcome'[c] = e
         /\ sent' = [sent EXCEPT ![c] = e] => Only(sent, sent', c) /\ sent'[c] = e
         /\ received' = [received EXCEPT ![c] = e] => Only(received, received', c) /\ received'[c] = e
  <1>1. /\ PerCall(client) /\ PerCall(request) /\ PerCall(at) /\ PerCall(target)
        /\ PerCall(outcome) /\ PerCall(sent) /\ PerCall(received)
    BY DEF TypeOK, Shapes, PerCall
  <1>2. client' = [client EXCEPT ![c] = e] => Only(client, client', c) /\ client'[c] = e
    BY <1>1 DEF PerCall, Only
  <1>3. request' = [request EXCEPT ![c] = e] => Only(request, request', c) /\ request'[c] = e
    BY <1>1 DEF PerCall, Only
  <1>4. at' = [at EXCEPT ![c] = e] => Only(at, at', c) /\ at'[c] = e
    BY <1>1 DEF PerCall, Only
  <1>5. target' = [target EXCEPT ![c] = e] => Only(target, target', c) /\ target'[c] = e
    BY <1>1 DEF PerCall, Only
  <1>6. outcome' = [outcome EXCEPT ![c] = e] => Only(outcome, outcome', c) /\ outcome'[c] = e
    BY <1>1 DEF PerCall, Only
  <1>7. sent' = [sent EXCEPT ![c] = e] => Only(sent, sent', c) /\ sent'[c] = e
    BY <1>1 DEF PerCall, Only
  <1>8. received' = [received EXCEPT ![c] = e] => Only(received, received', c) /\ received'[c] = e
    BY <1>1 DEF PerCall, Only
  <1> QED BY <1>2, <1>3, <1>4, <1>5, <1>6, <1>7, <1>8

(* Nothing is updated.                                                     *)
LEMMA Stays ==
  ASSUME NEW f, PerCall(f), NEW c \in Calls, NEW g, g = f
  PROVE  Only(f, g, c) /\ g[c] = f[c]
  BY DEF PerCall, Only

(* Every per-call variable has the calls as its domain.                    *)
LEMMA AllPerCall ==
  ASSUME TypeOK, Shapes
  PROVE  /\ PerCall(client) /\ PerCall(request) /\ PerCall(at) /\ PerCall(target)
         /\ PerCall(outcome) /\ PerCall(sent) /\ PerCall(received)
  BY DEF TypeOK, Shapes, PerCall

(* What a step of another call leaves to d.                                *)
Apart(d) ==
  /\ client'[d] = client[d] /\ request'[d] = request[d] /\ at'[d] = at[d]
  /\ target'[d] = target[d] /\ outcome'[d] = outcome[d]
  /\ sent'[d] = sent[d] /\ received'[d] = received[d]
  /\ Run(d) \in ran' <=> Run(d) \in ran

(* What is said of a call holds on in a step of another.                   *)
LEMMA ApartKeeps ==
  ASSUME NEW d \in Calls, Apart(d), Places(d), Runs(d), dep' = dep,
         registered \subseteq registered', registered' = registered \/ at[d] = "none"
  PROVE  Places(d)' /\ Runs(d)'
  <1>1. Run(d)' = Run(d) /\ Allowed(d)' = Allowed(d)
    BY DEF Apart, Run, Allowed
  <1>2. Named(request[d])' = Named(request[d])
    BY DEF Apart, Named
  <1>3. Fitting(target[d], request[d]) => Fitting(target[d], request[d])'
    BY DEF Apart, Fitting
  <1>4. Places(d)'
    BY <1>1, <1>2, <1>3 DEF Apart, Places
  <1>5. Runs(d)'
    BY <1>1, <1>3 DEF Apart, Runs
  <1> QED BY <1>4, <1>5

(* The values of a call, and a step that changes those of c alone.         *)
Clients  == {"idle", "waiting", "ok", "failed"}
Stages   == {"none", "dispatch", "decode", "intercept", "method", "streaming", "done"}
Outcomes == {"none", "ok", "error"}

StepOf(c) ==
  /\ dep' = dep /\ registered' = registered /\ server' = "serving"
  /\ Only(client, client', c) /\ Only(request, request', c) /\ Only(at, at', c)
  /\ Only(target, target', c) /\ Only(outcome, outcome', c) /\ Only(sent, sent', c)
  /\ Only(received, received', c)
  /\ client'[c] \in Clients /\ at'[c] \in Stages /\ outcome'[c] \in Outcomes
  /\ sent'[c] \in 0 .. MaxChunks /\ received'[c] \in 0 .. sent'[c]
  /\ \/ ran' = ran /\ (target'[c] = target[c] \/ Run(c) \notin ran)
     \/ ran' = ran \cup {Run(c)} /\ target'[c] = target[c]

(* Such a step keeps the invariant if it keeps it for c.                   *)
LEMMA StepKeeps ==
  ASSUME IInv, NEW c \in Calls, StepOf(c), Places(c)', Runs(c)'
  PROVE  IInv'
  <1>1. \A d \in Calls : d # c => Apart(d)
    <2> SUFFICES ASSUME NEW d \in Calls, d # c PROVE Apart(d)
      OBVIOUS
    <2>1. Run(d) # Run(c)
      BY DEF Run
    <2> QED BY <2>1 DEF StepOf, Only, Apart
  <1>2. \A d \in Calls : Places(d)' /\ Runs(d)'
    <2>1. ASSUME NEW d \in Calls, d # c PROVE Places(d)' /\ Runs(d)'
      BY <1>1, <2>1, ApartKeeps DEF IInv, StepOf
    <2> QED BY <2>1
  <1>3. \A r \in ran' : r.call \in Calls /\ r = Run(r.call)'
    <2> SUFFICES ASSUME NEW r \in ran' PROVE r.call \in Calls /\ r = Run(r.call)'
      OBVIOUS
    <2>1. r.call \in Calls /\ r = Run(r.call)
      <3>1. Run(c).call = c
        BY DEF Run
      <3> QED BY <3>1 DEF IInv, StepOf
    <2>2. target'[r.call] = target[r.call]
      BY <2>1 DEF StepOf, Only
    <2> QED BY <2>1, <2>2 DEF Run
  <1>4. Shapes'
    <2>1. \A d \in Calls : sent'[d] \in 0 .. MaxChunks /\ received'[d] \in 0 .. MaxChunks
      <3>1. MaxChunks \in Nat
        BY ServicesAssumption
      <3> QED BY <3>1 DEF StepOf, Only, IInv, Shapes
    <2> QED BY <2>1 DEF StepOf, Only, PerCall, Shapes
  <1>5. TypeOK'
    <2>1. client' \in [Calls -> Clients] /\ at' \in [Calls -> Stages] /\ outcome' \in [Calls -> Outcomes]
      <3>1. \A d \in Calls : client'[d] \in Clients /\ at'[d] \in Stages /\ outcome'[d] \in Outcomes
        BY DEF StepOf, Only, IInv, TypeOK, Clients, Stages, Outcomes
      <3> QED BY <3>1 DEF StepOf, Only, PerCall
    <2>2. ASSUME NEW d \in Calls
          PROVE  /\ request'[d] # NoCall => request'[d].method \in Methods(request'[d].service)
                 /\ target'[d] # NoTarget => target'[d].method \in Methods(target'[d].service)
      <3>1. Places(d)'
        BY <1>2
      <3> QED BY <3>1 DEF Places, Named, Fitting
    <2>3. ASSUME NEW d \in Calls PROVE received'[d] <= sent'[d] /\ sent'[d] <= MaxChunks
      <3>1. CASE d = c
        BY <3>1, ServicesAssumption DEF StepOf
      <3>2. CASE d # c
        BY <3>2 DEF StepOf, Only, IInv, TypeOK
      <3> QED BY <3>1, <3>2
    <2>4. dep' \in Deployments /\ registered' \subseteq Served' /\ server' = "serving"
      BY DEF StepOf, IInv, TypeOK, Served
    <2> QED BY <2>1, <2>2, <2>3, <2>4 DEF TypeOK, Clients, Stages, Outcomes
  <1>6. Servers'
    BY DEF StepOf, IInv, Servers
  <1> QED BY <1>2, <1>3, <1>4, <1>5, <1>6 DEF IInv

-----------------------------------------------------------------------------
(***************************************************************************)
(* The steps of a call.                                                    *)
(***************************************************************************)

(* The state of a call, as all steps find it.                              *)
LEMMA Found ==
  ASSUME IInv, NEW c \in Calls
  PROVE  /\ Places(c) /\ Runs(c)
         /\ client[c] \in Clients /\ at[c] \in Stages /\ outcome[c] \in Outcomes
         /\ sent[c] \in 0 .. MaxChunks /\ received[c] \in 0 .. sent[c]
         /\ client[c] # "idle" => server = "serving"
  <1>1. MaxChunks \in Nat
    BY ServicesAssumption
  <1>2. sent[c] \in 0 .. MaxChunks /\ received[c] \in 0 .. MaxChunks /\ received[c] <= sent[c]
    BY DEF IInv, Shapes, TypeOK
  <1>3. received[c] \in 0 .. sent[c]
    BY <1>1, <1>2
  <1> QED BY <1>2, <1>3 DEF IInv, Servers, TypeOK, Clients, Stages, Outcomes

(* A client's method sends the name of the method.                         *)
LEMMA StubKeeps ==
  ASSUME IInv, NEW c \in Calls, NEW s \in DOMAIN Service, NEW m \in Methods(s), Stub(c, s, m)
  PROVE  IInv'
  <1> DEFINE q == [service |-> s, method |-> m,
                   name |-> IF dep.transport = "grpc" THEN Service[s].stub[m]
                                                      ELSE <<"Plugin", NetRpc[s][m]>>]
  <1>1. /\ server = "serving" /\ client[c] = "idle"
        /\ dep.transport = "netrpc" => m \in DOMAIN NetRpc[s]
        /\ request' = [request EXCEPT ![c] = q]
        /\ client' = [client EXCEPT ![c] = "waiting"] /\ at' = [at EXCEPT ![c] = "dispatch"]
        /\ UNCHANGED <<dep, server, registered, target, outcome, ran, sent, received>>
    BY DEF Stub
  <1>2. Named(q)
    BY <1>1 DEF Named
  <1> HIDE DEF q
  <1>3. at[c] = "none" /\ target[c] = NoTarget /\ outcome[c] = "none" /\ Run(c) \notin ran
    BY <1>1, Found DEF Places, Runs
  <1>4. /\ Only(request, request', c) /\ request'[c] = q
        /\ Only(client, client', c) /\ client'[c] = "waiting"
        /\ Only(at, at', c) /\ at'[c] = "dispatch"
    BY <1>1, EachUpdates DEF IInv
  <1>5. StepOf(c) /\ target'[c] = target[c] /\ outcome'[c] = outcome[c]
    BY <1>1, <1>4, AllPerCall, Stays, Found DEF IInv, StepOf, Clients, Stages
  <1>6. Places(c)'
    BY <1>1, <1>2, <1>3, <1>4, <1>5 DEF Places, Named
  <1>7. Runs(c)'
    <2>1. Run(c)' = Run(c)
      BY <1>5 DEF Run
    <2> QED BY <1>1, <1>3, <1>4, <1>5, <2>1 DEF Runs
  <1> QED BY <1>5, <1>6, <1>7, StepKeeps

(* The server finds the method, or has none.                               *)
LEMMA DispatchKeeps ==
  ASSUME IInv, NEW c \in Calls, Dispatch(c)
  PROVE  IInv'
  <1>1. /\ server = "serving" /\ at[c] = "dispatch"
        /\ UNCHANGED <<dep, server, registered, client, request, ran, sent, received>>
    BY DEF Dispatch
  <1>2. /\ target[c] = NoTarget /\ outcome[c] = "none" /\ Run(c) \notin ran
        /\ client[c] # "idle" /\ client[c] # "ok" /\ Named(request[c])
    BY <1>1, Found DEF Places, Runs
  <1>3. CASE Targets(request[c].name) = {} /\ Ends(c, "error") /\ UNCHANGED target
    <2>0. request[c].service \notin registered
      BY <1>2, <1>3, TargetsFound DEF IInv
    <2>1. /\ Only(at, at', c) /\ at'[c] = "done" /\ Only(outcome, outcome', c) /\ outcome'[c] = "error"
      BY <1>3, EachUpdates DEF IInv, Ends
    <2>2. StepOf(c) /\ target'[c] = target[c] /\ request'[c] = request[c] /\ client'[c] = client[c]
      BY <1>1, <1>3, <2>1, AllPerCall, Stays, Found DEF IInv, StepOf, Stages, Outcomes
    <2>3. Places(c)'
      BY <1>1, <1>2, <2>0, <2>1, <2>2 DEF Places, Named
    <2>4. Runs(c)'
      <3>1. Run(c)' = Run(c)
        BY <2>2 DEF Run
      <3> QED BY <1>1, <1>2, <2>1, <2>2, <3>1 DEF Runs
    <2> QED BY <2>2, <2>3, <2>4, StepKeeps
  <1>4. ASSUME NEW t \in Targets(request[c].name),
               target' = [target EXCEPT ![c] = t],
               at' = [at EXCEPT ![c] = "decode"], UNCHANGED outcome
        PROVE  IInv'
    <2>1. Only(at, at', c) /\ at'[c] = "decode" /\ Only(target, target', c) /\ target'[c] = t
      BY <1>4, EachUpdates DEF IInv
    <2>2. Fitting(t, request[c])
      BY <1>2, <1>4, TargetsFit DEF IInv
    <2>3. /\ StepOf(c) /\ request'[c] = request[c] /\ client'[c] = client[c] /\ outcome'[c] = outcome[c]
      BY <1>1, <1>2, <1>4, <2>1, AllPerCall, Stays, Found DEF IInv, StepOf, Stages, Outcomes
    <2>4. Fitting(t, request[c])' /\ Named(request[c])'
      BY <1>1, <1>2, <1>4, <2>2 DEF Fitting, Named
    <2>5. Places(c)'
      BY <1>2, <2>1, <2>3, <2>4 DEF Places, Fitting
    <2>6. Run(c)' \notin ran
      <3>1. Run(c)'.call = c
        BY DEF Run
      <3>2. \A r \in ran : r.call = c => r = Run(c)
        BY DEF IInv
      <3> QED BY <1>2, <3>1, <3>2
    <2>7. Runs(c)'
      BY <1>1, <1>2, <2>1, <2>3, <2>6 DEF Runs
    <2> QED BY <2>3, <2>5, <2>7, StepKeeps
  <1> QED BY <1>3, <1>4 DEF Dispatch

(* A call moves on in the server, or ends there: what has run of it, and   *)
(* what has been allowed, goes with the stage.                             *)
Inside == {"decode", "intercept", "method", "streaming"}
Moves(c, stage, how) ==
  /\ Only(at, at', c) /\ at'[c] = stage /\ Only(outcome, outcome', c) /\ outcome'[c] = how
  /\ UNCHANGED <<dep, server, registered, client, request, target, sent, received>>
  /\ \/ ran' = ran
     \/ ran' = ran \cup {Run(c)}
  /\ stage # "done" => how = "none"
  /\ stage = "method" => Allowed(c)
  /\ Run(c) \in ran' => stage \in {"streaming", "done"} /\ Allowed(c)
  /\ stage = "streaming" \/ how = "ok" => Run(c) \in ran'

(* A call that moves on in the server keeps the invariant if what it runs  *)
(* was allowed.                                                            *)
LEMMA MovesKeep ==
  ASSUME IInv, NEW c \in Calls, server = "serving", at[c] \in Inside,
         NEW stage \in {"intercept", "method", "streaming", "done"}, NEW how \in Outcomes,
         Moves(c, stage, how)
  PROVE  IInv'
  <1>1. /\ Fitting(target[c], request[c]) /\ Named(request[c]) /\ outcome[c] = "none"
        /\ client[c] # "idle" /\ client[c] # "ok" /\ target[c] # NoTarget
    BY Found DEF Places, Runs, Inside, Fitting
  <1>2. /\ StepOf(c) /\ target'[c] = target[c] /\ request'[c] = request[c]
        /\ client'[c] = client[c] /\ at'[c] = stage /\ outcome'[c] = how
    BY AllPerCall, Stays, Found DEF IInv, Moves, StepOf, Stages
  <1>3. Fitting(target[c], request[c])' /\ Named(request[c])'
    BY <1>1, <1>2 DEF Moves, Fitting, Named
  <1>4. Allowed(c)' = Allowed(c) /\ Run(c)' = Run(c)
    BY <1>2 DEF Moves, Allowed, Run
  <1>5. Places(c)'
    BY <1>1, <1>2, <1>3, <1>4 DEF Moves, Places
  <1>6. Runs(c)'
    BY <1>1, <1>2, <1>3, <1>4 DEF Moves, Runs
  <1> QED BY <1>2, <1>5, <1>6, StepKeeps

(* A handler decodes the request and goes through the interceptor.         *)
LEMMA DecodeKeeps ==
  ASSUME IInv, NEW c \in Calls, Decode(c)
  PROVE  IInv'
  <1>1. /\ server = "serving" /\ at[c] = "decode"
        /\ UNCHANGED <<dep, server, registered, client, request, target, ran, sent, received>>
    BY DEF Decode
  <1>2. Run(c) \notin ran /\ outcome[c] = "none"
    BY <1>1, Found DEF Runs
  <1>3. CASE Ends(c, "error")
    <2>1. Moves(c, "done", "error")
      BY <1>1, <1>2, <1>3, EachUpdates DEF IInv, Ends, Moves
    <2> QED BY <1>1, <2>1, MovesKeep DEF Inside, Outcomes
  <1>4. CASE at' = [at EXCEPT ![c] = "intercept"] /\ UNCHANGED outcome
    <2>1. Only(at, at', c) /\ at'[c] = "intercept"
      BY <1>4, EachUpdates DEF IInv
    <2>2. Moves(c, "intercept", "none")
      BY <1>1, <1>2, <1>4, <2>1, AllPerCall, Stays DEF IInv, Moves
    <2> QED BY <1>1, <2>2, MovesKeep DEF Inside, Outcomes
  <1> QED BY <1>3, <1>4 DEF Decode

(* The full name that a unary handler tells the interceptor is that of the *)
(* method that would run.                                                  *)
LEMMA RuleIsAboutTarget ==
  ASSUME IInv, NEW c \in Calls, Fitting(target[c], request[c]), ~Refused(c)
  PROVE  Allowed(c)
  <1> DEFINE t  == target[c]
             sv == Service[t.service]
  <1>1. SUFFICES ASSUME <<sv.name, t.method>> = dep.refuses
                 PROVE  t.method \in DOMAIN sv.stream
    BY DEF Allowed
  <1>2. dep \in Deployments /\ registered \subseteq Served
    BY DEF IInv, TypeOK
  <1>3. /\ dep.transport \in {"grpc", "netrpc"} /\ Served \subseteq Services
        /\ dep.transport = "netrpc" => dep.refuses = NoRule
    BY <1>2, ServicesAssumption, ServicesAgree DEF Served
  <1>4. t.service \in Services
    BY <1>2, <1>3 DEF Fitting
  <1>5. Agrees(sv)
    BY <1>4, ServicesAgree
  <1>6. Intercepts
    <2>1. sv.name # ""
      BY <1>5 DEF Agrees
    <2> HIDE DEF t, sv
    <2>2. dep.refuses[1] = sv.name
      <3>1. \A a, b : <<a, b>>[1] = a
        OBVIOUS
      <3> QED BY <1>1, <3>1
    <2>3. NoRule[1] = ""
      BY DEF NoRule
    <2> QED BY <2>1, <2>2, <2>3 DEF Intercepts
  <1>7. t # NoTarget /\ t.entry = t.method /\ t.method \in DOMAIN sv.unary \cup DOMAIN sv.stream
    BY <1>3, <1>6 DEF Intercepts, Fitting, Entries
  <1>8. CASE t.method \in DOMAIN sv.unary
    <2>1. sv.unary[t.entry].tells = dep.refuses
      BY <1>1, <1>5, <1>7, <1>8 DEF Agrees
    <2>2. Streams(c)
      BY <1>6, <2>1 DEF Refused
    <2> QED BY <1>7, <2>2 DEF Streams
  <1> QED BY <1>7, <1>8

(* So what passes it is allowed, and the rest is refused.                  *)
LEMMA InterceptKeeps ==
  ASSUME IInv, NEW c \in Calls, Intercept(c)
  PROVE  IInv'
  <1>1. /\ server = "serving" /\ at[c] = "intercept"
        /\ UNCHANGED <<dep, server, registered, client, request, target, ran, sent, received>>
        /\ Refused(c) => Ends(c, "error")
        /\ ~Refused(c) => at' = [at EXCEPT ![c] = "method"] /\ UNCHANGED outcome
    BY DEF Intercept
  <1>2. Run(c) \notin ran /\ outcome[c] = "none" /\ Fitting(target[c], request[c]) /\ Named(request[c])
    BY <1>1, Found DEF Places, Runs
  <1>3. CASE Refused(c)
    <2>1. Ends(c, "error")
      BY <1>1, <1>3
    <2>2. Moves(c, "done", "error")
      BY <1>1, <1>2, <2>1, EachUpdates DEF IInv, Ends, Moves
    <2> QED BY <1>1, <2>2, MovesKeep DEF Inside, Outcomes
  <1>4. CASE ~Refused(c)
    <2>0. Allowed(c)
      BY <1>2, <1>4, RuleIsAboutTarget
    <2>1. Only(at, at', c) /\ at'[c] = "method" /\ UNCHANGED outcome
      BY <1>1, <1>4, EachUpdates DEF IInv
    <2>2. Moves(c, "method", "none")
      BY <1>1, <1>2, <2>0, <2>1, AllPerCall, Stays DEF IInv, Moves
    <2> QED BY <1>1, <2>2, MovesKeep DEF Inside, Outcomes
  <1> QED BY <1>3, <1>4

(* The method runs, once, and returns or begins to stream.                 *)
LEMMA MethodKeeps ==
  ASSUME IInv, NEW c \in Calls, Method(c)
  PROVE  IInv'
  <1>1. /\ server = "serving" /\ at[c] = "method" /\ ran' = ran \cup {Run(c)}
        /\ UNCHANGED <<dep, server, registered, client, request, target, sent, received>>
    BY DEF Method, Run
  <1>2. outcome[c] = "none" /\ Allowed(c) /\ Run(c) \in ran'
    BY <1>1, Found DEF Places, Runs
  <1>3. CASE at' = [at EXCEPT ![c] = "streaming"] /\ UNCHANGED outcome
    <2>1. Only(at, at', c) /\ at'[c] = "streaming"
      BY <1>3, EachUpdates DEF IInv
    <2>2. Moves(c, "streaming", "none")
      BY <1>1, <1>2, <1>3, <2>1, AllPerCall, Stays DEF IInv, Moves
    <2> QED BY <1>1, <2>2, MovesKeep DEF Inside, Outcomes
  <1>4. ASSUME NEW how \in {"ok", "error"}, Ends(c, how) PROVE IInv'
    <2>1. Moves(c, "done", how)
      BY <1>1, <1>2, <1>4, EachUpdates DEF IInv, Ends, Moves
    <2> QED BY <1>1, <2>1, MovesKeep DEF Inside, Outcomes
  <1> QED BY <1>3, <1>4 DEF Method

(* A method that is missing: an error, never a panic, for a server that    *)
(* embeds a nil pointer did not come to serve.                             *)
LEMMA UnimplementedKeeps ==
  ASSUME IInv, NEW c \in Calls, Unimplemented(c)
  PROVE  IInv'
  <1>1. server = "serving" /\ at[c] = "method" /\ UNCHANGED <<dep, registered, client, request, target, ran, sent, received>>
    BY DEF Unimplemented
  <1>2. Run(c) \notin ran /\ outcome[c] = "none" /\ Fitting(target[c], request[c])
    BY <1>1, Found DEF Places, Runs
  <1>3. ~(dep.transport = "grpc" /\ dep.services[target[c].service].embeds = "nil")
    BY <1>2 DEF IInv, Servers, Fitting
  <1>4. Ends(c, "error") /\ UNCHANGED server
    BY <1>3 DEF Unimplemented
  <1>5. Moves(c, "done", "error")
    BY <1>1, <1>2, <1>4, EachUpdates DEF IInv, Ends, Moves
  <1> QED BY <1>1, <1>5, MovesKeep DEF Inside, Outcomes

(* A stream sends a chunk, or ends.                                        *)
LEMMA StreamKeeps ==
  ASSUME IInv, NEW c \in Calls, Send(c) \/ StreamEnds(c)
  PROVE  IInv'
  <1>1. /\ server = "serving" /\ at[c] = "streaming"
        /\ UNCHANGED <<dep, server, registered, client, request, target, ran, received>>
    BY DEF Send, StreamEnds
  <1>2. /\ outcome[c] = "none" /\ Allowed(c) /\ Run(c) \in ran /\ client[c] # "ok"
        /\ Fitting(target[c], request[c]) /\ Named(request[c]) /\ client[c] # "idle"
    BY <1>1, Found DEF Places, Runs
  <1>3. CASE Send(c)
    <2>1. sent[c] < MaxChunks /\ sent' = [sent EXCEPT ![c] = sent[c] + 1] /\ UNCHANGED <<at, outcome>>
      BY <1>3 DEF Send
    <2>2. Only(sent, sent', c) /\ sent'[c] = sent[c] + 1
      BY <2>1, EachUpdates DEF IInv
    <2>3. sent'[c] \in 0 .. MaxChunks /\ received[c] \in 0 .. sent'[c]
      <3>1. sent[c] \in 0 .. MaxChunks /\ received[c] \in 0 .. sent[c] /\ MaxChunks \in Nat
        BY Found, ServicesAssumption
      <3> QED BY <2>1, <2>2, <3>1
    <2>4. /\ StepOf(c) /\ target'[c] = target[c] /\ request'[c] = request[c] /\ at'[c] = at[c]
          /\ client'[c] = client[c] /\ outcome'[c] = outcome[c]
      BY <1>1, <2>1, <2>2, <2>3, AllPerCall, Stays, Found DEF IInv, StepOf
    <2>5. Allowed(c)' = Allowed(c) /\ Run(c)' = Run(c)
      BY <1>1, <2>4 DEF Allowed, Run
    <2>6. Fitting(target[c], request[c])' /\ Named(request[c])'
      BY <1>1, <1>2, <2>4 DEF Fitting, Named
    <2>7. Places(c)' /\ Runs(c)'
      BY <1>1, <1>2, <2>4, <2>5, <2>6 DEF Places, Runs
    <2> QED BY <2>4, <2>7, StepKeeps
  <1>4. CASE StreamEnds(c)
    <2>1. PICK how \in {"ok", "error"} : Ends(c, how)
      BY <1>4 DEF StreamEnds
    <2>2. UNCHANGED sent
      BY <1>4 DEF StreamEnds
    <2>3. Moves(c, "done", how)
      BY <1>1, <1>2, <2>1, <2>2, EachUpdates DEF IInv, Ends, Moves
    <2> QED BY <1>1, <2>3, MovesKeep DEF Inside, Outcomes
  <1> QED BY <1>3, <1>4

(* The client receives a chunk, has its answer, or gives up.               *)
LEMMA ClientKeeps ==
  ASSUME IInv, NEW c \in Calls, Receive(c) \/ Answer(c) \/ GiveUp(c)
  PROVE  IInv'
  <1>1. /\ client[c] = "waiting"
        /\ UNCHANGED <<dep, server, registered, request, at, target, outcome, ran, sent>>
    BY DEF Receive, Answer, GiveUp
  <1>2. server = "serving" /\ at[c] # "none"
    BY <1>1, Found DEF Places
  <1>3. /\ Only(client, client', c) /\ Only(received, received', c)
        /\ client'[c] \in {"waiting", "ok", "failed"} /\ received'[c] \in 0 .. sent[c]
        /\ client'[c] = "ok" => outcome[c] = "ok" /\ received'[c] = sent[c]
    <2>1. CASE Receive(c)
      <3>1. received' = [received EXCEPT ![c] = received[c] + 1] /\ received[c] < sent[c] /\ client' = client
        BY <2>1 DEF Receive
      <3>2. Only(received, received', c) /\ received'[c] = received[c] + 1
        BY <3>1, EachUpdates DEF IInv
      <3>3. received'[c] \in 0 .. sent[c]
        <4>1. received[c] \in 0 .. sent[c] /\ sent[c] \in 0 .. MaxChunks /\ MaxChunks \in Nat
          BY Found, ServicesAssumption
        <4> QED BY <3>1, <3>2, <4>1
      <3> QED BY <1>1, <3>1, <3>2, <3>3, AllPerCall, Stays DEF IInv
    <2>2. CASE Answer(c)
      <3>1. /\ client' = [client EXCEPT ![c] = IF outcome[c] = "ok" THEN "ok" ELSE "failed"]
            /\ received' = received /\ (outcome[c] = "ok" => received[c] = sent[c])
        BY <2>2 DEF Answer
      <3>2. Only(client, client', c) /\ client'[c] = IF outcome[c] = "ok" THEN "ok" ELSE "failed"
        BY <3>1, EachUpdates DEF IInv
      <3> QED BY <3>1, <3>2, AllPerCall, Stays, Found DEF IInv
    <2>3. CASE GiveUp(c)
      <3>1. client' = [client EXCEPT ![c] = "failed"] /\ received' = received
        BY <2>3 DEF GiveUp
      <3>2. Only(client, client', c) /\ client'[c] = "failed"
        BY <3>1, EachUpdates DEF IInv
      <3> QED BY <3>1, <3>2, AllPerCall, Stays, Found DEF IInv
    <2> QED BY <2>1, <2>2, <2>3
  <1>4. /\ StepOf(c) /\ target'[c] = target[c] /\ request'[c] = request[c] /\ at'[c] = at[c]
        /\ outcome'[c] = outcome[c] /\ sent'[c] = sent[c]
    BY <1>1, <1>2, <1>3, AllPerCall, Stays, Found DEF IInv, StepOf, Clients
  <1>5. Allowed(c)' = Allowed(c) /\ Run(c)' = Run(c)
    BY <1>1 DEF Allowed, Run
  <1>6. Named(request[c])' = Named(request[c])
        /\ Fitting(target[c], request[c])' = Fitting(target[c], request[c])
    BY <1>1 DEF Fitting, Named
  <1>7. Places(c)'
    BY <1>1, <1>2, <1>3, <1>4, <1>5, <1>6, Found DEF Places
  <1>8. Runs(c)'
    BY <1>1, <1>2, <1>3, <1>4, <1>5, <1>6, Found DEF Runs
  <1> QED BY <1>4, <1>7, <1>8, StepKeeps

-----------------------------------------------------------------------------
(***************************************************************************)
(* The server's own steps.                                                 *)
(***************************************************************************)

(* A service is registered, if it can be; when all are, the server serves. *)
LEMMA ServerKeeps ==
  ASSUME IInv, (\E s \in Served : Register(s)) \/ Serve \/ UNCHANGED vars
  PROVE  IInv'
  <1>1. dep' = dep /\ UNCHANGED callVars
    BY DEF Register, Serve, vars, callVars
  <1>2. /\ registered \subseteq registered' /\ registered' \subseteq Served
        /\ dep.transport = "grpc" => \A s \in registered' : dep.services[s].embeds # "nil"
        /\ server' \in {"starting", "serving", "panicked"}
        /\ server' # server => server = "starting"
        /\ registered' # registered => server = "starting"
    <2>1. /\ registered \subseteq Served /\ server \in {"starting", "serving", "panicked"}
          /\ dep.transport = "grpc" => \A s \in registered : dep.services[s].embeds # "nil"
      BY DEF IInv, TypeOK, Servers
    <2>2. CASE Serve
      BY <2>1, <2>2 DEF Serve
    <2>3. ASSUME NEW s \in Served, Register(s)
          PROVE  /\ registered \subseteq registered' /\ registered' \subseteq Served
                 /\ dep.transport = "grpc" => \A t \in registered' : dep.services[t].embeds # "nil"
                 /\ server' \in {"starting", "serving", "panicked"}
                 /\ server' # server => server = "starting"
                 /\ registered' # registered => server = "starting"
      BY <2>1, <2>3 DEF Register
    <2>4. CASE UNCHANGED vars
      BY <2>1, <2>4 DEF vars
    <2> QED BY <2>2, <2>3, <2>4, <2>1
  <1>3. ASSUME NEW d \in Calls PROVE Places(d)' /\ Runs(d)'
    <2>1. Apart(d)
      BY <1>1 DEF callVars, Apart
    <2>2. registered' = registered \/ at[d] = "none"
      BY <1>2 DEF IInv, Servers, Places
    <2> QED BY <1>1, <1>2, <2>1, <2>2, ApartKeeps DEF IInv
  <1>4. UNCHANGED <<client, request, at, target, outcome, ran, sent, received>>
    BY <1>1 DEF callVars
  <1>5. Servers'
    <2>1. server' # "serving" => server # "serving"
      BY <1>2
    <2> QED BY <1>1, <1>2, <1>4, <2>1 DEF IInv, Servers
  <1>6. TypeOK'
    <2>1. server # "serving" => \A c \in Calls : client[c] = "idle"
      BY DEF IInv, Servers
    <2>2. server' = "panicked" => \A c \in Calls : client[c] = "idle"
      BY <1>2, <2>1
    <2> QED BY <1>1, <1>2, <1>4, <2>2 DEF IInv, TypeOK, Served
  <1>7. Shapes' /\ \A r \in ran' : r.call \in Calls /\ r = Run(r.call)'
    BY <1>4 DEF IInv, Shapes, PerCall, Run
  <1> QED BY <1>3, <1>5, <1>6, <1>7 DEF IInv

(* At first nobody has called.                                             *)
LEMMA IInvInit ==
  ASSUME Init
  PROVE  IInv
  <1>1. MaxChunks \in Nat /\ 0 \in 0 .. MaxChunks
    BY ServicesAssumption
  <1>2. TypeOK
    BY <1>1 DEF Init, TypeOK
  <1>3. Shapes
    BY <1>1 DEF Init, Shapes, PerCall
  <1>4. Servers
    BY DEF Init, Servers
  <1>5. ASSUME NEW c \in Calls PROVE Places(c) /\ Runs(c)
    BY DEF Init, Places, Runs
  <1>6. ran = {}
    BY DEF Init
  <1> QED BY <1>2, <1>3, <1>4, <1>5, <1>6 DEF IInv

-----------------------------------------------------------------------------
(***************************************************************************)
(* The theorems.                                                           *)
(***************************************************************************)

(* The inductive invariant holds in every reachable state, for every set   *)
(* of plugin servers, on both transports.                                  *)
THEOREM Invariance == Spec => []IInv
  <1>1. Init => IInv
    BY IInvInit
  <1>2. IInv /\ [Next]_vars => IInv'
    <2> SUFFICES ASSUME IInv, [Next]_vars PROVE IInv'
      OBVIOUS
    <2>1. CASE (\E s \in Served : Register(s)) \/ Serve \/ UNCHANGED vars
      BY <2>1, ServerKeeps
    <2>2. ASSUME NEW c \in Calls, NEW s \in DOMAIN Service, NEW m \in Methods(s), Stub(c, s, m)
          PROVE  IInv'
      BY <2>2, StubKeeps
    <2>3. ASSUME NEW c \in Calls, Handle(c) PROVE IInv'
      BY <2>3, DispatchKeeps, DecodeKeeps, InterceptKeeps, MethodKeeps, UnimplementedKeeps,
         StreamKeeps DEF Handle
    <2>4. ASSUME NEW c \in Calls, Receive(c) \/ Answer(c) \/ GiveUp(c) PROVE IInv'
      BY <2>4, ClientKeeps
    <2> QED BY <2>1, <2>2, <2>3, <2>4 DEF Next
  <1> QED BY <1>1, <1>2, PTL DEF Spec

(* A handler only ever calls a method of the service's client, and a       *)
(* server with a nil Unimplemented...Server never comes to serve.          *)
THEOREM TypeCorrect == Spec => []TypeOK
  <1>1. IInv => TypeOK
    BY DEF IInv
  <1> QED BY <1>1, Invariance, PTL

(* The method that runs is the one that the stub or the wrapper stands     *)
(* for, of the same service (net/rpc's ListModels is the one exception),   *)
(* and a service that is served is never unknown: it rests on the          *)
(* generated constants and tables, read one by one (ServicesAgree).        *)
THEOREM CallsRunTheirMethod == Spec => []RoutedToSelf
  <1>1. ASSUME IInv PROVE RoutedToSelf
    <2>1. ASSUME NEW r \in ran
          PROVE  /\ r.method = request[r.call].method
                 /\ \/ r.service = request[r.call].service
                    \/ dep.transport = "netrpc" /\ r.method = "ListModels"
      <3>1. r.call \in Calls /\ r = Run(r.call)
        BY <1>1 DEF IInv
      <3>2. Fitting(target[r.call], request[r.call])
        BY <1>1, <3>1 DEF IInv, Runs
      <3>3. r.service = target[r.call].service /\ r.method = target[r.call].method
        BY <3>1 DEF Run
      <3> QED BY <3>2, <3>3 DEF Fitting
    <2>2. ASSUME NEW c \in Calls, at[c] = "done", target[c] = NoTarget
          PROVE  request[c].service \notin registered
      BY <1>1, <2>2 DEF IInv, Places
    <2> QED BY <2>1, <2>2 DEF RoutedToSelf
  <1> QED BY <1>1, Invariance, PTL

(* A success has run its method once and has all its chunks; what the      *)
(* interceptor refuses has not run.                                        *)
THEOREM SuccessIsARun == Spec => []AnswerMatchesRun
  <1>1. ASSUME IInv PROVE AnswerMatchesRun
    <2>1. ASSUME NEW c \in Calls, client[c] = "ok"
          PROVE  Cardinality({r \in ran : r.call = c}) = 1 /\ received[c] = sent[c]
      <3>1. Run(c) \in ran /\ received[c] = sent[c]
        BY <1>1, <2>1 DEF IInv, Runs
      <3>2. Run(c).call = c
        BY DEF Run
      <3>3. {r \in ran : r.call = c} = {Run(c)}
        BY <1>1, <3>1, <3>2 DEF IInv
      <3> QED BY <3>1, <3>3, FS_Singleton
    <2>2. ASSUME NEW r \in ran, <<Service[r.service].name, r.method>> = dep.refuses
          PROVE  r.method \in DOMAIN Service[r.service].stream
      <3>1. r.call \in Calls /\ r = Run(r.call)
        BY <1>1 DEF IInv
      <3>2. Allowed(r.call)
        BY <1>1, <3>1 DEF IInv, Runs
      <3>3. r.service = target[r.call].service /\ r.method = target[r.call].method
        BY <3>1 DEF Run
      <3> QED BY <2>2, <3>2, <3>3 DEF Allowed
    <2> QED BY <2>1, <2>2 DEF AnswerMatchesRun
  <1> QED BY <1>1, Invariance, PTL
===============================================================================
