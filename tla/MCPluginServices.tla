--------------------------- MODULE MCPluginServices ---------------------------
(***************************************************************************)
(* Instances of PluginServices for TLC: a small set of plugin servers that *)
(* meets every service and every way that a call can go wrong.             *)
(***************************************************************************)
EXTENDS PluginServices

All(s)  == [embeds |-> "value", implements |-> Methods(s)]
None(s) == [embeds |-> "value", implements |-> {}]
Grpc(services, refuses) ==
  [transport |-> "grpc", services |-> services, refuses |-> refuses]

MCDeployments ==
  { \* each service alone, complete
    Grpc([s \in {t} |-> All(t)], NoRule) : t \in DOMAIN Service }
  \cup
  { \* two services with a method of one name; one of them lacks its methods
    Grpc([s \in {"upstream_provider", "model_registry_provider"} |->
            IF s = lacks THEN None(s) ELSE All(s)], NoRule) :
      lacks \in {"", "upstream_provider", "model_registry_provider"} }
  \cup
  { \* an embedded pointer, good or nil, in a server that lacks a method
    Grpc([s \in {"plugin", "cache_provider"} |->
            IF s = "plugin" THEN All(s) ELSE [embeds |-> e, implements |-> {"Lookup"}]],
         NoRule) : e \in {"pointer", "nil"} }
  \cup
  { \* an interceptor with a rule about one method, by the name in the .proto file
    Grpc([s \in DOMAIN Service \ {"plugin"} |-> All(s)], r) :
      r \in {<<"RateLimiterService", "Commit">>, <<"CacheProviderService", "Store">>,
             <<"UpstreamProviderService", "Invoke">>,
             <<"UpstreamProviderService", "ListModels">>} }
  \cup
  { \* the core service behind such an interceptor
    Grpc([s \in {"plugin"} |-> All(s)], <<"PluginService", "Shutdown">>) }
  \cup
  { \* the transport that the gateway uses
    [transport |-> "netrpc", refuses |-> NoRule, services |-> [s \in served |-> All(s)]] :
      served \in {{"plugin"}, {"rate_limiter", "cost_provider"}, {"cache_provider", "observer"},
                  {"upstream_provider", "model_registry_provider"}} }
=============================================================================
