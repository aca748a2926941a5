--------------------------- MODULE PluginLifecycle ---------------------------
(***************************************************************************)
(* The gateway from its start to its exit: Load, App.New (Manager.Start,   *)
(* plugin by plugin, then NewRegistry and compile), App.Run and            *)
(* Manager.Stop, as main calls them.                                       *)
(*                                                                         *)
(* Plugins are numbered in the order of cfg.Plugins and are external       *)
(* processes: they may refuse, fall silent or die at any point.  A signal  *)
(* may arrive at any point.  The pipeline's configuration, the registry    *)
(* and the manager's maps know plugins by name.                            *)
(***************************************************************************)
EXTENDS Configuration

CONSTANTS
  Caps,      \* capability types; some of "authenticator", "router", "upstream", ...
  Configs,   \* the configuration files considered
  Env        \* the environment: secret -> leaf

(* What is left of the file's types (Config and its parts).  A plugin has  *)
(* its source's type, whether the fields this type needs are complete, its *)
(* capabilities (declared) and its config (leaves).  insisted: the stages  *)
(* compile does not do without (authorizer, rate limiter, cache, prompt,   *)
(* observers) as pairs of capability and name.                             *)
PluginFields == {"name", "type", "complete", "failMode", "trust", "sandbox", "declared", "leaves"}
ConfigFields == {"durations", "retryOn", "plugins", "aliases", "envEnabled", "anonymous",
                 "authenticator", "router", "upstreams", "insisted"}
IsList(s)    == Len(s) \in Nat /\ s = [i \in 1 .. Len(s) |-> s[i]]

IsPlugin(p) ==
  /\ DOMAIN p = PluginFields
  /\ {p.name, p.type, p.failMode, p.trust} \subseteq STRING
  /\ {p.complete, p.sandbox} \subseteq BOOLEAN
  /\ p.declared \subseteq Caps
  /\ \A k \in DOMAIN p.leaves : /\ p.leaves[k].kind \in {"ref", "text", "nan", "value"}
                               /\ p.leaves[k].hidden \in BOOLEAN
IsConfig(c) ==
  /\ DOMAIN c = ConfigFields
  /\ DOMAIN c.durations = DOMAIN DefaultDurations
  /\ \A k \in DOMAIN c.durations :
       /\ c.durations[k].kind \in {"absent", "str", "int", "other"}
       /\ c.durations[k].amount \in Int /\ c.durations[k].unit \in Nat
  /\ c.retryOn \subseteq STRING
  /\ IsList(c.plugins) /\ \A i \in DOMAIN c.plugins : IsPlugin(c.plugins[i])
  /\ \A m \in DOMAIN c.aliases :
       /\ IsList(c.aliases[m])
       /\ \A i \in DOMAIN c.aliases[m] : /\ DOMAIN c.aliases[m][i] = {"provider", "weight"}
                                          /\ c.aliases[m][i].weight \in Int
  /\ {c.anonymous, c.envEnabled} \subseteq BOOLEAN
  /\ {c.authenticator, c.router} \cup c.upstreams \subseteq STRING
  /\ c.insisted \subseteq Caps \X STRING

ASSUME ConfigAssumption == \A c \in Configs : IsConfig(c)

VARIABLES
  file,       \* the configuration file
  cfg,        \* the configuration once it is loaded
  models,     \* the model registry
  phase,      \* "load", "start", "compile", "serving", "shutdown", "stop" or "exited"
  exit,       \* "no", "config refused", "startup failed", "server failed" or "stopped"
  cur, step,  \* the plugin Manager.Start is at, and what comes next for it
  proc,       \* per plugin: "none", "running" or "dead"
  offers,     \* per plugin: the capabilities of its metadata
  permits,    \* per plugin: the secrets its metadata asks for
  given,      \* per plugin: the text of the config and the secrets Configure is to send
  configured, \* plugins whose Configure succeeded
  tracked,    \* the plugins in m.processes and m.clients
  registry,   \* pairs of capability and name
  ready,      \* p.ready
  signalled,  \* the context of main has ended
  inflight,   \* a request is being served
  expired,    \* the shutdown timeout has passed
  toStop,     \* processes Manager.Stop has still to stop
  stopping    \* the process it waits for, 0 if none

vars == <<file, cfg, models, phase, exit, cur, step, proc, offers, permits, given,
          configured, tracked, registry, ready, signalled, inflight, expired, toStop, stopping>>

cfgVars   == <<file, cfg, models>>
plugVars  == <<offers, permits, given, configured>>
startVars == <<cur, step, plugVars, tracked, registry>>
runVars   == <<ready, inflight, expired, toStop, stopping>>

Plugins == 1 .. Len(file.plugins)
Name(p) == file.plugins[p].name
Names   == {Name(p) : p \in Plugins}
Steps   == <<"check", "resolve", "launch", "await", "dial", "handshake", "metadata",
             "schema", "secrets", "configure", "register">>
Calls   == {"handshake", "metadata", "schema", "configure"}

Unloaded == <<>>
Nothing  == [json |-> [text |-> "none", config |-> <<>>], secrets |-> {}]

Init ==
  /\ file \in Configs /\ cfg = Unloaded /\ models = <<>>
  /\ phase = "load" /\ exit = "no" /\ cur = 1 /\ step = 1
  /\ proc = [p \in Plugins |-> "none"] /\ offers = [p \in Plugins |-> {}]
  /\ permits = [p \in Plugins |-> {}] /\ given = [p \in Plugins |-> Nothing]
  /\ configured = {} /\ tracked = {} /\ registry = {}
  /\ ready = FALSE /\ signalled = FALSE /\ inflight = FALSE /\ expired = FALSE
  /\ toStop = {} /\ stopping = 0

At(name)    == phase = "start" /\ Steps[step] = name
Exit(how)   == phase' = "exited" /\ exit' = how
Advance     == step' = step + 1 /\ UNCHANGED <<phase, exit>>

-----------------------------------------------------------------------------
(* main: Load, and App.New, which calls Manager.Start only if there are    *)
(* plugins.                                                                *)
LoadConfig ==
  /\ phase = "load"
  /\ IF Loads(file)
     THEN /\ cfg' = Load(file) /\ UNCHANGED exit
          /\ phase' = IF Plugins = {} THEN "compile" ELSE "start"
     ELSE Exit("config refused") /\ UNCHANGED cfg
  /\ UNCHANGED <<file, models, startVars, proc, runVars, signalled>>

-----------------------------------------------------------------------------
(***************************************************************************)
(* Manager.Start.  Nothing that was started is stopped when a step fails:  *)
(* App.New returns the error and main exits.                               *)
(***************************************************************************)
Refused(p) == cfg.plugins[p].trust = "untrusted" /\ ~cfg.plugins[p].sandbox

CheckTrust_Skipped ==
  /\ At("check")
  /\ Advance
  /\ UNCHANGED <<cfgVars, cur, proc, plugVars, tracked, registry, runVars, signalled>>
CheckTrust ==
  /\ At("check") /\ ~Refused(cur)
  /\ Advance
  /\ UNCHANGED <<cfgVars, cur, proc, plugVars, tracked, registry, runVars, signalled>>

ResolveSource ==
  /\ At("resolve")
  /\ Advance
  /\ UNCHANGED <<cfgVars, cur, proc, plugVars, tracked, registry, runVars, signalled>>

Launch ==
  /\ At("launch")
  /\ proc' = [proc EXCEPT ![cur] = "running"]
  /\ Advance
  /\ UNCHANGED <<cfgVars, cur, plugVars, tracked, registry, runVars, signalled>>

(* The socket accepts connections: first Process.Start's probe, then the   *)
(* client's own connection.                                                *)
Connect ==
  /\ At("await") \/ At("dial")
  /\ proc[cur] = "running"
  /\ Advance
  /\ UNCHANGED <<cfgVars, cur, proc, plugVars, tracked, registry, runVars, signalled>>

(* A call that the plugin answers as it should.                            *)
Call ==
  /\ \E name \in Calls : At(name)
  /\ proc[cur] = "running"
  /\ IF At("metadata")
     THEN /\ \E cs \in SUBSET Caps : offers' = [offers EXCEPT ![cur] = cs]
          /\ \E names \in SUBSET Refs(cfg.plugins[cur].leaves) :
               permits' = [permits EXCEPT ![cur] = names]
     ELSE UNCHANGED <<offers, permits>>
  /\ configured' = IF At("configure") THEN configured \cup {cur} ELSE configured
  /\ Advance
  /\ UNCHANGED <<cfgVars, cur, proc, given, tracked, registry, runVars, signalled>>

(* The secrets are resolved and the configuration fits the schema: one     *)
(* that does not encode fits a blank schema alone.                         *)
Secrets ==
  LET leaves == cfg.plugins[cur].leaves
  IN  /\ At("secrets")
      /\ ResolvesSecrets(leaves, permits[cur], cfg.envEnabled, Env)
      /\ given' = [given EXCEPT ![cur] = [json |-> ConfigJSON(leaves, Env),
                                         secrets |-> ResolvedSecrets(leaves)]]
      /\ Advance
      /\ UNCHANGED <<cfgVars, cur, proc, offers, permits, configured, tracked, registry,
                     runVars, signalled>>

(* A step fails: refused, not found, not started, no socket in time, no    *)
(* connection, a call that failed or whose context ended, a secret that is *)
(* not permitted, a configuration that does not fit.                       *)
StepFails ==
  /\ phase = "start" /\ ~At("register")
  /\ At("check") => Refused(cur)
  /\ Exit("startup failed")
  /\ UNCHANGED <<cfgVars, startVars, proc, runVars, signalled>>

(* registerClient: what is configured and in the metadata too, and the     *)
(* entries that the registry's Add functions make of it.                   *)
Provided_ConfigOnly == cfg.plugins[cur].declared
Provided == cfg.plugins[cur].declared \cap offers[cur]
Entries  == Provided \X {Name(cur)}

Register_StepNotReset ==
  /\ At("register")
  /\ registry' = registry \cup Entries
  /\ tracked' = {p \in tracked : Name(p) # Name(cur)} \cup {cur}
  /\ cur' = cur + 1 /\ step' = step + 1
  /\ phase' = IF cur = Len(cfg.plugins) THEN "compile" ELSE "start"
  /\ UNCHANGED <<cfgVars, exit, proc, plugVars, runVars, signalled>>
Register ==
  /\ At("register")
  /\ registry' = registry \cup Entries
  /\ tracked' = {p \in tracked : Name(p) # Name(cur)} \cup {cur}
  /\ cur' = cur + 1 /\ step' = 1
  /\ phase' = IF cur = Len(cfg.plugins) THEN "compile" ELSE "start"
  /\ UNCHANGED <<cfgVars, exit, proc, plugVars, runVars, signalled>>

-----------------------------------------------------------------------------
(***************************************************************************)
(* NewRegistry and compile.  An authenticator, a router and an upstream that are missing   *)
(* leave the gateway not ready; any other stage that is named but not      *)
(* registered, a named upstream among them, is an error.                   *)
(***************************************************************************)
(* Registry.Has, and the look-ups that fail without an entry.              *)
Has(c, name) == <<c, name>> \in registry

Missing ==
  {c \in {"authenticator", "router", "upstream"} :
     \/ c = "authenticator" /\ ~cfg.anonymous /\ ~Has(c, cfg.authenticator)
     \/ c = "router" /\ ~Has(c, cfg.router)
     \/ c = "upstream" /\ cfg.upstreams = {}}

Resolved == /\ \A name \in cfg.upstreams : Has("upstream", name)
            /\ cfg.insisted \subseteq registry

Compile ==
  /\ phase = "compile"
  /\ models' = NewRegistry(cfg.aliases)
  /\ \/ /\ Resolved
        /\ ready' = (Missing = {})
        /\ phase' = "serving" /\ UNCHANGED exit
     \/ /\ ~Resolved
        /\ Exit("startup failed") /\ UNCHANGED ready
  /\ UNCHANGED <<file, cfg, startVars, proc, signalled, inflight, expired, toStop, stopping>>

-----------------------------------------------------------------------------
(***************************************************************************)
(* App.Run.                                                                *)
(***************************************************************************)
RequestBegins ==
  /\ phase = "serving" /\ ~inflight
  /\ inflight' = TRUE
  /\ UNCHANGED <<cfgVars, phase, exit, startVars, proc, signalled, ready, expired, toStop, stopping>>

RequestEnds ==
  /\ inflight /\ phase # "exited"
  /\ inflight' = FALSE
  /\ UNCHANGED <<cfgVars, phase, exit, startVars, proc, signalled, ready, expired, toStop, stopping>>

(* ListenAndServe failed: Run returns at once, without Manager.Stop.       *)
ServerFails ==
  /\ phase = "serving"
  /\ Exit("server failed")
  /\ UNCHANGED <<cfgVars, startVars, proc, runVars, signalled>>

(* A timeout that is zero cannot be configured, one below zero can, and    *)
(* has passed when it begins.                                              *)
ShutdownBegins ==
  /\ phase = "serving" /\ signalled
  /\ phase' = "shutdown"
  /\ expired' = (cfg.durations.request_timeout <= 0)
  /\ UNCHANGED <<cfgVars, exit, startVars, proc, signalled, ready, inflight, toStop, stopping>>

(* sctx, shared by Server.Shutdown and Manager.Stop.                       *)
ShutdownExpires ==
  /\ phase \in {"shutdown", "stop"} /\ ~expired
  /\ expired' = TRUE
  /\ UNCHANGED <<cfgVars, phase, exit, startVars, proc, signalled, ready, inflight, toStop, stopping>>

(* Server.Shutdown returns and Manager.Stop closes the clients.            *)
ShutdownReturns_NoWait ==
  /\ phase = "shutdown"
  /\ phase' = "stop" /\ toStop' = tracked
  /\ UNCHANGED <<cfgVars, exit, startVars, proc, signalled, ready, inflight, expired, stopping>>
ShutdownReturns ==
  /\ phase = "shutdown" /\ (~inflight \/ expired)
  /\ phase' = "stop" /\ toStop' = tracked
  /\ UNCHANGED <<cfgVars, exit, startVars, proc, signalled, ready, inflight, expired, stopping>>

(* Process.Stop interrupts the process and waits for it, for three seconds *)
(* or for sctx, and kills it if it is still there.  Manager.Stop takes the *)
(* processes in the random order of a map.                                 *)
Interrupt(p) ==
  /\ phase = "stop" /\ stopping = 0 /\ p \in toStop
  /\ stopping' = p /\ toStop' = toStop \ {p}
  /\ UNCHANGED <<cfgVars, phase, exit, startVars, proc, signalled, ready, inflight, expired>>

ProcessStopped_WaitsForExit ==
  /\ phase = "stop" /\ stopping # 0 /\ proc[stopping] = "dead"
  /\ stopping' = 0
  /\ UNCHANGED <<cfgVars, phase, exit, startVars, proc, signalled, ready, inflight, expired, toStop>>
ProcessStopped_NoKill ==
  /\ phase = "stop" /\ stopping # 0
  /\ stopping' = 0
  /\ UNCHANGED <<cfgVars, phase, exit, startVars, proc, signalled, ready, inflight, expired, toStop>>
ProcessStopped ==
  /\ phase = "stop" /\ stopping # 0
  /\ proc' = [proc EXCEPT ![stopping] = "dead"]
  /\ stopping' = 0
  /\ UNCHANGED <<cfgVars, phase, exit, startVars, signalled, ready, inflight, expired, toStop>>

RunReturns ==
  /\ phase = "stop" /\ stopping = 0 /\ toStop = {}
  /\ Exit("stopped")
  /\ UNCHANGED <<cfgVars, startVars, proc, runVars, signalled>>

-----------------------------------------------------------------------------
(* SIGINT or SIGTERM (external).                                           *)
Signal ==
  /\ phase # "exited" /\ ~signalled
  /\ signalled' = TRUE
  /\ UNCHANGED <<cfgVars, phase, exit, startVars, proc, runVars>>

(* A plugin process ends by itself (external).                             *)
Die(p) ==
  /\ phase # "exited" /\ proc[p] = "running"
  /\ proc' = [proc EXCEPT ![p] = "dead"]
  /\ UNCHANGED <<cfgVars, phase, exit, startVars, runVars, signalled>>

Starting ==
  \/ CheckTrust \/ ResolveSource \/ Launch \/ Connect \/ Call \/ Secrets \/ StepFails \/ Register

Stopping == ProcessStopped \/ RunReturns \/ \E p \in Plugins : Interrupt(p)

Next ==
  \/ LoadConfig \/ Starting \/ Compile \/ RequestBegins \/ RequestEnds \/ ServerFails
  \/ ShutdownBegins \/ ShutdownExpires \/ ShutdownReturns
  \/ Stopping \/ Signal \/ \E p \in Plugins : Die(p)

(* main's context bounds every step of the start once a signal has come    *)
(* (until then a silent plugin may hold it up for good); the rest is local *)
(* work and timers.  Requests and plugins need not end.                    *)
Fairness ==
  /\ WF_vars(LoadConfig) /\ WF_vars(signalled /\ Starting) /\ WF_vars(Compile)
  /\ WF_vars(ShutdownBegins) /\ WF_vars(ShutdownExpires)
  /\ WF_vars(ShutdownReturns) /\ WF_vars(Stopping)

Spec == Init /\ [][Next]_vars
FairSpec == Spec /\ Fairness

-----------------------------------------------------------------------------
(***************************************************************************)
(* Properties.                                                             *)
(***************************************************************************)

(* Type invariant.                                                         *)
TypeOK ==
  /\ file \in Configs
  /\ cfg = IF phase = "load" \/ exit = "config refused" THEN Unloaded ELSE Load(file)
  /\ phase \in {"load", "start", "compile", "serving", "shutdown", "stop", "exited"}
  /\ exit \in {"no", "config refused", "startup failed", "server failed", "stopped"}
  /\ cur \in 1 .. Len(file.plugins) + 1 /\ step \in 1 .. Len(Steps)
  /\ proc \in [Plugins -> {"none", "running", "dead"}]
  /\ offers \in [Plugins -> SUBSET Caps]
  /\ \A p \in Plugins : permits[p] \cup given[p].secrets \subseteq Refs(file.plugins[p].leaves)
  /\ configured \in SUBSET Plugins /\ tracked \in SUBSET Plugins
  /\ registry \in SUBSET (Caps \X Names)
  /\ toStop \in SUBSET tracked /\ stopping \in tracked \cup {0}
  /\ ready \in BOOLEAN /\ signalled \in BOOLEAN
  /\ inflight \in BOOLEAN /\ expired \in BOOLEAN

(* A gateway that calls itself ready has every stage it needs, and behind  *)
(* every stage a plugin that said it can do this, that was configured for  *)
(* it and whose Configure succeeded (registerClient, compile).  What       *)
(* /v1/models lists of the aliases are the models for which a request      *)
(* finds candidates, each with a weight that a router can use.             *)
Serves(c, name) ==
  \E p \in configured : Name(p) = name /\ c \in offers[p] \cap cfg.plugins[p].declared
Routable(m) ==
  /\ m \in ListModels(models, {}) <=> Candidates(models, m) # <<>>
  /\ \A i \in DOMAIN Candidates(models, m) : Candidates(models, m)[i].weight # 0
ReadyIsComplete ==
  ready => /\ cfg.anonymous \/ Serves("authenticator", cfg.authenticator)
           /\ Serves("router", cfg.router)
           /\ cfg.upstreams # {}
           /\ \A name \in cfg.upstreams : Serves("upstream", name)
           /\ \A s \in cfg.insisted : Serves(s[1], s[2])
           /\ \A m \in DOMAIN file.aliases : Routable(m)

(* Plugins are started in order and none after one that failed; one that   *)
(* is not vetted never runs, and neither does any that follows it: one     *)
(* whose trust nobody knows (a misspelt "untrusted", which the check in    *)
(* Manager.Start alone would let pass) or that is untrusted and in no      *)
(* sandbox.                                                                *)
Vetted(p) ==
  \/ file.plugins[p].trust \in {"", "trusted", "community"}
  \/ file.plugins[p].trust = "untrusted" /\ file.plugins[p].sandbox
StartedInOrder ==
  \A p, q \in Plugins :
    /\ proc[q] # "none" /\ p <= q => Vetted(p)
    /\ proc[q] # "none" /\ p < q => p \in tracked /\ p \in configured

(* A plugin gets the value of a secret only where its own configuration    *)
(* refers to it, in a place resolveValue visits, and if its metadata asks  *)
(* for it.  Its configuration it gets with every reference resolved,       *)
(* wherever that is, and all else as it was written, or not at all: only   *)
(* one that JSON cannot express does it get as an empty text (resolveValue,*)
(* Manager.Start, Configure).                                              *)
SecretsScoped ==
  \A p \in Plugins : given[p] # Nothing =>
    LET leaves == file.plugins[p].leaves
        json   == given[p].json
    IN  /\ given[p].secrets = Refs(leaves) /\ given[p].secrets \subseteq permits[p]
        /\ json.text = "json" => \A k \in DOMAIN leaves :
             json.config[k] = IF leaves[k].kind = "ref" THEN Env[leaves[k].name] ELSE leaves[k]
        /\ json.text # "json" => json.config = <<>> /\ ~Encodes(leaves)

(* An orderly exit leaves no plugin process behind, whatever they do with  *)
(* the interrupt, and while the gateway serves it knows all that run: the  *)
(* maps are keyed by name, and names do not repeat.                        *)
NoStrayProcess ==
  \A p \in Plugins : proc[p] = "running" =>
    exit # "stopped" /\ (phase \in {"serving", "shutdown", "stop"} => p \in tracked)

(* Plugins are not taken away from a request that is still being served,   *)
(* unless the shutdown timeout has passed.                                 *)
RequestsFirst == phase = "stop" => ~inflight \/ expired

(* A signal ends the gateway, even if plugins are silent or ignore the     *)
(* interrupt and a request never ends.                                     *)
SignalEnds == signalled ~> phase = "exited"
=============================================================================
