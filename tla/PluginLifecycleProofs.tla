------------------------ MODULE PluginLifecycleProofs ------------------------
(***************************************************************************)
(* Proofs about the gateway's life from its start to its exit, for every   *)
(* set of configuration files, of capabilities and every environment.      *)
(***************************************************************************)
EXTENDS PluginLifecycle, SequenceTheorems, TLAPS

-----------------------------------------------------------------------------
(***************************************************************************)
(* The inductive invariant.                                                *)
(***************************************************************************)
Loaded == phase # "load" /\ exit # "config refused"

(* How phase, exit and the loop over the plugins go together.              *)
Position ==
  /\ exit # "no" <=> phase = "exited"
  /\ Loaded => Loads(file)
  /\ ~Loaded => cur = 1 /\ step = 1
  /\ phase = "start" => cur \in Plugins
  /\ phase \in {"compile", "serving", "shutdown", "stop"} => cur = Len(file.plugins) + 1
  /\ exit = "stopped" => cur = Len(file.plugins) + 1
  /\ phase \in {"load", "start", "compile"} => ~ready

(* How far the start is with each plugin: with those before cur it is done,*)
(* with cur as far as step says, and those after it are untouched.         *)
Progress ==
  /\ DOMAIN permits = Plugins /\ DOMAIN given = Plugins
  /\ \A p \in Plugins :
       /\ p < cur \/ (p = cur /\ step > 1) => Vetted(p)
       /\ p > cur \/ (p = cur /\ step <= 3) => proc[p] = "none"
       /\ p > cur \/ (p = cur /\ step <= 9) => given[p] = Nothing
       /\ p \in configured <=> p < cur \/ (p = cur /\ step > 10)
       /\ p \in tracked <=> p < cur

(* An entry of the registry has a configured plugin behind it.             *)
Registered == \A s \in registry : Serves(s[1], s[2])

(* What Manager.Stop has still to do, and has done.                        *)
Draining ==
  /\ phase \notin {"stop", "exited"} => toStop = {} /\ stopping = 0
  /\ \A p \in Plugins : proc[p] = "running" =>
       /\ phase = "stop" => p \in toStop \/ p = stopping
       /\ exit # "stopped"

IInv ==
  /\ TypeOK /\ Position /\ Progress /\ Registered /\ Draining
  /\ SecretsScoped /\ ReadyIsComplete /\ RequestsFirst

-----------------------------------------------------------------------------
(* ApplyDefaults replaces what is not set and keeps everything else.       *)
LEMMA LoadKeeps ==
  ASSUME NEW c \in Configs
  PROVE  /\ Len(c.plugins) \in Nat
         /\ Len(Load(c).plugins) = Len(c.plugins)
         /\ DOMAIN Load(c).plugins = 1 .. Len(c.plugins)
         /\ \A p \in 1 .. Len(c.plugins) :
              LET old == c.plugins[p]
                  new == Load(c).plugins[p]
              IN  /\ new.name = old.name /\ new.leaves = old.leaves
                  /\ new.declared = old.declared /\ new.sandbox = old.sandbox
                  /\ new.trust = IF old.trust = "" THEN "community" ELSE old.trust
         /\ Load(c).aliases = c.aliases
  <1>1. /\ DOMAIN c = ConfigFields /\ IsList(c.plugins)
        /\ \A p \in DOMAIN c.plugins : DOMAIN c.plugins[p] = PluginFields
    BY ConfigAssumption DEF IsConfig, IsPlugin
  <1> DEFINE f == [p \in 1 .. Len(c.plugins) |-> PluginDefaults(c.plugins[p])]
  <1>2. Load(c).plugins = f /\ Load(c).aliases = c.aliases
    <2>1. {"durations", "retryOn", "plugins", "aliases"} \subseteq DOMAIN c
      BY <1>1 DEF ConfigFields
    <2>2. DOMAIN c.plugins = 1 .. Len(c.plugins)
      BY <1>1 DEF IsList
    <2>3. Load(c).aliases = c.aliases
      BY <2>1 DEF Load, ApplyDefaults
    <2>4. Load(c).plugins = [i \in DOMAIN c.plugins |-> PluginDefaults(c.plugins[i])]
      BY <2>1 DEF Load, ApplyDefaults
    <2> QED BY <2>2, <2>3, <2>4
  <1>3. Len(c.plugins) \in Nat /\ Len(f) = Len(c.plugins)
    <2>1. Len(c.plugins) \in Nat
      BY <1>1 DEF IsList
    <2> DEFINE S == {f[p] : p \in 1 .. Len(c.plugins)}
    <2>0. DOMAIN f = 1 .. Len(c.plugins) /\ f = [p \in 1 .. Len(c.plugins) |-> f[p]]
      OBVIOUS
    <2> HIDE DEF f
    <2>2. f \in Seq(S)
      <3>1. f \in [1 .. Len(c.plugins) -> S]
        BY <2>0
      <3> HIDE DEF S
      <3> QED BY <2>1, <3>1, SeqDef
    <2> HIDE DEF S
    <2>3. Len(f) \in Nat /\ DOMAIN f = 1 .. Len(f)
      BY <2>2, LenProperties
    <2>4. 1 .. Len(f) = 1 .. Len(c.plugins)
      BY <2>0, <2>3
    <2> QED BY <2>1, <2>3, <2>4
  <1>4. ASSUME NEW p \in 1 .. Len(c.plugins)
        PROVE  /\ f[p].name = c.plugins[p].name /\ f[p].leaves = c.plugins[p].leaves
               /\ f[p].declared = c.plugins[p].declared
               /\ f[p].sandbox = c.plugins[p].sandbox
               /\ f[p].trust = IF c.plugins[p].trust = "" THEN "community"
                                                          ELSE c.plugins[p].trust
    BY <1>1, <1>4 DEF IsList, PluginFields, PluginDefaults, Default
  <1> QED BY <1>2, <1>3, <1>4

(* A duration that was loaded is a number, whatever its node was.          *)
LEMMA LoadedTimeout ==
  ASSUME NEW c \in Configs
  PROVE  Load(c).durations.request_timeout \in Int
  <1>1. /\ DOMAIN c = ConfigFields /\ DOMAIN c.durations = DOMAIN DefaultDurations
        /\ \A k \in DOMAIN c.durations :
             c.durations[k].amount \in Int /\ c.durations[k].unit \in Nat
    BY ConfigAssumption DEF IsConfig
  <1>2. "request_timeout" \in DOMAIN c.durations
    BY <1>1 DEF DefaultDurations
  <1>3. DefaultDurations["request_timeout"] \in Int
    BY SecondAssumption DEF DefaultDurations
  <1>4. Nanos(c.durations["request_timeout"]) \in Int
    BY <1>1, <1>2 DEF Nanos
  <1>5. Load(c).durations = [k \in DOMAIN c.durations |->
                              Default(Nanos(c.durations[k]), 0, DefaultDurations[k])]
    <2>1. {"durations", "retryOn", "plugins"} \subseteq DOMAIN c
      BY <1>1 DEF ConfigFields
    <2> QED BY <2>1 DEF Load, ApplyDefaults
  <1> QED BY <1>2, <1>3, <1>4, <1>5 DEF Default

(* Validate refuses names that repeat and a trust it does not know.        *)
LEMMA LoadedIsValid ==
  ASSUME NEW c \in Configs, Loads(c)
  PROVE  \A p, q \in 1 .. Len(c.plugins) :
           /\ c.plugins[p].name = c.plugins[q].name => p = q
           /\ c.plugins[p].trust \in {"", "trusted", "community", "untrusted"}
  <1>1. /\ DOMAIN Load(c).plugins = 1 .. Len(c.plugins)
        /\ \A p \in 1 .. Len(c.plugins) :
             /\ Load(c).plugins[p].name = c.plugins[p].name
             /\ Load(c).plugins[p].trust = IF c.plugins[p].trust = "" THEN "community"
                                                                 ELSE c.plugins[p].trust
    BY LoadKeeps
  <1>2. Validate(Load(c))
    BY DEF Loads, Load
  <1>3. \A p \in 1 .. Len(c.plugins) :
          /\ Load(c).plugins[p].trust \in {"trusted", "community", "untrusted"}
          /\ \A q \in 1 .. Len(c.plugins) :
               Load(c).plugins[p].name = Load(c).plugins[q].name => p = q
    <2> DEFINE new == Load(c)
    <2>1. DOMAIN new.plugins = 1 .. Len(c.plugins) /\ Validate(new)
      BY <1>1, <1>2
    <2> HIDE DEF new
    <2> QED BY <2>1 DEF Validate, ValidPlugin, new
  <1> QED BY <1>1, <1>3

(* The number of each step of Manager.Start.                               *)
LEMMA StepNumbers ==
  ASSUME step \in 1 .. Len(Steps)
  PROVE  /\ step \in 1 .. 11
         /\ At("check") <=> phase = "start" /\ step = 1
         /\ At("resolve") <=> phase = "start" /\ step = 2
         /\ At("launch") <=> phase = "start" /\ step = 3
         /\ At("await") <=> phase = "start" /\ step = 4
         /\ At("dial") <=> phase = "start" /\ step = 5
         /\ At("handshake") <=> phase = "start" /\ step = 6
         /\ At("metadata") <=> phase = "start" /\ step = 7
         /\ At("schema") <=> phase = "start" /\ step = 8
         /\ At("secrets") <=> phase = "start" /\ step = 9
         /\ At("configure") <=> phase = "start" /\ step = 10
         /\ At("register") <=> phase = "start" /\ step = 11
  <1>1. Len(Steps) = 11
    BY DEF Steps
  <1>2. step \in 1 .. 11
    BY <1>1
  <1> DEFINE Numbered(n) ==
               /\ (Steps[n] = "check" <=> n = 1) /\ (Steps[n] = "resolve" <=> n = 2)
               /\ (Steps[n] = "launch" <=> n = 3) /\ (Steps[n] = "await" <=> n = 4)
               /\ (Steps[n] = "dial" <=> n = 5) /\ (Steps[n] = "handshake" <=> n = 6)
               /\ (Steps[n] = "metadata" <=> n = 7) /\ (Steps[n] = "schema" <=> n = 8)
               /\ (Steps[n] = "secrets" <=> n = 9) /\ (Steps[n] = "configure" <=> n = 10)
               /\ (Steps[n] = "register" <=> n = 11)
  <1>3. /\ Numbered(1) /\ Numbered(2) /\ Numbered(3) /\ Numbered(4) /\ Numbered(5)
        /\ Numbered(6) /\ Numbered(7) /\ Numbered(8) /\ Numbered(9) /\ Numbered(10)
        /\ Numbered(11)
    BY DEF Steps
  <1> HIDE DEF Numbered
  <1>4. Numbered(step)
    BY <1>2, <1>3
  <1> QED BY <1>2, <1>4 DEF Numbered, At

(* The steps of the start that advance within a plugin: what they have in  *)
(* common and what each adds.                                              *)
Advancing == CheckTrust \/ ResolveSource \/ Launch \/ Connect \/ Call \/ Secrets

(* Manager.startPlugin from one call to the next: the position, and what   *)
(* each position adds.                                                     *)
LEMMA AdvancingSteps ==
  ASSUME step \in 1 .. Len(Steps), Advancing
  PROVE  /\ phase = "start" /\ step \in 1 .. 10 /\ step' = step + 1
         /\ UNCHANGED <<cfgVars, phase, exit, cur, tracked, registry, runVars, signalled>>
         /\ step = 1 => ~Refused(cur)
         /\ step = 3 => proc' = [proc EXCEPT ![cur] = "running"]
         /\ step # 3 => UNCHANGED proc
         /\ step = 7 =>
              /\ \E cs \in SUBSET Caps : offers' = [offers EXCEPT ![cur] = cs]
              /\ \E names \in SUBSET Refs(cfg.plugins[cur].leaves) :
                   permits' = [permits EXCEPT ![cur] = names]
         /\ step # 7 => UNCHANGED <<offers, permits>>
         /\ step = 9 =>
              LET leaves == cfg.plugins[cur].leaves
              IN  /\ ResolvesSecrets(leaves, permits[cur], cfg.envEnabled, Env)
                  /\ given' = [given EXCEPT ![cur] = [json |-> ConfigJSON(leaves, Env),
                                                     secrets |-> ResolvedSecrets(leaves)]]
         /\ step # 9 => UNCHANGED given
         /\ configured' = IF step = 10 THEN configured \cup {cur} ELSE configured
  <1> USE StepNumbers DEF Advance
  <1>1. CASE CheckTrust
    BY <1>1 DEF CheckTrust, plugVars
  <1>2. CASE ResolveSource
    BY <1>2 DEF ResolveSource, plugVars
  <1>3. CASE Launch
    BY <1>3 DEF Launch, plugVars
  <1>4. CASE Connect
    BY <1>4 DEF Connect, plugVars
  <1>5. CASE Call
    <2>1. phase = "start" /\ step \in {6, 7, 8, 10}
      BY <1>5 DEF Call, Calls
    <2>2. /\ step' = step + 1
          /\ UNCHANGED <<cfgVars, phase, exit, cur, proc, given, tracked, registry, runVars,
                        signalled>>
      BY <1>5 DEF Call
    <2>3. /\ step = 7 =>
               /\ \E cs \in SUBSET Caps : offers' = [offers EXCEPT ![cur] = cs]
               /\ \E names \in SUBSET Refs(cfg.plugins[cur].leaves) :
                    permits' = [permits EXCEPT ![cur] = names]
          /\ step # 7 => UNCHANGED <<offers, permits>>
          /\ configured' = IF step = 10 THEN configured \cup {cur} ELSE configured
      BY <1>5, <2>1 DEF Call
    <2>4. step \in 1 .. 10 /\ step \notin {1, 3, 9}
      BY <2>1
    <2> QED BY <2>1, <2>2, <2>3, <2>4
  <1>6. CASE Secrets
    <2>1. /\ phase = "start" /\ step = 9 /\ step' = step + 1
          /\ UNCHANGED <<cfgVars, phase, exit, cur, proc, offers, permits, configured, tracked,
                        registry, runVars, signalled>>
      <3>1. At("secrets") /\ Advance
        BY <1>6 DEF Secrets
      <3>2. UNCHANGED <<cfgVars, cur, proc, offers, permits, configured, tracked, registry,
                        runVars, signalled>>
        BY <1>6 DEF Secrets
      <3> QED BY <3>1, <3>2
    <2>2. LET leaves == cfg.plugins[cur].leaves
          IN  /\ ResolvesSecrets(leaves, permits[cur], cfg.envEnabled, Env)
              /\ given' = [given EXCEPT ![cur] = [json |-> ConfigJSON(leaves, Env),
                                                 secrets |-> ResolvedSecrets(leaves)]]
      BY <1>6 DEF Secrets
    <2> QED BY <2>1, <2>2
  <1> QED BY <1>1, <1>2, <1>3, <1>4, <1>5, <1>6 DEF Advancing

(* The steps that the start sequence does not take part in.                *)
Serving == \/ RequestBegins \/ RequestEnds \/ ServerFails
           \/ ShutdownBegins \/ ShutdownExpires \/ ShutdownReturns
           \/ Stopping \/ Signal \/ \E p \in Plugins : Die(p)

(* A step belongs to the start, fails it, ends it, or serves.              *)
LEMMA NextSplit ==
  [Next]_vars => LoadConfig \/ Advancing \/ StepFails \/ Register \/ Compile \/ Serving
                 \/ UNCHANGED vars
  BY DEF Next, Starting, Advancing, Serving

(* Once the start sequence is over, only requests, the server, the         *)
(* shutdown, signals and dying processes move, and none of them touches    *)
(* what was started.                                                       *)
LEMMA ServingSteps ==
  ASSUME Serving
  PROVE  /\ phase # "exited" /\ UNCHANGED <<cfgVars, startVars, ready>>
         /\ \/ proc' = proc
            \/ \E p \in Plugins : proc[p] = "running" /\ proc' = [proc EXCEPT ![p] = "dead"]
            \/ phase = "stop" /\ stopping # 0 /\ proc' = [proc EXCEPT ![stopping] = "dead"]
         /\ \/ UNCHANGED <<phase, exit>>
            \/ phase = "serving" /\ phase' = "exited" /\ exit' = "server failed"
            \/ phase = "serving" /\ phase' = "shutdown" /\ exit' = exit
            \/ phase = "shutdown" /\ phase' = "stop" /\ exit' = exit
            \/ phase = "stop" /\ phase' = "exited" /\ exit' = "stopped"
  BY DEF Serving, RequestBegins, RequestEnds, ServerFails, ShutdownBegins, ShutdownExpires,
         ShutdownReturns, Stopping, Interrupt, ProcessStopped, RunReturns, Signal, Die, Exit,
         runVars

-----------------------------------------------------------------------------
(* What the invariant says in a start sequence that is under way.          *)
LEMMA InStart ==
  ASSUME TypeOK, Position, phase = "start"
  PROVE  /\ exit = "no" /\ cur \in Plugins /\ cfg = Load(file) /\ Loads(file)
         /\ file \in Configs /\ Plugins = 1 .. Len(file.plugins) /\ Len(file.plugins) \in Nat
         /\ Len(cfg.plugins) = Len(file.plugins)
         /\ cfg.plugins[cur].leaves = file.plugins[cur].leaves
         /\ cfg.plugins[cur].declared = file.plugins[cur].declared
  <1>1. /\ exit = "no" /\ cur \in Plugins /\ cfg = Load(file) /\ Loads(file)
        /\ file \in Configs
    BY DEF TypeOK, Position, Loaded
  <1> QED BY <1>1, LoadKeeps DEF Plugins

(* What depends on the file alone.                                         *)
LEMMA SameFile ==
  ASSUME UNCHANGED file
  PROVE  Plugins' = Plugins /\ Names' = Names /\ \A p : Name(p)' = Name(p)
  <1>1. Plugins' = Plugins /\ \A p : Name(p)' = Name(p)
    BY DEF Plugins, Name
  <1> QED BY <1>1, Zenon DEF Names, Plugins, Name

(* Initially every variable has its type.                                  *)
LEMMA TypeInit == Init => TypeOK
  <1> SUFFICES ASSUME Init PROVE TypeOK
    OBVIOUS
  <1>1. file \in Configs /\ Len(file.plugins) \in Nat
    BY LoadKeeps DEF Init
  <1>2. cur \in 1 .. Len(file.plugins) + 1 /\ step \in 1 .. Len(Steps)
    BY <1>1 DEF Init, Steps
  <1>3. /\ proc \in [Plugins -> {"none", "running", "dead"}]
        /\ offers \in [Plugins -> SUBSET Caps]
        /\ \A p \in Plugins :
             permits[p] \cup given[p].secrets \subseteq Refs(file.plugins[p].leaves)
    BY DEF Init, Nothing
  <1> QED BY <1>1, <1>2, <1>3 DEF Init, TypeOK

(* Every step of the program keeps the types.                              *)
LEMMA TypeStep == IInv /\ [Next]_vars => TypeOK'
  <1> SUFFICES ASSUME IInv, [Next]_vars PROVE TypeOK'
    OBVIOUS
  <1>0. TypeOK /\ Position /\ Progress /\ Draining
    BY DEF IInv
  <1>1. CASE LoadConfig
    <2>1. /\ cur \in 1 .. Len(file.plugins) + 1 /\ exit = "no"
      BY <1>0, <1>1 DEF LoadConfig, TypeOK, Position
    <2>2. /\ UNCHANGED <<file, models, startVars, proc, runVars, signalled>>
          /\ cfg' = IF phase' = "load" \/ exit' = "config refused" THEN Unloaded ELSE Load(file)
          /\ phase' \in {"start", "compile", "exited"} /\ exit' \in {"no", "config refused"}
      BY <1>0, <1>1, <2>1 DEF LoadConfig, Exit, TypeOK
    <2> QED BY <1>0, <2>2, SameFile DEF TypeOK, startVars, plugVars, runVars
  <1>2. CASE Advancing
    <2>1. step \in 1 .. Len(Steps)
      BY <1>0 DEF TypeOK
    <2> DEFINE A == /\ phase = "start" /\ step \in 1 .. 10 /\ step' = step + 1
                    /\ UNCHANGED <<file, cfg, models, phase, exit, cur, tracked, registry, ready,
                                   inflight, expired, toStop, stopping, signalled>>
    <2>2. A
      BY <1>2, <2>1, AdvancingSteps DEF cfgVars, runVars
    <2>3. cur \in Plugins /\ cfg.plugins[cur].leaves = file.plugins[cur].leaves
      BY <1>0, <2>2, InStart
    <2>4. proc' \in [Plugins -> {"none", "running", "dead"}]
      BY <1>0, <1>2, <2>1, <2>3, AdvancingSteps DEF TypeOK
    <2>5. offers' \in [Plugins -> SUBSET Caps]
      BY <1>0, <1>2, <2>1, <2>3, AdvancingSteps DEF TypeOK
    <2>6. \A p \in Plugins : permits'[p] \subseteq Refs(file.plugins[p].leaves)
      <3>1. CASE step = 7
        <4>1. PICK names \in SUBSET Refs(file.plugins[cur].leaves) :
                permits' = [permits EXCEPT ![cur] = names]
          BY <1>2, <2>1, <2>3, <3>1, AdvancingSteps
        <4> QED BY <1>0, <4>1 DEF TypeOK, Progress
      <3>2. CASE step # 7
        BY <1>0, <1>2, <2>1, <3>2, AdvancingSteps DEF TypeOK
      <3> QED BY <3>1, <3>2
    <2>7. \A p \in Plugins : given'[p].secrets \subseteq Refs(file.plugins[p].leaves)
      <3>1. CASE step = 9
        <4>1. given' = [given EXCEPT ![cur] =
                 [json |-> ConfigJSON(file.plugins[cur].leaves, Env),
                  secrets |-> Refs(file.plugins[cur].leaves)]]
          BY <1>2, <2>1, <2>3, <3>1, AdvancingSteps DEF ResolvedSecrets
        <4> QED BY <1>0, <4>1 DEF TypeOK, Progress
      <3>2. CASE step # 9
        BY <1>0, <1>2, <2>1, <3>2, AdvancingSteps DEF TypeOK
      <3> QED BY <3>1, <3>2
    <2>8. configured' \in SUBSET Plugins
      <3>1. configured' \in {configured, configured \cup {cur}}
        BY <1>2, <2>1, AdvancingSteps
      <3> QED BY <1>0, <2>3, <3>1 DEF TypeOK
    <2>9. step' \in 1 .. Len(Steps)
      BY <2>2 DEF Steps
    <2>10. Plugins' = Plugins /\ Names' = Names
      BY <2>2, SameFile
    <2> QED BY <1>0, <2>2, <2>4, <2>5, <2>6, <2>7, <2>8, <2>9, <2>10 DEF TypeOK
  <1>3. CASE StepFails
    BY <1>0, <1>3, SameFile DEF StepFails, Exit, TypeOK, Position, cfgVars, startVars, plugVars, runVars
  <1>4. CASE Register
    <2>1. phase = "start"
      BY <1>4 DEF Register, At
    <2>2. /\ cur \in Plugins /\ Len(file.plugins) \in Nat /\ exit = "no" /\ cfg = Load(file)
          /\ Plugins = 1 .. Len(file.plugins)
      BY <1>0, <2>1, InStart
    <2>3. /\ UNCHANGED <<file, cfg, models, exit, proc, offers, permits, given, configured,
                         ready, inflight, expired, toStop, stopping, signalled>>
          /\ cur' = cur + 1 /\ step' = 1 /\ phase' \in {"start", "compile"}
          /\ registry' = registry \cup Entries
          /\ tracked' = {p \in tracked : Name(p) # Name(cur)} \cup {cur}
      BY <1>4 DEF Register, cfgVars, plugVars, runVars
    <2>4. Plugins' = Plugins /\ Names' = Names
      BY <2>3, SameFile
    <2>5. Entries \subseteq Caps \X Names
      BY <1>0, <2>2 DEF Names, Entries, Provided, TypeOK
    <2>6. toStop = {} /\ stopping = 0
      BY <1>0, <2>1 DEF Draining
    <2>7. cur' \in 1 .. Len(file.plugins) + 1 /\ step' \in 1 .. Len(Steps)
      BY <2>2, <2>3 DEF Steps
    <2> QED BY <1>0, <2>1, <2>2, <2>3, <2>4, <2>5, <2>6, <2>7 DEF TypeOK
  <1>5. CASE Compile
    <2>1. /\ phase = "compile" /\ phase' \in {"serving", "exited"}
          /\ exit' \in {exit, "startup failed"} /\ ready' \in {ready, TRUE, FALSE}
          /\ UNCHANGED <<file, cfg, startVars, proc, signalled, inflight, expired, toStop, stopping>>
      BY <1>5, Zenon DEF Compile, Exit
    <2>2. exit = "no"
      BY <1>0, <2>1 DEF Position, TypeOK
    <2> QED BY <1>0, <2>1, <2>2, SameFile DEF TypeOK, startVars, plugVars
  <1>6. CASE Serving
    <2>1. /\ phase # "exited" /\ UNCHANGED <<cfgVars, startVars, ready>>
          /\ \/ proc' = proc
             \/ \E p \in Plugins : proc[p] = "running" /\ proc' = [proc EXCEPT ![p] = "dead"]
             \/ phase = "stop" /\ stopping # 0 /\ proc' = [proc EXCEPT ![stopping] = "dead"]
          /\ \/ UNCHANGED <<phase, exit>>
             \/ phase = "serving" /\ phase' = "exited" /\ exit' = "server failed"
             \/ phase = "serving" /\ phase' = "shutdown" /\ exit' = exit
             \/ phase = "shutdown" /\ phase' = "stop" /\ exit' = exit
             \/ phase = "stop" /\ phase' = "exited" /\ exit' = "stopped"
      BY <1>6, ServingSteps
    <2>2. UNCHANGED <<file, cfg, cur, step, offers, permits, given, configured, tracked, registry,
                      ready>>
      BY <2>1 DEF cfgVars, startVars, plugVars
    <2>3. proc' \in [Plugins -> {"none", "running", "dead"}]
      BY <1>0, <2>1 DEF TypeOK
    <2>4. exit = "no"
      BY <1>0, <2>1 DEF Position
    <2>5. {signalled, inflight, expired}' \subseteq BOOLEAN
      <3>1. signalled' \in {signalled, TRUE}
        BY <1>6 DEF Serving, RequestBegins, RequestEnds, ServerFails, ShutdownBegins,
                    ShutdownExpires, ShutdownReturns, Stopping, Interrupt, ProcessStopped,
                    RunReturns, Signal, Die
      <3>2. inflight' \in {inflight, TRUE, FALSE}
        BY <1>6 DEF Serving, RequestBegins, RequestEnds, ServerFails, ShutdownBegins,
                    ShutdownExpires, ShutdownReturns, Stopping, Interrupt, ProcessStopped,
                    RunReturns, Signal, Die, runVars
      <3>3. expired' \in {expired, TRUE, FALSE}
        <4>1. CASE ShutdownBegins
          <5>1. cfg = Load(file) /\ file \in Configs
            BY <1>0, <2>4, <4>1 DEF ShutdownBegins, TypeOK
          <5>2. cfg.durations.request_timeout \in Int
            BY <5>1, LoadedTimeout
          <5> DEFINE t == cfg.durations.request_timeout
          <5>3. expired' = (t <= 0)
            BY <4>1 DEF ShutdownBegins
          <5>4. (t <= 0) \in BOOLEAN
            BY <5>2, SMT
          <5> HIDE DEF t
          <5>5. expired' \in BOOLEAN
            BY <5>3, <5>4, Zenon
          <5> QED BY <5>5
        <4>2. CASE ~ShutdownBegins
          BY <1>6, <4>2 DEF Serving, RequestBegins, RequestEnds, ServerFails, ShutdownExpires,
                            ShutdownReturns, Stopping, Interrupt, ProcessStopped, RunReturns,
                            Signal, Die, runVars
        <4> QED BY <4>1, <4>2
      <3> QED BY <1>0, <3>1, <3>2, <3>3 DEF TypeOK
    <2>6. toStop' \in SUBSET tracked /\ stopping' \in tracked \cup {0}
      BY <1>0, <1>6 DEF TypeOK, Serving, RequestBegins, RequestEnds, ServerFails, ShutdownBegins,
                        ShutdownExpires, ShutdownReturns, Stopping, Interrupt, ProcessStopped,
                        RunReturns, Signal, Die, runVars
    <2>7. Plugins' = Plugins /\ Names' = Names
      BY <2>2, SameFile
    <2> QED BY <1>0, <2>1, <2>2, <2>3, <2>4, <2>5, <2>6, <2>7 DEF TypeOK
  <1>7. CASE UNCHANGED vars
    BY <1>0, <1>7, SameFile DEF TypeOK, vars
  <1> QED BY <1>1, <1>2, <1>3, <1>4, <1>5, <1>6, <1>7, NextSplit

(* Phase, exit and the loop over the plugins keep going together.          *)
LEMMA PositionStep == IInv /\ [Next]_vars => Position'
  <1> SUFFICES ASSUME IInv, [Next]_vars PROVE Position'
    OBVIOUS
  <1>0. TypeOK /\ Position
    BY DEF IInv
  <1>1. CASE LoadConfig
    <2>1. /\ exit = "no" /\ cur = 1 /\ step = 1 /\ ~ready /\ file \in Configs
      BY <1>0, <1>1 DEF LoadConfig, TypeOK, Position, Loaded
    <2>2. UNCHANGED <<file, cur, step, ready>>
      BY <1>1 DEF LoadConfig, startVars, runVars
    <2>3. CASE Loads(file)
      <3>1. exit' = "no" /\ phase' = IF Plugins = {} THEN "compile" ELSE "start"
        BY <1>1, <2>1, <2>3 DEF LoadConfig
      <3>2. Len(file.plugins) \in Nat
        BY <2>1, LoadKeeps
      <3>3. Plugins = {} => Len(file.plugins) = 0
        BY <3>2 DEF Plugins
      <3>4. Plugins # {} => 1 \in Plugins
        BY <3>2 DEF Plugins
      <3> QED BY <2>1, <2>2, <2>3, <3>1, <3>3, <3>4, SameFile DEF Position, Loaded
    <2>4. CASE ~Loads(file)
      <3>1. exit' = "config refused" /\ phase' = "exited"
        BY <1>1, <2>4 DEF LoadConfig, Exit
      <3> QED BY <2>1, <2>2, <3>1 DEF Position, Loaded
    <2> QED BY <2>3, <2>4
  <1>2. CASE Advancing
    <2>1. phase = "start" /\ UNCHANGED <<cfgVars, phase, exit, cur, runVars>>
      BY <1>0, <1>2, AdvancingSteps DEF TypeOK
    <2> QED BY <1>0, <2>1, InStart, SameFile DEF Position, Loaded, cfgVars, runVars
  <1>3. CASE StepFails
    <2>1. /\ phase = "start" /\ phase' = "exited" /\ exit' = "startup failed"
          /\ UNCHANGED <<file, cur, step, ready>>
      BY <1>3 DEF StepFails, Exit, cfgVars, startVars, runVars
    <2> QED BY <1>0, <2>1, InStart DEF Position, Loaded
  <1>4. CASE Register
    <2>1. phase = "start"
      BY <1>4 DEF Register, At
    <2>2. /\ cur \in Plugins /\ Len(file.plugins) \in Nat /\ exit = "no" /\ Loads(file)
          /\ Plugins = 1 .. Len(file.plugins) /\ Len(cfg.plugins) = Len(file.plugins)
      BY <1>0, <2>1, InStart
    <2>3. /\ UNCHANGED <<file, exit, ready>> /\ cur' = cur + 1 /\ step' = 1
          /\ phase' = IF cur = Len(cfg.plugins) THEN "compile" ELSE "start"
      BY <1>4 DEF Register, cfgVars, runVars
    <2>4. cur # Len(file.plugins) => cur + 1 \in Plugins
      BY <2>2
    <2> QED BY <1>0, <2>1, <2>2, <2>3, <2>4, SameFile DEF Position, Loaded
  <1>5. CASE Compile
    <2>1. /\ phase = "compile" /\ UNCHANGED <<file, cur, step>>
          /\ \/ phase' = "serving" /\ exit' = exit
             \/ phase' = "exited" /\ exit' = "startup failed" /\ ready' = ready
      BY <1>5 DEF Compile, Exit, startVars
    <2> QED BY <1>0, <2>1 DEF Position, Loaded
  <1>6. CASE Serving
    <2>1. /\ phase # "exited" /\ UNCHANGED <<file, cur, step, ready>>
          /\ \/ UNCHANGED <<phase, exit>>
             \/ phase = "serving" /\ phase' = "exited" /\ exit' = "server failed"
             \/ phase = "serving" /\ phase' = "shutdown" /\ exit' = exit
             \/ phase = "shutdown" /\ phase' = "stop" /\ exit' = exit
             \/ phase = "stop" /\ phase' = "exited" /\ exit' = "stopped"
      BY <1>6, ServingSteps DEF cfgVars, startVars
    <2> QED BY <1>0, <2>1, SameFile DEF Position, Loaded
  <1>7. CASE UNCHANGED vars
    BY <1>0, <1>7, SameFile DEF Position, Loaded, vars
  <1> QED BY <1>1, <1>2, <1>3, <1>4, <1>5, <1>6, <1>7, NextSplit

(* Where the progress is the same before and after a step.                 *)
LEMMA ProgressKept ==
  ASSUME Progress, UNCHANGED <<file, cur, step, permits, given, configured, tracked>>,
         cur \in Int, Len(file.plugins) \in Nat,
         \A p \in Plugins : p >= cur /\ proc[p] = "none" => proc'[p] = "none"
  PROVE  Progress'
  <1>1. Plugins' = Plugins /\ \A p : Vetted(p)' = Vetted(p)
    BY SameFile DEF Vetted
  <1>2. \A p \in Plugins : p > cur \/ p = cur => p >= cur
    BY DEF Plugins
  <1> QED BY <1>1, <1>2 DEF Progress

(* The start takes the plugins one after the other, and goes through the   *)
(* same steps for each.                                                    *)
LEMMA ProgressStep == IInv /\ [Next]_vars => Progress'
  <1> SUFFICES ASSUME IInv, [Next]_vars PROVE Progress'
    OBVIOUS
  <1>0. TypeOK /\ Position /\ Progress
    BY DEF IInv
  <1>a. file \in Configs /\ cur \in 1 .. Len(file.plugins) + 1
    BY <1>0 DEF TypeOK
  <1>b. Len(file.plugins) \in Nat
    BY <1>a, LoadKeeps
  <1> cur \in Int /\ Len(file.plugins) \in Nat
    BY <1>a, <1>b
  <1>1. CASE LoadConfig
    BY <1>0, <1>1, ProgressKept DEF LoadConfig, startVars, plugVars
  <1>2. CASE Advancing
    <2>1. /\ step \in 1 .. Len(Steps) /\ phase = "start" /\ step \in 1 .. 10 /\ step' = step + 1
          /\ UNCHANGED <<file, cfg, cur, tracked>>
      BY <1>0, <1>2, AdvancingSteps DEF cfgVars, TypeOK
    <2>2. /\ cur \in Plugins /\ Plugins = 1 .. Len(file.plugins) /\ Len(file.plugins) \in Nat
          /\ file \in Configs /\ Loads(file) /\ cfg = Load(file)
      BY <1>0, <2>1, InStart
    <2>3. Plugins' = Plugins /\ \A p : Vetted(p)' = Vetted(p)
      BY <2>1, SameFile DEF Vetted
    <2>4. Vetted(cur)
      <3>1. CASE step = 1
        <4>1. ~Refused(cur)
          BY <1>2, <2>1, <3>1, AdvancingSteps
        <4>2. /\ cfg.plugins[cur].sandbox = file.plugins[cur].sandbox
              /\ cfg.plugins[cur].trust = IF file.plugins[cur].trust = "" THEN "community"
                                                             ELSE file.plugins[cur].trust
          BY <2>2, LoadKeeps
        <4>3. file.plugins[cur].trust \in {"", "trusted", "community", "untrusted"}
          BY <2>2, LoadedIsValid
        <4> QED BY <4>1, <4>2, <4>3 DEF Refused, Vetted
      <3>2. CASE step # 1
        BY <1>0, <2>1, <2>2, <3>2 DEF Progress
      <3> QED BY <3>1, <3>2
    <2>5. ASSUME NEW p \in Plugins, p > cur \/ (p = cur /\ step' <= 3)
          PROVE  proc'[p] = "none"
      <3>1. proc[p] = "none" /\ (step = 3 => p # cur)
        BY <1>0, <2>1, <2>2, <2>5 DEF Progress
      <3>2. proc' = proc \/ (step = 3 /\ proc' = [proc EXCEPT ![cur] = "running"])
        BY <1>2, <2>1, AdvancingSteps
      <3> QED BY <1>0, <3>1, <3>2 DEF TypeOK
    <2>6. DOMAIN given' = Plugins
      BY <1>0, <1>2, <2>1, AdvancingSteps DEF Progress
    <2>7. ASSUME NEW p \in Plugins, p > cur \/ (p = cur /\ step' <= 9)
          PROVE  given'[p] = Nothing
      <3>1. given[p] = Nothing /\ (step = 9 => p # cur)
        BY <1>0, <2>1, <2>2, <2>7 DEF Progress
      <3>2. CASE step # 9
        BY <1>2, <2>1, <3>1, <3>2, AdvancingSteps
      <3>3. CASE step = 9
        <4>1. PICK g : given' = [given EXCEPT ![cur] = g]
          BY <1>2, <2>1, <3>3, AdvancingSteps
        <4> QED BY <1>0, <3>1, <3>3, <4>1 DEF Progress
      <3> QED BY <3>2, <3>3
    <2>8. DOMAIN permits' = Plugins
      BY <1>0, <1>2, <2>1, AdvancingSteps DEF Progress
    <2>9. ASSUME NEW p \in Plugins
          PROVE  p \in configured' <=> p < cur \/ (p = cur /\ step' > 10)
      <3>1. configured' = IF step = 10 THEN configured \cup {cur} ELSE configured
        BY <1>2, <2>1, AdvancingSteps
      <3> QED BY <1>0, <2>1, <2>2, <3>1 DEF Progress
    <2>10. ASSUME NEW p \in Plugins, p < cur \/ (p = cur /\ step' > 1)
           PROVE  Vetted(p)
      BY <1>0, <2>2, <2>4, <2>10 DEF Progress
    <2> QED BY <1>0, <2>1, <2>3, <2>5, <2>6, <2>7, <2>8, <2>9, <2>10 DEF Progress
  <1>3. CASE StepFails
    BY <1>0, <1>3, ProgressKept DEF StepFails, cfgVars, startVars, plugVars
  <1>4. CASE Register
    <2>1. phase = "start" /\ step = 11
      BY <1>0, <1>4, StepNumbers DEF Register, TypeOK
    <2>2. /\ cur \in Plugins /\ Len(file.plugins) \in Nat /\ file \in Configs /\ Loads(file)
          /\ Plugins = 1 .. Len(file.plugins)
      BY <1>0, <2>1, InStart
    <2>3. /\ UNCHANGED <<file, proc, permits, given, configured>> /\ cur' = cur + 1 /\ step' = 1
          /\ tracked' = {p \in tracked : Name(p) # Name(cur)} \cup {cur}
      BY <1>4 DEF Register, cfgVars, plugVars
    <2>4. Plugins' = Plugins /\ \A p : Vetted(p)' = Vetted(p)
      BY <2>3, SameFile DEF Vetted
    <2>5. \A p \in Plugins : Name(p) = Name(cur) => p = cur
      BY <2>2, LoadedIsValid DEF Name
    <2>6. \A p \in Plugins : p \in tracked' <=> p < cur + 1
      BY <1>0, <2>2, <2>3, <2>5 DEF Progress
    <2>7. \A p \in Plugins : /\ p < cur + 1 <=> p < cur \/ p = cur
                             /\ p > cur + 1 \/ p = cur + 1 <=> p > cur
      BY <2>2
    <2> QED BY <1>0, <2>1, <2>3, <2>4, <2>6, <2>7 DEF Progress
  <1>5. CASE Compile
    BY <1>0, <1>5, ProgressKept DEF Compile, startVars, plugVars
  <1>6. CASE Serving
    <2>1. UNCHANGED <<file, cur, step, permits, given, configured, tracked>>
      BY <1>6, ServingSteps DEF cfgVars, startVars, plugVars
    <2>2. ASSUME NEW p \in Plugins, p >= cur, proc[p] = "none"
          PROVE  proc'[p] = "none"
      <3>1. phase # "stop"
        BY <1>0, <2>2 DEF Position, Plugins
      <3> QED BY <1>0, <1>6, <2>2, <3>1, ServingSteps DEF TypeOK
    <2> QED BY <1>0, <2>1, <2>2, ProgressKept
  <1>7. CASE UNCHANGED vars
    BY <1>0, <1>7, ProgressKept DEF vars
  <1> QED BY <1>1, <1>2, <1>3, <1>4, <1>5, <1>6, <1>7, NextSplit

(* Whoever serves goes on serving while the configuration and what the     *)
(* configured plugins said of themselves stay.                             *)
LEMMA ServesKept ==
  ASSUME UNCHANGED <<file, cfg>>, configured \subseteq configured',
         \A p \in configured : offers'[p] = offers[p],
         NEW c, NEW name, Serves(c, name)
  PROVE  Serves(c, name)'
  BY SameFile DEF Serves

(* An entry is made of what is declared, offered and configured.           *)
LEMMA RegisteredStep == IInv /\ [Next]_vars => Registered'
  <1> SUFFICES ASSUME IInv, [Next]_vars PROVE Registered'
    OBVIOUS
  <1>0. TypeOK /\ Position /\ Progress /\ Registered
    BY DEF IInv
  <1>1. CASE LoadConfig
    <2>1. cur = 1 /\ step = 1 /\ registry' = registry
      BY <1>0, <1>1 DEF LoadConfig, Position, Loaded, startVars
    <2>2. configured = {}
      <3>1. Plugins = 1 .. Len(file.plugins) /\ Len(file.plugins) \in Nat /\ configured \subseteq Plugins
        BY <1>0, LoadKeeps DEF TypeOK, Plugins
      <3> QED BY <1>0, <2>1, <3>1 DEF Progress
    <2>3. registry = {}
      BY <1>0, <2>2 DEF Registered, Serves
    <2> QED BY <2>1, <2>3 DEF Registered
  <1>2. CASE Advancing
    <2>1. /\ step \in 1 .. 10 /\ UNCHANGED <<file, cfg, registry>>
          /\ phase = "start"
      BY <1>0, <1>2, AdvancingSteps DEF cfgVars, TypeOK
    <2>2. configured \subseteq configured'
      BY <1>0, <1>2, AdvancingSteps DEF TypeOK
    <2>3. ASSUME NEW p \in configured
          PROVE  offers'[p] = offers[p]
      <3>1. CASE step = 7
        <4>0. cur \in Plugins /\ Plugins = 1 .. Len(file.plugins) /\ Len(file.plugins) \in Nat
          BY <1>0, <2>1, InStart
        <4>1. p \in Plugins /\ (p \in configured <=> p < cur \/ (p = cur /\ step > 10))
          BY <1>0 DEF Progress, TypeOK
        <4>2. p # cur
          BY <3>1, <4>0, <4>1
        <4>3. PICK cs : offers' = [offers EXCEPT ![cur] = cs]
          BY <1>0, <1>2, <3>1, AdvancingSteps DEF TypeOK
        <4> QED BY <1>0, <4>1, <4>2, <4>3 DEF TypeOK
      <3>2. CASE step # 7
        BY <1>0, <1>2, <3>2, AdvancingSteps DEF TypeOK
      <3> QED BY <3>1, <3>2
    <2> QED BY <1>0, <2>1, <2>2, <2>3, ServesKept DEF Registered
  <1>3. CASE StepFails
    BY <1>0, <1>3, ServesKept DEF StepFails, Registered, cfgVars, startVars, plugVars
  <1>4. CASE Register
    <2>1. phase = "start" /\ step = 11
      BY <1>0, <1>4, StepNumbers DEF Register, TypeOK
    <2>2. UNCHANGED <<file, cfg, offers, configured>> /\ registry' = registry \cup Entries
      BY <1>4 DEF Register, cfgVars, plugVars
    <2>3. cur \in configured
      BY <1>0, <2>1, InStart DEF Progress
    <2>4. \A s \in Entries : Serves(s[1], s[2])
      BY <2>3 DEF Entries, Provided, Serves
    <2>5. \A s \in registry' : Serves(s[1], s[2])
      BY <1>0, <2>2, <2>4 DEF Registered
    <2> QED BY <2>2, <2>5, ServesKept DEF Registered
  <1>5. CASE Compile
    BY <1>0, <1>5, ServesKept DEF Compile, Registered, startVars, plugVars
  <1>6. CASE Serving
    <2>1. UNCHANGED <<file, cfg, offers, configured, registry>>
      BY <1>6, ServingSteps DEF cfgVars, startVars, plugVars
    <2> QED BY <1>0, <2>1, ServesKept DEF Registered
  <1>7. CASE UNCHANGED vars
    BY <1>0, <1>7, ServesKept DEF vars, Registered
  <1> QED BY <1>1, <1>2, <1>3, <1>4, <1>5, <1>6, <1>7, NextSplit

(* Where nothing has been stopped and nothing is to be: every step but     *)
(* those of Run.                                                           *)
LEMMA DrainingKept ==
  ASSUME UNCHANGED <<file, toStop, stopping>>, toStop = {}, stopping = 0,
         phase' # "stop", exit' # "stopped"
  PROVE  Draining'
  BY SameFile DEF Draining

(* Manager.Stop comes to every process that runs before Run returns.       *)
LEMMA DrainingStep == IInv /\ [Next]_vars => Draining'
  <1> SUFFICES ASSUME IInv, [Next]_vars PROVE Draining'
    OBVIOUS
  <1>0. TypeOK /\ Position /\ Progress /\ Draining
    BY DEF IInv
  <1>1. CASE LoadConfig
    <2>1. phase = "load" /\ exit # "stopped" /\ UNCHANGED <<file, toStop, stopping>>
      BY <1>0, <1>1 DEF LoadConfig, Position, runVars
    <2>2. phase' \in {"start", "compile", "exited"} /\ exit' \in {exit, "config refused"}
      BY <1>1 DEF LoadConfig, Exit
    <2> QED BY <1>0, <2>1, <2>2, DrainingKept DEF Draining
  <1>2. CASE Advancing
    <2>1. phase = "start" /\ UNCHANGED <<file, phase, exit, toStop, stopping>>
      BY <1>0, <1>2, AdvancingSteps DEF cfgVars, runVars, TypeOK
    <2> QED BY <1>0, <2>1, DrainingKept DEF Draining, Position
  <1>3. CASE StepFails
    <2>1. /\ phase = "start" /\ phase' = "exited" /\ exit' = "startup failed"
          /\ UNCHANGED <<file, toStop, stopping>>
      BY <1>3 DEF StepFails, Exit, cfgVars, runVars
    <2> QED BY <1>0, <2>1, DrainingKept DEF Draining
  <1>4. CASE Register
    <2>1. /\ phase = "start" /\ phase' \in {"start", "compile"}
          /\ UNCHANGED <<file, exit, toStop, stopping>>
      BY <1>4 DEF Register, At, cfgVars, runVars
    <2> QED BY <1>0, <2>1, DrainingKept DEF Draining, Position
  <1>5. CASE Compile
    <2>1. /\ phase = "compile" /\ phase' \in {"serving", "exited"}
          /\ exit' \in {exit, "startup failed"} /\ UNCHANGED <<file, toStop, stopping>>
      BY <1>5 DEF Compile, Exit
    <2> QED BY <1>0, <2>1, DrainingKept DEF Draining, Position
  <1>6. CASE Serving
    <2>1. UNCHANGED <<file, tracked>> /\ exit = "no"
      BY <1>0, <1>6, ServingSteps DEF cfgVars, startVars, Position
    <2>2. Plugins' = Plugins /\ \A p \in Plugins : proc'[p] = "running" => proc[p] = "running"
      BY <1>0, <1>6, <2>1, ServingSteps, SameFile DEF TypeOK
    <2>3. CASE ShutdownReturns
      <3>1. \A p \in Plugins : p \in tracked
        <4>1. cur = Len(file.plugins) + 1 /\ file \in Configs
          BY <1>0, <2>3 DEF ShutdownReturns, Position, TypeOK
        <4>2. Len(file.plugins) \in Nat
          BY <4>1, LoadKeeps
        <4> QED BY <1>0, <4>1, <4>2 DEF Progress, Plugins
      <3>2. phase' = "stop" /\ exit' = exit /\ toStop' = tracked
        BY <2>3 DEF ShutdownReturns
      <3> QED BY <2>1, <2>2, <3>1, <3>2 DEF Draining
    <2>4. CASE RunReturns
      <3>1. /\ phase = "stop" /\ stopping = 0 /\ toStop = {} /\ phase' = "exited" /\ proc' = proc
        BY <2>4 DEF RunReturns, Exit
      <3>2. \A p \in Plugins : p # 0
        BY DEF Plugins
      <3> QED BY <1>0, <2>2, <3>1, <3>2 DEF Draining
    <2>5. CASE \E p \in Plugins : Interrupt(p)
      <3>1. PICK p \in Plugins : Interrupt(p)
        BY <2>5
      <3>2. /\ phase' = "stop" /\ exit' = exit /\ stopping = 0
            /\ stopping' = p /\ toStop' = toStop \ {p} /\ phase = "stop"
        BY <3>1 DEF Interrupt
      <3>3. \A q \in Plugins : q # 0
        BY DEF Plugins
      <3> QED BY <1>0, <2>1, <2>2, <3>2, <3>3 DEF Draining
    <2>6. CASE ProcessStopped
      <3>1. /\ phase = "stop" /\ phase' = "stop" /\ exit' = exit /\ toStop' = toStop
            /\ stopping # 0 /\ proc' = [proc EXCEPT ![stopping] = "dead"]
        BY <2>6 DEF ProcessStopped
      <3>2. \A p \in Plugins : proc'[p] = "running" => proc[p] = "running" /\ p # stopping
        BY <1>0, <2>2, <3>1 DEF TypeOK
      <3> QED BY <1>0, <2>1, <2>2, <3>1, <3>2 DEF Draining
    <2>7. CASE \/ RequestBegins \/ RequestEnds \/ ServerFails \/ ShutdownBegins
               \/ ShutdownExpires \/ Signal \/ \E p \in Plugins : Die(p)
      <3>1. /\ UNCHANGED <<toStop, stopping>>
            /\ \/ UNCHANGED <<phase, exit>>
               \/ phase = "serving" /\ phase' = "exited" /\ exit' = "server failed"
               \/ phase = "serving" /\ phase' = "shutdown" /\ exit' = exit
        BY <2>7 DEF RequestBegins, RequestEnds, ServerFails, ShutdownBegins, ShutdownExpires,
                    Signal, Die, Exit, runVars
      <3> QED BY <1>0, <2>1, <2>2, <3>1 DEF Draining
    <2> QED BY <1>6, <2>3, <2>4, <2>5, <2>6, <2>7 DEF Serving, Stopping
  <1>7. CASE UNCHANGED vars
    BY <1>0, <1>7, SameFile DEF vars, Draining
  <1> QED BY <1>1, <1>2, <1>3, <1>4, <1>5, <1>6, <1>7, NextSplit

(* SecretsScoped for one plugin: its leaves, what it is given and what its *)
(* metadata asks for.                                                      *)
Scoped(leaves, g, permitted) ==
  g # Nothing =>
    /\ g.secrets = Refs(leaves) /\ g.secrets \subseteq permitted
    /\ g.json.text = "json" => \A k \in DOMAIN leaves :
         g.json.config[k] = IF leaves[k].kind = "ref" THEN Env[leaves[k].name] ELSE leaves[k]
    /\ g.json.text # "json" => g.json.config = <<>> /\ ~Encodes(leaves)

(* SecretsScoped is Scoped for each plugin, before and after a step.       *)
LEMMA ScopedEach ==
  /\ SecretsScoped <=> \A p \in Plugins : Scoped(file.plugins[p].leaves, given[p], permits[p])
  /\ UNCHANGED file =>
       (SecretsScoped' <=>
          \A p \in Plugins : Scoped(file.plugins[p].leaves, given'[p], permits'[p]))
  <1>1. SecretsScoped <=> \A p \in Plugins : Scoped(file.plugins[p].leaves, given[p], permits[p])
    BY DEF SecretsScoped, Scoped
  <1>2. ASSUME UNCHANGED file
        PROVE  SecretsScoped' <=>
                 \A p \in Plugins : Scoped(file.plugins[p].leaves, given'[p], permits'[p])
    BY <1>2, SameFile DEF SecretsScoped, Scoped
  <1> QED BY <1>1, <1>2

(* Where no plugin is given anything new.                                  *)
LEMMA SecretsKept ==
  ASSUME SecretsScoped, UNCHANGED <<file, permits, given>>
  PROVE  SecretsScoped'
  BY ScopedEach

(* A plugin is given what resolveValue makes of its configuration, once    *)
(* its metadata is known and all it refers to is permitted.                *)
LEMMA SecretsStep == IInv /\ [Next]_vars => SecretsScoped'
  <1> SUFFICES ASSUME IInv, [Next]_vars PROVE SecretsScoped'
    OBVIOUS
  <1>0. TypeOK /\ Position /\ Progress /\ SecretsScoped
    BY DEF IInv
  <1>1. CASE LoadConfig
    BY <1>0, <1>1, SecretsKept DEF LoadConfig, startVars, plugVars
  <1>2. CASE Advancing
    <2>1. step \in 1 .. 10 /\ phase = "start" /\ UNCHANGED file
      BY <1>0, <1>2, AdvancingSteps DEF TypeOK, cfgVars
    <2>2. cur \in Plugins /\ cfg.plugins[cur].leaves = file.plugins[cur].leaves
      BY <1>0, <2>1, InStart
    <2>3. /\ step \in 1 .. Len(Steps)
          /\ \A p \in Plugins : Scoped(file.plugins[p].leaves, given[p], permits[p])
      BY <1>0, ScopedEach DEF TypeOK
    <2>4. CASE step = 7
      <3>1. given' = given /\ given[cur] = Nothing
        BY <1>0, <1>2, <2>2, <2>3, <2>4, AdvancingSteps DEF Progress
      <3>2. PICK names : permits' = [permits EXCEPT ![cur] = names]
        BY <1>2, <2>3, <2>4, AdvancingSteps
      <3>3. ASSUME NEW p \in Plugins
            PROVE  Scoped(file.plugins[p].leaves, given'[p], permits'[p])
        <4>1. CASE p = cur
          BY <3>1, <4>1 DEF Scoped
        <4>2. CASE p # cur
          BY <1>0, <2>3, <3>1, <3>2, <4>2 DEF Progress
        <4> QED BY <4>1, <4>2
      <3> QED BY <2>1, <3>3, ScopedEach
    <2>5. CASE step = 9
      <3> DEFINE leaves == file.plugins[cur].leaves
                 new    == [json |-> ConfigJSON(leaves, Env), secrets |-> ResolvedSecrets(leaves)]
      <3>1. permits' = permits /\ given' = [given EXCEPT ![cur] = new]
        BY <1>2, <2>2, <2>3, <2>5, AdvancingSteps
      <3>2. ResolvesSecrets(leaves, permits[cur], cfg.envEnabled, Env)
        BY <1>2, <2>2, <2>3, <2>5, AdvancingSteps
      <3>3. Scoped(leaves, new, permits[cur])
        <4>1. new.secrets = Refs(leaves) /\ new.secrets \subseteq permits[cur]
          BY <3>2 DEF ResolvesSecrets, ResolvedSecrets
        <4>2. CASE Encodes(leaves)
          BY <4>1, <4>2 DEF Scoped, ConfigJSON, Encodes, ResolveValue, IsSecretRef
        <4>3. CASE ~Encodes(leaves)
          BY <4>1, <4>3 DEF Scoped, ConfigJSON
        <4> QED BY <4>2, <4>3
      <3> HIDE DEF new
      <3>4. \A p \in Plugins : given'[p] = IF p = cur THEN new ELSE given[p]
        BY <1>0, <3>1 DEF Progress
      <3> QED BY <2>1, <2>2, <2>3, <3>1, <3>3, <3>4, ScopedEach
    <2>6. CASE step \notin {7, 9}
      BY <1>0, <1>2, <2>1, <2>6, AdvancingSteps, SecretsKept DEF TypeOK
    <2> QED BY <2>4, <2>5, <2>6
  <1>3. CASE StepFails
    BY <1>0, <1>3, SecretsKept DEF StepFails, cfgVars, startVars, plugVars
  <1>4. CASE Register
    BY <1>0, <1>4, SecretsKept DEF Register, cfgVars, plugVars
  <1>5. CASE Compile
    BY <1>0, <1>5, SecretsKept DEF Compile, startVars, plugVars
  <1>6. CASE Serving
    BY <1>0, <1>6, ServingSteps, SecretsKept DEF cfgVars, startVars, plugVars
  <1>7. CASE UNCHANGED vars
    BY <1>0, <1>7, SecretsKept DEF vars
  <1> QED BY <1>1, <1>2, <1>3, <1>4, <1>5, <1>6, <1>7, NextSplit

(* No request is under way at Manager.Stop, or the timeout has passed.     *)
LEMMA RequestsStep == IInv /\ [Next]_vars => RequestsFirst'
  <1> SUFFICES ASSUME IInv, [Next]_vars PROVE RequestsFirst'
    OBVIOUS
  <1>0. TypeOK /\ RequestsFirst
    BY DEF IInv
  <1>1. CASE LoadConfig
    BY <1>1 DEF LoadConfig, Exit, RequestsFirst
  <1>2. CASE Advancing
    BY <1>0, <1>2, AdvancingSteps DEF TypeOK, RequestsFirst
  <1>3. CASE StepFails
    BY <1>3 DEF StepFails, Exit, RequestsFirst
  <1>4. CASE Register
    BY <1>4 DEF Register, RequestsFirst
  <1>5. CASE Compile
    BY <1>5 DEF Compile, Exit, RequestsFirst
  <1>6. CASE Serving
    <2>1. CASE ShutdownReturns
      BY <2>1 DEF ShutdownReturns, RequestsFirst
    <2>2. CASE ShutdownBegins \/ RunReturns \/ ServerFails
      BY <2>2 DEF ShutdownBegins, RunReturns, ServerFails, Exit, RequestsFirst
    <2>3. CASE RequestBegins \/ RequestEnds \/ ShutdownExpires
      BY <1>0, <2>3 DEF RequestBegins, RequestEnds, ShutdownExpires, RequestsFirst
    <2>4. CASE \/ ProcessStopped \/ Signal
               \/ \E p \in Plugins : Interrupt(p) \/ Die(p)
      BY <1>0, <2>4 DEF ProcessStopped, Interrupt, Signal, Die, RequestsFirst, runVars
    <2> QED BY <1>6, <2>1, <2>2, <2>3, <2>4 DEF Serving, Stopping
  <1>7. CASE UNCHANGED vars
    BY <1>0, <1>7 DEF vars, RequestsFirst
  <1> QED BY <1>1, <1>2, <1>3, <1>4, <1>5, <1>6, <1>7, NextSplit

(* The registry lists an alias if it has candidates, each with a weight.   *)
LEMMA AliasesAreRoutable ==
  ASSUME NEW c \in Configs, NEW m \in DOMAIN c.aliases, NEW reg, reg = NewRegistry(c.aliases)
  PROVE  /\ m \in ListModels(reg, {}) <=> Candidates(reg, m) # <<>>
         /\ \A i \in DOMAIN Candidates(reg, m) : Candidates(reg, m)[i].weight # 0
  <1> DEFINE a == c.aliases[m]
             f == [i \in DOMAIN a |-> [a[i] EXCEPT !.weight = Default(@, 0, 100)]]
  <1>1. /\ a = [i \in 1 .. Len(a) |-> a[i]] /\ Len(a) \in Nat
        /\ \A i \in DOMAIN a : DOMAIN a[i] = {"provider", "weight"} /\ a[i].weight \in Int
    BY ConfigAssumption DEF IsConfig, IsList
  <1>2. m \in DOMAIN reg <=> a # <<>>
    BY DEF NewRegistry
  <1>3. a # <<>> => reg[m] = f
    BY DEF NewRegistry
  <1>4. \A i \in DOMAIN a : f[i].weight # 0
    BY <1>1 DEF Default
  <1>5. f = <<>> => a = <<>>
    <2>1. DOMAIN f = DOMAIN a /\ DOMAIN <<>> = {}
      OBVIOUS
    <2>2. ASSUME f = <<>> PROVE a = <<>>
      <3>1. 1 .. Len(a) = {}
        BY <1>1, <2>1, <2>2
      <3> DEFINE S == {a[i] : i \in 1 .. Len(a)}
      <3>2. a \in [1 .. Len(a) -> S]
        BY <1>1
      <3> HIDE DEF S, a
      <3>3. Len(a) \in Nat
        BY <1>1
      <3>4. a \in Seq(S)
        BY <3>2, <3>3, SeqDef
      <3>5. Len(a) = 0
        BY <3>1, <3>3
      <3> QED BY <3>4, <3>5, EmptySeq
    <2> QED BY <2>2
  <1>6. Candidates(reg, m) = IF a # <<>> THEN f ELSE <<>>
    BY <1>2, <1>3 DEF Candidates
  <1>7. DOMAIN f = DOMAIN a
    OBVIOUS
  <1> HIDE DEF f
  <1> QED BY <1>2, <1>4, <1>5, <1>6, <1>7 DEF ListModels

(* A gateway that is not ready promises nothing, and as long as nothing    *)
(* changes that its stages rest on it stays complete.                      *)
LEMMA ReadyKept ==
  ASSUME ReadyIsComplete, ready' = ready,
         ~ready \/ UNCHANGED <<file, cfg, models, configured, offers>>
  PROVE  ReadyIsComplete'
  <1>1. CASE ~ready
    BY <1>1 DEF ReadyIsComplete
  <1>2. CASE UNCHANGED <<file, cfg, models, configured, offers>>
    BY <1>2, SameFile DEF ReadyIsComplete, Serves, Routable
  <1> QED BY <1>1, <1>2

(* compile finds every stage in the registry before it says ready.         *)
LEMMA ReadyStep == IInv /\ [Next]_vars => ReadyIsComplete'
  <1> SUFFICES ASSUME IInv, [Next]_vars PROVE ReadyIsComplete'
    OBVIOUS
  <1>0. TypeOK /\ Position /\ Registered /\ ReadyIsComplete
    BY DEF IInv
  <1>1. CASE LoadConfig
    <2>1. phase = "load" /\ ready' = ready
      BY <1>1 DEF LoadConfig, runVars
    <2> QED BY <1>0, <2>1, ReadyKept DEF Position
  <1>2. CASE Advancing
    <2>1. phase = "start" /\ ready' = ready
      BY <1>0, <1>2, AdvancingSteps DEF TypeOK, runVars
    <2> QED BY <1>0, <2>1, ReadyKept DEF Position
  <1>3. CASE StepFails
    <2>1. phase = "start" /\ ready' = ready
      BY <1>3 DEF StepFails, runVars
    <2> QED BY <1>0, <2>1, ReadyKept DEF Position
  <1>4. CASE Register
    <2>1. phase = "start" /\ ready' = ready
      BY <1>4 DEF Register, At, runVars
    <2> QED BY <1>0, <2>1, ReadyKept DEF Position
  <1>5. CASE Compile
    <2>1. /\ phase = "compile" /\ models' = NewRegistry(cfg.aliases)
          /\ UNCHANGED <<file, cfg, configured, offers, registry>>
      BY <1>5 DEF Compile, startVars, plugVars
    <2>2. CASE ready' = ready
      BY <1>0, <2>1, <2>2, ReadyKept DEF Position
    <2>3. CASE ready' # ready
      <3>1. Resolved /\ ready' = (Missing = {})
        BY <1>5, <2>3 DEF Compile
      <3>2. file \in Configs /\ cfg = Load(file)
        BY <1>0, <2>1 DEF TypeOK, Position
      <3>3. models' = NewRegistry(file.aliases)
        BY <2>1, <3>2, LoadKeeps
      <3>4. \A c, name : Serves(c, name) => Serves(c, name)'
        BY <2>1, ServesKept
      <3>5. ASSUME Missing = {}
            PROVE  /\ cfg.anonymous \/ Serves("authenticator", cfg.authenticator)
                   /\ Serves("router", cfg.router)
                   /\ cfg.upstreams # {}
        <4>1. \A c, name : Has(c, name) => Serves(c, name)
          BY <1>0 DEF Has, Registered
        <4>2. cfg.anonymous \/ Has("authenticator", cfg.authenticator)
          BY <3>5 DEF Missing
        <4>3. Has("router", cfg.router) /\ cfg.upstreams # {}
          BY <3>5 DEF Missing
        <4> QED BY <4>1, <4>2, <4>3
      <3>6. /\ \A name \in cfg.upstreams : Serves("upstream", name)
            /\ \A s \in cfg.insisted : Serves(s[1], s[2])
        BY <1>0, <3>1 DEF Resolved, Has, Registered
      <3>7. \A m \in DOMAIN file.aliases : Routable(m)'
        BY <2>1, <3>2, <3>3, AliasesAreRoutable DEF Routable
      <3> QED BY <2>1, <3>1, <3>4, <3>5, <3>6, <3>7 DEF ReadyIsComplete
    <2> QED BY <2>2, <2>3
  <1>6. CASE Serving
    <2>1. UNCHANGED <<file, cfg, models, configured, offers, ready>>
      BY <1>6, ServingSteps DEF cfgVars, startVars, plugVars
    <2> QED BY <1>0, <2>1, ReadyKept
  <1>7. CASE UNCHANGED vars
    BY <1>0, <1>7, ReadyKept DEF vars
  <1> QED BY <1>1, <1>2, <1>3, <1>4, <1>5, <1>6, <1>7, NextSplit

-----------------------------------------------------------------------------
(***************************************************************************)
(* What holds of every gateway, whatever its configuration file.           *)
(***************************************************************************)
(* The inductive invariant holds at first.                                 *)
LEMMA InitInv == Init => IInv
  <1> SUFFICES ASSUME Init PROVE IInv
    OBVIOUS
  <1>1. TypeOK
    BY TypeInit
  <1>2. Len(file.plugins) \in Nat /\ Plugins = 1 .. Len(file.plugins)
    BY LoadKeeps DEF Init, Plugins
  <1>3. ~Loaded /\ Position
    BY DEF Init, Position, Loaded
  <1>4. Progress
    BY <1>2 DEF Init, Progress
  <1>5. Registered /\ Draining
    BY DEF Init, Registered, Draining
  <1>6. SecretsScoped /\ ReadyIsComplete /\ RequestsFirst
    BY DEF Init, SecretsScoped, ReadyIsComplete, RequestsFirst
  <1> QED BY <1>1, <1>3, <1>4, <1>5, <1>6 DEF IInv

(* The inductive invariant: what Manager.Start has reached with each       *)
(* plugin, and what Manager.Stop has still to do.                          *)
THEOREM Invariance == Spec => []IInv
  <1>1. IInv /\ [Next]_vars => IInv'
    BY TypeStep, PositionStep, ProgressStep, RegisteredStep, DrainingStep, SecretsStep,
       ReadyStep, RequestsStep DEF IInv
  <1> QED BY InitInv, <1>1, PTL DEF Spec

(* Every variable has its type in every state of every gateway.            *)
THEOREM TypeCorrect == Spec => []TypeOK
  <1>1. IInv => TypeOK
    BY DEF IInv
  <1> QED BY <1>1, Invariance, PTL

(* Manager.Start: no plugin runs, or is followed by one that runs, unless  *)
(* it was vetted, and one that is followed was configured.                 *)
THEOREM PluginsStartInOrder == Spec => []StartedInOrder
  <1>1. IInv => StartedInOrder
    <2> SUFFICES ASSUME IInv, NEW p \in Plugins, NEW q \in Plugins, proc[q] # "none"
                 PROVE  /\ p <= q => Vetted(p)
                        /\ p < q => p \in tracked /\ p \in configured
      BY DEF StartedInOrder
    <2>1. file \in Configs /\ cur \in 1 .. Len(file.plugins) + 1
      BY DEF IInv, TypeOK
    <2>2. Len(file.plugins) \in Nat /\ Plugins = 1 .. Len(file.plugins)
      BY <2>1, LoadKeeps DEF Plugins
    <2>3. step \in 1 .. 11
      BY StepNumbers DEF IInv, TypeOK
    <2>4. q < cur \/ (q = cur /\ step > 3)
      BY <2>1, <2>2, <2>3 DEF IInv, Progress
    <2>5. p <= q => p < cur \/ (p = cur /\ step > 1)
      BY <2>1, <2>2, <2>3, <2>4
    <2>6. p < q => p < cur
      BY <2>1, <2>2, <2>4
    <2> QED BY <2>5, <2>6 DEF IInv, Progress
  <1> QED BY <1>1, Invariance, PTL

(* Manager.Start, ResolvePluginSecrets: a plugin is given the secrets that *)
(* its own configuration refers to and its metadata asks for, no others.   *)
THEOREM SecretsStayScoped == Spec => []SecretsScoped
  <1>1. IInv => SecretsScoped
    BY DEF IInv
  <1> QED BY <1>1, Invariance, PTL

(* compile: a gateway that says it is ready has a plugin behind every      *)
(* stage, which was configured for it and offered it.                      *)
THEOREM ReadyGatewayIsComplete == Spec => []ReadyIsComplete
  <1>1. IInv => ReadyIsComplete
    BY DEF IInv
  <1> QED BY <1>1, Invariance, PTL

(* Manager.Stop leaves no process behind, and the manager knows all that   *)
(* run while the gateway serves.                                           *)
THEOREM NoProcessIsForgotten == Spec => []NoStrayProcess
  <1>1. IInv => NoStrayProcess
    <2> SUFFICES ASSUME IInv, NEW p \in Plugins, proc[p] = "running"
                 PROVE  /\ exit # "stopped"
                        /\ phase \in {"serving", "shutdown", "stop"} => p \in tracked
      BY DEF NoStrayProcess
    <2>1. exit # "stopped"
      BY DEF IInv, Draining
    <2>2. Len(file.plugins) \in Nat /\ Plugins = 1 .. Len(file.plugins)
      BY LoadKeeps DEF IInv, TypeOK, Plugins
    <2>3. phase \in {"serving", "shutdown", "stop"} => p < cur
      BY <2>2 DEF IInv, Position
    <2> QED BY <2>1, <2>3 DEF IInv, Progress
  <1> QED BY <1>1, Invariance, PTL

(* App.Run: the plugins outlive the requests that are being served, unless *)
(* the shutdown timeout has passed.                                        *)
THEOREM RequestsComeFirst == Spec => []RequestsFirst
  <1>1. IInv => RequestsFirst
    BY DEF IInv
  <1> QED BY <1>1, Invariance, PTL
=============================================================================
