---------------------------- MODULE Configuration ----------------------------
(***************************************************************************)
(* The gateway's configuration file and what is computed from it: Load     *)
(* (durations, defaults, validation), the secrets a plugin is given and    *)
(* the model aliases.  There is no state here.                             *)
(*                                                                         *)
(* A configuration is a record of                                          *)
(*   durations   name -> YAML node                                         *)
(*   plugins     a sequence of records                                     *)
(*   aliases     logical model -> sequence of candidates                   *)
(* and of the parts of auth, secrets and pipeline that compile and         *)
(* Manager.Start look at.  fallbacks.do_not_retry_on, restart and          *)
(* stream_idle_timeout are read by nothing.                                *)
(***************************************************************************)
EXTENDS Integers, Sequences

CONSTANT Second       \* nanoseconds in a second, scaled down for TLC

ASSUME SecondAssumption == Second \in Nat \ {0}

-----------------------------------------------------------------------------
(***************************************************************************)
(* Duration.UnmarshalYAML.  A node is absent (or null: then it is not      *)
(* called), a string, an integer or something else.  A string needs a      *)
(* unit, 0 if there is none; a bare integer counts nanoseconds.            *)
(***************************************************************************)
Absent      == [kind |-> "absent", amount |-> 0, unit |-> 0]
Parses(n)   == \/ n.kind \in {"absent", "int"}
               \/ n.kind = "str" /\ (n.unit > 0 \/ n.amount = 0)
Nanos(n)    == IF n.kind = "str" THEN n.amount * n.unit ELSE n.amount

(* ApplyDefaults: what is zero or empty is replaced, what is negative is   *)
(* not.                                                                    *)
DefaultDurations ==
  [request_timeout |-> 120 * Second, stream_idle_timeout |-> 60 * Second,
   flush_interval |-> Second, initial_backoff |-> Second \div 2, max_backoff |-> 30 * Second]

Default(v, unset, d) == IF v = unset THEN d ELSE v

PluginDefaults(p) ==
  [p EXCEPT !.failMode = Default(@, "", "closed"), !.trust = Default(@, "", "community")]

ApplyDefaults(c) ==
  [c EXCEPT
    !.durations = [k \in DOMAIN @ |-> Default(Nanos(@[k]), 0, DefaultDurations[k])],
    !.retryOn   = Default(@, {}, {"upstream_timeout", "upstream_rate_limited", "upstream_5xx"}),
    !.plugins   = [i \in DOMAIN @ |-> PluginDefaults(@[i])]]

(* Validate.  complete: the fields that the source's type needs are given. *)
(* The address to listen on has a default: its check cannot fail.          *)
ValidPlugin_AnyTrust(p) ==
  /\ p.name # ""
  /\ p.type \in {"filesystem", "github"} /\ p.complete
  /\ p.failMode \in {"open", "closed"}
ValidPlugin(p) ==
  /\ p.name # ""
  /\ p.type \in {"filesystem", "github"} /\ p.complete
  /\ p.failMode \in {"open", "closed"}
  /\ p.trust \in {"trusted", "community", "untrusted"}

Validate_NamesRepeat(c) == \A i \in DOMAIN c.plugins : ValidPlugin(c.plugins[i])
Validate(c) ==
  \A i \in DOMAIN c.plugins :
    /\ ValidPlugin(c.plugins[i])
    /\ \A j \in DOMAIN c.plugins : c.plugins[i].name = c.plugins[j].name => i = j

(* Load, for a file that can be read and is YAML.                          *)
Loads(c) == (\A k \in DOMAIN c.durations : Parses(c.durations[k])) /\ Validate(ApplyDefaults(c))
Load(c)  == ApplyDefaults(c)

-----------------------------------------------------------------------------
(***************************************************************************)
(* Secrets.  A plugin's config is its leaves, whatever maps and lists they *)
(* sit in: "ref" is a text that is a reference once it is trimmed, "text"  *)
(* any other text, one with a reference inside it too, "nan" a number that *)
(* JSON has no word for (.nan, .inf), "value" anything else, an empty map  *)
(* or list too.  A leaf is hidden below a map with a key that is no text:  *)
(* yaml.v3 makes a map[any]any of it, and resolveValue's default returns   *)
(* that as it is, the references in it neither checked nor resolved.  env  *)
(* is the environment, name -> leaf: a value may look like anything.       *)
(***************************************************************************)
IsSecretRef(l) == l.kind = "ref" /\ ~l.hidden
Refs(leaves)   == {leaves[k].name : k \in {j \in DOMAIN leaves : IsSecretRef(leaves[j])}}

(* EnvProvider.Resolve.                                                    *)
Provides(enabled, env, name) == enabled /\ name \in DOMAIN env

(* ResolvePluginSecrets: the error, and the two results.  One pass: the    *)
(* value of a secret is not looked at again.                               *)
ResolvesSecrets_NotScoped(leaves, permitted, enabled, env) ==
  \A name \in Refs(leaves) : Provides(enabled, env, name)
ResolvesSecrets(leaves, permitted, enabled, env) ==
  \A name \in Refs(leaves) : name \in permitted /\ Provides(enabled, env, name)

ResolveValue(leaves, env) ==
  [k \in DOMAIN leaves |-> IF IsSecretRef(leaves[k]) THEN env[leaves[k].name] ELSE leaves[k]]
ResolvedSecrets(leaves) == Refs(leaves)

(* json.Marshal knows no map[any]any and no such number.  Configure        *)
(* discards its error: the text of such a config is empty.                 *)
Encodes(leaves) == \A k \in DOMAIN leaves : ~leaves[k].hidden /\ leaves[k].kind # "nan"
ConfigJSON(leaves, env) ==
  IF Encodes(leaves) THEN [text |-> "json", config |-> ResolveValue(leaves, env)]
                     ELSE [text |-> "empty", config |-> <<>>]

-----------------------------------------------------------------------------
(***************************************************************************)
(* models.Registry: an alias without candidates gets no entry, a weight of *)
(* zero counts as 100.                                                     *)
(***************************************************************************)
NewRegistry_EmptyEntry(aliases) ==
  [m \in DOMAIN aliases |->
     [i \in DOMAIN aliases[m] |-> [aliases[m][i] EXCEPT !.weight = Default(@, 0, 100)]]]
NewRegistry(aliases) ==
  [m \in {n \in DOMAIN aliases : aliases[n] # <<>>} |->
     [i \in DOMAIN aliases[m] |-> [aliases[m][i] EXCEPT !.weight = Default(@, 0, 100)]]]

(* <<>> stands for "model not found".                                      *)
Candidates(reg, m) == IF m \in DOMAIN reg THEN reg[m] ELSE <<>>

(* Pipeline.ListModels: the aliases and what the upstreams say of          *)
(* themselves, the ones that fail left out.                                *)
ListModels(reg, answers) == DOMAIN reg \cup UNION answers
=============================================================================
