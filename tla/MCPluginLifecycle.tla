-------------------------- MODULE MCPluginLifecycle --------------------------
(***************************************************************************)
(* PluginLifecycle for TLC: no plugin; one plugin for everything; two that *)
(* share the work, with and without an observer compile insists on; names  *)
(* that are empty, unknown or given twice; a plugin that is refused,       *)
(* before and after one that is not, or whose trust is misspelt; secrets   *)
(* that are set, not set, or look like a reference themselves, and one     *)
(* below a map that is not looked into; a number JSON lacks; durations     *)
(* without a unit and below zero; models with and without candidates.      *)
(***************************************************************************)
EXTENDS PluginLifecycle

AllCaps == {"authenticator", "router", "upstream", "observer"}

Leaf(kind, name) == [kind |-> kind, name |-> name, hidden |-> FALSE]
Hidden(leaf)     == [leaf EXCEPT !.hidden = TRUE]
Environment == [KEY |-> Leaf("text", "k"), LOOP |-> Leaf("ref", "KEY")]

Plugin(name, caps) ==
  [name |-> name, type |-> "filesystem", complete |-> TRUE, failMode |-> "", trust |-> "",
   sandbox |-> FALSE, declared |-> caps, leaves |-> <<>>]
WithTrust(p, t) == [p EXCEPT !.trust = t]
WithConfig(p, leaves) == [p EXCEPT !.leaves = leaves]

Str(n, unit) == [kind |-> "str", amount |-> n, unit |-> unit]
Bare(n)      == [kind |-> "int", amount |-> n, unit |-> 0]

File(ps, anon, authn, router, ups, ins) ==
  [durations |-> [request_timeout |-> Absent, stream_idle_timeout |-> Absent,
                  flush_interval |-> Absent, initial_backoff |-> Absent,
                  max_backoff |-> Absent],
   retryOn |-> {}, envEnabled |-> TRUE,
   aliases |-> [fast |-> <<[provider |-> "b", weight |-> 0]>>, empty |-> <<>>],
   plugins |-> ps, anonymous |-> anon, authenticator |-> authn, router |-> router,
   upstreams |-> ups, insisted |-> ins]
WithTimeout(f, node) == [f EXCEPT !.durations.request_timeout = node]

Core     == Plugin("a", {"authenticator", "router"})
Provider == Plugin("b", {"upstream", "observer"})
Pair     == <<Core, Provider>>
Solo     == Plugin("a", AllCaps)
SoloFile(p) == File(<<p>>, TRUE, "", "a", {"a"}, {})

SmallConfigs ==
  {File(<<>>, TRUE, "", "", {}, {}),
   File(<<Solo>>, FALSE, "a", "a", {"a"}, {<<"observer", "a">>}),
   File(<<Solo>>, FALSE, "", "a", {"a"}, {}),
   File(Pair, FALSE, "a", "a", {"b"}, {<<"observer", "b">>}),
   File(Pair, FALSE, "a", "a", {}, {}),
   File(Pair, FALSE, "a", "x", {"b"}, {}),
   File(Pair, TRUE, "", "a", {"b", "x"}, {}),
   File(<<Core, WithTrust(Provider, "untrusted")>>, FALSE, "a", "a", {"b"}, {}),
   File(<<WithTrust(Provider, "untrusted"), Core>>, FALSE, "a", "a", {"b"}, {}),
   SoloFile(WithTrust(Solo, "Untrusted")),
   SoloFile([WithTrust(Solo, "untrusted") EXCEPT !.sandbox = TRUE]),
   SoloFile([Solo EXCEPT !.name = ""]), SoloFile([Solo EXCEPT !.type = "ftp"]),
   File(<<Solo, Plugin("a", {"observer"})>>, TRUE, "", "a", {"a"}, {}),
   SoloFile(WithConfig(Solo, [url |-> Leaf("text", "u"), key |-> Leaf("ref", "KEY"),
                              more |-> Leaf("ref", "LOOP"), size |-> Leaf("value", "n")])),
   SoloFile(WithConfig(Solo, [url |-> Leaf("ref", "LOOP"), key |-> Hidden(Leaf("ref", "KEY"))])),
   SoloFile(WithConfig(Solo, [key |-> Leaf("ref", "KEY"), size |-> Leaf("nan", "n")])),
   SoloFile(WithConfig(Solo, [key |-> Leaf("ref", "UNSET")])),
   [SoloFile(WithConfig(Solo, [key |-> Leaf("ref", "KEY")])) EXCEPT !.envEnabled = FALSE],
   WithTimeout(SoloFile(Solo), Str(30, 0)), WithTimeout(SoloFile(Solo), Str(-1, 4)),
   WithTimeout(SoloFile(Solo), Bare(30))}
=============================================================================
