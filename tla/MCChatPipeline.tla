---------------------------- MODULE MCChatPipeline ----------------------------
(***************************************************************************)
(* ChatPipeline for TLC: every combination of stages, no blocking observer *)
(* up to two, no attempt limit, a limit below and one above the number of  *)
(* routes; the providers "a" and "b" are configured, "x" is not.           *)
(***************************************************************************)
EXTENDS ChatPipeline

AllConfigs ==
  [ready : BOOLEAN, anonymous : BOOLEAN, authz : BOOLEAN, prompt : BOOLEAN,
   cache : BOOLEAN, limiter : BOOLEAN, upstreams : {{"a", "b"}},
   maxAttempts : {-1, 0, 2, 4}, blocking : {0, 2}, capture : BOOLEAN]

FullConfig ==
  {c \in AllConfigs : /\ c.ready /\ c.authz /\ c.prompt /\ c.cache /\ c.limiter
                      /\ ~c.anonymous /\ c.maxAttempts = 4 /\ c.blocking = 2 /\ ~c.capture}

SmallRoutings == {<<"a">>, <<"x">>, <<"a", "b">>, <<"x", "b">>, <<"a", "x", "b">>,
                  <<"a", "b", "a">>}
=============================================================================
