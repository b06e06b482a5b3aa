---------------------------- MODULE MCExampleRP ----------------------------
(* Instances of ExampleRP for TLC. *)
EXTENDS ExampleRP

\* Job registration of an alias, or registration of a module.
Job(a, dyn, fapi) ==
  [alias |-> a, module |-> None, namespace |-> <<a, None>>, action |-> None,
   allowError |-> FALSE, complete |-> TRUE, client |-> Static(1),
   dynamic |-> dyn, openid |-> ~fapi, fapi |-> fapi, memory |-> fapi,
   requestURI |-> FALSE]
Module(a, m, action, dyn, fapi) ==
  [Job(a, dyn, fapi) EXCEPT
     !.module = m, !.namespace = <<a, m>>, !.action = action,
     !.client = IF m \in EncryptedModules THEN Static(2) ELSE Static(1)]

\* A plan with dynamic registration; two aliases, one of them in RP_ISSUER,
\* with logins in cookies and in memory that ask for the other client; FAPI 1
\* with request objects; startup actions that fail.
MCTraffic ==
  {[runtimes |-> {Module("a", "m1", "full_flow", TRUE, FALSE),
                  Module("a", "m2", "full_flow", TRUE, FALSE)},
    logins |-> {}],
   [runtimes |-> {Module("a", "m1", "full_flow", FALSE, FALSE),
                  Module("b", "m1", "full_flow", FALSE, TRUE)},
    logins |-> {<<None, "m2">>, <<"a", "m2">>}],
   [runtimes |-> {[Module("a", "m1", "full_flow", FALSE, FALSE)
                     EXCEPT !.requestURI = TRUE, !.openid = FALSE, !.fapi = TRUE]},
    logins |-> {}],
   [runtimes |-> {[Module("b", "m2", "discovery_only", TRUE, FALSE)
                     EXCEPT !.allowError = TRUE],
                  [Module("b", "m1", "full_flow", FALSE, FALSE)
                     EXCEPT !.complete = FALSE]},
    logins |-> {}]}
=============================================================================
