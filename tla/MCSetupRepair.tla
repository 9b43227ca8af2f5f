--------------------------- MODULE MCSetupRepair ----------------------------
(***************************************************************************)
(* Small instances of SetupRepair: two setup processes, and layers of      *)
(* settings for each way to configure authentication.                      *)
(***************************************************************************)
EXTENDS SetupRepair

CONSTANTS h1, h2

Layer(f) == [k \in Keys |-> IF k \in DOMAIN f THEN f[k] ELSE Unset]

\* Plugin options and environments: nothing, a bearer token and services, OAuth,
\* and an empty token.
MCEnvs ==
  {Layer(f) : f \in {[services |-> "plain", token |-> "secret"],
                     [auth_mode |-> "oauth", oauth |-> "set"],
                     [token |-> "empty"]}}
  \cup {NoLayer}

MCTomls ==
  {NoLayer, Layer([services |-> "plain", host |-> "public"])}

\* .env files that use what write_env writes.
MCFiles ==
  {Layer(f) : f \in {[services |-> "plain", host |-> "public", token |-> "secret"],
                     [services |-> "plain", host |-> "public",
                      auth_mode |-> "oauth", oauth |-> "set"],
                     [services |-> "plain", no_auth |-> "true"]}}

\* A .env file for a server behind a trusted gateway.
MCGatewayFiles ==
  {Layer([services |-> "plain", host |-> "public", no_auth |-> "true",
          noauth |-> "true", allowed |-> "set"])}
MCNoEnv == {NoLayer}
MCNoToml == {NoLayer}
=============================================================================
