------------------------------ MODULE MCAccess ------------------------------
(***************************************************************************)
(* The policies that decide who the caller of a route is, and with which   *)
(* token the backend is called, for TLC: jwt-auth, opaque-token-auth,      *)
(* oauth2-token-exchange and backend-jwt.  A behaviour is of one of these  *)
(* parts; the variables of the others keep their initial value.            *)
(***************************************************************************)
EXTENDS TokenExchange, BackendJwt, JwtAuth, OpaqueAuth, AccessValues

CONSTANT Parts    \* the parts a run is about

VARIABLE part

SuiteInit == part \in Parts /\ ExchangeInit /\ BackendInit /\ JwtInit /\ OpaqueInit

SuiteNext ==
  \/ part = "exchange" /\ ExchangeNext /\ UNCHANGED <<part, backendVars, jwtVars, opaqueVars>>
  \/ part = "backend" /\ BackendNext /\ UNCHANGED <<part, exchangeVars, jwtVars, opaqueVars>>
  \/ part = "jwt" /\ JwtNext /\ UNCHANGED <<part, exchangeVars, backendVars, opaqueVars>>
  \/ part = "opaque" /\ OpaqueNext /\ UNCHANGED <<part, exchangeVars, backendVars, jwtVars>>

suiteVars == <<part, exchangeVars, backendVars, jwtVars, opaqueVars>>

SuiteSpec == SuiteInit /\ [][SuiteNext]_suiteVars

-----------------------------------------------------------------------------
\* jwt-auth and opaque-token-auth: an admitted request has a token that an
\* issuer trusted by its own route vouched for recently enough and that meets
\* what the route demands, whatever keys, verdicts and answers the routes share
\* and however late an answer comes; and jwt-auth refuses no request that does.
CallerDue == JwtAdmitsDue /\ JwtRefusesDue /\ OpaqueAdmitsDue

\* oauth2-token-exchange and backend-jwt: the token the backend is sent was
\* issued for the caller of this request, on the terms of its own route and
\* deployment, and is alive: a cached token serves no other caller.
CredentialDue == ExchangedTokenDue /\ BackendTokenDue

=============================================================================
