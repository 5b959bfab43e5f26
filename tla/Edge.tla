-------------------------------- MODULE Edge --------------------------------
(***************************************************************************)
(* The way into the system: HTTP requests pass the gateway (Gateway.tla),  *)
(* and those to the auth routes become calls of the identity service       *)
(* (IdentityService.tla) on the same clock.  The other services answer     *)
(* anything.  Both processes have the same JWT secret, which the defaults  *)
(* of their main.go do not give them.                                      *)
(***************************************************************************)
EXTENDS IdentityService

CONSTANTS Paths, NoUser

ASSUME EdgeAssumption == NoUser = NoId

VARIABLES gpc, req

Gw == INSTANCE Gateway

gatewayVars == <<gpc, req>>
edgeVars == <<vars, gatewayVars>>

EdgeInit == Init /\ Gw!GInit

\* The method of the identity service that a path is routed to.
RpcOf(path) == (CHOOSE r \in Gw!IdentityRoutes : r.path = path).rpc

\* The gateway calls the identity service, with what the body says.  An empty
\* body is no error: its fields are empty.
ForwardToIdentity(p) ==
    /\ Gw!Forward(p, "identity")
    /\ \E c \in Requests : c.op = RpcOf(req[p].path) /\ Begin(p, c)

\* The identity service has answered.
AnswerOfIdentity(p) == Finish(p) /\ Gw!Respond(p)

\* It calls one of the other services.
ForwardToWallet(p) == Gw!Forward(p, "wallet") /\ UNCHANGED vars
ForwardToTransaction(p) == Gw!Forward(p, "transaction") /\ UNCHANGED vars
ForwardToQuery(p) == Gw!Forward(p, "query") /\ UNCHANGED vars

\* The stub of the service returns an answer or an error, of whatever kind.
AnswerOf(p, routes) ==
    /\ \E r \in routes : r.path = req[p].path
    /\ Gw!Respond(p)
    /\ UNCHANGED vars

AnswerOfWallet(p) == AnswerOf(p, Gw!WalletRoutes)
AnswerOfTransaction(p) == AnswerOf(p, Gw!TransactionRoutes)
AnswerOfQuery(p) == AnswerOf(p, Gw!QueryRoutes)

\* What the gateway does with a request by itself.
GatewayStep(p) ==
    /\ Gw!Authenticate(p, granted) \/ Gw!NotFound(p) \/ Gw!BadRequest(p)
    /\ UNCHANGED vars

IdentityStep(p) == Step(p) /\ UNCHANGED gatewayVars

\* ValidateToken has no route: other services call it directly.
Validate(p) ==
    /\ gpc[p] = "idle"
    /\ Finish(p) \/ \E c \in Validations : Begin(p, c)
    /\ UNCHANGED gatewayVars

EdgeTick == Tick /\ UNCHANGED gatewayVars

EdgeNext ==
    \/ EdgeTick
    \/ \E p \in Callers :
        \/ GatewayStep(p) \/ IdentityStep(p) \/ Validate(p)
        \/ ForwardToIdentity(p) \/ AnswerOfIdentity(p)
        \/ ForwardToWallet(p) \/ ForwardToTransaction(p) \/ ForwardToQuery(p)
        \/ AnswerOfWallet(p) \/ AnswerOfTransaction(p) \/ AnswerOfQuery(p)

EdgeSpec == EdgeInit /\ [][EdgeNext]_edgeVars

-----------------------------------------------------------------------------
(* Properties.                                                             *)

\* Types of the identity service and of the requests in the gateway; only a
\* request on a public path has no user.
EdgeTypeOK ==
    /\ TypeOK
    /\ gpc \in [Callers -> {"idle", "route", "backend"}]
    /\ \A p \in Callers : gpc[p] # "idle" /\ req[p].user = NoUser => Gw!IsPublicPath(req[p].path)
    /\ req \in [Callers -> [path : Paths \cup {<<>>}, user : UserIds \cup {NoUser}]]

\* A request that the gateway will pass on to the wallet, transaction or query
\* service is let in only for a user, and less than the lifetime of an access
\* token after that user last had a session: however calls, failures and the
\* clock interleave, logout and expiry do cut a client off.
AdmissionNeedsSession ==
    [][\A p \in Callers :
        /\ gpc[p] = "idle" /\ gpc'[p] # "idle"
        /\ \E r \in Gw!Routes \ Gw!IdentityRoutes : r.path = req'[p].path
        => req'[p].user \in UserIds /\ now < lastAuth[req'[p].user] + AccessTTL]_edgeVars

=============================================================================
