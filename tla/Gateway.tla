------------------------------ MODULE Gateway ------------------------------
(***************************************************************************)
(* services/gateway as cmd/server/main.go wires it: authentication and the *)
(* dispatch of an HTTP request to a gRPC method (internal/middleware/      *)
(* auth.go, internal/router and the handlers that protoc-gen-grpc-gateway  *)
(* generated).  main.go leaves the rate limiter out.                       *)
(*                                                                         *)
(* A path is the sequence of its segments, with "id" where the pattern has *)
(* a parameter; the verb of a request is the one its route asks for.       *)
(***************************************************************************)
EXTENDS Integers, Sequences

CONSTANTS
    Callers,     \* HTTP requests in flight
    Paths,       \* paths that clients ask for
    NoUser       \* no user_id in the context

VARIABLES
    now,         \* the clock
    gpc,         \* where a request is
    req          \* the request: its path and its user

NoAccess == [user |-> NoUser, exp |-> 0]
NoRequest == [path |-> <<>>, user |-> NoUser]

-----------------------------------------------------------------------------
(* The routing table.                                                      *)

IdentityRoutes ==
    { [service |-> "identity", rpc |-> "Register", path |-> <<"v1", "auth", "register">>],
      [service |-> "identity", rpc |-> "Login", path |-> <<"v1", "auth", "login">>],
      [service |-> "identity", rpc |-> "RefreshToken", path |-> <<"v1", "auth", "refresh">>],
      [service |-> "identity", rpc |-> "Logout", path |-> <<"v1", "auth", "logout">>] }

WalletRoutes ==
    { [service |-> "wallet", rpc |-> "CreateWallet", path |-> <<"v1", "wallets">>],
      [service |-> "wallet", rpc |-> "GetBalance", path |-> <<"v1", "wallets", "id", "balance">>],
      [service |-> "wallet", rpc |-> "Deposit", path |-> <<"v1", "wallets", "id", "deposit">>],
      [service |-> "wallet", rpc |-> "Withdraw", path |-> <<"v1", "wallets", "id", "withdraw">>] }

TransactionRoutes ==
    { [service |-> "transaction", rpc |-> "InitiateTransfer",
       path |-> <<"v1", "transactions", "transfer">>],
      [service |-> "transaction", rpc |-> "GetTransaction", path |-> <<"v1", "transactions", "id">>] }

QueryRoutes ==
    { [service |-> "query", rpc |-> "GetBalance",
       path |-> <<"v1", "query", "wallets", "id", "balance">>],
      [service |-> "query", rpc |-> "GetStatement",
       path |-> <<"v1", "query", "wallets", "id", "statement">>],
      [service |-> "query", rpc |-> "GetUserStats",
       path |-> <<"v1", "query", "users", "id", "stats">>] }

\* router.New: what is registered with the mux.
Routes == IdentityRoutes \cup WalletRoutes \cup TransactionRoutes \cup QueryRoutes

\* strings.HasPrefix on a segment: the word itself and what is longer, for
\* which one name stands.
LongerThan == [login |-> "loginX", register |-> "registerX", refresh |-> "refreshX",
               healthz |-> "healthzX"]

HasPrefix(segment, word) == segment = word \/ segment = LongerThan[word]

\* isPublicPath: the last segment of a prefix need not end there.
IsPublicPath(path) ==
    \/ /\ Len(path) >= 3 /\ path[1] = "v1" /\ path[2] = "auth"
       /\ \E word \in {"login", "register", "refresh"} : HasPrefix(path[3], word)
    \/ Len(path) >= 1 /\ HasPrefix(path[1], "healthz")

-----------------------------------------------------------------------------
GInit ==
    /\ gpc = [p \in Callers |-> "idle"]
    /\ req = [p \in Callers |-> NoRequest]

\* The request is answered; which status it gets does not matter here.
Send(p) ==
    /\ gpc' = [gpc EXCEPT ![p] = "idle"]
    /\ req' = [req EXCEPT ![p] = NoRequest]

Enter(p, path, user) ==
    /\ gpc' = [gpc EXCEPT ![p] = "route"]
    /\ req' = [req EXCEPT ![p] = [path |-> path, user |-> user]]

\* Mutant: WithExpirationRequired and the check of exp are left out.
ParsesWithoutExpiry(access) == access # NoAccess

\* parseToken of the middleware, and the check for a Bearer header.
Parses(access) == access # NoAccess /\ now < access.exp

\* A request arrives, with an access token or without one, and
\* AuthMiddleware.Handler lets it in: on a public path whatever the token is.
\* A refused request (401) changes nothing.
Authenticate(p, access) ==
    /\ gpc[p] = "idle"
    /\ \E path \in Paths :
        \/ IsPublicPath(path) /\ Enter(p, path, NoUser)
        \/ /\ ~ IsPublicPath(path)
           /\ \E a \in access : Parses(a) /\ Enter(p, path, a.user)

\* The mux knows no such path.
NotFound(p) ==
    /\ gpc[p] = "route"
    /\ ~ \E r \in Routes : r.path = req[p].path
    /\ Send(p)

\* request_*: the body, a parameter or a header does not decode.
BadRequest(p) ==
    /\ gpc[p] = "route"
    /\ \E r \in Routes : r.path = req[p].path
    /\ Send(p)

\* request_*: the request is sent to the service of the route.
Forward(p, service) ==
    /\ gpc[p] = "route"
    /\ \E r \in Routes : r.path = req[p].path /\ r.service = service
    /\ gpc' = [gpc EXCEPT ![p] = "backend"]
    /\ UNCHANGED req

\* The answer of the service is forwarded, or its error by HTTPError.
Respond(p) == gpc[p] = "backend" /\ Send(p)

=============================================================================
