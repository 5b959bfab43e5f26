------------------------------- MODULE MCEdge -------------------------------
(***************************************************************************)
(* An instance of Edge for TLC.                                            *)
(***************************************************************************)
EXTENDS Edge, TLC

\* The auth routes, a route of each other service, and public paths that have
\* no route.
MCPaths ==
    { <<"v1", "auth", "register">>, <<"v1", "auth", "login">>, <<"v1", "auth", "refresh">>,
      <<"v1", "auth", "logout">>, <<"v1", "wallets", "id", "balance">>,
      <<"v1", "transactions", "id">>, <<"v1", "query", "users", "id", "stats">>,
      <<"healthz">>, <<"v1", "auth", "loginX">> }

Symmetry == Permutations(Callers)

=============================================================================
