-------------------------- MODULE IdentityService --------------------------
(***************************************************************************)
(* services/identity: registration, sessions and access tokens             *)
(* (application/auth_service.go behind adapters/inbound/grpc/server.go).   *)
(*                                                                         *)
(* A call is a caller's program counter; a step is one SQL statement with  *)
(* the in-memory code around it.  A statement may fail, with or without    *)
(* having taken effect.  A password stands for its bcrypt hash; an access  *)
(* token is its claims, since signatures are assumed not to be forged.     *)
(* Time is a number that does not decrease.                                *)
(***************************************************************************)
EXTENDS Integers, Sequences

CONSTANTS
    Callers,     \* concurrent calls
    Emails,
    Passwords,
    Missing,     \* an empty string in a request
    AccessTTL,   \* cfg.AccessTokenTTL
    RefreshTTL,  \* cfg.RefreshTokenTTL
    MaxTime,     \* bound on the clock
    MaxTokens,   \* bound: refresh tokens generated
    MaxFaults    \* bound: statements that fail

ASSUME IdentityAssumption ==
    /\ Missing \notin Emails \cup Passwords
    /\ AccessTTL \in Nat /\ RefreshTTL \in Nat /\ MaxTime \in Nat
    /\ MaxTokens \in Nat /\ MaxFaults \in Nat

VARIABLES
    now,         \* the clock
    users,       \* table users, in the order of insertion; the id is the index
    tokens,      \* table refresh_tokens
    minted,      \* how many refresh tokens were generated
    pc,          \* the statement a call will execute next
    call,        \* its arguments and local variables
    reply,       \* the status it returned
    known,       \* refresh tokens that were returned by a Login
    granted,     \* access tokens that were returned
    registered,  \* history: acknowledged registrations
    ended,       \* history: sessions whose Logout was acknowledged
    lastAuth,    \* history: when a user last had a session, or a call for one
    faults       \* failed statements so far

database == <<users, tokens, minted>>
issued == <<known, granted, registered, ended>>
vars == <<now, users, tokens, minted, pc, call, reply, known, granted,
          registered, ended, lastAuth, faults>>

Times == 0..MaxTime
Tokens == 1..MaxTokens
UserIds == 1..Len(users)
NoId == 0
Ops == {"Register", "Login", "RefreshToken", "ValidateToken", "Logout"}
Codes == {"OK", "InvalidArgument", "Unauthenticated", "Internal"}

\* A call that has not read anything; live is history, see Begin.
Request(op, email, password, token) ==
    [op |-> op, email |-> email, password |-> password, token |-> token,
     user |-> NoId, exp |-> 0, live |-> FALSE]

NoCall == Request("none", Missing, Missing, NoId)

Init ==
    /\ now = 0
    /\ users = <<>>
    /\ tokens = {}
    /\ minted = 0
    /\ pc = [p \in Callers |-> "idle"]
    /\ call = [p \in Callers |-> NoCall]
    /\ reply = [p \in Callers |-> "none"]
    /\ known = {}
    /\ granted = {}
    /\ registered = {}
    /\ ended = {}
    /\ lastAuth = <<>>
    /\ faults = 0

Fault == faults < MaxFaults /\ faults' = faults + 1

Goto(p, l) == pc' = [pc EXCEPT ![p] = l] /\ UNCHANGED reply

Return(p, code) ==
    /\ reply' = [reply EXCEPT ![p] = code]
    /\ pc' = [pc EXCEPT ![p] = "idle"]

\* The status that server.go makes of any error of the operation; Validate
\* answers, but with Valid = false, which Unauthenticated stands for.
ErrorCode(op) == IF op \in {"Register", "Logout"} THEN "Internal" ELSE "Unauthenticated"

\* RefreshToken.IsExpired.
IsExpired(row) == now > row.expires

\* A session that was neither logged out nor has expired.
Live(token) ==
    token \notin ended /\ \E row \in tokens : row.token = token /\ now <= row.expires

-----------------------------------------------------------------------------
(* A request arrives.                                                      *)

FirstStatement(op) ==
    CASE op \in {"Register", "Login"} -> "findUser"
      [] op = "RefreshToken" -> "findToken"
      [] op = "ValidateToken" -> "parse"
      [] op = "Logout" -> "deleteToken"

\* The handler's own check of the request.
BadRequest(c) ==
    \/ c.op \in {"Register", "Login"} /\ (c.email = Missing \/ c.password = Missing)
    \/ c.op = "RefreshToken" /\ c.token = NoId

Begin(p, c) ==
    /\ pc[p] = "idle" /\ reply[p] = "none"
    /\ call' = [call EXCEPT ![p] = [c EXCEPT !.live = Live(c.token)]]
    /\ IF BadRequest(c) THEN Return(p, "InvalidArgument") ELSE Goto(p, FirstStatement(c.op))
    /\ UNCHANGED <<now, database, issued, lastAuth, faults>>

\* The caller takes the answer.
Finish(p) ==
    /\ reply[p] # "none"
    /\ reply' = [reply EXCEPT ![p] = "none"]
    /\ call' = [call EXCEPT ![p] = NoCall]
    /\ UNCHANGED <<now, database, pc, issued, lastAuth, faults>>

\* The requests of clients: any address and password, and a refresh or access
\* token that they were given, or one that nobody was.
Requests ==
    {Request(op, e, w, NoId) :
        op \in {"Register", "Login"}, e \in Emails, w \in Passwords}
    \cup {Request(op, Missing, Missing, NoId) : op \in {"Register", "Login"}}
    \cup {Request(op, Missing, Missing, t) :
            op \in {"RefreshToken", "Logout"}, t \in known \cup {NoId}}

Validations ==
    {[NoCall EXCEPT !.op = "ValidateToken", !.user = a.user, !.exp = a.exp] : a \in granted}

-----------------------------------------------------------------------------
(* Register and Login.                                                     *)

HasEmail(u, p) == users[u].email = call[p].email

EmailFound(p) == \E u \in UserIds : HasEmail(u, p)

\* Mutant: no constraint on the address.
NotUnique(p) == FALSE

\* The UNIQUE constraint on users.email.
EmailTaken(p) == EmailFound(p)

\* FindByEmail in Register: an address in use is refused; every error, and
\* not only a missing row, lets the registration go on.
RegisterFind(p) ==
    /\ pc[p] = "findUser" /\ call[p].op = "Register"
    /\ \/ EmailFound(p) /\ Return(p, ErrorCode("Register")) /\ UNCHANGED faults
       \/ ~ EmailFound(p) /\ Goto(p, "saveUser") /\ UNCHANGED faults
       \/ Fault /\ Goto(p, "saveUser")
    /\ UNCHANGED <<now, database, call, issued, lastAuth>>

NewUser(p) == [email |-> call[p].email, password |-> call[p].password]

\* UserRepository.Save succeeds, or inserts and reports an error.
SaveUser(p) ==
    /\ pc[p] = "saveUser"
    /\ ~ EmailTaken(p)
    /\ users' = Append(users, NewUser(p))
    /\ lastAuth' = Append(lastAuth, 0)
    /\ \/ /\ Return(p, "OK")
          /\ registered' = registered \cup {[user |-> Len(users) + 1, email |-> call[p].email]}
          /\ UNCHANGED faults
       \/ Fault /\ Return(p, ErrorCode("Register")) /\ UNCHANGED registered
    /\ UNCHANGED <<now, tokens, minted, call, known, granted, ended>>

\* Another registration of the address has won.
SaveUserConflict(p) ==
    /\ pc[p] = "saveUser"
    /\ EmailTaken(p)
    /\ Return(p, ErrorCode("Register"))
    /\ UNCHANGED <<now, database, call, issued, lastAuth, faults>>

\* FindByEmail and the comparison of the password.
LoginFind(p) ==
    /\ pc[p] = "findUser" /\ call[p].op = "Login"
    /\ IF \E u \in UserIds : HasEmail(u, p) /\ users[u].password = call[p].password
       THEN /\ \E u \in UserIds :
                /\ HasEmail(u, p) /\ users[u].password = call[p].password
                /\ call' = [call EXCEPT ![p].user = u]
                /\ lastAuth' = [lastAuth EXCEPT ![u] = now]
            /\ Goto(p, "issue")
       ELSE Return(p, ErrorCode("Login")) /\ UNCHANGED <<call, lastAuth>>
    /\ UNCHANGED <<now, database, issued, faults>>

\* signAccessToken: the exp claim.
AccessExpiry == now + AccessTTL

\* issueTokens up to the INSERT: both expiry times are fixed before it.
IssueTokens(p) ==
    /\ pc[p] = "issue"
    /\ minted < MaxTokens
    /\ minted' = minted + 1
    /\ call' = [call EXCEPT ![p].exp = AccessExpiry, ![p].token = minted + 1]
    /\ Goto(p, "saveToken")
    /\ UNCHANGED <<now, users, tokens, issued, lastAuth, faults>>

\* Mutant: the user is left out.
NewRefreshTokenOfNobody(p) ==
    [token |-> call[p].token, user |-> NoId, expires |-> call[p].exp - AccessTTL + RefreshTTL]

\* NewRefreshToken; exp - AccessTTL is the time at which the token was made.
NewRefreshToken(p) ==
    [token |-> call[p].token, user |-> call[p].user,
     expires |-> call[p].exp - AccessTTL + RefreshTTL]

\* TokenRepository.Save succeeds, or inserts and reports an error.
SaveToken(p) ==
    /\ pc[p] = "saveToken"
    /\ tokens' = tokens \cup {NewRefreshToken(p)}
    /\ lastAuth' = [lastAuth EXCEPT ![call[p].user] = now]
    /\ \/ /\ Return(p, "OK")
          /\ known' = known \cup {call[p].token}
          /\ granted' = granted \cup {[user |-> call[p].user, exp |-> call[p].exp]}
          /\ UNCHANGED faults
       \/ Fault /\ Return(p, ErrorCode("Login")) /\ UNCHANGED <<known, granted>>
    /\ UNCHANGED <<now, users, minted, call, registered, ended>>

-----------------------------------------------------------------------------
(* Refresh, Logout and ValidateToken.                                      *)

\* FindByToken; exp of the call holds the expiry that was read.
RefreshFind(p) ==
    /\ pc[p] = "findToken"
    /\ IF \E row \in tokens : row.token = call[p].token
       THEN /\ \E row \in tokens :
                /\ row.token = call[p].token
                /\ call' = [call EXCEPT ![p].user = row.user, ![p].exp = row.expires]
            /\ Goto(p, "check")
       ELSE Return(p, ErrorCode("RefreshToken")) /\ UNCHANGED call
    /\ UNCHANGED <<now, database, issued, lastAuth, faults>>

ReadRow(p) == [expires |-> call[p].exp]

\* The row that was read is not expired: a new access token is signed.
RefreshSign(p) ==
    /\ pc[p] = "check"
    /\ ~ IsExpired(ReadRow(p))
    /\ granted' = granted \cup {[user |-> call[p].user, exp |-> AccessExpiry]}
    /\ Return(p, "OK")
    /\ UNCHANGED <<now, database, call, known, registered, ended, lastAuth, faults>>

\* It is expired: the row is deleted, which may fail unnoticed.
RefreshExpired(p) ==
    /\ pc[p] = "check"
    /\ IsExpired(ReadRow(p))
    /\ \/ tokens' = {row \in tokens : row.token # call[p].token} /\ UNCHANGED faults
       \/ Fault /\ UNCHANGED tokens
    /\ Return(p, ErrorCode("RefreshToken"))
    /\ UNCHANGED <<now, users, minted, call, issued, lastAuth>>

\* Mutant: the error of Delete is dropped.
LogoutIgnoringError(p) ==
    /\ pc[p] = "deleteToken"
    /\ \/ tokens' = {row \in tokens : row.token # call[p].token} /\ UNCHANGED faults
       \/ Fault /\ UNCHANGED tokens
    /\ Return(p, "OK")
    /\ ended' = ended \cup ({call[p].token} \cap known)
    /\ UNCHANGED <<now, users, minted, call, known, granted, registered, lastAuth>>

\* Logout: TokenRepository.Delete, which deletes or, after a lost answer,
\* deletes and reports an error.
Logout(p) ==
    /\ pc[p] = "deleteToken"
    /\ tokens' = {row \in tokens : row.token # call[p].token}
    /\ \/ Return(p, "OK") /\ ended' = ended \cup ({call[p].token} \cap known) /\ UNCHANGED faults
       \/ Fault /\ Return(p, ErrorCode("Logout")) /\ UNCHANGED ended
    /\ UNCHANGED <<now, users, minted, call, known, granted, registered, lastAuth>>

\* parseToken: the signature is good, so only the exp claim decides.
ParseToken(p) ==
    /\ pc[p] = "parse"
    /\ IF now < call[p].exp THEN Goto(p, "findId") ELSE Return(p, ErrorCode("ValidateToken"))
    /\ UNCHANGED <<now, database, call, issued, lastAuth, faults>>

\* FindByID.
ValidateFind(p) ==
    /\ pc[p] = "findId"
    /\ Return(p, IF call[p].user \in UserIds THEN "OK" ELSE ErrorCode("ValidateToken"))
    /\ UNCHANGED <<now, database, call, issued, lastAuth, faults>>

\* A statement other than Register's FindByEmail, or the signing of a token,
\* fails without effect: the operation returns an error.
StatementFails(p) ==
    /\ \/ pc[p] \in {"saveUser", "issue", "saveToken", "findToken", "deleteToken", "findId"}
       \/ pc[p] = "findUser" /\ call[p].op = "Login"
    /\ Fault
    /\ Return(p, ErrorCode(call[p].op))
    /\ UNCHANGED <<now, database, call, issued, lastAuth>>

-----------------------------------------------------------------------------
\* Users with a live session, and those for whom a call is about to sign.
Authorised(u) ==
    \/ \E row \in tokens : row.user = u /\ now' <= row.expires
    \/ \E p \in Callers : pc[p] \in {"issue", "saveToken", "check"} /\ call[p].user = u

Tick ==
    /\ now < MaxTime
    /\ now' = now + 1
    /\ lastAuth' = [u \in UserIds |-> IF Authorised(u) THEN now' ELSE lastAuth[u]]
    /\ UNCHANGED <<database, pc, call, reply, issued, faults>>

Step(p) ==
    \/ RegisterFind(p) \/ SaveUser(p) \/ SaveUserConflict(p)
    \/ LoginFind(p) \/ IssueTokens(p) \/ SaveToken(p)
    \/ RefreshFind(p) \/ RefreshSign(p) \/ RefreshExpired(p)
    \/ Logout(p) \/ ParseToken(p) \/ ValidateFind(p) \/ StatementFails(p)

Next ==
    \/ Tick
    \/ \E p \in Callers : Step(p) \/ Finish(p) \/ \E c \in Requests \cup Validations : Begin(p, c)

Spec == Init /\ [][Next]_vars

-----------------------------------------------------------------------------
(* Properties.                                                             *)

PCs == {"idle", "findUser", "saveUser", "issue", "saveToken", "findToken",
        "check", "deleteToken", "parse", "findId"}
Expiries == 0..(MaxTime + AccessTTL + RefreshTTL)

\* Types of the tables, the calls and what was returned to clients.
TypeOK ==
    /\ now \in Times
    /\ users \in Seq([email : Emails, password : Passwords])
    /\ tokens \subseteq [token : Tokens, user : UserIds, expires : Expiries]
    /\ minted \in 0..MaxTokens
    /\ pc \in [Callers -> PCs]
    /\ reply \in [Callers -> Codes \cup {"none"}]
    /\ \A p \in Callers :
        /\ call[p].op \in Ops \cup {"none"}
        /\ call[p].email \in Emails \cup {Missing}
        /\ call[p].password \in Passwords \cup {Missing}
        /\ call[p].token \in Tokens \cup {NoId}
        /\ call[p].user \in UserIds \cup {NoId}
        /\ call[p].exp \in Expiries
        /\ call[p].live \in BOOLEAN
    /\ known \subseteq Tokens /\ ended \subseteq Tokens
    /\ granted \subseteq [user : UserIds, exp : Expiries]
    /\ registered \subseteq [user : UserIds, email : Emails]
    /\ lastAuth \in [UserIds -> Times]
    /\ faults \in 0..MaxFaults

\* However registrations overlap and fail, an address belongs to one user:
\* whoever was told that it is theirs is the user that a login finds.
OneOwnerPerEmail ==
    /\ \A r \in registered : \A u \in UserIds : users[u].email = r.email => u = r.user
    /\ \A p \in Callers : \A r \in registered :
        call[p].op = "Login" /\ reply[p] = "OK" /\ call[p].email = r.email
            => call[p].user = r.user

\* Refresh succeeds only for a session that was live when the call began: not
\* when it had expired, and not after a logout that was acknowledged.
RefreshNeedsLiveSession ==
    \A p \in Callers : call[p].op = "RefreshToken" /\ reply[p] = "OK" => call[p].live

=============================================================================
