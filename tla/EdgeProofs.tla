----------------------------- MODULE EdgeProofs -----------------------------
(***************************************************************************)
(* Theorems about Edge and IdentityService, for any number of concurrent   *)
(* requests, users, tokens and failures, any lifetimes of the tokens and   *)
(* any paths: an address has one owner, a refresh needs a live session,    *)
(* and the gateway lets in nobody whose session has ended for longer than  *)
(* the lifetime of an access token.                                        *)
(***************************************************************************)
EXTENDS Edge, TLAPS

-----------------------------------------------------------------------------
(* The inductive invariant.                                                *)

CallRecords ==
    [op : Ops \cup {"none"}, email : Emails \cup {Missing}, password : Passwords \cup {Missing},
     token : Tokens \cup {NoId}, user : Nat, exp : Expiries, live : BOOLEAN]

\* The variables have their types.
IdentityTypes ==
    /\ now \in Times
    /\ users \in Seq([email : Emails, password : Passwords])
    /\ tokens \subseteq [token : Tokens, user : UserIds, expires : Expiries]
    /\ minted \in 0..MaxTokens
    /\ pc \in [Callers -> PCs]
    /\ reply \in [Callers -> Codes \cup {"none"}]
    /\ call \in [Callers -> CallRecords]
    /\ \A p \in Callers : call[p].user \in UserIds \cup {NoId}
    /\ known \subseteq 1..minted /\ ended \subseteq known
    /\ granted \subseteq [user : UserIds, exp : Expiries]
    /\ registered \subseteq [user : UserIds, email : Emails]
    /\ lastAuth \in [UserIds -> 0..now]
    /\ faults \in 0..MaxFaults

\* A call is at a statement of its operation, which got past the check of
\* its request, and has no answer yet.
AtStatement(p) ==
    /\ reply[p] # "none" => pc[p] = "idle"
    /\ pc[p] = "findUser" => call[p].op \in {"Register", "Login"}
    /\ pc[p] = "saveUser" => call[p].op = "Register"
    /\ pc[p] \in {"findUser", "saveUser"} =>
        call[p].email \in Emails /\ call[p].password \in Passwords
    /\ pc[p] \in {"issue", "saveToken"} => call[p].op = "Login" /\ call[p].user \in UserIds
    /\ pc[p] = "saveToken" => call[p].exp \in AccessTTL..(now + AccessTTL)
    /\ pc[p] \in {"findToken", "check"} => call[p].op = "RefreshToken"
    /\ pc[p] = "check" => call[p].user \in UserIds
    /\ pc[p] = "deleteToken" => call[p].op = "Logout"
    /\ pc[p] \in {"parse", "findId"} => call[p].op = "ValidateToken"

StatementInv == \A p \in Callers : AtStatement(p)

\* The user that a Login found has its address.
FoundOwner(p) ==
    call[p].op = "Login" /\ (pc[p] \in {"issue", "saveToken"} \/ reply[p] = "OK") =>
        call[p].user \in UserIds /\ users[call[p].user].email = call[p].email

\* Two users have two addresses; who was told that an address is theirs has
\* it, and so has the user that a Login found.
OwnerInv ==
    /\ \A u, v \in UserIds : users[u].email = users[v].email => u = v
    /\ \A r \in registered : users[r.user].email = r.email
    /\ \A p \in Callers : FoundOwner(p)

\* The token that a Login is about to save is in no row yet.
FreshToken(p) ==
    pc[p] = "saveToken" =>
        /\ call[p].token \in 1..minted
        /\ call[p].token \notin known
        /\ \A row \in tokens : row.token # call[p].token

\* A token that a Login is about to save is nobody else's, and a session that
\* was logged out has no row.
TokenInv ==
    /\ \A row \in tokens : row.token \in 1..minted
    /\ \A row \in tokens : row.token \notin ended
    /\ \A p \in Callers : FreshToken(p)
    /\ \A p, q \in Callers : p # q /\ pc[p] = "saveToken" /\ pc[q] = "saveToken" =>
        call[p].token # call[q].token

\* A Refresh that began without a live session finds none.
SessionOf(p) ==
    /\ pc[p] = "findToken" => call[p].token \in known
    /\ pc[p] = "findToken" /\ ~ call[p].live =>
        \A row \in tokens : row.token = call[p].token => now > row.expires
    /\ pc[p] = "check" /\ ~ call[p].live => now > call[p].exp

SessionInv == \A p \in Callers : SessionOf(p)

\* A user with a live session, or for whom a call is about to sign, has it
\* now, and an access token ends AccessTTL after that at the latest.
AccessInv ==
    /\ \A row \in tokens : now <= row.expires => lastAuth[row.user] = now
    /\ \A p \in Callers :
        /\ pc[p] \in {"issue", "saveToken"} => lastAuth[call[p].user] = now
        /\ pc[p] = "check" /\ now <= call[p].exp => lastAuth[call[p].user] = now
    /\ \A a \in granted : a.exp <= lastAuth[a.user] + AccessTTL

IInv ==
    /\ IdentityTypes /\ StatementInv /\ OwnerInv /\ TokenInv /\ SessionInv /\ AccessInv
    /\ RefreshNeedsLiveSession

-----------------------------------------------------------------------------
(* The kinds of step.  Only p's call changes in a step of p, and of what    *)
(* the calls share most steps change nothing.                              *)

shared == <<now, users, tokens, minted, known, granted, registered, ended, lastAuth>>

\* What a call is when its request has arrived.
Arrived(e) ==
    /\ e \in CallRecords
    /\ e.op \in Ops
    /\ e.user \in UserIds \cup {NoId}
    /\ e.token \in known \cup {NoId}
    /\ e.email \in Emails \/ e.email = Missing
    /\ e.email \in Emails => e.password \in Passwords
    /\ ~ e.live => ~ Live(e.token)

StartKind(p) ==
    /\ pc[p] = "idle" /\ reply[p] = "none"
    /\ \E e : /\ Arrived(e)
              /\ call' = [call EXCEPT ![p] = e]
              /\ \/ Return(p, "InvalidArgument")
                 \/ Goto(p, FirstStatement(e.op)) /\ ~ BadRequest(e)
    /\ UNCHANGED <<shared, faults>>

\* The call is answered; only ValidateToken succeeds without a change.
AnswerKind(p) ==
    /\ \E code \in Codes : /\ Return(p, code)
                           /\ code = "OK" => call[p].op = "ValidateToken"
    /\ faults' \in 0..MaxFaults
    /\ UNCHANGED <<shared, call>>

\* It goes on to its next statement.
AdvanceKind(p) ==
    /\ \/ pc[p] = "findUser" /\ call[p].op = "Register" /\ Goto(p, "saveUser")
       \/ pc[p] = "parse" /\ Goto(p, "findId")
    /\ faults' \in 0..MaxFaults
    /\ UNCHANGED <<shared, call>>

\* Refresh has read a row.
ReadKind(p) ==
    /\ pc[p] = "findToken" /\ Goto(p, "check")
    /\ \E row \in tokens, e \in CallRecords :
        /\ row.token = call[p].token
        /\ e.op = call[p].op /\ e.email = call[p].email /\ e.token = call[p].token
        /\ e.live = call[p].live /\ e.user = row.user /\ e.exp = row.expires
        /\ call' = [call EXCEPT ![p] = e]
    /\ UNCHANGED <<shared, faults>>

\* A Login has found its user.
FoundKind(p) ==
    /\ pc[p] = "findUser" /\ call[p].op = "Login" /\ Goto(p, "issue")
    /\ \E u \in UserIds, e \in CallRecords :
        /\ users[u].email = call[p].email
        /\ e.op = "Login" /\ e.email = call[p].email /\ e.user = u
        /\ call' = [call EXCEPT ![p] = e]
        /\ lastAuth' = [lastAuth EXCEPT ![u] = now]
    /\ UNCHANGED <<now, users, tokens, minted, known, granted, registered, ended, faults>>

\* It has made its tokens.
IssueKind(p) ==
    /\ pc[p] = "issue" /\ Goto(p, "saveToken")
    /\ minted' = minted + 1 /\ minted < MaxTokens
    /\ \E e \in CallRecords :
        /\ e.op = call[p].op /\ e.email = call[p].email /\ e.user = call[p].user
        /\ e.token = minted + 1 /\ e.exp = now + AccessTTL
        /\ call' = [call EXCEPT ![p] = e]
    /\ UNCHANGED <<now, users, tokens, known, granted, registered, ended, lastAuth, faults>>

\* Rows are deleted; if the logout was acknowledged, the session has ended.
DeleteKind(p) ==
    /\ pc[p] \in {"check", "deleteToken"}
    /\ \/ /\ tokens' = {row \in tokens : row.token # call[p].token}
          /\ ended' = ended \/ ended' = ended \cup ({call[p].token} \cap known)
       \/ UNCHANGED <<tokens, ended>>
    /\ \E code \in Codes : Return(p, code) /\ (code = "OK" => call[p].op = "Logout")
    /\ faults' \in 0..MaxFaults
    /\ UNCHANGED <<now, users, minted, call, known, granted, registered, lastAuth>>

-----------------------------------------------------------------------------

\* A request has the types of a call, and names no token that was not given out.
LEMMA RequestArrives ==
    ASSUME IdentityTypes, NEW c \in Requests \cup Validations,
           NEW e, e = [c EXCEPT !.live = Live(c.token)]
    PROVE  Arrived(e) /\ e.op = c.op /\ (BadRequest(e) <=> BadRequest(c))
<1>1. /\ c.op \in Ops /\ c.email \in Emails \cup {Missing} /\ c.password \in Passwords \cup {Missing}
      /\ c.token \in known \cup {NoId} /\ c.user \in UserIds \cup {NoId} /\ c.exp \in Expiries
      /\ c.email \in Emails => c.password \in Passwords
      /\ c = [op |-> c.op, email |-> c.email, password |-> c.password, token |-> c.token,
              user |-> c.user, exp |-> c.exp, live |-> c.live]
  <2>1. CASE c \in Requests
    <3>1. 0 \in Expiries /\ Missing \notin Emails
      BY IdentityAssumption DEF Expiries
    <3>2. \/ \E op \in {"Register", "Login"}, m \in Emails, w \in Passwords :
                c = Request(op, m, w, NoId)
          \/ \E op \in {"Register", "Login"} : c = Request(op, Missing, Missing, NoId)
          \/ \E op \in {"RefreshToken", "Logout"}, t \in known \cup {NoId} :
                c = Request(op, Missing, Missing, t)
      BY <2>1 DEF Requests
    <3>3. CASE \E op \in {"Register", "Login"}, m \in Emails, w \in Passwords :
                  c = Request(op, m, w, NoId)
      BY <3>1, <3>3 DEF Request, Ops
    <3>4. CASE \E op \in {"Register", "Login"} : c = Request(op, Missing, Missing, NoId)
      BY <3>1, <3>4 DEF Request, Ops
    <3>5. CASE \E op \in {"RefreshToken", "Logout"}, t \in known \cup {NoId} :
                  c = Request(op, Missing, Missing, t)
      BY <3>1, <3>5 DEF Request, Ops
    <3> QED BY <3>2, <3>3, <3>4, <3>5
  <2>2. CASE c \in Validations
    BY <2>2, IdentityAssumption DEF Validations, NoCall, Request, Ops, NoId, Expiries, IdentityTypes
  <2> QED BY <2>1, <2>2
<1>2. e = [op |-> c.op, email |-> c.email, password |-> c.password, token |-> c.token,
           user |-> c.user, exp |-> c.exp, live |-> Live(c.token)]
  BY <1>1
<1>3. Live(c.token) \in BOOLEAN
  BY DEF Live
<1>4. known \subseteq Tokens /\ UserIds \cup {NoId} \subseteq Nat
  BY IdentityAssumption DEF IdentityTypes, Tokens, UserIds, NoId
<1>5. e \in CallRecords
  BY <1>1, <1>2, <1>3, <1>4 DEF CallRecords
<1>6. ~ e.live => ~ Live(e.token)
  BY <1>2
<1> QED BY <1>1, <1>2, <1>5, <1>6 DEF Arrived, BadRequest

\* A call that starts is as its request has it.
LEMMA BeginIsStart ==
    ASSUME IdentityTypes, NEW p \in Callers, NEW c \in Requests \cup Validations, Begin(p, c)
    PROVE  StartKind(p)
<1> DEFINE e == [c EXCEPT !.live = Live(c.token)]
<1>1. Arrived(e) /\ e.op = c.op /\ (BadRequest(e) <=> BadRequest(c))
  BY RequestArrives
<1>2. call' = [call EXCEPT ![p] = e] /\ pc[p] = "idle" /\ reply[p] = "none"
  BY DEF Begin
<1> HIDE DEF e
<1>3. \/ Return(p, "InvalidArgument")
      \/ Goto(p, FirstStatement(e.op)) /\ ~ BadRequest(e)
  BY <1>1 DEF Begin
<1>4. UNCHANGED <<shared, faults>>
  BY DEF Begin, shared, database, issued
<1> QED BY <1>1, <1>2, <1>3, <1>4 DEF StartKind

\* The statements that answer an error, and those of ValidateToken.
LEMMA AnswersAndAdvances ==
    ASSUME IdentityTypes, StatementInv, NEW p \in Callers,
           RegisterFind(p) \/ SaveUserConflict(p) \/ ParseToken(p) \/ ValidateFind(p) \/ StatementFails(p)
    PROVE  AnswerKind(p) \/ AdvanceKind(p)
<1>1. faults \in 0..MaxFaults /\ (Fault => faults' \in 0..MaxFaults)
  BY IdentityAssumption DEF IdentityTypes, Fault
<1>2. \A op : ErrorCode(op) \in Codes /\ ErrorCode(op) # "OK"
  BY DEF ErrorCode, Codes
<1>3. CASE RegisterFind(p)
  BY <1>1, <1>2, <1>3, Zenon DEF RegisterFind, AnswerKind, AdvanceKind, database, issued, shared
<1>4. CASE SaveUserConflict(p)
  BY <1>1, <1>2, <1>4, Zenon DEF SaveUserConflict, AnswerKind, database, issued, shared
<1>5. CASE ParseToken(p)
  BY <1>1, <1>2, <1>5, Zenon DEF ParseToken, AnswerKind, AdvanceKind, database, issued, shared
<1>6. CASE ValidateFind(p)
  <2>1. call[p].op = "ValidateToken" /\ "OK" \in Codes
    BY <1>6 DEF ValidateFind, StatementInv, AtStatement, Codes
  <2> QED BY <1>1, <1>2, <1>6, <2>1, Zenon DEF ValidateFind, AnswerKind, database, issued, shared
<1>7. CASE StatementFails(p)
  BY <1>1, <1>2, <1>7, Zenon DEF StatementFails, AnswerKind, database, issued, shared
<1> QED BY <1>3, <1>4, <1>5, <1>6, <1>7

\* A Login that finds its user, or does not.
LEMMA LoginKinds ==
    ASSUME IdentityTypes, StatementInv, NEW p \in Callers, LoginFind(p)
    PROVE  AnswerKind(p) \/ FoundKind(p)
<1>1. faults \in 0..MaxFaults /\ ErrorCode("Login") \in Codes /\ ErrorCode("Login") # "OK"
  BY DEF IdentityTypes, ErrorCode, Codes
<1>2. CASE \E u \in UserIds : HasEmail(u, p) /\ users[u].password = call[p].password
  <2>1. PICK u \in UserIds : /\ HasEmail(u, p)
                             /\ call' = [call EXCEPT ![p].user = u]
                             /\ lastAuth' = [lastAuth EXCEPT ![u] = now]
    BY <1>2, Zenon DEF LoginFind
  <2> DEFINE e == [call[p] EXCEPT !.user = u]
  <2>2. call[p] \in CallRecords /\ u \in Nat
    BY DEF IdentityTypes, UserIds
  <2>3. /\ e \in CallRecords /\ e.op = call[p].op /\ e.email = call[p].email /\ e.user = u
    BY <2>2 DEF CallRecords
  <2>4. call' = [call EXCEPT ![p] = e]
    BY <2>1
  <2> HIDE DEF e
  <2>5. pc[p] = "findUser" /\ call[p].op = "Login" /\ Goto(p, "issue")
    BY <1>2, Zenon DEF LoginFind
  <2>6. UNCHANGED <<now, users, tokens, minted, known, granted, registered, ended, faults>>
    BY DEF LoginFind, database, issued
  <2> QED BY <2>1, <2>3, <2>4, <2>5, <2>6 DEF FoundKind, HasEmail
<1>3. CASE ~ \E u \in UserIds : HasEmail(u, p) /\ users[u].password = call[p].password
  BY <1>1, <1>3, Zenon DEF LoginFind, AnswerKind, database, issued, shared
<1> QED BY <1>2, <1>3

\* The tokens of a Login.
LEMMA IssueKinds ==
    ASSUME IdentityTypes, StatementInv, NEW p \in Callers, IssueTokens(p)
    PROVE  IssueKind(p)
<1>1. call[p] \in CallRecords /\ minted + 1 \in Tokens /\ now + AccessTTL \in Expiries
  BY IdentityAssumption DEF IdentityTypes, IssueTokens, Tokens, Expiries, Times
<1>2. PICK e : e = [call[p] EXCEPT !.exp = now + AccessTTL, !.token = minted + 1]
  OBVIOUS
<1>3. call' = [call EXCEPT ![p] = e]
  BY <1>2 DEF IssueTokens, AccessExpiry
<1>4. /\ e \in CallRecords
      /\ e.op = call[p].op /\ e.email = call[p].email /\ e.user = call[p].user
      /\ e.token = minted + 1 /\ e.exp = now + AccessTTL
  BY <1>1, <1>2 DEF CallRecords
<1> QED BY <1>3, <1>4 DEF IssueKind, IssueTokens, issued

\* A Refresh that finds its row, or does not.
LEMMA RefreshKinds ==
    ASSUME IdentityTypes, StatementInv, NEW p \in Callers, RefreshFind(p)
    PROVE  AnswerKind(p) \/ ReadKind(p)
<1>1. faults \in 0..MaxFaults /\ ErrorCode("RefreshToken") \in Codes /\ ErrorCode("RefreshToken") # "OK"
  BY DEF IdentityTypes, ErrorCode, Codes
<1>2. CASE \E row \in tokens : row.token = call[p].token
  <2>1. PICK row \in tokens :
            /\ row.token = call[p].token
            /\ call' = [call EXCEPT ![p] = [call[p] EXCEPT !.user = row.user, !.exp = row.expires]]
    BY <1>2 DEF RefreshFind
  <2>2. call[p] \in CallRecords /\ row.user \in Nat /\ row.expires \in Expiries
    BY DEF IdentityTypes, UserIds
  <2>3. PICK e : e = [call[p] EXCEPT !.user = row.user, !.exp = row.expires]
    OBVIOUS
  <2>5. call' = [call EXCEPT ![p] = e]
    BY <2>1, <2>3
  <2>6. /\ e \in CallRecords
        /\ e.op = call[p].op /\ e.email = call[p].email /\ e.token = call[p].token
        /\ e.live = call[p].live /\ e.user = row.user /\ e.exp = row.expires
    BY <2>2, <2>3 DEF CallRecords
  <2>7. pc[p] = "findToken" /\ Goto(p, "check")
    BY <1>2, Zenon DEF RefreshFind
  <2>8. UNCHANGED <<shared, faults>>
    BY DEF RefreshFind, database, issued, shared
  <2> QED BY <2>1, <2>5, <2>6, <2>7, <2>8, Zenon DEF ReadKind
<1>3. CASE ~ \E row \in tokens : row.token = call[p].token
  BY <1>1, <1>3, Zenon DEF RefreshFind, AnswerKind, database, issued, shared
<1> QED BY <1>2, <1>3

\* The steps that delete a token.
LEMMA DeleteKinds ==
    ASSUME IdentityTypes, StatementInv, NEW p \in Callers, RefreshExpired(p) \/ Logout(p)
    PROVE  DeleteKind(p)
<1>1. faults \in 0..MaxFaults /\ (Fault => faults' \in 0..MaxFaults)
  BY IdentityAssumption DEF IdentityTypes, Fault
<1>2. "OK" \in Codes /\ \A op : ErrorCode(op) \in Codes /\ ErrorCode(op) # "OK"
  BY DEF ErrorCode, Codes
<1>3. CASE RefreshExpired(p)
  <2>1. pc[p] \in {"check", "deleteToken"}
    BY <1>3 DEF RefreshExpired
  <2> QED BY <1>1, <1>2, <1>3, <2>1, Zenon DEF RefreshExpired, DeleteKind, issued
<1>4. CASE Logout(p)
  <2>1. pc[p] \in {"check", "deleteToken"} /\ call[p].op = "Logout"
    BY <1>4 DEF Logout, StatementInv, AtStatement
  <2> QED BY <1>1, <1>2, <1>4, <2>1, Zenon DEF Logout, DeleteKind
<1> QED BY <1>3, <1>4

CallKinds(p) ==
    \/ StartKind(p) \/ Finish(p) \/ AnswerKind(p) \/ AdvanceKind(p) \/ ReadKind(p)
    \/ FoundKind(p) \/ IssueKind(p) \/ DeleteKind(p)
    \/ SaveUser(p) \/ SaveToken(p) \/ RefreshSign(p)

\* Every step of the identity service is of one of these kinds.
LEMMA StepKinds ==
    ASSUME IdentityTypes, StatementInv, Next
    PROVE  Tick \/ \E p \in Callers : CallKinds(p)
<1>1. SUFFICES ASSUME NEW p \in Callers,
                      Step(p) \/ Finish(p) \/ \E c \in Requests \cup Validations : Begin(p, c)
               PROVE  CallKinds(p)
  BY Zenon DEF Next
<1>2. CASE Step(p)
  BY <1>2, AnswersAndAdvances, LoginKinds, IssueKinds, RefreshKinds, DeleteKinds, Zenon
  DEF Step, CallKinds
<1> QED BY <1>1, <1>2, BeginIsStart, Zenon DEF CallKinds

-----------------------------------------------------------------------------
(* The types.                                                              *)

\* What p's call becomes in a step of p.
LEMMA LocalTypes ==
    ASSUME IdentityTypes, NEW p \in Callers
    PROVE  /\ \A code \in Codes : Return(p, code) =>
                pc' \in [Callers -> PCs] /\ reply' \in [Callers -> Codes \cup {"none"}]
           /\ \A l \in PCs : Goto(p, l) =>
                pc' \in [Callers -> PCs] /\ reply' \in [Callers -> Codes \cup {"none"}]
           /\ \A e \in CallRecords : e.user \in UserIds \cup {NoId} /\ call' = [call EXCEPT ![p] = e] =>
                /\ call' \in [Callers -> CallRecords]
                /\ \A q \in Callers : call'[q].user \in UserIds \cup {NoId}
<1>1. "idle" \in PCs
  BY DEF PCs
<1>2. pc \in [Callers -> PCs] /\ reply \in [Callers -> Codes \cup {"none"}]
      /\ call \in [Callers -> CallRecords] /\ \A q \in Callers : call[q].user \in UserIds \cup {NoId}
  BY DEF IdentityTypes
<1>3. ASSUME NEW code \in Codes, Return(p, code)
      PROVE  pc' \in [Callers -> PCs] /\ reply' \in [Callers -> Codes \cup {"none"}]
  BY <1>1, <1>2, <1>3 DEF Return
<1>4. ASSUME NEW l \in PCs, Goto(p, l)
      PROVE  pc' \in [Callers -> PCs] /\ reply' \in [Callers -> Codes \cup {"none"}]
  BY <1>2, <1>4 DEF Goto
<1>5. ASSUME NEW e \in CallRecords, e.user \in UserIds \cup {NoId}, call' = [call EXCEPT ![p] = e]
      PROVE  /\ call' \in [Callers -> CallRecords]
             /\ \A q \in Callers : call'[q].user \in UserIds \cup {NoId}
  BY <1>2, <1>5
<1> QED BY <1>3, <1>4, <1>5

\* The types of what the calls share, together with those of the calls.
LEMMA TypesFromLocal ==
    ASSUME IdentityTypes, UNCHANGED shared, faults' \in 0..MaxFaults,
           pc' \in [Callers -> PCs], reply' \in [Callers -> Codes \cup {"none"}],
           call' \in [Callers -> CallRecords],
           \A q \in Callers : call'[q].user \in UserIds \cup {NoId}
    PROVE  IdentityTypes'
BY Zenon DEF IdentityTypes, shared, UserIds

\* The statement that a request starts with.
LEMMA FirstStatements ==
    /\ \A op \in Ops : FirstStatement(op) \in PCs \ {"idle", "saveUser", "issue", "saveToken", "check"}
    /\ FirstStatement("Register") = "findUser" /\ FirstStatement("Login") = "findUser"
    /\ FirstStatement("RefreshToken") = "findToken" /\ FirstStatement("Logout") = "deleteToken"
    /\ FirstStatement("ValidateToken") = "parse"
BY DEF Ops, PCs, FirstStatement

\* A sequence is a function on its indices.
LEMMA SequencesAreFunctions ==
    ASSUME NEW S
    PROVE  /\ \A n \in Nat : \A f \in [1..n -> S] : f \in Seq(S) /\ Len(f) = n
           /\ \A f \in Seq(S) : f \in [1..Len(f) -> S]
OBVIOUS

\* A call's own step keeps the types.
LEMMA TypesOfCalls ==
    ASSUME IdentityTypes, StatementInv, TokenInv, NEW p \in Callers, CallKinds(p)
    PROVE  IdentityTypes'
<1>0. /\ call[p] \in CallRecords /\ call[p].user \in UserIds \cup {NoId} /\ faults \in 0..MaxFaults
      /\ call = [call EXCEPT ![p] = call[p]]
      /\ "InvalidArgument" \in Codes /\ "OK" \in Codes
      /\ {"idle", "saveUser", "findId", "check", "issue", "saveToken"} \subseteq PCs
  BY DEF IdentityTypes, Codes, PCs
<1>1. CASE StartKind(p)
  <2>1. PICK e : /\ Arrived(e) /\ call' = [call EXCEPT ![p] = e]
                 /\ Return(p, "InvalidArgument") \/ Goto(p, FirstStatement(e.op))
    BY <1>1 DEF StartKind
  <2>2. FirstStatement(e.op) \in PCs
    BY <2>1, FirstStatements DEF Arrived
  <2> QED BY <1>0, <1>1, <2>1, <2>2, LocalTypes, TypesFromLocal, Zenon DEF StartKind, Arrived
<1>2. CASE Finish(p)
  <2>1. NoCall \in CallRecords /\ NoCall.user \in UserIds \cup {NoId}
    BY IdentityAssumption DEF NoCall, Request, CallRecords, NoId, Expiries
  <2>2. call' = [call EXCEPT ![p] = NoCall] /\ UNCHANGED <<pc, shared, faults>>
    BY <1>2 DEF Finish, shared, database, issued
  <2>3. reply' \in [Callers -> Codes \cup {"none"}] /\ pc' \in [Callers -> PCs]
    BY <1>2, <2>2 DEF Finish, IdentityTypes
  <2>4. faults' \in 0..MaxFaults
    BY <1>0, <2>2
  <2> QED BY <2>1, <2>2, <2>3, <2>4, LocalTypes, TypesFromLocal, Zenon
<1>3. CASE AnswerKind(p)
  <2>1. call' = [call EXCEPT ![p] = call[p]]
    BY <1>0, <1>3 DEF AnswerKind
  <2> QED BY <1>0, <1>3, <2>1, LocalTypes, TypesFromLocal, Zenon DEF AnswerKind
<1>4. CASE AdvanceKind(p)
  <2>1. call' = [call EXCEPT ![p] = call[p]]
    BY <1>0, <1>4 DEF AdvanceKind
  <2>2. \E l \in PCs : Goto(p, l)
    BY <1>0, <1>4 DEF AdvanceKind
  <2> QED BY <1>0, <1>4, <2>1, <2>2, LocalTypes, TypesFromLocal, Zenon DEF AdvanceKind
<1>5. CASE ReadKind(p)
  <2>1. \A row \in tokens : row.user \in UserIds \cup {NoId}
    BY DEF IdentityTypes
  <2>2. PICK e \in CallRecords : e.user \in UserIds \cup {NoId} /\ call' = [call EXCEPT ![p] = e]
    BY <1>5, <2>1 DEF ReadKind
  <2>3. Goto(p, "check") /\ "check" \in PCs /\ UNCHANGED shared /\ faults' \in 0..MaxFaults
    BY <1>0, <1>5 DEF ReadKind
  <2> QED BY <2>2, <2>3, LocalTypes, TypesFromLocal, Zenon
<1>6. CASE FoundKind(p)
  <2>1. PICK u \in UserIds, e \in CallRecords :
            e.user = u /\ call' = [call EXCEPT ![p] = e] /\ lastAuth' = [lastAuth EXCEPT ![u] = now]
    BY <1>6 DEF FoundKind
  <2>2. Goto(p, "issue") /\ "issue" \in PCs
    BY <1>0, <1>6 DEF FoundKind
  <2>3. lastAuth' \in [UserIds -> 0..now]
    BY <2>1, IdentityAssumption DEF IdentityTypes, Times
  <2>4. /\ pc' \in [Callers -> PCs] /\ reply' \in [Callers -> Codes \cup {"none"}]
        /\ call' \in [Callers -> CallRecords] /\ \A q \in Callers : call'[q].user \in UserIds \cup {NoId}
    BY <2>1, <2>2, LocalTypes
  <2> QED BY <1>6, <2>3, <2>4, Zenon DEF FoundKind, IdentityTypes, UserIds
<1>7. CASE IssueKind(p)
  <2>1. PICK e \in CallRecords : e.user = call[p].user /\ call' = [call EXCEPT ![p] = e]
    BY <1>7 DEF IssueKind
  <2>2. Goto(p, "saveToken") /\ "saveToken" \in PCs
    BY <1>0, <1>7 DEF IssueKind
  <2>3. minted' \in 0..MaxTokens /\ known \subseteq 1..minted'
    BY <1>7, IdentityAssumption DEF IssueKind, IdentityTypes
  <2>4. /\ pc' \in [Callers -> PCs] /\ reply' \in [Callers -> Codes \cup {"none"}]
        /\ call' \in [Callers -> CallRecords] /\ \A q \in Callers : call'[q].user \in UserIds \cup {NoId}
    BY <1>0, <2>1, <2>2, LocalTypes
  <2> QED BY <1>7, <2>3, <2>4, Zenon DEF IssueKind, IdentityTypes, UserIds
<1>8. CASE DeleteKind(p)
  <2>1. tokens' \subseteq tokens /\ ended' \subseteq known
    BY <1>8 DEF DeleteKind, IdentityTypes
  <2>2. tokens' \subseteq [token : Tokens, user : UserIds, expires : Expiries]
    BY <2>1 DEF IdentityTypes
  <2>3. pc' \in [Callers -> PCs] /\ reply' \in [Callers -> Codes \cup {"none"}]
    BY <1>8, LocalTypes DEF DeleteKind
  <2> QED BY <1>8, <2>1, <2>2, <2>3, Zenon DEF DeleteKind, IdentityTypes, UserIds
<1>9. CASE SaveUser(p)
  <2>1. NewUser(p) \in [email : Emails, password : Passwords]
    BY <1>9 DEF SaveUser, StatementInv, AtStatement, NewUser
  <2>2. /\ users' \in Seq([email : Emails, password : Passwords]) /\ Len(users) \in Nat
        /\ Len(users') = Len(users) + 1
    BY <1>9, <2>1 DEF SaveUser, IdentityTypes
  <2>3. UserIds \subseteq UserIds' /\ Len(users) + 1 \in UserIds'
    BY <2>2 DEF UserIds
  <2>4. lastAuth' \in [UserIds' -> 0..now]
    <3>1. lastAuth \in [1..Len(users) -> 0..now] /\ lastAuth' = Append(lastAuth, 0)
      BY <1>9 DEF SaveUser, IdentityTypes, UserIds
    <3>2. lastAuth \in Seq(0..now) /\ Len(lastAuth) = Len(users)
      BY <2>2, <3>1, SequencesAreFunctions
    <3>3. lastAuth' \in Seq(0..now) /\ Len(lastAuth') = Len(users) + 1
      BY <3>1, <3>2, IdentityAssumption DEF IdentityTypes, Times
    <3>4. lastAuth' \in [1..Len(lastAuth') -> 0..now]
      BY <3>3, SequencesAreFunctions
    <3> QED BY <2>2, <3>3, <3>4 DEF UserIds
  <2>5. tokens' \subseteq [token : Tokens, user : UserIds', expires : Expiries]
    BY <1>9, <2>3 DEF SaveUser, IdentityTypes
  <2>6. granted' \subseteq [user : UserIds', exp : Expiries]
    BY <1>9, <2>3 DEF SaveUser, IdentityTypes
  <2>7. registered' \subseteq [user : UserIds', email : Emails]
    <3>1. call[p].email \in Emails
      BY <1>9 DEF SaveUser, StatementInv, AtStatement
    <3>2. registered \subseteq [user : UserIds', email : Emails]
      BY <2>3 DEF IdentityTypes
    <3>3. \/ registered' = registered
          \/ registered' = registered \cup {[user |-> Len(users) + 1, email |-> call[p].email]}
      BY <1>9 DEF SaveUser
    <3> QED BY <2>3, <3>1, <3>2, <3>3
  <2>8. \E code \in Codes : Return(p, code)
    BY <1>9 DEF SaveUser, ErrorCode, Codes
  <2>9. pc' \in [Callers -> PCs] /\ reply' \in [Callers -> Codes \cup {"none"}]
    BY <2>8, LocalTypes
  <2>10. faults' \in 0..MaxFaults
    BY <1>0, <1>9, IdentityAssumption DEF SaveUser, Fault
  <2>11. /\ \A q \in Callers : call[q].user \in UserIds' \cup {NoId}
         /\ UNCHANGED <<now, minted, call, known, ended>>
    BY <1>9, <2>3 DEF SaveUser, IdentityTypes
  <2> QED BY <2>2, <2>4, <2>5, <2>6, <2>7, <2>9, <2>10, <2>11, Zenon DEF IdentityTypes
<1>10. CASE SaveToken(p)
  <2>1. /\ call[p].token \in 1..minted /\ call[p].token \in Tokens /\ call[p].user \in UserIds
        /\ call[p].exp \in AccessTTL..(now + AccessTTL) /\ call[p].exp \in Expiries
    BY <1>0, <1>10, IdentityAssumption
    DEF SaveToken, StatementInv, AtStatement, TokenInv, FreshToken, CallRecords, IdentityTypes, Tokens
  <2>2. NewRefreshToken(p) \in [token : Tokens, user : UserIds, expires : Expiries]
    BY <2>1, IdentityAssumption DEF NewRefreshToken, IdentityTypes, Times, Expiries
  <2>3. tokens' \subseteq [token : Tokens, user : UserIds, expires : Expiries]
    BY <1>10, <2>2 DEF SaveToken, IdentityTypes
  <2>4. granted' \subseteq [user : UserIds, exp : Expiries]
    BY <1>10, <2>1 DEF SaveToken, IdentityTypes
  <2>5. known' \subseteq 1..minted /\ ended \subseteq known'
    BY <1>10, <2>1 DEF SaveToken, IdentityTypes
  <2>6. lastAuth' \in [UserIds -> 0..now]
    BY <1>10, <2>1, IdentityAssumption DEF SaveToken, IdentityTypes, Times
  <2>7. \E code \in Codes : Return(p, code)
    BY <1>10 DEF SaveToken, ErrorCode, Codes
  <2>8. pc' \in [Callers -> PCs] /\ reply' \in [Callers -> Codes \cup {"none"}]
    BY <2>7, LocalTypes
  <2>9. faults' \in 0..MaxFaults
    BY <1>0, <1>10, IdentityAssumption DEF SaveToken, Fault
  <2>10. UNCHANGED <<now, users, minted, call, registered, ended>>
    BY <1>10 DEF SaveToken
  <2> QED BY <2>3, <2>4, <2>5, <2>6, <2>8, <2>9, <2>10, Zenon DEF IdentityTypes, UserIds
<1>11. CASE RefreshSign(p)
  <2>1. call[p].user \in UserIds /\ now + AccessTTL \in Expiries
    BY <1>11, IdentityAssumption DEF RefreshSign, StatementInv, AtStatement, IdentityTypes, Times, Expiries
  <2>2. granted' \subseteq [user : UserIds, exp : Expiries]
    BY <1>11, <2>1 DEF RefreshSign, IdentityTypes, AccessExpiry
  <2>3. pc' \in [Callers -> PCs] /\ reply' \in [Callers -> Codes \cup {"none"}]
    BY <1>0, <1>11, LocalTypes DEF RefreshSign
  <2>4. UNCHANGED <<now, users, tokens, minted, call, known, registered, ended, lastAuth, faults>>
    BY <1>11 DEF RefreshSign, database
  <2> QED BY <2>2, <2>3, <2>4, Zenon DEF IdentityTypes, UserIds
<1> QED BY <1>1, <1>2, <1>3, <1>4, <1>5, <1>6, <1>7, <1>8, <1>9, <1>10, <1>11, Zenon DEF CallKinds

\* And so does the clock.
LEMMA TypesOfTick ==
    ASSUME IdentityTypes, Tick
    PROVE  IdentityTypes'
<1>1. now' \in Times /\ now' = now + 1 /\ now \in Nat
  BY IdentityAssumption DEF Tick, IdentityTypes, Times
<1>2. lastAuth' \in [UserIds -> 0..now']
  BY <1>1 DEF Tick, IdentityTypes
<1>3. UNCHANGED <<users, tokens, minted, pc, call, reply, known, granted, registered, ended, faults>>
  BY DEF Tick, database, issued
<1> QED BY <1>1, <1>2, <1>3, Zenon DEF IdentityTypes, UserIds

-----------------------------------------------------------------------------
(* A step of one call.                                                     *)

Elsewhere(p) ==
    \A q \in Callers : q # p => call'[q] = call[q] /\ pc'[q] = pc[q] /\ reply'[q] = reply[q]

\* What Return and Goto do to the call itself.
LEMMA Here ==
    ASSUME IdentityTypes, NEW p \in Callers
    PROVE  /\ \A code : Return(p, code) => pc'[p] = "idle" /\ reply'[p] = code
           /\ \A l : Goto(p, l) => pc'[p] = l /\ reply'[p] = reply[p]
           /\ \A e : call' = [call EXCEPT ![p] = e] => call'[p] = e
BY DEF IdentityTypes, Return, Goto

\* Only p's call changes, users stay, and time does not pass.
LEMMA OthersStay ==
    ASSUME IdentityTypes, NEW p \in Callers, CallKinds(p)
    PROVE  Elsewhere(p) /\ UserIds \subseteq UserIds' /\ now' = now
<1>1. /\ \A code : Return(p, code) =>
            \A q \in Callers : q # p => pc'[q] = pc[q] /\ reply'[q] = reply[q]
      /\ \A l : Goto(p, l) =>
            \A q \in Callers : q # p => pc'[q] = pc[q] /\ reply'[q] = reply[q]
      /\ \A e : call' = [call EXCEPT ![p] = e] => \A q \in Callers : q # p => call'[q] = call[q]
  BY DEF IdentityTypes, Return, Goto
<1>2. CASE StartKind(p)
  BY <1>1, <1>2 DEF StartKind, Elsewhere, shared, UserIds
<1>3. CASE Finish(p)
  BY <1>1, <1>3 DEF Finish, Elsewhere, database, UserIds, IdentityTypes
<1>4. CASE AnswerKind(p)
  BY <1>1, <1>4 DEF AnswerKind, Elsewhere, shared, UserIds
<1>5. CASE AdvanceKind(p)
  BY <1>1, <1>5 DEF AdvanceKind, Elsewhere, shared, UserIds
<1>6. CASE ReadKind(p)
  BY <1>1, <1>6 DEF ReadKind, Elsewhere, shared, UserIds
<1>7. CASE FoundKind(p)
  BY <1>1, <1>7 DEF FoundKind, Elsewhere, UserIds
<1>8. CASE IssueKind(p)
  BY <1>1, <1>8 DEF IssueKind, Elsewhere, UserIds
<1>9. CASE DeleteKind(p)
  BY <1>1, <1>9 DEF DeleteKind, Elsewhere, UserIds
<1>10. CASE SaveUser(p)
  <2>1. Len(users') = Len(users) + 1 /\ Len(users) \in Nat
    BY <1>10 DEF SaveUser, IdentityTypes
  <2> QED BY <1>1, <1>10, <2>1 DEF SaveUser, Elsewhere, UserIds
<1>11. CASE SaveToken(p)
  BY <1>1, <1>11 DEF SaveToken, Elsewhere, UserIds
<1>12. CASE RefreshSign(p)
  BY <1>1, <1>12 DEF RefreshSign, Elsewhere, database, UserIds
<1> QED BY <1>2, <1>3, <1>4, <1>5, <1>6, <1>7, <1>8, <1>9, <1>10, <1>11, <1>12, Zenon DEF CallKinds

-----------------------------------------------------------------------------
(* StatementInv.                                                           *)

\* A call's step leaves it at a statement of its operation.
LEMMA StatementsOfCalls ==
    ASSUME IdentityTypes, StatementInv, NEW p \in Callers, CallKinds(p)
    PROVE  StatementInv'
<1>0. AtStatement(p)
  BY DEF StatementInv, AtStatement
<1>1. AtStatement(p)'
  <2>1. CASE pc'[p] = "idle"
    BY <2>1 DEF AtStatement
  <2>2. CASE StartKind(p)
    <3>1. PICK e : /\ Arrived(e) /\ call' = [call EXCEPT ![p] = e]
                   /\ \/ Return(p, "InvalidArgument")
                      \/ Goto(p, FirstStatement(e.op)) /\ ~ BadRequest(e)
      BY <2>2 DEF StartKind
    <3>2. CASE Return(p, "InvalidArgument")
      BY <2>1, <3>2, Here
    <3>3. CASE Goto(p, FirstStatement(e.op)) /\ ~ BadRequest(e)
      <4>1. call'[p] = e /\ pc'[p] = FirstStatement(e.op) /\ reply'[p] = "none"
        BY <2>2, <3>1, <3>3, Here DEF StartKind
      <4>2. e.op \in {"Register", "Login"} => e.email \in Emails /\ e.password \in Passwords
        BY <3>1, <3>3 DEF Arrived, BadRequest
      <4> QED BY <3>1, <4>1, <4>2, FirstStatements DEF AtStatement, Arrived, Ops
    <3> QED BY <3>1, <3>2, <3>3
  <2>3. CASE Finish(p)
    BY <1>0, <2>1, <2>3 DEF Finish, AtStatement
  <2>4. CASE AnswerKind(p)
    BY <2>1, <2>4, Here DEF AnswerKind
  <2>5. CASE AdvanceKind(p)
    <3>1. call' = call /\ reply'[p] = reply[p]
      BY <2>5, Here DEF AdvanceKind
    <3>2. \/ pc[p] = "findUser" /\ call[p].op = "Register" /\ pc'[p] = "saveUser"
          \/ pc[p] = "parse" /\ pc'[p] = "findId"
      BY <2>5, Here DEF AdvanceKind
    <3> QED BY <1>0, <3>1, <3>2 DEF AtStatement
  <2>6. CASE ReadKind(p)
    <3>1. pc[p] = "findToken" /\ pc'[p] = "check" /\ reply'[p] = reply[p] /\ users' = users
      BY <2>6, Here DEF ReadKind, shared
    <3>2. call'[p].op = call[p].op /\ call'[p].user \in UserIds
      BY <2>6, Here DEF ReadKind, IdentityTypes
    <3> QED BY <1>0, <3>1, <3>2 DEF AtStatement, UserIds
  <2>7. CASE FoundKind(p)
    <3>1. pc[p] = "findUser" /\ pc'[p] = "issue" /\ reply'[p] = reply[p] /\ users' = users
      BY <2>7, Here DEF FoundKind
    <3>2. call'[p].op = "Login" /\ call'[p].user \in UserIds
      BY <2>7, Here DEF FoundKind
    <3> QED BY <1>0, <3>1, <3>2 DEF AtStatement, UserIds
  <2>8. CASE IssueKind(p)
    <3>1. pc[p] = "issue" /\ pc'[p] = "saveToken" /\ reply'[p] = reply[p] /\ users' = users /\ now' = now
      BY <2>8, Here DEF IssueKind
    <3>2. call'[p].op = call[p].op /\ call'[p].user = call[p].user /\ call'[p].exp = now + AccessTTL
      BY <2>8, Here DEF IssueKind
    <3>3. now + AccessTTL \in AccessTTL..(now + AccessTTL)
      BY IdentityAssumption DEF IdentityTypes, Times
    <3> QED BY <1>0, <3>1, <3>2, <3>3 DEF AtStatement, UserIds
  <2>9. CASE DeleteKind(p)
    BY <2>1, <2>9, Here DEF DeleteKind
  <2>10. CASE SaveUser(p) \/ SaveToken(p) \/ RefreshSign(p)
    BY <2>1, <2>10, Here DEF SaveUser, SaveToken, RefreshSign
  <2> QED BY <2>2, <2>3, <2>4, <2>5, <2>6, <2>7, <2>8, <2>9, <2>10, Zenon DEF CallKinds
<1>2. ASSUME NEW q \in Callers, q # p PROVE AtStatement(q)'
  <2>1. /\ call'[q] = call[q] /\ pc'[q] = pc[q] /\ reply'[q] = reply[q]
        /\ UserIds \subseteq UserIds' /\ now' = now
    BY <1>2, OthersStay DEF Elsewhere
  <2>2. AtStatement(q)
    BY DEF StatementInv, AtStatement
  <2> QED BY <2>1, <2>2 DEF AtStatement
<1> QED BY <1>1, <1>2 DEF StatementInv, AtStatement

\* Time passes between statements.
LEMMA StatementsOfTick ==
    ASSUME IdentityTypes, StatementInv, Tick
    PROVE  StatementInv'
<1>1. UNCHANGED <<users, pc, call, reply>> /\ now' = now + 1 /\ now \in Nat
  BY DEF Tick, database, IdentityTypes, Times
<1>2. AccessTTL..(now + AccessTTL) \subseteq AccessTTL..(now' + AccessTTL)
  BY <1>1, IdentityAssumption
<1> QED BY <1>1, <1>2 DEF StatementInv, AtStatement, UserIds

-----------------------------------------------------------------------------
(* OwnerInv.                                                               *)

\* All steps but SaveUser leave the users alone.
LEMMA OwnersOfQuietSteps ==
    ASSUME IdentityTypes, StatementInv, OwnerInv, NEW p \in Callers, CallKinds(p), ~ SaveUser(p)
    PROVE  OwnerInv'
<1>0. AtStatement(p) /\ FoundOwner(p)
  BY DEF StatementInv, OwnerInv, FoundOwner
<1>1. users' = users /\ registered' = registered /\ FoundOwner(p)'
  <2>1. CASE StartKind(p)
    <3>1. PICK e : /\ Arrived(e) /\ call' = [call EXCEPT ![p] = e]
                   /\ Return(p, "InvalidArgument") \/ Goto(p, FirstStatement(e.op))
      BY <2>1 DEF StartKind
    <3>2. reply'[p] # "OK" /\ pc'[p] \notin {"issue", "saveToken"}
      BY <2>1, <3>1, Here, FirstStatements DEF StartKind, Arrived
    <3> QED BY <2>1, <3>2 DEF StartKind, shared, FoundOwner
  <2>2. CASE Finish(p)
    <3>0. call'[p] = NoCall
      BY <2>2, Here DEF Finish
    <3>1. call'[p].op = "none"
      BY <3>0 DEF NoCall, Request
    <3> QED BY <2>2, <3>1 DEF Finish, FoundOwner, database, issued
  <2>3. CASE AnswerKind(p)
    <3>1. pc'[p] = "idle" /\ (reply'[p] = "OK" => call[p].op = "ValidateToken") /\ call' = call
      BY <2>3, Here DEF AnswerKind
    <3> QED BY <2>3, <3>1 DEF AnswerKind, shared, FoundOwner
  <2>4. CASE AdvanceKind(p)
    <3>1. pc'[p] \in {"saveUser", "findId"} /\ reply'[p] = "none"
      BY <1>0, <2>4, Here DEF AdvanceKind, AtStatement
    <3> QED BY <2>4, <3>1 DEF AdvanceKind, shared, FoundOwner
  <2>5. CASE ReadKind(p)
    <3>1. pc'[p] = "check" /\ reply'[p] = "none"
      BY <1>0, <2>5, Here DEF ReadKind, AtStatement
    <3> QED BY <2>5, <3>1 DEF ReadKind, shared, FoundOwner
  <2>6. CASE FoundKind(p)
    <3>1. call'[p].user \in UserIds /\ users[call'[p].user].email = call'[p].email
      <4>1. PICK u \in UserIds, e \in CallRecords :
                /\ users[u].email = call[p].email /\ e.email = call[p].email /\ e.user = u
                /\ call' = [call EXCEPT ![p] = e]
        BY <2>6, Zenon DEF FoundKind
      <4>2. call'[p] = e
        BY <4>1, Here
      <4> QED BY <4>1, <4>2, Zenon
    <3> QED BY <2>6, <3>1 DEF FoundKind, FoundOwner, UserIds
  <2>7. CASE IssueKind(p)
    <3>1. pc[p] = "issue" /\ call'[p].user = call[p].user /\ call'[p].email = call[p].email
          /\ call'[p].op = call[p].op
      BY <2>7, Here DEF IssueKind
    <3> QED BY <1>0, <2>7, <3>1 DEF IssueKind, FoundOwner, UserIds
  <2>8. CASE DeleteKind(p)
    <3>1. pc'[p] = "idle" /\ (reply'[p] = "OK" => call[p].op = "Logout") /\ call' = call
      BY <2>8, Here DEF DeleteKind
    <3> QED BY <2>8, <3>1 DEF DeleteKind, FoundOwner
  <2>9. CASE SaveToken(p)
    <3>1. pc[p] = "saveToken" /\ call' = call /\ users' = users
      BY <2>9 DEF SaveToken
    <3> QED BY <1>0, <2>9, <3>1 DEF SaveToken, FoundOwner, UserIds
  <2>10. CASE RefreshSign(p)
    <3>1. call' = call /\ call[p].op = "RefreshToken"
      BY <1>0, <2>10 DEF RefreshSign, AtStatement
    <3> QED BY <2>10, <3>1 DEF RefreshSign, FoundOwner, database
  <2> QED BY <2>1, <2>2, <2>3, <2>4, <2>5, <2>6, <2>7, <2>8, <2>9, <2>10, Zenon DEF CallKinds
<1>2. ASSUME NEW q \in Callers, q # p PROVE FoundOwner(q)'
  <2>1. call'[q] = call[q] /\ pc'[q] = pc[q] /\ reply'[q] = reply[q]
    BY <1>2, OthersStay DEF Elsewhere
  <2>2. FoundOwner(q)
    BY DEF OwnerInv, FoundOwner
  <2> QED BY <1>1, <2>1, <2>2 DEF FoundOwner, UserIds
<1>3. \A q \in Callers : FoundOwner(q)'
  BY <1>1, <1>2
<1> QED BY <1>1, <1>3 DEF OwnerInv, FoundOwner, UserIds

\* The new user's address is nobody else's.
LEMMA OwnersOfSaveUser ==
    ASSUME IdentityTypes, StatementInv, OwnerInv, NEW p \in Callers, SaveUser(p)
    PROVE  OwnerInv'
<1> DEFINE n == Len(users) + 1
<1>0. AtStatement(p) /\ pc[p] = "saveUser" /\ call' = call
  BY DEF StatementInv, SaveUser
<1>1. NewUser(p) \in [email : Emails, password : Passwords] /\ NewUser(p).email = call[p].email
  BY <1>0 DEF AtStatement, NewUser
<1>2. /\ UserIds' = UserIds \cup {n} /\ n \notin UserIds /\ users'[n].email = call[p].email
      /\ \A u \in UserIds : users'[u] = users[u]
  <2>1. users \in Seq([email : Emails, password : Passwords]) /\ users' = Append(users, NewUser(p))
    BY DEF SaveUser, IdentityTypes
  <2>2. Len(users) \in Nat /\ Len(users') = n /\ users'[n] = NewUser(p)
        /\ \A u \in 1..Len(users) : users'[u] = users[u]
    BY <1>1, <2>1
  <2> QED BY <1>1, <2>2 DEF UserIds
<1>3. \A u \in UserIds : users[u].email # call[p].email
  BY DEF SaveUser, EmailTaken, EmailFound, HasEmail
<1>4. (\A u, v \in UserIds : users[u].email = users[v].email => u = v)'
  BY <1>2, <1>3 DEF OwnerInv
<1>5. (\A r \in registered : users[r.user].email = r.email)'
  <2>1. registered \subseteq [user : UserIds, email : Emails]
    BY DEF IdentityTypes
  <2>2. \/ registered' = registered
        \/ registered' = registered \cup {[user |-> n, email |-> call[p].email]}
    BY DEF SaveUser
  <2>3. \A r \in registered : r.user \in UserIds /\ users[r.user].email = r.email
    BY <2>1 DEF OwnerInv
  <2> QED BY <1>2, <2>2, <2>3
<1>6. ASSUME NEW q \in Callers PROVE FoundOwner(q)'
  <2>1. CASE q = p
    BY <1>0, <2>1 DEF AtStatement, FoundOwner
  <2>2. CASE q # p
    <3>1. CallKinds(p)
      BY DEF CallKinds
    <3>2. call'[q] = call[q] /\ pc'[q] = pc[q] /\ reply'[q] = reply[q]
      BY <2>2, <3>1, OthersStay DEF Elsewhere
    <3>3. FoundOwner(q)
      BY DEF OwnerInv, FoundOwner
    <3> QED BY <1>2, <3>2, <3>3 DEF FoundOwner
  <2> QED BY <2>1, <2>2
<1> QED BY <1>4, <1>5, <1>6 DEF OwnerInv, FoundOwner

-----------------------------------------------------------------------------
(* TokenInv.                                                               *)

\* Steps that make no token and save none: rows, and sessions that ended, are
\* of tokens that were known before.
LEMMA TokensOfQuietSteps ==
    ASSUME IdentityTypes, StatementInv, TokenInv, NEW p \in Callers,
           CallKinds(p), ~ IssueKind(p), ~ SaveToken(p)
    PROVE  TokenInv'
<1>1. /\ tokens' \subseteq tokens /\ minted' = minted /\ known' = known
      /\ pc'[p] # "saveToken"
      /\ \A row \in tokens' : row.token \notin ended'
  <2>0. AtStatement(p) /\ \A row \in tokens : row.token \notin ended
    BY DEF StatementInv, TokenInv
  <2>1. CASE StartKind(p)
    <3>1. PICK e : /\ Arrived(e) /\ call' = [call EXCEPT ![p] = e]
                   /\ Return(p, "InvalidArgument") \/ Goto(p, FirstStatement(e.op))
      BY <2>1 DEF StartKind
    <3>2. pc'[p] # "saveToken"
      BY <3>1, Here, FirstStatements DEF Arrived
    <3> QED BY <2>0, <2>1, <3>2 DEF StartKind, shared
  <2>2. CASE Finish(p)
    BY <2>0, <2>2 DEF Finish, AtStatement, database, issued
  <2>3. CASE AnswerKind(p)
    <3>1. pc'[p] = "idle"
      BY <2>3, Here DEF AnswerKind
    <3> QED BY <2>0, <2>3, <3>1 DEF AnswerKind, shared
  <2>4. CASE AdvanceKind(p)
    <3>1. pc'[p] \in {"saveUser", "findId"}
      BY <2>4, Here DEF AdvanceKind
    <3> QED BY <2>0, <2>4, <3>1 DEF AdvanceKind, shared
  <2>5. CASE ReadKind(p)
    <3>1. pc'[p] = "check"
      BY <2>5, Here DEF ReadKind
    <3> QED BY <2>0, <2>5, <3>1 DEF ReadKind, shared
  <2>6. CASE FoundKind(p)
    <3>1. pc'[p] = "issue"
      BY <2>6, Here DEF FoundKind
    <3> QED BY <2>0, <2>6, <3>1 DEF FoundKind
  <2>7. CASE DeleteKind(p)
    <3>1. pc'[p] = "idle"
      BY <2>7, Here DEF DeleteKind
    <3> QED BY <2>0, <2>7, <3>1 DEF DeleteKind
  <2>8. CASE SaveUser(p)
    <3>1. pc'[p] = "idle"
      BY <2>8, Here DEF SaveUser
    <3> QED BY <2>0, <2>8, <3>1 DEF SaveUser
  <2>9. CASE RefreshSign(p)
    <3>1. pc'[p] = "idle"
      BY <2>9, Here DEF RefreshSign
    <3> QED BY <2>0, <2>9, <3>1 DEF RefreshSign, database
  <2> QED BY <2>1, <2>2, <2>3, <2>4, <2>5, <2>6, <2>7, <2>8, <2>9, Zenon DEF CallKinds
<1>2. \A q \in Callers : pc'[q] = "saveToken" => q # p /\ pc[q] = "saveToken" /\ call'[q] = call[q]
  BY <1>1, OthersStay DEF Elsewhere
<1> QED BY <1>1, <1>2 DEF TokenInv, FreshToken

\* A new token is one that no call has.
LEMMA TokensOfIssue ==
    ASSUME IdentityTypes, StatementInv, TokenInv, NEW p \in Callers, IssueKind(p)
    PROVE  TokenInv'
<1>1. /\ minted \in Nat /\ minted' = minted + 1 /\ call'[p].token = minted + 1
      /\ UNCHANGED <<tokens, known, ended>>
  BY Here DEF IssueKind, IdentityTypes
<1>2. \A q \in Callers : q # p => call'[q] = call[q] /\ pc'[q] = pc[q]
  <2>1. CallKinds(p)
    BY DEF CallKinds
  <2> QED BY <2>1, OthersStay DEF Elsewhere
<1>3. \A q \in Callers : FreshToken(q)
  BY DEF TokenInv, FreshToken
<1>4. known \subseteq 1..minted /\ \A row \in tokens : row.token \in 1..minted /\ row.token \notin ended
  BY DEF IdentityTypes, TokenInv
<1>5. \A q \in Callers : FreshToken(q)'
  BY <1>1, <1>2, <1>3, <1>4 DEF FreshToken
<1>6. \A r, q \in Callers : r # q /\ pc'[r] = "saveToken" /\ pc'[q] = "saveToken" =>
            call'[r].token # call'[q].token
  BY <1>1, <1>2, <1>3 DEF TokenInv, FreshToken
<1>7. \A row \in tokens' : row.token \in 1..minted' /\ row.token \notin ended'
  BY <1>1, <1>4
<1> QED BY <1>5, <1>6, <1>7 DEF TokenInv, FreshToken

\* The token is saved, and is nobody else's.
LEMMA TokensOfSave ==
    ASSUME IdentityTypes, StatementInv, TokenInv, NEW p \in Callers, SaveToken(p)
    PROVE  TokenInv'
<1>1. /\ pc[p] = "saveToken" /\ pc'[p] = "idle" /\ UNCHANGED <<minted, call, ended>>
      /\ tokens' = tokens \cup {NewRefreshToken(p)} /\ NewRefreshToken(p).token = call[p].token
      /\ known' = known \/ known' = known \cup {call[p].token}
  BY Here DEF SaveToken, NewRefreshToken
<1>2. \A q \in Callers : q # p => pc'[q] = pc[q]
  <2>1. CallKinds(p)
    BY DEF CallKinds
  <2> QED BY <2>1, OthersStay DEF Elsewhere
<1>3. call[p].token \in 1..minted /\ call[p].token \notin ended
  BY <1>1 DEF TokenInv, FreshToken, IdentityTypes
<1>4. \A q \in Callers : FreshToken(q)'
  BY <1>1, <1>2 DEF TokenInv, FreshToken
<1>5. \A row \in tokens' : row.token \in 1..minted' /\ row.token \notin ended'
  BY <1>1, <1>3 DEF TokenInv
<1>6. \A r, q \in Callers : r # q /\ pc'[r] = "saveToken" /\ pc'[q] = "saveToken" =>
            call'[r].token # call'[q].token
  BY <1>1, <1>2 DEF TokenInv
<1> QED BY <1>4, <1>5, <1>6 DEF TokenInv, FreshToken

-----------------------------------------------------------------------------
(* SessionInv, RefreshNeedsLiveSession and AccessInv.                       *)

\* Which step leads to a statement, and which to a refreshed token.
LEMMA Whence ==
    ASSUME IdentityTypes, StatementInv, RefreshNeedsLiveSession, NEW p \in Callers, CallKinds(p)
    PROVE  /\ pc'[p] = "findToken" => StartKind(p)
           /\ pc'[p] = "check" => ReadKind(p)
           /\ pc'[p] = "issue" => FoundKind(p)
           /\ pc'[p] = "saveToken" => IssueKind(p)
           /\ reply'[p] = "OK" /\ call'[p].op = "RefreshToken" => RefreshSign(p)
<1>0. AtStatement(p)
  BY DEF StatementInv
<1>1. CASE StartKind(p)
  <2>1. PICK e : /\ Arrived(e)
                 /\ Return(p, "InvalidArgument") \/ Goto(p, FirstStatement(e.op))
    BY <1>1 DEF StartKind
  <2>2. reply[p] = "none" /\ e.op \in Ops
    BY <1>1, <2>1 DEF StartKind, Arrived
  <2>3. reply'[p] # "OK" /\ pc'[p] \notin {"check", "issue", "saveToken"}
    BY <2>1, <2>2, Here, FirstStatements
  <2> QED BY <1>1, <2>3
<1>2. CASE Finish(p)
  <2>1. pc'[p] = "idle" /\ reply'[p] = "none"
    BY <1>0, <1>2 DEF Finish, AtStatement, IdentityTypes
  <2> QED BY <2>1
<1>3. CASE AnswerKind(p)
  <2>1. pc'[p] = "idle" /\ (reply'[p] = "OK" => call[p].op = "ValidateToken") /\ call' = call
    BY <1>3, Here DEF AnswerKind
  <2> QED BY <2>1
<1>4. CASE AdvanceKind(p)
  <2>1. pc'[p] \in {"saveUser", "findId"} /\ reply'[p] = "none"
    BY <1>0, <1>4, Here DEF AdvanceKind, AtStatement
  <2> QED BY <2>1
<1>5. CASE ReadKind(p)
  <2>1. pc'[p] = "check" /\ reply'[p] = "none"
    BY <1>0, <1>5, Here DEF ReadKind, AtStatement
  <2> QED BY <1>5, <2>1
<1>6. CASE FoundKind(p)
  <2>1. pc'[p] = "issue" /\ reply'[p] = "none"
    BY <1>0, <1>6, Here DEF FoundKind, AtStatement
  <2> QED BY <1>6, <2>1
<1>7. CASE IssueKind(p)
  <2>1. pc'[p] = "saveToken" /\ reply'[p] = "none"
    BY <1>0, <1>7, Here DEF IssueKind, AtStatement
  <2> QED BY <1>7, <2>1
<1>8. CASE DeleteKind(p)
  <2>1. pc'[p] = "idle" /\ (reply'[p] = "OK" => call[p].op = "Logout") /\ call' = call
    BY <1>8, Here DEF DeleteKind
  <2> QED BY <2>1
<1>9. CASE SaveUser(p)
  <2>1. pc'[p] = "idle" /\ call' = call /\ call[p].op = "Register"
    BY <1>0, <1>9, Here DEF SaveUser, AtStatement
  <2> QED BY <2>1
<1>10. CASE SaveToken(p)
  <2>1. pc'[p] = "idle" /\ call' = call /\ call[p].op = "Login"
    BY <1>0, <1>10, Here DEF SaveToken, AtStatement
  <2> QED BY <2>1
<1>11. CASE RefreshSign(p)
  <2>1. pc'[p] = "idle"
    BY <1>11, Here DEF RefreshSign
  <2> QED BY <1>11, <2>1
<1> QED BY <1>1, <1>2, <1>3, <1>4, <1>5, <1>6, <1>7, <1>8, <1>9, <1>10, <1>11, Zenon DEF CallKinds

\* What a call's step may do to the tables and to what clients were given.
LEMMA SharedSteps ==
    ASSUME IdentityTypes, StatementInv, NEW p \in Callers, CallKinds(p)
    PROVE  /\ known \subseteq known'
           /\ \A row \in tokens' : row \in tokens \/ (SaveToken(p) /\ row = NewRefreshToken(p))
           /\ \A u \in UserIds : lastAuth'[u] \in {lastAuth[u], now}
           /\ granted' \subseteq granted \/ SaveToken(p) \/ RefreshSign(p)
<1>1. CASE SaveToken(p)
  <2>1. call[p].user \in UserIds
    BY <1>1 DEF SaveToken, StatementInv, AtStatement
  <2> QED BY <1>1, <2>1 DEF SaveToken, IdentityTypes
<1>2. CASE SaveUser(p)
  <2>1. \A u \in UserIds : lastAuth'[u] = lastAuth[u]
    <3>1. lastAuth \in [1..Len(users) -> 0..now] /\ lastAuth' = Append(lastAuth, 0) /\ Len(users) \in Nat
      BY <1>2 DEF SaveUser, IdentityTypes, UserIds
    <3>2. lastAuth \in Seq(0..now) /\ Len(lastAuth) = Len(users)
      BY <3>1, SequencesAreFunctions
    <3> QED BY <3>1, <3>2 DEF UserIds
  <2> QED BY <1>2, <2>1 DEF SaveUser
<1>3. CASE FoundKind(p)
  <2>1. \A u \in UserIds : lastAuth'[u] \in {lastAuth[u], now}
    BY <1>3 DEF FoundKind, IdentityTypes
  <2> QED BY <1>3, <2>1 DEF FoundKind
<1>4. CASE StartKind(p) \/ AnswerKind(p) \/ AdvanceKind(p) \/ ReadKind(p)
  <2>1. UNCHANGED shared
    BY <1>4 DEF StartKind, AnswerKind, AdvanceKind, ReadKind
  <2> QED BY <2>1 DEF shared
<1>5. CASE Finish(p)
  BY <1>5 DEF Finish, database, issued
<1>6. CASE IssueKind(p)
  BY <1>6 DEF IssueKind
<1>7. CASE DeleteKind(p)
  BY <1>7 DEF DeleteKind
<1>8. CASE RefreshSign(p)
  BY <1>8 DEF RefreshSign, database
<1> QED BY <1>1, <1>2, <1>3, <1>4, <1>5, <1>6, <1>7, <1>8, Zenon DEF CallKinds

\* A refresh without a live session does not find one later.
LEMMA SessionsOfCalls ==
    ASSUME IInv, NEW p \in Callers, CallKinds(p)
    PROVE  SessionInv'
<1> USE DEF IInv
<1>1. SessionOf(p)'
  <2>1. CASE pc'[p] = "findToken"
    <3>1. StartKind(p)
      BY <2>1, Whence
    <3>2. PICK e : /\ Arrived(e) /\ call' = [call EXCEPT ![p] = e]
                   /\ \/ Return(p, "InvalidArgument")
                      \/ Goto(p, FirstStatement(e.op)) /\ ~ BadRequest(e)
      BY <3>1 DEF StartKind
    <3>3. call'[p] = e /\ FirstStatement(e.op) = "findToken" /\ ~ BadRequest(e)
      BY <2>1, <3>2, Here
    <3>4. e.op = "RefreshToken"
      BY <3>2, <3>3, FirstStatements DEF Arrived, Ops
    <3>5. e.token \in known
      BY <3>2, <3>3, <3>4 DEF Arrived, BadRequest
    <3>6. ~ e.live => \A row \in tokens : row.token = e.token => now > row.expires
      <4>1. \A row \in tokens : row.expires \in Int /\ now \in Int /\ row.token \notin ended
        BY DEF IdentityTypes, Expiries, Times, TokenInv
      <4> QED BY <3>2, <4>1 DEF Arrived, Live
    <3>7. UNCHANGED <<now, tokens, known>>
      BY <3>1 DEF StartKind, shared
    <3> QED BY <2>1, <3>3, <3>5, <3>6, <3>7 DEF SessionOf
  <2>2. CASE pc'[p] = "check"
    <3>1. ReadKind(p)
      BY <2>2, Whence
    <3>2. PICK row \in tokens : /\ row.token = call[p].token /\ call'[p].exp = row.expires
                                /\ call'[p].live = call[p].live
      <4>1. PICK row \in tokens, e \in CallRecords :
                /\ row.token = call[p].token /\ e.live = call[p].live /\ e.exp = row.expires
                /\ call' = [call EXCEPT ![p] = e]
        BY <3>1, Zenon DEF ReadKind
      <4>2. call'[p] = e
        BY <4>1, Here
      <4> QED BY <4>1, <4>2, Zenon
    <3>3. pc[p] = "findToken" /\ SessionOf(p) /\ now' = now
      BY <3>1 DEF ReadKind, shared, SessionInv
    <3> QED BY <2>2, <3>2, <3>3 DEF SessionOf
  <2> QED BY <2>1, <2>2 DEF SessionOf
<1>2. ASSUME NEW q \in Callers, q # p PROVE SessionOf(q)'
  <2>1. call'[q] = call[q] /\ pc'[q] = pc[q] /\ now' = now
    BY <1>2, OthersStay DEF Elsewhere
  <2>2. SessionOf(q) /\ known \subseteq known'
    BY SharedSteps DEF SessionInv
  <2>3. \A row \in tokens' : row \in tokens \/ row.token \notin known
    <3>1. SaveToken(p) => NewRefreshToken(p).token \notin known
      BY DEF SaveToken, TokenInv, FreshToken, NewRefreshToken
    <3> QED BY <3>1, SharedSteps
  <2> QED BY <2>1, <2>2, <2>3 DEF SessionOf
<1> QED BY <1>1, <1>2 DEF SessionInv

\* What is signed for a refresh is signed for a live session.
LEMMA RefreshOfCalls ==
    ASSUME IInv, NEW p \in Callers, CallKinds(p)
    PROVE  RefreshNeedsLiveSession'
<1> USE DEF IInv
<1>1. call'[p].op = "RefreshToken" /\ reply'[p] = "OK" => call'[p].live
  <2>1. SUFFICES ASSUME RefreshSign(p) PROVE call'[p].live
    BY Whence
  <2>2. ~ IsExpired(ReadRow(p)) /\ pc[p] = "check" /\ call' = call
    BY <2>1 DEF RefreshSign
  <2> QED BY <2>2 DEF SessionInv, SessionOf, IsExpired, ReadRow
<1>2. \A q \in Callers : q # p => call'[q] = call[q] /\ reply'[q] = reply[q]
  BY OthersStay DEF Elsewhere
<1> QED BY <1>1, <1>2 DEF RefreshNeedsLiveSession

\* The time of a user's last session is up to date after a call's step.
LEMMA AccessOfCalls ==
    ASSUME IInv, NEW p \in Callers, CallKinds(p)
    PROVE  AccessInv'
<1> USE DEF IInv
<1>0. /\ now \in Nat /\ now' = now /\ AtStatement(p)
      /\ \A u \in UserIds : lastAuth[u] \in 0..now
      /\ \A u \in UserIds : lastAuth'[u] = lastAuth[u] \/ lastAuth'[u] = now
  BY OthersStay, SharedSteps, IdentityAssumption DEF IdentityTypes, Times, StatementInv
<1>1. \A row \in tokens' : now' <= row.expires => lastAuth'[row.user] = now'
  <2>1. \A row \in tokens : row.user \in UserIds /\ (now <= row.expires => lastAuth[row.user] = now)
    BY DEF IdentityTypes, AccessInv
  <2>2. SaveToken(p) => lastAuth'[NewRefreshToken(p).user] = now
    BY <1>0 DEF SaveToken, NewRefreshToken, IdentityTypes, AtStatement
  <2> QED BY <1>0, <2>1, <2>2, SharedSteps
<1>2. ASSUME NEW q \in Callers, pc'[q] \in {"issue", "saveToken"}
      PROVE  lastAuth'[call'[q].user] = now'
  <2>1. CASE q # p
    <3>1. call'[q] = call[q] /\ pc'[q] = pc[q]
      BY <2>1, OthersStay DEF Elsewhere
    <3>2. call[q].user \in UserIds /\ lastAuth[call[q].user] = now
      BY <1>2, <3>1 DEF StatementInv, AtStatement, AccessInv
    <3> QED BY <1>0, <3>1, <3>2
  <2>2. CASE q = p /\ pc'[p] = "issue"
    <3>1. FoundKind(p)
      BY <2>2, Whence
    <3>2. PICK u \in UserIds : call'[p].user = u /\ lastAuth' = [lastAuth EXCEPT ![u] = now]
      <4>1. PICK u \in UserIds, e \in CallRecords :
                /\ e.user = u /\ lastAuth' = [lastAuth EXCEPT ![u] = now]
                /\ call' = [call EXCEPT ![p] = e]
        BY <3>1, Zenon DEF FoundKind
      <4>2. call'[p] = e
        BY <4>1, Here
      <4> QED BY <4>1, <4>2, Zenon
    <3> QED BY <1>0, <2>2, <3>2 DEF IdentityTypes
  <2>3. CASE q = p /\ pc'[p] = "saveToken"
    <3>1. IssueKind(p)
      BY <2>3, Whence
    <3>2. call'[p].user = call[p].user /\ pc[p] = "issue"
      BY <3>1, Here DEF IssueKind
    <3>3. call[p].user \in UserIds /\ lastAuth[call[p].user] = now
      BY <1>0, <3>2 DEF AtStatement, AccessInv
    <3> QED BY <1>0, <2>3, <3>2, <3>3
  <2> QED BY <1>2, <2>1, <2>2, <2>3
<1>3. ASSUME NEW q \in Callers, pc'[q] = "check", now' <= call'[q].exp
      PROVE  lastAuth'[call'[q].user] = now'
  <2>1. CASE q # p
    <3>1. call'[q] = call[q] /\ pc'[q] = pc[q]
      BY <2>1, OthersStay DEF Elsewhere
    <3>2. call[q].user \in UserIds /\ lastAuth[call[q].user] = now
      BY <1>0, <1>3, <3>1 DEF StatementInv, AtStatement, AccessInv
    <3> QED BY <1>0, <3>1, <3>2
  <2>2. CASE q = p
    <3>1. ReadKind(p)
      BY <1>3, <2>2, Whence
    <3>2. PICK row \in tokens : call'[p].user = row.user /\ call'[p].exp = row.expires
      <4>1. PICK row \in tokens, e \in CallRecords :
                e.user = row.user /\ e.exp = row.expires /\ call' = [call EXCEPT ![p] = e]
        BY <3>1, Zenon DEF ReadKind
      <4>2. call'[p] = e
        BY <4>1, Here
      <4> QED BY <4>1, <4>2
    <3>3. row.user \in UserIds /\ lastAuth[row.user] = now
      BY <1>0, <1>3, <2>2, <3>2 DEF IdentityTypes, AccessInv
    <3> QED BY <1>0, <2>2, <3>2, <3>3
  <2> QED BY <2>1, <2>2
<1>4. \A a \in granted' : a.exp <= lastAuth'[a.user] + AccessTTL
  <2>1. ASSUME NEW a \in granted PROVE a.exp <= lastAuth'[a.user] + AccessTTL
    <3>1. a.user \in UserIds /\ a.exp \in Int /\ a.exp <= lastAuth[a.user] + AccessTTL
      BY DEF IdentityTypes, AccessInv, Expiries
    <3> QED BY <1>0, <3>1, IdentityAssumption
  <2>2. CASE granted' \subseteq granted
    BY <2>1, <2>2
  <2>3. CASE SaveToken(p)
    <3>1. pc[p] = "saveToken"
      BY <2>3 DEF SaveToken
    <3>2. call[p].user \in UserIds /\ call[p].exp \in AccessTTL..(now + AccessTTL)
      BY <1>0, <3>1 DEF AtStatement
    <3>3. lastAuth'[call[p].user] = now
      BY <2>3, <3>2 DEF SaveToken, IdentityTypes
    <3>4. \/ granted' = granted
          \/ granted' = granted \cup {[user |-> call[p].user, exp |-> call[p].exp]}
      BY <2>3 DEF SaveToken
    <3> QED BY <1>0, <2>1, <3>2, <3>3, <3>4, IdentityAssumption
  <2>4. CASE RefreshSign(p)
    <3>1. pc[p] = "check" /\ ~ now > call[p].exp /\ lastAuth' = lastAuth
      BY <2>4 DEF RefreshSign, IsExpired, ReadRow
    <3>2. call[p].exp \in Int
      BY DEF IdentityTypes, CallRecords, Expiries
    <3>3. lastAuth'[call[p].user] = now
      BY <1>0, <3>1, <3>2 DEF AccessInv
    <3>4. granted' = granted \cup {[user |-> call[p].user, exp |-> now + AccessTTL]}
      BY <2>4 DEF RefreshSign, AccessExpiry
    <3> QED BY <1>0, <2>1, <3>3, <3>4, IdentityAssumption
  <2> QED BY <2>2, <2>3, <2>4, SharedSteps
<1> QED BY <1>1, <1>2, <1>3, <1>4 DEF AccessInv

-----------------------------------------------------------------------------
(* The invariant of the identity service.                                  *)

\* Time only ends sessions.
LEMMA InvariantOfTick ==
    ASSUME IInv, Tick
    PROVE  IInv'
<1> USE DEF IInv
<1>1. IdentityTypes' /\ StatementInv'
  BY TypesOfTick, StatementsOfTick
<1>2. /\ now \in Nat /\ now' = now + 1
      /\ UNCHANGED <<users, tokens, minted, pc, call, reply, known, granted, registered, ended>>
  BY DEF Tick, database, issued, IdentityTypes, Times
<1>3. OwnerInv' /\ TokenInv' /\ RefreshNeedsLiveSession'
  BY <1>2 DEF OwnerInv, FoundOwner, TokenInv, FreshToken, RefreshNeedsLiveSession, UserIds
<1>4. SessionInv'
  <2>1. \A row \in tokens : row.expires \in Int
    BY DEF IdentityTypes, Expiries
  <2>2. \A q \in Callers : call[q].exp \in Int
    BY DEF IdentityTypes, CallRecords, Expiries
  <2>3. ASSUME NEW q \in Callers PROVE SessionOf(q)'
    BY <1>2, <2>1, <2>2 DEF SessionInv, SessionOf
  <2> QED BY <2>3 DEF SessionInv
<1>5. AccessInv'
  <2>1. \A u \in UserIds : lastAuth'[u] = IF Authorised(u) THEN now' ELSE lastAuth[u]
    BY DEF Tick
  <2>2. \A row \in tokens : now' <= row.expires => lastAuth'[row.user] = now'
    BY <2>1 DEF Authorised, IdentityTypes
  <2>3. ASSUME NEW q \in Callers, pc[q] \in {"issue", "saveToken", "check"}
        PROVE  lastAuth'[call[q].user] = now'
    BY <2>1, <2>3 DEF Authorised, StatementInv, AtStatement
  <2>4. ASSUME NEW a \in granted PROVE a.exp <= lastAuth'[a.user] + AccessTTL
    <3>1. /\ a.user \in UserIds /\ a.exp \in Int /\ a.exp <= lastAuth[a.user] + AccessTTL
          /\ lastAuth[a.user] \in 0..now
      BY DEF IdentityTypes, AccessInv, Expiries
    <3> QED BY <1>2, <2>1, <3>1, IdentityAssumption
  <2> QED BY <1>2, <2>2, <2>3, <2>4 DEF AccessInv
<1> QED BY <1>1, <1>3, <1>4, <1>5

\* The invariant holds at the start.
LEMMA InvariantInit ==
    Init => IInv
<1>1. SUFFICES ASSUME Init PROVE IInv
  OBVIOUS
<1>2. Len(users) = 0 /\ UserIds = {} /\ users \in Seq([email : Emails, password : Passwords])
  BY <1>1 DEF Init, UserIds
<1>3. NoCall \in CallRecords /\ NoCall.user = NoId /\ NoCall.op = "none"
  BY IdentityAssumption DEF NoCall, Request, CallRecords, NoId, Expiries
<1>4. IdentityTypes
  <2>1. lastAuth \in [UserIds -> 0..now]
    BY <1>1, <1>2 DEF Init
  <2>2. pc \in [Callers -> PCs] /\ reply \in [Callers -> Codes \cup {"none"}]
    BY <1>1 DEF Init, PCs
  <2>3. call \in [Callers -> CallRecords] /\ \A p \in Callers : call[p].user \in UserIds \cup {NoId}
    BY <1>1, <1>3 DEF Init
  <2>4. now \in Times /\ minted \in 0..MaxTokens /\ faults \in 0..MaxFaults
    BY <1>1, IdentityAssumption DEF Init, Times
  <2>5. tokens = {} /\ known = {} /\ ended = {} /\ granted = {} /\ registered = {}
    BY <1>1 DEF Init
  <2> QED BY <1>2, <2>1, <2>2, <2>3, <2>4, <2>5 DEF IdentityTypes
<1>5. \A p \in Callers : pc[p] = "idle" /\ reply[p] = "none"
  BY <1>1 DEF Init
<1>6. StatementInv /\ RefreshNeedsLiveSession
  BY <1>5 DEF StatementInv, AtStatement, RefreshNeedsLiveSession
<1>7. OwnerInv /\ TokenInv /\ SessionInv /\ AccessInv
  BY <1>1, <1>2, <1>5
  DEF Init, OwnerInv, FoundOwner, TokenInv, FreshToken, SessionInv, SessionOf, AccessInv
<1> QED BY <1>4, <1>6, <1>7 DEF IInv

\* It is inductive.
LEMMA InvariantNext ==
    IInv /\ [Next]_vars => IInv'
<1>1. CASE UNCHANGED vars
  BY <1>1, Zenon
  DEF vars, IInv, IdentityTypes, StatementInv, AtStatement, OwnerInv, FoundOwner, TokenInv,
      FreshToken, SessionInv, SessionOf, AccessInv, RefreshNeedsLiveSession, UserIds
<1>2. ASSUME IInv, NEW p \in Callers, CallKinds(p) PROVE IInv'
  <2>1. IdentityTypes' /\ StatementInv'
    BY <1>2, TypesOfCalls, StatementsOfCalls DEF IInv
  <2>2. OwnerInv'
    BY <1>2, OwnersOfQuietSteps, OwnersOfSaveUser DEF IInv
  <2>3. TokenInv'
    BY <1>2, TokensOfQuietSteps, TokensOfIssue, TokensOfSave DEF IInv
  <2>4. SessionInv' /\ AccessInv' /\ RefreshNeedsLiveSession'
    BY <1>2, SessionsOfCalls, AccessOfCalls, RefreshOfCalls
  <2> QED BY <2>1, <2>2, <2>3, <2>4 DEF IInv
<1>3. IInv /\ Next => IInv'
  BY <1>2, StepKinds, InvariantOfTick, Zenon DEF IInv
<1> QED BY <1>1, <1>3

-----------------------------------------------------------------------------
(* The gateway.                                                            *)

\* What EdgeTypeOK says of the gateway.
GatewayInv ==
    /\ gpc \in [Callers -> {"idle", "route", "backend"}]
    /\ \A p \in Callers : gpc[p] # "idle" /\ req[p].user = NoUser => Gw!IsPublicPath(req[p].path)
    /\ req \in [Callers -> [path : Paths \cup {<<>>}, user : UserIds \cup {NoUser}]]

\* The gateway takes no step of the identity service's own.
LEMMA EdgeStepsAreSteps ==
    [EdgeNext]_edgeVars => [Next]_vars
<1>1. CASE UNCHANGED edgeVars
  BY <1>1 DEF edgeVars
<1>2. CASE EdgeTick
  BY <1>2, Zenon DEF EdgeTick, Next
<1>3. ASSUME NEW p \in Callers, IdentityStep(p)
      PROVE  [Next]_vars
  BY <1>3, Zenon DEF IdentityStep, Next
<1>4. ASSUME NEW p \in Callers, Validate(p)
      PROVE  [Next]_vars
  <2>1. Finish(p) \/ \E c \in Requests \cup Validations : Begin(p, c)
    BY <1>4 DEF Validate
  <2> QED BY <2>1, Zenon DEF Next
<1>5. ASSUME NEW p \in Callers, ForwardToIdentity(p)
      PROVE  [Next]_vars
  <2>1. \E c \in Requests \cup Validations : Begin(p, c)
    BY <1>5 DEF ForwardToIdentity
  <2> QED BY <2>1, Zenon DEF Next
<1>6. ASSUME NEW p \in Callers, AnswerOfIdentity(p)
      PROVE  [Next]_vars
  BY <1>6, Zenon DEF AnswerOfIdentity, Next
<1>7. ASSUME NEW p \in Callers,
             \/ GatewayStep(p) \/ ForwardToWallet(p) \/ ForwardToTransaction(p) \/ ForwardToQuery(p)
             \/ AnswerOfWallet(p) \/ AnswerOfTransaction(p) \/ AnswerOfQuery(p)
      PROVE  [Next]_vars
  BY <1>7, Zenon DEF GatewayStep, ForwardToWallet, ForwardToTransaction, ForwardToQuery,
     AnswerOfWallet, AnswerOfTransaction, AnswerOfQuery, AnswerOf
<1> QED BY <1>1, <1>2, <1>3, <1>4, <1>5, <1>6, <1>7, Zenon DEF EdgeNext

\* What happens to the requests in a step: one is let in, passed on or
\* answered, or none changes.
LEMMA GatewaySteps ==
    ASSUME EdgeNext
    PROVE  \/ UNCHANGED gatewayVars
           \/ \E p \in Callers :
                \/ Gw!Authenticate(p, granted) /\ UNCHANGED vars
                \/ Gw!Send(p)
                \/ gpc[p] = "route" /\ gpc' = [gpc EXCEPT ![p] = "backend"] /\ UNCHANGED req
<1>1. SUFFICES ASSUME NEW p \in Callers,
                      \/ GatewayStep(p) \/ ForwardToIdentity(p) \/ AnswerOfIdentity(p)
                      \/ ForwardToWallet(p) \/ ForwardToTransaction(p) \/ ForwardToQuery(p)
                      \/ AnswerOfWallet(p) \/ AnswerOfTransaction(p) \/ AnswerOfQuery(p)
               PROVE  \/ Gw!Authenticate(p, granted) /\ UNCHANGED vars
                      \/ Gw!Send(p)
                      \/ gpc[p] = "route" /\ gpc' = [gpc EXCEPT ![p] = "backend"] /\ UNCHANGED req
  BY Zenon DEF EdgeNext, EdgeTick, IdentityStep, Validate
<1> QED
  BY <1>1, Zenon DEF GatewayStep, ForwardToIdentity, AnswerOfIdentity, ForwardToWallet,
     ForwardToTransaction, ForwardToQuery, AnswerOfWallet, AnswerOfTransaction, AnswerOfQuery,
     AnswerOf, Gw!NotFound, Gw!BadRequest, Gw!Forward, Gw!Respond

\* Users are never deleted.
LEMMA UsersStay ==
    ASSUME IInv, [Next]_vars
    PROVE  UserIds \subseteq UserIds'
<1>1. CASE UNCHANGED vars
  BY <1>1 DEF vars, UserIds
<1>2. CASE Tick
  BY <1>2 DEF Tick, database, UserIds
<1>3. CASE \E p \in Callers : CallKinds(p)
  BY <1>3, OthersStay DEF IInv
<1> QED BY <1>1, <1>2, <1>3, StepKinds DEF IInv

\* A request that is let in is on a public path or has a user.
LEMMA Admissions ==
    ASSUME IInv, GatewayInv, NEW p \in Callers, Gw!Authenticate(p, granted)
    PROVE  \E path \in Paths, user \in UserIds \cup {NoUser} :
            /\ Gw!Enter(p, path, user)
            /\ \/ Gw!IsPublicPath(path) /\ user = NoUser
               \/ \E a \in granted : ~ Gw!IsPublicPath(path) /\ user = a.user /\ now < a.exp
<1>1. \A a \in granted : a.user \in UserIds \cup {NoUser}
  BY DEF IInv, IdentityTypes
<1>2. \A a : Gw!Parses(a) => now < a.exp
  BY DEF Gw!Parses
<1>3. NoUser \in UserIds \cup {NoUser}
  OBVIOUS
<1> QED BY <1>1, <1>2, <1>3, Zenon DEF Gw!Authenticate

\* GatewayInv is inductive.
LEMMA GatewayInvNext ==
    IInv /\ GatewayInv /\ [EdgeNext]_edgeVars => GatewayInv'
<1>1. SUFFICES ASSUME IInv, GatewayInv, [EdgeNext]_edgeVars PROVE GatewayInv'
  OBVIOUS
<1>2. UserIds \subseteq UserIds'
  BY <1>1, EdgeStepsAreSteps, UsersStay
<1>3. [path : Paths \cup {<<>>}, user : UserIds \cup {NoUser}]
        \subseteq [path : Paths \cup {<<>>}, user : UserIds' \cup {NoUser}]
  BY <1>2
<1>4. CASE UNCHANGED gatewayVars
  BY <1>1, <1>3, <1>4 DEF gatewayVars, GatewayInv
<1>5. ASSUME NEW p \in Callers, Gw!Authenticate(p, granted) PROVE GatewayInv'
  <2>1. PICK path \in Paths, user \in UserIds \cup {NoUser} :
            Gw!Enter(p, path, user) /\ (Gw!IsPublicPath(path) \/ user \in UserIds)
    BY <1>1, <1>5, Admissions DEF IInv, IdentityTypes
  <2>2. user = NoUser => Gw!IsPublicPath(path)
    BY <2>1, EdgeAssumption DEF UserIds, NoId
  <2> DEFINE e == [path |-> path, user |-> user]
  <2>3. /\ e \in [path : Paths \cup {<<>>}, user : UserIds' \cup {NoUser}]
        /\ e.path = path /\ e.user = user
    BY <1>2
  <2>4. gpc' = [gpc EXCEPT ![p] = "route"] /\ req' = [req EXCEPT ![p] = e]
    BY <2>1 DEF Gw!Enter
  <2> HIDE DEF e
  <2>5. gpc' \in [Callers -> {"idle", "route", "backend"}]
    BY <1>1, <2>4 DEF GatewayInv
  <2>6. req' \in [Callers -> [path : Paths \cup {<<>>}, user : UserIds' \cup {NoUser}]]
    BY <1>1, <1>3, <2>3, <2>4 DEF GatewayInv
  <2>7. ASSUME NEW q \in Callers, gpc'[q] # "idle", req'[q].user = NoUser
        PROVE  Gw!IsPublicPath(req'[q].path)
    <3>1. CASE q = p
      BY <1>1, <2>2, <2>3, <2>4, <2>7, <3>1 DEF GatewayInv
    <3>2. CASE q # p
      BY <1>1, <2>4, <2>7, <3>2 DEF GatewayInv
    <3> QED BY <3>1, <3>2
  <2> QED BY <2>5, <2>6, <2>7 DEF GatewayInv, Gw!IsPublicPath, Gw!HasPrefix
<1>6. ASSUME NEW p \in Callers, Gw!Send(p) PROVE GatewayInv'
  <2>1. Gw!NoRequest \in [path : Paths \cup {<<>>}, user : UserIds' \cup {NoUser}]
    BY DEF Gw!NoRequest
  <2>2. gpc' = [gpc EXCEPT ![p] = "idle"] /\ req' = [req EXCEPT ![p] = Gw!NoRequest]
    BY <1>6 DEF Gw!Send
  <2>3. req' \in [Callers -> [path : Paths \cup {<<>>}, user : UserIds' \cup {NoUser}]]
    BY <1>1, <1>3, <2>1, <2>2 DEF GatewayInv
  <2>4. gpc' \in [Callers -> {"idle", "route", "backend"}]
    BY <1>1, <2>2 DEF GatewayInv
  <2>5. \A q \in Callers : gpc'[q] # "idle" => gpc[q] # "idle" /\ req'[q] = req[q]
    BY <1>1, <2>2 DEF GatewayInv
  <2> QED BY <1>1, <2>3, <2>4, <2>5 DEF GatewayInv, Gw!IsPublicPath, Gw!HasPrefix
<1>7. ASSUME NEW p \in Callers,
             gpc[p] = "route" /\ gpc' = [gpc EXCEPT ![p] = "backend"] /\ UNCHANGED req
      PROVE  GatewayInv'
  BY <1>1, <1>3, <1>7 DEF GatewayInv, Gw!IsPublicPath, Gw!HasPrefix
<1>8. UNCHANGED edgeVars => UNCHANGED gatewayVars
  BY DEF edgeVars
<1> QED BY <1>1, <1>4, <1>5, <1>6, <1>7, <1>8, GatewaySteps, Zenon

\* The invariants of both hold in every reachable state.
LEMMA EdgeInvariant ==
    EdgeSpec => [](IInv /\ GatewayInv)
<1>1. EdgeInit => IInv /\ GatewayInv
  <2>1. EdgeInit => GatewayInv
    BY DEF EdgeInit, Gw!GInit, Gw!NoRequest, GatewayInv
  <2> QED BY <2>1, InvariantInit DEF EdgeInit
<1>2. IInv /\ GatewayInv /\ [EdgeNext]_edgeVars => (IInv /\ GatewayInv)'
  BY EdgeStepsAreSteps, InvariantNext, GatewayInvNext
<1> QED BY <1>1, <1>2, PTL DEF EdgeSpec

-----------------------------------------------------------------------------
(* The theorems.                                                           *)

\* However registrations, logins, refreshes, logouts and failures of the
\* database interleave, the tables, the calls and the requests have their
\* types, and only a request on a public path has no user.
THEOREM EdgeTypes ==
    EdgeSpec => []EdgeTypeOK
<1>1. IInv /\ GatewayInv => EdgeTypeOK
  <2>1. SUFFICES ASSUME IInv, GatewayInv PROVE TypeOK
    BY DEF EdgeTypeOK, GatewayInv
  <2>2. IdentityTypes
    BY <2>1 DEF IInv
  <2>3. \A p \in Callers :
            /\ call[p].op \in Ops \cup {"none"} /\ call[p].email \in Emails \cup {Missing}
            /\ call[p].password \in Passwords \cup {Missing} /\ call[p].token \in Tokens \cup {NoId}
            /\ call[p].user \in UserIds \cup {NoId} /\ call[p].exp \in Expiries
            /\ call[p].live \in BOOLEAN
    BY <2>2 DEF IdentityTypes, CallRecords
  <2>4. known \subseteq Tokens /\ ended \subseteq Tokens
    BY <2>2, IdentityAssumption DEF IdentityTypes, Tokens
  <2>5. lastAuth \in [UserIds -> Times]
    <3>1. 0..now \subseteq Times
      BY <2>2, IdentityAssumption DEF IdentityTypes, Times
    <3> QED BY <2>2, <3>1 DEF IdentityTypes
  <2> QED BY <2>2, <2>3, <2>4, <2>5, Zenon DEF TypeOK, IdentityTypes
<1> QED BY <1>1, EdgeInvariant, PTL

\* An address belongs to one user, whose it was said to be, and a Login finds
\* that user: the UNIQUE constraint decides between registrations that have
\* both found the address free.
THEOREM OneOwner ==
    EdgeSpec => []OneOwnerPerEmail
<1>1. IInv /\ GatewayInv => OneOwnerPerEmail
  <2>1. SUFFICES ASSUME IInv PROVE OneOwnerPerEmail
    OBVIOUS
  <2>2. \A r \in registered : r.user \in UserIds
    BY <2>1 DEF IInv, IdentityTypes
  <2> QED BY <2>1, <2>2 DEF IInv, OwnerInv, FoundOwner, OneOwnerPerEmail
<1> QED BY <1>1, EdgeInvariant, PTL

\* RefreshToken succeeds only for a session that was live when the call
\* began, though the row is read, and its expiry compared, later.
THEOREM RefreshNeedsSession ==
    EdgeSpec => []RefreshNeedsLiveSession
<1>1. IInv /\ GatewayInv => RefreshNeedsLiveSession
  BY DEF IInv
<1> QED BY <1>1, EdgeInvariant, PTL

\* The routes of the wallet, transaction and query services are not public.
LEMMA OtherRoutesAreNotPublic ==
    ASSUME NEW r \in Gw!Routes \ Gw!IdentityRoutes
    PROVE  ~ Gw!IsPublicPath(r.path)
<1> DEFINE Others == { <<"v1", "wallets">>, <<"v1", "wallets", "id", "balance">>,
                       <<"v1", "wallets", "id", "deposit">>, <<"v1", "wallets", "id", "withdraw">>,
                       <<"v1", "transactions", "transfer">>, <<"v1", "transactions", "id">>,
                       <<"v1", "query", "wallets", "id", "balance">>,
                       <<"v1", "query", "wallets", "id", "statement">>,
                       <<"v1", "query", "users", "id", "stats">> }
<1>1. /\ Len(r.path) \in Nat
      /\ r.path[1] = "v1" /\ r.path[2] \in {"wallets", "transactions", "query"}
  <2>1. r.path \in Others
    BY DEF Gw!Routes, Gw!WalletRoutes, Gw!TransactionRoutes, Gw!QueryRoutes
  <2>2. \A s \in Others : /\ Len(s) \in Nat
                          /\ s[1] = "v1" /\ s[2] \in {"wallets", "transactions", "query"}
    OBVIOUS
  <2> QED BY <2>1, <2>2
<1>2. r.path[2] # "auth" /\ ~ Gw!HasPrefix(r.path[1], "healthz")
  BY <1>1 DEF Gw!HasPrefix, Gw!LongerThan
<1> QED BY <1>2 DEF Gw!IsPublicPath

\* The gateway lets a request in to the wallet, transaction and query
\* services only with an unexpired access token, which was signed when its
\* user had a session: less than AccessTTL ago.
THEOREM Admission ==
    EdgeSpec => AdmissionNeedsSession
<1> DEFINE Admitted(p) ==
        /\ gpc[p] = "idle" /\ gpc'[p] # "idle"
        /\ \E r \in Gw!Routes \ Gw!IdentityRoutes : r.path = req'[p].path
        => req'[p].user \in UserIds /\ now < lastAuth[req'[p].user] + AccessTTL
<1>1. ASSUME IInv, GatewayInv, [EdgeNext]_edgeVars, NEW p \in Callers
      PROVE  Admitted(p)
  <2>1. SUFFICES ASSUME gpc[p] = "idle", gpc'[p] # "idle",
                        NEW r \in Gw!Routes \ Gw!IdentityRoutes, r.path = req'[p].path
                 PROVE  req'[p].user \in UserIds /\ now < lastAuth[req'[p].user] + AccessTTL
    OBVIOUS
  <2>2. Gw!Authenticate(p, granted)
    <3>1. ~ UNCHANGED gatewayVars
      BY <2>1 DEF gatewayVars
    <3>2. EdgeNext
      BY <1>1, <3>1 DEF edgeVars
    <3>3. PICK q \in Callers :
            \/ Gw!Authenticate(q, granted)
            \/ Gw!Send(q)
            \/ gpc[q] = "route" /\ gpc' = [gpc EXCEPT ![q] = "backend"]
      BY <3>1, <3>2, GatewaySteps
    <3>4. CASE Gw!Authenticate(q, granted)
      <4>1. \E path, user : Gw!Enter(q, path, user)
        BY <1>1, <3>4, Admissions
      <4>2. q = p
        BY <1>1, <2>1, <4>1 DEF Gw!Enter, GatewayInv
      <4> QED BY <3>4, <4>2
    <3>5. CASE Gw!Send(q)
      BY <1>1, <2>1, <3>5 DEF Gw!Send, GatewayInv
    <3>6. CASE gpc[q] = "route" /\ gpc' = [gpc EXCEPT ![q] = "backend"]
      BY <1>1, <2>1, <3>6 DEF GatewayInv
    <3> QED BY <3>3, <3>4, <3>5, <3>6
  <2>3. PICK path \in Paths, user \in UserIds \cup {NoUser} :
            /\ Gw!Enter(p, path, user)
            /\ \/ Gw!IsPublicPath(path) /\ user = NoUser
               \/ \E a \in granted : ~ Gw!IsPublicPath(path) /\ user = a.user /\ now < a.exp
    BY <1>1, <2>2, Admissions
  <2>4. req'[p] = [path |-> path, user |-> user]
    BY <1>1, <2>3 DEF Gw!Enter, GatewayInv
  <2>5. ~ Gw!IsPublicPath(path)
    BY <2>1, <2>4, OtherRoutesAreNotPublic
  <2>6. PICK a \in granted : user = a.user /\ now < a.exp
    BY <2>3, <2>5
  <2>7. /\ a.user \in UserIds /\ a.exp <= lastAuth[a.user] + AccessTTL
        /\ a.exp \in Int /\ now \in Int /\ lastAuth[a.user] \in Int
    BY <1>1 DEF IInv, IdentityTypes, AccessInv, Expiries, Times
  <2> QED BY <2>4, <2>6, <2>7, IdentityAssumption
<1>2. IInv /\ GatewayInv /\ [EdgeNext]_edgeVars =>
        [\A p \in Callers : Admitted(p)]_edgeVars
  BY <1>1
<1> QED BY <1>2, EdgeInvariant, PTL DEF EdgeSpec, AdmissionNeedsSession

=============================================================================
