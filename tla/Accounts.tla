------------------------------- MODULE Accounts -------------------------------
(***************************************************************************)
(* Accounts and sessions: the auth service (service/auth.go over           *)
(* repository/db/user.go and repository/dbRedis/sesssionRedis.go), the     *)
(* handlers and the session middleware of the gateway (handler/auth.go,    *)
(* handler/middleware.go), and the browsers that keep the cookies.         *)
(*                                                                         *)
(* Registration writes three stores one after the other: the users table,  *)
(* the profile service and the search index.  A session lives in Redis     *)
(* until it is deleted or sessionTTL has passed.  The two cookies of a     *)
(* browser live for CookieLife, counted from a later moment: when the      *)
(* handler sets them.  The CSRF token of a session is named by its session *)
(* id.                                                                     *)
(***************************************************************************)
EXTENDS Errors, Integers, FiniteSets

CONSTANTS
    Browsers,
    Emails,
    Sids,       \* bound: the session ids that are ever generated
    MaxUsers,   \* bound: the ids the identity column hands out
    Ops,        \* the routes that are asked for
    Requests,   \* the requests that may be in progress at the same time
    MaxSent,    \* bound: the requests that are ever sent
    Hours,      \* how far time jumps when it passes
    Faults,     \* whether a call, or the way of an answer, may fail
    NoSid

ASSUME NoSidAssumption == NoSid \notin Sids
ASSUME MaxUsersAssumption == MaxUsers \in Nat
ASSUME MaxSentAssumption == MaxSent \in Nat
ASSUME HoursAssumption == Hours \in Nat \ {0}
ASSUME SomebodyAssumption == Browsers # {} /\ Emails # {}

VARIABLES
    debug,      \* config.Debug, read once when the gateway starts
    users,      \* the table users: email -> id, NoUser if there is no row
    nextUser,   \* the next value of its identity column
    profiles,   \* the users that have a row in profiles
    index,      \* the users that are in the search index
    live,       \* the sessions in Redis
    owner,      \* the user a session was made for, also after its end
    age,        \* the hours since a session was made, by the clock of Redis
    cookieAge,  \* the hours since the handler set its cookies, Unset before
    cookie,     \* the session cookie of a browser
    req,        \* the requests
    sent,       \* how many were sent
    fate,       \* history: how a session ended
    wait,       \* history: the hours from the making of a session to its cookies
    told        \* history: the answers to registrations, as <<email, code>>

stores == <<users, nextUser, profiles, index>>
redis  == <<live, owner, age, fate>>
dates  == <<cookieAge, wait>>
vars == <<debug, stores, redis, dates, cookie, req, sent, told>>

NoUser  == 0
UserIds == 1..MaxUsers

-------------------------------------------------------------------------------
(* Lifetimes, in hours. *)

(* Mutation: sessions end before the cookies do. *)
sessionTTLShort == 8

sessionTTL == 24

CookieLife == 10

Unset == -1

(* What these two lifetimes leave for the answer to a login. *)
Leeway == 14

(* Mutation: SET without EX. *)
ExpiredNever(a) == FALSE

(* Redis drops a key that was SET with EX sessionTTL. *)
Expired(a) == a >= sessionTTL

-------------------------------------------------------------------------------
(* Routes and requests. *)

(* What the router mounts: the routes of /auth, and the others by whether  *)
(* their method is safe and how often AuthMiddleware runs.  It runs once   *)
(* for every /api route, and once more for the routers of posts, comments, *)
(* friends, communities and stickers, which Use it again.                  *)
Routes == [register   |-> [safe |-> FALSE, passes |-> 1],
           login      |-> [safe |-> FALSE, passes |-> 1],
           logout     |-> [safe |-> FALSE, passes |-> 1],
           isloggedin |-> [safe |-> TRUE,  passes |-> 1],
           profile    |-> [safe |-> FALSE, passes |-> 1],
           chats      |-> [safe |-> TRUE,  passes |-> 1],
           friends    |-> [safe |-> FALSE, passes |-> 2]]

ASSUME OpsAssumption == Ops \subseteq DOMAIN Routes

ForbiddenPathsWithAuth  == {"register", "login"}
AllowedPathsWithOutAuth == {"register", "login", "isloggedin"}

Steps == {"idle", "auth", "handle", "email", "create", "profile", "index",
          "session", "cookie", "answer", "logout", "clear", "whoami", "role", "serve"}
Codes == {200, 400, 403, 404, 409, 500}
Fates == {"none", "deleted", "expired"}

Request ==
    [op : DOMAIN Routes, browser : Browsers, sid : Sids \cup {NoSid},
     token : Sids \cup {NoSid}, email : Emails, step : Steps,
     passes : 0..2, user : {NoUser} \cup UserIds, made : Sids \cup {NoSid},
     late : BOOLEAN]

Unused == [op |-> "chats", browser |-> CHOOSE b \in Browsers : TRUE, sid |-> NoSid,
           token |-> NoSid, email |-> CHOOSE e \in Emails : TRUE,
           step |-> "idle", passes |-> 0, user |-> NoUser, made |-> NoSid,
           late |-> FALSE]

Idle(r) == req[r].step = "idle"
Goto(r, step) == req' = [req EXCEPT ![r].step = step] /\ UNCHANGED told

(* A request is over; that a registration was done, or failed for reasons  *)
(* of the server, is remembered.                                           *)
Answer(r, code) ==
    /\ req' = [req EXCEPT ![r] = Unused]
    /\ told' = IF req[r].op = "register" /\ code \in {200, 500}
                 THEN told \cup {<<req[r].email, code>>} ELSE told

(* sendJSONError: the answer to an error of the gateway itself, *)
Reject(r, err) == Answer(r, MapErrorToHTTP(err))

(* and to one of the auth service, through its wrapper in grpc/auth.go.    *)
Refuse(r, err) == Answer(r, GatewayCode(err))

(* The first step of a handler. *)
FirstStep(op) ==
    CASE op \in {"register", "login"} -> "handle"
      [] op = "logout"                -> "logout"
      [] op = "isloggedin"            -> "whoami"
      [] OTHER                        -> "serve"

(* A browser sends a request with the cookies it has.  One that changes    *)
(* something as a user may carry any token that was ever handed out, or    *)
(* none: a page keeps the token of the login it was opened under.          *)
Send(r, b, op, email, token) ==
    /\ Idle(r)
    /\ sent < MaxSent
    /\ sent' = sent + 1
    /\ req' = [req EXCEPT ![r] =
                 [op |-> op, browser |-> b, sid |-> cookie[b], token |-> token,
                  email |-> email, step |-> "auth",
                  passes |-> Routes[op].passes, user |-> NoUser, made |-> NoSid,
                  late |-> cookie[b] # NoSid /\ fate[cookie[b]] # "none"]]
    /\ UNCHANGED <<debug, stores, redis, dates, cookie, told>>

Tokens(op) ==
    IF Routes[op].safe \/ op \in ForbiddenPathsWithAuth THEN {NoSid}
    ELSE {s \in Sids : owner[s] # NoUser} \cup {NoSid}

-------------------------------------------------------------------------------
(* The middleware. *)

NoSession(err) == [err |-> err, user |-> NoUser]

(* GET in Redis: what it may result in.  An error of Redis is not a domain *)
(* error.                                                                  *)
GetSessionBySessionID(sid) ==
    {IF sid \in live THEN [err |-> Ok, user |-> owner[sid]] ELSE NoSession("ErrNotFound")}
      \cup {NoSession("redis") : f \in {Faults} \ {FALSE}}

(* IsLoggedIn of the auth service hands it on, its wrapper as a status. *)
AuthServiceIsLoggedIn(sid) == GetSessionBySessionID(sid)
GrpcIsLoggedIn(sid) ==
    {[s EXCEPT !.err = IF @ = Ok THEN Ok ELSE ToGrpcError(@)] : s \in AuthServiceIsLoggedIn(sid)}

(* IsLoggedIn of the gateway: no cookie is no session. *)
IsLoggedIn(r) ==
    IF req[r].sid = NoSid THEN {NoSession("ErrNotFound")}
    ELSE {[s EXCEPT !.err = IF @ = Ok THEN Ok ELSE FromGrpcError(@)] :
             s \in GrpcIsLoggedIn(req[r].sid)}

(* Mutation: a request without a token passes. *)
CheckTokenIfGiven(r) == debug \/ Routes[req[r].op].safe \/ req[r].token \in {req[r].sid, NoSid}

(* Not in debug mode. *)
CheckToken(r) == debug \/ Routes[req[r].op].safe \/ req[r].token = req[r].sid

(* Only ErrNotFound means that nobody is logged in. *)
AuthMiddleware(r) ==
    LET op == req[r].op
        done == req[r].passes = 1
    IN  /\ req[r].step = "auth"
        /\ \E s \in IsLoggedIn(r) :
              \/ s.err \notin {Ok, "ErrNotFound"} /\ Answer(r, 500)
              \/ /\ s.err = "ErrNotFound" /\ op \in AllowedPathsWithOutAuth
                 /\ Goto(r, FirstStep(op))
              \/ s.err = "ErrNotFound" /\ op \notin AllowedPathsWithOutAuth /\ Answer(r, 403)
              \/ /\ s.err = Ok /\ (op \in ForbiddenPathsWithAuth \/ ~CheckToken(r))
                 /\ Answer(r, 403)
              \/ /\ s.err = Ok /\ op \notin ForbiddenPathsWithAuth /\ CheckToken(r)
                 /\ req' = [req EXCEPT ![r].user = s.user, ![r].passes = @ - 1,
                                 ![r].step = IF done THEN FirstStep(op) ELSE "auth"]
                 /\ UNCHANGED told
        /\ UNCHANGED <<stores, redis, dates, cookie>>

(* Any other handler: it acts for the user the middleware has found. *)
Serve(r) ==
    /\ req[r].step = "serve"
    /\ Answer(r, 200)
    /\ UNCHANGED <<stores, redis, dates, cookie>>

-------------------------------------------------------------------------------
(* Register and Login. *)

(* What else is in a body is left open until it is read.  Both handlers    *)
(* begin with DecodeJSONBody.                                              *)
DecodeJSONBody(r) == Reject(r, "ErrInvalidParams") \/ Goto(r, "email")

RegisterHandler(r) ==
    /\ req[r].step = "handle" /\ req[r].op = "register"
    /\ DecodeJSONBody(r)
    /\ UNCHANGED <<stores, redis, dates, cookie>>

LoginHandler(r) ==
    /\ req[r].step = "handle" /\ req[r].op = "login"
    /\ DecodeJSONBody(r)
    /\ UNCHANGED <<stores, redis, dates, cookie>>

GetUserByEmail(email) == users[email]

(* Register: what the validator refuses, an email that is taken, then two  *)
(* passwords that differ.                                                  *)
Register(r) ==
    LET known == GetUserByEmail(req[r].email) # NoUser
    IN  /\ req[r].step = "email" /\ req[r].op = "register"
        /\ \/ Refuse(r, "ErrInvalidInput")
           \/ known /\ Refuse(r, "ErrAlreadyExists")
           \/ ~known /\ Goto(r, "create")
        /\ UNCHANGED <<stores, redis, dates, cookie>>

(* A write that was applied goes on, or counts as failed when its answer   *)
(* was lost.                                                               *)
Continue(r, next) == \/ req' = [req EXCEPT ![r] = next] /\ UNCHANGED told
                     \/ Faults /\ Refuse(r, "ErrDB")

(* INSERT INTO users.  The id is taken also if the email is there already  *)
(* and the INSERT fails on the unique constraint.                          *)
CreateUser(r) ==
    LET id == nextUser
    IN  /\ req[r].step = "create"
        /\ id \in UserIds
        /\ nextUser' = id + 1
        /\ \/ /\ users[req[r].email] # NoUser
              /\ Refuse(r, "ErrDB") /\ UNCHANGED users
           \/ /\ users[req[r].email] = NoUser
              /\ users' = [users EXCEPT ![req[r].email] = id]
              /\ Continue(r, [req[r] EXCEPT !.step = "profile", !.user = id])
        /\ UNCHANGED <<profiles, index, redis, dates, cookie>>

(* Mutation: profile.UserID is not set. *)
CreateProfileUnnamed(r) ==
    /\ req[r].step = "profile"
    /\ profiles' = profiles \cup {NoUser}
    /\ Continue(r, [req[r] EXCEPT !.step = "index"])
    /\ UNCHANGED <<users, nextUser, index, redis, dates, cookie>>

(* CreateProfile of the profile service. *)
CreateProfile(r) ==
    /\ req[r].step = "profile"
    /\ profiles' = profiles \cup {req[r].user}
    /\ Continue(r, [req[r] EXCEPT !.step = "index"])
    /\ UNCHANGED <<users, nextUser, index, redis, dates, cookie>>

(* Mutation: the error of the index is only logged. *)
IndexProfileLogged(r) ==
    /\ req[r].step = "index"
    /\ index' \in {index, index \cup {req[r].user}}
    /\ Goto(r, "session")
    /\ UNCHANGED <<users, nextUser, profiles, redis, dates, cookie>>

(* CreateProfile of the search index. *)
IndexProfile(r) ==
    /\ req[r].step = "index"
    /\ index' = index \cup {req[r].user}
    /\ Continue(r, [req[r] EXCEPT !.step = "session"])
    /\ UNCHANGED <<users, nextUser, profiles, redis, dates, cookie>>

(* Login: the user by email, and his password. *)
Login(r) ==
    LET u == GetUserByEmail(req[r].email)
    IN  /\ req[r].step = "email" /\ req[r].op = "login"
        /\ \/ u = NoUser /\ Refuse(r, "ErrNotFound")
           \/ u # NoUser /\ Refuse(r, "ErrInvalidInput")
           \/ /\ u # NoUser
              /\ req' = [req EXCEPT ![r].step = "session", ![r].user = u]
              /\ UNCHANGED told
        /\ UNCHANGED <<stores, redis, dates, cookie>>

(* Two random tokens: an id that was never used, no matter which. *)
generateRandomToken ==
    LET unused == {s \in Sids : owner[s] = NoUser}
    IN  {s \in unused : s = CHOOSE t \in unused : TRUE}

(* AddSession: SET in Redis, *)
SetSession(s, u) == live' = live \cup {s} /\ owner' = [owner EXCEPT ![s] = u]

(* in the auth service, for which every error is ErrDB. *)
AddSession(r) ==
    /\ req[r].step = "session"
    /\ \E s \in generateRandomToken :
          /\ SetSession(s, req[r].user)
          /\ Continue(r, [req[r] EXCEPT !.step = "cookie", !.made = s])
    /\ UNCHANGED <<stores, dates, cookie, age, fate>>

(* The handler sets both cookies, to expire CookieLife from now on. *)
SetCookies(r) ==
    LET s == req[r].made
    IN  /\ req[r].step = "cookie"
        /\ cookieAge' = [cookieAge EXCEPT ![s] = 0]
        /\ wait' = [wait EXCEPT ![s] = age[s]]
        /\ Goto(r, "answer")
        /\ UNCHANGED <<stores, redis, cookie>>

(* The answer reaches the browser, or is lost; a cookie that has expired   *)
(* on the way takes back the one before.                                   *)
KeepCookies(r) ==
    /\ req[r].step = "answer"
    /\ Answer(r, 200)
    /\ \/ cookie' = [cookie EXCEPT ![req[r].browser] =
                       IF cookieAge[req[r].made] >= CookieLife THEN NoSid ELSE req[r].made]
       \/ Faults /\ UNCHANGED cookie
    /\ UNCHANGED <<stores, redis, dates>>

-------------------------------------------------------------------------------
(* Logout and the question who is logged in. *)

(* Mutation: another key than the one AddSession wrote is deleted. *)
DeleteSessionElsewhere(sid) ==
    fate' = [fate EXCEPT ![sid] = IF @ = "none" THEN "deleted" ELSE @] /\ UNCHANGED live

(* DEL in Redis; a session that is not there is no error. *)
DeleteSession(sid) ==
    /\ live' = live \ {sid}
    /\ fate' = [fate EXCEPT ![sid] = IF @ = "none" THEN "deleted" ELSE @]

(* Logout of the auth service. *)
Logout(r) ==
    /\ req[r].step = "logout"
    /\ DeleteSession(req[r].sid)
    /\ Continue(r, [req[r] EXCEPT !.step = "clear"])
    /\ UNCHANGED <<stores, dates, owner, age, cookie>>

(* The answer takes back both cookies of the browser, whichever they are   *)
(* by now.                                                                 *)
LogoutHandler(r) ==
    /\ req[r].step = "clear"
    /\ Answer(r, 200)
    /\ \/ cookie' = [cookie EXCEPT ![req[r].browser] = NoSid]
       \/ Faults /\ UNCHANGED cookie
    /\ UNCHANGED <<stores, redis, dates>>

(* IsLoggedInHandler looks the session up again, behind the middleware,    *)
IsLoggedInHandler(r) ==
    /\ req[r].step = "whoami"
    /\ \E s \in IsLoggedIn(r) :
          \/ s.err # Ok /\ Reject(r, s.err)
          \/ /\ s.err = Ok /\ UNCHANGED told
             /\ req' = [req EXCEPT ![r].step = "role", ![r].user = s.user]
    /\ UNCHANGED <<stores, redis, dates, cookie>>

(* and asks for the role of its user.  A user without a row is ErrDB. *)
GetUserByID(user) == {e \in Emails : users[e] = user}

IsUserExists(user) == GetUserByID(user) # {}

GetUserRole(r) ==
    /\ req[r].step = "role"
    /\ \/ GetUserByID(req[r].user) # {} /\ Answer(r, 200)
       \/ GetUserByID(req[r].user) = {} /\ Refuse(r, "ErrDB")
    /\ UNCHANGED <<stores, redis, dates, cookie>>

-------------------------------------------------------------------------------
(* Any call may fail before it has an effect: 500, from whichever layer. *)
Fail(r) ==
    /\ Faults
    /\ req[r].step \notin {"idle", "auth", "handle", "serve", "cookie", "answer",
                        "clear", "whoami"}
    /\ Refuse(r, "ErrDB")
    /\ UNCHANGED <<stores, redis, dates, cookie>>

(* Time passes: Redis drops sessions by its clock, and browsers drop       *)
(* cookies by the date in them.                                            *)
Tick ==
    LET older  == [s \in Sids |-> IF owner[s] = NoUser THEN 0 ELSE age[s] + Hours]
        staler == [s \in Sids |-> IF cookieAge[s] = Unset THEN Unset ELSE cookieAge[s] + Hours]
        dead   == {s \in live : Expired(older[s])}
    IN  /\ \E s \in Sids : \/ owner[s] # NoUser /\ age[s] < sessionTTL
                           \/ cookieAge[s] # Unset /\ cookieAge[s] < CookieLife
        /\ live' = live \ dead
        /\ fate' = [s \in Sids |-> IF s \in dead THEN "expired" ELSE fate[s]]
        /\ age' = [s \in Sids |-> IF older[s] > sessionTTL THEN sessionTTL ELSE older[s]]
        /\ cookieAge' = [s \in Sids |-> IF staler[s] > CookieLife THEN CookieLife ELSE staler[s]]
        /\ cookie' = [b \in Browsers |->
                        IF cookie[b] # NoSid /\ cookieAge'[cookie[b]] >= CookieLife
                          THEN NoSid ELSE cookie[b]]
        /\ UNCHANGED <<debug, stores, owner, wait, req, sent, told>>

Init ==
    /\ debug \in BOOLEAN
    /\ users = [e \in Emails |-> NoUser]
    /\ nextUser = 1
    /\ profiles = {} /\ index = {} /\ live = {} /\ told = {}
    /\ owner = [s \in Sids |-> NoUser]
    /\ age = [s \in Sids |-> 0]
    /\ cookieAge = [s \in Sids |-> Unset]
    /\ wait = [s \in Sids |-> 0]
    /\ fate = [s \in Sids |-> "none"]
    /\ cookie = [b \in Browsers |-> NoSid]
    /\ req = [r \in Requests |-> Unused]
    /\ sent = 0

Step(r) ==
    \/ AuthMiddleware(r) \/ Serve(r) \/ RegisterHandler(r) \/ LoginHandler(r)
    \/ Register(r) \/ CreateUser(r) \/ CreateProfile(r) \/ IndexProfile(r)
    \/ Login(r) \/ AddSession(r) \/ SetCookies(r) \/ KeepCookies(r)
    \/ Logout(r) \/ LogoutHandler(r)
    \/ IsLoggedInHandler(r) \/ GetUserRole(r)

(* Only register and login name an email. *)
Named(op) == IF op \in {"register", "login"} THEN Emails ELSE {Unused.email}

Next ==
    \/ \E r \in Requests :
          \/ \E b \in Browsers, op \in Ops : \E email \in Named(op), token \in Tokens(op) :
                Send(r, b, op, email, token)
          \/ (Step(r) \/ Fail(r)) /\ UNCHANGED <<debug, sent>>
    \/ Tick

Spec == Init /\ [][Next]_vars

(* Time passes. *)
FairSpec == Spec /\ WF_vars(Tick)

-------------------------------------------------------------------------------
(* Properties. *)

(* Accounts, sessions, cookies and requests have the types the code gives  *)
(* them; an id of a user is never given to two emails.                     *)
TypeOK ==
    /\ debug \in BOOLEAN
    /\ users \in [Emails -> {NoUser} \cup UserIds]
    /\ nextUser \in 1..(MaxUsers + 1)
    /\ profiles \subseteq UserIds /\ index \subseteq UserIds
    /\ live \subseteq Sids
    /\ owner \in [Sids -> {NoUser} \cup UserIds]
    /\ age \in [Sids -> 0..sessionTTL] /\ wait \in [Sids -> 0..sessionTTL]
    /\ cookieAge \in [Sids -> {Unset} \cup 0..CookieLife]
    /\ cookie \in [Browsers -> Sids \cup {NoSid}]
    /\ fate \in [Sids -> Fates]
    /\ told \subseteq Emails \X Codes
    /\ req \in [Requests -> Request]
    /\ sent \in 0..MaxSent

(* The user a registration is busy with. *)
InProgress(u) == \E r \in Requests : /\ req[r].op = "register" /\ req[r].user = u
                                     /\ req[r].step \in {"profile", "index"}

(* Registration over three stores tells the truth.  Whoever was told that  *)
(* he is registered has a user, a profile and an entry in the search       *)
(* index; and an account that lacks one of them belongs to a registration  *)
(* that is still running or that was answered with 500, also when two      *)
(* registrations of one email overlap.                                     *)
RegistrationsAreTrue ==
    \A e \in Emails :
       LET u == users[e]
       IN  /\ <<e, 200>> \in told => u \in profiles \cap index
           /\ u # NoUser /\ u \notin profiles \cap index =>
                 InProgress(u) \/ <<e, 500>> \in told

(* Whoever a handler acts for owns the session of the request, a request   *)
(* that changes something carries the token of that session, unless the    *)
(* gateway runs in debug mode, and a login hands out a session of the      *)
(* account that it named.                                                  *)
ServedAsOwner ==
    \A r \in Requests :
       /\ req[r].step \in {"serve", "logout"} =>
             /\ req[r].user # NoUser /\ req[r].user = owner[req[r].sid]
             /\ IsUserExists(req[r].user)
             /\ debug \/ Routes[req[r].op].safe \/ req[r].token = req[r].sid
       /\ req[r].step \in {"cookie", "answer"} =>
             users[req[r].email] = owner[req[r].made] /\ owner[req[r].made] # NoUser

(* A logout is final: a request sent with the cookie of a session that was *)
(* logged out or has expired is not served, also when the browser kept     *)
(* the cookie because the answer to the logout was lost.                   *)
LogoutIsFinal ==
    \A r \in Requests :
       req[r].late => req[r].step \notin {"serve", "logout", "clear", "role"}

(* The session in Redis outlives the cookie although its time begins       *)
(* earlier: a browser holds the cookie of an expired session, and its user *)
(* believes to be logged in, only if the login took so long that the       *)
(* cookies were set Leeway after the session was made.                     *)
SessionOutlivesCookie ==
    \A b \in Browsers :
       cookie[b] # NoSid /\ fate[cookie[b]] = "expired" => wait[cookie[b]] >= Leeway

(* Every session ends, also one whose cookie never reached a browser. *)
SessionsEnd == \A s \in Sids : s \in live ~> s \notin live

(* Handlers act for the owner of a session and for nobody after its end. *)
OnlyOwnersServed == TypeOK /\ ServedAsOwner /\ LogoutIsFinal

-------------------------------------------------------------------------------
(* The inductive invariant (see AccountsProofs). *)

(* An id of a user is that of one email, and below the next one. *)
IdsAreOnce ==
    /\ \A e \in Emails : users[e] < nextUser
    /\ \A e, f \in Emails : users[e] # NoUser /\ users[e] = users[f] => e = f

(* A session in Redis is that of a user who exists; one that has ended was *)
(* there once, and never comes back.                                       *)
SessionsAreOwned ==
    \A s \in Sids :
       /\ s \in live => owner[s] # NoUser /\ fate[s] = "none"
       /\ owner[s] # NoUser => IsUserExists(owner[s])
       /\ fate[s] # "none" => owner[s] # NoUser
       /\ fate[s] = "expired" => age[s] = sessionTTL
       /\ cookieAge[s] # Unset => owner[s] # NoUser

(* The two clocks: since its cookies were set, a session has grown as old  *)
(* as they have.                                                           *)
ClocksAgree ==
    \A s \in Sids :
       cookieAge[s] # Unset /\ cookieAge[s] < CookieLife => age[s] <= wait[s] + cookieAge[s]

(* The cookie a browser holds is not past its date. *)
CookiesAreFresh ==
    \A b \in Browsers :
       cookie[b] # NoSid => cookieAge[cookie[b]] # Unset /\ cookieAge[cookie[b]] < CookieLife

(* How far a request has come, and what the steps before have left. *)
RequestOK(r) ==
    LET q == req[r]
    IN  /\ q.step = "auth" => q.passes \in 1..2
        /\ q.late => q.sid \in Sids /\ fate[q.sid] # "none"
        /\ q.step \in {"handle", "email", "session", "cookie", "answer"} => q.op \in {"register", "login"}
        /\ q.step \in {"create", "profile", "index"} => q.op = "register"
        /\ q.step \in {"serve", "logout", "clear", "whoami", "role"} =>
              q.op \notin {"register", "login"}
        /\ q.step \in {"serve", "logout", "clear", "role"} => q.sid \in Sids
        /\ q.step = "clear" => fate[q.sid] # "none"
        /\ q.step \in {"profile", "index", "session", "cookie", "answer"} =>
              q.user # NoUser /\ q.user = users[q.email]
        /\ q.step = "index" => q.user \in profiles
        /\ q.op = "register" /\ q.step \in {"session", "cookie", "answer"} =>
              q.user \in profiles \cap index
        /\ q.step \in {"cookie", "answer"} => q.made \in Sids /\ q.user = owner[q.made]
        /\ q.step = "answer" => cookieAge[q.made] # Unset

IInv ==
    /\ TypeOK /\ IdsAreOnce /\ SessionsAreOwned /\ ClocksAgree /\ CookiesAreFresh
    /\ \A r \in Requests : RequestOK(r)
    /\ ServedAsOwner /\ LogoutIsFinal /\ RegistrationsAreTrue /\ SessionOutlivesCookie

===============================================================================
