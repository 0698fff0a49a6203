---------------------------- MODULE AccountsProofs ----------------------------
(***************************************************************************)
(* Proofs about Accounts, for any browsers, emails, sessions and any       *)
(* number of requests that overlap.  They rest on the inductive invariant  *)
(* IInv (module Accounts): besides the invariants themselves, which step   *)
(* of which route a request can be at and what the steps before have left, *)
(* that an id belongs to one email, and that a session that has ended      *)
(* never comes back.                                                       *)
(*                                                                         *)
(* Then about Applications, for any browsers, users, temporary sessions    *)
(* and any number of requests that overlap.  They rest on AppsIInv (module *)
(* Applications): besides the invariants themselves, that a temporary      *)
(* session never leaves the browser it was made for, that two users only   *)
(* present one that was not taken back in time, that nobody knows one      *)
(* before the answer that brings it, and that each can be claimed until it *)
(* was merged or forgotten.                                                *)
(***************************************************************************)
EXTENDS Accounts, Applications, TLAPS

-------------------------------------------------------------------------------
(* Routes, codes and requests. *)

(* Every route runs AuthMiddleware once or twice. *)
LEMMA RouteFacts ==
    ASSUME NEW op \in DOMAIN Routes
    PROVE  Routes[op].passes \in 1..2
  BY DEF Routes

(* What the auth service answers: 500 to an error of a store, never 200 to *)
(* an error.                                                               *)
LEMMA CodeFacts ==
    /\ GatewayCode("ErrDB") = 500
    /\ GatewayCode("ErrNotFound") # 200
    /\ GatewayCode("ErrInvalidInput") # 200
    /\ GatewayCode("ErrAlreadyExists") # 200
    /\ \A err : MapErrorToHTTP(err) # 200
  BY DEF GatewayCode, ToGrpcError, FromGrpcError, MapErrorToHTTP, Ok

(* The first step of each handler. *)
LEMMA FirstStepFacts ==
    ASSUME NEW op
    PROVE  /\ op \in {"register", "login"} => FirstStep(op) = "handle"
           /\ op \notin {"register", "login"} => FirstStep(op) \in {"logout", "whoami", "serve"}
           /\ op = "isloggedin" => FirstStep(op) = "whoami"
  BY DEF FirstStep

(* A request that is not in use. *)
LEMMA UnusedFacts ==
    Unused \in Request /\ Unused.step = "idle" /\ Unused.late = FALSE /\ Unused.email \in Emails
<1>1. (CHOOSE b \in Browsers : TRUE) \in Browsers /\ (CHOOSE e \in Emails : TRUE) \in Emails
  BY SomebodyAssumption
<1>2. "chats" \in DOMAIN Routes /\ "idle" \in Steps
  BY DEF Routes, Steps
<1> QED BY <1>1, <1>2 DEF Unused, Request

(* What the fields of a request are. *)
LEMMA RequestFields ==
    ASSUME NEW q \in Request
    PROVE  /\ q.op \in DOMAIN Routes /\ q.browser \in Browsers /\ q.sid \in Sids \cup {NoSid}
           /\ q.token \in Sids \cup {NoSid} /\ q.email \in Emails /\ q.step \in Steps
           /\ q.passes \in 0..2 /\ q.user \in {NoUser} \cup UserIds
           /\ q.made \in Sids \cup {NoSid} /\ q.late \in BOOLEAN
  BY DEF Request

(* All fields of a request but the ones a step changes stay as they are. *)
Alike(q, n) == /\ n.op = q.op /\ n.browser = q.browser /\ n.sid = q.sid
               /\ n.token = q.token /\ n.email = q.email /\ n.late = q.late

LEMMA StepFacts ==
    ASSUME NEW q \in Request, NEW step \in Steps
    PROVE  LET n == [q EXCEPT !.step = step]
           IN  /\ n \in Request /\ Alike(q, n) /\ n.step = step
               /\ n.user = q.user /\ n.made = q.made /\ n.passes = q.passes
  BY DEF Request, Alike

LEMMA UserFacts ==
    ASSUME NEW q \in Request, NEW u \in {NoUser} \cup UserIds
    PROVE  LET n == [q EXCEPT !.user = u]
           IN  /\ n \in Request /\ Alike(q, n) /\ n.user = u
               /\ n.step = q.step /\ n.made = q.made /\ n.passes = q.passes
  BY DEF Request, Alike

LEMMA StepUserFacts ==
    ASSUME NEW q \in Request, NEW step \in Steps, NEW u \in {NoUser} \cup UserIds
    PROVE  LET n == [q EXCEPT !.step = step, !.user = u]
           IN  /\ n \in Request /\ Alike(q, n) /\ n.step = step /\ n.user = u
               /\ n.made = q.made /\ n.passes = q.passes
  BY DEF Request, Alike

LEMMA StepMadeFacts ==
    ASSUME NEW q \in Request, NEW step \in Steps, NEW s \in Sids
    PROVE  LET n == [q EXCEPT !.step = step, !.made = s]
           IN  /\ n \in Request /\ Alike(q, n) /\ n.step = step /\ n.made = s
               /\ n.user = q.user /\ n.passes = q.passes
  BY DEF Request, Alike

-------------------------------------------------------------------------------
(* What every step keeps. *)

(* What is said of cookies. *)
CookiesOK == ClocksAgree /\ CookiesAreFresh /\ SessionOutlivesCookie

(* Rows and entries stay, sessions keep their owner and end once. *)
Grows ==
    /\ \A e \in Emails : users[e] # NoUser => users'[e] = users[e]
    /\ profiles \subseteq profiles' /\ index \subseteq index' /\ told \subseteq told'
    /\ \A s \in Sids : owner[s] # NoUser => owner'[s] = owner[s]
    /\ \A s \in Sids : fate[s] # "none" => fate'[s] # "none"
    /\ \A s \in Sids : cookieAge[s] # Unset => cookieAge'[s] # Unset
    /\ debug' = debug

(* Who exists goes on existing. *)
LEMMA ExistsKept ==
    ASSUME NEW u \in UserIds, Grows, IsUserExists(u)
    PROVE  IsUserExists(u)'
<1>1. PICK e \in Emails : users[e] = u
  BY DEF IsUserExists, GetUserByID
<1>2. users'[e] = u
  BY <1>1 DEF Grows, NoUser, UserIds
<1> QED BY <1>2 DEF IsUserExists, GetUserByID

(* What is said of one request. *)
Served(r) ==
    /\ req[r].step \in {"serve", "logout"} =>
          /\ req[r].user # NoUser /\ req[r].user = owner[req[r].sid]
          /\ IsUserExists(req[r].user)
          /\ debug \/ Routes[req[r].op].safe \/ req[r].token = req[r].sid
    /\ req[r].step \in {"cookie", "answer"} =>
          users[req[r].email] = owner[req[r].made] /\ owner[req[r].made] # NoUser

Final(r) == req[r].late => req[r].step \notin {"serve", "logout", "clear", "role"}

(* A request that waits keeps what is said of it. *)
LEMMA OthersKeep ==
    ASSUME IInv, Grows, NEW r \in Requests, req'[r] = req[r]
    PROVE  RequestOK(r)' /\ Served(r)' /\ Final(r)'
<1>1. req[r] \in Request /\ RequestOK(r) /\ Served(r) /\ Final(r)
  BY DEF IInv, TypeOK, ServedAsOwner, LogoutIsFinal, Served, Final
<1> DEFINE q == req[r]
<1>2. /\ q.email \in Emails /\ q.user \in {NoUser} \cup UserIds
      /\ q.sid \in Sids \cup {NoSid}
  BY <1>1, RequestFields
<1>3. RequestOK(r)'
  BY <1>1, <1>2 DEF RequestOK, Grows
<1>4. Final(r)'
  BY <1>1 DEF Final
<1>5. ASSUME q.step \in {"serve", "logout"}
      PROVE  /\ q.user # NoUser /\ q.user = owner'[q.sid] /\ IsUserExists(q.user)'
             /\ debug' \/ Routes[q.op].safe \/ q.token = q.sid
  <2>1. /\ q.user # NoUser /\ q.user = owner[q.sid] /\ IsUserExists(q.user)
        /\ debug \/ Routes[q.op].safe \/ q.token = q.sid
    BY <1>1, <1>5 DEF Served
  <2>2. q.sid \in Sids
    BY <1>1, <1>5 DEF RequestOK
  <2>3. PICK e \in Emails : users[e] = q.user
    BY <2>1 DEF IsUserExists, GetUserByID
  <2>4. users'[e] = req'[r].user
    BY <2>1, <2>3 DEF Grows
  <2>5. IsUserExists(q.user)'
    BY <2>4 DEF IsUserExists, GetUserByID
  <2> QED BY <2>1, <2>2, <2>5 DEF Grows
<1>6. ASSUME q.step \in {"cookie", "answer"}
      PROVE  users'[q.email] = owner'[q.made] /\ owner'[q.made] # NoUser
  <2>1. users[q.email] = owner[q.made] /\ owner[q.made] # NoUser /\ q.made \in Sids
    BY <1>1, <1>6 DEF Served, RequestOK
  <2> QED BY <1>2, <2>1 DEF Grows
<1>7. Served(r)'
  BY <1>5, <1>6 DEF Served, IsUserExists, GetUserByID
<1> QED BY <1>3, <1>4, <1>7

(* The registration a step has to do with. *)
Busy(q) == q.op = "register" /\ q.step \in {"profile", "index"}

(* A step of request r keeps registrations true, when it only says 200 of  *)
(* complete accounts and neither makes nor abandons an account without     *)
(* going on with it, completing it or saying 500.                          *)
LEMMA RegistrationsKept ==
    ASSUME IInv, Grows, NEW r \in Requests,
           \A c \in Requests : c # r => req'[c] = req[c],
           \A e \in Emails : <<e, 200>> \in told' =>
               <<e, 200>> \in told \/ users'[e] \in profiles' \cap index',
           \A e \in Emails : users'[e] # users[e] =>
               \/ Busy(req'[r]) /\ req'[r].user = users'[e]
               \/ <<e, 500>> \in told',
           Busy(req[r]) =>
               \/ Busy(req'[r]) /\ req'[r].user = req[r].user
               \/ <<req[r].email, 500>> \in told'
               \/ req[r].user \in profiles' \cap index'
    PROVE  RegistrationsAreTrue'
<1> SUFFICES ASSUME NEW e \in Emails
             PROVE  /\ <<e, 200>> \in told' => users'[e] \in profiles' \cap index'
                    /\ users'[e] # NoUser /\ users'[e] \notin profiles' \cap index' =>
                          InProgress(users[e])' \/ <<e, 500>> \in told'
  BY DEF RegistrationsAreTrue, InProgress
<1>1. <<e, 200>> \in told => users[e] \in profiles \cap index
  BY DEF IInv, RegistrationsAreTrue
<1>2. profiles \subseteq UserIds /\ NoUser \notin UserIds /\ users[e] \in {NoUser} \cup UserIds
  BY DEF IInv, TypeOK, NoUser, UserIds
<1>3. <<e, 200>> \in told' => users'[e] \in profiles' \cap index'
  BY <1>1, <1>2 DEF Grows
<1>4. ASSUME users'[e] # NoUser, users'[e] \notin profiles' \cap index', <<e, 500>> \notin told'
      PROVE  InProgress(users[e])'
  <2>1. ASSUME NEW c \in Requests, Busy(req'[c]), req'[c].user = users'[e]
        PROVE  InProgress(users[e])'
    BY <2>1 DEF InProgress, Busy
  <2>2. CASE users'[e] # users[e]
    BY <1>4, <2>1, <2>2
  <2>3. CASE users'[e] = users[e]
    <3>0. users[e] # NoUser /\ users[e] \notin profiles \cap index /\ <<e, 500>> \notin told
      BY <1>4, <2>3 DEF Grows
    <3>1. InProgress(users[e])
      BY <3>0 DEF IInv, RegistrationsAreTrue
    <3>2. PICK c \in Requests : Busy(req[c]) /\ req[c].user = users[e]
      BY <3>1 DEF InProgress, Busy
    <3>3. CASE c # r
      BY <2>1, <2>3, <3>2, <3>3
    <3>4. CASE c = r
      <4>1. req[r].email \in Emails
        BY RequestFields DEF IInv, TypeOK
      <4>2. req[r].user = users[req[r].email] /\ req[r].user # NoUser
        BY <3>2, <3>4 DEF IInv, RequestOK, Busy
      <4>3. req[r].email = e
        BY <3>2, <3>4, <4>1, <4>2 DEF IInv, IdsAreOnce
      <4> QED BY <1>4, <2>1, <2>3, <3>2, <3>4, <4>3
    <3> QED BY <3>3, <3>4
  <2> QED BY <2>2, <2>3
<1> QED BY <1>3, <1>4

(* A step of one request. *)
LEMMA StepKeeps ==
    ASSUME IInv, Grows, NEW r \in Requests,
           \A c \in Requests : c # r => req'[c] = req[c],
           TypeOK', IdsAreOnce', SessionsAreOwned', CookiesOK',
           RegistrationsAreTrue', RequestOK(r)', Served(r)', Final(r)'
    PROVE  IInv'
<1>1. \A c \in Requests : RequestOK(c)' /\ Served(c)' /\ Final(c)'
  <2> TAKE c \in Requests
  <2>1. CASE c = r
    BY <2>1
  <2>2. CASE c # r
    BY <2>2, OthersKeep
  <2> QED BY <2>1, <2>2
<1>2. ServedAsOwner' /\ LogoutIsFinal'
  BY <1>1 DEF Served, Final, ServedAsOwner, LogoutIsFinal
<1> QED BY <1>1, <1>2 DEF IInv, CookiesOK

-------------------------------------------------------------------------------
(* Steps that end a request and steps that only move it. *)

(* What an answer leaves behind. *)
LEMMA AnswerFacts ==
    ASSUME TypeOK, NEW r \in Requests, NEW code, Answer(r, code)
    PROVE  /\ req' \in [Requests -> Request] /\ req'[r] = Unused
           /\ \A c \in Requests : c # r => req'[c] = req[c]
           /\ told \subseteq told' /\ told' \subseteq Emails \X Codes
           /\ req[r].op = "register" /\ code = 500 => <<req[r].email, 500>> \in told'
           /\ \A e \in Emails : <<e, 200>> \in told' =>
                 \/ <<e, 200>> \in told
                 \/ e = req[r].email /\ req[r].op = "register" /\ code = 200
           /\ RequestOK(r)' /\ Served(r)' /\ Final(r)'
<1>1. req \in [Requests -> Request] /\ told \subseteq Emails \X Codes /\ req[r] \in Request
  BY DEF TypeOK
<1>2. /\ req' = [req EXCEPT ![r] = Unused]
      /\ told' = IF req[r].op = "register" /\ code \in {200, 500}
                   THEN told \cup {<<req[r].email, code>>} ELSE told
  BY DEF Answer
<1>3. req' \in [Requests -> Request] /\ req'[r] = Unused /\ \A c \in Requests : c # r => req'[c] = req[c]
  BY <1>1, <1>2, UnusedFacts
<1>4. req[r].email \in Emails /\ {200, 500} \subseteq Codes
  BY <1>1, RequestFields DEF Codes
<1>5. /\ told \subseteq told' /\ told' \subseteq Emails \X Codes
      /\ req[r].op = "register" /\ code = 500 => <<req[r].email, 500>> \in told'
      /\ \A e \in Emails : <<e, 200>> \in told' =>
            \/ <<e, 200>> \in told
            \/ e = req[r].email /\ req[r].op = "register" /\ code = 200
  BY <1>1, <1>2, <1>4
<1>6. RequestOK(r)' /\ Served(r)' /\ Final(r)'
  BY <1>3, UnusedFacts DEF RequestOK, Served, Final
<1> QED BY <1>3, <1>5, <1>6

(* The stores and the cookies as they were. *)
LEMMA QuietFacts ==
    ASSUME IInv, UNCHANGED <<stores, redis, dates, cookie>>, debug' = debug, told \subseteq told',
           told' \subseteq Emails \X Codes, req' \in [Requests -> Request], sent' \in 0..MaxSent
    PROVE  TypeOK' /\ Grows /\ IdsAreOnce' /\ SessionsAreOwned' /\ CookiesOK'
<1>1. /\ users' = users /\ nextUser' = nextUser /\ profiles' = profiles /\ index' = index
      /\ live' = live /\ owner' = owner /\ age' = age /\ fate' = fate /\ cookie' = cookie
      /\ cookieAge' = cookieAge /\ wait' = wait
  BY DEF stores, redis, dates
<1>2. TypeOK'
  BY <1>1 DEF IInv, TypeOK
<1>3. Grows
  BY <1>1 DEF Grows
<1>4. IdsAreOnce' /\ CookiesOK'
  BY <1>1 DEF IInv, IdsAreOnce, CookiesOK, ClocksAgree, CookiesAreFresh, SessionOutlivesCookie
<1>5. SessionsAreOwned'
  BY <1>1 DEF IInv, SessionsAreOwned, IsUserExists, GetUserByID
<1> QED BY <1>2, <1>3, <1>4, <1>5

LEMMA QuietAnswer ==
    ASSUME IInv, NEW r \in Requests, NEW code, Answer(r, code),
           UNCHANGED <<stores, redis, dates, cookie>>, UNCHANGED <<debug, sent>>,
           req[r].op = "register" /\ code = 200 => users[req[r].email] \in profiles \cap index,
           Busy(req[r]) => code = 500
    PROVE  IInv'
<1>1. TypeOK /\ sent' \in 0..MaxSent /\ debug' = debug
  BY DEF IInv, TypeOK
<1>2. /\ req' \in [Requests -> Request] /\ req'[r] = Unused
      /\ \A c \in Requests : c # r => req'[c] = req[c]
      /\ told \subseteq told' /\ told' \subseteq Emails \X Codes
      /\ req[r].op = "register" /\ code = 500 => <<req[r].email, 500>> \in told'
      /\ \A e \in Emails : <<e, 200>> \in told' =>
            \/ <<e, 200>> \in told
            \/ e = req[r].email /\ req[r].op = "register" /\ code = 200
      /\ RequestOK(r)' /\ Served(r)' /\ Final(r)'
  BY <1>1, AnswerFacts
<1>3. TypeOK' /\ Grows /\ IdsAreOnce' /\ SessionsAreOwned' /\ CookiesOK'
  BY <1>1, <1>2, QuietFacts
<1>4. users' = users /\ profiles' = profiles /\ index' = index
  BY DEF stores
<1>5. RegistrationsAreTrue'
  <2>1. Busy(req[r]) => <<req[r].email, 500>> \in told'
    BY <1>2 DEF Busy
  <2>2. \A e \in Emails : <<e, 200>> \in told' =>
           <<e, 200>> \in told \/ users'[e] \in profiles' \cap index'
    BY <1>2, <1>4
  <2> QED BY <1>2, <1>3, <1>4, <2>1, <2>2, RegistrationsKept
<1> QED BY <1>2, <1>3, <1>5, StepKeeps

LEMMA QuietMove ==
    ASSUME IInv, NEW r \in Requests, NEW n \in Request, req' = [req EXCEPT ![r] = n],
           UNCHANGED <<stores, redis, dates, cookie>>, UNCHANGED told,
           debug' = debug, sent' \in 0..MaxSent, ~ Busy(req[r]), RequestOK(r)', Served(r)', Final(r)'
    PROVE  IInv'
<1>1. req \in [Requests -> Request] /\ told' \subseteq Emails \X Codes
  BY DEF IInv, TypeOK
<1>2. req' \in [Requests -> Request] /\ \A c \in Requests : c # r => req'[c] = req[c]
  BY <1>1
<1>3. TypeOK' /\ Grows /\ IdsAreOnce' /\ SessionsAreOwned' /\ CookiesOK'
  BY <1>1, <1>2, QuietFacts
<1>4. users' = users /\ profiles' = profiles /\ index' = index /\ told' = told
  BY DEF stores
<1>5. RegistrationsAreTrue'
  BY <1>2, <1>3, <1>4, RegistrationsKept
<1> QED BY <1>2, <1>3, <1>5, StepKeeps

(* Goto moves a request and changes nothing else of it. *)
LEMMA GotoFacts ==
    ASSUME TypeOK, NEW r \in Requests, NEW step \in Steps, Goto(r, step)
    PROVE  \E n \in Request : /\ req' = [req EXCEPT ![r] = n] /\ req'[r] = n
                             /\ Alike(req[r], n) /\ n.step = step /\ n.user = req[r].user
                             /\ n.made = req[r].made /\ n.passes = req[r].passes
<1> DEFINE n == [req[r] EXCEPT !.step = step]
<1>1. req[r] \in Request /\ req \in [Requests -> Request]
  BY DEF TypeOK
<1>2. /\ n \in Request /\ Alike(req[r], n) /\ n.step = step
      /\ n.user = req[r].user /\ n.made = req[r].made /\ n.passes = req[r].passes
  BY <1>1, StepFacts
<1>3. req' = [req EXCEPT ![r] = n]
  BY DEF Goto
<1> HIDE DEF n
<1> QED BY <1>1, <1>2, <1>3

-------------------------------------------------------------------------------
(* The middleware. *)

(* An error stays an error on its way through gRPC. *)
LEMMA ErrorsStayErrors ==
    ASSUME NEW err
    PROVE  ToGrpcError(err) # Ok /\ FromGrpcError(err) # Ok
  BY DEF ToGrpcError, FromGrpcError, Ok

(* Who is found logged in owns a session that is in Redis. *)
LEMMA LookupFacts ==
    ASSUME NEW r \in Requests, NEW s \in IsLoggedIn(r), s.err = Ok
    PROVE  req[r].sid # NoSid /\ req[r].sid \in live /\ s.user = owner[req[r].sid]
<1> DEFINE sid == req[r].sid
           Found(t) == sid \in live /\ t.user = owner[sid]
<1>1. ASSUME NEW t \in GetSessionBySessionID(sid)
      PROVE  /\ t = [err |-> t.err, user |-> t.user]
             /\ t.err = Ok => Found(t)
  <2>1. \/ sid \in live /\ t = [err |-> Ok, user |-> owner[sid]]
        \/ t = NoSession("ErrNotFound")
        \/ t = NoSession("redis")
    BY DEF GetSessionBySessionID
  <2> QED BY <2>1 DEF NoSession, Ok
<1>2. ASSUME NEW t \in GrpcIsLoggedIn(sid)
      PROVE  /\ t = [err |-> t.err, user |-> t.user]
             /\ t.err = Ok => Found(t)
  <2>1. PICK u \in GetSessionBySessionID(sid) :
           t = [u EXCEPT !.err = IF @ = Ok THEN Ok ELSE ToGrpcError(@)]
    BY DEF GrpcIsLoggedIn, AuthServiceIsLoggedIn
  <2>2. u = [err |-> u.err, user |-> u.user] /\ (u.err = Ok => Found(u))
    BY <1>1
  <2>3. t = [err |-> IF u.err = Ok THEN Ok ELSE ToGrpcError(u.err), user |-> u.user]
    BY <2>1, <2>2
  <2> QED BY <2>2, <2>3, ErrorsStayErrors
<1>3. sid # NoSid
  BY DEF IsLoggedIn, NoSession, Ok
<1>4. PICK u \in GrpcIsLoggedIn(sid) :
         s = [u EXCEPT !.err = IF @ = Ok THEN Ok ELSE FromGrpcError(@)]
  BY <1>3 DEF IsLoggedIn
<1>5. u = [err |-> u.err, user |-> u.user] /\ (u.err = Ok => Found(u))
  BY <1>2
<1>6. s = [err |-> IF u.err = Ok THEN Ok ELSE FromGrpcError(u.err), user |-> u.user]
  BY <1>4, <1>5
<1> QED BY <1>3, <1>5, <1>6, ErrorsStayErrors

(* What the owner of a session in Redis is. *)
LEMMA OwnerFacts ==
    ASSUME IInv, NEW s \in live
    PROVE  /\ s \in Sids /\ owner[s] \in UserIds /\ owner[s] # NoUser
           /\ fate[s] = "none" /\ IsUserExists(owner[s])
  BY DEF IInv, TypeOK, SessionsAreOwned

LEMMA AuthMiddlewareKeeps ==
    ASSUME IInv, NEW r \in Requests, AuthMiddleware(r), UNCHANGED <<debug, sent>>
    PROVE  IInv'
<1> DEFINE op == req[r].op
<1>1. /\ TypeOK /\ req[r] \in Request /\ RequestOK(r) /\ req[r].step = "auth"
      /\ UNCHANGED <<stores, redis, dates, cookie>> /\ sent' \in 0..MaxSent /\ debug' = debug
  BY DEF IInv, TypeOK, AuthMiddleware
<1>2. ~ Busy(req[r])
  BY <1>1 DEF Busy
<1>3. PICK s \in IsLoggedIn(r) :
        \/ s.err \notin {Ok, "ErrNotFound"} /\ Answer(r, 500)
        \/ /\ s.err = "ErrNotFound" /\ op \in AllowedPathsWithOutAuth
           /\ Goto(r, FirstStep(op))
        \/ s.err = "ErrNotFound" /\ op \notin AllowedPathsWithOutAuth /\ Answer(r, 403)
        \/ /\ s.err = Ok /\ (op \in ForbiddenPathsWithAuth \/ ~CheckToken(r))
           /\ Answer(r, 403)
        \/ /\ s.err = Ok /\ op \notin ForbiddenPathsWithAuth /\ CheckToken(r)
           /\ req' = [req EXCEPT ![r].user = s.user, ![r].passes = @ - 1,
                           ![r].step = IF req[r].passes = 1 THEN FirstStep(op) ELSE "auth"]
           /\ UNCHANGED told
  BY DEF AuthMiddleware
<1>4. CASE Answer(r, 500) \/ Answer(r, 403)
  BY <1>1, <1>2, <1>4, QuietAnswer
<1>5. CASE op \in AllowedPathsWithOutAuth /\ Goto(r, FirstStep(op))
  <2>1. /\ FirstStep(op) \in {"handle", "whoami"} /\ FirstStep(op) \in Steps
        /\ FirstStep(op) = "handle" => op \in {"register", "login"}
        /\ FirstStep(op) = "whoami" => op \notin {"register", "login"}
    BY <1>5, FirstStepFacts DEF AllowedPathsWithOutAuth, Steps
  <2>2. PICK n \in Request : /\ req' = [req EXCEPT ![r] = n] /\ req'[r] = n
                             /\ Alike(req[r], n) /\ n.step = FirstStep(op)
    BY <1>1, <1>5, <2>1, GotoFacts
  <2>3. RequestOK(r)' /\ Served(r)' /\ Final(r)'
    BY <1>1, <2>1, <2>2 DEF RequestOK, Served, Final, Alike, redis, dates
  <2>4. UNCHANGED told
    BY <1>5 DEF Goto
  <2> QED BY <1>1, <1>2, <2>2, <2>3, <2>4, QuietMove
<1>6. CASE /\ s.err = Ok /\ op \notin ForbiddenPathsWithAuth /\ CheckToken(r)
           /\ req' = [req EXCEPT ![r].user = s.user, ![r].passes = @ - 1,
                           ![r].step = IF req[r].passes = 1 THEN FirstStep(op) ELSE "auth"]
           /\ UNCHANGED told
  <2> DEFINE next == IF req[r].passes = 1 THEN FirstStep(op) ELSE "auth"
             p == req[r].passes - 1
             w == s.user
             q == req[r]
             n == [q EXCEPT !.user = w, !.passes = p, !.step = next]
  <2>1. req[r].sid \in live /\ s.user = owner[req[r].sid]
    BY <1>6, LookupFacts
  <2>2. /\ req[r].sid \in Sids /\ s.user \in UserIds /\ s.user # NoUser
        /\ fate[req[r].sid] = "none" /\ IsUserExists(s.user)
    BY <2>1, OwnerFacts
  <2>3. /\ next \in {"auth", "logout", "whoami", "serve"} /\ next \in Steps
        /\ op \notin {"register", "login"}
    BY <1>6, FirstStepFacts DEF ForbiddenPathsWithAuth, Steps
  <2>4. req[r].passes \in 1..2 /\ p \in 0..2 /\ (next = "auth" => p \in 1..2)
    BY <1>1, <2>3, FirstStepFacts DEF RequestOK
  <2>5. req' = [req EXCEPT ![r] = n]
    BY <1>6
  <2>u. w \in {NoUser} \cup UserIds /\ q \in Request
    BY <1>1, <2>2
  <2> HIDE DEF next, p, w, q
  <2>6. n \in Request /\ Alike(req[r], n) /\ n.step = next /\ n.user = s.user /\ n.passes = p
    <3>1. n \in Request /\ Alike(q, n) /\ n.step = next /\ n.user = w /\ n.passes = p
      BY <2>u, <2>3, <2>4 DEF Request, Alike
    <3> QED BY <3>1 DEF q, w
  <2> HIDE DEF n
  <2>7. req'[r] = n
    BY <1>1, <2>5 DEF TypeOK
  <2>8. ~ req[r].late
    BY <1>1, <2>2 DEF RequestOK
  <2>9. n.late = req[r].late /\ n.sid = req[r].sid /\ n.op = op /\ n.token = req[r].token
    BY <2>6 DEF Alike
  <2>10. RequestOK(r)'
    BY <1>1, <2>2, <2>3, <2>4, <2>6, <2>7, <2>8, <2>9 DEF RequestOK, redis, dates, stores
  <2>11. Final(r)'
    BY <2>7, <2>8, <2>9 DEF Final
  <2>12. Served(r)'
    <3>1. debug \/ Routes[n.op].safe \/ n.token = n.sid
      BY <1>6, <2>9 DEF CheckToken
    <3>2. owner' = owner /\ users' = users /\ debug' = debug
      BY <1>1 DEF redis, stores
    <3>3. \E e \in Emails : users'[e] = n.user
      BY <2>2, <2>6, <3>2 DEF IsUserExists, GetUserByID
    <3> QED BY <2>1, <2>2, <2>3, <2>6, <2>7, <2>9, <3>1, <3>2, <3>3 DEF Served, IsUserExists, GetUserByID
  <2> QED BY <1>1, <1>2, <1>6, <2>5, <2>6, <2>10, <2>11, <2>12, QuietMove
<1> QED BY <1>3, <1>4, <1>5, <1>6

-------------------------------------------------------------------------------
(* The other steps that leave the stores alone. *)

LEMMA ServeKeeps ==
    ASSUME IInv, NEW r \in Requests, Serve(r), UNCHANGED <<debug, sent>>
    PROVE  IInv'
<1>1. /\ req[r].step = "serve" /\ req[r].op # "register" /\ Answer(r, 200)
      /\ UNCHANGED <<stores, redis, dates, cookie>>
  BY DEF IInv, RequestOK, Serve
<1>2. ~ Busy(req[r])
  BY <1>1 DEF Busy
<1> QED BY <1>1, <1>2, QuietAnswer

LEMMA GetUserRoleKeeps ==
    ASSUME IInv, NEW r \in Requests, GetUserRole(r), UNCHANGED <<debug, sent>>
    PROVE  IInv'
<1>1. /\ req[r].step = "role" /\ req[r].op # "register"
      /\ UNCHANGED <<stores, redis, dates, cookie>>
  BY DEF IInv, RequestOK, GetUserRole
<1>2. ~ Busy(req[r])
  BY <1>1 DEF Busy
<1>3. PICK code : Answer(r, code)
  BY DEF GetUserRole, Refuse
<1> QED BY <1>1, <1>2, <1>3, QuietAnswer

LEMMA FailKeeps ==
    ASSUME IInv, NEW r \in Requests, Fail(r), UNCHANGED <<debug, sent>>
    PROVE  IInv'
<1>1. Answer(r, 500) /\ UNCHANGED <<stores, redis, dates, cookie>>
  BY CodeFacts DEF Fail, Refuse
<1> QED BY <1>1, QuietAnswer

(* DecodeJSONBody: both handlers. *)
LEMMA HandlerKeeps ==
    ASSUME IInv, NEW r \in Requests, RegisterHandler(r) \/ LoginHandler(r), UNCHANGED <<debug, sent>>
    PROVE  IInv'
<1>1. /\ TypeOK /\ req[r].step = "handle" /\ req[r].op \in {"register", "login"}
      /\ UNCHANGED <<stores, redis, dates, cookie>> /\ DecodeJSONBody(r) /\ RequestOK(r)
      /\ sent' \in 0..MaxSent /\ debug' = debug
  BY DEF IInv, TypeOK, RegisterHandler, LoginHandler
<1>2. ~ Busy(req[r])
  BY <1>1 DEF Busy
<1>3. CASE Reject(r, "ErrInvalidParams")
  <2>1. PICK code : Answer(r, code) /\ code # 200
    BY <1>3, CodeFacts DEF Reject
  <2> QED BY <1>1, <1>2, <2>1, QuietAnswer
<1>4. CASE Goto(r, "email")
  <2>1. "email" \in Steps
    BY DEF Steps
  <2>2. PICK n \in Request : /\ req' = [req EXCEPT ![r] = n] /\ req'[r] = n
                             /\ Alike(req[r], n) /\ n.step = "email"
    BY <1>1, <1>4, <2>1, GotoFacts
  <2>3. RequestOK(r)' /\ Served(r)' /\ Final(r)'
    BY <1>1, <2>2 DEF RequestOK, Served, Final, Alike, redis, dates
  <2>4. UNCHANGED told
    BY <1>4 DEF Goto
  <2> QED BY <1>1, <1>2, <2>2, <2>3, <2>4, QuietMove
<1> QED BY <1>1, <1>3, <1>4 DEF DecodeJSONBody

LEMMA RegisterKeeps ==
    ASSUME IInv, NEW r \in Requests, Register(r), UNCHANGED <<debug, sent>>
    PROVE  IInv'
<1>1. /\ TypeOK /\ req[r].step = "email" /\ req[r].op = "register" /\ RequestOK(r)
      /\ UNCHANGED <<stores, redis, dates, cookie>> /\ sent' \in 0..MaxSent /\ debug' = debug
  BY DEF IInv, TypeOK, Register
<1>2. ~ Busy(req[r])
  BY <1>1 DEF Busy
<1>3. CASE Refuse(r, "ErrInvalidInput") \/ Refuse(r, "ErrAlreadyExists")
  <2>1. PICK code : Answer(r, code) /\ code # 200
    BY <1>3, CodeFacts DEF Refuse
  <2> QED BY <1>1, <1>2, <2>1, QuietAnswer
<1>4. CASE Goto(r, "create")
  <2>1. "create" \in Steps
    BY DEF Steps
  <2>2. PICK n \in Request : /\ req' = [req EXCEPT ![r] = n] /\ req'[r] = n
                             /\ Alike(req[r], n) /\ n.step = "create"
    BY <1>1, <1>4, <2>1, GotoFacts
  <2>3. RequestOK(r)' /\ Served(r)' /\ Final(r)'
    BY <1>1, <2>2 DEF RequestOK, Served, Final, Alike, redis, dates
  <2>4. UNCHANGED told
    BY <1>4 DEF Goto
  <2> QED BY <1>1, <1>2, <2>2, <2>3, <2>4, QuietMove
<1> QED BY <1>3, <1>4 DEF Register

LEMMA LoginKeeps ==
    ASSUME IInv, NEW r \in Requests, Login(r), UNCHANGED <<debug, sent>>
    PROVE  IInv'
<1> DEFINE u == users[req[r].email]
<1>1. /\ TypeOK /\ req[r].step = "email" /\ req[r].op = "login" /\ RequestOK(r)
      /\ req[r] \in Request /\ UNCHANGED <<stores, redis, dates, cookie>> /\ sent' \in 0..MaxSent /\ debug' = debug
  BY DEF IInv, TypeOK, Login
<1>2. ~ Busy(req[r])
  BY <1>1 DEF Busy
<1>3. CASE Refuse(r, "ErrNotFound") \/ Refuse(r, "ErrInvalidInput")
  <2>1. PICK code : Answer(r, code)
    BY <1>3 DEF Refuse
  <2> QED BY <1>1, <1>2, <2>1, QuietAnswer
<1>4. CASE u # NoUser /\ req' = [req EXCEPT ![r].step = "session", ![r].user = u] /\ UNCHANGED told
  <2> DEFINE n == [req[r] EXCEPT !.step = "session", !.user = u]
  <2>1. req' = [req EXCEPT ![r] = n]
    BY <1>4
  <2>2. u \in {NoUser} \cup UserIds /\ "session" \in Steps
    BY <1>1, RequestFields DEF TypeOK, Steps
  <2>3. n \in Request /\ Alike(req[r], n) /\ n.step = "session" /\ n.user = u
    <3> HIDE DEF u
    <3> QED BY <1>1, <2>2 DEF Request, Alike
  <2> HIDE DEF n
  <2>4. req'[r] = n
    BY <1>1, <2>1 DEF TypeOK
  <2>5. RequestOK(r)' /\ Served(r)' /\ Final(r)'
    BY <1>1, <1>4, <2>3, <2>4 DEF RequestOK, Served, Final, Alike, redis, dates, stores
  <2> QED BY <1>1, <1>2, <1>4, <2>1, <2>3, <2>5, QuietMove
<1> QED BY <1>3, <1>4 DEF Login, GetUserByEmail

LEMMA IsLoggedInHandlerKeeps ==
    ASSUME IInv, NEW r \in Requests, IsLoggedInHandler(r), UNCHANGED <<debug, sent>>
    PROVE  IInv'
<1>1. /\ TypeOK /\ req[r].step = "whoami" /\ req[r].op \notin {"register", "login"}
      /\ RequestOK(r) /\ req[r] \in Request
      /\ UNCHANGED <<stores, redis, dates, cookie>> /\ sent' \in 0..MaxSent /\ debug' = debug
  BY DEF IInv, TypeOK, IsLoggedInHandler, RequestOK
<1>2. ~ Busy(req[r])
  BY <1>1 DEF Busy
<1>3. PICK s \in IsLoggedIn(r) :
         \/ s.err # Ok /\ Reject(r, s.err)
         \/ /\ s.err = Ok /\ UNCHANGED told
            /\ req' = [req EXCEPT ![r].step = "role", ![r].user = s.user]
  BY DEF IsLoggedInHandler
<1>4. CASE Reject(r, s.err)
  <2>1. PICK code : Answer(r, code)
    BY <1>4 DEF Reject
  <2> QED BY <1>1, <1>2, <2>1, QuietAnswer
<1>5. CASE s.err = Ok /\ UNCHANGED told /\ req' = [req EXCEPT ![r].step = "role", ![r].user = s.user]
  <2> DEFINE w == s.user
             n == [req[r] EXCEPT !.step = "role", !.user = w]
  <2>1. req' = [req EXCEPT ![r] = n]
    BY <1>5
  <2>2. req[r].sid \in live /\ w = owner[req[r].sid]
    BY <1>5, LookupFacts
  <2>3. /\ req[r].sid \in Sids /\ w \in {NoUser} \cup UserIds /\ fate[req[r].sid] = "none"
        /\ "role" \in Steps
    BY <2>2, OwnerFacts DEF Steps
  <2>4. ~ req[r].late
    BY <1>1, <2>3 DEF RequestOK
  <2>5. n \in Request /\ Alike(req[r], n) /\ n.step = "role" /\ n.user = w
    <3> HIDE DEF w
    <3> QED BY <1>1, <2>3 DEF Request, Alike
  <2> HIDE DEF n
  <2>6. req'[r] = n
    BY <1>1, <2>1 DEF TypeOK
  <2>7. RequestOK(r)' /\ Served(r)' /\ Final(r)'
    BY <1>1, <2>3, <2>4, <2>5, <2>6 DEF RequestOK, Served, Final, Alike, redis, dates, stores
  <2> QED BY <1>1, <1>2, <1>5, <2>1, <2>5, <2>7, QuietMove
<1> QED BY <1>3, <1>4, <1>5

(* A request carries the cookie of its browser, any token that was handed  *)
(* out, and is late when its cookie is that of a session that has ended.   *)
LEMMA SendKeeps ==
    ASSUME IInv, NEW r \in Requests, NEW b \in Browsers, NEW op \in Ops, NEW email \in Emails,
           NEW token \in Sids \cup {NoSid}, Send(r, b, op, email, token)
    PROVE  IInv'
<1> DEFINE late == cookie[b] # NoSid /\ fate[cookie[b]] # "none"
           n == [op |-> op, browser |-> b, sid |-> cookie[b], token |-> token,
                 email |-> email, step |-> "auth",
                 passes |-> Routes[op].passes, user |-> NoUser, made |-> NoSid, late |-> late]
<1>1. /\ TypeOK /\ req[r].step = "idle" /\ UNCHANGED <<stores, redis, dates, cookie>>
      /\ UNCHANGED told /\ debug' = debug
      /\ req' = [req EXCEPT ![r] = n] /\ sent' = sent + 1 /\ sent < MaxSent
  BY DEF IInv, Send, Idle
<1>2. sent' \in 0..MaxSent
  BY <1>1, MaxSentAssumption DEF TypeOK
<1>3. op \in DOMAIN Routes /\ Routes[op].passes \in 1..2
  BY OpsAssumption, RouteFacts
<1>4. cookie[b] \in Sids \cup {NoSid} /\ late \in BOOLEAN /\ "auth" \in Steps
  BY <1>1 DEF TypeOK, Steps
<1>5. late => cookie[b] \in Sids /\ fate[cookie[b]] # "none"
  BY <1>4
<1>6. Routes[op].passes \in 0..2
  BY <1>3
<1> DEFINE passes == Routes[op].passes
<1> HIDE DEF late, passes
<1>7. /\ n \in Request /\ n.step = "auth" /\ n.late = late /\ n.sid = cookie[b]
      /\ n.passes = Routes[op].passes
  BY <1>3, <1>4, <1>6 DEF Request
<1> HIDE DEF n
<1>8. req'[r] = n
  BY <1>1 DEF TypeOK
<1>9. RequestOK(r)' /\ Served(r)' /\ Final(r)'
  BY <1>1, <1>3, <1>5, <1>7, <1>8 DEF RequestOK, Served, Final, redis, dates
<1>10. ~ Busy(req[r])
  BY <1>1 DEF Busy
<1> QED BY <1>1, <1>2, <1>7, <1>9, <1>10, QuietMove

-------------------------------------------------------------------------------
(* The steps that write. *)

(* After a write a request goes on, or counts as failed. *)
LEMMA ContinueFacts ==
    ASSUME TypeOK, NEW r \in Requests, NEW n \in Request, Continue(r, n)
    PROVE  /\ req' \in [Requests -> Request]
           /\ \A c \in Requests : c # r => req'[c] = req[c]
           /\ told \subseteq told' /\ told' \subseteq Emails \X Codes
           /\ \A e \in Emails : <<e, 200>> \in told' => <<e, 200>> \in told
           /\ \/ req'[r] = n
              \/ /\ req[r].op = "register" => <<req[r].email, 500>> \in told'
                 /\ RequestOK(r)' /\ Served(r)' /\ Final(r)'
<1>1. req \in [Requests -> Request] /\ told \subseteq Emails \X Codes
  BY DEF TypeOK
<1>2. CASE req' = [req EXCEPT ![r] = n] /\ UNCHANGED told
  BY <1>1, <1>2
<1>3. CASE Refuse(r, "ErrDB")
  <2>1. Answer(r, 500)
    BY <1>3, CodeFacts DEF Refuse
  <2> QED BY <2>1, AnswerFacts
<1> QED BY <1>2, <1>3 DEF Continue

(* Nothing is said of the accounts, but sessions and cookies change. *)
LEMMA AccountsKept ==
    ASSUME IInv, NEW r \in Requests, UNCHANGED stores, told \subseteq told',
           \A s \in Sids : owner[s] # NoUser => owner'[s] = owner[s],
           \A s \in Sids : fate[s] # "none" => fate'[s] # "none",
           \A s \in Sids : cookieAge[s] # Unset => cookieAge'[s] # Unset, debug' = debug,
           \A c \in Requests : c # r => req'[c] = req[c],
           \A e \in Emails : <<e, 200>> \in told' =>
               <<e, 200>> \in told \/ users[e] \in profiles \cap index,
           ~ Busy(req[r])
    PROVE  Grows /\ RegistrationsAreTrue' /\ IdsAreOnce'
<1>1. users' = users /\ nextUser' = nextUser /\ profiles' = profiles /\ index' = index
  BY DEF stores
<1>2. Grows
  BY <1>1 DEF Grows
<1>3. RegistrationsAreTrue'
  BY <1>1, <1>2, RegistrationsKept
<1>4. IdsAreOnce'
  BY <1>1 DEF IInv, IdsAreOnce
<1> QED BY <1>2, <1>3, <1>4

(* INSERT INTO users: the id is new, so it becomes that of one email. *)
LEMMA CreateUserKeeps ==
    ASSUME IInv, NEW r \in Requests, CreateUser(r), UNCHANGED <<debug, sent>>
    PROVE  IInv'
<1> DEFINE id == nextUser
           e0 == req[r].email
           n  == [req[r] EXCEPT !.step = "profile", !.user = id]
<1>1. /\ TypeOK /\ RequestOK(r) /\ req[r] \in Request /\ req[r].step = "create"
      /\ req[r].op = "register" /\ e0 \in Emails /\ IdsAreOnce
  BY RequestFields DEF IInv, TypeOK, CreateUser, RequestOK
<1>2. /\ id \in UserIds /\ nextUser' = id + 1
      /\ profiles' = profiles /\ index' = index /\ cookie' = cookie /\ sent' = sent
      /\ live' = live /\ owner' = owner /\ age' = age /\ fate' = fate
      /\ cookieAge' = cookieAge /\ wait' = wait /\ debug' = debug
  BY DEF CreateUser, redis, dates
<1>3. id \in Nat /\ id # NoUser /\ nextUser' \in 1..(MaxUsers + 1)
  BY <1>2, MaxUsersAssumption DEF UserIds, NoUser
<1>4. /\ n \in Request /\ Alike(req[r], n) /\ n.step = "profile" /\ n.user = id
  <2>1. id \in {NoUser} \cup UserIds /\ "profile" \in Steps
    BY <1>2 DEF Steps
  <2> HIDE DEF id
  <2> QED BY <1>1, <2>1 DEF Request, Alike
<1> HIDE DEF n
<1>5. \/ users' = users /\ Answer(r, 500)
      \/ users[e0] = NoUser /\ users' = [users EXCEPT ![e0] = id] /\ Continue(r, n)
  BY CodeFacts DEF CreateUser, Refuse, n
<1>6. /\ req' \in [Requests -> Request]
      /\ \A c \in Requests : c # r => req'[c] = req[c]
      /\ told \subseteq told' /\ told' \subseteq Emails \X Codes
      /\ \A e \in Emails : <<e, 200>> \in told' => <<e, 200>> \in told
      /\ \/ req'[r] = n /\ users' = [users EXCEPT ![e0] = id]
         \/ <<e0, 500>> \in told' /\ RequestOK(r)' /\ Served(r)' /\ Final(r)'
  <2>1. CASE users' = users /\ Answer(r, 500)
    BY <1>1, <2>1, AnswerFacts
  <2>2. CASE users' = [users EXCEPT ![e0] = id] /\ Continue(r, n)
    BY <1>1, <1>4, <2>2, ContinueFacts
  <2> QED BY <1>5, <2>1, <2>2
<1>7. /\ users' \in [Emails -> {NoUser} \cup UserIds]
      /\ \A e \in Emails : users'[e] # users[e] => e = e0 /\ users'[e] = id /\ users[e] = NoUser
  BY <1>1, <1>2, <1>5 DEF TypeOK
<1>8. TypeOK'
  BY <1>1, <1>2, <1>3, <1>6, <1>7 DEF TypeOK
<1>9. Grows
  BY <1>2, <1>6, <1>7 DEF Grows
<1>10. IdsAreOnce'
  <2>1. \A e \in Emails : users[e] \in Nat /\ users[e] < id
    BY <1>1, MaxUsersAssumption DEF TypeOK, IdsAreOnce, UserIds, NoUser
  <2>2. \A e \in Emails : users'[e] < nextUser'
    BY <1>2, <1>3, <1>7, <2>1
  <2>3. \A e, f \in Emails : users'[e] # NoUser /\ users'[e] = users'[f] => e = f
    <3> TAKE e, f \in Emails
    <3>1. users[e] # id /\ users[f] # id
      BY <1>3, <2>1
    <3>2. users[e] # NoUser /\ users[e] = users[f] => e = f
      BY <1>1 DEF IdsAreOnce
    <3> QED BY <1>7, <3>1, <3>2
  <2> QED BY <2>2, <2>3 DEF IdsAreOnce
<1>11. SessionsAreOwned' /\ CookiesOK'
  <2>1. ASSUME NEW s \in Sids, owner[s] # NoUser
        PROVE  \E e \in Emails : users'[e] = owner[s]
    <3>1. IsUserExists(owner[s])
      BY <2>1 DEF IInv, SessionsAreOwned
    <3>2. PICK e \in Emails : users[e] = owner[s]
      BY <3>1 DEF IsUserExists, GetUserByID
    <3> QED BY <1>9, <2>1, <3>2 DEF Grows
  <2>2. SessionsAreOwned'
    BY <1>2, <2>1 DEF IInv, SessionsAreOwned, IsUserExists, GetUserByID
  <2>3. CookiesOK'
    BY <1>2 DEF IInv, CookiesOK, ClocksAgree, CookiesAreFresh, SessionOutlivesCookie
  <2> QED BY <2>2, <2>3
<1>12. RegistrationsAreTrue'
  <2>1. req'[r] = n => Busy(req'[r]) /\ req'[r].user = id
    BY <1>1, <1>4 DEF Busy, Alike
  <2>2. ~ Busy(req[r])
    BY <1>1 DEF Busy
  <2>3. \A e \in Emails : users'[e] # users[e] =>
            (Busy(req'[r]) /\ req'[r].user = users'[e]) \/ <<e, 500>> \in told'
    BY <1>6, <1>7, <2>1
  <2> QED BY <1>6, <1>9, <2>2, <2>3, RegistrationsKept
<1>13. RequestOK(r)' /\ Served(r)' /\ Final(r)'
  <2>1. CASE req'[r] = n /\ users' = [users EXCEPT ![e0] = id]
    <3>1. users'[e0] = id
      BY <1>1, <2>1 DEF TypeOK
    <3>2. n.email = e0
      BY <1>4 DEF Alike
    <3> QED BY <1>1, <1>2, <1>3, <1>4, <2>1, <3>1, <3>2 DEF RequestOK, Served, Final, Alike
  <2> QED BY <1>6, <2>1
<1> QED BY <1>6, <1>8, <1>9, <1>10, <1>11, <1>12, <1>13, StepKeeps

(* The second and the third store.  What either adds is the user of the    *)
(* request, whose row is there.                                            *)
LEMMA StoreKeeps ==
    ASSUME IInv, NEW r \in Requests, UNCHANGED <<users, nextUser, redis, dates, cookie>>, UNCHANGED <<debug, sent>>,
           NEW n \in Request, Alike(req[r], n), n.user = req[r].user, Continue(r, n),
           \/ /\ req[r].step = "profile" /\ n.step = "index"
              /\ profiles' = profiles \cup {req[r].user} /\ index' = index
           \/ /\ req[r].step = "index" /\ n.step = "session"
              /\ index' = index \cup {req[r].user} /\ profiles' = profiles
    PROVE  IInv'
<1>1. /\ TypeOK /\ RequestOK(r) /\ req[r] \in Request /\ req[r].op = "register"
      /\ req[r].user # NoUser /\ req[r].user = users[req[r].email]
  BY DEF IInv, TypeOK, RequestOK
<1>2. req[r].user \in UserIds /\ req[r].email \in Emails
  BY <1>1, RequestFields
<1>3. /\ req' \in [Requests -> Request]
      /\ \A c \in Requests : c # r => req'[c] = req[c]
      /\ told \subseteq told' /\ told' \subseteq Emails \X Codes
      /\ \A e \in Emails : <<e, 200>> \in told' => <<e, 200>> \in told
      /\ \/ req'[r] = n
         \/ <<req[r].email, 500>> \in told' /\ RequestOK(r)' /\ Served(r)' /\ Final(r)'
  BY <1>1, ContinueFacts
<1>4. /\ users' = users /\ nextUser' = nextUser /\ cookie' = cookie /\ sent' = sent
      /\ live' = live /\ owner' = owner /\ age' = age /\ fate' = fate
      /\ cookieAge' = cookieAge /\ wait' = wait /\ debug' = debug
  BY DEF redis, dates
<1>5. TypeOK'
  BY <1>1, <1>2, <1>3, <1>4 DEF TypeOK
<1>6. Grows
  BY <1>3, <1>4 DEF Grows
<1>7. IdsAreOnce' /\ CookiesOK'
  BY <1>4 DEF IInv, IdsAreOnce, CookiesOK, ClocksAgree, CookiesAreFresh, SessionOutlivesCookie
<1>8. SessionsAreOwned'
  BY <1>4 DEF IInv, SessionsAreOwned, IsUserExists, GetUserByID
<1>9. n.op = "register" /\ n.email = req[r].email /\ n.late = req[r].late /\ n.sid = req[r].sid
  BY <1>1 DEF Alike
<1>10. RequestOK(r)' /\ Served(r)' /\ Final(r)'
  <2>1. CASE req'[r] = n
    BY <1>1, <1>4, <1>9, <2>1 DEF RequestOK, Served, Final
  <2> QED BY <1>3, <2>1
<1>11. RegistrationsAreTrue'
  <2>1. \/ Busy(req'[r]) /\ req'[r].user = req[r].user
        \/ <<req[r].email, 500>> \in told'
        \/ req[r].user \in profiles' \cap index'
    <3>1. CASE req'[r] = n /\ n.step = "index"
      BY <1>9, <3>1 DEF Busy
    <3>2. CASE req[r].step = "index" /\ index' = index \cup {req[r].user} /\ profiles' = profiles
      BY <1>1, <3>2 DEF RequestOK
    <3> QED BY <1>3, <3>1, <3>2
  <2> QED BY <1>3, <1>4, <1>6, <2>1, RegistrationsKept
<1> QED BY <1>3, <1>5, <1>6, <1>7, <1>8, <1>10, <1>11, StepKeeps

LEMMA CreateProfileKeeps ==
    ASSUME IInv, NEW r \in Requests, CreateProfile(r), UNCHANGED <<debug, sent>>
    PROVE  IInv'
<1> DEFINE n == [req[r] EXCEPT !.step = "index"]
<1>1. req[r] \in Request /\ "index" \in Steps
  BY DEF IInv, TypeOK, Steps
<1>2. n \in Request /\ Alike(req[r], n) /\ n.step = "index" /\ n.user = req[r].user
  BY <1>1, StepFacts
<1>3. /\ UNCHANGED <<users, nextUser, redis, dates, cookie>> /\ Continue(r, n) /\ index' = index
      /\ req[r].step = "profile" /\ profiles' = profiles \cup {req[r].user}
  BY DEF CreateProfile, redis, dates
<1> HIDE DEF n
<1> QED BY <1>2, <1>3, StoreKeeps

LEMMA IndexProfileKeeps ==
    ASSUME IInv, NEW r \in Requests, IndexProfile(r), UNCHANGED <<debug, sent>>
    PROVE  IInv'
<1> DEFINE n == [req[r] EXCEPT !.step = "session"]
<1>1. req[r] \in Request /\ "session" \in Steps
  BY DEF IInv, TypeOK, Steps
<1>2. n \in Request /\ Alike(req[r], n) /\ n.step = "session" /\ n.user = req[r].user
  BY <1>1, StepFacts
<1>3. /\ UNCHANGED <<users, nextUser, redis, dates, cookie>> /\ Continue(r, n) /\ profiles' = profiles
      /\ req[r].step = "index" /\ index' = index \cup {req[r].user}
  BY DEF IndexProfile, redis, dates
<1> HIDE DEF n
<1> QED BY <1>2, <1>3, StoreKeeps

(* SET in Redis: the id was never used, the user exists. *)
LEMMA AddSessionKeeps ==
    ASSUME IInv, NEW r \in Requests, AddSession(r), UNCHANGED <<debug, sent>>
    PROVE  IInv'
<1>1. /\ TypeOK /\ RequestOK(r) /\ req[r] \in Request /\ req[r].step = "session"
      /\ req[r].op \in {"register", "login"} /\ req[r].user # NoUser
      /\ req[r].user = users[req[r].email] /\ SessionsAreOwned
  BY DEF IInv, TypeOK, AddSession, RequestOK
<1>2. req[r].user \in UserIds /\ req[r].email \in Emails
  BY <1>1, RequestFields
<1>3. PICK s \in Sids : /\ owner[s] = NoUser /\ live' = live \cup {s}
                        /\ owner' = [owner EXCEPT ![s] = req[r].user]
                        /\ Continue(r, [req[r] EXCEPT !.step = "cookie", !.made = s])
  BY DEF AddSession, generateRandomToken, SetSession
<1> DEFINE n == [req[r] EXCEPT !.step = "cookie", !.made = s]
<1>4. /\ UNCHANGED stores /\ users' = users /\ nextUser' = nextUser /\ profiles' = profiles
      /\ index' = index /\ cookie' = cookie /\ age' = age /\ fate' = fate
      /\ cookieAge' = cookieAge /\ wait' = wait /\ debug' = debug
  BY DEF AddSession, stores, dates
<1>5. "cookie" \in Steps
  BY DEF Steps
<1>6. n \in Request /\ Alike(req[r], n) /\ n.step = "cookie" /\ n.made = s /\ n.user = req[r].user
  BY <1>1, <1>5 DEF Request, Alike
<1> HIDE DEF n
<1>7. Continue(r, n)
  BY <1>3 DEF n
<1>8. /\ req' \in [Requests -> Request]
      /\ \A c \in Requests : c # r => req'[c] = req[c]
      /\ told \subseteq told' /\ told' \subseteq Emails \X Codes
      /\ \A e \in Emails : <<e, 200>> \in told' => <<e, 200>> \in told
      /\ req'[r] = n \/ (RequestOK(r)' /\ Served(r)' /\ Final(r)')
  BY <1>1, <1>6, <1>7, ContinueFacts
<1>9. /\ owner'[s] = req[r].user /\ \A t \in Sids : t # s => owner'[t] = owner[t]
      /\ fate[s] = "none"
  BY <1>1, <1>3 DEF TypeOK, SessionsAreOwned
<1>10. TypeOK'
  BY <1>1, <1>2, <1>3, <1>4, <1>8 DEF TypeOK
<1>11. ~ Busy(req[r])
  BY <1>1 DEF Busy
<1>12. Grows /\ RegistrationsAreTrue' /\ IdsAreOnce'
  BY <1>3, <1>4, <1>8, <1>9, <1>11, AccountsKept
<1>13. SessionsAreOwned'
  <2> SUFFICES ASSUME NEW t \in Sids
               PROVE  /\ t \in live' => owner'[t] # NoUser /\ fate[t] = "none"
                      /\ owner'[t] # NoUser => \E e \in Emails : users[e] = owner'[t]
                      /\ fate[t] # "none" => owner'[t] # NoUser
                      /\ fate[t] = "expired" => age[t] = sessionTTL
                      /\ cookieAge[t] # Unset => owner'[t] # NoUser
    BY <1>4 DEF SessionsAreOwned, IsUserExists, GetUserByID
  <2>1. CASE t = s
    BY <1>1, <1>2, <1>9, <2>1
  <2>2. CASE t # s
    BY <1>1, <1>3, <1>9, <2>2 DEF SessionsAreOwned, IsUserExists, GetUserByID
  <2> QED BY <2>1, <2>2
<1>14. CookiesOK'
  BY <1>4 DEF IInv, CookiesOK, ClocksAgree, CookiesAreFresh, SessionOutlivesCookie
<1>15. RequestOK(r)' /\ Served(r)' /\ Final(r)'
  <2>1. CASE req'[r] = n
    BY <1>1, <1>2, <1>4, <1>6, <1>9, <2>1 DEF RequestOK, Served, Final, Alike, NoUser, UserIds
  <2> QED BY <1>8, <2>1
<1> QED BY <1>8, <1>10, <1>12, <1>13, <1>14, <1>15, StepKeeps

(* The handler sets the cookies: their time begins, and how long that was  *)
(* after the making of the session is known.                               *)
LEMMA SetCookiesKeeps ==
    ASSUME IInv, NEW r \in Requests, SetCookies(r), UNCHANGED <<debug, sent>>
    PROVE  IInv'
<1> DEFINE s == req[r].made
<1>1. /\ TypeOK /\ RequestOK(r) /\ Served(r) /\ Final(r) /\ req[r] \in Request
      /\ req[r].step = "cookie" /\ s \in Sids /\ owner[s] # NoUser /\ Goto(r, "answer")
  BY DEF IInv, TypeOK, SetCookies, RequestOK, ServedAsOwner, LogoutIsFinal, Served, Final
<1>2. /\ UNCHANGED stores /\ users' = users /\ nextUser' = nextUser /\ profiles' = profiles
      /\ index' = index /\ live' = live /\ owner' = owner /\ age' = age /\ fate' = fate
      /\ cookie' = cookie /\ cookieAge' = [cookieAge EXCEPT ![s] = 0]
      /\ wait' = [wait EXCEPT ![s] = age[s]] /\ debug' = debug /\ sent' = sent /\ told' = told
  BY <1>1 DEF SetCookies, stores, redis, Goto
<1>3. "answer" \in Steps
  BY DEF Steps
<1>4. PICK n \in Request : /\ req' = [req EXCEPT ![r] = n] /\ req'[r] = n
                           /\ Alike(req[r], n) /\ n.step = "answer" /\ n.user = req[r].user
                           /\ n.made = s
  BY <1>1, <1>3, GotoFacts
<1>5. req' \in [Requests -> Request] /\ \A c \in Requests : c # r => req'[c] = req[c]
  BY <1>1, <1>4 DEF TypeOK
<1>6. /\ cookieAge'[s] = 0 /\ wait'[s] = age[s]
      /\ \A t \in Sids : t # s => cookieAge'[t] = cookieAge[t] /\ wait'[t] = wait[t]
  BY <1>1, <1>2 DEF TypeOK
<1>7. TypeOK'
  <2>1. 0 \in 0..CookieLife /\ age[s] \in 0..sessionTTL
    BY <1>1 DEF TypeOK, CookieLife
  <2>2. cookieAge' \in [Sids -> {Unset} \cup 0..CookieLife] /\ wait' \in [Sids -> 0..sessionTTL]
    BY <1>1, <1>2, <2>1 DEF TypeOK
  <2> QED BY <1>1, <1>2, <1>5, <2>2 DEF TypeOK
<1>8. ~ Busy(req[r])
  BY <1>1 DEF Busy
<1>9. Grows /\ RegistrationsAreTrue' /\ IdsAreOnce'
  BY <1>2, <1>5, <1>6, <1>8, AccountsKept DEF Unset
<1>10. SessionsAreOwned'
  BY <1>1, <1>2, <1>6 DEF IInv, SessionsAreOwned, IsUserExists, GetUserByID
<1>11. CookiesOK'
  <2>1. ClocksAgree'
    <3> SUFFICES ASSUME NEW t \in Sids, cookieAge'[t] # Unset, cookieAge'[t] < CookieLife
                 PROVE  age[t] <= wait'[t] + cookieAge'[t]
      BY <1>2 DEF ClocksAgree
    <3>1. CASE t = s
      BY <1>1, <1>6, <3>1 DEF TypeOK, sessionTTL
    <3>2. CASE t # s
      BY <1>6, <3>2 DEF IInv, ClocksAgree
    <3> QED BY <3>1, <3>2
  <2>2. CookiesAreFresh'
    <3>1. ASSUME NEW b \in Browsers, cookie[b] # NoSid
          PROVE  cookieAge'[cookie[b]] # Unset /\ cookieAge'[cookie[b]] < CookieLife
      <4>1. cookie[b] \in Sids /\ cookieAge[cookie[b]] # Unset /\ cookieAge[cookie[b]] < CookieLife
        BY <1>1, <3>1 DEF IInv, CookiesAreFresh, TypeOK
      <4> QED BY <1>6, <4>1 DEF Unset, CookieLife
    <3> QED BY <1>2, <3>1 DEF CookiesAreFresh
  <2>3. SessionOutlivesCookie'
    <3> SUFFICES ASSUME NEW b \in Browsers, cookie[b] # NoSid, fate[cookie[b]] = "expired"
                 PROVE  wait'[cookie[b]] >= Leeway
      BY <1>2 DEF SessionOutlivesCookie
    <3>1. cookie[b] \in Sids /\ wait[cookie[b]] >= Leeway
      BY <1>1 DEF IInv, SessionOutlivesCookie, TypeOK
    <3>2. CASE cookie[b] = s
      BY <1>1, <1>6, <3>2 DEF IInv, SessionsAreOwned, sessionTTL, Leeway
    <3> QED BY <1>6, <3>1, <3>2
  <2> QED BY <2>1, <2>2, <2>3 DEF CookiesOK
<1>12. RequestOK(r)' /\ Served(r)' /\ Final(r)'
  <2>1. cookieAge'[s] # Unset
    BY <1>6 DEF Unset
  <2>2. RequestOK(r)'
    BY <1>1, <1>2, <1>4, <2>1 DEF RequestOK, Alike
  <2> QED BY <1>1, <1>2, <1>4, <2>2 DEF Served, Final, Alike
<1> QED BY <1>5, <1>7, <1>9, <1>10, <1>11, <1>12, StepKeeps

(* The cookies that reach a browser and are kept are not past their date,  *)
(* and belong to an expired session only if they were set very late.       *)
LEMMA KeepCookiesKeeps ==
    ASSUME IInv, NEW r \in Requests, KeepCookies(r), UNCHANGED <<debug, sent>>
    PROVE  IInv'
<1> DEFINE s == req[r].made
<1>1. /\ TypeOK /\ RequestOK(r) /\ req[r] \in Request /\ req[r].step = "answer"
      /\ s \in Sids /\ req[r].user = users[req[r].email] /\ Answer(r, 200)
      /\ req[r].op = "register" => req[r].user \in profiles \cap index
      /\ cookieAge[s] # Unset
  BY DEF IInv, TypeOK, KeepCookies, RequestOK
<1>2. req[r].browser \in Browsers
  BY <1>1, RequestFields
<1>3. /\ UNCHANGED stores /\ users' = users /\ nextUser' = nextUser /\ profiles' = profiles
      /\ index' = index /\ live' = live /\ owner' = owner /\ age' = age /\ fate' = fate
      /\ cookieAge' = cookieAge /\ wait' = wait /\ debug' = debug
      /\ \/ cookie' = cookie
         \/ cookie' = [cookie EXCEPT ![req[r].browser] =
                          IF cookieAge[s] >= CookieLife THEN NoSid ELSE s]
  BY DEF KeepCookies, stores, redis, dates
<1>4. /\ req' \in [Requests -> Request]
      /\ \A c \in Requests : c # r => req'[c] = req[c]
      /\ told \subseteq told' /\ told' \subseteq Emails \X Codes
      /\ \A e \in Emails : <<e, 200>> \in told' =>
            \/ <<e, 200>> \in told
            \/ e = req[r].email /\ req[r].op = "register"
      /\ RequestOK(r)' /\ Served(r)' /\ Final(r)'
  <2>1. PICK code : Answer(r, code)
    BY <1>1
  <2>2. TypeOK /\ Answer(r, code)
    BY <1>1, <2>1
  <2>3. /\ req' \in [Requests -> Request] /\ req'[r] = Unused
        /\ \A c \in Requests : c # r => req'[c] = req[c]
        /\ told \subseteq told' /\ told' \subseteq Emails \X Codes
        /\ req[r].op = "register" /\ code = 500 => <<req[r].email, 500>> \in told'
        /\ \A e \in Emails : <<e, 200>> \in told' =>
              \/ <<e, 200>> \in told
              \/ e = req[r].email /\ req[r].op = "register" /\ code = 200
        /\ RequestOK(r)' /\ Served(r)' /\ Final(r)'
    BY <2>2, AnswerFacts
  <2> QED BY <2>3
<1>5. /\ cookie' \in [Browsers -> Sids \cup {NoSid}]
      /\ \A b \in Browsers : \/ cookie'[b] = cookie[b]
                             \/ cookie'[b] = NoSid
                             \/ cookie'[b] = s /\ ~ (cookieAge[s] >= CookieLife)
  BY <1>1, <1>3 DEF TypeOK
<1>6. TypeOK'
  BY <1>1, <1>3, <1>4, <1>5 DEF TypeOK
<1>7. cookieAge[s] \in 0..10 /\ age[s] \in 0..24 /\ wait[s] \in 0..24
  BY <1>1 DEF TypeOK, CookieLife, sessionTTL
<1>8. CookiesOK'
  <2>1. ClocksAgree'
    BY <1>3 DEF IInv, ClocksAgree
  <2>2. CookiesAreFresh'
    BY <1>1, <1>3, <1>5, <1>7 DEF IInv, CookiesAreFresh, CookieLife
  <2>3. SessionOutlivesCookie'
    <3>1. ~ (cookieAge[s] >= CookieLife) /\ fate[s] = "expired" => wait[s] >= Leeway
      BY <1>1, <1>7 DEF IInv, ClocksAgree, SessionsAreOwned, sessionTTL, CookieLife, Leeway
    <3> QED BY <1>3, <1>5, <3>1 DEF IInv, SessionOutlivesCookie
  <2> QED BY <2>1, <2>2, <2>3 DEF CookiesOK
<1>9. SessionsAreOwned'
  BY <1>3 DEF IInv, SessionsAreOwned, IsUserExists, GetUserByID
<1>10. ~ Busy(req[r])
  BY <1>1 DEF Busy
<1>11. Grows /\ RegistrationsAreTrue' /\ IdsAreOnce'
  BY <1>1, <1>3, <1>4, <1>10, AccountsKept
<1> QED BY <1>4, <1>6, <1>8, <1>9, <1>11, StepKeeps

(* A session ends: it is taken out of Redis, and its fate is known. *)
LEMMA LogoutKeeps ==
    ASSUME IInv, NEW r \in Requests, Logout(r), UNCHANGED <<debug, sent>>
    PROVE  IInv'
<1> DEFINE sid == req[r].sid
           n == [req[r] EXCEPT !.step = "clear"]
<1>1. /\ TypeOK /\ RequestOK(r) /\ req[r] \in Request /\ req[r].step = "logout"
      /\ req[r].op \notin {"register", "login"} /\ sid \in Sids /\ ~ req[r].late
      /\ req[r].user # NoUser /\ req[r].user = owner[sid] /\ SessionsAreOwned
  <2>1. TypeOK /\ RequestOK(r) /\ req[r] \in Request /\ req[r].step = "logout" /\ SessionsAreOwned
    BY DEF IInv, TypeOK, Logout
  <2>2. req[r].op \notin {"register", "login"} /\ sid \in Sids
    BY <2>1 DEF RequestOK
  <2> QED BY <2>1, <2>2 DEF IInv, ServedAsOwner, LogoutIsFinal
<1>2. /\ UNCHANGED stores /\ users' = users /\ nextUser' = nextUser /\ profiles' = profiles
      /\ index' = index /\ owner' = owner /\ age' = age /\ cookie' = cookie
      /\ cookieAge' = cookieAge /\ wait' = wait /\ debug' = debug
      /\ live' = live \ {sid}
      /\ fate' = [fate EXCEPT ![sid] = IF @ = "none" THEN "deleted" ELSE @]
  BY DEF Logout, DeleteSession, stores, dates
<1>3. "clear" \in Steps /\ "deleted" \in Fates
  BY DEF Steps, Fates
<1>4. n \in Request /\ Alike(req[r], n) /\ n.step = "clear" /\ n.user = req[r].user
  BY <1>1, <1>3, StepFacts
<1> HIDE DEF n
<1>5. Continue(r, n)
  BY DEF Logout, n
<1>6. /\ req' \in [Requests -> Request]
      /\ \A c \in Requests : c # r => req'[c] = req[c]
      /\ told \subseteq told' /\ told' \subseteq Emails \X Codes
      /\ \A e \in Emails : <<e, 200>> \in told' => <<e, 200>> \in told
      /\ req'[r] = n \/ (RequestOK(r)' /\ Served(r)' /\ Final(r)')
  BY <1>1, <1>4, <1>5, ContinueFacts
<1>7. /\ fate' \in [Sids -> Fates] /\ fate'[sid] # "none"
      /\ \A s \in Sids : s # sid => fate'[s] = fate[s]
      /\ \A s \in Sids : fate'[s] = "expired" => fate[s] = "expired"
  BY <1>1, <1>2, <1>3 DEF TypeOK
<1>8. TypeOK'
  BY <1>1, <1>2, <1>6, <1>7 DEF TypeOK
<1>9. ~ Busy(req[r])
  BY <1>1 DEF Busy
<1>10. Grows /\ RegistrationsAreTrue' /\ IdsAreOnce'
  BY <1>2, <1>6, <1>7, <1>9, AccountsKept
<1>11. SessionsAreOwned'
  <2> SUFFICES ASSUME NEW t \in Sids
               PROVE  /\ t \in live' => owner[t] # NoUser /\ fate'[t] = "none"
                      /\ owner[t] # NoUser => \E e \in Emails : users[e] = owner[t]
                      /\ fate'[t] # "none" => owner[t] # NoUser
                      /\ fate'[t] = "expired" => age[t] = sessionTTL
                      /\ cookieAge[t] # Unset => owner[t] # NoUser
    BY <1>2 DEF SessionsAreOwned, IsUserExists, GetUserByID
  <2>1. CASE t = sid
    BY <1>1, <1>2, <1>7, <2>1 DEF SessionsAreOwned, IsUserExists, GetUserByID
  <2>2. CASE t # sid
    BY <1>1, <1>2, <1>7, <2>2 DEF SessionsAreOwned, IsUserExists, GetUserByID
  <2> QED BY <2>1, <2>2
<1>12. CookiesOK'
  BY <1>1, <1>2, <1>7
  DEF IInv, CookiesOK, ClocksAgree, CookiesAreFresh, SessionOutlivesCookie, TypeOK
<1>13. RequestOK(r)' /\ Served(r)' /\ Final(r)'
  <2>1. CASE req'[r] = n
    BY <1>1, <1>4, <1>7, <2>1 DEF RequestOK, Served, Final, Alike
  <2> QED BY <1>6, <2>1
<1> QED BY <1>6, <1>8, <1>10, <1>11, <1>12, <1>13, StepKeeps

LEMMA LogoutHandlerKeeps ==
    ASSUME IInv, NEW r \in Requests, LogoutHandler(r), UNCHANGED <<debug, sent>>
    PROVE  IInv'
<1>1. /\ TypeOK /\ RequestOK(r) /\ req[r] \in Request /\ req[r].step = "clear"
      /\ req[r].op # "register" /\ Answer(r, 200) /\ req[r].browser \in Browsers
  BY RequestFields DEF IInv, TypeOK, LogoutHandler, RequestOK
<1>2. /\ UNCHANGED stores /\ users' = users /\ nextUser' = nextUser /\ profiles' = profiles
      /\ index' = index /\ owner' = owner /\ age' = age /\ live' = live /\ fate' = fate
      /\ cookieAge' = cookieAge /\ wait' = wait /\ debug' = debug
      /\ cookie' = cookie \/ cookie' = [cookie EXCEPT ![req[r].browser] = NoSid]
  BY DEF LogoutHandler, stores, redis, dates
<1>3. /\ req' \in [Requests -> Request]
      /\ \A c \in Requests : c # r => req'[c] = req[c]
      /\ told \subseteq told' /\ told' \subseteq Emails \X Codes
      /\ \A e \in Emails : <<e, 200>> \in told' => <<e, 200>> \in told
      /\ RequestOK(r)' /\ Served(r)' /\ Final(r)'
  <2>1. PICK code : Answer(r, code)
    BY <1>1
  <2>2. /\ req' \in [Requests -> Request] /\ req'[r] = Unused
        /\ \A c \in Requests : c # r => req'[c] = req[c]
        /\ told \subseteq told' /\ told' \subseteq Emails \X Codes
        /\ req[r].op = "register" /\ code = 500 => <<req[r].email, 500>> \in told'
        /\ \A e \in Emails : <<e, 200>> \in told' =>
              \/ <<e, 200>> \in told
              \/ e = req[r].email /\ req[r].op = "register" /\ code = 200
        /\ RequestOK(r)' /\ Served(r)' /\ Final(r)'
    <3>1. TypeOK /\ Answer(r, code)
      BY <1>1, <2>1
    <3> QED BY <3>1, AnswerFacts
  <2>3. code = 200 => req[r].op # "register"
    BY <1>1
  <2> QED BY <2>2, <2>3, <1>1
<1>4. /\ cookie' \in [Browsers -> Sids \cup {NoSid}]
      /\ \A b \in Browsers : cookie'[b] \in {cookie[b], NoSid}
  BY <1>1, <1>2 DEF TypeOK
<1>5. TypeOK'
  BY <1>1, <1>2, <1>3, <1>4 DEF TypeOK
<1>6. ~ Busy(req[r])
  BY <1>1 DEF Busy
<1>7. Grows /\ RegistrationsAreTrue' /\ IdsAreOnce'
  BY <1>2, <1>3, <1>6, AccountsKept
<1>8. SessionsAreOwned'
  BY <1>2 DEF IInv, SessionsAreOwned, IsUserExists, GetUserByID
<1>9. CookiesOK'
  BY <1>2, <1>4 DEF IInv, CookiesOK, ClocksAgree, CookiesAreFresh, SessionOutlivesCookie
<1> QED BY <1>3, <1>5, <1>7, <1>8, <1>9, StepKeeps

(* Time passes by both clocks: a cookie that is still held and the session *)
(* it belongs to have grown older by the same hours.                       *)
LEMMA TickKeeps ==
    ASSUME IInv, Tick
    PROVE  IInv'
<1> DEFINE older == [s \in Sids |-> IF owner[s] = NoUser THEN 0 ELSE age[s] + Hours]
           staler == [s \in Sids |-> IF cookieAge[s] = Unset THEN Unset ELSE cookieAge[s] + Hours]
           dead  == {s \in live : Expired(older[s])}
<1>1. /\ TypeOK /\ SessionsAreOwned
      /\ UNCHANGED stores /\ users' = users /\ nextUser' = nextUser /\ profiles' = profiles
      /\ index' = index /\ owner' = owner /\ req' = req /\ sent' = sent /\ told' = told
      /\ wait' = wait /\ debug' = debug
      /\ live' = live \ dead
      /\ fate' = [s \in Sids |-> IF s \in dead THEN "expired" ELSE fate[s]]
      /\ age' = [s \in Sids |-> IF older[s] > sessionTTL THEN sessionTTL ELSE older[s]]
      /\ cookieAge' = [s \in Sids |-> IF staler[s] > CookieLife THEN CookieLife ELSE staler[s]]
      /\ cookie' = [b \in Browsers |->
                       IF cookie[b] # NoSid /\ cookieAge'[cookie[b]] >= CookieLife
                         THEN NoSid ELSE cookie[b]]
  BY DEF IInv, Tick, stores
<1>s. \A s \in Sids : staler[s] = IF cookieAge[s] = Unset THEN Unset ELSE cookieAge[s] + Hours
  OBVIOUS
<1>o. \A s \in Sids : older[s] = IF owner[s] = NoUser THEN 0 ELSE age[s] + Hours
  OBVIOUS
<1>2. \A s \in Sids : older[s] \in Nat /\ (owner[s] # NoUser => older[s] >= age[s])
  BY <1>1, HoursAssumption DEF TypeOK, sessionTTL
<1>3. \A s \in dead : s \in live /\ s \in Sids /\ older[s] >= sessionTTL
  BY <1>1 DEF TypeOK, Expired
<1> HIDE DEF older, staler, dead
<1>c. \A s \in Sids : /\ cookieAge[s] = Unset \/ cookieAge[s] \in 0..10
                      /\ age[s] \in 0..24 /\ wait[s] \in 0..24
  BY <1>1 DEF TypeOK, CookieLife, sessionTTL
<1>d. \A s \in Sids : /\ cookieAge'[s] = IF staler[s] > CookieLife THEN CookieLife ELSE staler[s]
                      /\ cookieAge'[s] \in {Unset} \cup 0..CookieLife
                      /\ cookieAge'[s] = Unset <=> cookieAge[s] = Unset
                      /\ (cookieAge'[s] # Unset /\ cookieAge'[s] < CookieLife =>
                            cookieAge'[s] = cookieAge[s] + Hours)
  <2> TAKE s \in Sids
  <2>1. cookieAge'[s] = IF staler[s] > CookieLife THEN CookieLife ELSE staler[s]
    BY <1>1
  <2>2. staler[s] = IF cookieAge[s] = Unset THEN Unset ELSE cookieAge[s] + Hours
    BY <1>s
  <2>3. cookieAge[s] = Unset \/ cookieAge[s] \in 0..10
    BY <1>c
  <2> QED BY <2>1, <2>2, <2>3, HoursAssumption DEF CookieLife, Unset
<1>e. \A s \in Sids : /\ cookieAge'[s] # Unset => cookieAge[s] # Unset
                      /\ cookieAge[s] # Unset => cookieAge'[s] # Unset
                      /\ cookieAge'[s] \in {Unset} \cup 0..CookieLife
  BY <1>d
<1>f. \A s \in Sids : cookieAge'[s] # Unset => cookieAge'[s] \in 0..10
  BY <1>e DEF CookieLife
<1>g. ASSUME NEW s \in Sids, cookieAge'[s] # Unset, cookieAge'[s] < CookieLife
      PROVE  /\ cookieAge[s] \in 0..10 /\ cookieAge[s] < CookieLife
             /\ cookieAge'[s] = cookieAge[s] + Hours
  <2>1. cookieAge[s] # Unset
    BY <1>e, <1>g
  <2>2. cookieAge[s] \in 0..10
    BY <1>c, <2>1
  <2>3. cookieAge'[s] = cookieAge[s] + Hours
    BY <1>d, <1>g
  <2> QED BY <1>g, <2>2, <2>3, HoursAssumption DEF CookieLife
<1>4. \A s \in Sids : /\ age'[s] = IF older[s] > sessionTTL THEN sessionTTL ELSE older[s]
                      /\ age'[s] \in 0..sessionTTL
  BY <1>1, <1>2 DEF sessionTTL
<1>a. \A s \in Sids : older[s] >= sessionTTL => age'[s] = sessionTTL
  BY <1>2, <1>4 DEF sessionTTL
<1>5. \A s \in Sids : fate'[s] = IF s \in dead THEN "expired" ELSE fate[s]
  BY <1>1
<1>6. TypeOK'
  <2>1. fate' \in [Sids -> Fates]
    BY <1>1 DEF TypeOK, Fates
  <2>3. age' \in [Sids -> 0..sessionTTL]
    <3>1. \A s \in Sids : (IF older[s] > sessionTTL THEN sessionTTL ELSE older[s]) \in 0..sessionTTL
      BY <1>2 DEF sessionTTL
    <3> QED BY <1>1, <3>1
  <2>2. cookie' \in [Browsers -> Sids \cup {NoSid}]
    BY <1>1 DEF TypeOK
  <2>4. cookieAge' \in [Sids -> {Unset} \cup 0..CookieLife]
    <3>1. \A s \in Sids :
             (IF staler[s] > CookieLife THEN CookieLife ELSE staler[s]) \in {Unset} \cup 0..CookieLife
      BY <1>d, <1>e
    <3> QED BY <1>1, <3>1
  <2> QED BY <1>1, <2>1, <2>2, <2>3, <2>4 DEF TypeOK
<1>7. Grows
  BY <1>1, <1>5, <1>e DEF Grows
<1>8. IdsAreOnce' /\ RegistrationsAreTrue'
  BY <1>1 DEF IInv, IdsAreOnce, RegistrationsAreTrue, InProgress
<1>9. SessionsAreOwned'
  <2> SUFFICES ASSUME NEW t \in Sids
               PROVE  /\ t \in live' => owner[t] # NoUser /\ fate'[t] = "none"
                      /\ owner[t] # NoUser => \E e \in Emails : users[e] = owner[t]
                      /\ fate'[t] # "none" => owner[t] # NoUser
                      /\ fate'[t] = "expired" => age'[t] = sessionTTL
                      /\ cookieAge'[t] # Unset => owner[t] # NoUser
    BY <1>1 DEF SessionsAreOwned, IsUserExists, GetUserByID
  <2>1. /\ t \in live => owner[t] # NoUser /\ fate[t] = "none"
        /\ owner[t] # NoUser => \E e \in Emails : users[e] = owner[t]
        /\ fate[t] # "none" => owner[t] # NoUser
        /\ fate[t] = "expired" => age[t] = sessionTTL
        /\ cookieAge'[t] # Unset => owner[t] # NoUser
    BY <1>1, <1>e DEF SessionsAreOwned, IsUserExists, GetUserByID
  <2>2. fate[t] = "expired" => age'[t] = sessionTTL
    <3> SUFFICES ASSUME fate[t] = "expired" PROVE age'[t] = sessionTTL
      OBVIOUS
    <3>1. older[t] >= sessionTTL
      BY <1>2, <2>1 DEF sessionTTL
    <3> QED BY <1>a, <3>1
  <2>3. CASE t \in dead
    BY <1>1, <1>3, <1>a, <1>5, <2>1, <2>3
  <2>4. CASE t \notin dead
    BY <1>1, <1>5, <2>1, <2>2, <2>4
  <2> QED BY <2>3, <2>4
<1>10. ClocksAgree'
  <2> SUFFICES ASSUME NEW t \in Sids, cookieAge'[t] # Unset, cookieAge'[t] < CookieLife
               PROVE  age'[t] <= wait[t] + cookieAge'[t]
    BY <1>1 DEF ClocksAgree
  <2>1. cookieAge[t] \in 0..10 /\ cookieAge'[t] = cookieAge[t] + Hours /\ cookieAge[t] < CookieLife
    BY <1>g
  <2>2. cookieAge[t] # Unset
    BY <1>e
  <2>3. age[t] <= wait[t] + cookieAge[t]
    BY <2>1, <2>2 DEF IInv, ClocksAgree
  <2>4. owner[t] # NoUser
    BY <1>1, <2>2 DEF SessionsAreOwned
  <2>5. older[t] = age[t] + Hours
    BY <1>o, <2>4
  <2>6. age[t] \in 0..24 /\ wait[t] \in 0..24
    BY <1>c
  <2>7. age'[t] = IF older[t] > sessionTTL THEN sessionTTL ELSE older[t]
    BY <1>4
  <2>8. age'[t] <= age[t] + Hours
    BY <2>5, <2>6, <2>7, HoursAssumption DEF sessionTTL
  <2>9. age'[t] \in Int /\ Hours \in Int
    BY <2>5, <2>6, <2>7, HoursAssumption DEF sessionTTL
  <2>10. age[t] + Hours <= wait[t] + (cookieAge[t] + Hours)
    BY <2>1, <2>3, <2>6, <2>9
  <2> QED BY <2>1, <2>6, <2>8, <2>9, <2>10
<1>11. CookiesAreFresh'
  <2> SUFFICES ASSUME NEW b \in Browsers, cookie'[b] # NoSid
               PROVE  cookieAge'[cookie'[b]] # Unset /\ cookieAge'[cookie'[b]] < CookieLife
    BY DEF CookiesAreFresh
  <2>1. /\ cookie'[b] = cookie[b] /\ cookie[b] \in Sids /\ cookie[b] # NoSid
        /\ ~ (cookieAge'[cookie[b]] >= CookieLife)
    BY <1>1 DEF TypeOK
  <2>2. cookieAge[cookie[b]] # Unset
    BY <2>1 DEF IInv, CookiesAreFresh
  <2>3. cookieAge'[cookie[b]] # Unset /\ cookieAge'[cookie[b]] \in 0..CookieLife
    BY <1>e, <2>1, <2>2
  <2> QED BY <2>1, <2>3 DEF CookieLife, Unset
<1>12. SessionOutlivesCookie'
  <2> SUFFICES ASSUME NEW b \in Browsers, cookie'[b] # NoSid, fate'[cookie'[b]] = "expired"
               PROVE  wait[cookie'[b]] >= Leeway
    BY <1>1 DEF SessionOutlivesCookie
  <2>1. cookie'[b] \in Sids
    BY <1>6, NoSidAssumption DEF TypeOK
  <2>2. /\ age'[cookie'[b]] = sessionTTL
        /\ cookieAge'[cookie'[b]] # Unset /\ cookieAge'[cookie'[b]] < CookieLife
    BY <1>9, <1>11, <2>1 DEF SessionsAreOwned, CookiesAreFresh
  <2>3. age'[cookie'[b]] <= wait[cookie'[b]] + cookieAge'[cookie'[b]]
    BY <1>1, <1>10, <2>1, <2>2 DEF ClocksAgree
  <2>4. cookieAge'[cookie'[b]] \in 0..10 /\ wait[cookie'[b]] \in 0..24
    BY <1>c, <1>f, <2>1, <2>2
  <2> QED BY <2>2, <2>3, <2>4 DEF sessionTTL, CookieLife, Leeway
<1>13. \A r \in Requests : RequestOK(r)' /\ Served(r)' /\ Final(r)'
  BY <1>1, <1>7, OthersKeep
<1>14. ServedAsOwner' /\ LogoutIsFinal'
  BY <1>13 DEF Served, Final, ServedAsOwner, LogoutIsFinal
<1> QED BY <1>6, <1>8, <1>9, <1>10, <1>11, <1>12, <1>13, <1>14 DEF IInv

-------------------------------------------------------------------------------
(* The theorems. *)

LEMMA InitIInv == Init => IInv
<1> SUFFICES ASSUME Init PROVE IInv
  OBVIOUS
<1>1. TypeOK
  <2>1. req \in [Requests -> Request]
    BY UnusedFacts DEF Init
  <2>2. fate \in [Sids -> Fates] /\ age \in [Sids -> 0..sessionTTL]
    BY DEF Init, Fates, sessionTTL
  <2>3. cookieAge \in [Sids -> {Unset} \cup 0..CookieLife] /\ wait \in [Sids -> 0..sessionTTL]
    BY DEF Init, sessionTTL
  <2> QED BY <2>1, <2>2, <2>3, MaxUsersAssumption, MaxSentAssumption DEF Init, TypeOK
<1>2. IdsAreOnce /\ SessionsAreOwned /\ RegistrationsAreTrue
  BY DEF Init, IdsAreOnce, SessionsAreOwned, RegistrationsAreTrue, NoUser
<1>5. ClocksAgree /\ CookiesAreFresh /\ SessionOutlivesCookie
  BY DEF Init, ClocksAgree, CookiesAreFresh, SessionOutlivesCookie
<1>3. \A r \in Requests : req[r] = Unused
  BY DEF Init
<1>4. (\A r \in Requests : RequestOK(r)) /\ ServedAsOwner /\ LogoutIsFinal
  BY <1>3, UnusedFacts DEF RequestOK, ServedAsOwner, LogoutIsFinal
<1> QED BY <1>1, <1>2, <1>4, <1>5 DEF IInv

LEMMA NextIInv == IInv /\ [Next]_vars => IInv'
<1> SUFFICES ASSUME IInv, [Next]_vars PROVE IInv'
  OBVIOUS
<1>1. ASSUME NEW r \in Requests, NEW b \in Browsers, NEW op \in Ops, NEW email \in Named(op),
             NEW token \in Tokens(op), Send(r, b, op, email, token)
      PROVE  IInv'
  <2>1. email \in Emails /\ token \in Sids \cup {NoSid}
    BY UnusedFacts DEF Named, Tokens
  <2> QED BY <1>1, <2>1, SendKeeps
<1>2. ASSUME NEW r \in Requests, Step(r), UNCHANGED <<debug, sent>> PROVE IInv'
  <2>1. CASE AuthMiddleware(r) \/ Serve(r) \/ RegisterHandler(r) \/ LoginHandler(r)
    BY <1>2, <2>1, AuthMiddlewareKeeps, ServeKeeps, HandlerKeeps
  <2>2. CASE Register(r) \/ CreateUser(r) \/ CreateProfile(r) \/ IndexProfile(r) \/ Login(r)
    BY <1>2, <2>2, RegisterKeeps, CreateUserKeeps, CreateProfileKeeps, IndexProfileKeeps, LoginKeeps
  <2>3. CASE AddSession(r) \/ SetCookies(r) \/ KeepCookies(r) \/ Logout(r) \/ LogoutHandler(r)
    BY <1>2, <2>3, AddSessionKeeps, SetCookiesKeeps, KeepCookiesKeeps, LogoutKeeps, LogoutHandlerKeeps
  <2>4. CASE IsLoggedInHandler(r) \/ GetUserRole(r)
    BY <1>2, <2>4, IsLoggedInHandlerKeeps, GetUserRoleKeeps
  <2> QED BY <1>2, <2>1, <2>2, <2>3, <2>4 DEF Step
<1>3. ASSUME NEW r \in Requests, Fail(r), UNCHANGED <<debug, sent>> PROVE IInv'
  BY <1>3, FailKeeps
<1>4. CASE Tick
  BY <1>4, TickKeeps
<1>5. CASE UNCHANGED vars
  <2>1. /\ UNCHANGED <<stores, redis, dates, cookie>> /\ req' = req /\ sent' = sent /\ told' = told
        /\ users' = users /\ profiles' = profiles /\ index' = index /\ debug' = debug
    BY <1>5 DEF vars, stores
  <2>2. TypeOK' /\ Grows /\ IdsAreOnce' /\ SessionsAreOwned' /\ CookiesOK'
    BY <2>1, QuietFacts DEF IInv, TypeOK
  <2>3. RegistrationsAreTrue'
    BY <2>1 DEF IInv, RegistrationsAreTrue, InProgress
  <2>4. \A r \in Requests : RequestOK(r)' /\ Served(r)' /\ Final(r)'
    BY <2>1, <2>2, OthersKeep
  <2>5. ServedAsOwner' /\ LogoutIsFinal'
    BY <2>4 DEF Served, Final, ServedAsOwner, LogoutIsFinal
  <2> QED BY <2>2, <2>3, <2>4, <2>5 DEF IInv, CookiesOK
<1> QED BY <1>1, <1>2, <1>3, <1>4, <1>5 DEF Next

LEMMA SpecIInv == Spec => []IInv
  BY InitIInv, NextIInv, PTL DEF Spec

(* Behind AuthMiddleware a handler acts for the owner of the session the   *)
(* request came with, who exists, and, unless the gateway runs in debug    *)
(* mode, with the token of that session where the method is unsafe,        *)
(* whichever tokens the pages of a browser still have; a login hands out a *)
(* session of the account it named; and nobody is served with the cookie   *)
(* of a session that was over when he sent it, whatever requests, lost     *)
(* answers and expiries come in between.                                   *)
THEOREM ServesOnlyOwners == Spec => []OnlyOwnersServed
<1>1. IInv => OnlyOwnersServed
  BY DEF IInv, OnlyOwnersServed
<1> QED BY <1>1, SpecIInv, PTL

(* Who was told that he is registered has a row in all three stores, and   *)
(* an account that is only in some of them was reported as an error or is  *)
(* still being made, however many registrations of however many emails     *)
(* overlap and wherever they fail.                                         *)
THEOREM RegistersTruly == Spec => []RegistrationsAreTrue
<1>1. IInv => RegistrationsAreTrue
  BY DEF IInv
<1> QED BY <1>1, SpecIInv, PTL

(* A browser holds the cookie of an expired session only if the handler    *)
(* set it Leeway or more after the session was made: the clock of the      *)
(* cookie starts when the login is answered, the clock of Redis before,    *)
(* and however far time jumps and however late the answer arrives, only    *)
(* what lies between the two can make the session end first.               *)
THEOREM CookiesGoFirst == Spec => []SessionOutlivesCookie
<1>1. IInv => SessionOutlivesCookie
  BY DEF IInv
<1> QED BY <1>1, SpecIInv, PTL

-------------------------------------------------------------------------------
(* Applications: requests. *)

(* What the fields of a request are. *)
LEMMA AppRequestFields ==
    ASSUME NEW q \in AppRequest
    PROVE  /\ q.user \in Users \cup {Nobody} /\ q.temp \in Temps \cup {NoTemp}
           /\ q.browser \in Clients \cup {NoClient}
           /\ q.fresh \in BOOLEAN /\ q.merge \in BOOLEAN
           /\ q.shown \subseteq AppIds /\ q.step \in AppSteps
  BY DEF AppRequest

(* A request that is not under way. *)
LEMMA IdleFacts ==
    /\ NoRequest \in AppRequest
    /\ NoRequest.step = "idle" /\ NoRequest.user = Nobody /\ NoRequest.temp = NoTemp
    /\ NoRequest.fresh = FALSE /\ NoRequest.merge = FALSE /\ NoRequest.shown = {}
  BY DEF NoRequest, AppRequest, AppSteps, AppOps

(* A request as it arrives. *)
LEMMA ArriveFacts ==
    ASSUME NEW op \in AppOps, NEW b \in Clients,
           NEW u \in Users \cup {Nobody}, NEW t \in Temps \cup {NoTemp}
    PROVE  LET n == [NoRequest EXCEPT !.op = op, !.browser = b, !.step = "handle",
                                      !.user = u, !.temp = t]
           IN  /\ n \in AppRequest
               /\ n.browser = b /\ n.step = "handle" /\ n.user = u /\ n.temp = t
               /\ n.fresh = FALSE /\ n.merge = FALSE /\ n.shown = {}
  BY DEF NoRequest, AppRequest, AppSteps, AppOps

(* A request on its way back. *)
LEMMA BackFacts ==
    ASSUME NEW q \in AppRequest, NEW m \in BOOLEAN
    PROVE  LET n == [q EXCEPT !.step = "answer", !.op = NoRequest.op, !.merge = m]
           IN  /\ n \in AppRequest
               /\ n.step = "answer" /\ n.merge = m
               /\ n.browser = q.browser /\ n.user = q.user /\ n.temp = q.temp
               /\ n.fresh = q.fresh /\ n.shown = q.shown
  BY DEF NoRequest, AppRequest, AppSteps, AppOps

(* A request that goes on to its query. *)
LEMMA QueryFacts ==
    ASSUME NEW q \in AppRequest
    PROVE  LET n == [q EXCEPT !.step = "query"]
           IN  /\ n \in AppRequest
               /\ n.step = "query" /\ n.merge = q.merge
               /\ n.browser = q.browser /\ n.user = q.user /\ n.temp = q.temp
               /\ n.fresh = q.fresh /\ n.shown = q.shown
  BY DEF AppRequest, AppSteps

(* A request that was given a temporary session, or a list. *)
LEMMA FreshFacts ==
    ASSUME NEW q \in AppRequest, NEW t \in Temps
    PROVE  LET n == [q EXCEPT !.temp = t, !.fresh = TRUE]
           IN  /\ n \in AppRequest
               /\ n.step = q.step /\ n.merge = q.merge
               /\ n.browser = q.browser /\ n.user = q.user /\ n.temp = t
               /\ n.fresh = TRUE /\ n.shown = q.shown
  BY DEF AppRequest

LEMMA ShownFacts ==
    ASSUME NEW q \in AppRequest, NEW S \in SUBSET AppIds
    PROVE  LET n == [q EXCEPT !.shown = S]
           IN  /\ n \in AppRequest
               /\ n.step = q.step /\ n.merge = q.merge
               /\ n.browser = q.browser /\ n.user = q.user /\ n.temp = q.temp
               /\ n.fresh = q.fresh /\ n.shown = S
  BY DEF AppRequest

(* A request whose answer is over, and one whose goroutine is. *)
LEMMA DoneFacts ==
    ASSUME NEW q \in AppRequest
    PROVE  LET n == [q EXCEPT !.step = "idle", !.shown = {}, !.browser = NoClient]
           IN  /\ n \in AppRequest
               /\ n.step = "idle" /\ n.merge = q.merge /\ n.user = q.user /\ n.temp = q.temp
               /\ n.fresh = q.fresh /\ n.shown = {}
  BY DEF AppRequest, AppSteps

LEMMA EndedFacts ==
    ASSUME NEW q \in AppRequest
    PROVE  LET n == [q EXCEPT !.merge = FALSE]
           IN  /\ n \in AppRequest
               /\ n.step = q.step /\ n.merge = FALSE
               /\ n.browser = q.browser /\ n.user = q.user /\ n.temp = q.temp
               /\ n.fresh = q.fresh /\ n.shown = q.shown
  BY DEF AppRequest

(* Nobody holds a uuid that was never used, nobody presented it. *)
LEMMA UnusedTempsFacts ==
    ASSUME NEW t \in UnusedTemps
    PROVE  /\ t \in Temps
           /\ \A b \in Clients : temp[b] # t
           /\ \A c \in Calls : appReq[c].temp # t
           /\ \A b \in Clients : ~ Holds(b, t)
           /\ \A u \in Users : <<u, t>> \notin presented
  BY DEF UnusedTemps, Holds, Carries

-------------------------------------------------------------------------------
(* Steps that leave the rows and what was presented and merged alone. *)

LEMMA RowsStay ==
    ASSUME AppsIInv, UNCHANGED <<apps, nextApp, merged, presented>>,
           kept \subseteq kept', forgotten \subseteq forgotten',
           \A t \in Temps : Claimable(t) => Claimable(t)' \/ t \in merged \cup forgotten'
    PROVE  /\ NoApplicationLost' /\ AuthorPresentedIt' /\ RowsAreTrue'
           /\ \A a \in Rows' : apps'[a].temp \in merged' =>
                 apps'[a].author # Nobody \/ apps'[a].temp \in forgotten'
<1>1. apps' = apps /\ merged' = merged /\ presented' = presented /\ Rows' = Rows
  BY DEF Rows
<1>2. \A a \in Rows : apps[a] \in App /\ apps[a].temp \in Temps \cup {NoTemp}
  BY DEF AppsIInv, ApplicationsAreKept, AppsTypeOK, App
<1>3. \A a \in Rows : apps[a].temp \in merged =>
         apps[a].author # Nobody \/ apps[a].temp \in forgotten'
  BY DEF AppsIInv, Traced
<1>4. ASSUME NEW a \in Rows, NEW t \in Temps \cup {NoTemp}, apps[a].author = Nobody, apps[a].temp = t
      PROVE  t # NoTemp /\ (Claimable(t)' \/ t \in forgotten')
  <2>1. t # NoTemp /\ (Claimable(t) \/ t \in forgotten)
    BY <1>4 DEF AppsIInv, ApplicationsAreKept, NoApplicationLost
  <2> QED BY <1>3, <1>4, <2>1
<1>5. NoApplicationLost'
  BY <1>1, <1>2, <1>4 DEF NoApplicationLost, Claimable
<1>6. AuthorPresentedIt'
  BY <1>1 DEF AppsIInv, ApplicationsAreKept, AuthorPresentedIt
<1>7. RowsAreTrue'
  BY <1>1 DEF AppsIInv, RowsAreTrue
<1> QED BY <1>1, <1>3, <1>5, <1>6, <1>7

(* What such a step owes: a request it changes is well formed, lists       *)
(* nothing and can still be traced, no browser comes to hold anything new. *)
LEMMA AppsStepKeeps ==
    ASSUME AppsIInv, UNCHANGED <<apps, nextApp, merged, presented>>, AppsTypeOK',
           kept \subseteq kept', forgotten \subseteq forgotten',
           \A t \in Temps : Claimable(t) => Claimable(t)' \/ t \in merged \cup forgotten',
           \A c \in Calls :
              \/ appReq'[c] = appReq[c]
              \/ /\ RequestOfBrowser(c)' /\ appReq'[c].shown = {}
                 /\ \A t \in Temps : appReq'[c].temp = t =>
                       Claimable(t)' \/ t \in merged \cup forgotten',
           \A b \in Clients, t \in Temps : Holds(b, t)' => Holds(b, t),
           OnePresents', FreshIsNew'
    PROVE  AppsIInv'
<1>1. apps' = apps /\ merged' = merged /\ presented' = presented /\ Rows' = Rows
  BY DEF Rows
<1>2. /\ NoApplicationLost' /\ AuthorPresentedIt' /\ RowsAreTrue'
      /\ \A a \in Rows' : apps'[a].temp \in merged' =>
            apps'[a].author # Nobody \/ apps'[a].temp \in forgotten'
  BY RowsStay
<1>3. OneHome'
  BY DEF AppsIInv, OneHome
<1>4. \A c \in Calls : appReq[c] \in AppRequest /\ appReq'[c] \in AppRequest
  BY DEF AppsIInv, ApplicationsAreKept, AppsTypeOK
<1>5. ASSUME NEW c \in Calls, NEW t \in Temps, appReq'[c].temp = t
      PROVE  Claimable(t)' \/ t \in merged \cup forgotten'
  <2>1. CASE appReq'[c] = appReq[c]
    <3>1. appReq[c].temp = t /\ t # NoTemp
      BY <1>5, <2>1, NullAssumption
    <3>2. Claimable(t) \/ t \in merged \cup forgotten
      BY <3>1 DEF AppsIInv, Traced
    <3> QED BY <3>2
  <2> QED BY <1>5, <2>1
<1>6. Traced'
  <2>1. ASSUME NEW c \in Calls, appReq'[c].temp # NoTemp
        PROVE  Claimable(appReq[c].temp)' \/ appReq'[c].temp \in merged' \cup forgotten'
    <3>1. PICK t \in Temps : appReq'[c].temp = t
      BY <1>4, <2>1, AppRequestFields
    <3>2. Claimable(t)' \/ t \in merged \cup forgotten'
      BY <1>5, <3>1
    <3> QED BY <1>1, <3>1, <3>2 DEF Claimable
  <2> QED BY <1>2, <2>1 DEF Traced
<1>7. ListsOnlyTheirs'
  <2> SUFFICES ASSUME NEW c \in Calls, NEW a \in appReq'[c].shown
               PROVE  LET u == appReq'[c].user
                      IN  \/ u \in Admins
                          \/ apps[a].writer = u
                          \/ apps[a].writer = Nobody /\ <<u, apps[a].under>> \in presented
                          \/ apps[a].under \in kept'
    BY <1>1 DEF ListsOnlyTheirs
  <2>1. appReq'[c] = appReq[c]
    OBVIOUS
  <2> QED BY <2>1 DEF AppsIInv, ListsOnlyTheirs
<1>8. ASSUME NEW c \in Calls PROVE RequestOfBrowser(c)'
  <2>1. CASE appReq'[c] = appReq[c]
    <3>1. RequestOfBrowser(c)
      BY DEF AppsIInv
    <3> QED BY <1>1, <2>1, <3>1 DEF RequestOfBrowser, Merging
  <2> QED BY <2>1
<1>9. AppsTypeOK' /\ OnePresents' /\ FreshIsNew'
  OBVIOUS
<1> QED BY <1>2, <1>3, <1>6, <1>7, <1>8, <1>9 DEF AppsIInv, ApplicationsAreKept

LEMMA SignInKeeps ==
    ASSUME AppsIInv, NEW b \in Clients, NEW u \in Users \cup {Nobody}, SignIn(b, u)
    PROVE  AppsIInv'
<1>1. /\ UNCHANGED <<apps, nextApp, merged, presented>> /\ kept' = kept /\ forgotten' = forgotten
      /\ temp' = temp /\ appReq' = appReq /\ asked' = asked
      /\ session' = [session EXCEPT ![b] = u]
  BY DEF SignIn, history
<1>2. AppsTypeOK'
  BY <1>1 DEF AppsIInv, ApplicationsAreKept, AppsTypeOK, Rows
<1>3. OnePresents' /\ FreshIsNew'
  BY <1>1 DEF AppsIInv, OnePresents, FreshIsNew, Merging
<1>4. /\ \A t \in Temps : Claimable(t)' <=> Claimable(t)
      /\ \A c \in Clients, t \in Temps : Holds(c, t)' <=> Holds(c, t)
  BY <1>1 DEF Claimable, Holds, Carries
<1>5. \A c \in Calls : appReq'[c] = appReq[c]
  BY <1>1
<1>6. kept \subseteq kept' /\ forgotten \subseteq forgotten'
  BY <1>1
<1> QED BY <1>1, <1>2, <1>3, <1>4, <1>5, <1>6, AppsStepKeeps

LEMMA CookieExpiresKeeps ==
    ASSUME AppsIInv, NEW b \in Clients, CookieExpires(b)
    PROVE  AppsIInv'
<1>1. /\ UNCHANGED <<apps, nextApp, merged, presented>> /\ kept' = kept
      /\ session' = session /\ appReq' = appReq /\ asked' = asked
      /\ temp[b] # NoTemp /\ temp' = [temp EXCEPT ![b] = NoTemp]
      /\ forgotten' = forgotten \cup {temp[b]}
  BY DEF CookieExpires
<1>2. AppsTypeOK
  BY DEF AppsIInv, ApplicationsAreKept
<1>3. AppsTypeOK' /\ temp'[b] = NoTemp /\ \A c \in Clients : c # b => temp'[c] = temp[c]
  BY <1>1, <1>2 DEF AppsTypeOK, Rows
<1>4. \A c \in Clients, t \in Temps : temp'[c] = t => temp[c] = t
  BY <1>3, NullAssumption
<1>5. OnePresents'
  <2>1. \A c \in Clients, t \in Temps : temp'[c] = t => temp[c] = t
    BY <1>4
  <2> QED BY <1>1, <2>1 DEF AppsIInv, OnePresents, Merging
<1>6. FreshIsNew'
  <2>1. \A c \in Calls : appReq[c].fresh => appReq[c].temp \in Temps
    BY <1>2, AppRequestFields DEF AppsIInv, RequestOfBrowser, AppsTypeOK
  <2> QED BY <1>1, <1>4, <2>1 DEF AppsIInv, FreshIsNew
<1>7. ASSUME NEW t \in Temps, Claimable(t)
      PROVE  Claimable(t)' \/ t \in merged \cup forgotten'
  <2>1. CASE temp[b] = t
    BY <1>1, <2>1
  <2>2. CASE temp[b] # t
    BY <1>1, <1>3, <1>7, <2>2 DEF Claimable
  <2> QED BY <2>1, <2>2
<1>8. \A c \in Clients, t \in Temps : Holds(c, t)' => Holds(c, t)
  BY <1>1, <1>4 DEF Holds, Carries
<1>9. \A c \in Calls : appReq'[c] = appReq[c]
  BY <1>1
<1>10. kept \subseteq kept' /\ forgotten \subseteq forgotten'
  BY <1>1
<1> QED BY <1>1, <1>3, <1>5, <1>6, <1>7, <1>8, <1>9, <1>10, AppsStepKeeps

(* The request that arrives carries what its browser holds; if that makes  *)
(* two users carry one temporary session, it is one that was not taken     *)
(* back in time.                                                           *)
LEMMA GetTempSessionIDKeeps ==
    ASSUME AppsIInv, NEW c \in Calls, NEW b \in Clients, NEW op \in AppOps,
           GetTempSessionID(c, b, op)
    PROVE  AppsIInv'
<1> DEFINE n == [NoRequest EXCEPT !.op = op, !.browser = b, !.step = "handle",
                                  !.user = session[b], !.temp = temp[b]]
<1>1. AppsTypeOK /\ appReq[c] = NoRequest
  BY DEF AppsIInv, ApplicationsAreKept, GetTempSessionID
<1>2. session[b] \in Users \cup {Nobody} /\ temp[b] \in Temps \cup {NoTemp}
  BY <1>1 DEF AppsTypeOK
<1>3. /\ n \in AppRequest
      /\ n.browser = b /\ n.step = "handle" /\ n.user = session[b] /\ n.temp = temp[b]
      /\ n.fresh = FALSE /\ n.merge = FALSE /\ n.shown = {}
  BY <1>2, ArriveFacts
<1>4. appReq' = [appReq EXCEPT ![c] = n]
  BY DEF GetTempSessionID
<1> HIDE DEF n
<1>5. /\ UNCHANGED <<apps, nextApp, merged, presented>> /\ session' = session /\ temp' = temp
      /\ kept' = kept \cup Overlap(b) /\ forgotten' = forgotten /\ Rows' = Rows
      /\ asked < MaxAsked /\ asked' = asked + 1
  BY DEF GetTempSessionID, Rows
<1>6. /\ appReq' \in [Calls -> AppRequest] /\ appReq'[c] = n
      /\ \A d \in Calls : d # c => appReq'[d] = appReq[d]
  BY <1>1, <1>3, <1>4 DEF AppsTypeOK
<1>7. Overlap(b) \subseteq Temps
  BY <1>2 DEF Overlap
<1>8. AppsTypeOK'
  BY <1>1, <1>5, <1>6, <1>7, MaxAppsAssumption DEF AppsTypeOK
<1>9. RequestOfBrowser(c)'
  BY <1>3, <1>5, <1>6 DEF RequestOfBrowser
<1>10. ASSUME NEW t \in Temps, Claimable(t) PROVE Claimable(t)'
  <2>1. ASSUME NEW d \in Calls, appReq[d].temp = t, appReq[d].fresh \/ appReq[d].merge
        PROVE  Claimable(t)'
    <3>1. d # c
      BY <1>1, <2>1, IdleFacts
    <3> QED BY <1>6, <2>1, <3>1 DEF Claimable
  <2> QED BY <1>5, <1>10, <2>1 DEF Claimable
<1>11. ASSUME NEW e \in Clients, NEW t \in Temps, Holds(e, t)' PROVE Holds(e, t)
  <2>1. CASE Carries(c, e, t)'
    BY <1>3, <1>6, <2>1 DEF Carries, Holds
  <2>2. ASSUME NEW d \in Calls, d # c, Carries(d, e, t)' PROVE Holds(e, t)
    BY <1>6, <2>2 DEF Carries, Holds
  <2> QED BY <1>5, <1>11, <2>1, <2>2 DEF Holds
<1>12. ASSUME NEW t \in Temps, appReq'[c].temp = t
       PROVE  Claimable(t)' \/ t \in merged \cup forgotten'
  BY <1>3, <1>5, <1>6, <1>12 DEF Claimable
<1>13. ASSUME NEW d \in Calls, d # c, appReq[d].step # "idle", appReq[d].temp = temp[b],
              temp[b] # NoTemp, session[b] # Nobody, appReq[d].user # Nobody,
              temp[b] \notin kept'
       PROVE  appReq[d].user = session[b]
  BY <1>5, <1>13 DEF Overlap
<1>14. OnePresents'
  <2>1. ASSUME NEW d \in Calls, NEW e \in Calls,
               appReq'[d].step # "idle", appReq'[e].step # "idle",
               appReq'[d].temp = appReq'[e].temp, Merging(appReq'[d]), Merging(appReq'[e])
        PROVE  appReq'[d].user = appReq'[e].user \/ appReq'[d].temp \in kept'
    <3>1. CASE d # c /\ e # c
      BY <1>5, <1>6, <2>1, <3>1 DEF AppsIInv, OnePresents, Merging
    <3>2. CASE d = c /\ e # c
      BY <1>3, <1>6, <1>13, <2>1, <3>2 DEF Merging
    <3>3. CASE d # c /\ e = c
      BY <1>3, <1>6, <1>13, <2>1, <3>3 DEF Merging
    <3> QED BY <3>1, <3>2, <3>3
  <2>2. ASSUME NEW u \in Users, NEW t \in Temps, <<u, t>> \in presented, t \notin kept'
        PROVE  /\ \A v \in Users : <<v, t>> \in presented => v = u
               /\ \A d \in Calls : appReq'[d].step # "idle" /\ appReq'[d].temp = t =>
                     appReq'[d].user \in {u, Nobody}
               /\ \A e \in Clients : temp[e] = t =>
                     \E d \in Calls : /\ appReq'[d].step = "answer"
                                      /\ appReq'[d].temp = t /\ appReq'[d].user = u
    <3>0. t \notin kept /\ t # NoTemp /\ u # Nobody
      BY <1>5, <2>2, NullAssumption
    <3>1. \A v \in Users : <<v, t>> \in presented => v = u
      BY <2>2, <3>0 DEF AppsIInv, OnePresents
    <3>2. \A d \in Calls : appReq[d].step # "idle" /\ appReq[d].temp = t =>
             appReq[d].user \in {u, Nobody}
      BY <2>2, <3>0 DEF AppsIInv, OnePresents
    <3>3. ASSUME NEW e \in Clients, temp[e] = t
          PROVE  \E d \in Calls : /\ d # c /\ appReq[d].step = "answer"
                                  /\ appReq[d].temp = t /\ appReq[d].user = u
      BY <1>1, <2>2, <3>0, <3>3, IdleFacts DEF AppsIInv, OnePresents
    <3>4. ASSUME NEW d \in Calls, appReq'[d].step # "idle", appReq'[d].temp = t
          PROVE  appReq'[d].user \in {u, Nobody}
      <4>1. CASE d # c
        BY <1>6, <3>2, <3>4, <4>1
      <4>2. CASE d = c
        <5>1. temp[b] = t /\ appReq'[d].user = session[b]
          BY <1>3, <1>6, <3>4, <4>2
        <5>2. PICK e \in Calls : /\ e # c /\ appReq[e].step = "answer"
                                 /\ appReq[e].temp = t /\ appReq[e].user = u
          BY <3>3, <5>1
        <5> QED BY <1>13, <2>2, <3>0, <5>1, <5>2
      <4> QED BY <4>1, <4>2
    <3> QED BY <1>6, <3>1, <3>3, <3>4
  <2>3. presented' = presented /\ temp' = temp
    BY <1>5
  <2> QED BY <2>1, <2>2, <2>3 DEF OnePresents
<1>15. FreshIsNew'
  <2> SUFFICES ASSUME NEW d \in Calls, appReq'[d].fresh
               PROVE  /\ \A e \in Calls : e # d => appReq'[e].temp # appReq'[d].temp
                      /\ \A e \in Clients : temp[e] # appReq'[d].temp
                      /\ \A u \in Users : <<u, appReq'[d].temp>> \notin presented
    BY <1>5 DEF FreshIsNew
  <2>1. d # c /\ appReq'[d] = appReq[d] /\ appReq[d].fresh
    BY <1>3, <1>6
  <2>2. /\ \A e \in Calls : e # d => appReq[e].temp # appReq[d].temp
        /\ \A e \in Clients : temp[e] # appReq[d].temp
        /\ \A u \in Users : <<u, appReq[d].temp>> \notin presented
    BY <2>1 DEF AppsIInv, FreshIsNew
  <2> QED BY <1>3, <1>6, <2>1, <2>2
<1>16. ASSUME NEW d \in Calls
       PROVE  \/ appReq'[d] = appReq[d]
              \/ /\ RequestOfBrowser(d)' /\ appReq'[d].shown = {}
                 /\ \A t \in Temps : appReq'[d].temp = t =>
                       Claimable(t)' \/ t \in merged \cup forgotten'
  BY <1>3, <1>6, <1>9, <1>12
<1>17. kept \subseteq kept' /\ forgotten \subseteq forgotten'
  BY <1>5
<1> QED BY <1>5, <1>8, <1>10, <1>11, <1>14, <1>15, <1>16, <1>17, AppsStepKeeps

(* A request that goes on to its query, or whose handler panics: it has    *)
(* neither a fresh temporary session nor a goroutine, and no answer.       *)
LEMMA GetApplicationsRoleStepKeeps ==
    ASSUME AppsIInv, NEW c \in Calls, appReq[c].step = "handle",
           UNCHANGED <<apps, nextApp, session, temp, merged, presented, kept, forgotten>>,
           asked' = asked, NEW n \in AppRequest, appReq' = [appReq EXCEPT ![c] = n],
           \/ n = NoRequest
           \/ /\ n.step = "query" /\ n.merge = appReq[c].merge /\ n.browser = appReq[c].browser
              /\ n.user = appReq[c].user /\ n.temp = appReq[c].temp
              /\ n.fresh = appReq[c].fresh /\ n.shown = appReq[c].shown
              /\ appReq[c].user # Nobody
    PROVE  AppsIInv'
<1>1. AppsTypeOK /\ RequestOfBrowser(c) /\ appReq[c] \in AppRequest
  BY DEF AppsIInv, ApplicationsAreKept, AppsTypeOK
<1>2. ~ appReq[c].fresh /\ ~ appReq[c].merge /\ appReq[c].shown = {} /\ appReq[c].browser \in Clients
  BY <1>1 DEF RequestOfBrowser
<1>3. /\ appReq' \in [Calls -> AppRequest] /\ appReq'[c] = n
      /\ \A d \in Calls : d # c => appReq'[d] = appReq[d]
  BY <1>1 DEF AppsTypeOK
<1>4. AppsTypeOK'
  BY <1>1, <1>3 DEF AppsTypeOK, Rows
<1>5. /\ ~ n.fresh /\ ~ n.merge /\ n.shown = {} /\ n.step \in {"idle", "query"}
      /\ n.step = "idle" => n = NoRequest
      /\ n.step # "idle" => n.browser = appReq[c].browser /\ n.user = appReq[c].user
      /\ n.step = "query" => n.user # Nobody
      /\ n.temp \in {appReq[c].temp, NoTemp}
  BY <1>2, IdleFacts
<1>6. RequestOfBrowser(c)'
  BY <1>2, <1>3, <1>5 DEF RequestOfBrowser
<1>7. ASSUME NEW t \in Temps, Claimable(t) PROVE Claimable(t)'
  <2>1. ASSUME NEW d \in Calls, appReq[d].temp = t, appReq[d].fresh \/ appReq[d].merge
        PROVE  Claimable(t)'
    BY <1>2, <1>3, <2>1 DEF Claimable
  <2> QED BY <1>7, <2>1 DEF Claimable
<1>8. \A e \in Clients, t \in Temps : Holds(e, t)' => Holds(e, t)
  <2> SUFFICES ASSUME NEW e \in Clients, NEW t \in Temps, Holds(e, t)' PROVE Holds(e, t)
    OBVIOUS
  <2>1. CASE Carries(c, e, t)'
    <3>1. Carries(c, e, t)
      BY <1>3, <1>5, <2>1, NullAssumption DEF Carries
    <3> QED BY <3>1 DEF Holds
  <2>2. ASSUME NEW d \in Calls, d # c, Carries(d, e, t)' PROVE Holds(e, t)
    BY <1>3, <2>2 DEF Carries, Holds
  <2> QED BY <2>1, <2>2 DEF Holds
<1>9. ASSUME NEW t \in Temps, appReq'[c].temp = t
      PROVE  Claimable(t)' \/ t \in merged \cup forgotten'
  <2>1. appReq[c].temp = t /\ t # NoTemp
    BY <1>3, <1>5, <1>9, NullAssumption
  <2>2. Claimable(t) \/ t \in merged \cup forgotten
    BY <2>1 DEF AppsIInv, Traced
  <2> QED BY <1>7, <2>2
<1>10. ASSUME NEW d \in Calls
       PROVE  /\ appReq'[d].step # "idle" =>
                     /\ appReq[d].step # "idle" /\ appReq'[d].temp \in {appReq[d].temp, NoTemp}
                     /\ appReq'[d].user = appReq[d].user
              /\ appReq[d].step = "answer" => appReq'[d] = appReq[d]
              /\ appReq'[d].temp \in {appReq[d].temp, NoTemp}
              /\ appReq'[d].fresh => appReq'[d] = appReq[d]
  BY <1>3, <1>5
<1>11. OnePresents'
  <2>1. ASSUME NEW d \in Calls, NEW e \in Calls,
               appReq'[d].step # "idle", appReq'[e].step # "idle",
               appReq'[d].temp = appReq'[e].temp, Merging(appReq'[d]), Merging(appReq'[e])
        PROVE  appReq'[d].user = appReq'[e].user \/ appReq'[d].temp \in kept
    BY <1>10, <2>1 DEF AppsIInv, OnePresents, Merging
  <2>2. ASSUME NEW u \in Users, NEW t \in Temps, <<u, t>> \in presented, t \notin kept
        PROVE  /\ \A v \in Users : <<v, t>> \in presented => v = u
               /\ \A d \in Calls : appReq'[d].step # "idle" /\ appReq'[d].temp = t =>
                     appReq'[d].user \in {u, Nobody}
               /\ \A e \in Clients : temp[e] = t =>
                     \E d \in Calls : /\ appReq'[d].step = "answer"
                                      /\ appReq'[d].temp = t /\ appReq'[d].user = u
    <3>1. /\ \A v \in Users : <<v, t>> \in presented => v = u
          /\ \A d \in Calls : appReq[d].step # "idle" /\ appReq[d].temp = t =>
                appReq[d].user \in {u, Nobody}
          /\ \A e \in Clients : temp[e] = t =>
                \E d \in Calls : /\ appReq[d].step = "answer"
                                 /\ appReq[d].temp = t /\ appReq[d].user = u
      BY <2>2 DEF AppsIInv, OnePresents
    <3> QED BY <1>10, <3>1, NullAssumption
  <2> QED BY <2>1, <2>2 DEF OnePresents
<1>12. FreshIsNew'
  <2> SUFFICES ASSUME NEW d \in Calls, appReq'[d].fresh
               PROVE  /\ \A e \in Calls : e # d => appReq'[e].temp # appReq'[d].temp
                      /\ \A e \in Clients : temp[e] # appReq'[d].temp
                      /\ \A u \in Users : <<u, appReq'[d].temp>> \notin presented
    BY DEF FreshIsNew
  <2>1. appReq'[d] = appReq[d] /\ appReq[d].fresh /\ appReq[d].temp # NoTemp
    BY <1>10 DEF AppsIInv, RequestOfBrowser
  <2>2. /\ \A e \in Calls : e # d => appReq[e].temp # appReq[d].temp
        /\ \A e \in Clients : temp[e] # appReq[d].temp
        /\ \A u \in Users : <<u, appReq[d].temp>> \notin presented
    BY <2>1 DEF AppsIInv, FreshIsNew
  <2> QED BY <1>10, <2>1, <2>2
<1>13. ASSUME NEW d \in Calls
       PROVE  \/ appReq'[d] = appReq[d]
              \/ /\ RequestOfBrowser(d)' /\ appReq'[d].shown = {}
                 /\ \A t \in Temps : appReq'[d].temp = t =>
                       Claimable(t)' \/ t \in merged \cup forgotten'
  BY <1>3, <1>5, <1>6, <1>9
<1>14. kept \subseteq kept' /\ forgotten \subseteq forgotten'
  OBVIOUS
<1> QED BY <1>4, <1>7, <1>8, <1>11, <1>12, <1>13, <1>14, AppsStepKeeps

LEMMA GetApplicationsRoleKeeps ==
    ASSUME AppsIInv, NEW c \in Calls, GetApplicationsRole(c), ~ RefuseApplication(c), asked' = asked
    PROVE  AppsIInv'
<1>1. /\ appReq[c].step = "handle" /\ appReq[c] \in AppRequest
      /\ UNCHANGED <<apps, nextApp, session, temp, merged, presented, kept, forgotten>>
  BY DEF GetApplicationsRole, Panic, AppsIInv, ApplicationsAreKept, AppsTypeOK
<1>2. CASE appReq[c].user # Nobody /\ appReq' = [appReq EXCEPT ![c].step = "query"]
  <2> DEFINE n == [appReq[c] EXCEPT !.step = "query"]
  <2>1. appReq' = [appReq EXCEPT ![c] = n]
    BY <1>2
  <2>2. /\ n \in AppRequest
        /\ n.step = "query" /\ n.merge = appReq[c].merge
        /\ n.browser = appReq[c].browser /\ n.user = appReq[c].user /\ n.temp = appReq[c].temp
        /\ n.fresh = appReq[c].fresh /\ n.shown = appReq[c].shown
    BY <1>1, QueryFacts
  <2> HIDE DEF n
  <2> QED BY <1>1, <1>2, <2>1, <2>2, GetApplicationsRoleStepKeeps
<1>3. CASE appReq' = [appReq EXCEPT ![c] = NoRequest]
  BY <1>1, <1>3, IdleFacts, GetApplicationsRoleStepKeeps
<1> QED BY <1>2, <1>3 DEF GetApplicationsRole, Panic

(* What an answer leaves of its request, and of the cookie of its browser. *)
LEMMA AppAnswerFacts ==
    ASSUME AppsIInv, NEW c \in Calls, AnswerArrives(c)
    PROVE  LET q == appReq[c]
               n == appReq'[c]
               b == appReq[c].browser
           IN  /\ q \in AppRequest /\ q.step = "answer" /\ b \in Clients
               /\ appReq' \in [Calls -> AppRequest]
               /\ \A d \in Calls : d # c => appReq'[d] = appReq[d]
               /\ n.step = "idle" /\ n.shown = {} /\ ~ n.fresh
               /\ n.merge = q.merge
               /\ q.merge => n.user = q.user /\ n.temp = q.temp
               /\ ~ q.merge => n = NoRequest
               /\ kept \subseteq kept' /\ kept' \subseteq Temps
               /\ forgotten \subseteq forgotten' /\ forgotten' \subseteq Temps
               /\ temp' \in [Clients -> Temps \cup {NoTemp}]
               /\ \A d \in Clients : d # b => temp'[d] = temp[d]
               /\ \/ /\ Merging(q) /\ temp'[b] = NoTemp
                     /\ temp[b] \in {q.temp, NoTemp} \/ temp[b] \in forgotten'
                  \/ /\ q.fresh /\ temp'[b] = q.temp
                     /\ temp[b] \in {q.temp, NoTemp} \/ temp[b] \in forgotten'
                  \/ temp' = temp /\ ~ q.fresh /\ ~ Merging(q)
                  \/ /\ temp' = temp
                     /\ q.fresh => q.temp \in forgotten'
                     /\ Merging(q) => q.temp \in kept'
<1> DEFINE q == appReq[c]
           b == appReq[c].browser
<1>1. /\ AppsTypeOK /\ RequestOfBrowser(c) /\ q \in AppRequest /\ q.step = "answer"
  BY DEF AppsIInv, ApplicationsAreKept, AppsTypeOK, AnswerArrives
<1>2. /\ b \in Clients /\ (q.merge => ~ q.fresh)
      /\ (q.fresh \/ Merging(q)) => q.temp \in Temps
  BY <1>1, AppRequestFields DEF RequestOfBrowser, Merging
<1>3. Merging(q) => ~ q.fresh
  BY <1>1 DEF RequestOfBrowser, Merging
<1>4. /\ appReq' \in [Calls -> AppRequest]
      /\ \A d \in Calls : d # c => appReq'[d] = appReq[d]
      /\ appReq'[c].step = "idle" /\ appReq'[c].shown = {} /\ ~ appReq'[c].fresh
      /\ appReq'[c].merge = q.merge
      /\ q.merge => appReq'[c].user = q.user /\ appReq'[c].temp = q.temp
      /\ ~ q.merge => appReq'[c] = NoRequest
  <2> DEFINE m == [q EXCEPT !.step = "idle", !.shown = {}, !.browser = NoClient]
  <2>1. /\ m \in AppRequest
        /\ m.step = "idle" /\ m.merge = q.merge /\ m.user = q.user /\ m.temp = q.temp
        /\ m.fresh = q.fresh /\ m.shown = {}
    BY <1>1, DoneFacts
  <2>2. appReq \in [Calls -> AppRequest] /\ q.merge \in BOOLEAN
    BY <1>1, AppRequestFields DEF AppsTypeOK
  <2>3. CASE q.merge
    <3>1. appReq' = [appReq EXCEPT ![c] = m]
      BY <2>2, <2>3 DEF AnswerArrives, Done
    <3> HIDE DEF m
    <3> QED BY <1>2, <2>1, <2>2, <2>3, <3>1
  <2>4. CASE ~ q.merge
    <3>1. appReq' = [appReq EXCEPT ![c] = NoRequest]
      BY <2>2, <2>4 DEF AnswerArrives, Done
    <3> QED BY <2>2, <2>4, <3>1, IdleFacts
  <2> QED BY <2>3, <2>4
<1>5. temp \in [Clients -> Temps \cup {NoTemp}] /\ forgotten \subseteq Temps /\ kept \subseteq Temps
  BY <1>1 DEF AppsTypeOK
<1>6. CASE SetCookie(c) /\ UNCHANGED kept
  <2>1. CASE Merging(q)
    <3>1. temp' = [temp EXCEPT ![b] = NoTemp] /\ forgotten' = forgotten \cup ({temp[b]} \ {q.temp, NoTemp})
      BY <1>6, <2>1 DEF SetCookie
    <3> QED BY <1>1, <1>2, <1>4, <1>5, <1>6, <2>1, <3>1
  <2>2. CASE ~ Merging(q) /\ q.fresh
    <3>1. temp' = [temp EXCEPT ![b] = q.temp] /\ forgotten' = forgotten \cup ({temp[b]} \ {q.temp, NoTemp})
      BY <1>6, <2>2 DEF SetCookie
    <3> QED BY <1>1, <1>2, <1>4, <1>5, <1>6, <2>2, <3>1
  <2>3. CASE ~ Merging(q) /\ ~ q.fresh
    <3>1. temp' = temp /\ forgotten' = forgotten
      BY <1>6, <2>3 DEF SetCookie
    <3> QED BY <1>1, <1>2, <1>4, <1>5, <1>6, <2>3, <3>1
  <2> QED BY <2>1, <2>2, <2>3
<1>7. CASE LostAnswer(c)
  <2>1. temp' = temp
    BY <1>7 DEF LostAnswer
  <2>2. /\ forgotten \subseteq forgotten' /\ forgotten' \subseteq Temps
        /\ q.fresh => q.temp \in forgotten'
    BY <1>2, <1>5, <1>7 DEF LostAnswer
  <2>3. /\ kept \subseteq kept' /\ kept' \subseteq Temps
        /\ Merging(q) => q.temp \in kept'
    BY <1>2, <1>5, <1>7 DEF LostAnswer
  <2> QED BY <1>1, <1>2, <1>4, <1>5, <2>1, <2>2, <2>3
<1> QED BY <1>6, <1>7 DEF AnswerArrives

(* A cookie that is taken back is being merged, or needs not be.           *)
LEMMA AnswerKeeps ==
    ASSUME AppsIInv, NEW c \in Calls, AnswerArrives(c), asked' = asked
    PROVE  AppsIInv'
<1> DEFINE n == appReq'[c]
<1>0. PICK q, b : q = appReq[c] /\ b = appReq[c].browser
  OBVIOUS
<1>1. /\ q \in AppRequest /\ q.step = "answer" /\ b \in Clients
      /\ appReq' \in [Calls -> AppRequest]
      /\ \A d \in Calls : d # c => appReq'[d] = appReq[d]
      /\ n.step = "idle" /\ n.shown = {} /\ ~ n.fresh
      /\ n.merge = q.merge
      /\ q.merge => n.user = q.user /\ n.temp = q.temp
      /\ ~ q.merge => n = NoRequest
      /\ kept \subseteq kept' /\ kept' \subseteq Temps
      /\ forgotten \subseteq forgotten' /\ forgotten' \subseteq Temps
      /\ temp' \in [Clients -> Temps \cup {NoTemp}]
      /\ \A d \in Clients : d # b => temp'[d] = temp[d]
      /\ \/ /\ Merging(q) /\ temp'[b] = NoTemp
            /\ temp[b] \in {q.temp, NoTemp} \/ temp[b] \in forgotten'
         \/ /\ q.fresh /\ temp'[b] = q.temp
            /\ temp[b] \in {q.temp, NoTemp} \/ temp[b] \in forgotten'
         \/ temp' = temp /\ ~ q.fresh /\ ~ Merging(q)
         \/ /\ temp' = temp
            /\ q.fresh => q.temp \in forgotten'
            /\ Merging(q) => q.temp \in kept'
  BY <1>0, AppAnswerFacts
<1>2. /\ AppsTypeOK /\ RequestOfBrowser(c)
      /\ UNCHANGED <<apps, nextApp, merged, presented>> /\ session' = session
  BY DEF AppsIInv, ApplicationsAreKept, AnswerArrives
<1>3. /\ q.user \in Users \cup {Nobody} /\ q.temp \in Temps \cup {NoTemp}
      /\ q.merge \in BOOLEAN /\ q.fresh \in BOOLEAN
  BY <1>1, AppRequestFields
<1>4. /\ q.fresh => q.user = Nobody /\ q.temp \in Temps /\ q.temp # NoTemp /\ ~ Merging(q) /\ ~ q.merge
      /\ q.merge => Merging(q) /\ <<q.user, q.temp>> \in presented
      /\ Merging(q) => /\ <<q.user, q.temp>> \in presented
                       /\ q.merge \/ q.temp \in merged \cup forgotten
                       /\ q.user \in Users /\ q.temp \in Temps
  BY <1>0, <1>1, <1>2, <1>3 DEF RequestOfBrowser, Merging
<1>5. AppsTypeOK'
  BY <1>1, <1>2 DEF AppsTypeOK, Rows
<1>6. n \in AppRequest /\ (q.merge => Merging(n) /\ <<n.user, n.temp>> \in presented)
  BY <1>1, <1>4 DEF Merging
<1>7. RequestOfBrowser(c)'
  BY <1>1, <1>2, <1>6 DEF RequestOfBrowser, Merging
<1>8. ASSUME NEW t \in Temps, Claimable(t)
      PROVE  Claimable(t)' \/ t \in merged \cup forgotten'
  <2>0. t # NoTemp
    BY NullAssumption
  <2>1. ASSUME NEW d \in Clients, temp[d] = t
        PROVE  Claimable(t)' \/ t \in merged \cup forgotten'
    <3>1. CASE d # b
      BY <1>1, <2>1, <3>1 DEF Claimable
    <3>2. CASE d = b /\ Merging(q) /\ q.temp = t
      BY <1>1, <1>4, <3>2 DEF Claimable
    <3>3. CASE d = b /\ ~ (Merging(q) /\ q.temp = t)
      BY <1>1, <2>0, <2>1, <3>3 DEF Claimable
    <3> QED BY <3>1, <3>2, <3>3
  <2>2. ASSUME NEW d \in Calls, appReq[d].temp = t, appReq[d].fresh \/ appReq[d].merge
        PROVE  Claimable(t)' \/ t \in merged \cup forgotten'
    <3>1. CASE d # c
      BY <1>1, <2>2, <3>1 DEF Claimable
    <3>2. CASE d = c /\ q.merge
      BY <1>0, <1>1, <2>2, <3>2 DEF Claimable
    <3>3. CASE d = c /\ q.fresh
      BY <1>0, <1>1, <1>4, <2>2, <3>3 DEF Claimable
    <3> QED BY <1>0, <2>2, <3>1, <3>2, <3>3
  <2> QED BY <1>8, <2>1, <2>2 DEF Claimable
<1>9. ASSUME NEW e \in Clients, NEW t \in Temps, Holds(e, t)' PROVE Holds(e, t)
  <2>0. t # NoTemp
    BY NullAssumption
  <2>1. CASE temp'[e] = t
    <3>1. CASE temp[e] = t
      BY <3>1 DEF Holds
    <3>2. CASE temp[e] # t
      <4>1. e = b /\ q.temp = t
        BY <1>1, <2>0, <2>1, <3>2
      <4>2. Carries(c, e, t)
        BY <1>0, <1>1, <4>1 DEF Carries
      <4> QED BY <4>2 DEF Holds
    <3> QED BY <3>1, <3>2
  <2>2. ASSUME NEW d \in Calls, Carries(d, e, t)' PROVE Holds(e, t)
    BY <1>1, <2>2 DEF Carries, Holds
  <2> QED BY <1>9, <2>1, <2>2 DEF Holds
<1>10. ASSUME NEW d \in Calls, appReq'[d].step # "idle"
       PROVE  d # c /\ appReq'[d] = appReq[d]
  BY <1>1, <1>10
<1>11. OnePresents'
  <2>1. ASSUME NEW d \in Calls, NEW e \in Calls,
               appReq'[d].step # "idle", appReq'[e].step # "idle",
               appReq'[d].temp = appReq'[e].temp, Merging(appReq'[d]), Merging(appReq'[e])
        PROVE  appReq'[d].user = appReq'[e].user \/ appReq'[d].temp \in kept'
    BY <1>1, <1>10, <2>1 DEF AppsIInv, OnePresents
  <2>2. ASSUME NEW u \in Users, NEW t \in Temps, <<u, t>> \in presented, t \notin kept'
        PROVE  /\ \A v \in Users : <<v, t>> \in presented => v = u
               /\ \A d \in Calls : appReq'[d].step # "idle" /\ appReq'[d].temp = t =>
                     appReq'[d].user \in {u, Nobody}
               /\ \A e \in Clients : temp'[e] = t =>
                     \E d \in Calls : /\ appReq'[d].step = "answer"
                                      /\ appReq'[d].temp = t /\ appReq'[d].user = u
    <3>0. t \notin kept /\ t # NoTemp /\ u # Nobody
      BY <1>1, <2>2, NullAssumption
    <3>1. /\ \A v \in Users : <<v, t>> \in presented => v = u
          /\ \A d \in Calls : appReq[d].step # "idle" /\ appReq[d].temp = t =>
                appReq[d].user \in {u, Nobody}
          /\ \A e \in Clients : temp[e] = t =>
                \E d \in Calls : /\ appReq[d].step = "answer"
                                 /\ appReq[d].temp = t /\ appReq[d].user = u
      BY <2>2, <3>0 DEF AppsIInv, OnePresents
    <3>2. ASSUME NEW e \in Clients, temp'[e] = t
          PROVE  \E d \in Calls : /\ appReq'[d].step = "answer"
                                  /\ appReq'[d].temp = t /\ appReq'[d].user = u
      <4>1. ~ (q.fresh /\ q.temp = t)
        BY <1>0, <2>2 DEF AppsIInv, FreshIsNew
      <4>2. temp[e] = t
        BY <1>1, <3>0, <3>2, <4>1
      <4>3. PICK d \in Calls : /\ appReq[d].step = "answer"
                               /\ appReq[d].temp = t /\ appReq[d].user = u
        BY <3>1, <4>2
      <4>4. d # c
        <5> SUFFICES ASSUME d = c PROVE FALSE
          OBVIOUS
        <5>1. Merging(q) /\ q.temp = t /\ ~ q.fresh
          BY <1>0, <1>4, <3>0, <4>3 DEF Merging
        <5>2. Holds(e, t) /\ Holds(b, t)
          BY <1>0, <1>1, <4>2, <5>1 DEF Holds, Carries
        <5>3. e = b
          BY <1>1, <5>2 DEF AppsIInv, OneHome
        <5> QED BY <1>1, <2>2, <3>0, <3>2, <5>1, <5>3
      <4> QED BY <1>1, <4>3, <4>4
    <3> QED BY <1>10, <3>1, <3>2
  <2> QED BY <1>2, <2>1, <2>2 DEF OnePresents
<1>12. FreshIsNew'
  <2> SUFFICES ASSUME NEW d \in Calls, appReq'[d].fresh
               PROVE  /\ \A e \in Calls : e # d => appReq'[e].temp # appReq'[d].temp
                      /\ \A e \in Clients : temp'[e] # appReq'[d].temp
                      /\ \A u \in Users : <<u, appReq'[d].temp>> \notin presented
    BY <1>2 DEF FreshIsNew
  <2>1. d # c /\ appReq'[d] = appReq[d] /\ appReq[d].fresh /\ appReq[d].temp # NoTemp
    BY <1>1 DEF AppsIInv, RequestOfBrowser
  <2>2. /\ \A e \in Calls : e # d => appReq[e].temp # appReq[d].temp
        /\ \A e \in Clients : temp[e] # appReq[d].temp
        /\ \A u \in Users : <<u, appReq[d].temp>> \notin presented
    BY <2>1 DEF AppsIInv, FreshIsNew
  <2>3. n.temp \in {q.temp, NoTemp}
    BY <1>1, <1>3, IdleFacts
  <2>4. \A e \in Clients : temp'[e] \in {temp[e], q.temp, NoTemp}
    BY <1>1
  <2> QED BY <1>0, <1>1, <2>1, <2>2, <2>3, <2>4
<1>13. ASSUME NEW d \in Calls
       PROVE  \/ appReq'[d] = appReq[d]
              \/ /\ RequestOfBrowser(d)' /\ appReq'[d].shown = {}
                 /\ \A t \in Temps : appReq'[d].temp = t =>
                       Claimable(t)' \/ t \in merged \cup forgotten'
  <2>1. CASE d # c
    BY <1>1, <2>1
  <2>2. CASE d = c
    <3>1. ASSUME NEW t \in Temps, n.temp = t PROVE Claimable(t)'
      <4>1. n.merge
        BY <1>1, <1>3, <3>1, IdleFacts, NullAssumption
      <4> QED BY <3>1, <4>1 DEF Claimable
    <3> QED BY <1>1, <1>7, <2>2, <3>1
  <2> QED BY <2>1, <2>2
<1>14. kept \subseteq kept' /\ forgotten \subseteq forgotten'
  BY <1>1
<1> QED BY <1>2, <1>5, <1>8, <1>9, <1>11, <1>12, <1>13, <1>14, AppsStepKeeps

-------------------------------------------------------------------------------
(* The way back through the middleware. *)

(* What a handler may hand to the middleware: the identities of the        *)
(* request, or a fresh temporary session for a request without any.        *)
MayHand(c, q) ==
    /\ q \in AppRequest /\ q.user = appReq[c].user /\ q.browser = appReq[c].browser
    /\ \/ ~ q.fresh /\ q.temp = appReq[c].temp
       \/ q.fresh /\ q.user = Nobody /\ appReq[c].temp = NoTemp /\ q.temp \in UnusedTemps

(* A list a request may be answered with, after it presented what it has.  *)
MayList(c, S) ==
    /\ S \subseteq Rows
    /\ \A a \in S :
          LET u == appReq[c].user
          IN  \/ u \in Admins
              \/ apps[a].writer = u
              \/ apps[a].writer = Nobody /\ <<u, apps[a].under>> \in presented'
              \/ apps[a].under \in kept

(* At most the row of q was inserted. *)
Inserts(q) ==
    \/ UNCHANGED <<apps, nextApp, forgotten>>
    \/ nextApp \in AppIds /\ nextApp' = nextApp + 1 /\ UNCHANGED <<apps, forgotten>>
    \/ /\ nextApp \in AppIds /\ nextApp' = nextApp + 1
       /\ q.user # Nobody \/ q.temp # NoTemp
       /\ apps' = [a \in Rows \cup {nextApp} |-> IF a \in Rows THEN apps[a] ELSE Row(q)]
       /\ forgotten' = forgotten \cup Late(q)

(* Rows stay as they are, one may be new. *)
LEMMA InsertFacts ==
    ASSUME AppsTypeOK, NEW q \in AppRequest, Inserts(q)
    PROVE  /\ nextApp' \in 1..(MaxApps + 1)
           /\ Rows' \subseteq 1..(nextApp' - 1)
           /\ Rows \subseteq Rows' /\ \A a \in Rows : apps'[a] = apps[a]
           /\ forgotten \subseteq forgotten' /\ forgotten' \subseteq Temps
           /\ \A a \in Rows' \ Rows :
                 /\ apps'[a] \in App
                 /\ apps'[a].author = q.user /\ apps'[a].temp = q.temp
                 /\ apps'[a].writer = q.user /\ apps'[a].under = q.temp
                 /\ q.user # Nobody \/ q.temp # NoTemp
                 /\ q.user = Nobody /\ q.temp \in merged => q.temp \in forgotten'
<1>1. /\ nextApp \in 1..(MaxApps + 1) /\ Rows \subseteq 1..(nextApp - 1) /\ MaxApps \in Nat
      /\ forgotten \subseteq Temps /\ merged \subseteq Temps
  BY MaxAppsAssumption DEF AppsTypeOK
<1>2. CASE UNCHANGED <<apps, nextApp, forgotten>>
  BY <1>1, <1>2 DEF Rows
<1>3. CASE nextApp \in AppIds /\ nextApp' = nextApp + 1 /\ UNCHANGED <<apps, forgotten>>
  BY <1>1, <1>3 DEF Rows, AppIds
<1> DEFINE row == Row(q)
<1>4. /\ row \in App /\ row.author = q.user /\ row.temp = q.temp
      /\ row.writer = q.user /\ row.under = q.temp
  BY AppRequestFields DEF App, Row
<1>5. CASE /\ nextApp \in AppIds /\ nextApp' = nextApp + 1
           /\ q.user # Nobody \/ q.temp # NoTemp
           /\ apps' = [a \in Rows \cup {nextApp} |-> IF a \in Rows THEN apps[a] ELSE row]
           /\ forgotten' = forgotten \cup Late(q)
  <2> HIDE DEF row
  <2>1. Rows' = Rows \cup {nextApp}
    BY <1>5 DEF Rows
  <2>2. nextApp \in 1..MaxApps
    BY <1>5 DEF AppIds
  <2>3. nextApp' \in 1..(MaxApps + 1) /\ Rows' \subseteq 1..(nextApp' - 1)
    BY <1>1, <1>5, <2>1, <2>2
  <2>4. \A a \in Rows : apps'[a] = apps[a]
    BY <1>5
  <2>5. \A a \in Rows' \ Rows : apps'[a] = row
    BY <1>5, <2>1
  <2>6. /\ forgotten \subseteq forgotten' /\ forgotten' \subseteq Temps
        /\ q.user = Nobody /\ q.temp \in merged => q.temp \in forgotten'
    BY <1>1, <1>5 DEF Late
  <2> QED BY <1>4, <1>5, <2>1, <2>3, <2>4, <2>5, <2>6
<1> QED BY <1>2, <1>3, <1>5 DEF Inserts

(* What the middleware leaves behind. *)
LEMMA MiddlewareFacts ==
    ASSUME AppsTypeOK, NEW c \in Calls, NEW q \in AppRequest, TempSessionMiddleware(c, q)
    PROVE  /\ appReq' \in [Calls -> AppRequest]
           /\ appReq'[c].step = "answer" /\ appReq'[c].browser = q.browser
           /\ appReq'[c].user = q.user /\ appReq'[c].temp = q.temp
           /\ appReq'[c].fresh = q.fresh /\ appReq'[c].shown = q.shown
           /\ appReq'[c].merge <=> Merging(q)
           /\ \A d \in Calls : d # c => appReq'[d] = appReq[d]
           /\ presented \subseteq presented' /\ presented' \subseteq Users \X Temps
           /\ Merging(q) => <<q.user, q.temp>> \in presented'
           /\ \A u \in Users, t \in Temps : <<u, t>> \in presented' /\ <<u, t>> \notin presented =>
                 u = q.user /\ t = q.temp /\ Merging(q)
<1> DEFINE m == Merging(q)
           n == [q EXCEPT !.step = "answer", !.op = NoRequest.op, !.merge = m]
<1>0. m \in BOOLEAN
  BY DEF Merging
<1>1. /\ n \in AppRequest
      /\ n.step = "answer" /\ n.merge = m
      /\ n.browser = q.browser /\ n.user = q.user /\ n.temp = q.temp
      /\ n.fresh = q.fresh /\ n.shown = q.shown
  BY <1>0, BackFacts
<1>2. appReq' = [appReq EXCEPT ![c] = n]
  BY DEF TempSessionMiddleware, Back
<1> HIDE DEF n
<1>3. appReq \in [Calls -> AppRequest] /\ presented \subseteq Users \X Temps
  BY DEF AppsTypeOK
<1>4. presented' = IF Merging(q) THEN presented \cup {<<q.user, q.temp>>} ELSE presented
  BY DEF TempSessionMiddleware
<1>5. Merging(q) => q.user \in Users /\ q.temp \in Temps
  BY AppRequestFields DEF Merging
<1>6. /\ presented \subseteq presented' /\ presented' \subseteq Users \X Temps
      /\ Merging(q) => <<q.user, q.temp>> \in presented'
      /\ \A u \in Users, t \in Temps : <<u, t>> \in presented' /\ <<u, t>> \notin presented =>
            u = q.user /\ t = q.temp /\ Merging(q)
  BY <1>3, <1>4, <1>5
<1>7. /\ appReq' \in [Calls -> AppRequest] /\ appReq'[c] = n
      /\ \A d \in Calls : d # c => appReq'[d] = appReq[d]
  BY <1>1, <1>2, <1>3
<1> QED BY <1>1, <1>6, <1>7

(* Whatever the handler was, the middleware keeps the invariant.  The row  *)
(* and the merge it may add are those of the request.                      *)
LEMMA MiddlewareKeeps ==
    ASSUME AppsIInv, NEW c \in Calls, NEW q, appReq[c].step \in {"handle", "query"},
           MayHand(c, q), MayList(c, q.shown), Inserts(q), TempSessionMiddleware(c, q),
           UNCHANGED <<session, temp, merged, kept>>, asked' = asked
    PROVE  AppsIInv'
<1>0. session' = session /\ temp' = temp /\ merged' = merged /\ kept' = kept
  OBVIOUS
<1>1. AppsTypeOK /\ q \in AppRequest /\ RequestOfBrowser(c)
  BY DEF AppsIInv, ApplicationsAreKept, MayHand
<1>2. /\ nextApp' \in 1..(MaxApps + 1)
      /\ Rows' \subseteq 1..(nextApp' - 1)
      /\ Rows \subseteq Rows' /\ \A a \in Rows : apps'[a] = apps[a]
      /\ forgotten \subseteq forgotten' /\ forgotten' \subseteq Temps
      /\ \A a \in Rows' \ Rows :
            /\ apps'[a] \in App
            /\ apps'[a].author = q.user /\ apps'[a].temp = q.temp
            /\ apps'[a].writer = q.user /\ apps'[a].under = q.temp
            /\ q.user # Nobody \/ q.temp # NoTemp
            /\ q.user = Nobody /\ q.temp \in merged => q.temp \in forgotten'
  BY <1>1, InsertFacts
<1>3. /\ appReq' \in [Calls -> AppRequest]
      /\ appReq'[c].step = "answer" /\ appReq'[c].browser = q.browser
      /\ appReq'[c].user = q.user /\ appReq'[c].temp = q.temp
      /\ appReq'[c].fresh = q.fresh /\ appReq'[c].shown = q.shown
      /\ appReq'[c].merge <=> Merging(q)
      /\ \A d \in Calls : d # c => appReq'[d] = appReq[d]
      /\ presented \subseteq presented' /\ presented' \subseteq Users \X Temps
      /\ Merging(q) => <<q.user, q.temp>> \in presented'
      /\ \A u \in Users, t \in Temps : <<u, t>> \in presented' /\ <<u, t>> \notin presented =>
            u = q.user /\ t = q.temp /\ Merging(q)
  BY <1>1, MiddlewareFacts
<1>4. /\ q.user \in Users \cup {Nobody} /\ q.temp \in Temps \cup {NoTemp}
      /\ q.fresh \in BOOLEAN
  BY <1>1, AppRequestFields
<1>5. /\ q.user = appReq[c].user /\ q.browser = appReq[c].browser /\ q.browser \in Clients
      /\ ~ appReq[c].fresh /\ ~ appReq[c].merge /\ appReq[c].step \notin {"idle", "answer"}
      /\ q.fresh => q.user = Nobody /\ appReq[c].temp = NoTemp /\ q.temp \in UnusedTemps
      /\ ~ q.fresh => q.temp = appReq[c].temp
  BY <1>1 DEF MayHand, RequestOfBrowser
<1>6. /\ q.fresh => q.temp \in Temps /\ q.temp # NoTemp /\ ~ Merging(q)
      /\ Merging(q) => q.user \in Users /\ q.temp \in Temps /\ ~ q.fresh /\ q.temp = appReq[c].temp
  BY <1>4, <1>5, UnusedTempsFacts, NullAssumption DEF Merging
<1>7. AppsTypeOK'
  <2>1. \A a \in Rows' : apps'[a] \in App
    BY <1>1, <1>2 DEF AppsTypeOK
  <2> QED BY <1>0, <1>1, <1>2, <1>3, <2>1 DEF AppsTypeOK
<1>8. OneHome'
  <2>1. ASSUME NEW e \in Clients, NEW t \in Temps, Holds(e, t)'
        PROVE  Holds(e, t) \/ (q.fresh /\ e = q.browser /\ t = q.temp)
    <3>1. CASE Carries(c, e, t)'
      <4>1. CASE ~ q.fresh
        <5>1. Carries(c, e, t)
          BY <1>3, <1>5, <3>1, <4>1 DEF Carries
        <5> QED BY <5>1 DEF Holds
      <4>2. CASE q.fresh
        BY <1>3, <3>1, <4>2 DEF Carries
      <4> QED BY <1>4, <4>1, <4>2
    <3>2. ASSUME NEW d \in Calls, d # c, Carries(d, e, t)' PROVE Holds(e, t)
      BY <1>3, <3>2 DEF Carries, Holds
    <3> QED BY <1>0, <2>1, <3>1, <3>2 DEF Holds
  <2>2. q.fresh => \A e \in Clients : ~ Holds(e, q.temp)
    BY <1>5, UnusedTempsFacts
  <2> QED BY <2>1, <2>2 DEF AppsIInv, OneHome
<1>9. ASSUME NEW t \in Temps, Claimable(t) PROVE Claimable(t)'
  <2>1. ASSUME NEW d \in Calls, appReq[d].temp = t, appReq[d].fresh \/ appReq[d].merge
        PROVE  Claimable(t)'
    <3>1. d # c
      BY <1>5, <2>1
    <3> QED BY <1>3, <2>1, <3>1 DEF Claimable
  <2> QED BY <1>0, <1>9, <2>1 DEF Claimable
<1>10. q.temp # NoTemp => Claimable(q.temp)' \/ q.temp \in merged \cup forgotten'
  <2>1. CASE q.fresh
    BY <1>3, <2>1 DEF Claimable
  <2>2. CASE ~ q.fresh /\ q.temp # NoTemp
    <3>1. q.temp \in Temps /\ q.temp = appReq[c].temp
      BY <1>4, <1>5, <2>2
    <3>2. Claimable(appReq[c].temp) \/ appReq[c].temp \in merged \cup forgotten
      BY <2>2, <3>1 DEF AppsIInv, Traced
    <3>3. Claimable(q.temp) \/ q.temp \in merged \cup forgotten
      BY <3>1, <3>2
    <3> QED BY <1>2, <1>9, <3>1, <3>3
  <2> QED BY <1>4, <2>1, <2>2
<1>11. NoApplicationLost'
  <2>1. ASSUME NEW a \in Rows', NEW t \in Temps \cup {NoTemp},
               apps'[a].author = Nobody, apps'[a].temp = t
        PROVE  t # NoTemp /\ (Claimable(t)' \/ t \in forgotten')
    <3>1. CASE a \in Rows
      <4>1. apps[a].author = Nobody /\ apps[a].temp = t
        BY <1>2, <2>1, <3>1
      <4>2. t # NoTemp /\ (Claimable(t) \/ t \in forgotten)
        BY <3>1, <4>1 DEF AppsIInv, ApplicationsAreKept, NoApplicationLost
      <4> QED BY <1>2, <1>9, <4>2
    <3>2. CASE a \notin Rows
      <4>1. /\ q.user = Nobody /\ q.temp = t /\ q.temp # NoTemp
            /\ q.temp \in merged => q.temp \in forgotten'
        BY <1>2, <2>1, <3>2
      <4>2. Claimable(q.temp)' \/ q.temp \in forgotten'
        BY <1>10, <4>1
      <4> QED BY <4>1, <4>2
    <3> QED BY <3>1, <3>2
  <2>2. \A a \in Rows' : apps'[a].temp \in Temps \cup {NoTemp}
    BY <1>7 DEF AppsTypeOK, App
  <2> QED BY <2>1, <2>2 DEF NoApplicationLost, Claimable
<1>12. AuthorPresentedIt'
  <2> SUFFICES ASSUME NEW a \in Rows', apps'[a].author # apps'[a].writer
               PROVE  /\ <<apps'[a].author, apps'[a].under>> \in presented'
                      /\ apps'[a].writer = Nobody \/ apps'[a].under \in kept
    BY <1>0 DEF AuthorPresentedIt
  <2>1. a \in Rows /\ apps'[a] = apps[a]
    BY <1>2
  <2>2. /\ <<apps[a].author, apps[a].under>> \in presented
        /\ apps[a].writer = Nobody \/ apps[a].under \in kept
    BY <2>1 DEF AppsIInv, ApplicationsAreKept, AuthorPresentedIt
  <2> QED BY <1>3, <2>1, <2>2
<1>13. ListsOnlyTheirs'
  <2> SUFFICES ASSUME NEW d \in Calls, NEW a \in appReq'[d].shown
               PROVE  LET u == appReq'[d].user
                      IN  \/ u \in Admins
                          \/ apps'[a].writer = u
                          \/ apps'[a].writer = Nobody /\ <<u, apps'[a].under>> \in presented'
                          \/ apps'[a].under \in kept
    BY <1>0 DEF ListsOnlyTheirs
  <2>1. CASE d = c
    BY <1>2, <1>3, <1>5, <2>1 DEF MayList
  <2>2. CASE d # c
    <3>1. appReq'[d] = appReq[d] /\ a \in Rows
      BY <1>3, <2>2 DEF AppsIInv, RequestOfBrowser
    <3>2. LET u == appReq[d].user
          IN  \/ u \in Admins
              \/ apps[a].writer = u
              \/ apps[a].writer = Nobody /\ <<u, apps[a].under>> \in presented
              \/ apps[a].under \in kept
      BY <3>1 DEF AppsIInv, ListsOnlyTheirs
    <3> QED BY <1>2, <1>3, <3>1, <3>2
  <2> QED BY <2>1, <2>2
<1>14. OnePresents'
  <2>1. ASSUME NEW d \in Calls
        PROVE  /\ appReq'[d].step # "idle" => appReq[d].step # "idle"
               /\ appReq'[d].user = appReq[d].user
               /\ appReq'[d].temp = appReq[d].temp \/ (d = c /\ q.fresh /\ appReq'[d].temp = q.temp)
               /\ Merging(appReq'[d]) => appReq'[d].temp = appReq[d].temp /\ Merging(appReq[d])
    BY <1>3, <1>4, <1>5, <1>6 DEF Merging
  <2>2. ASSUME NEW d \in Calls, NEW e \in Calls,
               appReq'[d].step # "idle", appReq'[e].step # "idle",
               appReq'[d].temp = appReq'[e].temp, Merging(appReq'[d]), Merging(appReq'[e])
        PROVE  appReq'[d].user = appReq'[e].user \/ appReq'[d].temp \in kept
    BY <2>1, <2>2 DEF AppsIInv, OnePresents
  <2>3. ASSUME NEW u \in Users, NEW t \in Temps, <<u, t>> \in presented', t \notin kept
        PROVE  /\ \A v \in Users : <<v, t>> \in presented' => v = u
               /\ \A d \in Calls : appReq'[d].step # "idle" /\ appReq'[d].temp = t =>
                     appReq'[d].user \in {u, Nobody}
               /\ \A e \in Clients : temp[e] = t =>
                     \E d \in Calls : /\ appReq'[d].step = "answer"
                                      /\ appReq'[d].temp = t /\ appReq'[d].user = u
    <3>0. t # NoTemp /\ u # Nobody
      BY NullAssumption
    <3>1. CASE <<u, t>> \in presented
      <4>1. /\ \A v \in Users : <<v, t>> \in presented => v = u
            /\ \A d \in Calls : appReq[d].step # "idle" /\ appReq[d].temp = t =>
                  appReq[d].user \in {u, Nobody}
            /\ \A e \in Clients : temp[e] = t =>
                  \E d \in Calls : /\ appReq[d].step = "answer"
                                   /\ appReq[d].temp = t /\ appReq[d].user = u
        BY <2>3, <3>1 DEF AppsIInv, OnePresents
      <4>2. ASSUME NEW v \in Users, <<v, t>> \in presented', <<v, t>> \notin presented PROVE v = u
        <5>1. v = q.user /\ t = q.temp /\ Merging(q)
          BY <1>3, <4>2
        <5> QED BY <1>5, <1>6, <4>1, <5>1, NullAssumption
      <4>3. ~ (q.fresh /\ q.temp = t)
        BY <1>5, <3>1, UnusedTempsFacts
      <4>4. \A d \in Calls : appReq'[d].step # "idle" /\ appReq'[d].temp = t =>
               appReq'[d].user \in {u, Nobody}
        BY <2>1, <4>1, <4>3
      <4>5. ASSUME NEW e \in Clients, temp[e] = t
            PROVE  \E d \in Calls : /\ appReq'[d].step = "answer"
                                    /\ appReq'[d].temp = t /\ appReq'[d].user = u
        <5>1. PICK d \in Calls : /\ appReq[d].step = "answer"
                                 /\ appReq[d].temp = t /\ appReq[d].user = u
          BY <4>1, <4>5
        <5>2. d # c
          BY <1>5, <5>1
        <5> QED BY <1>3, <5>1, <5>2
      <4> QED BY <4>1, <4>2, <4>4, <4>5
    <3>2. CASE <<u, t>> \notin presented
      <4>1. u = q.user /\ t = q.temp /\ Merging(q) /\ ~ q.fresh /\ appReq[c].temp = t
        BY <1>3, <1>6, <2>3, <3>2
      <4>2. ASSUME NEW v \in Users, <<v, t>> \in presented' PROVE v = u
        <5>1. CASE <<v, t>> \in presented
          <6>1. appReq[c].user \in {v, Nobody}
            BY <1>5, <2>3, <4>1, <5>1 DEF AppsIInv, OnePresents
          <6> QED BY <1>5, <3>0, <4>1, <6>1
        <5>2. CASE <<v, t>> \notin presented
          BY <1>3, <4>1, <4>2, <5>2
        <5> QED BY <5>1, <5>2
      <4>3. ASSUME NEW d \in Calls, appReq'[d].step # "idle", appReq'[d].temp = t,
                   appReq'[d].user # Nobody
            PROVE  appReq'[d].user = u
        <5>1. Merging(appReq'[d]) /\ Merging(appReq'[c]) /\ appReq'[c].temp = t /\ appReq'[c].user = u
          BY <1>3, <3>0, <4>1, <4>3 DEF Merging
        <5> QED BY <1>3, <2>2, <2>3, <4>3, <5>1
      <4>4. \E d \in Calls : /\ appReq'[d].step = "answer"
                             /\ appReq'[d].temp = t /\ appReq'[d].user = u
        BY <1>3, <4>1
      <4> QED BY <4>2, <4>3, <4>4
    <3> QED BY <3>1, <3>2
  <2> QED BY <1>0, <2>2, <2>3 DEF OnePresents
<1>15. FreshIsNew'
  <2> SUFFICES ASSUME NEW d \in Calls, appReq'[d].fresh
               PROVE  /\ \A e \in Calls : e # d => appReq'[e].temp # appReq'[d].temp
                      /\ \A e \in Clients : temp[e] # appReq'[d].temp
                      /\ \A u \in Users : <<u, appReq'[d].temp>> \notin presented'
    BY <1>0 DEF FreshIsNew
  <2>1. CASE d = c
    <3>1. /\ q.temp \in Temps
          /\ \A e \in Clients : temp[e] # q.temp
          /\ \A e \in Calls : appReq[e].temp # q.temp
          /\ \A u \in Users : <<u, q.temp>> \notin presented
      BY <1>3, <1>5, <2>1, UnusedTempsFacts
    <3>2. ~ Merging(q)
      BY <1>3, <1>6, <2>1
    <3> QED BY <1>3, <2>1, <3>1, <3>2
  <2>2. CASE d # c
    <3>1. /\ appReq'[d] = appReq[d] /\ appReq[d].fresh
          /\ appReq[d].temp # NoTemp /\ appReq[d].temp \in Temps
      BY <1>1, <1>3, <2>2, AppRequestFields DEF AppsIInv, RequestOfBrowser, AppsTypeOK
    <3>2. /\ \A e \in Calls : e # d => appReq[e].temp # appReq[d].temp
          /\ \A e \in Clients : temp[e] # appReq[d].temp
          /\ \A u \in Users : <<u, appReq[d].temp>> \notin presented
      BY <3>1 DEF AppsIInv, FreshIsNew
    <3>3. q.temp # appReq[d].temp
      BY <1>4, <1>5, <2>2, <3>2, UnusedTempsFacts
    <3> QED BY <1>3, <2>2, <3>1, <3>2, <3>3
  <2> QED BY <2>1, <2>2
<1>16. Traced'
  <2>1. ASSUME NEW d \in Calls, NEW t \in Temps, appReq'[d].temp = t
        PROVE  Claimable(t)' \/ t \in merged \cup forgotten'
    <3>0. t # NoTemp
      BY NullAssumption
    <3>1. CASE d = c
      BY <1>3, <1>10, <2>1, <3>0, <3>1
    <3>2. CASE d # c
      <4>1. appReq[d].temp = t
        BY <1>3, <2>1, <3>2
      <4>2. Claimable(t) \/ t \in merged \cup forgotten
        BY <3>0, <4>1 DEF AppsIInv, Traced
      <4> QED BY <1>2, <1>9, <4>2
    <3> QED BY <3>1, <3>2
  <2>2. ASSUME NEW d \in Calls, appReq'[d].temp # NoTemp
        PROVE  Claimable(appReq[d].temp)' \/ appReq'[d].temp \in merged' \cup forgotten'
    <3>1. PICK t \in Temps : appReq'[d].temp = t
      BY <1>3, <2>2, AppRequestFields
    <3>2. Claimable(t)' \/ t \in merged \cup forgotten'
      BY <2>1, <3>1
    <3> QED BY <1>0, <3>1, <3>2 DEF Claimable
  <2>3. ASSUME NEW a \in Rows', apps'[a].temp \in merged
        PROVE  apps'[a].author # Nobody \/ apps'[a].temp \in forgotten'
    <3>1. CASE a \in Rows
      <4>1. apps'[a] = apps[a]
        BY <1>2, <3>1
      <4>2. apps[a].author # Nobody \/ apps[a].temp \in forgotten
        BY <2>3, <3>1, <4>1 DEF AppsIInv, Traced
      <4> QED BY <1>2, <4>1, <4>2
    <3>2. CASE a \notin Rows
      BY <1>2, <2>3, <3>2
    <3> QED BY <3>1, <3>2
  <2> QED BY <1>0, <2>2, <2>3 DEF Traced
<1>17. RowsAreTrue'
  <2> SUFFICES ASSUME NEW a \in Rows'
               PROVE  /\ apps'[a].temp \in {NoTemp, apps'[a].under}
                      /\ apps'[a].writer # Nobody /\ apps'[a].under # NoTemp =>
                            <<apps'[a].writer, apps'[a].under>> \in presented'
    BY DEF RowsAreTrue
  <2>1. CASE a \in Rows
    <3>1. apps'[a] = apps[a]
      BY <1>2, <2>1
    <3>2. /\ apps[a].temp \in {NoTemp, apps[a].under}
          /\ apps[a].writer # Nobody /\ apps[a].under # NoTemp =>
                <<apps[a].writer, apps[a].under>> \in presented
      BY <2>1 DEF AppsIInv, RowsAreTrue
    <3> QED BY <1>3, <3>1, <3>2
  <2>2. CASE a \notin Rows
    BY <1>2, <1>3, <2>2 DEF Merging
  <2> QED BY <2>1, <2>2
<1>18. \A d \in Calls : RequestOfBrowser(d)'
  <2>1. ASSUME NEW d \in Calls, d # c PROVE RequestOfBrowser(d)'
    <3>1. appReq'[d] = appReq[d] /\ RequestOfBrowser(d)
      BY <1>3, <2>1 DEF AppsIInv
    <3> QED BY <1>0, <1>2, <1>3, <3>1 DEF RequestOfBrowser, Merging
  <2>2. q.shown \subseteq Rows'
    BY <1>2 DEF MayList
  <2>3. RequestOfBrowser(c)'
    BY <1>0, <1>3, <1>4, <1>5, <1>6, <2>2 DEF RequestOfBrowser, Merging
  <2> QED BY <2>1, <2>3
<1> QED BY <1>7, <1>8, <1>11, <1>12, <1>13, <1>14, <1>15, <1>16, <1>17, <1>18
        DEF AppsIInv, ApplicationsAreKept

-------------------------------------------------------------------------------
(* The goroutine. *)

(* A row changes when it is still under the temporary session, and then    *)
(* gets an author who presented it.                                        *)
LEMMA MergeTempSessionKeeps ==
    ASSUME AppsIInv, NEW c \in Calls, MergeTempSession(c), asked' = asked
    PROVE  AppsIInv'
<1> DEFINE n == appReq'[c]
<1>0. PICK q, u, t : q = appReq[c] /\ u = appReq[c].user /\ t = appReq[c].temp
  OBVIOUS
<1>1. /\ AppsTypeOK /\ RequestOfBrowser(c) /\ q.merge /\ q \in AppRequest
      /\ session' = session /\ temp' = temp /\ nextApp' = nextApp
      /\ presented' = presented /\ kept' = kept
  BY <1>0 DEF AppsIInv, ApplicationsAreKept, AppsTypeOK, MergeTempSession
<1>2. /\ Merging(q) /\ <<u, t>> \in presented /\ u \in Users /\ t \in Temps
      /\ u # Nobody /\ t # NoTemp /\ ~ q.fresh
  BY <1>0, <1>1, AppRequestFields DEF RequestOfBrowser, Merging
<1>3. /\ appReq' \in [Calls -> AppRequest]
      /\ \A d \in Calls : d # c => appReq'[d] = appReq[d]
      /\ \/ n = NoRequest /\ q.step = "idle"
         \/ /\ q.step # "idle" /\ n.step = q.step /\ n.merge = FALSE /\ n.browser = q.browser
            /\ n.user = q.user /\ n.temp = q.temp /\ n.fresh = q.fresh /\ n.shown = q.shown
  <2> DEFINE m == [q EXCEPT !.merge = FALSE]
  <2>1. /\ m \in AppRequest
        /\ m.step = q.step /\ m.merge = FALSE
        /\ m.browser = q.browser /\ m.user = q.user /\ m.temp = q.temp
        /\ m.fresh = q.fresh /\ m.shown = q.shown
    BY <1>1, EndedFacts
  <2>2. appReq \in [Calls -> AppRequest]
    BY <1>1 DEF AppsTypeOK
  <2>3. CASE q.step = "idle"
    <3>1. appReq' = [appReq EXCEPT ![c] = NoRequest]
      BY <1>0, <2>2, <2>3 DEF MergeTempSession, Ended
    <3> QED BY <2>2, <2>3, <3>1, IdleFacts
  <2>4. CASE q.step # "idle"
    <3>1. appReq' = [appReq EXCEPT ![c] = m]
      BY <1>0, <2>2, <2>4 DEF MergeTempSession, Ended
    <3> HIDE DEF m
    <3> QED BY <2>1, <2>2, <2>4, <3>1
  <2> QED BY <2>3, <2>4
<1>4. /\ Rows' = Rows
      /\ \/ /\ \A a \in Rows : apps'[a] = Merged(apps[a], u, t)
            /\ merged' = merged \cup {t} /\ forgotten' = forgotten
         \/ /\ \A a \in Rows : apps'[a] = apps[a]
            /\ merged' = merged /\ forgotten' = forgotten \cup {t}
  <2>1. CASE /\ apps' = [a \in Rows |-> Merged(apps[a], u, t)]
             /\ merged' = merged \cup {t} /\ forgotten' = forgotten
    BY <2>1 DEF Rows
  <2>2. CASE forgotten' = forgotten \cup {t} /\ apps' = apps /\ merged' = merged
    BY <2>2 DEF Rows
  <2> QED BY <1>0, <2>1, <2>2 DEF MergeTempSession
<1>5. ASSUME NEW row \in App
      PROVE  LET r == Merged(row, u, t)
             IN  /\ r \in App /\ r.writer = row.writer /\ r.under = row.under
                 /\ row.temp = t => r.author = u /\ r.temp = NoTemp
                 /\ row.temp # t => r = row
  <2> DEFINE r == [row EXCEPT !.author = u, !.temp = NoTemp]
  <2>1. /\ r \in App /\ r.writer = row.writer /\ r.under = row.under
        /\ r.author = u /\ r.temp = NoTemp
    BY <1>2 DEF App
  <2> QED BY <2>1 DEF Merged
<1>6. ASSUME NEW a \in Rows
      PROVE  /\ apps'[a] \in App
             /\ apps'[a].writer = apps[a].writer /\ apps'[a].under = apps[a].under
             /\ \/ apps'[a] = apps[a] /\ (apps[a].temp # t \/ t \in forgotten')
                \/ apps[a].temp = t /\ apps'[a].author = u /\ apps'[a].temp = NoTemp
  <2>1. apps[a] \in App
    BY <1>1 DEF AppsTypeOK
  <2>2. CASE apps'[a] = apps[a] /\ t \in forgotten'
    BY <2>1, <2>2
  <2>3. CASE apps'[a] = Merged(apps[a], u, t)
    <3> DEFINE r == Merged(apps[a], u, t)
    <3>1. /\ r \in App /\ r.writer = apps[a].writer /\ r.under = apps[a].under
          /\ apps[a].temp = t => r.author = u /\ r.temp = NoTemp
          /\ apps[a].temp # t => r = apps[a]
      BY <1>5, <2>1
    <3> HIDE DEF r
    <3>2. apps'[a] = r
      BY <2>3 DEF r
    <3> QED BY <3>1, <3>2
  <2> QED BY <1>4, <2>2, <2>3
<1>7. /\ merged \subseteq merged' /\ merged' \subseteq Temps
      /\ forgotten \subseteq forgotten' /\ forgotten' \subseteq Temps
      /\ t \in merged' \cup forgotten' /\ merged' \subseteq merged \cup {t}
  BY <1>1, <1>2, <1>4 DEF AppsTypeOK
<1>8. AppsTypeOK'
  BY <1>1, <1>3, <1>4, <1>6, <1>7 DEF AppsTypeOK
<1>9. ASSUME NEW s \in Temps, s # t, Claimable(s) PROVE Claimable(s)'
  <2>1. ASSUME NEW d \in Calls, appReq[d].temp = s, appReq[d].fresh \/ appReq[d].merge
        PROVE  Claimable(s)'
    <3>1. d # c
      BY <1>0, <1>9, <2>1
    <3> QED BY <1>3, <2>1, <3>1 DEF Claimable
  <2> QED BY <1>1, <1>9, <2>1 DEF Claimable
<1>10. NoApplicationLost'
  <2>1. ASSUME NEW a \in Rows, NEW s \in Temps \cup {NoTemp},
               apps'[a].author = Nobody, apps'[a].temp = s
        PROVE  s # NoTemp /\ (Claimable(s)' \/ s \in forgotten')
    <3>1. apps'[a] = apps[a] /\ (apps[a].temp # t \/ t \in forgotten')
      BY <1>2, <1>6, <2>1
    <3>2. s # NoTemp /\ (Claimable(s) \/ s \in forgotten)
      BY <2>1, <3>1 DEF AppsIInv, ApplicationsAreKept, NoApplicationLost
    <3>3. CASE s = t
      BY <2>1, <3>1, <3>2, <3>3
    <3>4. CASE s # t
      BY <1>7, <1>9, <3>2, <3>4
    <3> QED BY <3>3, <3>4
  <2>2. \A a \in Rows : apps'[a].temp \in Temps \cup {NoTemp}
    BY <1>6 DEF App
  <2> QED BY <1>4, <2>1, <2>2 DEF NoApplicationLost, Claimable
<1>11. AuthorPresentedIt'
  <2> SUFFICES ASSUME NEW a \in Rows, apps'[a].author # apps'[a].writer
               PROVE  /\ <<apps'[a].author, apps'[a].under>> \in presented
                      /\ apps'[a].writer = Nobody \/ apps'[a].under \in kept
    BY <1>1, <1>4 DEF AuthorPresentedIt
  <2>1. CASE apps'[a] = apps[a]
    BY <2>1 DEF AppsIInv, ApplicationsAreKept, AuthorPresentedIt
  <2>2. CASE apps[a].temp = t /\ apps'[a].author = u
    <3>1. apps[a].under = t
      BY <1>2, <2>2 DEF AppsIInv, RowsAreTrue
    <3>2. CASE apps[a].writer = Nobody
      BY <1>2, <1>6, <2>2, <3>1, <3>2
    <3>3. CASE apps[a].writer # Nobody
      <4>1. PICK w \in Users : w = apps[a].writer
        BY <1>1, <3>3 DEF AppsTypeOK, App
      <4>2. <<w, t>> \in presented
        BY <1>2, <3>1, <3>3, <4>1 DEF AppsIInv, RowsAreTrue
      <4>3. w = u \/ t \in kept
        BY <1>2, <4>2 DEF AppsIInv, OnePresents
      <4> QED BY <1>2, <1>6, <2>2, <3>1, <4>1, <4>3
    <3> QED BY <3>2, <3>3
  <2> QED BY <1>6, <2>1, <2>2
<1>12. ListsOnlyTheirs'
  <2> SUFFICES ASSUME NEW d \in Calls, NEW a \in appReq'[d].shown
               PROVE  LET v == appReq'[d].user
                      IN  \/ v \in Admins
                          \/ apps'[a].writer = v
                          \/ apps'[a].writer = Nobody /\ <<v, apps'[a].under>> \in presented
                          \/ apps'[a].under \in kept
    BY <1>1 DEF ListsOnlyTheirs
  <2>1. a \in appReq[d].shown /\ appReq'[d].user = appReq[d].user
    BY <1>0, <1>3, IdleFacts
  <2>2. a \in Rows
    BY <2>1 DEF AppsIInv, RequestOfBrowser
  <2>3. LET v == appReq[d].user
        IN  \/ v \in Admins
            \/ apps[a].writer = v
            \/ apps[a].writer = Nobody /\ <<v, apps[a].under>> \in presented
            \/ apps[a].under \in kept
    BY <2>1 DEF AppsIInv, ListsOnlyTheirs
  <2> QED BY <1>6, <2>1, <2>2, <2>3
<1>13. ASSUME NEW d \in Calls
       PROVE  /\ appReq'[d].step = appReq[d].step
              /\ appReq'[d].step # "idle" =>
                    /\ appReq'[d].temp = appReq[d].temp /\ appReq'[d].user = appReq[d].user
                    /\ appReq'[d].browser = appReq[d].browser
              /\ appReq'[d].temp \in {appReq[d].temp, NoTemp}
              /\ appReq'[d].fresh => appReq'[d] = appReq[d]
  <2>1. CASE d = c
    BY <1>0, <1>2, <1>3, <2>1, IdleFacts
  <2>2. CASE d # c
    BY <1>3, <2>2
  <2> QED BY <2>1, <2>2
<1>14. OneHome'
  <2>1. \A e \in Clients, s \in Temps : Holds(e, s)' => Holds(e, s)
    BY <1>1, <1>13 DEF Holds, Carries
  <2> QED BY <2>1 DEF AppsIInv, OneHome
<1>15. OnePresents'
  <2>1. ASSUME NEW d \in Calls, NEW e \in Calls,
               appReq'[d].step # "idle", appReq'[e].step # "idle",
               appReq'[d].temp = appReq'[e].temp, Merging(appReq'[d]), Merging(appReq'[e])
        PROVE  appReq'[d].user = appReq'[e].user \/ appReq'[d].temp \in kept
    BY <1>13, <2>1 DEF AppsIInv, OnePresents, Merging
  <2>2. ASSUME NEW v \in Users, NEW s \in Temps, <<v, s>> \in presented, s \notin kept
        PROVE  /\ \A w \in Users : <<w, s>> \in presented => w = v
               /\ \A d \in Calls : appReq'[d].step # "idle" /\ appReq'[d].temp = s =>
                     appReq'[d].user \in {v, Nobody}
               /\ \A e \in Clients : temp[e] = s =>
                     \E d \in Calls : /\ appReq'[d].step = "answer"
                                      /\ appReq'[d].temp = s /\ appReq'[d].user = v
    <3>1. /\ \A w \in Users : <<w, s>> \in presented => w = v
          /\ \A d \in Calls : appReq[d].step # "idle" /\ appReq[d].temp = s =>
                appReq[d].user \in {v, Nobody}
          /\ \A e \in Clients : temp[e] = s =>
                \E d \in Calls : /\ appReq[d].step = "answer"
                                 /\ appReq[d].temp = s /\ appReq[d].user = v
      BY <2>2 DEF AppsIInv, OnePresents
    <3> QED BY <1>13, <3>1
  <2> QED BY <1>1, <2>1, <2>2 DEF OnePresents
<1>16. FreshIsNew'
  <2> SUFFICES ASSUME NEW d \in Calls, appReq'[d].fresh
               PROVE  /\ \A e \in Calls : e # d => appReq'[e].temp # appReq'[d].temp
                      /\ \A e \in Clients : temp[e] # appReq'[d].temp
                      /\ \A v \in Users : <<v, appReq'[d].temp>> \notin presented
    BY <1>1 DEF FreshIsNew
  <2>1. appReq'[d] = appReq[d] /\ appReq[d].fresh /\ appReq[d].temp # NoTemp
    BY <1>13 DEF AppsIInv, RequestOfBrowser
  <2>2. /\ \A e \in Calls : e # d => appReq[e].temp # appReq[d].temp
        /\ \A e \in Clients : temp[e] # appReq[d].temp
        /\ \A v \in Users : <<v, appReq[d].temp>> \notin presented
    BY <2>1 DEF AppsIInv, FreshIsNew
  <2> QED BY <1>13, <2>1, <2>2
<1>17. Traced'
  <2>1. ASSUME NEW d \in Calls, NEW s \in Temps, appReq'[d].temp = s
        PROVE  Claimable(s)' \/ s \in merged' \cup forgotten'
    <3>0. s # NoTemp
      BY NullAssumption
    <3>1. CASE s = t
      BY <1>7, <3>1
    <3>2. CASE s # t
      <4>1. appReq[d].temp = s
        BY <1>13, <2>1, <3>0
      <4>2. Claimable(s) \/ s \in merged \cup forgotten
        BY <3>0, <4>1 DEF AppsIInv, Traced
      <4> QED BY <1>7, <1>9, <3>2, <4>2
    <3> QED BY <3>1, <3>2
  <2>2. ASSUME NEW d \in Calls, appReq'[d].temp # NoTemp
        PROVE  Claimable(appReq[d].temp)' \/ appReq'[d].temp \in merged' \cup forgotten'
    <3>1. PICK s \in Temps : appReq'[d].temp = s
      BY <1>3, <2>2, AppRequestFields
    <3>2. Claimable(s)' \/ s \in merged' \cup forgotten'
      BY <2>1, <3>1
    <3> QED BY <3>1, <3>2 DEF Claimable
  <2>3. ASSUME NEW a \in Rows, apps'[a].temp \in merged'
        PROVE  apps'[a].author # Nobody \/ apps'[a].temp \in forgotten'
    <3>1. CASE apps'[a] = apps[a] /\ (apps[a].temp # t \/ t \in forgotten')
      <4>1. CASE apps[a].temp = t
        BY <3>1, <4>1
      <4>2. CASE apps[a].temp # t
        <5>1. apps[a].temp \in merged
          BY <1>7, <2>3, <3>1, <4>2
        <5>2. apps[a].author # Nobody \/ apps[a].temp \in forgotten
          BY <5>1 DEF AppsIInv, Traced
        <5> QED BY <1>7, <3>1, <5>2
      <4> QED BY <4>1, <4>2
    <3>2. CASE apps'[a].author = u
      BY <1>2, <3>2
    <3> QED BY <1>6, <3>1, <3>2
  <2> QED BY <1>4, <2>2, <2>3 DEF Traced
<1>18. RowsAreTrue'
  <2> SUFFICES ASSUME NEW a \in Rows
               PROVE  /\ apps'[a].temp \in {NoTemp, apps'[a].under}
                      /\ apps'[a].writer # Nobody /\ apps'[a].under # NoTemp =>
                            <<apps'[a].writer, apps'[a].under>> \in presented
    BY <1>1, <1>4 DEF RowsAreTrue
  <2>1. /\ apps[a].temp \in {NoTemp, apps[a].under}
        /\ apps[a].writer # Nobody /\ apps[a].under # NoTemp =>
              <<apps[a].writer, apps[a].under>> \in presented
    BY DEF AppsIInv, RowsAreTrue
  <2> QED BY <1>6, <2>1
<1>19. \A d \in Calls : RequestOfBrowser(d)'
  <2>1. ASSUME NEW d \in Calls, d # c PROVE RequestOfBrowser(d)'
    <3>1. appReq'[d] = appReq[d] /\ RequestOfBrowser(d)
      BY <1>3, <2>1 DEF AppsIInv
    <3> QED BY <1>1, <1>4, <1>7, <3>1 DEF RequestOfBrowser, Merging
  <2>2. RequestOfBrowser(c)'
    <3>1. CASE n = NoRequest
      BY <3>1, IdleFacts DEF RequestOfBrowser, Merging
    <3>2. CASE q.step # "idle" /\ n # NoRequest
      <4>1. q.step = "answer"
        BY <1>0, <1>1, <3>2, AppRequestFields DEF RequestOfBrowser, AppSteps
      <4> QED BY <1>0, <1>1, <1>2, <1>3, <1>4, <1>7, <3>2, <4>1 DEF RequestOfBrowser, Merging
    <3> QED BY <1>3, <3>1, <3>2
  <2> QED BY <2>1, <2>2
<1> QED BY <1>8, <1>10, <1>11, <1>12, <1>14, <1>15, <1>16, <1>17, <1>18, <1>19
        DEF AppsIInv, ApplicationsAreKept

-------------------------------------------------------------------------------
(* The handlers, which all return through the middleware. *)

LEMMA RefuseApplicationKeeps ==
    ASSUME AppsIInv, NEW c \in Calls, appReq[c].step = "handle", RefuseApplication(c),
           UNCHANGED <<session, temp, merged, kept>>, asked' = asked
    PROVE  AppsIInv'
<1>1. /\ RequestOfBrowser(c) /\ appReq[c] \in AppRequest
      /\ UNCHANGED <<apps, nextApp, forgotten>> /\ TempSessionMiddleware(c, appReq[c])
  BY DEF AppsIInv, ApplicationsAreKept, AppsTypeOK, RefuseApplication
<1>2. MayHand(c, appReq[c]) /\ Inserts(appReq[c]) /\ MayList(c, appReq[c].shown)
  BY <1>1 DEF MayHand, Inserts, MayList, RequestOfBrowser
<1> QED BY <1>1, <1>2, MiddlewareKeeps

LEMMA CreateApplicationKeeps ==
    ASSUME AppsIInv, NEW c \in Calls, CreateApplication(c), asked' = asked
    PROVE  AppsIInv'
<1>1. /\ RequestOfBrowser(c) /\ appReq[c].step = "handle" /\ appReq[c] \in AppRequest
      /\ UNCHANGED <<session, temp, merged, kept>>
  BY DEF AppsIInv, ApplicationsAreKept, CreateApplication, AppsTypeOK
<1>2. CASE RefuseApplication(c)
  BY <1>1, <1>2, RefuseApplicationKeeps
<1>3. CASE ~ RefuseApplication(c)
  <2>1. nextApp \in AppIds /\ nextApp' = nextApp + 1
    BY <1>3 DEF CreateApplication
  <2>2. PICK q \in Identified(appReq[c]) :
           /\ TempSessionMiddleware(c, q)
           /\ \/ /\ apps' = [a \in Rows \cup {nextApp} |-> IF a \in Rows THEN apps[a] ELSE Row(q)]
                 /\ forgotten' = forgotten \cup Late(q)
              \/ UNCHANGED <<apps, forgotten>>
    BY <1>3 DEF CreateApplication
  <2>3. ~ appReq[c].fresh /\ appReq[c].shown = {}
    BY <1>1 DEF RequestOfBrowser
  <2>4. /\ MayHand(c, q) /\ q.shown = {}
        /\ q.user # Nobody \/ q.temp # NoTemp
    <3>1. CASE appReq[c].user = Nobody /\ appReq[c].temp = NoTemp
      <4>1. PICK t \in UnusedTemps : q = [appReq[c] EXCEPT !.temp = t, !.fresh = TRUE]
        BY <3>1 DEF Identified
      <4>2. t \in Temps /\ t # NoTemp
        BY UnusedTempsFacts, NullAssumption
      <4>3. /\ q \in AppRequest /\ q.user = appReq[c].user /\ q.temp = t
            /\ q.browser = appReq[c].browser /\ q.fresh = TRUE /\ q.shown = appReq[c].shown
        BY <1>1, <4>1, <4>2, FreshFacts
      <4> QED BY <2>3, <3>1, <4>2, <4>3 DEF MayHand
    <3>2. CASE ~ (appReq[c].user = Nobody /\ appReq[c].temp = NoTemp)
      <4>1. q = appReq[c]
        BY <3>2 DEF Identified
      <4> QED BY <1>1, <2>3, <3>2, <4>1 DEF MayHand
    <3> QED BY <3>1, <3>2
  <2>5. Inserts(q) /\ MayList(c, q.shown)
    BY <2>1, <2>2, <2>4 DEF Inserts, MayList
  <2>6. TempSessionMiddleware(c, q) /\ appReq[c].step \in {"handle", "query"} /\ MayHand(c, q)
    BY <1>1, <2>2, <2>4
  <2> QED BY <1>1, <2>5, <2>6, MiddlewareKeeps
<1> QED BY <1>2, <1>3

(* What GetApplicationsByUser finds the user wrote himself, or presented   *)
(* the temporary session it was written under; or both carry one that was  *)
(* not taken back in time.                                                 *)
LEMMA GetApplicationsKeeps ==
    ASSUME AppsIInv, NEW c \in Calls, GetApplications(c), asked' = asked
    PROVE  AppsIInv'
<1> DEFINE L == IF appReq[c].user \in Admins THEN GetAllApplications
                                             ELSE GetApplicationsByUser(appReq[c])
<1>0. PICK S \in {L, {}} : TempSessionMiddleware(c, [appReq[c] EXCEPT !.shown = S])
  BY DEF GetApplications
<1> DEFINE q == [appReq[c] EXCEPT !.shown = S]
<1>1. /\ AppsTypeOK /\ RequestOfBrowser(c) /\ appReq[c].step = "query" /\ appReq[c] \in AppRequest
      /\ UNCHANGED <<session, temp, merged, kept>> /\ UNCHANGED <<apps, nextApp, forgotten>>
      /\ TempSessionMiddleware(c, q)
  BY <1>0 DEF AppsIInv, ApplicationsAreKept, GetApplications, AppsTypeOK
<1>2. L \subseteq Rows
  BY DEF GetAllApplications, GetApplicationsByUser
<1>3. S \subseteq L /\ S \in SUBSET AppIds
  BY <1>0, <1>1, <1>2, MaxAppsAssumption DEF AppsTypeOK, AppIds
<1>4. /\ q \in AppRequest
      /\ q.step = appReq[c].step /\ q.merge = appReq[c].merge /\ q.browser = appReq[c].browser
      /\ q.user = appReq[c].user /\ q.temp = appReq[c].temp
      /\ q.fresh = appReq[c].fresh /\ q.shown = S
  BY <1>1, <1>3, ShownFacts
<1> HIDE DEF q, L
<1>5. Merging(appReq[c]) => <<appReq[c].user, appReq[c].temp>> \in presented'
  BY <1>1, <1>4, MiddlewareFacts DEF Merging
<1>6. presented \subseteq presented'
  BY <1>1, <1>4, MiddlewareFacts
<1>7. ASSUME NEW a \in L, appReq[c].user \notin Admins
      PROVE  LET u == appReq[c].user
             IN  \/ apps[a].writer = u
                 \/ apps[a].writer = Nobody /\ <<u, apps[a].under>> \in presented'
                 \/ apps[a].under \in kept
  <2>1. a \in Rows /\ apps[a] \in App
    BY <1>1, <1>2 DEF AppsTypeOK
  <2>2. \/ appReq[c].user # Nobody /\ apps[a].author = appReq[c].user
        \/ appReq[c].temp # NoTemp /\ apps[a].temp = appReq[c].temp
    BY <1>7 DEF L, GetApplicationsByUser
  <2>3. CASE appReq[c].user # Nobody /\ apps[a].author = appReq[c].user
    BY <1>6, <2>1, <2>3 DEF AppsIInv, ApplicationsAreKept, AuthorPresentedIt
  <2>4. CASE appReq[c].temp # NoTemp /\ apps[a].temp = appReq[c].temp
    <3>1. PICK u, t : u = appReq[c].user /\ t = appReq[c].temp
      OBVIOUS
    <3>2. u \in Users /\ u # Nobody /\ t \in Temps /\ Merging(appReq[c])
      BY <1>1, <2>4, <3>1, AppRequestFields DEF RequestOfBrowser, Merging
    <3>3. apps[a].under = t
      BY <2>1, <2>4, <3>1 DEF AppsIInv, RowsAreTrue
    <3>4. CASE apps[a].writer = Nobody
      BY <1>5, <3>1, <3>2, <3>3, <3>4
    <3>5. CASE apps[a].writer # Nobody
      <4>1. PICK w \in Users : w = apps[a].writer
        BY <2>1, <3>5 DEF App
      <4>2. <<w, t>> \in presented
        BY <2>1, <2>4, <3>1, <3>3, <3>5, <4>1 DEF AppsIInv, RowsAreTrue
      <4>3. t \in kept \/ u \in {w, Nobody}
        BY <1>1, <3>1, <3>2, <4>1, <4>2 DEF AppsIInv, OnePresents
      <4> QED BY <3>1, <3>2, <3>3, <4>1, <4>3
    <3> QED BY <3>4, <3>5
  <2> QED BY <2>2, <2>3, <2>4
<1>8. MayList(c, q.shown)
  BY <1>2, <1>3, <1>4, <1>7 DEF MayList
<1>9. MayHand(c, q) /\ Inserts(q)
  BY <1>1, <1>4 DEF MayHand, Inserts, RequestOfBrowser
<1> QED BY <1>1, <1>8, <1>9, MiddlewareKeeps

LEMMA AppHandlerKeeps ==
    ASSUME AppsIInv, NEW c \in Calls, Handler(c), asked' = asked
    PROVE  AppsIInv'
<1>1. CASE CreateApplication(c)
  BY <1>1, CreateApplicationKeeps
<1>2. CASE GetApplicationsRole(c)
  <2>1. CASE RefuseApplication(c)
    BY <1>2, <2>1, RefuseApplicationKeeps DEF GetApplicationsRole
  <2> QED BY <1>2, <2>1, GetApplicationsRoleKeeps
<1>3. CASE GetApplications(c)
  BY <1>3, GetApplicationsKeeps
<1>4. CASE UpdateApplicationText(c) \/ UpdateApplicationStatus(c)
  BY <1>4, RefuseApplicationKeeps DEF UpdateApplicationText, UpdateApplicationStatus
<1> QED BY <1>1, <1>2, <1>3, <1>4 DEF Handler

-------------------------------------------------------------------------------
(* The theorems. *)

LEMMA AppsInitIInv == AppsInit => AppsIInv
<1> SUFFICES ASSUME AppsInit PROVE AppsIInv
  OBVIOUS
<1>1. /\ Rows = {} /\ nextApp = 1 /\ asked = 0
      /\ merged = {} /\ presented = {} /\ kept = {} /\ forgotten = {}
  BY DEF AppsInit, Rows
<1>2. /\ \A b \in Clients : session[b] = Nobody /\ temp[b] = NoTemp
      /\ \A c \in Calls : appReq[c] = NoRequest
  BY DEF AppsInit
<1>3. AppsTypeOK
  <2>1. appReq \in [Calls -> AppRequest]
    BY IdleFacts DEF AppsInit
  <2> QED BY <1>1, <2>1, MaxAppsAssumption DEF AppsInit, AppsTypeOK
<1>4. NoApplicationLost /\ AuthorPresentedIt /\ ListsOnlyTheirs /\ RowsAreTrue
  BY <1>1, <1>2, IdleFacts DEF NoApplicationLost, AuthorPresentedIt, ListsOnlyTheirs, RowsAreTrue
<1>5. OneHome
  BY <1>2, IdleFacts, NullAssumption DEF OneHome, Holds, Carries
<1>6. OnePresents /\ FreshIsNew /\ Traced
  BY <1>1, <1>2, IdleFacts DEF OnePresents, FreshIsNew, Traced
<1>7. \A c \in Calls : RequestOfBrowser(c)
  BY <1>2, IdleFacts DEF RequestOfBrowser
<1> QED BY <1>3, <1>4, <1>5, <1>6, <1>7 DEF AppsIInv, ApplicationsAreKept

LEMMA AppsNextIInv == AppsIInv /\ [AppsNext]_appsVars => AppsIInv'
<1> SUFFICES ASSUME AppsIInv, [AppsNext]_appsVars PROVE AppsIInv'
  OBVIOUS
<1>1. ASSUME NEW c \in Calls, NEW b \in Clients, NEW op \in AppOps, GetTempSessionID(c, b, op)
      PROVE  AppsIInv'
  BY <1>1, GetTempSessionIDKeeps
<1>2. ASSUME NEW c \in Calls, Handler(c), asked' = asked PROVE AppsIInv'
  BY <1>2, AppHandlerKeeps
<1>3. ASSUME NEW c \in Calls, AnswerArrives(c), asked' = asked PROVE AppsIInv'
  BY <1>3, AnswerKeeps
<1>4. ASSUME NEW c \in Calls, MergeTempSession(c), asked' = asked PROVE AppsIInv'
  BY <1>4, MergeTempSessionKeeps
<1>5. ASSUME NEW b \in Clients, NEW u \in Users \cup {Nobody}, SignIn(b, u) PROVE AppsIInv'
  BY <1>5, SignInKeeps
<1>6. ASSUME NEW b \in Clients, CookieExpires(b) PROVE AppsIInv'
  BY <1>6, CookieExpiresKeeps
<1>7. CASE UNCHANGED appsVars
  BY <1>7 DEF appsVars, history, AppsIInv, ApplicationsAreKept, AppsTypeOK, NoApplicationLost,
     AuthorPresentedIt, ListsOnlyTheirs, OneHome, OnePresents, FreshIsNew, Traced, RowsAreTrue,
     RequestOfBrowser, Holds, Carries, Claimable, Rows, Merging
<1> QED BY <1>1, <1>2, <1>3, <1>4, <1>5, <1>6, <1>7 DEF AppsNext

LEMMA AppsSpecIInv == AppsSpec => []AppsIInv
  BY AppsInitIInv, AppsNextIInv, PTL DEF AppsSpec

(* Applications stay with those who sent them, however the parallel        *)
(* requests of the browsers, lost answers, expiring cookies, users who log *)
(* in and out and late or failing goroutines of TempSessionMiddleware      *)
(* interleave: one is lost between a temporary session and a user in the   *)
(* ways NoApplicationLost lists and in no other; nobody becomes the author *)
(* who did not present its temporary session, and who wrote it as a user   *)
(* stays its author unless two users got hold of that session.             *)
THEOREM KeepsApplications == AppsSpec => []ApplicationsAreKept
<1>1. AppsIInv => ApplicationsAreKept
  BY DEF AppsIInv
<1> QED BY <1>1, AppsSpecIInv, PTL

(* GetApplications shows an ordinary user only what he wrote, or what was  *)
(* written without a user under a temporary session he presented; but what *)
(* comes under a session that was not taken back in time is shown to all   *)
(* who carry it.                                                           *)
THEOREM ListsOnlyOwn == AppsSpec => []ListsOnlyTheirs
<1>1. AppsIInv => ListsOnlyTheirs
  BY DEF AppsIInv
<1> QED BY <1>1, AppsSpecIInv, PTL

(* A temporary session never leaves the browser it was made for, and no    *)
(* two users present one that was taken back in time.                      *)
THEOREM TemporarySessionsStayHome == AppsSpec => [](OneHome /\ OnePresents)
<1>1. AppsIInv => OneHome /\ OnePresents
  BY DEF AppsIInv
<1> QED BY <1>1, AppsSpecIInv, PTL

===============================================================================
