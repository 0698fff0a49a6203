----------------------------- MODULE Applications -----------------------------
(***************************************************************************)
(* Applications to the support (service/application.go,                    *)
(* repository/db/application.go, handler/application.go) and the temporary *)
(* session of an anonymous author (TempSessionMiddleware in                *)
(* handler/middleware.go).                                                 *)
(*                                                                         *)
(* Who is not logged in writes under a temporary session, which is a       *)
(* cookie.  The first request that carries both that cookie and a user     *)
(* takes the cookie back, and a goroutine that outlives the request gives  *)
(* the applications of the temporary session to the user.  A browser may   *)
(* have several requests under way, and meanwhile its user may change and  *)
(* its cookie expire.                                                      *)
(***************************************************************************)
EXTENDS Errors, FiniteSets

CONSTANTS
    Clients,    \* the browsers
    Calls,      \* the requests that may be in progress at the same time
    Users,
    Admins,
    Temps,      \* bound: the temporary sessions that are ever made
    MaxApps,    \* bound: the ids the identity column hands out
    MaxAsked,   \* bound: the requests that are ever sent
    Nobody, NoTemp, NoClient

ASSUME AdminsAssumption == Admins \subseteq Users
ASSUME NullAssumption == Nobody \notin Users /\ NoTemp \notin Temps
ASSUME MaxAppsAssumption == MaxApps \in Nat /\ MaxAsked \in Nat

VARIABLES
    apps,       \* the table applications
    nextApp,    \* the next value of its identity column
    session,    \* the user who is logged in at a browser (see Accounts)
    temp,       \* the cookie temp_session_id of a browser
    appReq,     \* the requests, each with the goroutine it starts
    asked,      \* how many were sent
    merged,     \* history: the temporary sessions that were merged
    presented,  \* history: the merges that were started, as <<user, temp>>
    kept,       \* history: temporary sessions that were not taken back in time
    forgotten   \* history: temporary sessions nobody can use any more

history  == <<merged, presented, kept, forgotten>>
appsVars == <<apps, nextApp, session, temp, appReq, asked, history>>

AppIds == 1..MaxApps

(* A row; who wrote it, and under which temporary session (history). *)
App == [author : Users \cup {Nobody}, temp : Temps \cup {NoTemp},
        writer : Users \cup {Nobody}, under : Temps \cup {NoTemp}]

AppOps   == {"create", "list", "update"}
AppSteps == {"idle", "handle", "query", "answer"}

(* What the context of a request holds: TempSessionInfo; whether the       *)
(* answer sets a fresh cookie; which applications it lists; whether its    *)
(* goroutine has yet to merge.                                             *)
AppRequest == [op : AppOps, browser : Clients \cup {NoClient}, step : AppSteps,
               user : Users \cup {Nobody}, temp : Temps \cup {NoTemp}, fresh : BOOLEAN,
               shown : SUBSET AppIds, merge : BOOLEAN]

NoRequest == [op |-> "update", browser |-> NoClient, step |-> "idle", user |-> Nobody,
              temp |-> NoTemp, fresh |-> FALSE, shown |-> {}, merge |-> FALSE]

Rows == DOMAIN apps

-------------------------------------------------------------------------------
(* The middleware. *)

(* uuids that were never used. *)
UnusedTemps == {t \in Temps : /\ \A a \in Rows : apps[a].under # t
                              /\ \A b \in Clients : temp[b] # t
                              /\ \A c \in Calls : appReq[c].temp # t
                              /\ \A u \in Users : <<u, t>> \notin presented
                              /\ t \notin merged \cup forgotten}

(* Two users present one temporary session, or may come to. *)
Overlap(b) ==
    {t \in {temp[b]} \ {NoTemp} :
        /\ session[b] # Nobody
        /\ \E c \in Calls : /\ appReq[c].step # "idle" /\ appReq[c].temp = t
                            /\ appReq[c].user \notin {session[b], Nobody}}

(* A request is sent: GetTempSessionID reads its cookie, AuthMiddleware    *)
(* its session.                                                            *)
GetTempSessionID(c, b, op) ==
    /\ appReq[c] = NoRequest
    /\ asked < MaxAsked
    /\ asked' = asked + 1
    /\ appReq' = [appReq EXCEPT ![c] = [NoRequest EXCEPT !.op = op, !.browser = b,
                       !.step = "handle", !.user = session[b], !.temp = temp[b]]]
    /\ kept' = kept \cup Overlap(b)
    /\ UNCHANGED <<apps, nextApp, session, temp, merged, presented, forgotten>>

(* Mutation: only the user is looked at. *)
MergingWithoutTemp(q) == q.user # Nobody

(* The request has both identities. *)
Merging(q) == q.user # Nobody /\ q.temp # NoTemp

Back(c, q, merge) == [appReq EXCEPT ![c] = [q EXCEPT !.step = "answer", !.op = NoRequest.op,
                                                     !.merge = merge]]

(* Mutation: the cookie is taken back and nothing else. *)
TempSessionMiddlewareForgets(c, q) == appReq' = Back(c, q, FALSE) /\ UNCHANGED presented

(* The way back through TempSessionMiddleware: the handler has returned    *)
(* (with q in its context), the goroutine is started.                      *)
TempSessionMiddleware(c, q) ==
    /\ appReq' = Back(c, q, Merging(q))
    /\ presented' = IF Merging(q) THEN presented \cup {<<q.user, q.temp>>} ELSE presented

(* The request is over; its goroutine may not be. *)
Done(c) == appReq' = [appReq EXCEPT ![c] =
                        IF @.merge THEN [@ EXCEPT !.step = "idle", !.shown = {}, !.browser = NoClient]
                        ELSE NoRequest]

(* The answer takes back a cookie, whichever it is by now, or sets one. *)
SetCookie(c) ==
    LET q == appReq[c]
        b == q.browser
    IN  IF Merging(q) \/ q.fresh
          THEN /\ temp' = [temp EXCEPT ![b] = IF Merging(q) THEN NoTemp ELSE q.temp]
               /\ forgotten' = forgotten \cup ({temp[b]} \ {q.temp, NoTemp})
          ELSE UNCHANGED <<temp, forgotten>>

(* It never reaches the browser. *)
LostAnswer(c) ==
    LET q == appReq[c]
    IN  /\ forgotten' = IF q.fresh THEN forgotten \cup {q.temp} ELSE forgotten
        /\ kept' = IF Merging(q) THEN kept \cup {q.temp} ELSE kept
        /\ UNCHANGED temp

AnswerArrives(c) ==
    /\ appReq[c].step = "answer"
    /\ \/ SetCookie(c) /\ UNCHANGED kept
       \/ LostAnswer(c)
    /\ Done(c)
    /\ UNCHANGED <<apps, nextApp, session, merged, presented>>

(* The handler panics: no answer, no cookie, no goroutine. *)
Panic(c) == appReq' = [appReq EXCEPT ![c] = NoRequest] /\ UNCHANGED presented

-------------------------------------------------------------------------------
(* The handlers. *)

(* CreateApplication of the handler gives an author without any identity a *)
(* fresh temporary session.                                                *)
Identified(q) ==
    IF q.user = Nobody /\ q.temp = NoTemp
      THEN {[q EXCEPT !.temp = t, !.fresh = TRUE] : t \in UnusedTemps} ELSE {q}

Row(q) == [author |-> q.user, temp |-> q.temp, writer |-> q.user, under |-> q.temp]

(* A row that comes after the merge of its temporary session. *)
Late(q) == IF q.user = Nobody THEN {q.temp} \cap merged ELSE {}

(* DecodeJSONBody or DecodeQueryParams refuses the request. *)
RefuseApplication(c) ==
    TempSessionMiddleware(c, appReq[c]) /\ UNCHANGED <<apps, nextApp, forgotten>>

(* CreateApplication of the store: an INSERT with both identities, or an   *)
(* error; the id is taken either way.                                      *)
CreateApplication(c) ==
    /\ appReq[c].step = "handle" /\ appReq[c].op = "create"
    /\ \/ RefuseApplication(c)
       \/ /\ nextApp \in AppIds
          /\ nextApp' = nextApp + 1
          /\ \E q \in Identified(appReq[c]) :
                /\ TempSessionMiddleware(c, q)
                /\ \/ /\ apps' = [a \in Rows \cup {nextApp} |-> IF a \in Rows THEN apps[a] ELSE Row(q)]
                      /\ forgotten' = forgotten \cup Late(q)
                   \/ UNCHANGED <<apps, forgotten>>
    /\ UNCHANGED <<session, temp, merged, kept>>

(* GetApplications of the service asks for the role.  It looks into the    *)
(* response before it looks at the error, so that an error, which every    *)
(* anonymous request gets, is a panic.                                     *)
GetApplicationsRole(c) ==
    /\ appReq[c].step = "handle" /\ appReq[c].op = "list"
    /\ \/ RefuseApplication(c)
       \/ /\ appReq[c].user # Nobody
          /\ appReq' = [appReq EXCEPT ![c].step = "query"]
          /\ UNCHANGED <<apps, nextApp, presented, forgotten>>
       \/ Panic(c) /\ UNCHANGED <<apps, nextApp, forgotten>>
    /\ UNCHANGED <<session, temp, merged, kept>>

(* GetApplications of the store, for an administrator. *)
GetAllApplications == Rows

(* Mutation: NULLs are compared as if they were values. *)
GetApplicationsByUserNulls(q) ==
    {a \in Rows : apps[a].author = q.user \/ apps[a].temp = q.temp}

(* GetApplicationsByUser: author_id = $1 OR temp_session_id = $2, where    *)
(* NULL equals nothing.                                                    *)
GetApplicationsByUser(q) ==
    {a \in Rows : \/ q.user # Nobody /\ apps[a].author = q.user
                  \/ q.temp # NoTemp /\ apps[a].temp = q.temp}

(* All pages of the list at once, or an error. *)
GetApplications(c) ==
    LET q == appReq[c]
        list == IF q.user \in Admins THEN GetAllApplications ELSE GetApplicationsByUser(q)
    IN  /\ q.step = "query"
        /\ \E shown \in {list, {}} : TempSessionMiddleware(c, [q EXCEPT !.shown = shown])
        /\ UNCHANGED <<apps, nextApp, session, temp, merged, kept, forgotten>>

(* The types of the bodies of both updates have no decoder, DecodeJSONBody *)
(* refuses every one of them.  Any other route of /api acts on the state   *)
(* of this module in the same way: it only runs the middleware.            *)
UpdateApplicationText(c) ==
    /\ appReq[c].step = "handle" /\ appReq[c].op = "update"
    /\ RefuseApplication(c)
    /\ UNCHANGED <<session, temp, merged, kept>>

UpdateApplicationStatus(c) ==
    /\ appReq[c].step = "handle" /\ appReq[c].op = "update"
    /\ RefuseApplication(c)
    /\ UNCHANGED <<session, temp, merged, kept>>

-------------------------------------------------------------------------------
(* The goroutine of a request: one UPDATE, or an error that is only logged. *)

Merged(row, u, t) ==
    IF row.temp = t THEN [row EXCEPT !.author = u, !.temp = NoTemp] ELSE row

Ended(c) == appReq' = [appReq EXCEPT ![c] =
                         IF @.step = "idle" THEN NoRequest ELSE [@ EXCEPT !.merge = FALSE]]

(* Mutation: the UPDATE has no WHERE. *)
MergeTempSessionAll(c) ==
    /\ appReq[c].merge
    /\ Ended(c)
    /\ merged' = merged \cup {appReq[c].temp}
    /\ apps' = [a \in Rows |-> [apps[a] EXCEPT !.author = appReq[c].user, !.temp = NoTemp]]
    /\ UNCHANGED <<nextApp, session, temp, presented, kept, forgotten>>

MergeTempSession(c) ==
    LET u == appReq[c].user
        t == appReq[c].temp
    IN  /\ appReq[c].merge
        /\ Ended(c)
        /\ \/ /\ apps' = [a \in Rows |-> Merged(apps[a], u, t)]
              /\ merged' = merged \cup {t}
              /\ UNCHANGED forgotten
           \/ /\ forgotten' = forgotten \cup {t}
              /\ UNCHANGED <<apps, merged>>
        /\ UNCHANGED <<nextApp, session, temp, presented, kept>>

-------------------------------------------------------------------------------
(* What happens at a browser, whatever it has under way: its user logs in  *)
(* or out (nobody can log in while he is logged in, see Accounts), the     *)
(* cookie expires.                                                         *)

SignIn(b, u) ==
    /\ session[b] = Nobody \/ u = Nobody
    /\ session' = [session EXCEPT ![b] = u]
    /\ UNCHANGED <<apps, nextApp, temp, appReq, asked, history>>

CookieExpires(b) ==
    /\ temp[b] # NoTemp
    /\ temp' = [temp EXCEPT ![b] = NoTemp]
    /\ forgotten' = forgotten \cup {temp[b]}
    /\ UNCHANGED <<apps, nextApp, session, appReq, asked, merged, presented, kept>>

AppsInit ==
    /\ apps = [a \in {} |-> {}]
    /\ nextApp = 1 /\ asked = 0
    /\ session = [b \in Clients |-> Nobody]
    /\ temp = [b \in Clients |-> NoTemp]
    /\ appReq = [c \in Calls |-> NoRequest]
    /\ merged = {} /\ presented = {} /\ kept = {} /\ forgotten = {}

Handler(c) ==
    CreateApplication(c) \/ GetApplicationsRole(c) \/ GetApplications(c)
      \/ UpdateApplicationText(c) \/ UpdateApplicationStatus(c)

AppsNext ==
    \/ \E c \in Calls :
          \/ \E b \in Clients, op \in AppOps : GetTempSessionID(c, b, op)
          \/ (Handler(c) \/ AnswerArrives(c) \/ MergeTempSession(c)) /\ UNCHANGED asked
    \/ \E b \in Clients :
          \/ \E u \in Users \cup {Nobody} : SignIn(b, u)
          \/ CookieExpires(b)

AppsSpec == AppsInit /\ [][AppsNext]_appsVars

-------------------------------------------------------------------------------
(* Properties. *)

(* Rows, cookies, requests and goroutines are well formed: whoever merges  *)
(* has a user and a temporary session.                                     *)
AppsTypeOK ==
    /\ nextApp \in 1..(MaxApps + 1)
    /\ asked \in 0..MaxAsked
    /\ Rows \subseteq 1..(nextApp - 1)
    /\ \A a \in Rows : apps[a] \in App
    /\ session \in [Clients -> Users \cup {Nobody}]
    /\ temp \in [Clients -> Temps \cup {NoTemp}]
    /\ appReq \in [Calls -> AppRequest]
    /\ presented \subseteq Users \X Temps
    /\ merged \subseteq Temps /\ kept \subseteq Temps /\ forgotten \subseteq Temps

(* Who can still claim the applications of a temporary session. *)
Claimable(t) ==
    \/ \E b \in Clients : temp[b] = t
    \/ \E c \in Calls : appReq[c].temp = t /\ (appReq[c].fresh \/ appReq[c].merge)

(* An application is lost on its way from a temporary session to a user in *)
(* no other way than these: the cookie expires, or an answer to another    *)
(* request takes it back or replaces it; the answer that brings it is      *)
(* lost; the merge fails; or the application itself comes late, after its  *)
(* temporary session was merged.  While it has no author it has a          *)
(* temporary session, which otherwise is the cookie of a browser, is on    *)
(* the way there, or is being merged.                                      *)
NoApplicationLost ==
    \A a \in Rows : apps[a].author = Nobody =>
       /\ apps[a].temp # NoTemp
       /\ Claimable(apps[a].temp) \/ apps[a].temp \in forgotten

(* The author of an application wrote it, or presented the temporary       *)
(* session it was written under.  Who wrote it as a user stays its author, *)
(* although a merge overwrites authors; unless another user got hold of    *)
(* the same temporary session, because the answer that should have taken   *)
(* it back was lost or came after his request was sent.                    *)
AuthorPresentedIt ==
    \A a \in Rows :
       LET u == apps[a].author
           t == apps[a].under
           w == apps[a].writer
       IN  u # w => /\ <<u, t>> \in presented
                    /\ w = Nobody \/ t \in kept

(* "Admins see all, normal users see only theirs" (handler/application.go, *)
(* GetApplications).  What a user sees he wrote himself, or it was written *)
(* without a user under a temporary session he presented; what another     *)
(* user wrote he sees only if both got hold of one temporary session, as   *)
(* above.                                                                  *)
ListsOnlyTheirs ==
    \A c \in Calls : \A a \in appReq[c].shown :
       LET u == appReq[c].user
       IN  \/ u \in Admins
           \/ apps[a].writer = u
           \/ apps[a].writer = Nobody /\ <<u, apps[a].under>> \in presented
           \/ apps[a].under \in kept

(* Applications stay with those who sent them, with or without a name. *)
ApplicationsAreKept == AppsTypeOK /\ NoApplicationLost /\ AuthorPresentedIt

-------------------------------------------------------------------------------
(* The inductive invariant (see AccountsProofs). *)

(* A request is at a browser, with the temporary session t. *)
Carries(c, b, t) == appReq[c].step # "idle" /\ appReq[c].browser = b /\ appReq[c].temp = t

(* A temporary session never leaves the browser it was made for. *)
Holds(b, t) == temp[b] = t \/ \E c \in Calls : Carries(c, b, t)

OneHome ==
    \A t \in Temps : \A b, c \in Clients : Holds(b, t) /\ Holds(c, t) => b = c

(* Whoever carries a temporary session as a user, and whoever presented it *)
(* before, is one, or it was not taken back in time; and while it is still *)
(* the cookie of a browser, the answer to the first is on its way.         *)
OnePresents ==
    /\ \A c, d \in Calls :
          /\ appReq[c].step # "idle" /\ appReq[d].step # "idle"
          /\ appReq[c].temp = appReq[d].temp /\ Merging(appReq[c]) /\ Merging(appReq[d])
          => appReq[c].user = appReq[d].user \/ appReq[c].temp \in kept
    /\ \A u \in Users, t \in Temps : <<u, t>> \in presented /\ t \notin kept =>
          /\ \A v \in Users : <<v, t>> \in presented => v = u
          /\ \A c \in Calls : appReq[c].step # "idle" /\ appReq[c].temp = t =>
                appReq[c].user \in {u, Nobody}
          /\ \A b \in Clients : temp[b] = t =>
                \E c \in Calls : /\ appReq[c].step = "answer"
                                 /\ appReq[c].temp = t /\ appReq[c].user = u

(* A temporary session that an answer is to bring is known to nobody else. *)
FreshIsNew ==
    \A c \in Calls : appReq[c].fresh =>
       /\ \A d \in Calls : d # c => appReq[d].temp # appReq[c].temp
       /\ \A b \in Clients : temp[b] # appReq[c].temp
       /\ \A u \in Users : <<u, appReq[c].temp>> \notin presented

(* A temporary session in use can be claimed, unless it was merged or      *)
(* forgotten; what is left of a merged one has an author or is forgotten.  *)
Traced ==
    /\ \A c \in Calls : appReq[c].temp # NoTemp =>
          Claimable(appReq[c].temp) \/ appReq[c].temp \in merged \cup forgotten
    /\ \A a \in Rows : apps[a].temp \in merged =>
          apps[a].author # Nobody \/ apps[a].temp \in forgotten

(* Rows and requests carry what they were sent with. *)
RowsAreTrue ==
    \A a \in Rows :
       /\ apps[a].temp \in {NoTemp, apps[a].under}
       /\ apps[a].writer # Nobody /\ apps[a].under # NoTemp =>
             <<apps[a].writer, apps[a].under>> \in presented

RequestOfBrowser(c) ==
    LET q == appReq[c]
    IN  /\ q.step = "idle" => q.merge \/ q = NoRequest
        /\ q.step \in {"handle", "query"} => ~ q.fresh /\ ~ q.merge /\ q.shown = {}
        /\ q.step = "idle" => q.shown = {}
        /\ q.step # "idle" => q.browser \in Clients
        /\ q.step = "query" => q.user # Nobody
        /\ q.fresh => q.user = Nobody /\ q.temp # NoTemp /\ q.step = "answer"
        /\ q.merge => Merging(q) /\ <<q.user, q.temp>> \in presented
        /\ q.step = "answer" /\ Merging(q) =>
              /\ <<q.user, q.temp>> \in presented
              /\ q.merge \/ q.temp \in merged \cup forgotten
        /\ q.shown \subseteq Rows

AppsIInv ==
    /\ ApplicationsAreKept /\ ListsOnlyTheirs
    /\ OneHome /\ OnePresents /\ FreshIsNew /\ Traced /\ RowsAreTrue
    /\ \A c \in Calls : RequestOfBrowser(c)

===============================================================================
