------------------------------- MODULE Processes ------------------------------
(***************************************************************************)
(* The four processes of the system (cmd/main, cmd/auth, cmd/friend,       *)
(* cmd/profile): how they wait for each other when they start              *)
(* (cmd/grpcclient/client.go), how a request of the gateway becomes calls  *)
(* of the services and calls between them, which carry the user along      *)
(* (internal/grpc/middleware.go), and what is measured of it (module       *)
(* Metrics).  What the requests do is the matter of the other modules:     *)
(* here they only take time, call, and succeed or fail.                    *)
(*                                                                         *)
(* A process may die at any time, also because a store cannot be reached   *)
(* when it starts, and is started again or not.  Nobody sets a deadline.   *)
(***************************************************************************)
EXTENDS Metrics, Sequences, FiniteSets

CONSTANTS
    Calls,          \* bound: the requests and calls in progress
    Retries,        \* 10 in the code
    MaxReceived,    \* bound: requests of the gateway
    MaxCrashes,     \* bound: processes that die
    NoCall

ASSUME RetriesAssumption == Retries \in Nat \ {0}
ASSUME CallsAssumption == IsFiniteSet(Calls) /\ NoCall \notin Calls

VARIABLES
    proc,       \* the processes: down, starting (how many of the others they
                \* have reached, attempts at the next one), serving
    call,       \* the requests and calls in progress
    metric,     \* what each process exports
    received,   \* bounds
    crashes,
    panics      \* history: panics of the gateway's handlers since it started

vars == <<proc, call, metric, received, crashes, panics>>

Gateway  == "main"
Services == {"auth", "friend", "profile"}
Procs    == {Gateway} \cup Services

(* Mutation: the profile service waits for the friend service. *)
NeedsEachOther(p) ==
    CASE p = "main"    -> <<"profile", "auth", "friend">>
      [] p = "auth"    -> <<"profile">>
      [] p = "friend"  -> <<"profile", "auth">>
      [] p = "profile" -> <<"friend">>

(* Whom a process connects to before it serves, in this order. *)
Needs(p) ==
    CASE p = "main"    -> <<"profile", "auth", "friend">>
      [] p = "auth"    -> <<"profile">>
      [] p = "friend"  -> <<"profile", "auth">>
      [] p = "profile" -> <<>>

Down     == [state |-> "down", conns |-> 0, tries |-> 0]
Serves(p) == proc[p].state = "serving"

-------------------------------------------------------------------------------
(* Starting. *)

Start(p) ==
    /\ proc[p].state = "down"
    /\ proc' = [proc EXCEPT ![p].state = "starting"]
    /\ metric' = [metric EXCEPT ![p] = IF p = Gateway THEN NewHTTPMetrics ELSE NewGRPCMetrics]
    /\ UNCHANGED <<call, received, crashes, panics>>

(* Mutation: one attempt too many. *)
WaitForGRPCOnceMore(p) ==
    LET s == proc[p]
    IN  /\ s.state = "starting" /\ s.conns < Len(Needs(p))
        /\ proc' = [proc EXCEPT ![p] =
             IF Serves(Needs(p)[s.conns + 1]) THEN [s EXCEPT !.conns = @ + 1, !.tries = 0]
             ELSE IF s.tries < Retries THEN [s EXCEPT !.tries = @ + 1]
             ELSE Down]
        /\ UNCHANGED <<call, metric, received, crashes, panics>>

(* An attempt to connect to the next process; after the last one log.Fatal. *)
WaitForGRPC(p) ==
    LET s == proc[p]
    IN  /\ s.state = "starting" /\ s.conns < Len(Needs(p))
        /\ proc' = [proc EXCEPT ![p] =
             IF Serves(Needs(p)[s.conns + 1]) THEN [s EXCEPT !.conns = @ + 1, !.tries = 0]
             ELSE IF s.tries + 1 < Retries THEN [s EXCEPT !.tries = @ + 1]
             ELSE Down]
        /\ UNCHANGED <<call, metric, received, crashes, panics>>

(* The gateway listens for HTTP, a service for gRPC. *)
Listen(p) ==
    /\ proc[p].state = "starting" /\ proc[p].conns = Len(Needs(p))
    /\ proc' = [proc EXCEPT ![p] = [Down EXCEPT !.state = "serving"]]
    /\ UNCHANGED <<call, metric, received, crashes, panics>>

-------------------------------------------------------------------------------
(* Requests and calls.  got is the status of the last call that was made,  *)
(* calls how many there were; a request starts in the middleware that      *)
(* looks for the session.                                                  *)

Anonymous == 0
User      == 1

(* The context of a request, and how it passes from process to process: as *)
(* metadata, of which the server takes the user and only logs the id of    *)
(* the request.                                                            *)
LoggingMiddleware == [user |-> Anonymous, requestID |-> "uuid"]

ClientUnaryInterceptor(ctx) == [userID |-> ctx.user, requestID |-> ctx.requestID]

(* Mutation: the user does not get into the context of the server. *)
ServerUnaryInterceptorAnonymous(md) == [user |-> Anonymous, requestID |-> ""]

ServerUnaryInterceptor(md) == [user |-> md.userID, requestID |-> ""]

NoCtx == [user |-> Anonymous, requestID |-> ""]
Free  == [at |-> "", parent |-> NoCall, ctx |-> NoCtx, stage |-> "auth", got |-> "OK", calls |-> 0]

InProgress(c) == call[c].at # ""
Waits(c)      == \E d \in Calls : call[d].parent = c
Runs(c)       == InProgress(c) /\ ~Waits(c)

(* Bound: a middleware asks for the session once, and a handler makes one  *)
(* call at most.                                                           *)
MayCall(c, q) ==
    /\ call[c].got = "OK" /\ call[c].calls = 0
    /\ q \in {Needs(call[c].at)[i] : i \in 1..Len(Needs(call[c].at))}
    /\ call[c].stage # "handle" => q = "auth"

Receive(c) ==
    /\ Serves(Gateway) /\ ~InProgress(c) /\ call[c].parent = NoCall
    /\ received < MaxReceived /\ received' = received + 1
    /\ call' = [call EXCEPT ![c] = [Free EXCEPT !.at = Gateway, !.ctx = LoggingMiddleware]]
    /\ metric' = [metric EXCEPT ![Gateway] = Entered(@)]
    /\ UNCHANGED <<proc, crashes, panics>>

(* A call from c as d to process q.  A process that does not serve is an   *)
(* error at once.                                                          *)
Invoke(c, d, q) ==
    /\ Runs(c) /\ MayCall(c, q)
    /\ \/ /\ Serves(q) /\ ~InProgress(d)
          /\ call' = [call EXCEPT
                ![c].calls = 1,
                ![d] = [Free EXCEPT !.at = q, !.parent = c, !.stage = "handle",
                           !.ctx = ServerUnaryInterceptor(ClientUnaryInterceptor(call[c].ctx))]]
          /\ metric' = [metric EXCEPT ![q] = Entered(@)]
       \/ /\ ~Serves(q) /\ d = c
          /\ call' = [call EXCEPT ![c].calls = 1, ![c].got = "Unavailable"]
          /\ UNCHANGED metric
    /\ UNCHANGED <<proc, received, crashes, panics>>

(* AuthMiddleware lets a request pass: with the user of the session, or    *)
(* without one on some paths, if there is no session or no cookie.  Some   *)
(* routers have it a second time, and none of their paths is open to       *)
(* everybody.                                                              *)
AuthMiddleware(c) ==
    /\ Runs(c) /\ call[c].at = Gateway /\ call[c].stage # "handle"
    /\ \E u \in {Anonymous, User}, next \in {"again", "handle"} :
          /\ IF u = User THEN call[c].calls = 1 /\ call[c].got = "OK"
             ELSE call[c].calls = 0 \/ call[c].got = "NotFound"
          /\ call[c].stage = "again" => u = User /\ next = "handle"
          /\ u = Anonymous => next = "handle"
          /\ call' = [call EXCEPT ![c].stage = next, ![c].calls = 0, ![c].got = "OK",
                                  ![c].ctx.user = u]
    /\ UNCHANGED <<proc, metric, received, crashes, panics>>

Outcomes ==
    {Ok, "ErrNotFound", "ErrInvalidInput", "ErrAccessDenied", "ErrAlreadyExists", "ErrService",
     "ErrDB"}

(* Mutation: a service repeats a call that failed until it succeeds. *)
ReturnRetries(d) ==
    /\ Runs(d) /\ call[d].at \in Services
    /\ \E err \in Outcomes :
          LET status == IF err = Ok THEN "OK" ELSE ToGrpcError(err)
              back   == [call EXCEPT ![d] = Free]
          IN  IF call[d].got = "OK"
              THEN /\ metric' = [metric EXCEPT ![call[d].at] = UnaryServerInterceptor(@, status)]
                   /\ call' = IF call[d].parent = NoCall THEN back
                              ELSE [back EXCEPT ![call[d].parent].got = status]
              ELSE /\ call' = [call EXCEPT ![d].got = "OK", ![d].calls = 0]
                   /\ UNCHANGED metric
    /\ UNCHANGED <<proc, received, crashes, panics>>

(* A service answers; an error of a call it made is ErrDB. *)
Return(d) ==
    /\ Runs(d) /\ call[d].at \in Services
    /\ \E err \in IF call[d].got = "OK" THEN Outcomes ELSE {"ErrDB"} :
          LET status == IF err = Ok THEN "OK" ELSE ToGrpcError(err)
              back   == [call EXCEPT ![d] = Free]
          IN  /\ metric' = [metric EXCEPT ![call[d].at] = UnaryServerInterceptor(@, status)]
              /\ call' = IF call[d].parent = NoCall THEN back
                         ELSE [back EXCEPT ![call[d].parent].got = status]
    /\ UNCHANGED <<proc, received, crashes, panics>>

(* What the WebSocket library answers to a handshake it refuses, to a      *)
(* method other than GET among others; /api/ws is open to every method.  A *)
(* connection that was hijacked counts as 200.                             *)
UpgradeCodes == {200, 400, 405, 500}

(* The code of a handler: the status it got, converted or (in two          *)
(* handlers) not, or an error of its own.                                  *)
HandlerCodes(got) ==
    IF got = "OK" THEN UpgradeCodes \cup {MapErrorToHTTP(err) : err \in Outcomes \ {Ok}}
    ELSE {MapErrorToHTTP(FromGrpcError(got)), MapErrorToHTTP(got)}

MiddlewareCodes(got) == IF got \in {"OK", "NotFound"} THEN {403} ELSE {500}

(* What answers without asking for a session, but under the middleware of  *)
(* the metrics: files (http.ServeFile with its ranges and preconditions),  *)
(* the documentation, /metrics, /health and the answer to OPTIONS.         *)
OpenCodes == {200, 206, 301, 304, 400, 403, 404, 405, 412, 416, 500}

AnswerCodes(c) ==
    IF call[c].stage = "handle" THEN HandlerCodes(call[c].got)
    ELSE MiddlewareCodes(call[c].got)
           \cup (IF call[c].stage = "auth" /\ call[c].calls = 0 THEN OpenCodes ELSE {})

Respond(c) ==
    /\ Runs(c) /\ call[c].at = Gateway
    /\ \E code \in AnswerCodes(c) :
          metric' = [metric EXCEPT ![Gateway] = HTTPMiddleware(@, code)]
    /\ call' = [call EXCEPT ![c] = Free]
    /\ UNCHANGED <<proc, received, crashes, panics>>

(* A handler panics after a call: GetApplications if it failed, Logout if  *)
(* it succeeded but the browser has no CSRF cookie.  net/http ends the     *)
(* request.                                                                *)
Panic(c) ==
    /\ Runs(c) /\ call[c].at = Gateway /\ call[c].stage = "handle" /\ call[c].calls = 1
    /\ call[c].got = "OK" => call[c].ctx.user = User
    /\ call' = [call EXCEPT ![c] = Free]
    /\ panics' = panics + 1
    /\ UNCHANGED <<proc, metric, received, crashes>>

-------------------------------------------------------------------------------
(* A process dies with its requests and its metrics.  Its callers get an   *)
(* error, and what it called ends with nobody to answer to.                *)
Crash(p) ==
    LET dead == {c \in Calls : call[c].at = p}
    IN  /\ proc[p].state # "down"
        /\ crashes < MaxCrashes /\ crashes' = crashes + 1
        /\ proc' = [proc EXCEPT ![p] = Down]
        /\ call' = [c \in Calls |->
              IF c \in dead THEN Free
              ELSE [call[c] EXCEPT
                      !.parent = IF @ \in dead THEN NoCall ELSE @,
                      !.got = IF \E d \in dead : call[d].parent = c THEN "Unavailable" ELSE @]]
        /\ metric' = [metric EXCEPT ![p] = Zero]
        /\ panics' = IF p = Gateway THEN 0 ELSE panics
        /\ UNCHANGED received

Init ==
    /\ proc = [p \in Procs |-> Down]
    /\ call = [c \in Calls |-> Free]
    /\ metric = [p \in Procs |-> Zero]
    /\ received = 0 /\ crashes = 0 /\ panics = 0

Boot(p) == WaitForGRPC(p) \/ Listen(p)

(* AuthMiddleware, a call, an answer: what the goroutine of c does next. *)
Advance(c) ==
    \/ AuthMiddleware(c) \/ \E d \in Calls, q \in Services : Invoke(c, d, q)
    \/ Return(c) \/ Respond(c) \/ Panic(c)

Next ==
    \/ \E p \in Procs : Start(p) \/ Boot(p) \/ Crash(p)
    \/ \E c \in Calls : Receive(c) \/ Advance(c)

Spec == Init /\ [][Next]_vars

(* A process that is starting goes on, and so does a request.  Nothing     *)
(* says that a process that is down is started again.                      *)
FairSpec ==
    /\ Spec
    /\ \A p \in Procs : WF_vars(Boot(p))
    /\ \A c \in Calls : WF_vars(Advance(c))

-------------------------------------------------------------------------------
(* Properties. *)

ProcessType ==
    [state : {"down", "starting", "serving"}, conns : Nat, tries : Nat]

ContextType == [user : {Anonymous, User}, requestID : {"", "uuid"}]
Statuses    == {"OK", "Unavailable"} \cup {ToGrpcError(err) : err \in Outcomes \ {Ok}}

CallType ==
    [at : Procs \cup {""}, parent : Calls \cup {NoCall}, ctx : ContextType,
     stage : {"auth", "again", "handle"}, got : Statuses, calls : 0..1]

AttemptsBounded == \A p \in Procs : proc[p].conns <= Len(Needs(p)) /\ proc[p].tries < Retries

CallersWork ==
    \A c \in Calls :
       /\ InProgress(c) => Serves(call[c].at)
       /\ call[c].parent # NoCall => InProgress(call[c].parent) /\ call[c].at \in Services

(* Processes give up after the last attempt, calls are made by somebody in *)
(* progress, and only processes that serve have any.                       *)
TypeOK ==
    /\ proc \in [Procs -> ProcessType]
    /\ call \in [Calls -> CallType]
    /\ metric \in [Procs -> MetricType]
    /\ received \in Nat /\ crashes \in Nat /\ panics \in Nat
    /\ AttemptsBounded /\ CallersWork

(* The gauge of requests in flight of a process never shows less than the  *)
(* requests it works on, and only a panic of one of the gateway's handlers *)
(* can make it show more: then it stays too high until the gateway is      *)
(* started again, whatever the help text of the gauge says.                *)
InFlightIsRight ==
    \A p \in Procs :
       LET working == Cardinality({c \in Calls : call[c].at = p})
       IN  /\ metric[p].inFlight >= working
           /\ metric[p].inFlight = working \/ (p = Gateway /\ panics > 0)

(* What InFlightIsRight needs to be inductive: every panic of the gateway  *)
(* that runs now leaves its gauge one too high.                            *)
PanicsOfThisRun == ~Serves(Gateway) => panics = 0

GaugesCount ==
    \A p \in Procs :
       metric[p].inFlight = Cardinality({c \in Calls : call[c].at = p})
                              + (IF p = Gateway THEN panics ELSE 0)

(* The errors whose type blames the client, and those that blame the       *)
(* server: HTTP's types first, then those of gRPC.                         *)
ClientErrors(m) ==
    LET e == m.errors
    IN  (e["bad_request"] + e["unauthorized"] + e["forbidden"] + e["not_found"] + e["timeout"]
           + e["conflict"])
          + (e["validation_error"] + e["rate_limit"] + e["client_error"]
               + e["invalid_argument"] + e["already_exists"] + e["permission_denied"])

ServerErrors(m) ==
    LET e == m.errors
    IN  e["server_error"] + e["unknown"] + e["unavailable"] + e["internal"]

Classified(m) ==
    /\ m.total["4xx"] = ClientErrors(m) /\ m.total["5xx"] = ServerErrors(m)
    /\ m.total["unknown"] = 0 /\ m.errors["unknown_error"] = 0

(* The two tables that every process classifies its answers by agree: the  *)
(* errors whose type blames the client are the answers of class 4xx, those *)
(* whose type blames the server the ones of class 5xx, and no answer has   *)
(* an unknown class or type.  That is so of HTTP codes (those without a    *)
(* type of their own, as 405 and 416, are client errors), of gRPC          *)
(* statuses, of what the conversions between them make, and of the status  *)
(* of a process that is gone.                                              *)
ErrorsAreClassified == \A p \in Procs : Classified(metric[p])

(* A call is made in the name of the user of its request, over any number  *)
(* of processes.                                                           *)
CallsCarryTheUser ==
    \A c \in Calls :
       call[c].parent # NoCall => call[c].ctx.user = call[call[c].parent].ctx.user

(* The inductive invariant of the proofs (module ProcessesProofs). *)
IInv == TypeOK /\ CallsCarryTheUser /\ PanicsOfThisRun /\ GaugesCount

(* No process waits for another in a circle: if everybody who is down is   *)
(* started again sooner or later, however often they give up on each       *)
(* other, then in the end all of them serve.                               *)
EveryoneServes ==
    (\A p \in Procs : []<>(proc[p].state # "down")) => <>[](\A p \in Procs : Serves(p))

(* Every request ends although no call has a deadline, also if any process *)
(* on its way dies.                                                        *)
RequestsEnd == \A c \in Calls : InProgress(c) ~> ~InProgress(c)

===============================================================================
